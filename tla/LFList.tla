------------------------------- MODULE LFList -------------------------------
(***************************************************************************)
(* ut0lflist.cc: the latch-free singly linked list.  One action is one     *)
(* access to memory that other threads use.                                *)
(*                                                                         *)
(* A node is known by its data, which is unique as in test_ut0lflist.cc    *)
(* (producers append the values of a counter, and nobody asks for 0, the   *)
(* data of the dummy head).  The top bit of a next pointer, set_mark, says *)
(* that the node was removed: `marked'.                                    *)
(***************************************************************************)
EXTENDS Integers, FiniteSets

CONSTANTS
    ListThreads,    \* threads that use the list
    MaxData         \* bound: the data that are appended are 1 .. MaxData

ASSUME ListAssumption == MaxData \in Nat

Data == 1 .. MaxData
Head0 == 0                      \* the dummy head
ListNodes == {Head0} \cup Data
NoNode0 == MaxData + 1          \* nullptr

VARIABLES
    next, marked,       \* the two parts of the next pointer of each node
    tail,
    counter,            \* the test's g_counter: data handed out so far
    list_count,         \* count
    l,                  \* the local variables of each thread
    appended,           \* ghost: data whose append has returned
    excused             \* ghost: a "no" to this thread's call would be right

listVars == <<next, marked, tail, counter, list_count, l, appended, excused>>

ListSteps ==
    {"idle", "link", "first", "walk", "load", "arrived", "recheck", "found", "succ", "mark",
     "not_found"}

\* pred outlives the call of search, t_next and the rest do not.
ListIdle ==
    [pc |-> "idle", remove |-> FALSE, data |-> Head0, t |-> Head0, t_next |-> NoNode0,
     t_mark |-> FALSE, left_node |-> Head0, left_next |-> NoNode0, old |-> Head0]

ListInit ==
    /\ next = [n \in ListNodes |-> NoNode0]
    /\ marked = [n \in ListNodes |-> FALSE]
    /\ tail = Head0
    /\ counter = 0
    /\ list_count = 0
    /\ l = [t \in ListThreads |-> ListIdle]
    /\ appended = {}
    /\ excused = [t \in ListThreads |-> FALSE]

InList(t, step) == l[t].pc = step

\* A call that goes to a place where nothing else of its variables is used.
CallAt(me, step) ==
    [ListIdle EXCEPT !.pc = step, !.data = me.data, !.remove = me.remove]

(***************************************************************************)
(* append: swap the tail, then link the old one.                           *)
(***************************************************************************)
AppendSwap(t) ==
    /\ InList(t, "idle")
    /\ counter < MaxData
    /\ counter' = counter + 1
    /\ tail' = counter + 1
    /\ l' = [l EXCEPT ![t].pc = "link", ![t].data = counter + 1, ![t].old = tail]
    /\ UNCHANGED <<next, marked, list_count, appended>>

\* A plain store: it overwrites a mark as well.  Nobody but get_count looks at
\* count, which is incremented next.
AppendLink(t) ==
    /\ InList(t, "link")
    /\ next' = [next EXCEPT ![l[t].old] = l[t].data]
    /\ marked' = [marked EXCEPT ![l[t].old] = FALSE]
    /\ list_count' = list_count + 1
    /\ appended' = appended \cup {l[t].data}
    /\ l' = [l EXCEPT ![t] = ListIdle]
    /\ UNCHANGED <<tail, counter>>

(***************************************************************************)
(* search                                                                  *)
(***************************************************************************)
SearchCall(t, d, removing) ==
    /\ InList(t, "idle")
    /\ l' = [l EXCEPT ![t] = [ListIdle EXCEPT !.pc = "first", !.data = d,
                                              !.remove = removing]]
    /\ UNCHANGED <<next, marked, tail, counter, list_count, appended>>

\* The loads at the head of while (1).
SearchFirst(t) ==
    /\ InList(t, "first")
    /\ l' = [l EXCEPT ![t].pc = "walk", ![t].t = Head0, ![t].t_next = next[Head0],
                      ![t].t_mark = marked[Head0]]
    /\ UNCHANGED <<next, marked, tail, counter, list_count, appended>>

\* The inner loop: left_node follows the valid nodes, and the walk stops at the
\* data, at the tail, or where an append is not linked yet.
Stepped(me) ==
    IF me.t_mark THEN [me EXCEPT !.t = me.t_next]
    ELSE [me EXCEPT !.t = me.t_next, !.left_node = me.t, !.left_next = me.t_next]

WalkOn(t, at_null) ==
    LET me == l[t] IN
    /\ InList(t, "walk")
    /\ l' = [l EXCEPT ![t] =
               IF ~ me.t_mark /\ me.t = me.data THEN [me EXCEPT !.pc = "arrived"]
               ELSE IF me.t_next = NoNode0 THEN CallAt(me, at_null)
               ELSE IF me.t_next = tail THEN [Stepped(me) EXCEPT !.pc = "arrived"]
               ELSE [Stepped(me) EXCEPT !.pc = "load"]]
    /\ UNCHANGED <<next, marked, tail, counter, list_count, appended>>

\* A plausible bug: a null pointer is taken for the end of the list.
SearchWalk_EndsAtNull(t) == WalkOn(t, "not_found")

SearchWalk(t) == WalkOn(t, "first")

SearchLoad(t) ==
    /\ InList(t, "load")
    /\ l' = [l EXCEPT ![t].pc = "walk", ![t].t_next = next[l[t].t],
                      ![t].t_mark = marked[l[t].t]]
    /\ UNCHANGED <<next, marked, tail, counter, list_count, appended>>

\* Where a search that returns t goes on: remove takes over, and a search that
\* did not find its data has said no.
Answer(me) == CallAt(me, IF me.t # me.data THEN "not_found" ELSE "found")

\* left_node leads to right_node: return it unless it is marked.
SearchArrived(t) ==
    LET me == l[t] IN
    /\ InList(t, "arrived")
    /\ me.left_next = me.t
    /\ l' = [l EXCEPT ![t] = IF marked[me.t] THEN CallAt(me, "first") ELSE Answer(me)]
    /\ UNCHANGED <<next, marked, tail, counter, list_count, appended>>

\* A plausible bug: left_node is swung with a plain store.
SearchUnlink_Blind(t) ==
    LET me == l[t] IN
    /\ InList(t, "arrived")
    /\ me.left_next # me.t
    /\ next' = [next EXCEPT ![me.left_node] = me.t]
    /\ marked' = [marked EXCEPT ![me.left_node] = FALSE]
    /\ l' = [l EXCEPT ![t].pc = "recheck"]
    /\ UNCHANGED <<tail, counter, list_count, appended>>

\* Marked nodes stand between left_node and right_node: unlink them with one
\* compare-and-swap, and start over when it fails.
SearchUnlink(t) ==
    LET me == l[t]
        swaps == next[me.left_node] = me.left_next /\ ~ marked[me.left_node]
    IN
    /\ InList(t, "arrived")
    /\ me.left_next # me.t
    /\ next' = IF swaps THEN [next EXCEPT ![me.left_node] = me.t] ELSE next
    /\ l' = [l EXCEPT ![t] = IF swaps THEN [me EXCEPT !.pc = "recheck"]
                                      ELSE CallAt(me, "first")]
    /\ UNCHANGED <<marked, tail, counter, list_count, appended>>

SearchRecheck(t) ==
    LET me == l[t] IN
    /\ InList(t, "recheck")
    /\ l' = [l EXCEPT ![t] = IF marked[me.t] THEN CallAt(me, "first") ELSE Answer(me)]
    /\ UNCHANGED <<next, marked, tail, counter, list_count, appended>>

\* A plausible bug: remove takes the last node as well.
SearchFound_RemovesLast(t) ==
    LET me == l[t] IN
    /\ InList(t, "found")
    /\ l' = [l EXCEPT ![t] = IF me.remove THEN [me EXCEPT !.pc = "succ"] ELSE ListIdle]
    /\ UNCHANGED <<next, marked, tail, counter, list_count, appended>>

\* search returns a node with the data; remove goes on unless it is the last.
SearchFound(t) ==
    LET me == l[t] IN
    /\ InList(t, "found")
    /\ l' = [l EXCEPT ![t] =
               IF ~ me.remove THEN ListIdle
               ELSE IF next[me.data] = NoNode0 THEN CallAt(me, "not_found")
               ELSE [me EXCEPT !.pc = "succ"]]
    /\ UNCHANGED <<next, marked, tail, counter, list_count, appended>>

SearchNotFound(t) ==
    /\ InList(t, "not_found")
    /\ l' = [l EXCEPT ![t] = ListIdle]
    /\ UNCHANGED <<next, marked, tail, counter, list_count, appended>>

(***************************************************************************)
(* remove: load the successor, then mark it with a compare-and-swap.       *)
(***************************************************************************)
RemoveLoad(t) ==
    LET me == l[t] IN
    /\ InList(t, "succ")
    /\ l' = [l EXCEPT ![t] = IF marked[me.data] THEN CallAt(me, "first")
                             ELSE [me EXCEPT !.pc = "mark", !.t_next = next[me.data]]]
    /\ UNCHANGED <<next, marked, tail, counter, list_count, appended>>

RemoveMark(t) ==
    LET me == l[t]
        swaps == next[me.data] = me.t_next /\ ~ marked[me.data]
    IN
    /\ InList(t, "mark")
    /\ marked' = IF swaps THEN [marked EXCEPT ![me.data] = TRUE] ELSE marked
    /\ list_count' = IF swaps THEN list_count - 1 ELSE list_count
    /\ l' = [l EXCEPT ![t] = IF swaps THEN ListIdle ELSE CallAt(me, "first")]
    /\ UNCHANGED <<next, tail, counter, appended>>

ListThread(t) ==
    \/ AppendSwap(t) \/ AppendLink(t)
    \/ \E d \in Data, removing \in BOOLEAN : SearchCall(t, d, removing)
    \/ SearchFirst(t) \/ SearchWalk(t) \/ SearchLoad(t) \/ SearchArrived(t)
    \/ SearchUnlink(t) \/ SearchRecheck(t) \/ SearchFound(t) \/ SearchNotFound(t)
    \/ RemoveLoad(t) \/ RemoveMark(t)

\* The data is not in the list now; or it is last, where remove leaves it.
MayDeny(t) ==
    \/ l[t].data \notin appended \/ marked[l[t].data]
    \/ l[t].remove /\ next[l[t].data] = NoNode0

ListNext ==
    /\ \E t \in ListThreads : ListThread(t)
    /\ excused' = [t \in ListThreads |->
                     /\ l'[t].pc \notin {"idle", "link"}
                     /\ excused[t] \/ MayDeny(t)']

ListSpec == ListInit /\ [][ListNext]_listVars
-----------------------------------------------------------------------------
\* What can be reached from the nodes ns by next pointers.
Follow(ns) ==
    LET after[k \in 0 .. MaxData] ==
          IF k = 0 THEN ns
          ELSE after[k - 1] \cup ({next[n] : n \in after[k - 1]} \ {NoNode0})
    IN  after[MaxData]

\* Every node that was appended and not removed can be reached from the head,
\* or from a node whose append has swapped the tail and not linked it yet
\* (ut0lflist.cc 164-167): no unlinking by a search and no append to a node
\* that is being removed cuts live nodes off.
LiveNodesAreLinked ==
    {n \in appended : ~ marked[n]} \subseteq
        Follow({Head0} \cup {l[t].data : t \in {x \in ListThreads : InList(x, "link")}})

\* A search that does not find its data, and a remove that does nothing
\* (ut0lflist.cc 136-138), are right about some moment of the call; but remove
\* also leaves the last node of the list alone.
DenialsAreRight == \A t \in ListThreads : InList(t, "not_found") => excused[t]

\* A removed node never comes back: the plain store of append (ut0lflist.cc
\* 167) does not wipe out a mark.
RemovalIsFinal == [][\A n \in ListNodes : marked[n] => marked'[n]]_listVars
=============================================================================

------------------------------ MODULE ListProofs ------------------------------
(***************************************************************************)
(* Theorems about the latch-free list, for any number of threads and data, *)
(* and about the list of invalid nodes, for any number of nodes.           *)
(*                                                                         *)
(* Both lists are asked what a walk along their pointers meets; that is a  *)
(* function defined by recursion on the number of steps, and the proofs    *)
(* look at the first step at which a claim about it could fail.            *)
(***************************************************************************)
EXTENDS LFList, InvalidList, SequenceTheorems, FiniteSetTheorems, WellFoundedInduction, TLAPS

LEMMA LeastNatural ==
    ASSUME NEW S \in SUBSET Nat, S # {}
    PROVE  \E m \in S : \A k \in S : m <= k
<1>. DEFINE R == {p \in Nat \X Nat : p[1] < p[2]}
<1>1. IsWellFoundedOn(R, Nat)
  <2>1. R = OpToRel(<, Nat)
    BY Zenon DEF OpToRel
  <2>2. IsWellFoundedOn(OpToRel(<, Nat), Nat)
    BY NatLessThanWellFounded, Zenon
  <2>. QED BY <2>1, <2>2
<1>2. \A k, m \in Nat : k < m => <<k, m>> \in R
  OBVIOUS
<1>. HIDE DEF R
<1>3. PICK m \in S : \A k \in S : <<k, m>> \notin R
  BY <1>1, WFMin
<1>4. m \in Nat /\ \A k \in S : k \in Nat
  OBVIOUS
<1>5. ASSUME NEW k \in S PROVE m <= k
  <2>1. ~ (k < m)
    BY <1>2, <1>3, <1>4, Zenon
  <2>. QED BY <1>4, <2>1
<1>. QED BY <1>5

(***************************************************************************)
(* The latch-free list                                                     *)
(***************************************************************************)
Calls == ListSteps \ {"idle", "link"}

Pointers == ListNodes \cup {NoNode0}

LocalRec ==
    [pc : ListSteps, remove : BOOLEAN, data : ListNodes, t : ListNodes, t_next : Pointers,
     t_mark : BOOLEAN, left_node : ListNodes, left_next : Pointers, old : ListNodes]

ListTypeOK ==
    /\ next \in [ListNodes -> Pointers]
    /\ marked \in [ListNodes -> BOOLEAN]
    /\ tail \in ListNodes
    /\ counter \in 0 .. MaxData
    /\ l \in [ListThreads -> LocalRec]
    /\ appended \in SUBSET (1 .. counter)
    /\ excused \in [ListThreads -> BOOLEAN]

\* Every node between two others was removed.
Gone(n, m) == \A d \in Data : n < d /\ d < m => marked[d]

\* A next pointer leads onwards, past removed nodes only.
Onwards(n, m) == n < m /\ m <= counter /\ Gone(n, m)

NextOK(n) == next[n] # NoNode0 => Onwards(n, next[n])

\* A node that is not the last has a next node, or one that is being linked.
Ended(n) ==
    next[n] = NoNode0 /\ n < counter => \E t \in ListThreads : InList(t, "link") /\ l[t].data = n + 1

Chain ==
    /\ tail = counter
    /\ \A n \in ListNodes : NextOK(n) /\ Ended(n)
    /\ \A n \in ListNodes : marked[n] => n # Head0 /\ next[n] # NoNode0

LinkOK(t) ==
    InList(t, "link") =>
        /\ l[t].data \in 1 .. counter /\ l[t].old = l[t].data - 1
        /\ next[l[t].old] = NoNode0
        /\ \A x \in ListThreads : InList(x, "link") /\ l[x].data = l[t].data => x = t

\* What a search has passed since left_node was removed.
SearchOK(t) ==
    LET me == l[t] IN
    /\ me.pc \in Calls => me.data \in Data
    /\ me.pc = "first" => me.left_node = Head0
    /\ me.pc \in {"walk", "load", "arrived"} =>
          /\ me.t <= counter /\ Gone(me.left_node, me.t)
          /\ \/ me.pc = "walk" /\ me.t = Head0 /\ me.left_node = Head0
             \/ me.left_node < me.t /\ me.left_next # NoNode0
    /\ me.pc = "walk" =>
          /\ me.t_mark => marked[me.t]
          /\ me.t_next # NoNode0 => Onwards(me.t, me.t_next)
    /\ me.pc = "succ" => next[me.data] # NoNode0
    /\ me.pc = "mark" => me.t_next # NoNode0

\* Data that was in the list all the time is not passed by a search.
DenialOK(t) ==
    LET me == l[t] IN
    me.pc \in Calls /\ ~ excused[t] =>
        /\ ~ MayDeny(t)
        /\ me.pc \in {"walk", "load"} => me.t <= me.data
        /\ me.pc \in {"arrived", "recheck"} => me.t = me.data
        /\ me.pc # "not_found"

ListInv ==
    /\ ListTypeOK /\ Chain
    /\ \A t \in ListThreads : LinkOK(t) /\ SearchOK(t) /\ DenialOK(t)

LEMMA ListSizes ==
    /\ MaxData \in Nat /\ Data = 1 .. MaxData /\ ListNodes = 0 .. MaxData /\ Head0 = 0
    /\ NoNode0 = MaxData + 1 /\ NoNode0 \notin ListNodes /\ Data \subseteq ListNodes
<1>1. MaxData \in Nat
  BY ListAssumption DEF ListAssumption
<1>. QED BY <1>1 DEF Data, ListNodes, Head0, NoNode0

LEMMA IdleLocal ==
    /\ ListIdle \in LocalRec /\ ListIdle.pc = "idle" /\ ListIdle.left_node = Head0
    /\ Calls \subseteq ListSteps /\ "idle" \notin Calls /\ "link" \notin Calls
BY ListSizes DEF ListIdle, LocalRec, ListSteps, Pointers, Calls

LEMMA ListInvInit == ListInit => ListInv
<1>. USE ListSizes
<1>. SUFFICES ASSUME ListInit PROVE ListInv
  OBVIOUS
<1>1. ListIdle \in LocalRec /\ ListIdle.pc = "idle"
  BY IdleLocal
<1>2. ListTypeOK
  BY <1>1 DEF ListInit, ListTypeOK, Pointers
<1>3. Chain
  BY DEF ListInit, Chain, NextOK, Ended
<1>4. ASSUME NEW t \in ListThreads PROVE LinkOK(t) /\ SearchOK(t) /\ DenialOK(t)
  <2>1. l[t].pc = "idle" /\ "idle" \notin Calls
    BY <1>1 DEF ListInit, Calls
  <2>. QED BY <2>1 DEF LinkOK, SearchOK, DenialOK, InList
<1>. QED BY <1>2, <1>3, <1>4 DEF ListInv

(***************************************************************************)
(* What no step undoes                                                     *)
(***************************************************************************)
Grows ==
    /\ counter <= counter'
    /\ appended \subseteq appended'
    /\ \A n \in ListNodes : marked[n] => marked'[n]
    /\ \A n \in ListNodes : next[n] # NoNode0 => next'[n] # NoNode0

\* A linking thread alone writes the pointer that it links.
OthersLink(t) ==
    \A x \in ListThreads \ {t} :
        /\ l'[x] = l[x]
        /\ InList(x, "link") => next'[l[x].old] = NoNode0
        /\ InList(x, "link") /\ InList(t, "link")' => l'[t].data # l[x].data

LEMMA OthersStay ==
    ASSUME ListInv, ListTypeOK', ListNext, Grows, NEW t \in ListThreads, OthersLink(t),
           NEW x \in ListThreads \ {t}
    PROVE  LinkOK(x)' /\ SearchOK(x)' /\ DenialOK(x)'
<1>. USE ListSizes
<1>1. /\ l'[x] = l[x] /\ x \in ListThreads /\ LinkOK(x) /\ SearchOK(x) /\ DenialOK(x)
      /\ l[x] \in LocalRec /\ counter \in Nat /\ counter' \in Nat /\ counter <= counter'
  BY DEF OthersLink, ListInv, ListTypeOK, Grows
<1>2. \A n, m : Gone(n, m) => Gone(n, m)'
  BY DEF Gone, Grows
<1>3. \A n, m \in ListNodes : Onwards(n, m) => Onwards(n, m)'
  BY <1>1, <1>2 DEF Onwards
<1>4. LinkOK(x)'
  BY <1>1 DEF LinkOK, OthersLink, InList, LocalRec
<1>5. SearchOK(x)'
  BY <1>1, <1>2, <1>3 DEF SearchOK, Grows, LocalRec, Pointers
<1>6. DenialOK(x)'
  <2>1. excused'[x] <=> l'[x].pc \notin {"idle", "link"} /\ (excused[x] \/ MayDeny(x)')
    BY <1>1 DEF ListNext
  <2>. QED BY <1>1, <2>1 DEF DenialOK, Calls
<1>. QED BY <1>4, <1>5, <1>6

(***************************************************************************)
(* append                                                                  *)
(***************************************************************************)
LEMMA AppendSwapKeeps ==
    ASSUME ListInv, ListNext, NEW t \in ListThreads, AppendSwap(t)
    PROVE  ListInv' /\ Grows
<1>. USE ListSizes
<1>0. ListTypeOK /\ Chain
  BY DEF ListInv
<1>1. /\ l[t].pc = "idle" /\ counter < MaxData /\ counter' = counter + 1 /\ tail' = counter'
      /\ l' = [l EXCEPT ![t].pc = "link", ![t].data = counter + 1, ![t].old = tail]
      /\ UNCHANGED <<next, marked, appended>> /\ counter \in Nat /\ tail = counter
  BY <1>0 DEF AppendSwap, InList, ListTypeOK, Chain
<1>2. /\ l'[t].pc = "link" /\ l'[t].data = counter + 1 /\ l'[t].old = counter
      /\ \A x \in ListThreads \ {t} : l'[x] = l[x]
  BY <1>0, <1>1 DEF ListTypeOK, LocalRec
<1>3. ListTypeOK'
  <2>1. l' \in [ListThreads -> LocalRec]
    <3>1. l[t] \in LocalRec /\ counter + 1 \in ListNodes /\ tail \in ListNodes /\ "link" \in ListSteps
      BY <1>0, <1>1 DEF ListTypeOK, ListSteps
    <3>2. [l[t] EXCEPT !.pc = "link", !.data = counter + 1, !.old = tail] \in LocalRec
      BY <3>1 DEF LocalRec
    <3>. QED BY <1>0, <1>1, <3>2 DEF ListTypeOK
  <2>2. excused' \in [ListThreads -> BOOLEAN]
    BY <1>0 DEF ListNext, ListTypeOK, MayDeny
  <2>. QED BY <1>0, <1>1, <2>1, <2>2 DEF ListTypeOK
<1>4. Grows
  BY <1>1 DEF Grows
<1>5. next[counter] = NoNode0
  BY <1>0, <1>1 DEF Chain, NextOK, Onwards, ListTypeOK, Pointers
<1>6. OthersLink(t)
  <2>1. ASSUME NEW x \in ListThreads \ {t}, InList(x, "link") PROVE l[x].data <= counter
    BY <1>1, <2>1 DEF ListInv, LinkOK
  <2>. QED BY <1>1, <1>2, <2>1 DEF OthersLink, ListInv, LinkOK, InList, LocalRec, ListTypeOK
<1>7. Chain'
  <2>1. ASSUME NEW n \in ListNodes PROVE NextOK(n)'
    <3>1. CASE next[n] = NoNode0
      BY <1>1, <3>1 DEF NextOK
    <3>2. CASE next[n] # NoNode0
      <4>1. Onwards(n, next[n]) /\ next[n] \in ListNodes
        BY <1>0, <3>2 DEF Chain, NextOK, ListTypeOK, Pointers
      <4>. QED BY <1>1, <4>1 DEF NextOK, Onwards, Gone
    <3>. QED BY <3>1, <3>2
  <2>2. ASSUME NEW n \in ListNodes PROVE Ended(n)'
    <3>1. CASE n = counter
      BY <1>2, <3>1 DEF Ended, InList
    <3>2. CASE n # counter
      <4>1. n < counter' => n < counter
        BY <1>1, <3>2
      <4>2. \A x \in ListThreads : InList(x, "link") => x # t /\ InList(x, "link")' /\ l'[x] = l[x]
        BY <1>1, <1>2 DEF InList
      <4>. QED BY <1>0, <1>1, <4>1, <4>2 DEF Chain, Ended
    <3>. QED BY <3>1, <3>2
  <2>. QED BY <1>0, <1>1, <2>1, <2>2 DEF Chain
<1>8. LinkOK(t)' /\ SearchOK(t)' /\ DenialOK(t)'
  <2>1. \A x \in ListThreads \ {t} : InList(x, "link")' => l'[x].data # l'[t].data
    BY <1>6, <1>2 DEF OthersLink, InList
  <2>2. LinkOK(t)'
    <3>1. counter + 1 \in 1 .. counter' /\ counter = (counter + 1) - 1 /\ next'[counter] = NoNode0
      BY <1>1, <1>5
    <3>2. \A x \in ListThreads : InList(x, "link")' /\ l'[x].data = l'[t].data => x = t
      BY <2>1
    <3>. QED BY <1>2, <3>1, <3>2 DEF LinkOK
  <2>3. SearchOK(t)' /\ DenialOK(t)'
    BY <1>2 DEF SearchOK, DenialOK, Calls
  <2>. QED BY <2>2, <2>3
<1>. QED BY <1>3, <1>4, <1>6, <1>7, <1>8, OthersStay DEF ListInv

LEMMA AppendLinkKeeps ==
    ASSUME ListInv, ListNext, NEW t \in ListThreads, AppendLink(t)
    PROVE  ListInv' /\ Grows
<1>. USE ListSizes
<1>. DEFINE d == l[t].data
<1>0. ListTypeOK /\ Chain /\ LinkOK(t)
  BY DEF ListInv
<1>1. /\ l[t].pc = "link" /\ d \in 1 .. counter /\ l[t].old = d - 1 /\ next[d - 1] = NoNode0
      /\ d - 1 \in ListNodes /\ d \in ListNodes /\ d # NoNode0 /\ ~ marked[d - 1]
      /\ counter \in 0 .. MaxData /\ tail = counter
  BY <1>0 DEF AppendLink, InList, LinkOK, ListTypeOK, Chain
<1>2. /\ next' = [next EXCEPT ![d - 1] = d] /\ marked' = marked /\ appended' = appended \cup {d}
      /\ l' = [l EXCEPT ![t] = ListIdle] /\ UNCHANGED <<tail, counter>>
  <2>1. marked' = marked
    BY <1>0, <1>1 DEF AppendLink, ListTypeOK
  <2>. QED BY <1>1, <2>1 DEF AppendLink
<1>3. /\ l'[t].pc = "idle" /\ \A x \in ListThreads \ {t} : l'[x] = l[x]
      /\ next'[d - 1] = d /\ \A n \in ListNodes \ {d - 1} : next'[n] = next[n]
  BY <1>0, <1>1, <1>2 DEF ListTypeOK, ListIdle
<1>4. ListTypeOK'
  <2>1. l' \in [ListThreads -> LocalRec]
    BY <1>0, <1>2 DEF ListTypeOK, LocalRec, ListSteps, ListIdle, Pointers
  <2>2. excused' \in [ListThreads -> BOOLEAN]
    BY <1>0 DEF ListNext, ListTypeOK, MayDeny
  <2>. QED BY <1>0, <1>1, <1>2, <2>1, <2>2 DEF ListTypeOK, Pointers
<1>5. Grows
  BY <1>1, <1>2, <1>3 DEF Grows
<1>6. OthersLink(t)
  <2>1. ASSUME NEW x \in ListThreads \ {t}, InList(x, "link")
        PROVE  next'[l[x].old] = NoNode0
    <3>1. /\ l[x].data # d /\ l[x].old = l[x].data - 1 /\ next[l[x].old] = NoNode0
          /\ l[x].data \in 1 .. counter
      BY <1>0, <1>1, <2>1 DEF ListInv, LinkOK, InList
    <3>2. l[x].old \in ListNodes /\ l[x].old # d - 1
      BY <1>1, <3>1
    <3>. QED BY <1>3, <3>1, <3>2
  <2>. QED BY <1>3, <2>1 DEF OthersLink, InList
<1>7. Chain'
  <2>1. ASSUME NEW n \in ListNodes PROVE NextOK(n)'
    BY <1>0, <1>1, <1>2, <1>3 DEF Chain, NextOK, Onwards, Gone
  <2>2. ASSUME NEW n \in ListNodes PROVE Ended(n)'
    <3>1. CASE n = d - 1
      BY <1>1, <1>3, <3>1 DEF Ended
    <3>2. CASE n # d - 1
      <4>1. \A x \in ListThreads : InList(x, "link") /\ l[x].data = n + 1 =>
                 x # t /\ InList(x, "link")' /\ l'[x] = l[x]
        BY <1>1, <1>3, <3>2 DEF InList
      <4>. QED BY <1>0, <1>2, <1>3, <3>2, <4>1 DEF Chain, Ended
    <3>. QED BY <3>1, <3>2
  <2>3. ASSUME NEW n \in ListNodes PROVE marked'[n] => n # Head0 /\ next'[n] # NoNode0
    BY <1>0, <1>1, <1>2, <1>3 DEF Chain
  <2>. QED BY <1>1, <1>2, <2>1, <2>2, <2>3 DEF Chain
<1>8. LinkOK(t)' /\ SearchOK(t)' /\ DenialOK(t)'
  BY <1>3 DEF LinkOK, SearchOK, DenialOK, InList, Calls
<1>. QED BY <1>4, <1>5, <1>6, <1>7, <1>8, OthersStay DEF ListInv

(***************************************************************************)
(* search                                                                  *)
(***************************************************************************)

\* A step that changes no pointer and begins or ends no append.
LEMMA QuietKeeps ==
    ASSUME ListInv, ListNext, NEW t \in ListThreads, UNCHANGED <<next, marked, tail, counter, appended>>,
           NEW me \in LocalRec, l' = [l EXCEPT ![t] = me],
           l[t].pc # "link", me.pc # "link",
           SearchOK(t)', DenialOK(t)'
    PROVE  ListInv' /\ Grows
<1>. USE ListSizes
<1>0. ListTypeOK /\ Chain
  BY DEF ListInv
<1>1. l'[t] = me /\ \A x \in ListThreads \ {t} : l'[x] = l[x]
  BY <1>0 DEF ListTypeOK
<1>2. ListTypeOK'
  <2>1. excused' \in [ListThreads -> BOOLEAN]
    BY <1>0 DEF ListNext, ListTypeOK, MayDeny
  <2>. QED BY <1>0, <2>1 DEF ListTypeOK
<1>3. Grows
  BY <1>0 DEF Grows, ListTypeOK
<1>4. OthersLink(t)
  BY <1>1 DEF OthersLink, ListInv, LinkOK, InList
<1>5. Chain'
  <2>1. ASSUME NEW n \in ListNodes PROVE NextOK(n)' /\ Ended(n)'
    <3>1. NextOK(n)'
      BY <1>0 DEF Chain, NextOK, Onwards, Gone
    <3>2. \A x \in ListThreads : InList(x, "link") => InList(x, "link")' /\ l'[x] = l[x]
      BY <1>1 DEF InList
    <3>. QED BY <1>0, <3>1, <3>2 DEF Chain, Ended
  <2>. QED BY <1>0, <2>1 DEF Chain
<1>6. LinkOK(t)'
  BY <1>1 DEF LinkOK, InList
<1>. QED BY <1>2, <1>3, <1>4, <1>5, <1>6, OthersStay DEF ListInv

\* What a thread that goes on in its call can tell if it was not excused.
LEMMA StillThere ==
    ASSUME ListInv, ListNext, NEW t \in ListThreads, l'[t].pc \in Calls, ~ excused'[t]
    PROVE  ~ excused[t] /\ ~ MayDeny(t)'
BY DEF ListNext, Calls

\* A call goes to a place where it only needs its arguments.
LEMMA CallPlace ==
    ASSUME NEW me \in LocalRec, NEW step \in Calls
    PROVE  /\ CallAt(me, step) \in LocalRec /\ CallAt(me, step).pc = step
           /\ CallAt(me, step).data = me.data /\ CallAt(me, step).remove = me.remove
           /\ CallAt(me, step).left_node = Head0
BY IdleLocal DEF CallAt, LocalRec

\* Where only arguments count, they are all that there is to show.
Places == {"first", "found", "not_found"}

LEMMA AtPlace ==
    ASSUME ListInv, ListNext, NEW t \in ListThreads,
           l'[t].pc \in Places \cup {"idle"},
           l'[t].pc \in Places => l'[t].data \in Data /\ l'[t].left_node = Head0,
           l'[t].pc = "not_found" => excused'[t]
    PROVE  SearchOK(t)' /\ DenialOK(t)'
<1>1. SearchOK(t)'
  BY DEF SearchOK, Calls, Places
<1>. QED BY <1>1, StillThere DEF DenialOK, Calls, Places

LEMMA SearchCallKeeps ==
    ASSUME ListInv, ListNext, NEW t \in ListThreads, NEW d \in Data, NEW r \in BOOLEAN,
           SearchCall(t, d, r)
    PROVE  ListInv' /\ Grows
<1>. DEFINE me == [ListIdle EXCEPT !.pc = "first", !.data = d, !.remove = r]
<1>1. "first" \in ListSteps /\ "first" \in Places /\ d \in ListNodes
  BY ListSizes DEF ListSteps, Places
<1>2. me \in LocalRec /\ me.pc = "first" /\ me.data = d /\ me.left_node = Head0
  BY <1>1, IdleLocal DEF LocalRec
<1>. HIDE DEF me
<1>3. /\ l' = [l EXCEPT ![t] = me] /\ UNCHANGED <<next, marked, tail, counter, appended>>
      /\ l[t].pc = "idle"
  BY DEF SearchCall, InList, me
<1>4. l'[t] = me
  BY <1>3 DEF ListInv, ListTypeOK
<1>5. SearchOK(t)' /\ DenialOK(t)'
  BY <1>1, <1>2, <1>4, AtPlace
<1>. QED BY <1>2, <1>3, <1>5, QuietKeeps

LEMMA SearchFirstKeeps ==
    ASSUME ListInv, ListNext, NEW t \in ListThreads, SearchFirst(t)
    PROVE  ListInv' /\ Grows
<1>. USE ListSizes
<1>. DEFINE me == [l[t] EXCEPT !.pc = "walk", !.t = Head0, !.t_next = next[Head0],
                               !.t_mark = marked[Head0]]
<1>1. /\ ListTypeOK /\ Chain /\ SearchOK(t) /\ l[t] \in LocalRec /\ l[t].pc = "first"
      /\ next[Head0] \in Pointers /\ marked[Head0] = FALSE /\ "walk" \in ListSteps
      /\ Head0 \in ListNodes
  BY DEF ListInv, ListTypeOK, SearchFirst, InList, ListSteps, Chain
<1>2. l[t].data \in Data /\ l[t].left_node = Head0
  BY <1>1 DEF SearchOK, Calls, ListSteps
<1>3. /\ me \in LocalRec /\ me.pc = "walk" /\ me.t = Head0 /\ me.t_next = next[Head0]
      /\ me.t_mark = FALSE /\ me.left_node = Head0 /\ me.data = l[t].data
  BY <1>1, <1>2 DEF LocalRec
<1>. HIDE DEF me
<1>4. l' = [l EXCEPT ![t] = me] /\ UNCHANGED <<next, marked, tail, counter, appended>>
  BY DEF SearchFirst, me
<1>5. l'[t] = me
  BY <1>1, <1>4 DEF ListTypeOK
<1>6. SearchOK(t)'
  <2>1. Head0 <= counter'
    BY <1>1, <1>4 DEF ListTypeOK
  <2>2. next[Head0] # NoNode0 => Onwards(Head0, next[Head0])
    BY <1>1 DEF Chain, NextOK
  <2>. QED BY <1>2, <1>3, <1>4, <1>5, <2>1, <2>2 DEF SearchOK, Onwards, Gone
<1>7. DenialOK(t)'
  BY <1>2, <1>3, <1>5, StillThere DEF DenialOK
<1>. QED BY <1>1, <1>3, <1>4, <1>6, <1>7, QuietKeeps

\* A round of the inner loop passes removed nodes only.
LEMMA SteppedOK ==
    ASSUME ListInv, NEW t \in ListThreads, l[t].pc = "walk", l[t].t_next # NoNode0
    PROVE  LET me == l[t]
               on == Stepped(me)
           IN  /\ on \in LocalRec /\ on.data = me.data /\ on.t = me.t_next
               /\ on.left_node < on.t /\ on.left_next # NoNode0 /\ Gone(on.left_node, on.t)
               /\ on.t <= counter
<1>. USE ListSizes
<1>. DEFINE me == l[t]
<1>1. /\ me \in LocalRec /\ me.t_next \in ListNodes /\ SearchOK(t) /\ counter \in 0 .. MaxData
      /\ me.t \in ListNodes /\ me.left_node \in ListNodes
  BY DEF ListInv, ListTypeOK, LocalRec, Pointers
<1>2. Onwards(me.t, me.t_next) /\ Gone(me.left_node, me.t) /\ (me.t_mark => marked[me.t])
  BY <1>1 DEF SearchOK
<1>3. CASE me.t_mark
  <2>1. me.t # Head0 /\ me.left_node < me.t /\ me.left_next # NoNode0
    BY <1>1, <1>2, <1>3 DEF SearchOK, ListInv, Chain
  <2>2. Stepped(me) = [me EXCEPT !.t = me.t_next]
    BY <1>3 DEF Stepped
  <2>3. Gone(me.left_node, me.t_next)
    BY <1>1, <1>2, <1>3, <2>1 DEF Gone, Onwards
  <2>4. me.left_node < me.t_next /\ me.t_next <= counter
    BY <1>1, <1>2, <2>1 DEF Onwards
  <2>. QED BY <1>1, <2>1, <2>2, <2>3, <2>4 DEF LocalRec
<1>4. CASE ~ me.t_mark
  <2>1. Stepped(me) = [me EXCEPT !.t = me.t_next, !.left_node = me.t, !.left_next = me.t_next]
    BY <1>4 DEF Stepped
  <2>. QED BY <1>1, <1>2, <2>1 DEF LocalRec, Onwards, Pointers
<1>. QED BY <1>3, <1>4

LEMMA SearchWalkKeeps ==
    ASSUME ListInv, ListNext, NEW t \in ListThreads, SearchWalk(t)
    PROVE  ListInv' /\ Grows
<1>. USE ListSizes
<1>. DEFINE me == l[t]
<1>1. /\ ListTypeOK /\ Chain /\ SearchOK(t) /\ DenialOK(t) /\ me \in LocalRec /\ me.pc = "walk"
      /\ me.data \in Data /\ me.t \in ListNodes /\ me.t_next \in Pointers
      /\ UNCHANGED <<next, marked, tail, counter, appended>> /\ tail = counter
      /\ counter \in 0 .. MaxData
  BY DEF ListInv, ListTypeOK, SearchWalk, WalkOn, InList, SearchOK, Calls, LocalRec, ListSteps, Chain
<1>2. {"arrived", "load", "first"} \subseteq Calls \cap ListSteps
  BY DEF Calls, ListSteps
<1>3. \A on \in LocalRec : l' = [l EXCEPT ![t] = on] => l'[t] = on
  BY <1>1 DEF ListTypeOK
<1>4. CASE ~ me.t_mark /\ me.t = me.data
  <2>. DEFINE on == [me EXCEPT !.pc = "arrived"]
  <2>1. l' = [l EXCEPT ![t] = on]
    BY <1>1, <1>4 DEF SearchWalk, WalkOn
  <2>2. on \in LocalRec /\ on.pc = "arrived" /\ on.t = me.t /\ on.data = me.data
        /\ on.left_node = me.left_node /\ on.left_next = me.left_next
    BY <1>1, <1>2 DEF LocalRec
  <2>. HIDE DEF on
  <2>3. l'[t] = on
    BY <1>3, <2>1, <2>2
  <2>4. SearchOK(t)'
    BY <1>1, <1>4, <2>2, <2>3 DEF SearchOK, Gone
  <2>5. DenialOK(t)'
    BY <1>1, <1>2, <1>4, <2>2, <2>3, StillThere DEF DenialOK
  <2>. QED BY <1>1, <2>1, <2>2, <2>4, <2>5, QuietKeeps
<1>5. CASE ~ (~ me.t_mark /\ me.t = me.data) /\ me.t_next = NoNode0
  <2>1. l' = [l EXCEPT ![t] = CallAt(me, "first")]
    BY <1>5 DEF SearchWalk, WalkOn
  <2>2. /\ CallAt(me, "first") \in LocalRec /\ CallAt(me, "first").pc = "first"
        /\ CallAt(me, "first").data = me.data /\ CallAt(me, "first").left_node = Head0
    BY <1>1, <1>2, CallPlace
  <2>3. l'[t] = CallAt(me, "first")
    BY <1>3, <2>1, <2>2
  <2>4. SearchOK(t)' /\ DenialOK(t)'
    BY <1>1, <2>2, <2>3, AtPlace DEF Places
  <2>. QED BY <1>1, <2>1, <2>2, <2>4, QuietKeeps
<1>6. CASE ~ (~ me.t_mark /\ me.t = me.data) /\ me.t_next # NoNode0
  <2>. DEFINE step == IF me.t_next = tail THEN "arrived" ELSE "load"
              on == Stepped(me)
              goal == [on EXCEPT !.pc = step]
  <2>1. /\ on \in LocalRec /\ on.data = me.data /\ on.t = me.t_next
        /\ on.left_node < on.t /\ on.left_next # NoNode0 /\ Gone(on.left_node, on.t)
        /\ on.t <= counter
    BY <1>1, <1>6, SteppedOK
  <2>2. l' = [l EXCEPT ![t] = goal]
    BY <1>6 DEF SearchWalk, WalkOn
  <2>. HIDE DEF on
  <2>3. goal \in LocalRec /\ goal.pc = step /\ step \in {"arrived", "load"}
        /\ goal.data = me.data /\ goal.t = me.t_next
        /\ goal.left_node = on.left_node /\ goal.left_next = on.left_next
    BY <1>2, <2>1 DEF LocalRec
  <2>. HIDE DEF goal
  <2>4. l'[t] = goal
    BY <1>3, <2>2, <2>3
  <2>5. SearchOK(t)'
    BY <1>1, <2>1, <2>3, <2>4 DEF SearchOK, Gone
  <2>6. DenialOK(t)'
    <3>1. SUFFICES ASSUME ~ excused'[t] PROVE DenialOK(t)'
      BY DEF DenialOK
    <3>2. ~ excused[t] /\ ~ MayDeny(t)'
      BY <1>2, <2>3, <2>4, <3>1, StillThere
    <3>3. ~ MayDeny(t) /\ me.t <= me.data
      BY <1>1, <3>2 DEF DenialOK, Calls, ListSteps
    <3>4. ~ marked[me.data] /\ me.data <= counter
      BY <1>1, <3>3 DEF MayDeny, ListTypeOK
    <3>5. me.t < me.data /\ Onwards(me.t, me.t_next)
      BY <1>1, <1>6, <3>3, <3>4 DEF SearchOK
    <3>6. me.t_next <= me.data
      BY <1>1, <1>6, <3>4, <3>5 DEF Onwards, Gone, Pointers
    <3>7. step = "arrived" => me.t_next = me.data
      BY <1>1, <1>6, <3>4, <3>6 DEF Pointers
    <3>. QED BY <1>1, <2>3, <2>4, <3>2, <3>6, <3>7 DEF DenialOK
  <2>. QED BY <1>1, <2>2, <2>3, <2>5, <2>6, QuietKeeps
<1>. QED BY <1>4, <1>5, <1>6

LEMMA SearchLoadKeeps ==
    ASSUME ListInv, ListNext, NEW t \in ListThreads, SearchLoad(t)
    PROVE  ListInv' /\ Grows
<1>. USE ListSizes
<1>. DEFINE me == l[t]
            on == [me EXCEPT !.pc = "walk", !.t_next = next[me.t], !.t_mark = marked[me.t]]
<1>1. /\ ListTypeOK /\ Chain /\ SearchOK(t) /\ DenialOK(t) /\ me \in LocalRec /\ me.pc = "load"
      /\ me.data \in Data /\ me.t \in ListNodes
      /\ UNCHANGED <<next, marked, tail, counter, appended>>
      /\ next[me.t] \in Pointers /\ marked[me.t] \in BOOLEAN /\ "walk" \in ListSteps
  BY DEF ListInv, ListTypeOK, SearchLoad, InList, SearchOK, Calls, LocalRec, ListSteps, Chain
<1>2. l' = [l EXCEPT ![t] = on]
  BY DEF SearchLoad
<1>3. on \in LocalRec /\ on.pc = "walk" /\ on.data = me.data /\ on.t = me.t
      /\ on.t_next = next[me.t] /\ on.t_mark = marked[me.t]
      /\ on.left_node = me.left_node /\ on.left_next = me.left_next
  BY <1>1 DEF LocalRec
<1>. HIDE DEF on
<1>4. l'[t] = on
  BY <1>1, <1>2 DEF ListTypeOK
<1>5. SearchOK(t)'
  <2>1. next[me.t] # NoNode0 => Onwards(me.t, next[me.t])
    BY <1>1 DEF Chain, NextOK
  <2>. QED BY <1>1, <1>3, <1>4, <2>1 DEF SearchOK, Gone, Onwards
<1>6. DenialOK(t)'
  <2>1. SUFFICES ASSUME ~ excused'[t] PROVE DenialOK(t)'
    BY DEF DenialOK
  <2>2. ~ excused[t] /\ ~ MayDeny(t)'
    BY <1>3, <1>4, <2>1, StillThere DEF Calls, ListSteps
  <2>3. me.t <= me.data
    BY <1>1, <2>2 DEF DenialOK, Calls, ListSteps
  <2>. QED BY <1>1, <1>3, <1>4, <2>2, <2>3 DEF DenialOK
<1>. QED BY <1>1, <1>2, <1>3, <1>5, <1>6, QuietKeeps

\* Back to the head of a search, or out of it.
LEMMA GoesTo ==
    ASSUME ListInv, ListNext, NEW t \in ListThreads, l[t].pc \in Calls, NEW step \in Places,
           l' = [l EXCEPT ![t] = CallAt(l[t], step)],
           UNCHANGED <<next, marked, tail, counter, appended>>,
           step = "not_found" => excused'[t]
    PROVE  ListInv' /\ Grows
<1>1. l \in [ListThreads -> LocalRec] /\ l[t] \in LocalRec /\ l[t].data \in Data /\ step \in Calls
  BY DEF ListInv, ListTypeOK, SearchOK, Places, Calls, ListSteps
<1>2. /\ CallAt(l[t], step) \in LocalRec /\ CallAt(l[t], step).pc = step
      /\ CallAt(l[t], step).data = l[t].data /\ CallAt(l[t], step).left_node = Head0
  BY <1>1, CallPlace
<1>3. l'[t] = CallAt(l[t], step)
  BY <1>1
<1>4. SearchOK(t)' /\ DenialOK(t)'
  BY <1>1, <1>2, <1>3, AtPlace
<1>. QED BY <1>1, <1>2, <1>4, QuietKeeps DEF Calls

LEMMA Returns ==
    ASSUME ListInv, ListNext, NEW t \in ListThreads, l[t].pc \in Calls,
           l' = [l EXCEPT ![t] = ListIdle],
           UNCHANGED <<next, marked, tail, counter, appended>>
    PROVE  ListInv' /\ Grows
<1>1. l'[t] = ListIdle
  BY DEF ListInv, ListTypeOK
<1>2. SearchOK(t)' /\ DenialOK(t)'
  BY <1>1, IdleLocal, AtPlace DEF Places
<1>. QED BY <1>2, IdleLocal, QuietKeeps DEF Calls

\* A search says no only to a call that was excused.
LEMMA AnswerKeeps ==
    ASSUME ListInv, ListNext, NEW t \in ListThreads, l[t].pc \in {"arrived", "recheck"},
           l' = [l EXCEPT ![t] = IF marked[l[t].t] THEN CallAt(l[t], "first") ELSE Answer(l[t])],
           UNCHANGED <<next, marked, tail, counter, appended>>
    PROVE  ListInv' /\ Grows
<1>1. l[t].pc \in Calls
  BY DEF Calls, ListSteps
<1>2. CASE marked[l[t].t]
  <2>1. l' = [l EXCEPT ![t] = CallAt(l[t], "first")]
    BY <1>2
  <2>. QED BY <1>1, <2>1, GoesTo DEF Places
<1>3. CASE ~ marked[l[t].t] /\ l[t].t = l[t].data
  <2>1. l' = [l EXCEPT ![t] = CallAt(l[t], "found")]
    BY <1>3 DEF Answer
  <2>. QED BY <1>1, <2>1, GoesTo DEF Places
<1>4. CASE ~ marked[l[t].t] /\ l[t].t # l[t].data
  <2>1. l' = [l EXCEPT ![t] = CallAt(l[t], "not_found")]
    BY <1>4 DEF Answer
  <2>2. excused[t]
    BY <1>1, <1>4 DEF ListInv, DenialOK
  <2>3. l'[t].pc = "not_found"
    BY <2>1, CallPlace DEF ListInv, ListTypeOK, Calls, ListSteps
  <2>4. excused'[t]
    BY <2>2, <2>3, StillThere DEF Calls, ListSteps
  <2>. QED BY <1>1, <2>1, <2>4, GoesTo DEF Places
<1>. QED BY <1>2, <1>3, <1>4

LEMMA SearchFoundKeeps ==
    ASSUME ListInv, ListNext, NEW t \in ListThreads, SearchFound(t)
    PROVE  ListInv' /\ Grows
<1>. DEFINE me == l[t]
            on == [me EXCEPT !.pc = "succ"]
<1>1. /\ me.pc = "found" /\ me.pc \in Calls /\ UNCHANGED <<next, marked, tail, counter, appended>>
      /\ me \in LocalRec /\ l \in [ListThreads -> LocalRec] /\ "succ" \in ListSteps
  BY DEF SearchFound, InList, Calls, ListSteps, ListInv, ListTypeOK
<1>2. CASE ~ me.remove
  <2>1. l' = [l EXCEPT ![t] = ListIdle]
    BY <1>2 DEF SearchFound
  <2>. QED BY <1>1, <2>1, Returns
<1>3. CASE me.remove /\ next[me.data] = NoNode0
  <2>1. l' = [l EXCEPT ![t] = CallAt(me, "not_found")]
    BY <1>3 DEF SearchFound
  <2>2. /\ l'[t].pc = "not_found" /\ l'[t].data = me.data /\ l'[t].remove = me.remove
    BY <1>1, <2>1, CallPlace DEF Calls, ListSteps
  <2>3. MayDeny(t)'
    BY <1>1, <1>3, <2>2 DEF MayDeny
  <2>4. excused'[t]
    BY <2>2, <2>3, StillThere DEF Calls, ListSteps
  <2>. QED BY <1>1, <2>1, <2>4, GoesTo DEF Places
<1>4. CASE me.remove /\ next[me.data] # NoNode0
  <2>1. l' = [l EXCEPT ![t] = on]
    BY <1>4 DEF SearchFound
  <2>2. on \in LocalRec /\ on.pc = "succ" /\ on.data = me.data
    BY <1>1 DEF LocalRec
  <2>. HIDE DEF on
  <2>3. l'[t] = on
    BY <1>1, <2>1
  <2>4. SearchOK(t)' /\ DenialOK(t)'
    BY <1>1, <1>4, <2>2, <2>3, StillThere DEF ListInv, SearchOK, DenialOK
  <2>. QED BY <1>1, <2>1, <2>2, <2>4, QuietKeeps
<1>. QED BY <1>2, <1>3, <1>4

(***************************************************************************)
(* The unlinking of removed nodes, and remove                              *)
(***************************************************************************)
LEMMA SearchUnlinkKeeps ==
    ASSUME ListInv, ListNext, NEW t \in ListThreads, SearchUnlink(t)
    PROVE  ListInv' /\ Grows
<1>. USE ListSizes
<1>. DEFINE me == l[t]
            on == [me EXCEPT !.pc = "recheck"]
            swaps == next[me.left_node] = me.left_next /\ ~ marked[me.left_node]
<1>1. /\ ListTypeOK /\ Chain /\ SearchOK(t) /\ DenialOK(t) /\ me \in LocalRec
      /\ me.pc = "arrived" /\ me.pc \in Calls
      /\ me.t \in ListNodes /\ me.left_node \in ListNodes
      /\ UNCHANGED <<marked, tail, counter, appended>>
      /\ {"recheck"} \subseteq ListSteps \cap Calls
  BY DEF ListInv, ListTypeOK, SearchUnlink, InList, Calls, LocalRec, ListSteps
<1>2. /\ me.left_node < me.t /\ me.left_next # NoNode0 /\ Gone(me.left_node, me.t)
      /\ me.t <= counter /\ me.data \in Data
  BY <1>1 DEF SearchOK
<1>3. CASE ~ swaps
  <2>1. l' = [l EXCEPT ![t] = CallAt(me, "first")] /\ next' = next
    BY <1>3 DEF SearchUnlink
  <2>. QED BY <1>1, <2>1, GoesTo DEF Places
<1>4. CASE swaps
  <2>1. l' = [l EXCEPT ![t] = on] /\ next' = [next EXCEPT ![me.left_node] = me.t]
    BY <1>4 DEF SearchUnlink
  <2>2. on \in LocalRec /\ on.pc = "recheck" /\ on.data = me.data /\ on.t = me.t
    BY <1>1 DEF LocalRec
  <2>. HIDE DEF on
  <2>3. /\ l'[t] = on /\ \A x \in ListThreads \ {t} : l'[x] = l[x]
        /\ next'[me.left_node] = me.t /\ \A n \in ListNodes \ {me.left_node} : next'[n] = next[n]
    BY <1>1, <2>1 DEF ListTypeOK
  <2>4. ListTypeOK'
    <3>1. excused' \in [ListThreads -> BOOLEAN]
      BY <1>1 DEF ListNext, ListTypeOK, MayDeny
    <3>. QED BY <1>1, <2>1, <2>2, <3>1 DEF ListTypeOK, Pointers
  <2>5. Grows
    BY <1>1, <2>3 DEF Grows, ListTypeOK
  <2>6. OthersLink(t)
    <3>1. ASSUME NEW x \in ListThreads \ {t}, InList(x, "link") PROVE next'[l[x].old] = NoNode0
      <4>1. next[l[x].old] = NoNode0 /\ l[x].old \in ListNodes
        BY <3>1 DEF ListInv, LinkOK, ListTypeOK, LocalRec
      <4>2. l[x].old # me.left_node
        BY <1>2, <1>4, <4>1
      <4>. QED BY <2>3, <4>1, <4>2
    <3>. QED BY <2>2, <2>3, <3>1 DEF OthersLink, InList
  <2>7. Chain'
    <3>1. ASSUME NEW n \in ListNodes PROVE NextOK(n)' /\ Ended(n)'
      <4>1. CASE n = me.left_node
        BY <1>1, <1>2, <2>3, <4>1 DEF NextOK, Onwards, Gone, Ended
      <4>2. CASE n # me.left_node
        <5>1. NextOK(n)'
          BY <1>1, <2>3, <4>2 DEF Chain, NextOK, Onwards, Gone
        <5>2. \A x \in ListThreads : InList(x, "link") => InList(x, "link")' /\ l'[x] = l[x]
          BY <1>1, <2>3 DEF InList
        <5>. QED BY <1>1, <2>3, <4>2, <5>1, <5>2 DEF Chain, Ended
      <4>. QED BY <4>1, <4>2
    <3>2. ASSUME NEW n \in ListNodes, marked[n] PROVE n # Head0 /\ next'[n] # NoNode0
      BY <1>1, <2>3, <3>2 DEF Chain
    <3>. QED BY <1>1, <3>1, <3>2 DEF Chain
  <2>8. LinkOK(t)' /\ SearchOK(t)'
    BY <1>2, <2>2, <2>3 DEF LinkOK, SearchOK, InList
  <2>9. DenialOK(t)'
    <3>1. SUFFICES ASSUME ~ excused'[t] PROVE DenialOK(t)'
      BY DEF DenialOK
    <3>2. ~ excused[t] /\ ~ MayDeny(t)'
      BY <1>1, <2>2, <2>3, <3>1, StillThere
    <3>. QED BY <1>1, <2>2, <2>3, <3>2 DEF DenialOK
  <2>. QED BY <2>4, <2>5, <2>6, <2>7, <2>8, <2>9, OthersStay DEF ListInv
<1>. QED BY <1>3, <1>4

LEMMA RemoveLoadKeeps ==
    ASSUME ListInv, ListNext, NEW t \in ListThreads, RemoveLoad(t)
    PROVE  ListInv' /\ Grows
<1>. DEFINE me == l[t]
            on == [me EXCEPT !.pc = "mark", !.t_next = next[me.data]]
<1>1. /\ me.pc = "succ" /\ me.pc \in Calls /\ UNCHANGED <<next, marked, tail, counter, appended>>
      /\ me \in LocalRec /\ l \in [ListThreads -> LocalRec] /\ "mark" \in ListSteps
      /\ SearchOK(t) /\ next[me.data] \in Pointers /\ me.data \in ListNodes
  BY DEF RemoveLoad, InList, Calls, ListSteps, ListInv, ListTypeOK, LocalRec
<1>2. CASE marked[me.data]
  <2>1. l' = [l EXCEPT ![t] = CallAt(me, "first")]
    BY <1>2 DEF RemoveLoad
  <2>. QED BY <1>1, <2>1, GoesTo DEF Places
<1>3. CASE ~ marked[me.data]
  <2>1. l' = [l EXCEPT ![t] = on]
    BY <1>3 DEF RemoveLoad
  <2>2. on \in LocalRec /\ on.pc = "mark" /\ on.data = me.data /\ on.t_next = next[me.data]
    BY <1>1 DEF LocalRec
  <2>. HIDE DEF on
  <2>3. l'[t] = on
    BY <1>1, <2>1
  <2>4. SearchOK(t)' /\ DenialOK(t)'
    BY <1>1, <2>2, <2>3, StillThere DEF SearchOK, DenialOK
  <2>. QED BY <1>1, <2>1, <2>2, <2>4, QuietKeeps
<1>. QED BY <1>2, <1>3

LEMMA RemoveMarkKeeps ==
    ASSUME ListInv, ListNext, NEW t \in ListThreads, RemoveMark(t)
    PROVE  ListInv' /\ Grows
<1>. USE ListSizes
<1>. DEFINE me == l[t]
            swaps == next[me.data] = me.t_next /\ ~ marked[me.data]
<1>1. /\ ListTypeOK /\ Chain /\ SearchOK(t) /\ me.pc = "mark" /\ me.pc \in Calls
      /\ UNCHANGED <<next, tail, counter, appended>>
  BY DEF ListInv, RemoveMark, InList, Calls, ListSteps
<1>2. me.data \in Data /\ me.data \in ListNodes /\ me.data # Head0 /\ me.t_next # NoNode0
  BY <1>1 DEF SearchOK
<1>3. CASE ~ swaps
  <2>1. l' = [l EXCEPT ![t] = CallAt(me, "first")] /\ marked' = marked
    BY <1>3 DEF RemoveMark
  <2>. QED BY <1>1, <2>1, GoesTo DEF Places
<1>4. CASE swaps
  <2>1. l' = [l EXCEPT ![t] = ListIdle] /\ marked' = [marked EXCEPT ![me.data] = TRUE]
    BY <1>4 DEF RemoveMark
  <2>2. /\ l'[t] = ListIdle /\ \A x \in ListThreads \ {t} : l'[x] = l[x]
        /\ \A n \in ListNodes : marked'[n] <=> marked[n] \/ n = me.data
    BY <1>1, <2>1 DEF ListTypeOK
  <2>3. ListTypeOK'
    <3>1. excused' \in [ListThreads -> BOOLEAN]
      BY <1>1 DEF ListNext, ListTypeOK, MayDeny
    <3>. QED BY <1>1, <2>1, <3>1, IdleLocal DEF ListTypeOK
  <2>4. Grows
    BY <1>1, <2>2 DEF Grows, ListTypeOK
  <2>5. OthersLink(t)
    BY <1>1, <2>2, IdleLocal DEF OthersLink, InList, ListInv, LinkOK
  <2>6. Chain'
    <3>1. ASSUME NEW n \in ListNodes PROVE NextOK(n)' /\ Ended(n)'
      <4>1. NextOK(n)'
        BY <1>1, <2>2 DEF Chain, NextOK, Onwards, Gone
      <4>2. \A x \in ListThreads : InList(x, "link") => InList(x, "link")' /\ l'[x] = l[x]
        BY <1>1, <2>2 DEF InList
      <4>. QED BY <1>1, <4>1, <4>2 DEF Chain, Ended
    <3>2. ASSUME NEW n \in ListNodes, marked'[n] PROVE n # Head0 /\ next[n] # NoNode0
      BY <1>1, <1>2, <1>4, <2>2, <3>2 DEF Chain
    <3>. QED BY <1>1, <3>1, <3>2 DEF Chain
  <2>7. LinkOK(t)' /\ SearchOK(t)' /\ DenialOK(t)'
    <3>1. l'[t].pc = "idle" /\ "idle" \notin Calls
      BY <2>2, IdleLocal
    <3>. QED BY <3>1 DEF LinkOK, SearchOK, DenialOK, InList
  <2>. QED BY <2>3, <2>4, <2>5, <2>6, <2>7, OthersStay DEF ListInv
<1>. QED BY <1>3, <1>4

LEMMA ListStep == ListInv /\ ListNext => ListInv' /\ Grows
<1>. SUFFICES ASSUME ListInv, ListNext PROVE ListInv' /\ Grows
  OBVIOUS
<1>1. PICK t \in ListThreads : ListThread(t)
  BY DEF ListNext
<1>2. CASE AppendSwap(t) \/ AppendLink(t)
  BY <1>2, AppendSwapKeeps, AppendLinkKeeps
<1>3. CASE \E d \in Data, removing \in BOOLEAN : SearchCall(t, d, removing)
  BY <1>3, SearchCallKeeps
<1>4. CASE SearchFirst(t) \/ SearchWalk(t) \/ SearchLoad(t)
  BY <1>4, SearchFirstKeeps, SearchWalkKeeps, SearchLoadKeeps
<1>5. CASE SearchArrived(t) \/ SearchRecheck(t)
  <2>1. /\ l[t].pc \in {"arrived", "recheck"}
        /\ l' = [l EXCEPT ![t] = IF marked[l[t].t] THEN CallAt(l[t], "first") ELSE Answer(l[t])]
        /\ UNCHANGED <<next, marked, tail, counter, appended>>
    BY <1>5 DEF SearchArrived, SearchRecheck, InList
  <2>. QED BY <2>1, AnswerKeeps
<1>6. CASE SearchUnlink(t) \/ SearchFound(t)
  BY <1>6, SearchUnlinkKeeps, SearchFoundKeeps
<1>7. CASE SearchNotFound(t)
  <2>1. /\ l[t].pc = "not_found" /\ l[t].pc \in Calls /\ l' = [l EXCEPT ![t] = ListIdle]
        /\ UNCHANGED <<next, marked, tail, counter, appended>>
    BY <1>7 DEF SearchNotFound, InList, Calls, ListSteps
  <2>. QED BY <2>1, Returns
<1>8. CASE RemoveLoad(t) \/ RemoveMark(t)
  BY <1>8, RemoveLoadKeeps, RemoveMarkKeeps
<1>. QED BY <1>1, <1>2, <1>3, <1>4, <1>5, <1>6, <1>7, <1>8 DEF ListThread

LEMMA ListStutter == ListInv /\ UNCHANGED listVars => ListInv'
<1>. SUFFICES ASSUME ListInv, UNCHANGED listVars PROVE ListInv'
  OBVIOUS
<1>1. UNCHANGED <<next, marked, tail, counter, l, appended, excused>>
  BY DEF listVars
<1>2. ListTypeOK' /\ Chain'
  BY <1>1 DEF ListInv, ListTypeOK, Chain, NextOK, Ended, Onwards, Gone, InList
<1>3. \A t \in ListThreads : LinkOK(t)' /\ SearchOK(t)' /\ DenialOK(t)'
  BY <1>1 DEF ListInv, LinkOK, SearchOK, DenialOK, Onwards, Gone, InList, MayDeny
<1>. QED BY <1>2, <1>3 DEF ListInv

THEOREM ListInvariant == ListSpec => []ListInv
BY ListInvInit, ListStep, ListStutter, PTL DEF ListSpec

\* The plain store with which append links the old tail (ut0lflist.cc 167)
\* never wipes out a mark, for any number of threads: remove does not mark a
\* node that is not linked yet (line 136), and no search makes a next pointer
\* null again.
THEOREM RemovalStays == ListSpec => RemovalIsFinal
<1>1. ListInv /\ [ListNext]_listVars => [\A n \in ListNodes : marked[n] => marked'[n]]_listVars
  BY ListStep DEF Grows
<1>. QED BY <1>1, ListInvariant, PTL DEF ListSpec, RemovalIsFinal

\* No search overlooks data that was in the list during the whole call, and no
\* remove gives it up (ut0lflist.cc 77-97 and 136), however many nodes are
\* appended, removed and unlinked around it.
THEOREM DenialsStayRight == ListSpec => []DenialsAreRight
<1>1. ListInv => DenialsAreRight
  BY DEF ListInv, DenialOK, DenialsAreRight, InList, Calls, ListSteps
<1>. QED BY <1>1, ListInvariant, PTL

(***************************************************************************)
(* What can be reached.                                                    *)
(***************************************************************************)
\* p is a walk of j steps from a node of ns to n.
Path(ns, p, j, n) ==
    /\ p \in [0 .. j -> ListNodes] /\ p[0] \in ns /\ p[j] = n
    /\ \A i \in 1 .. j : p[i] = next[p[i - 1]]

\* The nodes that a walk of at most k steps ends at.
Ends(ns, k) == {n \in ListNodes : \E j \in 0 .. k : \E p : Path(ns, p, j, n)}

Extended(S) == S \cup ({next[n] : n \in S} \ {NoNode0})

LEMMA NoSteps ==
    ASSUME NEW ns \in SUBSET ListNodes
    PROVE  Ends(ns, 0) = ns
<1>1. ASSUME NEW n \in ns PROVE n \in Ends(ns, 0)
  <2>1. Path(ns, [i \in 0 .. 0 |-> n], 0, n)
    BY DEF Path
  <2>. QED BY <2>1 DEF Ends
<1>2. ASSUME NEW n \in Ends(ns, 0) PROVE n \in ns
  <2>1. PICK j \in 0 .. 0 : \E p : Path(ns, p, j, n)
    BY DEF Ends
  <2>. QED BY <2>1 DEF Path
<1>. QED BY <1>1, <1>2

LEMMA OneMoreStep ==
    ASSUME NEW ns \in SUBSET ListNodes, next \in [ListNodes -> Pointers], NEW k \in 1 .. MaxData
    PROVE  Ends(ns, k) = Extended(Ends(ns, k - 1))
<1>. USE ListSizes
<1>1. ASSUME NEW n \in Ends(ns, k) PROVE n \in Extended(Ends(ns, k - 1))
  <2>0. PICK j \in 0 .. k : \E p : Path(ns, p, j, n)
    BY DEF Ends
  <2>1. PICK p : Path(ns, p, j, n)
    BY <2>0
  <2>2. CASE j \in 0 .. k - 1
    BY <2>1, <2>2 DEF Ends, Extended
  <2>3. CASE j = k
    <3>. DEFINE m == p[k - 1]
                q == [i \in 0 .. k - 1 |-> p[i]]
    <3>1. m \in ListNodes /\ n = next[m] /\ n # NoNode0
      BY <2>1, <2>3 DEF Path, Ends
    <3>2. Path(ns, q, k - 1, m)
      <4>1. q \in [0 .. k - 1 -> ListNodes] /\ q[0] = p[0] /\ q[k - 1] = m
        BY <2>1, <2>3 DEF Path
      <4>2. \A i \in 1 .. k - 1 : q[i] = next[q[i - 1]]
        BY <2>1, <2>3 DEF Path
      <4>. QED BY <2>1, <4>1, <4>2 DEF Path
    <3>. HIDE DEF m, q
    <3>3. m \in Ends(ns, k - 1)
      BY <3>1, <3>2 DEF Ends
    <3>. QED BY <3>1, <3>3 DEF Extended
  <2>4. j \in 0 .. k - 1 \/ j = k
    OBVIOUS
  <2>. QED BY <2>2, <2>3, <2>4
<1>2. ASSUME NEW n \in Ends(ns, k - 1) PROVE n \in Ends(ns, k)
  <2>1. \A j \in 0 .. k - 1 : j \in 0 .. k
    OBVIOUS
  <2>. QED BY <2>1 DEF Ends
<1>3. ASSUME NEW m \in Ends(ns, k - 1), next[m] # NoNode0 PROVE next[m] \in Ends(ns, k)
  <2>0. PICK j \in 0 .. k - 1 : \E p : Path(ns, p, j, m)
    BY DEF Ends
  <2>1. PICK p : Path(ns, p, j, m)
    BY <2>0
  <2>2. next[m] \in ListNodes
    BY <1>3 DEF Pointers, Ends
  <2>. DEFINE q == [i \in 0 .. j + 1 |-> IF i = j + 1 THEN next[m] ELSE p[i]]
  <2>3. Path(ns, q, j + 1, next[m])
    <3>1. q \in [0 .. j + 1 -> ListNodes] /\ q[0] = p[0] /\ q[j + 1] = next[m]
      BY <2>1, <2>2 DEF Path
    <3>2. ASSUME NEW i \in 1 .. j + 1 PROVE q[i] = next[q[i - 1]]
      BY <2>1 DEF Path
    <3>. QED BY <2>1, <3>1, <3>2 DEF Path
  <2>4. j + 1 \in 0 .. k
    OBVIOUS
  <2>. HIDE DEF q
  <2>. QED BY <2>2, <2>3, <2>4 DEF Ends
<1>. QED BY <1>1, <1>2, <1>3 DEF Extended

\* Follow takes one step after the other: the function it is defined by exists.
LEMMA FollowSteps ==
    ASSUME NEW ns \in SUBSET ListNodes, next \in [ListNodes -> Pointers]
    PROVE  \E after :
              /\ Follow(ns) = after[MaxData]
              /\ after[0] = ns
              /\ \A k \in 1 .. MaxData : after[k] = Extended(after[k - 1])
<1>. DEFINE Defines(f) == f = [k \in 0 .. MaxData |-> IF k = 0 THEN ns ELSE Extended(f[k - 1])]
            after == CHOOSE f : Defines(f)
            ends == [k \in 0 .. MaxData |-> Ends(ns, k)]
<1>1. Follow(ns) = after[MaxData]
  BY Zenon DEF Follow, Extended
<1>2. Defines(ends)
  <2>1. ASSUME NEW k \in 0 .. MaxData PROVE ends[k] = IF k = 0 THEN ns ELSE Extended(ends[k - 1])
    <3>1. CASE k = 0
      BY <3>1, NoSteps
    <3>2. CASE k # 0
      <4>1. k \in 1 .. MaxData /\ k - 1 \in 0 .. MaxData
        BY <3>2, ListSizes
      <4>. QED BY <3>2, <4>1, OneMoreStep
    <3>. QED BY <3>1, <3>2
  <2>. QED BY <2>1
<1>3. Defines(after)
  BY <1>2, Zenon
<1>. HIDE DEF after
<1>4. after[0] = ns /\ \A k \in 1 .. MaxData : after[k] = Extended(after[k - 1])
  BY <1>3, ListSizes
<1>. QED BY <1>1, <1>4

\* A walk reaches d from the last of the nodes in ns that is not behind d.
LEMMA Reached ==
    ASSUME ListInv, NEW ns \in SUBSET ListNodes, Head0 \in ns,
           \A t \in ListThreads : InList(t, "link") => l[t].data \in ns,
           NEW d \in 1 .. counter, ~ marked[d]
    PROVE  d \in Follow(ns)
<1>. USE ListSizes
<1>1. /\ next \in [ListNodes -> Pointers] /\ counter \in 0 .. MaxData /\ d \in Data
      /\ Chain
  BY DEF ListInv, ListTypeOK
<1>2. PICK after : /\ Follow(ns) = after[MaxData] /\ after[0] = ns
                   /\ \A k \in 1 .. MaxData : after[k] = Extended(after[k - 1])
  BY <1>1, FollowSteps
\* r: no node of ns stands between it and d
<1>3. PICK r \in ns : r <= d /\ \A x \in ns : x <= d => x <= r
  <2>. DEFINE S == {d - x : x \in {y \in ns : y <= d}}
  <2>1. S \in SUBSET Nat /\ d - Head0 \in S
    BY <1>1
  <2>2. PICK m \in S : \A k \in S : m <= k
    BY <2>1, LeastNatural
  <2>3. PICK x \in ns : x <= d /\ m = d - x
    BY <2>2
  <2>4. ASSUME NEW y \in ns, y <= d PROVE y <= x
    <3>1. d - y \in S
      BY <2>4
    <3>2. d - x <= d - y
      BY <2>2, <2>3, <3>1
    <3>3. d \in Int /\ x \in Int /\ y \in Int
      BY <1>1
    <3>. QED BY <3>2, <3>3
  <2>. QED BY <2>3, <2>4
<1>4. ASSUME NEW x \in ListNodes, r <= x, x < d
      PROVE  next[x] # NoNode0 /\ next[x] \in ListNodes /\ x < next[x] /\ next[x] <= d
  <2>1. next[x] # NoNode0
    <3>1. SUFFICES ASSUME next[x] = NoNode0 PROVE FALSE
      OBVIOUS
    <3>2. x + 1 \in ns
      BY <1>1, <1>4, <3>1 DEF Chain, Ended
    <3>. QED BY <1>1, <1>3, <1>4, <3>2
  <2>2. Onwards(x, next[x]) /\ next[x] \in ListNodes
    BY <1>1, <2>1 DEF Chain, NextOK, Pointers
  <2>. QED BY <1>1, <1>4, <2>1, <2>2 DEF Onwards, Gone
<1>. DEFINE Near(k) == \E x \in ListNodes : x \in after[k] /\ r <= x /\ x <= d /\ (x = d \/ r + k <= x)
            Missed == {k \in 0 .. MaxData : ~ Near(k)}
<1>5. Near(0)
  BY <1>1, <1>2, <1>3
<1>6. ASSUME NEW k \in 1 .. MaxData, Near(k - 1) PROVE Near(k)
  <2>1. PICK x \in ListNodes : x \in after[k - 1] /\ r <= x /\ x <= d /\ (x = d \/ r + (k - 1) <= x)
    BY <1>6
  <2>2. CASE x = d
    BY <1>2, <2>1, <2>2 DEF Extended
  <2>3. CASE x # d
    <3>1. /\ next[x] # NoNode0 /\ next[x] \in ListNodes /\ x < next[x] /\ next[x] <= d
      BY <1>1, <1>4, <2>1, <2>3
    <3>2. next[x] \in after[k]
      BY <1>2, <2>1, <3>1 DEF Extended
    <3>. QED BY <1>3, <2>1, <2>3, <3>1, <3>2
  <2>. QED BY <2>2, <2>3
<1>. HIDE DEF Near
<1>7. Missed = {}
  <2>1. SUFFICES ASSUME Missed # {} PROVE FALSE
    OBVIOUS
  <2>2. PICK k \in Missed : \A j \in Missed : k <= j
    <3>1. Missed \in SUBSET Nat
      BY <1>1
    <3>. QED BY <2>1, <3>1, LeastNatural
  <2>3. k \in 1 .. MaxData /\ k - 1 \in 0 .. MaxData /\ ~ (k <= k - 1)
    BY <1>5, <2>2
  <2>. QED BY <1>6, <2>2, <2>3
<1>8. Near(MaxData)
  BY <1>7
<1>9. PICK x \in ListNodes : x \in after[MaxData] /\ r <= x /\ x <= d /\ (x = d \/ r + MaxData <= x)
  BY <1>8 DEF Near
<1>10. x = d
  BY <1>1, <1>3, <1>9
<1>. QED BY <1>2, <1>9, <1>10

\* No unlinking of removed nodes by a search (ut0lflist.cc 107-111), and no
\* append to a node that is being removed, cuts live nodes off, for any number
\* of threads and nodes.
THEOREM LiveNodesStayLinked == ListSpec => []LiveNodesAreLinked
<1>1. ListInv => LiveNodesAreLinked
  <2>. SUFFICES ASSUME ListInv, NEW d \in appended, ~ marked[d]
                PROVE  d \in Follow({Head0} \cup {l[t].data : t \in {x \in ListThreads : InList(x, "link")}})
    BY DEF LiveNodesAreLinked
  <2>. DEFINE ns == {Head0} \cup {l[t].data : t \in {x \in ListThreads : InList(x, "link")}}
  <2>1. ns \in SUBSET ListNodes /\ Head0 \in ns /\ d \in 1 .. counter
    BY ListSizes DEF ListInv, ListTypeOK, LocalRec
  <2>2. \A t \in ListThreads : InList(t, "link") => l[t].data \in ns
    OBVIOUS
  <2>. HIDE DEF ns
  <2>3. d \in Follow(ns)
    BY <2>1, <2>2, Reached
  <2>. QED BY <2>3 DEF ns
<1>. QED BY <1>1, ListInvariant, PTL

(***************************************************************************)
(* The list of invalid nodes                                               *)
(***************************************************************************)
NodePointers == HashNodes \cup {NilNode}

\* Along field, the nodes of q lead to each other, and the last to nowhere.
Leads(field, q) ==
    \A k \in 1 .. Len(q) : field[q[k]] = IF k = Len(q) THEN NilNode ELSE q[k + 1]

LeadsBack(field, q) ==
    \A k \in 1 .. Len(q) : field[q[k]] = IF k = 1 THEN NilNode ELSE q[k - 1]

Differ(q) == \A j, k \in 1 .. Len(q) : q[j] = q[k] => j = k

\* The pointers say what the queue is.
Queued ==
    /\ prev_of \in [HashNodes -> NodePointers] /\ next_of \in [HashNodes -> NodePointers]
    /\ held \in Seq(HashNodes) /\ Differ(held)
    /\ list.count = Len(held)
    /\ list.head = IF held = <<>> THEN NilNode ELSE held[1]
    /\ list.tail = IF held = <<>> THEN NilNode ELSE held[Len(held)]
    /\ Leads(next_of, held) /\ LeadsBack(prev_of, held)

InvalidInv == twice \in BOOLEAN /\ (~ twice => Queued)

LEMMA InvalidInvInit == InvalidInit => InvalidInv
<1>. SUFFICES ASSUME InvalidInit PROVE InvalidInv
  OBVIOUS
<1>1. held \in Seq(HashNodes) /\ held = <<>> /\ Len(held) = 0
  BY EmptySeq DEF InvalidInit
<1>2. Differ(held) /\ Leads(next_of, held) /\ LeadsBack(prev_of, held)
  BY <1>1 DEF Differ, Leads, LeadsBack
<1>. QED BY <1>1, <1>2 DEF InvalidInit, InvalidInv, Queued, NodePointers

LEMMA Nil == NilNode \notin HashNodes /\ IsFiniteSet(HashNodes)
BY InvalidListAssumption DEF InvalidListAssumption

\* What a sequence of nodes is made of.
LEMMA HeldNodes ==
    ASSUME Queued
    PROVE  /\ Len(held) \in Nat /\ \A k \in 1 .. Len(held) : held[k] \in HashNodes /\ held[k] # NilNode
           /\ held = <<>> <=> Len(held) = 0
           /\ list.head = NilNode <=> held = <<>>
           /\ list.tail = NilNode <=> held = <<>>
<1>1. /\ held \in Seq(HashNodes) /\ Len(held) \in Nat
      /\ held = <<>> <=> Len(held) = 0
      /\ \A k \in 1 .. Len(held) : held[k] \in HashNodes /\ held[k] # NilNode
  BY Nil, EmptySeq, LenProperties, ElementOfSeq DEF Queued
<1>2. held # <<>> => held[1] # NilNode /\ held[Len(held)] # NilNode
  BY <1>1
<1>. QED BY <1>1, <1>2 DEF Queued

LEMMA InvalidateKeeps ==
    ASSUME InvalidInv, NEW n \in HashNodes, Invalidate(n)
    PROVE  InvalidInv'
<1>1. twice' \in BOOLEAN
  BY DEF Invalidate, InvalidInv, Held
<1>2. ASSUME ~ twice' PROVE Queued'
  <2>. DEFINE m == Len(held)
  <2>1. ~ twice /\ n \notin Held /\ Queued
    BY <1>2 DEF Invalidate, InvalidInv
  <2>2. /\ m \in Nat /\ \A k \in 1 .. m : held[k] \in HashNodes /\ held[k] # NilNode
        /\ held \in Seq(HashNodes)
        /\ held = <<>> <=> m = 0
        /\ list.tail = NilNode <=> held = <<>>
    BY <2>1, HeldNodes DEF Queued
  <2>3. /\ held' \in Seq(HashNodes) /\ Len(held') = m + 1 /\ held'[m + 1] = n /\ held' # <<>>
        /\ \A k \in 1 .. m : held'[k] = held[k]
    <3>1. held' = Append(held, n)
      BY DEF Invalidate
    <3>2. /\ held' \in Seq(HashNodes) /\ Len(held') = Len(held) + 1
          /\ \A k \in 1 .. Len(held) : held'[k] = held[k]
          /\ held'[Len(held) + 1] = n
      <4>. held \in Seq(HashNodes)
        BY <2>2
      <4>. QED BY <3>1, AppendProperties
    <3>3. held' # <<>>
      BY <2>2, <3>2, EmptySeq
    <3>. QED BY <2>2, <3>2, <3>3
  <2>4. \A k \in 1 .. m : held[k] # n
    BY <2>1 DEF Held
  <2>5. Differ(held')
    BY <2>1, <2>2, <2>3, <2>4 DEF Differ, Queued
  <2>6. /\ list'.head = IF list.tail = NilNode THEN n ELSE list.head
        /\ list'.tail = n /\ list'.count = list.count + 1
    BY DEF Invalidate
  <2>7. list'.head = held'[1]
    BY <2>1, <2>2, <2>3, <2>6 DEF Queued
  <2>8. /\ next_of' \in [HashNodes -> NodePointers] /\ prev_of' \in [HashNodes -> NodePointers]
        /\ next_of'[n] = NilNode
        /\ prev_of'[n] = list.tail
        /\ \A x \in HashNodes \ {n} : prev_of'[x] = prev_of[x]
        /\ \A x \in HashNodes \ {n} :
              next_of'[x] = IF x = list.tail THEN n ELSE next_of[x]
    BY <2>1, <2>2, Nil DEF Invalidate, Store, Queued, NodePointers
  <2>9. Leads(next_of', held')
    <3>1. ASSUME NEW k \in 1 .. m PROVE next_of'[held'[k]] = held'[k + 1]
      <4>1. held'[k] = held[k] /\ held[k] \in HashNodes \ {n}
        BY <2>2, <2>3, <2>4
      <4>2. CASE k = m
        BY <2>1, <2>2, <2>3, <2>8, <4>1, <4>2 DEF Queued
      <4>3. CASE k # m
        <5>1. held[k] # list.tail /\ k + 1 \in 1 .. m
          BY <2>1, <2>2, <4>3 DEF Queued, Differ
        <5>. QED BY <2>1, <2>2, <2>3, <2>8, <4>1, <4>3, <5>1 DEF Queued, Leads
      <4>. QED BY <4>2, <4>3
    <3>. QED BY <2>2, <2>3, <2>8, <3>1 DEF Leads
  <2>10. LeadsBack(prev_of', held')
    <3>1. ASSUME NEW k \in 1 .. m
          PROVE  prev_of'[held'[k]] = IF k = 1 THEN NilNode ELSE held'[k - 1]
      BY <2>1, <2>2, <2>3, <2>4, <2>8 DEF Queued, LeadsBack
    <3>2. prev_of'[held'[m + 1]] = IF m + 1 = 1 THEN NilNode ELSE held'[m]
      BY <2>1, <2>2, <2>3, <2>8 DEF Queued
    <3>. QED BY <2>2, <2>3, <3>1, <3>2 DEF LeadsBack
  <2>. QED BY <2>1, <2>2, <2>3, <2>5, <2>6, <2>7, <2>8, <2>9, <2>10 DEF Queued
<1>. QED BY <1>1, <1>2 DEF InvalidInv

LEMMA PopFrontKeeps ==
    ASSUME InvalidInv, PopFront
    PROVE  InvalidInv'
<1>1. twice' = twice /\ twice' \in BOOLEAN
  BY DEF PopFront, InvalidInv
<1>2. ASSUME ~ twice PROVE Queued'
  <2>. DEFINE m == Len(held)
  <2>1. Queued
    BY <1>2 DEF InvalidInv
  <2>2. /\ m \in Nat \ {0} /\ \A k \in 1 .. m : held[k] \in HashNodes /\ held[k] # NilNode
        /\ held \in Seq(HashNodes) /\ held # <<>> /\ list.head = held[1]
        /\ list.tail = held[m] /\ list.count = m
    BY <2>1, HeldNodes DEF Queued, PopFront
  <2>3. /\ held' \in Seq(HashNodes) /\ Len(held') = m - 1
        /\ \A k \in 1 .. m - 1 : held'[k] = held[k + 1]
        /\ held' = <<>> <=> m = 1
    <3>1. held' = Tail(held) /\ held' \in Seq(HashNodes) /\ Len(held') = m - 1
      BY <2>2, HeadTailProperties DEF PopFront
    <3>2. \A k \in 1 .. m - 1 : held'[k] = held[k + 1]
      BY <2>2, <3>1, HeadTailProperties
    <3>3. held' = <<>> <=> Len(held') = 0
      BY <3>1, EmptySeq
    <3>. QED BY <2>2, <3>1, <3>2, <3>3
  <2>. HIDE DEF m
  <2>4. next_of[held[1]] = IF m = 1 THEN NilNode ELSE held[2]
    <3>1. 1 \in 1 .. m /\ 1 + 1 = 2
      BY <2>2
    <3>2. \A k \in 1 .. m : next_of[held[k]] = IF k = m THEN NilNode ELSE held[k + 1]
      BY <2>1 DEF Queued, Leads, m
    <3>. QED BY <3>1, <3>2
  <2>5. /\ list'.head = next_of[held[1]]
        /\ list'.tail = IF m = 1 THEN NilNode ELSE held[m]
        /\ list'.count = m - 1 /\ next_of' = next_of
        /\ prev_of' = Store(prev_of, next_of[held[1]], NilNode)
    BY <2>2, <2>4 DEF PopFront
  <2>6. /\ prev_of' \in [HashNodes -> NodePointers]
        /\ \A x \in HashNodes :
              prev_of'[x] = IF m # 1 /\ x = held[2] THEN NilNode ELSE prev_of[x]
    BY <2>1, <2>2, <2>4, <2>5 DEF Store, Queued, NodePointers
  <2>7. Differ(held')
    BY <2>1, <2>2, <2>3 DEF Queued, Differ
  <2>8. Leads(next_of', held')
    BY <2>1, <2>2, <2>3, <2>5 DEF Queued, Leads
  <2>9. LeadsBack(prev_of', held')
    <3>1. ASSUME NEW k \in 1 .. m - 1
          PROVE  prev_of'[held'[k]] = IF k = 1 THEN NilNode ELSE held'[k - 1]
      <4>1. held'[k] = held[k + 1] /\ k + 1 \in 1 .. m /\ 2 \in 1 .. m /\ held[k + 1] \in HashNodes
        BY <2>2, <2>3
      <4>2. CASE k = 1
        BY <2>2, <2>6, <4>1, <4>2
      <4>3. CASE k # 1
        <5>1. held[k + 1] # held[2]
          <6>1. held[k + 1] = held[2] => k + 1 = 2
            BY <2>1, <4>1 DEF Queued, Differ, m
          <6>2. k + 1 # 2
            BY <2>2, <4>3
          <6>. QED BY <6>1, <6>2
        <5>2. prev_of[held[k + 1]] = held[k] /\ held'[k - 1] = held[k]
          BY <2>1, <2>2, <2>3, <4>1, <4>3 DEF Queued, LeadsBack
        <5>. QED BY <2>6, <4>1, <4>3, <5>1, <5>2
      <4>. QED BY <4>2, <4>3
    <3>. QED BY <2>3, <3>1 DEF LeadsBack
  <2>10. /\ list'.head = IF held' = <<>> THEN NilNode ELSE held'[1]
         /\ list'.tail = IF held' = <<>> THEN NilNode ELSE held'[Len(held')]
    BY <2>2, <2>3, <2>4, <2>5
  <2>. QED BY <2>1, <2>3, <2>5, <2>6, <2>7, <2>8, <2>9, <2>10 DEF Queued
<1>. QED BY <1>1, <1>2 DEF InvalidInv

\* Whichever place the node has, its neighbours become each other's.
LEMMA RemoveKeeps ==
    ASSUME InvalidInv, NEW n \in HashNodes, remove_list_node(n)
    PROVE  InvalidInv'
<1>1. ~ twice /\ twice' = twice /\ Queued
  BY DEF remove_list_node, Unlinked, InvalidInv
<1>. DEFINE m == Len(held)
<1>2. PICK p \in 1 .. m : /\ held[p] = n
                          /\ held' = SubSeq(held, 1, p - 1) \o SubSeq(held, p + 1, m)
  BY DEF remove_list_node, Unlinked
<1>3. /\ m \in Nat \ {0} /\ \A k \in 1 .. m : held[k] \in HashNodes /\ held[k] # NilNode
      /\ held \in Seq(HashNodes) /\ held # <<>> /\ list.head = held[1]
      /\ list.tail = held[m] /\ list.count = m
  BY <1>1, <1>2, HeldNodes DEF Queued
<1>. DEFINE before == IF p = 1 THEN NilNode ELSE held[p - 1]
            after == IF p = m THEN NilNode ELSE held[p + 1]
<1>4. Before(n) = before /\ After(n) = after
  BY <1>1, <1>2, <1>3 DEF Before, After, Queued, Differ, Leads, LeadsBack
<1>5. /\ held' \in Seq(HashNodes) /\ Len(held') = m - 1
      /\ \A k \in 1 .. m - 1 : held'[k] = IF k < p THEN held[k] ELSE held[k + 1]
      /\ held' = <<>> <=> m = 1
  <2>. DEFINE s1 == SubSeq(held, 1, p - 1)
              s2 == SubSeq(held, p + 1, m)
  <2>1. s1 \in Seq(HashNodes) /\ Len(s1) = p - 1 /\ \A k \in 1 .. p - 1 : s1[k] = held[k]
    BY <1>3, SubSeqProperties
  <2>2. s2 \in Seq(HashNodes) /\ Len(s2) = m - p /\ \A k \in 1 .. m - p : s2[k] = held[p + k]
    <3>1. \A k \in p + 1 .. m : held[k] \in HashNodes
      BY <1>3
    <3>2. s2 \in Seq(HashNodes)
      BY <1>3, <3>1, SubSeqProperties
    <3>3. Len(s2) = IF p + 1 <= m THEN m - (p + 1) + 1 ELSE 0
      BY <1>3, <3>1, SubSeqProperties
    <3>4. \A k \in 1 .. m - (p + 1) + 1 : s2[k] = held[(p + 1) + k - 1]
      BY <1>3, <3>1, SubSeqProperties
    <3>. QED BY <1>3, <3>2, <3>3, <3>4
  <2>. HIDE DEF s1, s2
  <2>3. /\ s1 \o s2 \in Seq(HashNodes) /\ Len(s1 \o s2) = Len(s1) + Len(s2)
        /\ \A i \in 1 .. Len(s1) + Len(s2) : (s1 \o s2)[i] =
              IF i <= Len(s1) THEN s1[i] ELSE s2[i - Len(s1)]
    BY <2>1, <2>2, ConcatProperties
  <2>4. held' = s1 \o s2
    BY <1>2 DEF s1, s2
  <2>5. ASSUME NEW k \in 1 .. m - 1 PROVE held'[k] = IF k < p THEN held[k] ELSE held[k + 1]
    <3>1. CASE k < p
      BY <1>3, <2>1, <2>2, <2>3, <2>4, <3>1
    <3>2. CASE ~ (k < p)
      <4>1. held'[k] = s2[k - (p - 1)] /\ k - (p - 1) \in 1 .. m - p
        BY <1>3, <2>1, <2>2, <2>3, <2>4, <3>2
      <4>. QED BY <2>2, <3>2, <4>1
    <3>. QED BY <3>1, <3>2
  <2>6. held' \in Seq(HashNodes) /\ Len(held') = m - 1
    BY <1>3, <2>1, <2>2, <2>3, <2>4
  <2>7. held' = <<>> <=> Len(held') = 0
    BY <2>6, EmptySeq
  <2>. QED BY <1>3, <2>5, <2>6, <2>7
<1>. HIDE DEF m
<1>0. /\ \A k \in 1 .. m : next_of[held[k]] = IF k = m THEN NilNode ELSE held[k + 1]
      /\ \A k \in 1 .. m : prev_of[held[k]] = IF k = 1 THEN NilNode ELSE held[k - 1]
      /\ \A j, k \in 1 .. m : held[j] = held[k] => j = k
  BY <1>1 DEF Queued, Leads, LeadsBack, Differ, m
<1>6. /\ list'.head = IF p = 1 THEN after ELSE held[1]
      /\ list'.tail = IF p = m THEN before ELSE held[m]
      /\ list'.count = m - 1
      /\ next_of' = Store(next_of, before, after) /\ prev_of' = Store(prev_of, after, before)
  <2>1. (n = list.head <=> p = 1) /\ (n = list.tail <=> p = m)
    BY <1>0, <1>2, <1>3
  <2>. HIDE DEF before, after
  <2>2. /\ list'.head = IF n = list.head THEN after ELSE list.head
        /\ list'.tail = IF n = list.tail THEN before ELSE list.tail
        /\ list'.count = list.count - 1
        /\ next_of' = Store(next_of, before, after) /\ prev_of' = Store(prev_of, after, before)
    BY <1>4 DEF remove_list_node, Unlinked
  <2>. QED BY <1>3, <2>1, <2>2
<1>7. Differ(held')
  <2>1. ASSUME NEW j \in 1 .. m - 1, NEW k \in 1 .. m - 1, held'[j] = held'[k] PROVE j = k
    <3>1. /\ j \in 1 .. m /\ j + 1 \in 1 .. m /\ k \in 1 .. m /\ k + 1 \in 1 .. m
          /\ j \in Int /\ k \in Int /\ p \in Int
      BY <1>2, <1>3
    <3>2. /\ held'[j] = IF j < p THEN held[j] ELSE held[j + 1]
          /\ held'[k] = IF k < p THEN held[k] ELSE held[k + 1]
      BY <1>5
    <3>3. PICK a \in 1 .. m : a = (IF j < p THEN j ELSE j + 1) /\ held'[j] = held[a]
      BY <3>1, <3>2
    <3>4. PICK c \in 1 .. m : c = (IF k < p THEN k ELSE k + 1) /\ held'[k] = held[c]
      BY <3>1, <3>2
    <3>5. a = c
      BY <1>0, <2>1, <3>3, <3>4
    <3>. QED BY <3>1, <3>3, <3>4, <3>5
  <2>. QED BY <1>5, <2>1 DEF Differ
<1>8. /\ next_of' \in [HashNodes -> NodePointers]
      /\ \A k \in 1 .. m : next_of'[held[k]] = IF k = p - 1 THEN after ELSE next_of[held[k]]
  <2>1. next_of \in [HashNodes -> NodePointers] /\ after \in NodePointers
    BY <1>1, <1>2, <1>3 DEF Queued, NodePointers
  <2>2. ASSUME NEW k \in 1 .. m, p # 1
        PROVE  held[k] = held[p - 1] <=> k = p - 1
    <3>1. p - 1 \in 1 .. m
      BY <1>2, <1>3, <2>2
    <3>. QED BY <1>0, <3>1
  <2>3. CASE p = 1
    BY <1>3, <1>6, <2>1, <2>3 DEF Store
  <2>4. CASE p # 1
    <3>1. before = held[p - 1] /\ before \in HashNodes /\ before # NilNode
      BY <1>2, <1>3, <2>4
    <3>. HIDE DEF before, after
    <3>2. next_of' = [next_of EXCEPT ![before] = after]
      BY <1>6, <3>1 DEF Store
    <3>. QED BY <1>3, <2>1, <2>2, <2>4, <3>1, <3>2
  <2>. QED BY <2>3, <2>4
<1>9. /\ prev_of' \in [HashNodes -> NodePointers]
      /\ \A k \in 1 .. m : prev_of'[held[k]] = IF k = p + 1 THEN before ELSE prev_of[held[k]]
  <2>1. prev_of \in [HashNodes -> NodePointers] /\ before \in NodePointers
    BY <1>1, <1>2, <1>3 DEF Queued, NodePointers
  <2>2. ASSUME NEW k \in 1 .. m, p # m
        PROVE  held[k] = held[p + 1] <=> k = p + 1
    <3>1. p + 1 \in 1 .. m
      BY <1>2, <1>3, <2>2
    <3>. QED BY <1>0, <3>1
  <2>3. CASE p = m
    BY <1>3, <1>6, <2>1, <2>3 DEF Store
  <2>4. CASE p # m
    <3>1. after = held[p + 1] /\ after \in HashNodes /\ after # NilNode
      BY <1>2, <1>3, <2>4
    <3>. HIDE DEF before, after
    <3>2. prev_of' = [prev_of EXCEPT ![after] = before]
      BY <1>6, <3>1 DEF Store
    <3>. QED BY <1>3, <2>1, <2>2, <2>4, <3>1, <3>2
  <2>. QED BY <2>3, <2>4
<1>10. Leads(next_of', held')
  <2>1. ASSUME NEW k \in 1 .. m - 1
        PROVE  next_of'[held'[k]] = IF k = m - 1 THEN NilNode ELSE held'[k + 1]
    <3>1. /\ k \in 1 .. m /\ k + 1 \in 1 .. m /\ k \in Int /\ p \in Int /\ m \in Int
          /\ k # m - 1 => k + 1 \in 1 .. m - 1 /\ k + 2 \in 1 .. m
      BY <1>2, <1>3
    <3>2. /\ held'[k] = IF k < p THEN held[k] ELSE held[k + 1]
          /\ k # m - 1 => held'[k + 1] = IF k + 1 < p THEN held[k + 1] ELSE held[(k + 1) + 1]
      BY <1>5, <3>1
    <3>3. /\ next_of[held[k]] = IF k = m THEN NilNode ELSE held[k + 1]
          /\ next_of[held[k + 1]] = IF k + 1 = m THEN NilNode ELSE held[(k + 1) + 1]
      BY <1>0, <3>1
    <3>4. /\ next_of'[held[k]] = IF k = p - 1 THEN after ELSE next_of[held[k]]
          /\ next_of'[held[k + 1]] = IF k + 1 = p - 1 THEN after ELSE next_of[held[k + 1]]
      BY <1>8, <3>1
    <3>5. CASE k < p - 1
      BY <3>1, <3>2, <3>3, <3>4, <3>5
    <3>6. CASE k = p - 1
      BY <3>1, <3>2, <3>4, <3>6
    <3>7. CASE k > p - 1
      BY <3>1, <3>2, <3>3, <3>4, <3>7
    <3>. QED BY <3>1, <3>5, <3>6, <3>7
  <2>. QED BY <1>5, <2>1 DEF Leads
<1>11. LeadsBack(prev_of', held')
  <2>1. ASSUME NEW k \in 1 .. m - 1
        PROVE  prev_of'[held'[k]] = IF k = 1 THEN NilNode ELSE held'[k - 1]
    <3>1. /\ k \in 1 .. m /\ k + 1 \in 1 .. m /\ k \in Int /\ p \in 1 .. m /\ m \in Int
          /\ k # 1 => k - 1 \in 1 .. m - 1
          /\ (k + 1) - 1 = k /\ (k - 1) + 1 = k
      BY <1>2, <1>3
    <3>2. /\ held'[k] = IF k < p THEN held[k] ELSE held[k + 1]
          /\ k # 1 => held'[k - 1] = IF k - 1 < p THEN held[k - 1] ELSE held[k]
      BY <1>5, <3>1
    <3>3. /\ prev_of[held[k]] = IF k = 1 THEN NilNode ELSE held[k - 1]
          /\ prev_of[held[k + 1]] = IF k + 1 = 1 THEN NilNode ELSE held[k]
      BY <1>0, <3>1
    <3>4. /\ prev_of'[held[k]] = IF k = p + 1 THEN before ELSE prev_of[held[k]]
          /\ prev_of'[held[k + 1]] = IF k + 1 = p + 1 THEN before ELSE prev_of[held[k + 1]]
      BY <1>9, <3>1
    <3>5. CASE k < p
      BY <3>1, <3>2, <3>3, <3>4, <3>5
    <3>6. CASE k = p
      BY <3>1, <3>2, <3>4, <3>6
    <3>7. CASE k > p
      BY <3>1, <3>2, <3>3, <3>4, <3>7
    <3>. QED BY <3>1, <3>5, <3>6, <3>7
  <2>. QED BY <1>5, <2>1 DEF LeadsBack
<1>12. /\ list'.head = IF held' = <<>> THEN NilNode ELSE held'[1]
       /\ list'.tail = IF held' = <<>> THEN NilNode ELSE held'[Len(held')]
  <2>1. CASE m = 1
    BY <1>2, <1>5, <1>6, <2>1
  <2>2. CASE m # 1
    <3>1. 1 \in 1 .. m - 1 /\ m - 1 \in 1 .. m - 1 /\ p \in 1 .. m /\ m \in Int
      BY <1>2, <1>3, <2>2
    <3>2. /\ held'[1] = IF 1 < p THEN held[1] ELSE held[1 + 1]
          /\ held'[m - 1] = IF m - 1 < p THEN held[m - 1] ELSE held[(m - 1) + 1]
      BY <1>5, <3>1
    <3>. QED BY <1>5, <1>6, <2>2, <3>1, <3>2
  <2>. QED BY <2>1, <2>2
<1>. QED BY <1>1, <1>5, <1>6, <1>7, <1>8, <1>9, <1>10, <1>11, <1>12 DEF InvalidInv, Queued

LEMMA InvalidStep == InvalidInv /\ [InvalidNext]_invalidVars => InvalidInv'
<1>. SUFFICES ASSUME InvalidInv, [InvalidNext]_invalidVars PROVE InvalidInv'
  OBVIOUS
<1>1. ASSUME UNCHANGED <<list, prev_of, next_of, held, twice>> PROVE InvalidInv'
  BY <1>1 DEF InvalidInv, Queued
<1>2. CASE \E n \in HashNodes : Invalidate(n) \/ remove_list_node(n)
  BY <1>2, InvalidateKeeps, RemoveKeeps
<1>3. CASE PopFront
  BY <1>3, PopFrontKeeps
<1>4. CASE \E n \in HashNodes : Revalidate(n)
  BY <1>1, <1>4 DEF Revalidate
<1>5. CASE UNCHANGED invalidVars
  BY <1>1, <1>5 DEF invalidVars
<1>. QED BY <1>2, <1>3, <1>4, <1>5 DEF InvalidNext

\* The place that a step of Walk comes to, and what it makes of the nodes met.
Met(field, n, s, k) ==
    IF k = 1 THEN n ELSE IF Len(s) < k - 1 THEN NilNode ELSE field[s[k - 1]]

Walked(field, n, s, k) ==
    LET m == Met(field, n, s, k) IN IF m = NilNode THEN s ELSE Append(s, m)

Prefix(q, k) == SubSeq(q, 1, IF k <= Len(q) THEN k ELSE Len(q))

Most == Cardinality(HashNodes)

LEMMA Prefixes ==
    ASSUME NEW q \in Seq(HashNodes), NEW k \in Nat
    PROVE  /\ Prefix(q, k) \in Seq(HashNodes) /\ Prefix(q, 0) = <<>>
           /\ Len(Prefix(q, k)) = IF k <= Len(q) THEN k ELSE Len(q)
           /\ \A j \in 1 .. Len(Prefix(q, k)) : Prefix(q, k)[j] = q[j]
           /\ k < Len(q) => Prefix(q, k + 1) = Append(Prefix(q, k), q[k + 1])
           /\ k >= Len(q) => Prefix(q, k) = q
<1>. DEFINE j == IF k <= Len(q) THEN k ELSE Len(q)
<1>1. Len(q) \in Nat /\ j \in 0 .. Len(q) /\ \A i \in 1 .. Len(q) : q[i] \in HashNodes
  BY LenProperties, ElementOfSeq
<1>2. \A i \in 1 .. j : q[i] \in HashNodes
  BY <1>1
<1>3. /\ SubSeq(q, 1, j) \in Seq(HashNodes)
      /\ Len(SubSeq(q, 1, j)) = IF 1 <= j THEN j - 1 + 1 ELSE 0
      /\ \A i \in 1 .. j - 1 + 1 : SubSeq(q, 1, j)[i] = q[1 + i - 1]
  <2>. HIDE DEF j
  <2>. QED BY <1>1, <1>2, SubSeqProperties
<1>4. Prefix(q, k) = SubSeq(q, 1, j)
  BY DEF Prefix
<1>5. Prefix(q, 0) = <<>>
  <2>1. Prefix(q, 0) = SubSeq(q, 1, 0)
    BY <1>1 DEF Prefix
  <2>. QED BY <2>1, SubSeqEmpty
<1>6. ASSUME k < Len(q) PROVE Prefix(q, k + 1) = Append(Prefix(q, k), q[k + 1])
  <2>1. Prefix(q, k + 1) = SubSeq(q, 1, k + 1) /\ Prefix(q, k) = SubSeq(q, 1, k)
    BY <1>1, <1>6 DEF Prefix
  <2>2. /\ 1 \in 1 .. Len(q) /\ k + 1 \in 1 .. Len(q) /\ 1 \in 1 .. (k + 1) + 1 /\ (k + 1) - 1 = k
        /\ \A i \in 1 .. k + 1 : q[i] \in HashNodes
    BY <1>1, <1>6
  <2>3. SubSeq(q, 1, k + 1) = Append(SubSeq(q, 1, (k + 1) - 1), q[k + 1])
    BY <2>2, SubSeqRecursiveSecond
  <2>. QED BY <2>1, <2>2, <2>3
<1>7. ASSUME k >= Len(q) PROVE Prefix(q, k) = q
  <2>1. Prefix(q, k) = SubSeq(q, 1, Len(q))
    BY <1>1, <1>7 DEF Prefix
  <2>. QED BY <2>1, SubSeqFull
<1>. QED BY <1>1, <1>3, <1>4, <1>5, <1>6, <1>7

\* Walking along field, the prefixes of q are met one after the other.
LEMMA WalkStep ==
    ASSUME NEW field, NEW q \in Seq(HashNodes), Leads(field, q),
           NEW n, n = (IF q = <<>> THEN NilNode ELSE q[1]), NEW k \in Nat \ {0}
    PROVE  Prefix(q, k) = Walked(field, n, Prefix(q, k - 1), k)
<1>. DEFINE s == Prefix(q, k - 1)
<1>1. /\ Len(q) \in Nat /\ k - 1 \in Nat /\ (k - 1) + 1 = k
      /\ \A j \in 1 .. Len(q) : q[j] \in HashNodes /\ q[j] # NilNode
      /\ q = <<>> <=> Len(q) = 0
  BY LenProperties, ElementOfSeq, EmptySeq, Nil
<1>2. /\ Len(s) = IF k - 1 <= Len(q) THEN k - 1 ELSE Len(q)
      /\ \A j \in 1 .. Len(s) : s[j] = q[j]
      /\ k - 1 < Len(q) => Prefix(q, k) = Append(s, q[k])
      /\ k - 1 >= Len(q) => s = q /\ Prefix(q, k) = q
  <2>1. k >= Len(q) => Prefix(q, k) = q
    BY Prefixes
  <2>2. /\ Len(s) = IF k - 1 <= Len(q) THEN k - 1 ELSE Len(q)
        /\ \A j \in 1 .. Len(s) : s[j] = q[j]
        /\ k - 1 < Len(q) => Prefix(q, (k - 1) + 1) = Append(s, q[(k - 1) + 1])
        /\ k - 1 >= Len(q) => s = q
    BY <1>1, Prefixes
  <2>. QED BY <1>1, <2>1, <2>2
<1>. HIDE DEF s
<1>3. CASE k <= Len(q)
  <2>1. Met(field, n, s, k) = q[k]
    <3>1. CASE k = 1
      BY <1>1, <1>3, <3>1 DEF Met
    <3>2. CASE k # 1
      <4>1. k - 1 \in 1 .. Len(q) /\ k - 1 # Len(q) /\ Len(s) = k - 1 /\ k - 1 \in 1 .. Len(s)
        BY <1>1, <1>2, <1>3, <3>2
      <4>2. field[q[k - 1]] = q[(k - 1) + 1] /\ s[k - 1] = q[k - 1]
        BY <1>2, <4>1 DEF Leads
      <4>. QED BY <1>1, <3>2, <4>1, <4>2 DEF Met
    <3>. QED BY <3>1, <3>2
  <2>. QED BY <1>1, <1>2, <1>3, <2>1 DEF Walked, s
<1>4. CASE ~ (k <= Len(q))
  <2>1. Met(field, n, s, k) = NilNode
    <3>1. CASE k = 1
      BY <1>1, <1>4, <3>1 DEF Met
    <3>2. CASE k # 1 /\ k - 1 = Len(q)
      <4>1. Len(q) \in 1 .. Len(q) /\ s = q
        BY <1>1, <1>2, <3>2
      <4>. QED BY <3>2, <4>1 DEF Met, Leads
    <3>3. CASE k # 1 /\ k - 1 # Len(q)
      BY <1>1, <1>2, <1>4, <3>3 DEF Met
    <3>. QED BY <3>1, <3>2, <3>3
  <2>. QED BY <1>1, <1>2, <1>4, <2>1 DEF Walked, s
<1>. QED BY <1>1, <1>3, <1>4

\* A list of different nodes is met from its first node on, to its end.
LEMMA WalkMeets ==
    ASSUME NEW field, NEW q \in Seq(HashNodes), Leads(field, q), Differ(q),
           NEW n, n = (IF q = <<>> THEN NilNode ELSE q[1])
    PROVE  Walk(field, n) = q
<1>1. Most \in Nat /\ Len(q) \in Nat /\ Len(q) <= Most
  <2>1. Most \in Nat /\ Len(q) \in Nat /\ \A j \in 1 .. Len(q) : q[j] \in HashNodes
    BY Nil, FS_CardinalityType, LenProperties, ElementOfSeq DEF Most
  <2>2. [j \in 1 .. Len(q) |-> q[j]] \in Injection(1 .. Len(q), HashNodes)
    BY <2>1 DEF Injection, IsInjective, Differ
  <2>3. Cardinality(1 .. Len(q)) <= Most
    BY <2>2, Nil, FS_Injection DEF Most
  <2>4. Cardinality(1 .. Len(q)) = IF 1 > Len(q) THEN 0 ELSE Len(q) - 1 + 1
    BY <2>1, FS_Interval
  <2>. QED BY <2>1, <2>3, <2>4
<1>. DEFINE Defines(f) == f = [k \in 0 .. Most + 1 |->
                                 IF k = 0 THEN <<>> ELSE Walked(field, n, f[k - 1], k)]
            nodes == CHOOSE f : Defines(f)
            prefixes == [k \in 0 .. Most + 1 |-> Prefix(q, k)]
<1>2. Walk(field, n) = nodes[Most + 1]
  BY Zenon DEF Walk, Walked, Met, Most
<1>3. Defines(prefixes)
  <2>1. ASSUME NEW k \in 0 .. Most + 1
        PROVE  prefixes[k] = IF k = 0 THEN <<>> ELSE Walked(field, n, prefixes[k - 1], k)
    <3>1. CASE k = 0
      <4>1. Prefix(q, 0) = <<>>
        BY Prefixes
      <4>. QED BY <3>1, <4>1
    <3>2. CASE k # 0
      <4>1. k \in Nat \ {0} /\ k - 1 \in 0 .. Most + 1
        BY <1>1, <3>2
      <4>2. Prefix(q, k) = Walked(field, n, Prefix(q, k - 1), k)
        BY <4>1, WalkStep
      <4>. QED BY <3>2, <4>1, <4>2
    <3>. QED BY <3>1, <3>2
  <2>. QED BY <2>1
<1>4. Defines(nodes)
  BY <1>3, Zenon
<1>. HIDE DEF nodes
<1>5. nodes[0] = <<>> /\ \A k \in 1 .. Most + 1 : nodes[k] = Walked(field, n, nodes[k - 1], k)
  BY <1>1, <1>4
<1>. DEFINE Wrong == {k \in 0 .. Most + 1 : nodes[k] # Prefix(q, k)}
<1>6. Wrong = {}
  <2>1. SUFFICES ASSUME Wrong # {} PROVE FALSE
    OBVIOUS
  <2>2. PICK k \in Wrong : \A j \in Wrong : k <= j
    <3>1. Wrong \in SUBSET Nat
      BY <1>1
    <3>. QED BY <2>1, <3>1, LeastNatural
  <2>3. k # 0
    <3>1. Prefix(q, 0) = <<>>
      BY Prefixes
    <3>. QED BY <1>5, <2>2, <3>1
  <2>4. k \in 1 .. Most + 1 /\ k \in Nat \ {0} /\ k - 1 \in 0 .. Most + 1 /\ ~ (k <= k - 1)
    BY <1>1, <2>2, <2>3
  <2>5. nodes[k - 1] = Prefix(q, k - 1)
    BY <2>2, <2>4
  <2>6. Prefix(q, k) = Walked(field, n, Prefix(q, k - 1), k)
    BY <2>4, WalkStep
  <2>. QED BY <1>5, <2>2, <2>4, <2>5, <2>6
<1>7. nodes[Most + 1] = Prefix(q, Most + 1) /\ Prefix(q, Most + 1) = q
  <2>1. Most + 1 \in 0 .. Most + 1 /\ Most + 1 \in Nat /\ Most + 1 >= Len(q)
    BY <1>1
  <2>. QED BY <1>6, <2>1, Prefixes
<1>. QED BY <1>2, <1>7

\* The queue as the prev pointers give it.
LEMMA BackwardsLeads ==
    ASSUME Queued, NEW back, back = [k \in 1 .. Len(held) |-> held[Len(held) - k + 1]]
    PROVE  /\ back \in Seq(HashNodes) /\ Differ(back) /\ Leads(prev_of, back)
           /\ list.tail = IF back = <<>> THEN NilNode ELSE back[1]
<1>. DEFINE m == Len(held)
<1>1. /\ m \in Nat /\ \A k \in 1 .. m : held[k] \in HashNodes
      /\ held = <<>> <=> m = 0
  BY HeldNodes
<1>2. /\ \A j, k \in 1 .. m : held[j] = held[k] => j = k
      /\ \A k \in 1 .. m : prev_of[held[k]] = IF k = 1 THEN NilNode ELSE held[k - 1]
      /\ list.tail = IF held = <<>> THEN NilNode ELSE held[m]
  BY DEF Queued, Differ, LeadsBack
<1>3. /\ \A k \in 1 .. m : back[k] = held[m - k + 1]
      /\ \A k \in 1 .. m : m - k + 1 \in 1 .. m
  BY <1>1
<1>. HIDE DEF m
<1>4. back \in Seq(HashNodes) /\ Len(back) = m
  <2>1. back = [k \in 1 .. m |-> held[m - k + 1]]
    BY DEF m
  <2>2. \A k \in 1 .. m : held[m - k + 1] \in HashNodes
    BY <1>1, <1>3
  <2>. QED BY <1>1, <2>1, <2>2, IsASeq
<1>5. back = <<>> <=> Len(back) = 0
  BY <1>4, EmptySeq
<1>6. \A j, k \in 1 .. m : back[j] = back[k] => j = k
  <2>1. ASSUME NEW j \in 1 .. m, NEW k \in 1 .. m, back[j] = back[k] PROVE j = k
    <3>0. /\ held[m - j + 1] = held[m - k + 1]
          /\ m - j + 1 \in 1 .. m /\ m - k + 1 \in 1 .. m
      BY <1>3, <2>1
    <3>1. m - j + 1 = m - k + 1
      BY <1>2, <3>0
    <3>. QED BY <1>1, <3>1
  <2>. QED BY <2>1
<1>7. ASSUME NEW k \in 1 .. m
      PROVE  prev_of[back[k]] = IF k = m THEN NilNode ELSE back[k + 1]
  <2>1. /\ prev_of[back[k]] = IF m - k + 1 = 1 THEN NilNode ELSE held[(m - k + 1) - 1]
        /\ m - k + 1 = 1 <=> k = m
    <3>1. m - k + 1 \in 1 .. m /\ back[k] = held[m - k + 1]
      BY <1>3
    <3>2. prev_of[held[m - k + 1]] = IF m - k + 1 = 1 THEN NilNode ELSE held[(m - k + 1) - 1]
      BY <1>2, <3>1
    <3>3. m - k + 1 = 1 <=> k = m
      BY <1>1
    <3>. QED BY <3>1, <3>2, <3>3
  <2>2. k # m => k + 1 \in 1 .. m /\ m - (k + 1) + 1 = (m - k + 1) - 1
    BY <1>1
  <2>. QED BY <1>3, <2>1, <2>2
<1>8. m # 0 => 1 \in 1 .. m /\ back[1] = held[m]
  <2>1. m # 0 => 1 \in 1 .. m /\ m - 1 + 1 = m
    BY <1>1
  <2>. QED BY <1>3, <2>1
<1>. QED BY <1>1, <1>2, <1>4, <1>5, <1>6, <1>7, <1>8 DEF Differ, Leads

\* The list that logical_delete_hash_node, pop and remove keep (nvm0list.cc)
\* is the queue of the nodes appended and not taken out, both ways, for any
\* number of nodes, as long as no node is appended twice.
THEOREM QueueIsKept == InvalidSpec => []ListIsQueue
<1>1. InvalidInv => ListIsQueue
  <2>. SUFFICES ASSUME Queued
                PROVE  /\ Walk(next_of, list.head) = held
                       /\ Walk(prev_of, list.tail) = [k \in 1 .. Len(held) |-> held[Len(held) - k + 1]]
                       /\ list.count = Len(held)
    BY DEF InvalidInv, ListIsQueue
  <2>1. Walk(next_of, list.head) = held
    BY WalkMeets DEF Queued
  <2>. DEFINE back == [k \in 1 .. Len(held) |-> held[Len(held) - k + 1]]
  <2>2. /\ back \in Seq(HashNodes) /\ Differ(back) /\ Leads(prev_of, back)
        /\ list.tail = IF back = <<>> THEN NilNode ELSE back[1]
    BY BackwardsLeads
  <2>. HIDE DEF back
  <2>3. Walk(prev_of, list.tail) = back
    BY <2>2, WalkMeets
  <2>. QED BY <2>1, <2>3 DEF Queued, back
<1>2. InvalidSpec => []InvalidInv
  BY InvalidInvInit, InvalidStep, PTL DEF InvalidSpec
<1>. QED BY <1>1, <1>2, PTL
=============================================================================

---------------------------- MODULE VolumeTable ----------------------------
(***************************************************************************)
(* nvm0volume.cc: finding the entry of a volume, or making one, when the   *)
(* first write of a volume may come from any client at any time.  One      *)
(* action is one access to the table or to a queue of volumes; the queues  *)
(* are what LFQueue implements.  Entries are never freed.                  *)
(***************************************************************************)
EXTENDS Integers, Sequences, FiniteSets

CONSTANTS
    Clients,        \* threads that call nvm_durable_write
    Vids,           \* the volume ids they use
    FreeVid,        \* 2^32 - 1, the vid of a free entry
    MaxVolumes      \* max_volume_entry

\* A client that uses 2^32 - 1 as a volume id would find a free entry.
ASSUME VolumeTableAssumption ==
    /\ FreeVid \notin Vids
    /\ MaxVolumes \in Nat \ {0}

Entries == 0 .. MaxVolumes - 1

VARIABLES
    entry,              \* volume_table: vid, and whether fd and hash_table are set
    volume_free, volume_inuse,      \* the two queues
    c,                  \* the local variables of each client
    aborted,            \* an assertion has ended the process
    raced               \* ghost: volumes that two calls looked for while one made it

volumeVars == <<entry, volume_free, volume_inuse, c, aborted, raced>>

Making == {"is_empty", "dequeue", "set_vid", "open", "hash", "enqueue"}

NoClientCall == [pc |-> "idle", vid |-> FreeVid, v_idx |-> 0]

\* nvm_structure_build and nvm_system_init
VolumeInit ==
    /\ entry = [e \in Entries |-> [vid |-> FreeVid, open |-> FALSE, hash |-> FALSE]]
    /\ volume_free = [k \in 1 .. MaxVolumes |-> k - 1]
    /\ volume_inuse = <<>>
    /\ c = [x \in Clients |-> NoClientCall]
    /\ aborted = FALSE
    /\ raced = {}

GoesOn(x, step) == ~ aborted /\ c[x].pc = step

\* A plausible bug: the search begins at the second entry.
LookUp_SkipsFirst(x, vid) ==
    /\ GoesOn(x, "idle")
    /\ c' = [c EXCEPT ![x] = [pc |-> "scan", vid |-> vid, v_idx |-> 1]]
    /\ UNCHANGED <<entry, volume_free, volume_inuse, aborted>>

LookUp(x, vid) ==
    /\ GoesOn(x, "idle")
    /\ c' = [c EXCEPT ![x] = [pc |-> "scan", vid |-> vid, v_idx |-> 0]]
    /\ UNCHANGED <<entry, volume_free, volume_inuse, aborted>>

\* get_volume_entry_idx: one round of its loop.
ScanEntry(x) ==
    LET me == c[x] IN
    /\ GoesOn(x, "scan")
    /\ c' = [c EXCEPT ![x] =
               IF entry[me.v_idx].vid = me.vid THEN [me EXCEPT !.pc = "use"]
               ELSE IF me.v_idx + 1 < MaxVolumes THEN [me EXCEPT !.v_idx = @ + 1]
               ELSE [me EXCEPT !.pc = "is_empty"]]
    /\ UNCHANGED <<entry, volume_free, volume_inuse, aborted>>

(***************************************************************************)
(* alloc_volume_entry_idx                                                  *)
(***************************************************************************)
\* No entry is left: assert(0).
CheckFree(x) ==
    /\ GoesOn(x, "is_empty")
    /\ aborted' = (volume_free = <<>>)
    /\ c' = [c EXCEPT ![x].pc = "dequeue"]
    /\ UNCHANGED <<entry, volume_free, volume_inuse>>

\* Several clients may have seen the last free entry; dequeue waits.
TakeEntry(x) ==
    /\ GoesOn(x, "dequeue")
    /\ volume_free # <<>>
    /\ volume_free' = Tail(volume_free)
    /\ c' = [c EXCEPT ![x].pc = "set_vid", ![x].v_idx = Head(volume_free)]
    /\ UNCHANGED <<entry, volume_inuse, aborted>>

\* From here on a search finds the entry.
SetVid(x) ==
    /\ GoesOn(x, "set_vid")
    /\ entry' = [entry EXCEPT ![c[x].v_idx].vid = c[x].vid]
    /\ c' = [c EXCEPT ![x].pc = "open"]
    /\ UNCHANGED <<volume_free, volume_inuse, aborted>>

\* A plausible bug: the entry is queued before it has its hash table.
OpenFile_QueuesNext(x) ==
    /\ GoesOn(x, "open")
    /\ entry' = [entry EXCEPT ![c[x].v_idx].open = TRUE]
    /\ c' = [c EXCEPT ![x].pc = "enqueue"]
    /\ UNCHANGED <<volume_free, volume_inuse, aborted>>

\* open() works, or an assertion fails.
OpenFile(x) ==
    /\ GoesOn(x, "open")
    /\ \/ entry' = [entry EXCEPT ![c[x].v_idx].open = TRUE] /\ UNCHANGED aborted
       \/ aborted' = TRUE /\ UNCHANGED entry
    /\ c' = [c EXCEPT ![x].pc = "hash"]
    /\ UNCHANGED <<volume_free, volume_inuse>>

MakeHash(x) ==
    /\ GoesOn(x, "hash")
    /\ entry' = [entry EXCEPT ![c[x].v_idx].hash = TRUE]
    /\ c' = [c EXCEPT ![x].pc = "enqueue"]
    /\ UNCHANGED <<volume_free, volume_inuse, aborted>>

PutInUse(x) ==
    /\ GoesOn(x, "enqueue")
    /\ volume_inuse' = Append(volume_inuse, c[x].v_idx)
    /\ c' = [c EXCEPT ![x].pc = "use"]
    /\ UNCHANGED <<entry, volume_free, aborted>>

\* nvm_durable_write has its entry and goes on; later it returns.
EndUse(x) ==
    /\ GoesOn(x, "use")
    /\ c' = [c EXCEPT ![x] = NoClientCall]
    /\ UNCHANGED <<entry, volume_free, volume_inuse, aborted>>

Client(x) ==
    \/ \E vid \in Vids : LookUp(x, vid)
    \/ ScanEntry(x) \/ CheckFree(x) \/ TakeEntry(x) \/ SetVid(x) \/ OpenFile(x)
    \/ MakeHash(x) \/ PutInUse(x) \/ EndUse(x)

VolumeNext ==
    /\ \E x \in Clients : Client(x)
    /\ raced' = raced \cup {c'[x].vid : x \in {y \in Clients :
                    /\ c'[y].pc \in Making
                    /\ \E z \in Clients \ {y} : /\ c'[z].vid = c'[y].vid
                                                /\ c'[z].pc \in Making \cup {"scan"}}}

VolumeSpec == VolumeInit /\ [][VolumeNext]_volumeVars
-----------------------------------------------------------------------------
\* A volume has one entry, whoever asks for it and whichever other volumes are
\* made meanwhile, unless two calls look for it at the same time before it
\* exists (nvm0volume.cc 26-34 are not synchronised).
OneEntryPerVolume ==
    \A d, e \in Entries : entry[d].vid = entry[e].vid /\ entry[d].vid \notin raced \cup {FreeVid} =>
        d = e

\* The entry that a call gets is the one of its volume and has its file and its
\* hash table, although vid is set first (nvm0volume.cc 56-64), with the same
\* exception.
EntryIsComplete ==
    \A x \in Clients : c[x].pc = "use" /\ c[x].vid \notin raced =>
        entry[c[x].v_idx] = [vid |-> c[x].vid, open |-> TRUE, hash |-> TRUE]

\* The flushers (nvm0flush.cc 38) only get volumes that are complete, each
\* once, however the clients race.
InUseIsComplete ==
    /\ \A k \in 1 .. Len(volume_inuse) :
          LET e == entry[volume_inuse[k]] IN e.vid # FreeVid /\ e.open /\ e.hash
    /\ \A k, m \in 1 .. Len(volume_inuse) : volume_inuse[k] = volume_inuse[m] => k = m
=============================================================================

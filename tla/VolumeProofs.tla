---------------------------- MODULE VolumeProofs ----------------------------
(***************************************************************************)
(* Theorems about the volume table, for any number of clients, volumes and *)
(* entries; and about the block arithmetic of nvm_durable_write, for every *)
(* block size, width of the integers, offset and count.                    *)
(***************************************************************************)
EXTENDS VolumeTable, WriteRange, SequenceTheorems, TLAPS

LEMMA TableSizes == MaxVolumes \in Nat \ {0} /\ FreeVid \notin Vids
BY VolumeTableAssumption DEF VolumeTableAssumption

(***************************************************************************)
(* Queues without repetitions                                              *)
(***************************************************************************)
Elems(q) == {q[k] : k \in 1 .. Len(q)}

Distinct(q) == \A k, m \in 1 .. Len(q) : q[k] = q[m] => k = m

LEMMA TailDistinct ==
    ASSUME NEW S, NEW q \in Seq(S), q # <<>>, Distinct(q)
    PROVE  /\ Tail(q) \in Seq(S) /\ Head(q) \in S
           /\ Distinct(Tail(q))
           /\ Elems(Tail(q)) = Elems(q) \ {Head(q)} /\ Head(q) \in Elems(q)
<1>1. /\ Tail(q) \in Seq(S) /\ Head(q) \in S
      /\ Len(q) \in Nat \ {0} /\ Len(Tail(q)) = Len(q) - 1 /\ Head(q) = q[1]
      /\ \A k \in 1 .. Len(q) - 1 : Tail(q)[k] = q[k + 1]
  BY HeadTailProperties, EmptySeq
<1>2. Distinct(Tail(q))
  BY <1>1 DEF Distinct
<1>3. ASSUME NEW e \in Elems(Tail(q)) PROVE e \in Elems(q) /\ e # Head(q)
  <2>1. PICK k \in 1 .. Len(q) - 1 : e = Tail(q)[k]
    BY <1>1 DEF Elems
  <2>2. e = q[k + 1] /\ k + 1 \in 1 .. Len(q) /\ 1 \in 1 .. Len(q) /\ k + 1 # 1
    BY <1>1, <2>1
  <2>. QED BY <1>1, <2>2 DEF Elems, Distinct
<1>4. ASSUME NEW e \in Elems(q), e # Head(q) PROVE e \in Elems(Tail(q))
  <2>1. PICK k \in 1 .. Len(q) : e = q[k]
    BY DEF Elems
  <2>2. k - 1 \in 1 .. Len(q) - 1 /\ (k - 1) + 1 = k
    BY <1>1, <1>4, <2>1
  <2>3. Tail(q)[k - 1] = e
    BY <1>1, <2>1, <2>2
  <2>. QED BY <1>1, <2>2, <2>3 DEF Elems
<1>5. Head(q) \in Elems(q)
  BY <1>1 DEF Elems
<1>. QED BY <1>1, <1>2, <1>3, <1>4, <1>5

LEMMA AppendDistinct ==
    ASSUME NEW S, NEW q \in Seq(S), NEW e \in S, Distinct(q), e \notin Elems(q)
    PROVE  /\ Append(q, e) \in Seq(S) /\ Distinct(Append(q, e))
           /\ Elems(Append(q, e)) = Elems(q) \cup {e}
<1>. DEFINE p == Append(q, e)
<1>1. /\ p \in Seq(S) /\ Len(q) \in Nat /\ Len(p) = Len(q) + 1 /\ p[Len(q) + 1] = e
      /\ \A k \in 1 .. Len(q) : p[k] = q[k]
  BY AppendProperties, LenProperties
<1>. HIDE DEF p
<1>2. \A k \in 1 .. Len(q) : q[k] # e
  BY DEF Elems
<1>3. Distinct(p)
  BY <1>1, <1>2 DEF Distinct
<1>4. ASSUME NEW x \in Elems(p) PROVE x \in Elems(q) \cup {e}
  <2>1. PICK k \in 1 .. Len(q) + 1 : x = p[k]
    BY <1>1 DEF Elems
  <2>2. CASE k = Len(q) + 1
    BY <1>1, <2>1, <2>2
  <2>3. CASE k # Len(q) + 1
    <3>1. k \in 1 .. Len(q)
      BY <1>1, <2>3
    <3>. QED BY <1>1, <2>1, <3>1 DEF Elems
  <2>. QED BY <2>2, <2>3
<1>5. ASSUME NEW x \in Elems(q) \cup {e} PROVE x \in Elems(p)
  <2>1. CASE x = e
    <3>1. Len(q) + 1 \in 1 .. Len(p)
      BY <1>1
    <3>. QED BY <1>1, <2>1, <3>1 DEF Elems
  <2>2. CASE x \in Elems(q)
    <3>1. PICK k \in 1 .. Len(q) : x = q[k]
      BY <2>2 DEF Elems
    <3>2. k \in 1 .. Len(p)
      BY <1>1, <3>1
    <3>. QED BY <1>1, <3>1, <3>2 DEF Elems
  <2>. QED BY <1>5, <2>1, <2>2
<1>. QED BY <1>1, <1>3, <1>4, <1>5 DEF p

(***************************************************************************)
(* Who has an entry.  It is in one of the queues or in the hands of one    *)
(* client, and what a client has not yet filled in is not in use.          *)
(***************************************************************************)
EntryRec == [vid : Vids \cup {FreeVid}, open : BOOLEAN, hash : BOOLEAN]

ClientRec == [pc : {"idle", "scan", "use"} \cup Making, vid : Vids \cup {FreeVid}, v_idx : Entries]

VolumeTypeOK ==
    /\ entry \in [Entries -> EntryRec]
    /\ volume_free \in Seq(Entries) /\ volume_inuse \in Seq(Entries)
    /\ c \in [Clients -> ClientRec]
    /\ \A x \in Clients : c[x].pc # "idle" => c[x].vid \in Vids

Holds(x) == c[x].pc \in {"set_vid", "open", "hash", "enqueue"}

Complete(r) == r.vid # FreeVid /\ r.open /\ r.hash

Owned ==
    /\ Distinct(volume_free) /\ Distinct(volume_inuse)
    /\ Elems(volume_free) \cap Elems(volume_inuse) = {}
    /\ \A x \in Clients : Holds(x) => c[x].v_idx \notin Elems(volume_free) \cup Elems(volume_inuse)
    /\ \A x, y \in Clients : Holds(x) /\ Holds(y) /\ c[x].v_idx = c[y].v_idx => x = y

FilledIn ==
    /\ \A e \in Elems(volume_inuse) : Complete(entry[e])
    /\ \A x \in Clients : LET r == entry[c[x].v_idx] IN
          /\ c[x].pc \in {"open", "hash", "enqueue"} => r.vid = c[x].vid
          /\ c[x].pc \in {"hash", "enqueue"} /\ ~ aborted => r.open
          /\ c[x].pc = "enqueue" /\ ~ aborted => r.hash

UseInv == VolumeTypeOK /\ Owned /\ FilledIn

LEMMA UseInit == VolumeInit => UseInv
<1>. SUFFICES ASSUME VolumeInit PROVE UseInv
  OBVIOUS
<1>. USE TableSizes
<1>1. 0 \in Entries /\ \A k \in 1 .. MaxVolumes : k - 1 \in Entries
  BY DEF Entries
<1>2. volume_free \in Seq(Entries) /\ Len(volume_free) = MaxVolumes
  BY <1>1 DEF VolumeInit
<1>3. Distinct(volume_free)
  BY <1>2 DEF VolumeInit, Distinct
<1>4. volume_inuse \in Seq(Entries) /\ Distinct(volume_inuse) /\ Elems(volume_inuse) = {}
  BY EmptySeq DEF VolumeInit, Distinct, Elems
<1>5. entry \in [Entries -> EntryRec]
  BY DEF VolumeInit, EntryRec
<1>6. c \in [Clients -> ClientRec] /\ \A x \in Clients : c[x].pc = "idle"
  BY <1>1 DEF VolumeInit, ClientRec, NoClientCall
<1>7. VolumeTypeOK
  BY <1>2, <1>4, <1>5, <1>6 DEF VolumeTypeOK
<1>8. Owned
  BY <1>3, <1>4, <1>6 DEF Owned, Holds
<1>9. FilledIn
  BY <1>4, <1>6 DEF FilledIn
<1>. QED BY <1>7, <1>8, <1>9 DEF UseInv

\* A step of x that does not touch the queues.
LEMMA KeepsQueues ==
    ASSUME UseInv, NEW x \in Clients, NEW r \in ClientRec, c' = [c EXCEPT ![x] = r],
           UNCHANGED <<volume_free, volume_inuse>>, entry' \in [Entries -> EntryRec],
           r.pc # "idle" => r.vid \in Vids,
           r.pc \in {"set_vid", "open", "hash", "enqueue"} => Holds(x) /\ r.v_idx = c[x].v_idx
    PROVE  VolumeTypeOK' /\ Owned'
<1>1. /\ c \in [Clients -> ClientRec] /\ c' \in [Clients -> ClientRec] /\ c'[x] = r
      /\ \A y \in Clients : y # x => c'[y] = c[y]
  BY DEF UseInv, VolumeTypeOK
<1>2. VolumeTypeOK'
  BY <1>1 DEF UseInv, VolumeTypeOK
<1>3. \A y \in Clients : Holds(y)' => Holds(y) /\ c'[y].v_idx = c[y].v_idx
  BY <1>1 DEF Holds
<1>4. Owned'
  BY <1>3 DEF UseInv, Owned
<1>. QED BY <1>2, <1>4

\* A step of x that leaves the entries and the queue of those in use alone.
LEMMA KeepsEntries ==
    ASSUME UseInv, NEW x \in Clients, NEW r \in ClientRec, c' = [c EXCEPT ![x] = r],
           UNCHANGED <<entry, volume_inuse>>, aborted => aborted',
           r.pc \notin {"open", "hash", "enqueue"}
    PROVE  FilledIn'
<1>1. c'[x] = r /\ \A y \in Clients : y # x => c'[y] = c[y]
  BY DEF UseInv, VolumeTypeOK
<1>2. \A y \in Clients : LET q == entry'[c'[y].v_idx] IN
          /\ c'[y].pc \in {"open", "hash", "enqueue"} => q.vid = c'[y].vid
          /\ c'[y].pc \in {"hash", "enqueue"} /\ ~ aborted' => q.open
          /\ c'[y].pc = "enqueue" /\ ~ aborted' => q.hash
  BY <1>1 DEF UseInv, FilledIn
<1>3. \A e \in Elems(volume_inuse)' : Complete(entry'[e])
  BY DEF UseInv, FilledIn
<1>. QED BY <1>2, <1>3 DEF FilledIn, Complete

\* A step of x that writes to the entry it holds.
LEMMA FillsIn ==
    ASSUME UseInv, NEW x \in Clients, NEW r \in ClientRec, NEW q \in EntryRec, Holds(x),
           c' = [c EXCEPT ![x] = r], entry' = [entry EXCEPT ![c[x].v_idx] = q],
           UNCHANGED <<volume_free, volume_inuse>>, aborted => aborted',
           r.pc \in {"open", "hash", "enqueue"}, r.vid = c[x].vid, r.v_idx = c[x].v_idx,
           r.vid \in Vids,
           q.vid = r.vid,
           r.pc \in {"hash", "enqueue"} /\ ~ aborted' => q.open,
           r.pc = "enqueue" /\ ~ aborted' => q.hash
    PROVE  UseInv'
<1>. DEFINE e == c[x].v_idx
<1>1. e \in Entries /\ entry \in [Entries -> EntryRec] /\ c \in [Clients -> ClientRec]
  BY DEF UseInv, VolumeTypeOK, ClientRec
<1>2. /\ entry' \in [Entries -> EntryRec] /\ entry'[e] = q
      /\ \A d \in Entries : d # e => entry'[d] = entry[d]
  BY <1>1
<1>3. VolumeTypeOK' /\ Owned'
  BY <1>2, KeepsQueues
<1>4. c'[x] = r /\ \A y \in Clients : y # x => c'[y] = c[y]
  BY <1>1
<1>5. ASSUME NEW y \in Clients PROVE LET p == entry'[c'[y].v_idx] IN
          /\ c'[y].pc \in {"open", "hash", "enqueue"} => p.vid = c'[y].vid
          /\ c'[y].pc \in {"hash", "enqueue"} /\ ~ aborted' => p.open
          /\ c'[y].pc = "enqueue" /\ ~ aborted' => p.hash
  <2>1. CASE y = x
    BY <1>2, <1>4, <2>1
  <2>2. CASE y # x /\ c[y].pc \in {"open", "hash", "enqueue"}
    <3>1. c[y].v_idx # e /\ c[y].v_idx \in Entries
      BY <1>1, <2>2 DEF UseInv, Owned, Holds, ClientRec
    <3>2. entry'[c'[y].v_idx] = entry[c[y].v_idx] /\ c'[y] = c[y]
      BY <1>2, <1>4, <2>2, <3>1
    <3>. QED BY <3>2 DEF UseInv, FilledIn
  <2>3. CASE y # x /\ c[y].pc \notin {"open", "hash", "enqueue"}
    BY <1>4, <2>3
  <2>. QED BY <2>1, <2>2, <2>3
<1>6. ASSUME NEW d \in Elems(volume_inuse)' PROVE Complete(entry'[d])
  <2>1. d \in Elems(volume_inuse)
    OBVIOUS
  <2>2. d \in Entries
    BY <2>1, ElementOfSeq DEF UseInv, VolumeTypeOK, Elems
  <2>3. d # e
    BY <2>1 DEF UseInv, Owned
  <2>4. entry'[d] = entry[d]
    BY <1>2, <2>2, <2>3
  <2>. QED BY <2>1, <2>4 DEF UseInv, FilledIn
<1>7. FilledIn'
  BY <1>5, <1>6 DEF FilledIn, Complete
<1>. QED BY <1>3, <1>7 DEF UseInv

LEMMA UseStep ==
    ASSUME UseInv, NEW x \in Clients, Client(x)
    PROVE  UseInv'
<1>. USE TableSizes
<1>1. /\ c \in [Clients -> ClientRec] /\ c[x] \in ClientRec /\ c[x].v_idx \in Entries
      /\ entry \in [Entries -> EntryRec] /\ entry[c[x].v_idx] \in EntryRec
      /\ (c[x].pc # "idle" => c[x].vid \in Vids)
  BY DEF UseInv, VolumeTypeOK, ClientRec
<1>2. ASSUME NEW vid \in Vids, LookUp(x, vid) PROVE UseInv'
  <2>. DEFINE r == [pc |-> "scan", vid |-> vid, v_idx |-> 0]
  <2>1. 0 \in Entries
    BY DEF Entries
  <2>2. r \in ClientRec /\ r.pc = "scan" /\ r.vid \in Vids
    BY <2>1 DEF ClientRec
  <2>3. c' = [c EXCEPT ![x] = r] /\ UNCHANGED <<entry, volume_free, volume_inuse, aborted>>
    BY <1>2 DEF LookUp
  <2>. HIDE DEF r
  <2>. QED BY <1>1, <2>2, <2>3, KeepsQueues, KeepsEntries DEF UseInv
<1>3. CASE ScanEntry(x)
  <2>1. UNCHANGED <<entry, volume_free, volume_inuse, aborted>> /\ c[x].pc = "scan"
    BY <1>3 DEF ScanEntry, GoesOn
  <2>2. PICK r \in ClientRec : /\ c' = [c EXCEPT ![x] = r] /\ r.vid = c[x].vid
                               /\ r.pc \in {"use", "scan", "is_empty"}
    <3>1. CASE entry[c[x].v_idx].vid = c[x].vid
      <4>. DEFINE r == [c[x] EXCEPT !.pc = "use"]
      <4>1. c' = [c EXCEPT ![x] = r]
        BY <1>3, <3>1 DEF ScanEntry
      <4>2. r \in ClientRec /\ r.vid = c[x].vid /\ r.pc = "use"
        BY <1>1 DEF ClientRec
      <4>. QED BY <4>1, <4>2
    <3>2. CASE entry[c[x].v_idx].vid # c[x].vid /\ c[x].v_idx + 1 < MaxVolumes
      <4>. DEFINE i == c[x].v_idx + 1
      <4>. DEFINE r == [c[x] EXCEPT !.v_idx = i]
      <4>1. c' = [c EXCEPT ![x] = r]
        BY <1>3, <3>2 DEF ScanEntry
      <4>2. i \in Entries
        BY <1>1, <3>2 DEF Entries
      <4>. HIDE DEF i
      <4>3. r \in ClientRec /\ r.vid = c[x].vid /\ r.pc = "scan"
        BY <1>1, <2>1, <4>2 DEF ClientRec
      <4>. QED BY <4>1, <4>3
    <3>3. CASE entry[c[x].v_idx].vid # c[x].vid /\ ~ (c[x].v_idx + 1 < MaxVolumes)
      <4>. DEFINE r == [c[x] EXCEPT !.pc = "is_empty"]
      <4>1. c' = [c EXCEPT ![x] = r]
        BY <1>3, <3>3 DEF ScanEntry
      <4>2. r \in ClientRec /\ r.vid = c[x].vid /\ r.pc = "is_empty"
        BY <1>1 DEF ClientRec, Making
      <4>. QED BY <4>1, <4>2
    <3>. QED BY <3>1, <3>2, <3>3
  <2>. QED BY <1>1, <2>1, <2>2, KeepsQueues, KeepsEntries DEF UseInv
<1>4. CASE CheckFree(x)
  <2>. DEFINE r == [c[x] EXCEPT !.pc = "dequeue"]
  <2>1. r \in ClientRec /\ r.pc = "dequeue" /\ r.vid = c[x].vid
    BY <1>1 DEF ClientRec, Making
  <2>2. c' = [c EXCEPT ![x] = r] /\ UNCHANGED <<entry, volume_free, volume_inuse>>
    BY <1>1, <1>4 DEF CheckFree
  <2>3. ~ aborted /\ c[x].pc = "is_empty"
    BY <1>4 DEF CheckFree, GoesOn
  <2>. HIDE DEF r
  <2>. QED BY <1>1, <2>1, <2>2, <2>3, KeepsQueues, KeepsEntries DEF UseInv
<1>5. CASE TakeEntry(x)
  <2>. DEFINE e == Head(volume_free)
  <2>. DEFINE r == [c[x] EXCEPT !.pc = "set_vid", !.v_idx = e]
  <2>1. /\ volume_free' \in Seq(Entries) /\ e \in Entries /\ Distinct(volume_free)'
        /\ Elems(volume_free)' = Elems(volume_free) \ {e} /\ e \in Elems(volume_free)
    <3>1. /\ volume_free \in Seq(Entries) /\ volume_free # <<>> /\ Distinct(volume_free)
          /\ volume_free' = Tail(volume_free)
      BY <1>5 DEF TakeEntry, UseInv, VolumeTypeOK, Owned
    <3>. QED BY <3>1, TailDistinct
  <2>2. UNCHANGED <<entry, volume_inuse, aborted>> /\ c[x].pc = "dequeue"
    BY <1>5 DEF TakeEntry, GoesOn
  <2>3. c' = [c EXCEPT ![x] = r]
    BY <1>1, <1>5 DEF TakeEntry, ClientRec
  <2>. HIDE DEF e
  <2>4. r \in ClientRec /\ r.pc = "set_vid" /\ r.vid = c[x].vid /\ r.v_idx = e
    BY <1>1, <2>1 DEF ClientRec, Making
  <2>. HIDE DEF r
  <2>5. c' \in [Clients -> ClientRec] /\ c'[x] = r /\ \A y \in Clients : y # x => c'[y] = c[y]
    BY <1>1, <2>3, <2>4
  <2>6. VolumeTypeOK'
    BY <1>1, <2>1, <2>2, <2>4, <2>5 DEF UseInv, VolumeTypeOK
  <2>7. Owned'
    <3>1. Elems(volume_inuse)' = Elems(volume_inuse) /\ Distinct(volume_inuse)'
      BY <2>2 DEF UseInv, Owned
    <3>2. /\ Elems(volume_free) \cap Elems(volume_inuse) = {}
          /\ \A y \in Clients : Holds(y) =>
                c[y].v_idx \notin Elems(volume_free) \cup Elems(volume_inuse)
          /\ \A y, z \in Clients : Holds(y) /\ Holds(z) /\ c[y].v_idx = c[z].v_idx => y = z
      BY DEF UseInv, Owned
    <3>3. ASSUME NEW y \in Clients, Holds(y)'
          PROVE  \/ y = x /\ c'[y].v_idx = e
                 \/ y # x /\ Holds(y) /\ c'[y].v_idx = c[y].v_idx
      BY <2>4, <2>5, <3>3 DEF Holds
    <3>4. ASSUME NEW y \in Clients, Holds(y)'
          PROVE  c'[y].v_idx \notin (Elems(volume_free) \cup Elems(volume_inuse))'
      BY <2>1, <3>1, <3>2, <3>3, <3>4
    <3>5. ASSUME NEW y \in Clients, NEW z \in Clients, Holds(y)', Holds(z)',
                 c'[y].v_idx = c'[z].v_idx
          PROVE  y = z
      BY <2>1, <3>2, <3>3, <3>5
    <3>. QED BY <2>1, <3>1, <3>2, <3>4, <3>5 DEF Owned
  <2>8. FilledIn'
    BY <2>2, <2>3, <2>4, KeepsEntries
  <2>. QED BY <2>6, <2>7, <2>8 DEF UseInv
<1>6. CASE SetVid(x)
  <2>. DEFINE r == [c[x] EXCEPT !.pc = "open"]
  <2>. DEFINE q == [entry[c[x].v_idx] EXCEPT !.vid = c[x].vid]
  <2>1. c[x].pc = "set_vid" /\ Holds(x) /\ c[x].vid \in Vids
    BY <1>1, <1>6 DEF SetVid, GoesOn, Holds
  <2>2. /\ c' = [c EXCEPT ![x] = r] /\ entry' = [entry EXCEPT ![c[x].v_idx] = q]
        /\ UNCHANGED <<volume_free, volume_inuse, aborted>>
    BY <1>1, <1>6 DEF SetVid
  <2>3. r \in ClientRec /\ r.pc = "open" /\ r.vid = c[x].vid /\ r.v_idx = c[x].v_idx
    BY <1>1 DEF ClientRec, Making
  <2>4. q \in EntryRec /\ q.vid = c[x].vid
    BY <1>1, <2>1 DEF EntryRec
  <2>. HIDE DEF r, q
  <2>. QED BY <2>1, <2>2, <2>3, <2>4, FillsIn
<1>7. CASE OpenFile(x)
  <2>. DEFINE r == [c[x] EXCEPT !.pc = "hash"]
  <2>. DEFINE q == [entry[c[x].v_idx] EXCEPT !.open = TRUE]
  <2>1. c[x].pc = "open" /\ Holds(x) /\ c[x].vid \in Vids /\ ~ aborted
    BY <1>1, <1>7 DEF OpenFile, GoesOn, Holds
  <2>2. entry[c[x].v_idx].vid = c[x].vid
    BY <2>1 DEF UseInv, FilledIn
  <2>3. r \in ClientRec /\ r.pc = "hash" /\ r.vid = c[x].vid /\ r.v_idx = c[x].v_idx
    BY <1>1 DEF ClientRec, Making
  <2>4. c' = [c EXCEPT ![x] = r] /\ UNCHANGED <<volume_free, volume_inuse>>
    BY <1>1, <1>7 DEF OpenFile
  <2>. HIDE DEF r
  <2>5. CASE entry' = [entry EXCEPT ![c[x].v_idx].open = TRUE] /\ UNCHANGED aborted
    <3>1. entry' = [entry EXCEPT ![c[x].v_idx] = q]
      BY <1>1, <2>5
    <3>2. q \in EntryRec /\ q.vid = c[x].vid
      BY <1>1, <2>2 DEF EntryRec
    <3>3. q.open
      BY <1>1 DEF EntryRec
    <3>4. UNCHANGED aborted
      BY <2>5
    <3>. HIDE DEF q
    <3>. QED BY <2>1, <2>3, <2>4, <3>1, <3>2, <3>3, <3>4, FillsIn
  <2>6. CASE aborted' /\ UNCHANGED entry
    <3>1. entry' = [entry EXCEPT ![c[x].v_idx] = entry[c[x].v_idx]]
      BY <1>1, <2>6
    <3>. QED BY <1>1, <2>1, <2>2, <2>3, <2>4, <2>6, <3>1, FillsIn
  <2>. QED BY <1>7, <2>5, <2>6 DEF OpenFile
<1>8. CASE MakeHash(x)
  <2>. DEFINE r == [c[x] EXCEPT !.pc = "enqueue"]
  <2>. DEFINE q == [entry[c[x].v_idx] EXCEPT !.hash = TRUE]
  <2>1. c[x].pc = "hash" /\ Holds(x) /\ c[x].vid \in Vids /\ ~ aborted
    BY <1>1, <1>8 DEF MakeHash, GoesOn, Holds
  <2>2. entry[c[x].v_idx].vid = c[x].vid
    BY <2>1 DEF UseInv, FilledIn
  <2>3. entry[c[x].v_idx].open
    BY <2>1 DEF UseInv, FilledIn
  <2>4. r \in ClientRec /\ r.pc = "enqueue" /\ r.vid = c[x].vid /\ r.v_idx = c[x].v_idx
    BY <1>1 DEF ClientRec, Making
  <2>5. /\ c' = [c EXCEPT ![x] = r] /\ entry' = [entry EXCEPT ![c[x].v_idx] = q]
        /\ UNCHANGED <<volume_free, volume_inuse, aborted>>
    BY <1>1, <1>8 DEF MakeHash
  <2>6. q \in EntryRec /\ q.vid = c[x].vid
    BY <1>1, <2>2 DEF EntryRec
  <2>7. q.hash
    BY <1>1 DEF EntryRec
  <2>8. q.open
    BY <1>1, <2>3 DEF EntryRec
  <2>. HIDE DEF r, q
  <2>. QED BY <2>1, <2>4, <2>5, <2>6, <2>7, <2>8, FillsIn
<1>9. CASE PutInUse(x)
  <2>. DEFINE e == c[x].v_idx
  <2>. DEFINE r == [c[x] EXCEPT !.pc = "use"]
  <2>1. c[x].pc = "enqueue" /\ Holds(x) /\ c[x].vid \in Vids /\ ~ aborted /\ e \in Entries
    BY <1>1, <1>9 DEF PutInUse, GoesOn, Holds
  <2>2. r \in ClientRec /\ r.pc = "use" /\ r.vid = c[x].vid
    BY <1>1 DEF ClientRec
  <2>3. c' = [c EXCEPT ![x] = r] /\ UNCHANGED <<entry, volume_free, aborted>>
    BY <1>1, <1>9 DEF PutInUse
  <2>. HIDE DEF r
  <2>4. c' \in [Clients -> ClientRec] /\ c'[x] = r /\ \A y \in Clients : y # x => c'[y] = c[y]
    BY <1>1, <2>2, <2>3
  <2>5. /\ volume_inuse' \in Seq(Entries) /\ Distinct(volume_inuse)'
        /\ Elems(volume_inuse)' = Elems(volume_inuse) \cup {e}
    <3>1. /\ volume_inuse \in Seq(Entries) /\ Distinct(volume_inuse)
          /\ e \notin Elems(volume_inuse) /\ volume_inuse' = Append(volume_inuse, e)
      BY <1>9, <2>1 DEF PutInUse, UseInv, VolumeTypeOK, Owned
    <3>. QED BY <2>1, <3>1, AppendDistinct
  <2>. HIDE DEF e
  <2>6. VolumeTypeOK'
    BY <1>1, <2>1, <2>2, <2>3, <2>4, <2>5 DEF UseInv, VolumeTypeOK
  <2>7. Owned'
    <3>1. Elems(volume_free)' = Elems(volume_free) /\ Distinct(volume_free)'
      BY <2>3 DEF UseInv, Owned
    <3>2. /\ Elems(volume_free) \cap Elems(volume_inuse) = {} /\ e \notin Elems(volume_free)
          /\ \A y \in Clients : Holds(y) =>
                c[y].v_idx \notin Elems(volume_free) \cup Elems(volume_inuse)
          /\ \A y, z \in Clients : Holds(y) /\ Holds(z) /\ c[y].v_idx = c[z].v_idx => y = z
      BY <2>1 DEF UseInv, Owned, e
    <3>3. ASSUME NEW y \in Clients, Holds(y)'
          PROVE  y # x /\ Holds(y) /\ c'[y].v_idx = c[y].v_idx /\ c[y].v_idx # e
      <4>1. y # x /\ Holds(y) /\ c'[y].v_idx = c[y].v_idx
        BY <2>2, <2>4, <3>3 DEF Holds
      <4>. QED BY <2>1, <3>2, <4>1 DEF e
    <3>4. ASSUME NEW y \in Clients, Holds(y)'
          PROVE  c'[y].v_idx \notin (Elems(volume_free) \cup Elems(volume_inuse))'
      BY <2>5, <3>1, <3>2, <3>3, <3>4
    <3>5. ASSUME NEW y \in Clients, NEW z \in Clients, Holds(y)', Holds(z)',
                 c'[y].v_idx = c'[z].v_idx
          PROVE  y = z
      BY <3>2, <3>3, <3>5
    <3>. QED BY <2>5, <3>1, <3>2, <3>4, <3>5 DEF Owned
  <2>8. FilledIn'
    <3>1. Complete(entry[e])
      <4>1. entry[e].vid # FreeVid
        BY <2>1 DEF UseInv, FilledIn, e
      <4>2. entry[e].open
        BY <2>1 DEF UseInv, FilledIn, e
      <4>3. entry[e].hash
        BY <2>1 DEF UseInv, FilledIn, e
      <4>. QED BY <4>1, <4>2, <4>3 DEF Complete
    <3>2. \A d \in Elems(volume_inuse)' : Complete(entry'[d])
      BY <2>3, <2>5, <3>1 DEF UseInv, FilledIn
    <3>3. \A y \in Clients : LET q == entry'[c'[y].v_idx] IN
            /\ c'[y].pc \in {"open", "hash", "enqueue"} => q.vid = c'[y].vid
            /\ c'[y].pc \in {"hash", "enqueue"} /\ ~ aborted' => q.open
            /\ c'[y].pc = "enqueue" /\ ~ aborted' => q.hash
      BY <2>2, <2>3, <2>4 DEF UseInv, FilledIn
    <3>. QED BY <3>2, <3>3 DEF FilledIn, Complete
  <2>. QED BY <2>6, <2>7, <2>8 DEF UseInv
<1>10. CASE EndUse(x)
  <2>1. NoClientCall \in ClientRec /\ NoClientCall.pc = "idle"
    BY DEF NoClientCall, ClientRec, Entries
  <2>2. /\ c' = [c EXCEPT ![x] = NoClientCall]
        /\ UNCHANGED <<entry, volume_free, volume_inuse, aborted>>
    BY <1>10 DEF EndUse
  <2>. QED BY <1>1, <2>1, <2>2, KeepsQueues, KeepsEntries DEF UseInv
<1>. QED BY <1>2, <1>3, <1>4, <1>5, <1>6, <1>7, <1>8, <1>9, <1>10 DEF Client

LEMMA UseNext == UseInv /\ [VolumeNext]_volumeVars => UseInv'
<1>1. UseInv /\ VolumeNext => UseInv'
  BY UseStep DEF VolumeNext
<1>2. UseInv /\ UNCHANGED volumeVars => UseInv'
  BY DEF volumeVars, UseInv, VolumeTypeOK, Owned, FilledIn, Holds
<1>. QED BY <1>1, <1>2

\* However the clients race for the entries of the table, the flush threads
\* (nvm0flush.cc 38) only get volumes that have their id, file and hash table,
\* and each of them once.
THEOREM FlushersGetWholeVolumes == VolumeSpec => []InUseIsComplete
<1>1. UseInv => InUseIsComplete
  <2>. SUFFICES ASSUME UseInv PROVE InUseIsComplete
    OBVIOUS
  <2>1. ASSUME NEW k \in 1 .. Len(volume_inuse) PROVE Complete(entry[volume_inuse[k]])
    BY DEF UseInv, FilledIn, Elems
  <2>. QED BY <2>1 DEF InUseIsComplete, Complete, UseInv, Owned, Distinct
<1>. QED BY <1>1, UseInit, UseNext, PTL DEF VolumeSpec

(***************************************************************************)
(* One entry for a volume.  While nobody else looks for the volume that a  *)
(* client is making, what the client has seen of the table stays true.     *)
(***************************************************************************)
Filling == {"open", "hash", "enqueue"}

\* An entry that bears a volume's id is in use, or a client is filling it in.
Placed ==
    \A e \in Entries : entry[e].vid # FreeVid =>
        e \in Elems(volume_inuse) \/ \E x \in Clients : c[x].pc \in Filling /\ c[x].v_idx = e

\* What the ghost variable records.
Recorded ==
    \A y, z \in Clients :
        /\ y # z /\ c[y].vid = c[z].vid
        /\ c[y].pc \in Making /\ c[z].pc \in Making \cup {"scan"}
        => c[y].vid \in raced

\* The searches of one client.
Sought(x) ==
    c[x].vid \notin raced =>
        /\ c[x].pc \in {"is_empty", "dequeue", "set_vid"} =>
              \A e \in Entries : entry[e].vid # c[x].vid
        /\ c[x].pc = "scan" => \A e \in Entries : e < c[x].v_idx => entry[e].vid # c[x].vid
        /\ c[x].pc = "use" =>
              c[x].v_idx \in Elems(volume_inuse) /\ entry[c[x].v_idx].vid = c[x].vid

RaceInv == Placed /\ Recorded /\ (\A x \in Clients : Sought(x)) /\ OneEntryPerVolume

\* What the search of x finds is in use.
LEMMA FoundIsInUse ==
    ASSUME UseInv, RaceInv, NEW x \in Clients, c[x].pc = "scan", c[x].vid \notin raced,
           entry[c[x].v_idx].vid = c[x].vid
    PROVE  c[x].v_idx \in Elems(volume_inuse)
<1>. DEFINE e == c[x].v_idx
<1>1. e \in Entries /\ c[x].vid \in Vids /\ entry[e].vid # FreeVid
  BY TableSizes DEF UseInv, VolumeTypeOK, ClientRec
<1>2. ASSUME NEW y \in Clients, c[y].pc \in Filling, c[y].v_idx = e PROVE FALSE
  <2>1. entry[e].vid = c[y].vid
    BY <1>2 DEF UseInv, FilledIn, Filling
  <2>2. y # x /\ c[y].pc \in Making /\ c[x].pc \in Making \cup {"scan"}
    BY <1>2 DEF Filling, Making
  <2>. QED BY <2>1, <2>2 DEF RaceInv, Recorded
<1>. QED BY <1>1, <1>2 DEF RaceInv, Placed

\* A step of x that gives no entry a new id.
LEMMA NoNewId ==
    ASSUME UseInv, RaceInv, NEW x \in Clients, c' = [c EXCEPT ![x] = c'[x]],
           \A e \in Entries : entry'[e].vid = entry[e].vid,
           Elems(volume_inuse) \subseteq Elems(volume_inuse)', raced \subseteq raced',
           c[x].pc \in Filling =>
              \/ c'[x].pc \in Filling /\ c'[x].v_idx = c[x].v_idx
              \/ c[x].v_idx \in Elems(volume_inuse)',
           Recorded', Sought(x)'
    PROVE  RaceInv'
<1>1. c \in [Clients -> ClientRec] /\ \A y \in Clients : y # x => c'[y] = c[y]
  BY DEF UseInv, VolumeTypeOK
<1>2. Placed'
  <2>. SUFFICES ASSUME NEW e \in Entries, entry'[e].vid # FreeVid
                PROVE  \/ e \in Elems(volume_inuse)'
                       \/ \E y \in Clients : c'[y].pc \in Filling /\ c'[y].v_idx = e
    BY DEF Placed
  <2>1. CASE e \in Elems(volume_inuse)
    BY <2>1
  <2>2. CASE e \notin Elems(volume_inuse)
    <3>1. PICK y \in Clients : c[y].pc \in Filling /\ c[y].v_idx = e
      BY <2>2 DEF RaceInv, Placed
    <3>. QED BY <1>1, <3>1
  <2>. QED BY <2>1, <2>2
<1>3. ASSUME NEW y \in Clients PROVE Sought(y)'
  <2>1. CASE y # x
    <3>1. Sought(y) /\ c'[y] = c[y] /\ c[y].v_idx \in Entries
      BY <1>1, <2>1 DEF RaceInv, ClientRec
    <3>. QED BY <3>1 DEF Sought
  <2>. QED BY <2>1
<1>4. OneEntryPerVolume'
  BY DEF RaceInv, OneEntryPerVolume
<1>. QED BY <1>2, <1>3, <1>4 DEF RaceInv

LEMMA RaceStep ==
    ASSUME UseInv, RaceInv, NEW x \in Clients, Client(x), Recorded', raced \subseteq raced'
    PROVE  RaceInv'
<1>. USE TableSizes
<1>1. /\ c \in [Clients -> ClientRec] /\ c[x] \in ClientRec /\ c[x].v_idx \in Entries
      /\ entry \in [Entries -> EntryRec] /\ entry[c[x].v_idx] \in EntryRec
      /\ (c[x].pc # "idle" => c[x].vid \in Vids) /\ Sought(x)
  BY DEF UseInv, VolumeTypeOK, ClientRec, RaceInv
<1>2. ASSUME NEW vid \in Vids, LookUp(x, vid) PROVE RaceInv'
  <2>1. /\ c' = [c EXCEPT ![x] = [pc |-> "scan", vid |-> vid, v_idx |-> 0]]
        /\ UNCHANGED <<entry, volume_inuse>> /\ c[x].pc = "idle"
    BY <1>2 DEF LookUp, GoesOn
  <2>2. c'[x] = [pc |-> "scan", vid |-> vid, v_idx |-> 0]
    BY <1>1, <2>1
  <2>3. Sought(x)'
    BY <2>2 DEF Sought, Entries
  <2>. QED BY <2>1, <2>2, <2>3, NoNewId DEF Filling
<1>3. CASE ScanEntry(x)
  <2>1. UNCHANGED <<entry, volume_inuse>> /\ c[x].pc = "scan"
    BY <1>3 DEF ScanEntry, GoesOn
  <2>2. CASE entry[c[x].v_idx].vid = c[x].vid
    <3>1. c' = [c EXCEPT ![x] = [c[x] EXCEPT !.pc = "use"]]
      BY <1>3, <2>2 DEF ScanEntry
    <3>2. c'[x].pc = "use" /\ c'[x].vid = c[x].vid /\ c'[x].v_idx = c[x].v_idx
      BY <1>1, <3>1 DEF ClientRec
    <3>3. c[x].vid \notin raced => c[x].v_idx \in Elems(volume_inuse)
      BY <2>1, <2>2, FoundIsInUse
    <3>4. Sought(x)'
      BY <2>1, <2>2, <3>2, <3>3 DEF Sought
    <3>5. c' = [c EXCEPT ![x] = c'[x]]
      BY <1>1, <3>1
    <3>. QED BY <2>1, <3>4, <3>5, NoNewId DEF Filling
  <2>3. CASE entry[c[x].v_idx].vid # c[x].vid /\ c[x].v_idx + 1 < MaxVolumes
    <3>. DEFINE i == c[x].v_idx + 1
    <3>1. c' = [c EXCEPT ![x] = [c[x] EXCEPT !.v_idx = i]]
      BY <1>3, <2>3 DEF ScanEntry
    <3>2. \A e \in Entries : e < i => e < c[x].v_idx \/ e = c[x].v_idx
      BY <1>1 DEF Entries
    <3>. HIDE DEF i
    <3>3. c'[x].pc = "scan" /\ c'[x].vid = c[x].vid /\ c'[x].v_idx = i
      BY <1>1, <2>1, <3>1 DEF ClientRec
    <3>4. Sought(x)'
      BY <1>1, <2>1, <2>3, <3>2, <3>3 DEF Sought
    <3>5. c' = [c EXCEPT ![x] = c'[x]]
      BY <1>1, <3>1
    <3>. QED BY <2>1, <3>4, <3>5, NoNewId DEF Filling
  <2>4. CASE entry[c[x].v_idx].vid # c[x].vid /\ ~ (c[x].v_idx + 1 < MaxVolumes)
    <3>1. c' = [c EXCEPT ![x] = [c[x] EXCEPT !.pc = "is_empty"]]
      BY <1>3, <2>4 DEF ScanEntry
    <3>2. c'[x].pc = "is_empty" /\ c'[x].vid = c[x].vid
      BY <1>1, <3>1 DEF ClientRec
    <3>3. \A e \in Entries : e < c[x].v_idx \/ e = c[x].v_idx
      BY <1>1, <2>4 DEF Entries
    <3>4. Sought(x)'
      BY <1>1, <2>1, <2>4, <3>2, <3>3 DEF Sought
    <3>5. c' = [c EXCEPT ![x] = c'[x]]
      BY <1>1, <3>1
    <3>. QED BY <2>1, <3>4, <3>5, NoNewId DEF Filling
  <2>. QED BY <2>2, <2>3, <2>4
<1>4. CASE CheckFree(x) \/ TakeEntry(x)
  <2>1. /\ UNCHANGED <<entry, volume_inuse>> /\ c[x].pc \in {"is_empty", "dequeue"}
        /\ c' = [c EXCEPT ![x] = c'[x]]
        /\ c'[x].pc \in {"dequeue", "set_vid"} /\ c'[x].vid = c[x].vid
    BY <1>1, <1>4 DEF CheckFree, TakeEntry, GoesOn, ClientRec
  <2>2. Sought(x)'
    BY <1>1, <2>1 DEF Sought
  <2>. QED BY <2>1, <2>2, NoNewId DEF Filling
<1>5. CASE SetVid(x)
  <2>. DEFINE e == c[x].v_idx
  <2>. DEFINE v == c[x].vid
  <2>1. /\ UNCHANGED volume_inuse /\ c[x].pc = "set_vid" /\ v \in Vids
        /\ c' = [c EXCEPT ![x] = c'[x]]
        /\ c'[x].pc = "open" /\ c'[x].vid = v /\ c'[x].v_idx = e
        /\ entry'[e].vid = v
        /\ \A d \in Entries : d # e => entry'[d] = entry[d]
    BY <1>1, <1>5 DEF SetVid, GoesOn, ClientRec, EntryRec
  <2>2. \A y \in Clients : y # x => c'[y] = c[y]
    BY <1>1, <2>1
  <2>3. v \notin raced => \A d \in Entries : entry[d].vid # v
    BY <1>1, <2>1 DEF Sought
  <2>. HIDE DEF e, v
  <2>4. e \in Entries /\ e \notin Elems(volume_inuse)
    BY <1>1, <2>1 DEF e, UseInv, Owned, Holds
  <2>5. Placed'
    <3>. SUFFICES ASSUME NEW d \in Entries, entry'[d].vid # FreeVid
                  PROVE  \/ d \in Elems(volume_inuse)'
                         \/ \E y \in Clients : c'[y].pc \in Filling /\ c'[y].v_idx = d
      BY DEF Placed
    <3>1. CASE d = e
      BY <2>1, <3>1 DEF Filling
    <3>2. CASE d # e /\ d \notin Elems(volume_inuse)
      <4>1. PICK y \in Clients : c[y].pc \in Filling /\ c[y].v_idx = d
        BY <2>1, <3>2 DEF RaceInv, Placed
      <4>2. y # x
        BY <2>1, <4>1 DEF Filling
      <4>. QED BY <2>2, <4>1, <4>2
    <3>3. CASE d \in Elems(volume_inuse)
      BY <2>1, <3>3
    <3>. QED BY <3>1, <3>2, <3>3
  <2>6. ASSUME NEW y \in Clients PROVE Sought(y)'
    <3>1. CASE y = x
      BY <2>1, <3>1 DEF Sought
    <3>2. CASE y # x
      <4>1. Sought(y) /\ c'[y] = c[y] /\ c[y].v_idx \in Entries
        BY <1>1, <2>2, <3>2 DEF RaceInv, ClientRec
      <4>2. c[y].vid = v /\ c[y].pc \in {"is_empty", "dequeue", "set_vid", "scan"} => v \in raced'
        <5>1. c'[x].pc \in Making
          BY <2>1 DEF Making
        <5>2. c[y].pc \in {"is_empty", "dequeue", "set_vid", "scan"} =>
                 c'[y].pc \in Making \cup {"scan"}
          BY <4>1 DEF Making
        <5>. QED BY <2>1, <3>2, <4>1, <5>1, <5>2 DEF Recorded
      <4>3. c[y].vid # v => \A d \in Entries : entry[d].vid # c[y].vid => entry'[d].vid # c[y].vid
        BY <2>1
      <4>4. c[y].v_idx \in Elems(volume_inuse) => entry'[c[y].v_idx] = entry[c[y].v_idx]
        BY <2>1, <2>4, <4>1
      <4>. QED BY <2>1, <4>1, <4>2, <4>3, <4>4 DEF Sought
    <3>. QED BY <3>1, <3>2
  <2>7. OneEntryPerVolume'
    BY <2>1, <2>3 DEF RaceInv, OneEntryPerVolume
  <2>. QED BY <2>5, <2>6, <2>7 DEF RaceInv
<1>6. CASE OpenFile(x) \/ MakeHash(x)
  <2>1. /\ UNCHANGED volume_inuse /\ c[x].pc \in {"open", "hash"}
        /\ c' = [c EXCEPT ![x] = c'[x]]
        /\ c'[x].pc \in Filling /\ c'[x].v_idx = c[x].v_idx
    BY <1>1, <1>6 DEF OpenFile, MakeHash, GoesOn, ClientRec, Filling
  <2>2. \A e \in Entries : entry'[e].vid = entry[e].vid
    BY <1>1, <1>6 DEF OpenFile, MakeHash, EntryRec
  <2>3. Sought(x)'
    BY <2>1 DEF Sought, Filling
  <2>. QED BY <2>1, <2>2, <2>3, NoNewId
<1>7. CASE PutInUse(x)
  <2>1. /\ UNCHANGED entry /\ c[x].pc = "enqueue" /\ c' = [c EXCEPT ![x] = c'[x]]
        /\ c'[x].pc = "use" /\ c'[x].vid = c[x].vid /\ c'[x].v_idx = c[x].v_idx
        /\ volume_inuse' = Append(volume_inuse, c[x].v_idx)
    BY <1>1, <1>7 DEF PutInUse, GoesOn, ClientRec
  <2>2. Elems(volume_inuse)' = Elems(volume_inuse) \cup {c[x].v_idx}
    <3>1. /\ volume_inuse \in Seq(Entries) /\ Distinct(volume_inuse)
          /\ c[x].v_idx \notin Elems(volume_inuse)
      BY <2>1 DEF UseInv, VolumeTypeOK, Owned, Holds
    <3>. QED BY <1>1, <2>1, <3>1, AppendDistinct
  <2>3. entry[c[x].v_idx].vid = c[x].vid
    BY <2>1 DEF UseInv, FilledIn
  <2>4. Sought(x)'
    BY <2>1, <2>2, <2>3 DEF Sought
  <2>. QED BY <2>1, <2>2, <2>4, NoNewId
<1>8. CASE EndUse(x)
  <2>1. /\ UNCHANGED <<entry, volume_inuse>> /\ c[x].pc = "use" /\ c' = [c EXCEPT ![x] = c'[x]]
        /\ c'[x].pc = "idle"
    BY <1>1, <1>8 DEF EndUse, GoesOn, NoClientCall
  <2>2. Sought(x)'
    BY <2>1 DEF Sought
  <2>. QED BY <2>1, <2>2, NoNewId DEF Filling
<1>. QED BY <1>2, <1>3, <1>4, <1>5, <1>6, <1>7, <1>8 DEF Client

TableInv == UseInv /\ RaceInv

LEMMA TableInit == VolumeInit => TableInv
<1>. SUFFICES ASSUME VolumeInit PROVE TableInv
  OBVIOUS
<1>1. UseInv
  BY UseInit
<1>2. /\ \A e \in Entries : entry[e].vid = FreeVid
      /\ \A x \in Clients : c[x].pc = "idle"
  BY DEF VolumeInit, NoClientCall
<1>3. Recorded
  BY <1>2 DEF Recorded, Making
<1>. QED BY <1>1, <1>2, <1>3 DEF TableInv, RaceInv, Placed, Sought, OneEntryPerVolume

LEMMA TableNext == TableInv /\ [VolumeNext]_volumeVars => TableInv'
<1>. SUFFICES ASSUME TableInv, [VolumeNext]_volumeVars PROVE TableInv'
  OBVIOUS
<1>1. UseInv'
  BY UseNext DEF TableInv
<1>2. CASE VolumeNext
  <2>1. raced \subseteq raced'
    BY <1>2 DEF VolumeNext
  <2>2. Recorded'
    <3>. SUFFICES ASSUME NEW y \in Clients, NEW z \in Clients, y # z, c'[y].vid = c'[z].vid,
                         c'[y].pc \in Making, c'[z].pc \in Making \cup {"scan"}
                  PROVE  c'[y].vid \in raced'
      BY DEF Recorded
    <3>. QED BY <1>2 DEF VolumeNext
  <2>3. PICK x \in Clients : Client(x)
    BY <1>2 DEF VolumeNext
  <2>. QED BY <1>1, <2>1, <2>2, <2>3, RaceStep DEF TableInv
<1>3. CASE UNCHANGED volumeVars
  BY <1>1, <1>3
     DEF volumeVars, TableInv, RaceInv, Placed, Recorded, Sought, OneEntryPerVolume
<1>. QED BY <1>2, <1>3

\* A volume has one entry, unless two calls look for it before it exists: the
\* loop of get_volume_entry_idx and alloc_volume_entry_idx (nvm0volume.cc
\* 26-68), which no lock protects, are safe against calls for other volumes.
THEOREM VolumesHaveOneEntry == VolumeSpec => []OneEntryPerVolume
<1>1. TableInv => OneEntryPerVolume
  BY DEF TableInv, RaceInv
<1>. QED BY <1>1, TableInit, TableNext, PTL DEF VolumeSpec

\* With the same exception, what get_volume_entry_idx returns is the entry of
\* the volume, with its file open and its hash table made, although the id is
\* stored before both (nvm0volume.cc 56-64).
THEOREM CallsGetWholeEntries == VolumeSpec => []EntryIsComplete
<1>1. TableInv => EntryIsComplete
  <2>. SUFFICES ASSUME TableInv, NEW x \in Clients, c[x].pc = "use", c[x].vid \notin raced
                PROVE  entry[c[x].v_idx] = [vid |-> c[x].vid, open |-> TRUE, hash |-> TRUE]
    BY DEF EntryIsComplete
  <2>. DEFINE r == entry[c[x].v_idx]
  <2>1. c[x].v_idx \in Elems(volume_inuse) /\ r.vid = c[x].vid
    BY DEF TableInv, RaceInv, Sought
  <2>2. r \in EntryRec
    BY DEF TableInv, UseInv, VolumeTypeOK, ClientRec
  <2>3. Complete(r)
    BY <2>1 DEF TableInv, UseInv, FilledIn
  <2>. HIDE DEF r
  <2>4. r = [vid |-> c[x].vid, open |-> TRUE, hash |-> TRUE]
    BY <2>1, <2>2, <2>3 DEF EntryRec, Complete
  <2>. QED BY <2>4 DEF r
<1>. QED BY <1>1, TableInit, TableNext, PTL DEF VolumeSpec
-----------------------------------------------------------------------------
(***************************************************************************)
(* Arithmetic                                                              *)
(***************************************************************************)

\* The quotient and the remainder of a division.
LEMMA DivMod ==
    ASSUME NEW n \in Nat, NEW d \in Nat \ {0}
    PROVE  /\ n \div d \in Nat
           /\ n % d \in 0 .. d - 1
           /\ n = (n \div d) * d + (n % d)
BY SMT

\* The multiples of d below and above n.
LEMMA DivMost ==
    ASSUME NEW n \in Nat, NEW x \in Nat, NEW d \in Nat \ {0}, x <= n \div d
    PROVE  x * d <= n
BY SMT

LEMMA DivLeast ==
    ASSUME NEW n \in Nat, NEW x \in Nat, NEW d \in Nat \ {0}, x > n \div d
    PROVE  x * d > n
BY SMT

\* Division does not decrease.
LEMMA DivMono ==
    ASSUME NEW n \in Nat, NEW m \in Nat, NEW d \in Nat \ {0}, n <= m
    PROVE  n \div d <= m \div d
<1>1. n \div d \in Nat /\ m \div d \in Nat
  BY DivMod
<1>2. n \div d > m \div d => (n \div d) * d > m
  BY <1>1, DivLeast
<1>3. (n \div d) * d <= n
  BY <1>1, DivMost
<1>4. (n \div d) * d \in Nat
  BY <1>1
<1>. QED BY <1>1, <1>2, <1>3, <1>4

\* What fits is not changed by a remainder.
LEMMA ModSmall ==
    ASSUME NEW n \in Nat, NEW d \in Nat \ {0}, n < d
    PROVE  n % d = n
BY SMT

LEMMA ModRange ==
    ASSUME NEW n \in Int, NEW d \in Nat \ {0}
    PROVE  n % d \in 0 .. d - 1
BY SMT

LEMMA NextBlock ==
    ASSUME NEW x \in Nat, NEW d \in Nat
    PROVE  (x + 1) * d = x * d + d /\ x * d \in Nat
BY SMT

(***************************************************************************)
(* Types, and the room left in a block                                     *)
(***************************************************************************)
LEMMA CallSizes ==
    /\ BlockSize \in Nat \ {0} /\ SizeMod \in Nat \ {0} /\ LbnMod \in Nat \ {0}
    /\ BlockSize < LbnMod /\ LbnMod <= SizeMod
    /\ MaxOffset \in Nat /\ MaxOffset < SizeMod
    /\ MaxBytes \in Nat /\ MaxBytes < SizeMod
BY WriteRangeAssumption DEF WriteRangeAssumption

Pieces == [lbn : 0 .. LbnMod - 1, bytes : 0 .. BlockSize]

RangeTypeOK ==
    /\ offset \in 0 .. MaxOffset
    /\ asked \in 0 .. MaxBytes
    /\ lbn \in 0 .. LbnMod - 1
    /\ lbn_end \in 0 .. LbnMod - 1
    /\ local_offset \in 0 .. BlockSize - 1
    /\ local_count \in 0 .. BlockSize
    /\ local_offset + local_count <= BlockSize
    /\ count \in 0 .. SizeMod - 1
    /\ bytes_written \in Nat
    /\ stored \in Seq(Pieces)
    /\ returned \in BOOLEAN

LEMMA RangeTypeInit == RangeInit => RangeTypeOK
<1>. SUFFICES ASSUME RangeInit PROVE RangeTypeOK
  OBVIOUS
<1>. USE CallSizes
<1>1. offset \in Nat /\ asked \in Nat /\ BlockSize \in Nat \ {0} /\ LbnMod \in Nat \ {0}
      /\ SizeMod \in Nat \ {0}
  BY DEF RangeInit
<1>2. offset \div BlockSize \in Nat /\ offset % BlockSize \in 0 .. BlockSize - 1
  BY <1>1, DivMod
<1>3. lbn \in 0 .. LbnMod - 1
  BY <1>1, <1>2, ModRange DEF RangeInit
<1>4. lbn_end \in 0 .. LbnMod - 1
  <2>1. (offset + asked - 1) % SizeMod \in Nat
    BY <1>1, ModRange
  <2>2. ((offset + asked - 1) % SizeMod) \div BlockSize \in Nat
    BY <1>1, <2>1, DivMod
  <2>. QED BY <1>1, <2>2, ModRange DEF RangeInit, LastLbn
<1>5. local_offset + local_count = BlockSize
  BY <1>1, <1>2 DEF RangeInit
<1>6. local_offset \in 0 .. BlockSize - 1 /\ local_count \in 0 .. BlockSize
  BY <1>1, <1>2 DEF RangeInit
<1>7. /\ count \in 0 .. SizeMod - 1 /\ bytes_written \in Nat /\ returned \in BOOLEAN
      /\ offset \in 0 .. MaxOffset /\ asked \in 0 .. MaxBytes
  <2>1. count = asked /\ bytes_written = 0 /\ offset \in 0 .. MaxOffset /\ asked \in 0 .. MaxBytes
    BY DEF RangeInit
  <2>2. returned \in BOOLEAN
    BY DEF RangeInit
  <2>3. count \in 0 .. SizeMod - 1
    BY <2>1
  <2>. QED BY <2>1, <2>2, <2>3
<1>8. stored \in Seq(Pieces)
  BY DEF RangeInit
<1>. QED BY <1>1, <1>3, <1>4, <1>5, <1>6, <1>7, <1>8 DEF RangeTypeOK

LEMMA RangeTypeStep == RangeTypeOK /\ [WriteRound]_rangeVars => RangeTypeOK'
<1>. SUFFICES ASSUME RangeTypeOK, [WriteRound]_rangeVars PROVE RangeTypeOK'
  OBVIOUS
<1>. USE CallSizes
<1>1. CASE WriteRound
  <2>. USE <1>1
  <2>1. count' \in 0 .. SizeMod - 1
    <3>1. count - local_count \in Int
      BY DEF RangeTypeOK
    <3>2. (count - local_count) % SizeMod \in 0 .. SizeMod - 1
      BY <3>1, ModRange
    <3>. QED BY <3>2 DEF WriteRound, Leftover
  <2>2. local_count' \in 0 .. BlockSize
    BY <2>1 DEF RangeTypeOK, WriteRound, NextCount
  <2>3. lbn' \in 0 .. LbnMod - 1
    BY ModRange DEF RangeTypeOK, WriteRound
  <2>4. stored' \in Seq(Pieces)
    BY DEF RangeTypeOK, WriteRound, Pieces
  <2>. QED BY <2>1, <2>2, <2>3, <2>4 DEF RangeTypeOK, WriteRound
<1>2. CASE UNCHANGED rangeVars
  BY <1>2 DEF RangeTypeOK, rangeVars
<1>. QED BY <1>1, <1>2

LEMMA RangeTypes == RangeSpec => []RangeTypeOK
BY RangeTypeInit, RangeTypeStep, PTL DEF RangeSpec

\* No round of the loop writes past the end of a block (nvm0write.cc 48),
\* whatever the offset and the count, also where the count wraps.
THEOREM RoundsStayInBlock == RangeSpec => []StaysInBlock
<1>1. RangeTypeOK => StaysInBlock
  <2>. SUFFICES ASSUME RangeTypeOK PROVE StaysInBlock
    OBVIOUS
  <2>1. ASSUME NEW k \in 1 .. Len(stored) PROVE stored[k].bytes <= BlockSize
    <3>1. stored[k] \in Pieces
      BY DEF RangeTypeOK
    <3>. QED BY <3>1, CallSizes DEF Pieces
  <2>. QED BY <2>1 DEF RangeTypeOK, StaysInBlock
<1>. QED BY <1>1, RangeTypes, PTL

(***************************************************************************)
(* Positions: the rounds go through the blocks of the call one by one.     *)
(***************************************************************************)
First == offset \div BlockSize
Last == (offset + asked - 1) \div BlockSize

Positions ==
    Fits =>
        /\ lbn_end = Last
        /\ lbn = First + Len(stored)
        /\ lbn <= Last + 1
        /\ returned <=> lbn > Last
        /\ \A k \in 1 .. Len(stored) : stored[k].lbn = First + k - 1

LEMMA CallRange ==
    ASSUME RangeTypeOK, Fits
    PROVE  /\ offset \in Nat /\ asked \in Nat
           /\ First \in Nat /\ Last \in Nat /\ First <= Last /\ Last < LbnMod - 1
<1>. USE CallSizes
<1>1. offset \in Nat /\ asked \in Nat /\ offset + asked - 1 \in Nat /\ offset <= offset + asked - 1
  BY DEF RangeTypeOK, Fits
<1>. QED BY <1>1, DivMod, DivMono DEF First, Last, Fits

LEMMA PositionsInit == RangeInit => Positions
<1>. SUFFICES ASSUME RangeInit, Fits PROVE Positions
  BY DEF Positions
<1>. USE CallSizes
<1>1. RangeTypeOK
  BY RangeTypeInit
<1>2. First \in Nat /\ Last \in Nat /\ First <= Last /\ Last < LbnMod - 1
  BY <1>1, CallRange
<1>3. First % LbnMod = First /\ Last % LbnMod = Last
  BY <1>2, ModSmall
<1>4. (offset + asked - 1) % SizeMod = offset + asked - 1
  <2>1. offset + asked - 1 \in Nat /\ offset + asked - 1 < SizeMod
    BY <1>1 DEF RangeTypeOK, Fits
  <2>. QED BY <2>1, ModSmall
<1>5. lbn = First /\ lbn_end = Last
  BY <1>3, <1>4 DEF RangeInit, LastLbn, First, Last
<1>6. Len(stored) = 0 /\ returned = FALSE
  BY DEF RangeInit
<1>7. lbn = First + Len(stored) /\ lbn <= Last + 1 /\ ~ (lbn > Last)
  BY <1>2, <1>5, <1>6
<1>8. \A k \in 1 .. Len(stored) : stored[k].lbn = First + k - 1
  BY <1>6
<1>. QED BY <1>5, <1>6, <1>7, <1>8 DEF Positions

LEMMA PositionsStep ==
    RangeTypeOK /\ Positions /\ [WriteRound]_rangeVars => Positions'
<1>. SUFFICES ASSUME RangeTypeOK, Positions, [WriteRound]_rangeVars, Fits' PROVE Positions'
  BY DEF Positions
<1>. USE CallSizes
<1>1. CASE WriteRound
  <2>. USE <1>1
  <2>1. Fits /\ First' = First /\ Last' = Last
    <3>1. offset' = offset /\ asked' = asked
      BY DEF WriteRound
    <3>. QED BY <3>1 DEF Fits, First, Last
  <2>2. First \in Nat /\ Last \in Nat /\ First <= Last /\ Last < LbnMod - 1
    BY <2>1, CallRange
  <2>3. lbn <= Last /\ lbn \in Nat
    BY <2>1, <2>2 DEF WriteRound, Positions, RangeTypeOK
  <2>4. lbn' = lbn + 1
    <3>1. lbn + 1 \in Nat /\ lbn + 1 < LbnMod
      BY <2>2, <2>3
    <3>. QED BY <3>1, ModSmall DEF WriteRound
  <2>5. Len(stored') = Len(stored) + 1 /\ Len(stored) \in Nat
    BY DEF WriteRound, RangeTypeOK
  <2>6. lbn = First + Len(stored) /\ lbn_end = Last
    BY <2>1 DEF Positions
  <2>7. ASSUME NEW k \in 1 .. Len(stored') PROVE stored'[k].lbn = First + k - 1
    <3>1. CASE k \in 1 .. Len(stored)
      <4>1. stored'[k] = stored[k]
        BY <3>1 DEF WriteRound, RangeTypeOK
      <4>. QED BY <4>1, <3>1, <2>1 DEF Positions
    <3>2. CASE k = Len(stored) + 1
      <4>1. stored'[k].lbn = lbn
        BY <3>2 DEF WriteRound, RangeTypeOK
      <4>. QED BY <4>1, <3>2, <2>2, <2>5, <2>6
    <3>. QED BY <3>1, <3>2, <2>5
  <2>8. returned' <=> lbn' > Last
    BY <2>6 DEF WriteRound
  <2>9. lbn_end' = Last
    BY <2>6 DEF WriteRound
  <2>10. lbn' = First + Len(stored') /\ lbn' <= Last + 1
    BY <2>2, <2>3, <2>4, <2>5, <2>6
  <2>. QED BY <2>1, <2>7, <2>8, <2>9, <2>10 DEF Positions
<1>2. CASE UNCHANGED rangeVars
  BY <1>2 DEF Positions, rangeVars, Fits, First, Last
<1>. QED BY <1>1, <1>2

(***************************************************************************)
(* Bytes: after the first round the call has got to a block boundary or to *)
(* its end.                                                                *)
(***************************************************************************)
Bytes ==
    Fits /\ Reaches =>
        /\ count = asked - bytes_written
        /\ Len(stored) = 0 =>
              bytes_written = 0 /\ local_count = BlockSize - (offset % BlockSize)
        /\ Len(stored) > 0 =>
              /\ bytes_written = LeastOf(offset + asked, lbn * BlockSize) - offset
              /\ local_count = NextCount(count)
        /\ \A k \in 1 .. Len(stored) : stored[k].bytes = BytesIn(stored[k].lbn)

LEMMA BytesInit == RangeInit => Bytes
<1>. SUFFICES ASSUME RangeInit PROVE Bytes
  OBVIOUS
<1>1. RangeTypeOK
  BY RangeTypeInit
<1>2. /\ count = asked /\ bytes_written = 0 /\ stored = <<>>
      /\ local_count = BlockSize - (offset % BlockSize)
  BY DEF RangeInit
<1>3. count = asked - bytes_written /\ Len(stored) = 0
  BY <1>1, <1>2, CallSizes DEF RangeTypeOK
<1>. QED BY <1>2, <1>3 DEF Bytes

\* What a round stores, and how far the call has got after it.
LEMMA RoundBytes ==
    ASSUME RangeTypeOK, Positions, Bytes, Fits, Reaches, lbn <= Last
    PROVE  /\ local_count = BytesIn(lbn)
           /\ bytes_written + local_count = LeastOf(offset + asked, (lbn + 1) * BlockSize) - offset
<1>. USE CallSizes
<1>. DEFINE below == lbn * BlockSize
<1>1. offset \in Nat /\ asked \in Nat /\ First \in Nat /\ Last \in Nat /\ First <= Last
  BY CallRange
<1>2. lbn \in Nat /\ Len(stored) \in Nat /\ lbn = First + Len(stored)
  BY DEF RangeTypeOK, Positions
<1>3. below \in Nat /\ (lbn + 1) * BlockSize = below + BlockSize
  BY <1>2, NextBlock
<1>4. below <= offset + asked - 1
  <2>1. offset + asked - 1 \in Nat
    BY <1>1 DEF Fits
  <2>. QED BY <1>2, <2>1, DivMost DEF Last
<1>. HIDE DEF below
<1>5. CASE Len(stored) = 0
  <2>1. lbn = First
    BY <1>1, <1>2, <1>5
  <2>2. offset = below + (offset % BlockSize) /\ offset % BlockSize \in 0 .. BlockSize - 1
    BY <1>1, <2>1, DivMod DEF First, below
  <2>3. bytes_written = 0 /\ local_count = BlockSize - (offset % BlockSize)
    BY <1>5 DEF Bytes
  <2>4. asked >= BlockSize - (offset % BlockSize)
    BY DEF Reaches
  <2>5. local_count = below + BlockSize - offset /\ below + BlockSize <= offset + asked
    BY <1>1, <1>3, <2>2, <2>3, <2>4
  <2>6. LeastOf(offset + asked, below + BlockSize) = below + BlockSize
    BY <1>1, <1>3, <2>5 DEF LeastOf
  <2>7. GreatestOf(offset, below) = offset
    BY <1>1, <1>3, <2>2 DEF GreatestOf
  <2>. QED BY <1>1, <1>3, <2>3, <2>5, <2>6, <2>7 DEF BytesIn, below
<1>6. CASE Len(stored) > 0
  <2>1. offset < below
    <3>1. lbn > offset \div BlockSize
      BY <1>1, <1>2, <1>6 DEF First
    <3>. QED BY <1>1, <1>2, <3>1, DivLeast DEF below
  <2>2. bytes_written = below - offset
    <3>1. bytes_written = LeastOf(offset + asked, below) - offset
      BY <1>6 DEF Bytes, below
    <3>. QED BY <1>1, <1>3, <1>4, <3>1 DEF LeastOf
  <2>3. local_count = NextCount(offset + asked - below)
    <3>1. count = offset + asked - below
      BY <1>1, <1>3, <2>2 DEF Bytes
    <3>. QED BY <1>6, <3>1 DEF Bytes
  <2>4. GreatestOf(offset, below) = below
    BY <1>1, <1>3, <2>1 DEF GreatestOf
  <2>5. local_count = LeastOf(offset + asked, below + BlockSize) - below
    BY <1>1, <1>3, <2>3 DEF NextCount, LeastOf
  <2>6. LeastOf(offset + asked, below + BlockSize) \in Nat
    BY <1>1, <1>3 DEF LeastOf
  <2>. QED BY <1>1, <1>3, <2>2, <2>4, <2>5, <2>6 DEF BytesIn, below
<1>. QED BY <1>2, <1>5, <1>6

LEMMA BytesStep ==
    RangeTypeOK /\ Positions /\ Bytes /\ [WriteRound]_rangeVars => Bytes'
<1>. SUFFICES ASSUME RangeTypeOK, Positions, Bytes, [WriteRound]_rangeVars, Fits', Reaches'
              PROVE Bytes'
  BY DEF Bytes
<1>. USE CallSizes
<1>1. CASE WriteRound
  <2>. USE <1>1
  <2>1. offset' = offset /\ asked' = asked
    BY DEF WriteRound
  <2>2. Fits /\ Reaches
    BY <2>1 DEF Fits, Reaches
  <2>3. /\ offset \in Nat /\ asked \in Nat /\ First \in Nat /\ Last \in Nat
        /\ Last < LbnMod - 1
    BY <2>2, CallRange
  <2>4. lbn <= Last /\ lbn \in Nat
    BY <2>2, <2>3 DEF WriteRound, Positions, RangeTypeOK
  <2>5. lbn' = lbn + 1
    <3>1. lbn + 1 \in Nat /\ lbn + 1 < LbnMod
      BY <2>3, <2>4
    <3>. QED BY <3>1, ModSmall DEF WriteRound
  <2>6. /\ local_count = BytesIn(lbn)
        /\ bytes_written + local_count =
              LeastOf(offset + asked, (lbn + 1) * BlockSize) - offset
    BY <2>2, <2>4, RoundBytes
  <2>7. bytes_written' = LeastOf(offset' + asked', lbn' * BlockSize) - offset'
    BY <2>1, <2>5, <2>6 DEF WriteRound
  <2>8. count' = asked - bytes_written'
    <3>1. bytes_written + local_count <= asked
      <4>1. (lbn + 1) * BlockSize \in Nat
        BY <2>4, NextBlock
      <4>. QED BY <2>3, <2>6, <4>1 DEF LeastOf
    <3>2. /\ count = asked - bytes_written /\ bytes_written \in Nat /\ local_count \in Nat
          /\ count < SizeMod
      BY <2>2 DEF Bytes, RangeTypeOK
    <3>3. count - local_count \in Nat /\ count - local_count < SizeMod
      BY <2>3, <3>1, <3>2
    <3>4. count' = count - local_count
      BY <3>3, ModSmall DEF WriteRound, Leftover
    <3>5. bytes_written' = bytes_written + local_count
      BY DEF WriteRound
    <3>. QED BY <2>3, <3>2, <3>4, <3>5
  <2>9. Len(stored') = Len(stored) + 1 /\ Len(stored) \in Nat
    BY DEF WriteRound, RangeTypeOK
  <2>10. local_count' = NextCount(count')
    BY DEF WriteRound
  <2>11. ASSUME NEW k \in 1 .. Len(stored') PROVE stored'[k].bytes = BytesIn(stored'[k].lbn)
    <3>1. CASE k \in 1 .. Len(stored)
      <4>1. stored'[k] = stored[k]
        BY <3>1 DEF WriteRound, RangeTypeOK
      <4>. QED BY <2>2, <3>1, <4>1 DEF Bytes
    <3>2. CASE k = Len(stored) + 1
      <4>1. stored'[k] = [lbn |-> lbn, bytes |-> local_count]
        BY <3>2 DEF WriteRound, RangeTypeOK
      <4>. QED BY <2>6, <4>1
    <3>. QED BY <2>9, <3>1, <3>2
  <2>12. \A b : BytesIn(b)' = BytesIn(b)
    BY <2>1 DEF BytesIn
  <2>. QED BY <2>1, <2>7, <2>8, <2>9, <2>10, <2>11, <2>12 DEF Bytes
<1>2. CASE UNCHANGED rangeVars
  BY <1>2 DEF Bytes, rangeVars, Fits, Reaches, BytesIn
<1>. QED BY <1>1, <1>2

\* The types, positions and bytes together are an invariant of a call.
THEOREM RangeInvariant == RangeSpec => [](RangeTypeOK /\ Positions /\ Bytes)
<1>1. RangeInit => RangeTypeOK /\ Positions /\ Bytes
  BY RangeTypeInit, PositionsInit, BytesInit
<1>2. RangeTypeOK /\ Positions /\ Bytes /\ [WriteRound]_rangeVars =>
          (RangeTypeOK /\ Positions /\ Bytes)'
  BY RangeTypeStep, PositionsStep, BytesStep
<1>. QED BY <1>1, <1>2, PTL DEF RangeSpec

\* A call writes the blocks of its range, each once and in order, and ends
\* behind the last one; each gets the bytes that belong to it if the call
\* reaches the end of its first block (nvm0write.cc 199-230).
THEOREM CallWritesItsBlocks == RangeSpec => []WritesItsBlocks
<1>1. RangeTypeOK /\ Positions /\ Bytes => WritesItsBlocks
  <2>. SUFFICES ASSUME RangeTypeOK, Positions, Bytes, Fits PROVE WritesItsBlocks
    BY DEF WritesItsBlocks
  <2>1. /\ First \in Nat /\ Last \in Nat /\ First <= Last /\ Len(stored) \in Nat
    BY CallRange DEF RangeTypeOK
  <2>2. lbn = First + Len(stored) /\ lbn <= Last + 1 /\ (returned => lbn > Last)
    BY DEF Positions
  <2>3. ASSUME NEW k \in 1 .. Len(stored)
        PROVE  /\ stored[k].lbn = First + k - 1
               /\ stored[k].lbn <= Last
               /\ Reaches => stored[k].bytes = BytesIn(stored[k].lbn)
    <3>1. stored[k].lbn = First + k - 1
      BY DEF Positions
    <3>. QED BY <2>1, <2>2, <3>1 DEF Bytes
  <2>4. ASSUME returned PROVE stored[Len(stored)].lbn = Last
    <3>1. Len(stored) \in 1 .. Len(stored) /\ First + Len(stored) - 1 = Last
      BY <2>1, <2>2, <2>4
    <3>. QED BY <2>3, <3>1
  <2>. QED BY <2>3, <2>4 DEF WritesItsBlocks, First, Last
<1>. QED BY <1>1, RangeInvariant, PTL

\* "@return the actual bytes durably written" (nvm0write.cc 150): a call that
\* reaches the end of its first block returns what was asked for.
THEOREM CallReturnsCount == RangeSpec => []ReturnsCount
<1>1. RangeTypeOK /\ Positions /\ Bytes => ReturnsCount
  <2>. SUFFICES ASSUME RangeTypeOK, Positions, Bytes, Fits, Reaches, returned
                PROVE  bytes_written = asked
    BY DEF ReturnsCount
  <2>1. /\ offset \in Nat /\ asked \in Nat /\ First \in Nat /\ Last \in Nat /\ First <= Last
        /\ Len(stored) \in Nat /\ lbn \in Nat
    BY CallRange DEF RangeTypeOK
  <2>2. lbn = First + Len(stored) /\ lbn > Last
    BY DEF Positions
  <2>3. lbn * BlockSize > offset + asked - 1 /\ lbn * BlockSize \in Nat
    <3>1. offset + asked - 1 \in Nat
      BY <2>1 DEF Fits
    <3>. QED BY <2>1, <2>2, <3>1, CallSizes, DivLeast, NextBlock DEF Last
  <2>4. Len(stored) > 0
    BY <2>1, <2>2, CallRange
  <2>5. bytes_written = LeastOf(offset + asked, lbn * BlockSize) - offset
    BY <2>4 DEF Bytes
  <2>. QED BY <2>1, <2>3, <2>5 DEF LeastOf
<1>. QED BY <1>1, RangeInvariant, PTL
=============================================================================

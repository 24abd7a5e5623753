--------------------------- MODULE ApcDisk_proofs ---------------------------
(* What holds of the disk tier for any shards, capacities, faults and      *)
(* stores.                                                                 *)
EXTENDS ApcDisk, FiniteSetTheorems, TLAPS

-----------------------------------------------------------------------------
(* Sequences as the sets of their elements.                                *)

LEMMA AppendedShard ==
  ASSUME NEW q \in Seq(Shards), NEW s \in Shards
  PROVE  /\ Append(q, s) \in Seq(Shards)
         /\ ShardSet(Append(q, s)) = ShardSet(q) \cup {s}
<1> DEFINE r == Append(q, s)
<1>1. r \in Seq(Shards) /\ Len(r) = Len(q) + 1 /\ DOMAIN r = 1 .. Len(r)
  OBVIOUS
<1>2. \A i \in 1 .. Len(q) : r[i] = q[i]
  OBVIOUS
<1>3. r[Len(q) + 1] = s
  OBVIOUS
<1>4. DOMAIN q = 1 .. Len(q) /\ Len(q) \in Nat
  OBVIOUS
<1> HIDE DEF r
<1>5. \A i \in DOMAIN r : i \in DOMAIN q \/ i = Len(q) + 1
  BY <1>1, <1>4
<1>6. \A i \in DOMAIN q : i \in DOMAIN r
  BY <1>1, <1>4
<1>7. Len(q) + 1 \in DOMAIN r
  BY <1>1, <1>4
<1>8. ShardSet(r) = ShardSet(q) \cup {s}
  BY <1>2, <1>3, <1>4, <1>5, <1>6, <1>7 DEF ShardSet
<1> QED BY <1>1, <1>8 DEF r

LEMMA TakenShard ==
  ASSUME NEW q \in Seq(Shards), q # <<>>
  PROVE  /\ Head(q) \in Shards /\ Tail(q) \in Seq(Shards)
         /\ ShardSet(q) = {Head(q)} \cup ShardSet(Tail(q))
<1> DEFINE r == Tail(q)
<1>1. r \in Seq(Shards) /\ Len(r) = Len(q) - 1 /\ DOMAIN r = 1 .. Len(r)
  OBVIOUS
<1>2. \A i \in 1 .. Len(r) : r[i] = q[i + 1]
  OBVIOUS
<1>3. Head(q) = q[1] /\ Head(q) \in Shards
  OBVIOUS
<1>4. DOMAIN q = 1 .. Len(q) /\ Len(q) \in Nat \ {0}
  OBVIOUS
<1> HIDE DEF r
<1>5. \A i \in DOMAIN q : i = 1 \/ (i - 1 \in DOMAIN r /\ q[i] = r[i - 1])
  <2> SUFFICES ASSUME NEW i \in DOMAIN q, i # 1
               PROVE  i - 1 \in DOMAIN r /\ q[i] = r[i - 1]
    OBVIOUS
  <2>1. i - 1 \in 1 .. Len(r) /\ (i - 1) + 1 = i
    BY <1>1, <1>4
  <2> QED BY <2>1, <1>1, <1>2
<1>6. \A i \in DOMAIN r : i + 1 \in DOMAIN q /\ r[i] = q[i + 1]
  BY <1>1, <1>2, <1>4
<1>7. 1 \in DOMAIN q
  BY <1>4
<1>8. ShardSet(q) = {q[1]} \cup ShardSet(r)
  BY <1>5, <1>6, <1>7 DEF ShardSet
<1> QED BY <1>1, <1>3, <1>8 DEF r

-----------------------------------------------------------------------------
(* Where the writers are, and which shards they have.                      *)

WritersOk ==
  /\ files \subseteq Shards
  /\ wq \in Seq(Shards)
  /\ wpc \in [Writers -> WriterSteps]
  /\ item \in [Writers -> Shards \cup {NoShard}]
  /\ victims \in [Writers -> SUBSET Shards]
  /\ victim \in [Writers -> Shards \cup {NoShard}]
  /\ dedup \in Shards \cup {NoShard}
  /\ \A w \in Writers : wpc[w] # "idle" => item[w] \in Shards
  /\ \A w \in Writers : wpc[w] = "idle" => item[w] = NoShard

PendingInv == WritersOk /\ InFlightIsPending

USE ShardsAssumption, CapAssumption

LEMMA PendingInit == DiskInit => PendingInv
<1> SUFFICES ASSUME DiskInit PROVE PendingInv
  OBVIOUS
<1> USE DEF DiskInit
<1>1. WritersOk
  BY DEF WritersOk, WriterSteps
<1>2. InFlightIsPending
  BY DEF InFlightIsPending
<1> QED BY <1>1, <1>2 DEF PendingInv

\* A step that leaves the queue, the items and the marks alone.
LEMMA PendingKept ==
  ASSUME InFlightIsPending, inFlight' \subseteq inFlight,
         UNCHANGED <<wq, item>>
  PROVE  InFlightIsPending'
BY DEF InFlightIsPending, Unwritten, ShardSet

\* Of a step of writer w that only moves it on.
LEMMA WriterMoves ==
  ASSUME PendingInv, NEW w \in Writers, NEW p \in WriterSteps \ {"idle"},
         Goes(w, p), wpc[w] # "idle",
         UNCHANGED <<wq, item, inFlight, dedup>>,
         files' \subseteq Shards, 
         victims' \in [Writers -> SUBSET Shards],
         victim' \in [Writers -> Shards \cup {NoShard}]
  PROVE  PendingInv'
<1>1. wpc' \in [Writers -> WriterSteps]
  BY DEF PendingInv, WritersOk, Goes
<1>2. \A v \in Writers : (wpc'[v] # "idle" => item'[v] \in Shards)
                        /\ (wpc'[v] = "idle" => item'[v] = NoShard)
  BY DEF PendingInv, WritersOk, Goes
<1>3. WritersOk'
  BY <1>1, <1>2 DEF PendingInv, WritersOk
<1>4. InFlightIsPending'
  BY PendingKept DEF PendingInv
<1> QED BY <1>3, <1>4 DEF PendingInv

LEMMA PendingSave ==
  ASSUME PendingInv, NEW s \in Shards, SaveShard(s)
  PROVE  PendingInv'
<1>1. UNCHANGED <<files, index, writers>>
  BY DEF SaveShard
<1>2. CASE dedup' = s /\ UNCHANGED <<inFlight, wq>>
  <2>1. WritersOk'
    BY <1>1, <1>2 DEF PendingInv, WritersOk, writers, evicting
  <2>2. InFlightIsPending'
    BY <1>1, <1>2, PendingKept DEF PendingInv, writers
  <2> QED BY <2>1, <2>2 DEF PendingInv
<1>3. CASE inFlight' = inFlight \cup BlocksOf[s] /\ wq' = Append(wq, s) /\ UNCHANGED dedup
  <2>1. wq' \in Seq(Shards) /\ ShardSet(wq') = ShardSet(wq) \cup {s}
    BY <1>3, AppendedShard DEF PendingInv, WritersOk
  <2>2. WritersOk'
    BY <1>1, <1>3, <2>1 DEF PendingInv, WritersOk, writers, evicting
  <2>3. s \in Unwritten' /\ Unwritten \subseteq Unwritten'
    BY <1>1, <2>1 DEF Unwritten, writers
  <2>4. InFlightIsPending'
    BY <1>3, <2>3 DEF PendingInv, InFlightIsPending
  <2> QED BY <2>2, <2>4 DEF PendingInv
<1>4. CASE inFlight' = inFlight \ BlocksOf[s] /\ UNCHANGED <<wq, dedup>>
  <2>1. WritersOk'
    BY <1>1, <1>4 DEF PendingInv, WritersOk, writers, evicting
  <2>2. InFlightIsPending'
    BY <1>1, <1>4, PendingKept DEF PendingInv, writers
  <2> QED BY <2>1, <2>2 DEF PendingInv
<1> QED BY <1>2, <1>3, <1>4 DEF SaveShard

LEMMA PendingTake ==
  ASSUME PendingInv, NEW w \in Writers, TakeItem(w)
  PROVE  PendingInv'
<1>1. Head(wq) \in Shards /\ wq' \in Seq(Shards)
      /\ ShardSet(wq) = {Head(wq)} \cup ShardSet(wq')
  BY TakenShard DEF TakeItem, PendingInv, WritersOk
<1>2. item' = [item EXCEPT ![w] = Head(wq)] /\ inFlight' = inFlight
  BY DEF TakeItem
<1>3. item' \in [Writers -> Shards \cup {NoShard}] /\ wpc' \in [Writers -> WriterSteps]
  BY <1>1, <1>2 DEF TakeItem, Goes, PendingInv, WritersOk, WriterSteps
<1>4. \A v \in Writers : (wpc'[v] # "idle" => item'[v] \in Shards)
                        /\ (wpc'[v] = "idle" => item'[v] = NoShard)
  BY <1>1, <1>2 DEF TakeItem, Goes, PendingInv, WritersOk
<1>5. WritersOk'
  BY <1>1, <1>3, <1>4 DEF TakeItem, PendingInv, WritersOk, evicting
<1>6. InFlightIsPending'
  <2> SUFFICES ASSUME NEW h \in inFlight
               PROVE  \E s \in Unwritten' : h \in BlocksOf[s]
    BY <1>2 DEF InFlightIsPending
  <2>1. PICK s \in Unwritten : h \in BlocksOf[s]
    BY DEF PendingInv, InFlightIsPending
  <2>2. CASE s \in ShardSet(wq) \ {NoShard}
    BY <1>1, <1>2, <2>1, <2>2 DEF Unwritten, PendingInv, WritersOk
  <2>3. CASE s # NoShard /\ \E v \in Writers : s = item[v]
    <3>1. PICK v \in Writers : s = item[v]
      BY <2>3
    <3>2. CASE v # w
      BY <1>2, <2>1, <2>3, <3>1, <3>2 DEF Unwritten, PendingInv, WritersOk
    <3>3. CASE v = w
      <4> QED BY <2>1, <2>3, <3>1, <3>3 DEF TakeItem, PendingInv, WritersOk
    <3> QED BY <3>2, <3>3
  <2> QED BY <2>1, <2>2, <2>3 DEF Unwritten
<1> QED BY <1>5, <1>6 DEF PendingInv

LEMMA PendingFinish ==
  ASSUME PendingInv, NEW w \in Writers, Finish(w)
  PROVE  PendingInv'
<1>1. item' = [item EXCEPT ![w] = NoShard] /\ wpc' = [wpc EXCEPT ![w] = "idle"]
  BY DEF Finish, Goes
<1>2. item' \in [Writers -> Shards \cup {NoShard}] /\ wpc' \in [Writers -> WriterSteps]
  BY <1>1 DEF PendingInv, WritersOk, WriterSteps
<1>3. \A v \in Writers : (wpc'[v] # "idle" => item'[v] \in Shards)
                        /\ (wpc'[v] = "idle" => item'[v] = NoShard)
  BY <1>1 DEF PendingInv, WritersOk
<1>4. WritersOk'
  BY <1>2, <1>3 DEF Finish, PendingInv, WritersOk, evicting
<1>5. InFlightIsPending'
  <2> SUFFICES ASSUME NEW h \in inFlight, h \notin BlocksOf[item[w]]
               PROVE  \E s \in Unwritten' : h \in BlocksOf[s]
    BY DEF Finish, Settled, InFlightIsPending
  <2>1. PICK s \in Unwritten : h \in BlocksOf[s]
    BY DEF PendingInv, InFlightIsPending
  <2>2. s \in Unwritten'
    <3>1. CASE s \in ShardSet(wq)
      BY <2>1, <3>1 DEF Finish, Unwritten, ShardSet
    <3>2. CASE \E v \in Writers : s = item[v]
      <4>1. PICK v \in Writers : s = item[v]
        BY <3>2
      <4>2. v # w
        BY <2>1, <4>1
      <4>3. item'[v] = s
        BY <1>1, <4>1, <4>2 DEF PendingInv, WritersOk
      <4> QED BY <2>1, <4>3 DEF Unwritten
    <3> QED BY <3>1, <3>2 DEF Unwritten
  <2> QED BY <2>1, <2>2
<1> QED BY <1>4, <1>5 DEF PendingInv

LEMMA PendingWriter ==
  ASSUME PendingInv, NEW w \in Writers, Write(w) \/ WriteFails(w)
  PROVE  PendingInv'
<1> USE DEF evicting
<1> DEFINE Steps == WriterSteps \ {"idle"}
<1>0. /\ files \subseteq Shards /\ victims \in [Writers -> SUBSET Shards]
      /\ victim \in [Writers -> Shards \cup {NoShard}]
      /\ wpc[w] # "idle" => item[w] \in Shards
      /\ {"write", "count", "add", "index", "evict", "unlink", "unindex",
          "finish"} \subseteq Steps
  BY DEF PendingInv, WritersOk, WriterSteps
<1> HIDE DEF Steps
<1>1. CASE TakeItem(w)
  BY <1>1, PendingTake
<1>2. CASE WriteShard(w)
  <2>1. files' \subseteq Shards /\ "count" \in Steps /\ Goes(w, "count")
    BY <1>0, <1>2 DEF WriteShard
  <2> QED BY <1>0, <1>2, <2>1, WriterMoves DEF WriteShard, Steps
<1>3. CASE WriteFails(w)
  <2>1. "finish" \in Steps /\ Goes(w, "finish")
    BY <1>0, <1>3 DEF WriteFails
  <2> QED BY <1>0, <1>3, <2>1, WriterMoves DEF WriteFails, Steps
<1>4. CASE Count(w)
  <2>1. PICK p \in Steps : Goes(w, p)
    BY <1>0, <1>4 DEF Count
  <2> QED BY <1>0, <1>4, <2>1, WriterMoves DEF Count, Steps
<1>5. CASE AddBytes(w)
  <2>1. "index" \in Steps /\ Goes(w, "index")
    BY <1>0, <1>5 DEF AddBytes
  <2> QED BY <1>0, <1>5, <2>1, WriterMoves DEF AddBytes, Steps
<1>6. CASE IndexBlocks(w)
  <2>1. "evict" \in Steps /\ Goes(w, "evict")
    BY <1>0, <1>6 DEF IndexBlocks
  <2> QED BY <1>0, <1>6, <2>1, WriterMoves DEF IndexBlocks, Steps
<1>7. CASE EvictStart(w)
  <2>1. PICK p \in Steps : Goes(w, p)
    BY <1>0, <1>7 DEF EvictStart
  <2>2. victims' \in [Writers -> SUBSET Shards]
    BY <1>0, <1>7 DEF EvictStart
  <2> QED BY <1>0, <1>7, <2>1, <2>2, WriterMoves DEF EvictStart, Steps
<1>8. CASE EvictOne(w)
  <2>1. PICK s \in victims[w] :
           /\ victims' = [victims EXCEPT ![w] = @ \ {s}]
           /\ \/ /\ s \in files
                 /\ files' = files \ {s} /\ diskBytes' = diskBytes - Size[s]
                 /\ victim' = [victim EXCEPT ![w] = s]
                 /\ Goes(w, "unindex") /\ NoFault
              \/ /\ IF s \in files THEN Fault("unlink") ELSE NoFault
                 /\ UNCHANGED <<files, diskBytes, victim, wpc>>
    BY <1>8 DEF EvictOne
  <2>2. s \in Shards /\ victims' \in [Writers -> SUBSET Shards]
    BY <1>0, <2>1
  <2>3. victim' \in [Writers -> Shards \cup {NoShard}] /\ files' \subseteq Shards
    BY <1>0, <2>1, <2>2
  <2>4. PICK p \in Steps : Goes(w, p)
    BY <1>0, <1>8, <2>1 DEF EvictOne, Goes, PendingInv, WritersOk
  <2> QED BY <1>0, <1>8, <2>2, <2>3, <2>4, WriterMoves DEF EvictOne, Steps
<1>9. CASE EvictEnds(w)
  <2>1. "finish" \in Steps /\ Goes(w, "finish")
    BY <1>0, <1>9 DEF EvictEnds
  <2>2. victims' \in [Writers -> SUBSET Shards]
    BY <1>0, <1>9 DEF EvictEnds
  <2> QED BY <1>0, <1>9, <2>1, <2>2, WriterMoves DEF EvictEnds, Steps
<1>10. CASE DropIndex(w)
  <2>1. "unlink" \in Steps /\ Goes(w, "unlink")
    BY <1>0, <1>10 DEF DropIndex
  <2>2. victim' \in [Writers -> Shards \cup {NoShard}]
    BY <1>0, <1>10 DEF DropIndex
  <2> QED BY <1>0, <1>10, <2>1, <2>2, WriterMoves DEF DropIndex, Steps
<1>11. CASE Finish(w)
  BY <1>11, PendingFinish
<1> QED BY <1>1, <1>2, <1>3, <1>4, <1>5, <1>6, <1>7, <1>8, <1>9, <1>10, <1>11 DEF Write

LEMMA PendingStep == PendingInv /\ [DiskNext]_diskVars => PendingInv'
<1> SUFFICES ASSUME PendingInv, [DiskNext]_diskVars PROVE PendingInv'
  OBVIOUS
<1>1. CASE \E s \in Shards : SaveShard(s)
  BY <1>1, PendingSave
<1>2. CASE Dedup
  <2>1. WritersOk'
    BY <1>2 DEF Dedup, writers, evicting, PendingInv, WritersOk
  <2> QED BY <1>2, <2>1, PendingKept DEF Dedup, writers, PendingInv
<1>3. CASE \E w \in Writers : Write(w) \/ WriteFails(w)
  BY <1>3, PendingWriter
<1>4. CASE Restart
  <2>1. WritersOk'
    BY <1>4 DEF Restart, PendingInv, WritersOk, WriterSteps
  <2>2. InFlightIsPending'
    BY <1>4 DEF Restart, InFlightIsPending
  <2> QED BY <2>1, <2>2 DEF PendingInv
<1>5. CASE UNCHANGED diskVars
  <2>1. WritersOk'
    BY <1>5 DEF diskVars, PendingInv, WritersOk
  <2> QED BY <1>5, <2>1, PendingKept DEF diskVars, PendingInv
<1> QED BY <1>1, <1>2, <1>3, <1>4, <1>5 DEF DiskNext

\* No block stays in flight when its shard was dropped, failed or written,
\* for any number of writers.
THEOREM DiskInFlightIsPending == DiskSpec => []InFlightIsPending
<1>1. PendingInv => InFlightIsPending
  BY DEF PendingInv
<1> QED BY PendingInit, PendingStep, <1>1, PTL DEF DiskSpec

-----------------------------------------------------------------------------
(* The types that WritersOk does not state.                                *)

IndexTypes ==
  /\ index \in [Hashes -> Shards \cup {NoShard}] /\ inFlight \subseteq Hashes
  /\ Len(wq) <= DiskQueue /\ stores \in Nat /\ diskFaults \in Nat
  /\ mishaps \subseteq DiskFaultKinds \cup {"dedup"}

LEMMA FaultTypes ==
  ASSUME IndexTypes, (\E kind : Fault(kind)) \/ NoFault
  PROVE  diskFaults' \in Nat /\ mishaps' \subseteq DiskFaultKinds \cup {"dedup"}
BY DEF IndexTypes, Fault, NoFault

LEMMA TypesWriter ==
  ASSUME WritersOk, IndexTypes, NEW w \in Writers, Write(w) \/ WriteFails(w)
  PROVE  IndexTypes'
<1> USE DEF Write
<1>1. diskFaults' \in Nat /\ mishaps' \subseteq DiskFaultKinds \cup {"dedup"}
  <2>1. (\E kind : Fault(kind)) \/ NoFault
    BY DEF TakeItem, WriteShard, WriteFails, Count, AddBytes, IndexBlocks, EvictStart,
           EvictOne, EvictEnds, DropIndex, Finish
  <2> QED BY <2>1, FaultTypes
<1>2. stores' = stores
  BY DEF TakeItem, WriteShard, WriteFails, Count, AddBytes, IndexBlocks, EvictStart,
         EvictOne, EvictEnds, DropIndex, Finish
<1>3. inFlight' \subseteq Hashes
  <2>1. inFlight' \subseteq inFlight
    BY DEF TakeItem, WriteShard, WriteFails, Count, AddBytes, IndexBlocks, EvictStart,
           EvictOne, EvictEnds, DropIndex, Finish
  <2> QED BY <2>1 DEF IndexTypes
<1>4. Len(wq') <= DiskQueue
  <2>1. CASE TakeItem(w)
    BY <2>1 DEF TakeItem, WritersOk, IndexTypes
  <2>2. CASE ~TakeItem(w)
    <3>1. wq' = wq
      BY <2>2 DEF WriteShard, WriteFails, Count, AddBytes, IndexBlocks, EvictStart,
                  EvictOne, EvictEnds, DropIndex, Finish
    <3> QED BY <3>1 DEF IndexTypes
  <2> QED BY <2>1, <2>2
<1>5. index' \in [Hashes -> Shards \cup {NoShard}]
  <2>1. CASE IndexBlocks(w)
    <3>1. item[w] \in Shards
      BY <2>1 DEF IndexBlocks, WritersOk
    <3> QED BY <2>1, <3>1 DEF IndexBlocks, IndexTypes
  <2>2. CASE DropIndex(w)
    BY <2>2 DEF DropIndex, IndexWithout, IndexTypes
  <2>3. CASE ~IndexBlocks(w) /\ ~DropIndex(w)
    <3>1. index' = index
      BY <2>3 DEF TakeItem, WriteShard, WriteFails, Count, AddBytes, EvictStart,
                  EvictOne, EvictEnds, Finish
    <3> QED BY <3>1 DEF IndexTypes
  <2> QED BY <2>1, <2>2, <2>3
<1> QED BY <1>1, <1>2, <1>3, <1>4, <1>5 DEF IndexTypes

LEMMA TypesStep == PendingInv /\ IndexTypes /\ [DiskNext]_diskVars => IndexTypes'
<1> SUFFICES ASSUME PendingInv, IndexTypes, [DiskNext]_diskVars PROVE IndexTypes'
  OBVIOUS
<1>1. ASSUME NEW s \in Shards, SaveShard(s) PROVE IndexTypes'
  <2>1. index' = index /\ stores' \in Nat /\ NoFault
    BY <1>1 DEF SaveShard, IndexTypes
  <2>2. inFlight' \subseteq Hashes
    <3>1. inFlight' \subseteq inFlight \cup BlocksOf[s] /\ BlocksOf[s] \subseteq Hashes
      BY <1>1 DEF SaveShard
    <3> QED BY <3>1 DEF IndexTypes
  <2>3. Len(wq') <= DiskQueue
    <3>1. CASE wq' = wq
      BY <3>1 DEF IndexTypes
    <3>2. CASE wq' = Append(wq, s) /\ QueueHasRoom
      BY <3>2 DEF QueueHasRoom, PendingInv, WritersOk
    <3> QED BY <1>1, <3>1, <3>2 DEF SaveShard
  <2> QED BY <2>1, <2>2, <2>3, FaultTypes DEF IndexTypes
<1>2. CASE Dedup
  BY <1>2 DEF Dedup, writers, PendingInv, WritersOk, IndexTypes
<1>3. CASE \E w \in Writers : Write(w) \/ WriteFails(w)
  BY <1>3, TypesWriter DEF PendingInv
<1>4. CASE Restart
  <2>1. diskFaults' \in Nat /\ mishaps' \subseteq DiskFaultKinds \cup {"dedup"}
    BY <1>4, FaultTypes DEF Restart
  <2>2. PICK read \in SUBSET files : index' \in [Hashes -> read \cup {NoShard}]
    BY <1>4 DEF Restart
  <2>3. index' \in [Hashes -> Shards \cup {NoShard}]
    BY <2>2 DEF PendingInv, WritersOk
  <2>4. inFlight' = {} /\ wq' = <<>> /\ stores' = stores
    BY <1>4 DEF Restart
  <2> QED BY <2>1, <2>3, <2>4 DEF IndexTypes
<1>5. CASE UNCHANGED diskVars
  BY <1>5 DEF diskVars, IndexTypes
<1> QED BY <1>1, <1>2, <1>3, <1>4, <1>5 DEF DiskNext

\* Files, index, queue and writers keep their types, and the write queue its
\* bound, under every fault.
THEOREM DiskTypeCorrect == DiskSpec => []DiskTypeOK
<1>1. DiskInit => IndexTypes
  BY DEF DiskInit, IndexTypes
<1>2. PendingInv /\ IndexTypes => DiskTypeOK
  BY DEF PendingInv, WritersOk, IndexTypes, DiskTypeOK
<1> QED BY PendingInit, PendingStep, TypesStep, <1>1, <1>2, PTL DEF DiskSpec

-----------------------------------------------------------------------------
(* One writer: its file is there until it has been indexed, and every     *)
(* entry leads to a file but for the one it has just unlinked.            *)

OneWriter == \A v, w \in Writers : v = w

IndexInv ==
  /\ index \in [Hashes -> Shards \cup {NoShard}]
  /\ \A w \in Writers : wpc[w] \in {"count", "add", "index"} => item[w] \in files
  /\ IndexLeadsToFile

LEMMA IndexInit == DiskInit => IndexInv
BY DEF DiskInit, IndexInv, IndexLeadsToFile

\* Of a step of the only writer that leaves files and index alone.
LEMMA IndexKept ==
  ASSUME OneWriter, PendingInv, IndexInv, NEW w \in Writers, NEW p \in WriterSteps,
         Goes(w, p), wpc[w] # "unindex",
         p \in {"add", "index"} => wpc[w] \in {"count", "add"},
         p \notin {"count"},
         UNCHANGED <<files, index, item>>, mishaps \subseteq mishaps'
  PROVE  IndexInv'
<1>1. \A v \in Writers : v = w
  BY DEF OneWriter
<1>2. wpc'[w] = p
  BY DEF Goes, PendingInv, WritersOk
<1>3. \A v \in Writers : wpc'[v] \in {"count", "add", "index"} => item'[v] \in files'
  BY <1>1, <1>2 DEF IndexInv
<1>4. IndexLeadsToFile'
  <2> SUFFICES ASSUME "dedup" \notin mishaps', NEW h \in Hashes, index[h] # NoShard
               PROVE  index[h] \in files
    BY DEF IndexLeadsToFile
  <2> QED BY <1>1 DEF IndexInv, IndexLeadsToFile
<1> QED BY <1>3, <1>4 DEF IndexInv

LEMMA IndexWriter ==
  ASSUME OneWriter, PendingInv, IndexInv, NEW w \in Writers,
         Write(w) \/ WriteFails(w)
  PROVE  IndexInv'
<1>0. /\ \A v \in Writers : v = w
      /\ wpc \in [Writers -> WriterSteps]
      /\ wpc[w] # "idle" => item[w] \in Shards
      /\ index \in [Hashes -> Shards \cup {NoShard}]
      /\ wpc[w] \in {"count", "add", "index"} => item[w] \in files
      /\ item \in [Writers -> Shards \cup {NoShard}]
      /\ victim \in [Writers -> Shards \cup {NoShard}]
  BY DEF OneWriter, PendingInv, WritersOk, IndexInv
<1>00. ASSUME "dedup" \notin mishaps, NEW h \in Hashes, index[h] # NoShard
       PROVE  index[h] \in files \/ (wpc[w] = "unindex" /\ index[h] = victim[w])
  BY <1>0, <1>00 DEF IndexInv, IndexLeadsToFile
<1>1. CASE TakeItem(w)
  <2>1. wpc'[w] = "write" /\ mishaps' = mishaps /\ index' = index /\ files' = files
    BY <1>0, <1>1 DEF TakeItem, Goes, NoFault
  <2>2. IndexLeadsToFile'
    BY <1>0, <1>00, <1>1, <2>1 DEF TakeItem, IndexLeadsToFile
  <2> QED BY <1>0, <2>1, <2>2 DEF IndexInv
<1>2. CASE WriteShard(w)
  <2>1. wpc'[w] = "count" /\ mishaps' = mishaps /\ index' = index
        /\ files' = files \cup {item[w]} /\ item' = item
    BY <1>0, <1>2 DEF WriteShard, Goes, NoFault
  <2>2. IndexLeadsToFile'
    BY <1>0, <1>00, <1>2, <2>1 DEF WriteShard, IndexLeadsToFile
  <2> QED BY <1>0, <2>1, <2>2 DEF IndexInv
<1>3. CASE WriteFails(w)
  <2>1. mishaps \subseteq mishaps' /\ wpc[w] = "write" /\ Goes(w, "finish")
        /\ UNCHANGED <<files, index, item>>
    BY <1>3 DEF WriteFails, Fault
  <2> QED BY <2>1, IndexKept DEF WriterSteps
<1>4. CASE Count(w)
  <2>1. mishaps' = mishaps /\ wpc[w] = "count" /\ UNCHANGED <<files, index, item>>
    BY <1>4 DEF Count, NoFault
  <2>2. Goes(w, "add")
    BY <1>0, <1>4 DEF Count
  <2> QED BY <2>1, <2>2, IndexKept DEF WriterSteps
<1>5. CASE AddBytes(w)
  <2>1. mishaps' = mishaps /\ wpc[w] = "add" /\ UNCHANGED <<files, index, item>>
        /\ Goes(w, "index")
    BY <1>5 DEF AddBytes, NoFault
  <2> QED BY <2>1, IndexKept DEF WriterSteps
<1>6. CASE IndexBlocks(w)
  <2>1. wpc[w] = "index" /\ wpc'[w] = "evict" /\ mishaps' = mishaps
        /\ UNCHANGED <<files, item>>
    BY <1>0, <1>6 DEF IndexBlocks, Goes, NoFault
  <2>2. index' = [h \in Hashes |-> IF h \in BlocksOf[item[w]] THEN item[w] ELSE index[h]]
    BY <1>6 DEF IndexBlocks
  <2>3. index' \in [Hashes -> Shards \cup {NoShard}]
    BY <1>0, <2>1, <2>2
  <2>4. IndexLeadsToFile'
    <3> SUFFICES ASSUME "dedup" \notin mishaps, NEW h \in Hashes, index'[h] # NoShard
                 PROVE  index'[h] \in files
      BY <2>1 DEF IndexLeadsToFile
    <3>1. CASE h \in BlocksOf[item[w]]
      BY <1>0, <2>1, <2>2, <3>1
    <3>2. CASE h \notin BlocksOf[item[w]]
      BY <1>00, <2>1, <2>2, <3>2
    <3> QED BY <3>1, <3>2
  <2> QED BY <1>0, <2>1, <2>3, <2>4 DEF IndexInv
<1>7. CASE EvictStart(w)
  <2>1. mishaps' = mishaps /\ wpc[w] = "evict" /\ UNCHANGED <<files, index, item>>
    BY <1>7 DEF EvictStart, NoFault
  <2>2. PICK p \in {"finish", "unlink"} : Goes(w, p)
    BY <1>7 DEF EvictStart
  <2> QED BY <2>1, <2>2, IndexKept DEF WriterSteps
<1>8. CASE EvictOne(w)
  <2>1. wpc[w] = "unlink" /\ UNCHANGED <<index, item>> /\ mishaps \subseteq mishaps'
    BY <1>8 DEF EvictOne, Fault, NoFault
  <2>2. PICK s \in victims[w] :
           \/ /\ files' = files \ {s}
              /\ victim' = [victim EXCEPT ![w] = s] /\ Goes(w, "unindex")
           \/ UNCHANGED <<files, wpc>>
    BY <1>8 DEF EvictOne
  <2>3. CASE files' = files \ {s} /\ victim' = [victim EXCEPT ![w] = s] /\ Goes(w, "unindex")
    <3>1. wpc'[w] = "unindex" /\ victim'[w] = s
      BY <1>0, <2>3 DEF Goes
    <3>2. IndexLeadsToFile'
      <4> SUFFICES ASSUME "dedup" \notin mishaps, NEW h \in Hashes, index[h] # NoShard
                   PROVE  index[h] \in files' \/ index[h] = s
        BY <1>0, <2>1, <3>1 DEF IndexLeadsToFile
      <4> QED BY <1>00, <2>1, <2>3
    <3> QED BY <1>0, <2>1, <3>1, <3>2 DEF IndexInv
  <2>4. CASE UNCHANGED <<files, wpc>>
    <3>1. wpc' = [wpc EXCEPT ![w] = "unlink"]
      BY <1>0, <2>1, <2>4
    <3> QED BY <2>1, <2>4, <3>1, IndexKept DEF WriterSteps, Goes
  <2> QED BY <2>2, <2>3, <2>4
<1>9. CASE EvictEnds(w)
  <2>1. mishaps' = mishaps /\ wpc[w] = "unlink" /\ UNCHANGED <<files, index, item>>
        /\ Goes(w, "finish")
    BY <1>9 DEF EvictEnds, NoFault
  <2> QED BY <2>1, IndexKept DEF WriterSteps
<1>10. CASE DropIndex(w)
  <2>1. wpc'[w] = "unlink" /\ mishaps' = mishaps /\ UNCHANGED <<files, item>>
    BY <1>0, <1>10 DEF DropIndex, Goes, NoFault
  <2>2. index' = [h \in Hashes |-> IF index[h] = victim[w] THEN NoShard ELSE index[h]]
    BY <1>10 DEF DropIndex, IndexWithout
  <2>3. index' \in [Hashes -> Shards \cup {NoShard}]
    BY <1>0, <2>2
  <2>4. IndexLeadsToFile'
    <3> SUFFICES ASSUME "dedup" \notin mishaps, NEW h \in Hashes, index'[h] # NoShard
                 PROVE  index'[h] \in files
      BY <2>1 DEF IndexLeadsToFile
    <3> QED BY <1>00, <2>2
  <2> QED BY <1>0, <2>1, <2>3, <2>4 DEF IndexInv
<1>11. CASE Finish(w)
  <2>1. wpc[w] = "finish" /\ wpc'[w] = "idle" /\ mishaps' = mishaps /\ UNCHANGED <<files, index>>
    BY <1>0, <1>11 DEF Finish, Goes, NoFault
  <2>2. IndexLeadsToFile'
    BY <1>0, <1>00, <2>1 DEF IndexLeadsToFile
  <2> QED BY <1>0, <2>1, <2>2 DEF IndexInv
<1> QED BY <1>1, <1>2, <1>3, <1>4, <1>5, <1>6, <1>7, <1>8, <1>9, <1>10, <1>11 DEF Write

LEMMA IndexStep ==
  OneWriter /\ PendingInv /\ IndexInv /\ [DiskNext]_diskVars => IndexInv'
<1> SUFFICES ASSUME OneWriter, PendingInv, IndexInv, [DiskNext]_diskVars PROVE IndexInv'
  OBVIOUS
<1>1. CASE \E s \in Shards : SaveShard(s)
  BY <1>1 DEF SaveShard, IndexInv, IndexLeadsToFile, writers, evicting, NoFault
<1>2. CASE Dedup
  <2>1. index' = [h \in Hashes |->
                   IF h \in BlocksOf[dedup] /\ index[h] = NoShard THEN dedup ELSE index[h]]
        /\ dedup \in Shards \cup {NoShard}
        /\ UNCHANGED <<files, wpc, item, victim>>
    BY <1>2 DEF Dedup, writers, evicting, PendingInv, WritersOk
  <2>2. index' \in [Hashes -> Shards \cup {NoShard}]
    BY <2>1 DEF IndexInv
  <2>3. CASE dedup \in files
    <3>1. mishaps' = mishaps
      BY <1>2, <2>3 DEF Dedup
    <3>2. IndexLeadsToFile'
      <4> SUFFICES ASSUME "dedup" \notin mishaps, NEW h \in Hashes, index'[h] # NoShard
                   PROVE  \/ index'[h] \in files
                          \/ \E w \in Writers : wpc[w] = "unindex" /\ index'[h] = victim[w]
        BY <2>1, <3>1 DEF IndexLeadsToFile
      <4>1. index'[h] = dedup \/ (index'[h] = index[h])
        BY <2>1
      <4> QED BY <2>3, <4>1 DEF IndexInv, IndexLeadsToFile
    <3> QED BY <2>1, <2>2, <3>2 DEF IndexInv
  <2>4. CASE dedup \notin files
    <3>1. "dedup" \in mishaps'
      BY <1>2, <2>4 DEF Dedup
    <3> QED BY <2>1, <2>2, <3>1 DEF IndexInv, IndexLeadsToFile
  <2> QED BY <2>3, <2>4
<1>3. CASE \E w \in Writers : Write(w) \/ WriteFails(w)
  BY <1>3, IndexWriter
<1>4. CASE Restart
  <2>1. index' \in [Hashes -> files' \cup {NoShard}] /\ files' \subseteq Shards
    BY <1>4 DEF Restart, PendingInv, WritersOk
  <2>2. index' \in [Hashes -> Shards \cup {NoShard}]
    BY <2>1
  <2>3. IndexLeadsToFile'
    BY <2>1 DEF IndexLeadsToFile
  <2>4. \A w \in Writers : wpc'[w] = "idle"
    BY <1>4 DEF Restart
  <2> QED BY <2>2, <2>3, <2>4 DEF IndexInv
<1>5. CASE UNCHANGED diskVars
  BY <1>5 DEF diskVars, IndexInv, IndexLeadsToFile
<1> QED BY <1>1, <1>2, <1>3, <1>4, <1>5 DEF DiskNext

\* With one writer the index names only files that are there, up to the one
\* that is being evicted, until a store indexes a file after its eviction.
THEOREM DiskIndexLeadsToFile ==
  ASSUME OneWriter
  PROVE  DiskSpec => []IndexLeadsToFile
<1>1. DiskInit => PendingInv /\ IndexInv
  BY PendingInit, IndexInit
<1>2. PendingInv /\ IndexInv /\ [DiskNext]_diskVars => PendingInv' /\ IndexInv'
  BY PendingStep, IndexStep
<1>3. IndexInv => IndexLeadsToFile
  BY DEF IndexInv
<1> QED BY <1>1, <1>2, <1>3, PTL DEF DiskSpec

-----------------------------------------------------------------------------
(* Sums over sets of files.  MapThenSumSet sums by recursion over subsets:   *)
(* that the recursion has a solution, and what it is, follows from the least *)
(* set for which it would not hold.                                          *)

First(S) == CHOOSE x \in S : TRUE

\* f sums the sizes of the subsets of S, one file after the other.
IsSum(f, S) ==
  f = [s \in SUBSET S |-> IF s = {} THEN 0
                          ELSE Size[First(s)] + f[s \ {First(s)}]]

LEMMA BytesUnfold == \A S : BytesOf(S) = (CHOOSE f : IsSum(f, S))[S]
BY DEF BytesOf, MapThenSumSet, MapThenFoldSet, IsSum, First

\* A set of sets of shards has a least member.
LEMMA LeastSet ==
  ASSUME NEW T, T \subseteq SUBSET Shards, T # {}
  PROVE  \E S \in T : \A U \in SUBSET S : U # S => U \notin T
<1>1. IsWellFoundedOn(StrictSubsetOrdering(Shards), SUBSET Shards)
  <2>1. IsFiniteSet(Shards)
    BY ShardsAssumption
  <2>2. FiniteSubsetsOf(Shards) = SUBSET Shards
    BY <2>1, FS_FiniteSubsetsOfFinite
  <2>3. IsWellFoundedOn(StrictSubsetOrdering(Shards), FiniteSubsetsOf(Shards))
    BY FS_StrictSubsetOrderingWellFounded
  <2> QED BY <2>2, <2>3
<1>2. PICK S \in T : \A U \in T : ~ (<<U, S>> \in StrictSubsetOrdering(Shards))
  BY <1>1, WFMin
<1> QED BY <1>2 DEF StrictSubsetOrdering

\* There is at most one such function.
LEMMA SumIsUnique ==
  ASSUME NEW S \in SUBSET Shards, NEW f, NEW g, IsSum(f, S), IsSum(g, S)
  PROVE  \A s \in SUBSET S : f[s] = g[s]
<1> SUFFICES ASSUME {s \in SUBSET S : f[s] # g[s]} # {} PROVE FALSE
  OBVIOUS
<1>1. PICK s \in SUBSET S : /\ f[s] # g[s]
                            /\ \A u \in SUBSET s : u # s => f[u] = g[u]
  <2> DEFINE T == {s \in SUBSET S : f[s] # g[s]}
  <2>1. T \subseteq SUBSET Shards /\ T # {}
    OBVIOUS
  <2>2. PICK s \in T : \A u \in SUBSET s : u # s => u \notin T
    BY <2>1, LeastSet
  <2> QED BY <2>2
<1>2. \A u \in SUBSET S : /\ f[u] = IF u = {} THEN 0
                                    ELSE Size[First(u)] + f[u \ {First(u)}]
                          /\ g[u] = IF u = {} THEN 0
                                    ELSE Size[First(u)] + g[u \ {First(u)}]
  BY DEF IsSum
<1>3. s # {}
  BY <1>1, <1>2
<1>4. First(s) \in s
  BY <1>3 DEF First
<1>5. f[s \ {First(s)}] = g[s \ {First(s)}]
  BY <1>1, <1>4
<1> QED BY <1>1, <1>2, <1>3, <1>5

\* The bytes of a set are those of one file and of the others.
Recurs(S) == BytesOf(S) = IF S = {} THEN 0
                          ELSE Size[First(S)] + BytesOf(S \ {First(S)})

LEMMA BytesRecur == \A S \in SUBSET Shards : Recurs(S)
<1> SUFFICES ASSUME {S \in SUBSET Shards : ~Recurs(S)} # {} PROVE FALSE
  OBVIOUS
<1>1. PICK S \in SUBSET Shards :
        ~Recurs(S) /\ \A u \in SUBSET S : u # S => Recurs(u)
  <2> DEFINE T == {S \in SUBSET Shards : ~Recurs(S)}
  <2>1. T \subseteq SUBSET Shards /\ T # {}
    OBVIOUS
  <2>2. PICK S \in T : \A u \in SUBSET S : u # S => u \notin T
    BY <2>1, LeastSet
  <2> QED BY <2>2
<1>2. PICK total : total = IF S = {} THEN 0
                           ELSE Size[First(S)] + BytesOf(S \ {First(S)})
  OBVIOUS
<1> DEFINE g == [s \in SUBSET S |-> IF s = S THEN total ELSE BytesOf(s)]
<1>3. IsSum(g, S)
  <2>1. ASSUME NEW s \in SUBSET S
        PROVE  g[s] = IF s = {} THEN 0
                      ELSE Size[First(s)] + g[s \ {First(s)}]
    <3>1. s # {} => First(s) \in s
      BY DEF First
    <3>2. s # {} => s \ {First(s)} # S
      BY <3>1
    <3>3. s # {} => g[s \ {First(s)}] = BytesOf(s \ {First(s)})
      BY <3>2
    <3>4. CASE s = S
      BY <1>2, <3>3, <3>4
    <3>5. CASE s # S
      <4>1. Recurs(s) /\ g[s] = BytesOf(s)
        BY <1>1, <3>5
      <4> QED BY <3>3, <4>1 DEF Recurs
    <3> QED BY <3>4, <3>5
  <2>2. g = [s \in SUBSET S |-> g[s]]
    OBVIOUS
  <2> HIDE DEF g
  <2>3. g = [s \in SUBSET S |-> IF s = {} THEN 0
                                ELSE Size[First(s)] + g[s \ {First(s)}]]
    BY <2>1, <2>2
  <2> QED BY <2>3 DEF IsSum
<1>4. PICK f : f = CHOOSE h : IsSum(h, S)
  OBVIOUS
<1>5. IsSum(f, S)
  BY <1>3, <1>4
<1>6. f[S] = g[S]
  <2> HIDE DEF g
  <2> QED BY <1>3, <1>5, SumIsUnique
<1>7. g[S] = total
  OBVIOUS
<1>8. BytesOf(S) = total
  BY <1>4, <1>6, <1>7, BytesUnfold
<1> QED BY <1>1, <1>2, <1>8 DEF Recurs

LEMMA BytesType == \A S \in SUBSET Shards : BytesOf(S) \in Nat
<1> SUFFICES ASSUME {S \in SUBSET Shards : BytesOf(S) \notin Nat} # {}
             PROVE  FALSE
  OBVIOUS
<1>1. PICK S \in SUBSET Shards :
        BytesOf(S) \notin Nat /\ \A u \in SUBSET S : u # S => BytesOf(u) \in Nat
  <2> DEFINE T == {S \in SUBSET Shards : BytesOf(S) \notin Nat}
  <2>1. T \subseteq SUBSET Shards /\ T # {}
    OBVIOUS
  <2>2. PICK S \in T : \A u \in SUBSET S : u # S => u \notin T
    BY <2>1, LeastSet
  <2> QED BY <2>2
<1>2. S # {} /\ BytesOf(S) = Size[First(S)] + BytesOf(S \ {First(S)})
  BY <1>1, BytesRecur DEF Recurs
<1>3. First(S) \in S
  BY <1>2 DEF First
<1>4. BytesOf(S \ {First(S)}) \in Nat /\ Size[First(S)] \in Nat
  BY <1>1, <1>3
<1> QED BY <1>1, <1>2, <1>4

\* Whichever file of a set is taken, its size and the bytes of the others add
\* up to the bytes of the set (BytesOf models the sum over the directory in
\* _scan_existing, apc/disk_store/store.py).
LEMMA BytesTake ==
  \A S \in SUBSET Shards : \A x \in S : BytesOf(S) = Size[x] + BytesOf(S \ {x})
<1> DEFINE Takes(S) == \A x \in S : BytesOf(S) = Size[x] + BytesOf(S \ {x})
<1> SUFFICES ASSUME {S \in SUBSET Shards : ~Takes(S)} # {} PROVE FALSE
  OBVIOUS
<1>1. PICK S \in SUBSET Shards :
        ~Takes(S) /\ \A u \in SUBSET S : u # S => Takes(u)
  <2> DEFINE T == {S \in SUBSET Shards : ~Takes(S)}
  <2> HIDE DEF Takes
  <2>1. T \subseteq SUBSET Shards /\ T # {}
    OBVIOUS
  <2>2. PICK S \in T : \A u \in SUBSET S : u # S => u \notin T
    BY <2>1, LeastSet
  <2> QED BY <2>2
<1>2. PICK x \in S : BytesOf(S) # Size[x] + BytesOf(S \ {x})
  BY <1>1
<1>3. PICK c \in S : BytesOf(S) = Size[c] + BytesOf(S \ {c})
  BY BytesRecur DEF Recurs, First
<1>4. c # x
  BY <1>2, <1>3
<1>5. BytesOf(S \ {c}) = Size[x] + BytesOf((S \ {c}) \ {x})
  BY <1>1, <1>4
<1>6. BytesOf(S \ {x}) = Size[c] + BytesOf((S \ {x}) \ {c})
  BY <1>1, <1>4
<1>7. PICK R \in SUBSET Shards : R = (S \ {x}) \ {c} /\ R = (S \ {c}) \ {x}
  OBVIOUS
<1>8. BytesOf(R) \in Nat /\ Size[x] \in Nat /\ Size[c] \in Nat
  BY BytesType
<1>9. /\ BytesOf(S \ {c}) = Size[x] + BytesOf(R)
      /\ BytesOf(S \ {x}) = Size[c] + BytesOf(R)
  BY <1>5, <1>6, <1>7
<1> HIDE DEF Takes
<1> QED BY <1>2, <1>3, <1>8, <1>9

LEMMA BytesAdd ==
  ASSUME NEW S \in SUBSET Shards, NEW x \in Shards
  PROVE  /\ BytesOf(S \cup {x}) \in BytesOf(S) .. BytesOf(S) + Size[x]
         /\ x \in S => BytesOf(S \ {x}) = BytesOf(S) - Size[x]
<1>1. BytesOf(S) \in Nat /\ Size[x] \in Nat /\ BytesOf(S \ {x}) \in Nat
  BY BytesType
<1>2. CASE x \in S
  <2>1. S \cup {x} = S
    BY <1>2
  <2>2. BytesOf(S) = Size[x] + BytesOf(S \ {x})
    BY <1>2, BytesTake
  <2>3. BytesOf(S \cup {x}) = BytesOf(S)
    BY <2>1
  <2> QED BY <1>1, <2>2, <2>3
<1>3. CASE x \notin S
  <2>1. (S \cup {x}) \ {x} = S /\ x \in S \cup {x}
    BY <1>3
  <2>2. BytesOf(S \cup {x}) = Size[x] + BytesOf(S)
    BY <2>1, BytesTake
  <2> QED BY <1>1, <1>3, <2>2
<1> QED BY <1>2, <1>3

LEMMA BytesOfFew ==
  BytesOf({}) = 0 /\ \A x \in Shards : BytesOf({x}) = Size[x]
<1>1. BytesOf({}) = 0
  BY BytesRecur DEF Recurs
<1>2. ASSUME NEW x \in Shards PROVE BytesOf({x}) = Size[x]
  <2>1. {x} \ {x} = {} /\ {x} \in SUBSET Shards /\ x \in {x}
    OBVIOUS
  <2>2. BytesOf({x}) = Size[x] + BytesOf({})
    BY <2>1, BytesTake
  <2> QED BY <1>1, <2>2
<1> QED BY <1>1, <1>2

LEMMA BytesMonotone ==
  ASSUME NEW R \in SUBSET Shards
  PROVE  \A S \in SUBSET Shards : R \subseteq S => BytesOf(R) <= BytesOf(S)
<1> DEFINE Over(S) == R \subseteq S /\ ~(BytesOf(R) <= BytesOf(S))
<1> SUFFICES ASSUME {S \in SUBSET Shards : Over(S)} # {} PROVE FALSE
  OBVIOUS
<1>1. PICK S \in SUBSET Shards :
        Over(S) /\ \A u \in SUBSET S : u # S => ~Over(u)
  <2> DEFINE T == {S \in SUBSET Shards : Over(S)}
  <2> HIDE DEF Over
  <2>1. T \subseteq SUBSET Shards /\ T # {}
    OBVIOUS
  <2>2. PICK S \in T : \A u \in SUBSET S : u # S => u \notin T
    BY <2>1, LeastSet
  <2> QED BY <2>2
<1>2. BytesOf(R) \in Nat /\ BytesOf(S) \in Nat
  BY BytesType
<1>3. PICK x \in S : x \notin R
  <2>1. R # S /\ R \subseteq S
    BY <1>1, <1>2
  <2> QED BY <2>1
<1>4. BytesOf(R) <= BytesOf(S \ {x})
  BY <1>1, <1>3
<1>5. BytesOf(S) = Size[x] + BytesOf(S \ {x})
      /\ Size[x] \in Nat /\ BytesOf(S \ {x}) \in Nat
  BY BytesTake, BytesType
<1> QED BY <1>1, <1>2, <1>4, <1>5

-----------------------------------------------------------------------------
(* One writer: _disk_bytes covers the files.                               *)

\* The file that is there and not yet counted.
Adding(w) == IF wpc[w] \in {"count", "add"} THEN Size[item[w]] ELSE 0

IsAddingSum(f) ==
  f = [s \in SUBSET Writers |-> IF s = {} THEN 0
                                ELSE Adding(First(s)) + f[s \ {First(s)}]]

LEMMA CountUnfold ==
  CountCoversFiles <=>
    diskBytes + (CHOOSE f : IsAddingSum(f))[Writers] >= BytesOf(files)
BY DEF CountCoversFiles, MapThenSumSet, MapThenFoldSet, IsAddingSum, Adding, First

LEMMA CountOfOne ==
  ASSUME OneWriter, NEW w \in Writers, Adding(w) \in Nat
  PROVE  CountCoversFiles <=> diskBytes + Adding(w) >= BytesOf(files)
<1>1. \A s \in SUBSET Writers : s = {} \/ s = {w}
  BY DEF OneWriter
<1>2. Writers = {w}
  BY <1>1
<1>3. First({w}) = w /\ {w} \ {w} = {}
  BY DEF First
<1> DEFINE g == [s \in SUBSET Writers |-> IF s = {} THEN 0 ELSE Adding(w)]
<1>4. IsAddingSum(g)
  <2>1. ASSUME NEW s \in SUBSET Writers
        PROVE  g[s] = IF s = {} THEN 0
                      ELSE Adding(First(s)) + g[s \ {First(s)}]
    <3>1. g[{}] = 0 /\ {} \in SUBSET Writers
      OBVIOUS
    <3>2. CASE s = {}
      BY <3>1, <3>2
    <3>3. CASE s = {w}
      <4>1. g[s] = Adding(w)
        BY <3>3
      <4>2. First(s) = w /\ s \ {First(s)} = {} /\ s # {}
        BY <1>3, <3>3
      <4>3. g[s \ {First(s)}] = 0
        BY <3>1, <4>2
      <4>4. Adding(First(s)) = Adding(w)
        BY <4>2
      <4> HIDE DEF g
      <4> QED BY <4>1, <4>2, <4>3, <4>4
    <3> QED BY <1>1, <3>2, <3>3
  <2>2. g = [s \in SUBSET Writers |-> g[s]]
    OBVIOUS
  <2> HIDE DEF g
  <2>3. g = [s \in SUBSET Writers |->
               IF s = {} THEN 0 ELSE Adding(First(s)) + g[s \ {First(s)}]]
    BY <2>1, <2>2
  <2> QED BY <2>3 DEF IsAddingSum
<1>5. PICK f : f = CHOOSE h : IsAddingSum(h)
  OBVIOUS
<1>6. IsAddingSum(f)
  BY <1>4, <1>5
<1>7. f[Writers] = Adding(w)
  <2>1. \A s \in SUBSET Writers :
          f[s] = IF s = {} THEN 0 ELSE Adding(First(s)) + f[s \ {First(s)}]
    BY <1>6 DEF IsAddingSum
  <2>2. f[{}] = 0
    BY <2>1
  <2>3. f[{w}] = Adding(w) + f[{}]
    BY <1>2, <1>3, <2>1
  <2> QED BY <1>2, <2>2, <2>3
<1> QED BY <1>5, <1>7, CountUnfold

CoverInv ==
  /\ diskBytes \in Int /\ seen \in [Writers -> Int]
  /\ \A w \in Writers : /\ diskBytes + Adding(w) >= BytesOf(files)
                        /\ wpc[w] = "add" => seen[w] = diskBytes

LEMMA CoverInit == DiskInit => CoverInv
BY BytesOfFew DEF DiskInit, CoverInv, Adding

\* A step of the only writer, in the terms of its own count.
LEMMA CoverKept ==
  ASSUME OneWriter, NEW w \in Writers, diskBytes' \in Int,
         seen' \in [Writers -> Int],
         diskBytes' + Adding(w)' >= BytesOf(files)',
         wpc'[w] = "add" => seen'[w] = diskBytes'
  PROVE  CoverInv'
<1>1. \A v \in Writers : v = w
  BY DEF OneWriter
<1> QED BY <1>1 DEF CoverInv

LEMMA CoverWriter ==
  ASSUME OneWriter, PendingInv, IndexInv, CoverInv, NEW w \in Writers,
         Write(w) \/ WriteFails(w)
  PROVE  CoverInv'
<1>1. /\ files \in SUBSET Shards /\ wpc \in [Writers -> WriterSteps]
      /\ item \in [Writers -> Shards \cup {NoShard}]
      /\ wpc[w] # "idle" => item[w] \in Shards /\ Size[item[w]] \in Nat
      /\ victims[w] \subseteq Shards
  BY DEF PendingInv, WritersOk
<1>2. /\ diskBytes \in Int /\ seen \in [Writers -> Int]
      /\ diskBytes + Adding(w) >= BytesOf(files)
      /\ wpc[w] = "add" => seen[w] = diskBytes
  BY DEF CoverInv
<1>3. /\ BytesOf(files) \in Nat
      /\ wpc[w] \notin {"count", "add"} => diskBytes >= BytesOf(files)
  BY <1>1, <1>2, BytesType DEF Adding
<1>4. ASSUME UNCHANGED <<files, seen, diskBytes>>, wpc[w] \notin {"count", "add"},
             NEW p \in WriterSteps \ {"count", "add"}, Goes(w, p)
      PROVE  CoverInv'
  <2>1. wpc'[w] = p
    BY <1>1, <1>4 DEF Goes
  <2>2. Adding(w)' = 0
    BY <2>1 DEF Adding
  <2> QED BY <1>2, <1>3, <1>4, <2>1, <2>2, CoverKept
<1>5. CASE TakeItem(w)
  BY <1>4, <1>5 DEF TakeItem, WriterSteps
<1>6. CASE WriteFails(w)
  BY <1>4, <1>6 DEF WriteFails, WriterSteps
<1>7. CASE IndexBlocks(w)
  BY <1>4, <1>7 DEF IndexBlocks, WriterSteps
<1>8. CASE EvictStart(w)
  BY <1>4, <1>8 DEF EvictStart, WriterSteps
<1>9. CASE EvictEnds(w)
  BY <1>4, <1>9 DEF EvictEnds, WriterSteps
<1>10. CASE DropIndex(w)
  BY <1>4, <1>10 DEF DropIndex, WriterSteps
<1>11. CASE Finish(w)
  BY <1>4, <1>11 DEF Finish, WriterSteps, evicting
<1>12. CASE WriteShard(w)
  <2>1. /\ wpc[w] = "write" /\ wpc' = [wpc EXCEPT ![w] = "count"]
        /\ files' = files \cup {item[w]} /\ UNCHANGED <<item, seen, diskBytes>>
    BY <1>12 DEF WriteShard, Goes
  <2>2. wpc'[w] = "count" /\ Adding(w)' = Size[item[w]]
    BY <1>1, <2>1 DEF Adding
  <2>3. BytesOf(files)' <= BytesOf(files) + Size[item[w]]
    <3>1. item[w] \in Shards /\ Size[item[w]] \in Nat /\ BytesOf(files) \in Nat
      BY <1>1, <1>3, <2>1
    <3>2. BytesOf(files \cup {item[w]})
             \in BytesOf(files) .. BytesOf(files) + Size[item[w]]
      BY <1>1, <3>1, BytesAdd
    <3> QED BY <2>1, <3>1, <3>2
  <2>4. BytesOf(files)' \in Nat
    BY <1>1, <2>1, BytesType
  <2>5. diskBytes' + Adding(w)' >= BytesOf(files)'
    BY <1>1, <1>2, <1>3, <2>1, <2>2, <2>3, <2>4
  <2> QED BY <1>2, <2>1, <2>2, <2>5, CoverKept
<1>13. CASE Count(w)
  <2>1. item[w] \in files /\ wpc[w] = "count"
    BY <1>13 DEF Count, IndexInv
  <2>2. /\ wpc' = [wpc EXCEPT ![w] = "add"] /\ seen' = [seen EXCEPT ![w] = diskBytes]
        /\ UNCHANGED <<files, item, diskBytes>>
    BY <1>13, <2>1 DEF Count, Goes
  <2>3. wpc'[w] = "add" /\ seen'[w] = diskBytes /\ seen' \in [Writers -> Int]
    BY <1>1, <1>2, <2>2
  <2>4. Adding(w)' = Adding(w)
    BY <2>1, <2>2, <2>3 DEF Adding
  <2> QED BY <1>2, <2>2, <2>3, <2>4, CoverKept
<1>14. CASE AddBytes(w)
  <2>1. /\ wpc[w] = "add" /\ wpc' = [wpc EXCEPT ![w] = "index"]
        /\ diskBytes' = seen[w] + Size[item[w]] /\ UNCHANGED <<files, item, seen>>
    BY <1>14 DEF AddBytes, Added, Goes
  <2>2. wpc'[w] = "index" /\ Adding(w)' = 0 /\ Adding(w) = Size[item[w]]
    BY <1>1, <2>1 DEF Adding
  <2>3. diskBytes' + Adding(w)' >= BytesOf(files)' /\ diskBytes' \in Int
    BY <1>1, <1>2, <1>3, <2>1, <2>2
  <2> QED BY <1>2, <2>1, <2>2, <2>3, CoverKept
<1>15. CASE EvictOne(w)
  <2>1. /\ wpc[w] = "unlink" /\ UNCHANGED <<item, seen>>
        /\ \/ /\ \E s \in victims[w] : /\ s \in files /\ files' = files \ {s}
                                       /\ diskBytes' = diskBytes - Size[s]
              /\ Goes(w, "unindex")
           \/ UNCHANGED <<files, diskBytes, wpc>>
    BY <1>15 DEF EvictOne
  <2>2. CASE UNCHANGED <<files, diskBytes, wpc>>
    BY <1>2, <2>1, <2>2, CoverKept DEF Adding
  <2>3. CASE Goes(w, "unindex")
    <3>1. \/ UNCHANGED <<files, diskBytes, wpc>>
          \/ \E s \in files : files' = files \ {s} /\ diskBytes' = diskBytes - Size[s]
      BY <2>1
    <3>2. PICK s \in files : files' = files \ {s} /\ diskBytes' = diskBytes - Size[s]
      BY <1>1, <2>1, <2>3, <3>1 DEF Goes, WriterSteps
    <3>3. wpc'[w] = "unindex" /\ Adding(w)' = 0
      BY <1>1, <2>3 DEF Goes, Adding
    <3>4. BytesOf(files)' = BytesOf(files) - Size[s] /\ Size[s] \in Nat
      BY <1>1, <3>2, BytesAdd
    <3>5. diskBytes' + Adding(w)' >= BytesOf(files)' /\ diskBytes' \in Int
      BY <1>2, <1>3, <2>1, <3>2, <3>3, <3>4
    <3> QED BY <1>2, <2>1, <3>3, <3>5, CoverKept
  <2> QED BY <2>1, <2>2, <2>3
<1> QED BY <1>5, <1>6, <1>7, <1>8, <1>9, <1>10, <1>11, <1>12, <1>13, <1>14, <1>15
        DEF Write

LEMMA CoverStep ==
  OneWriter /\ PendingInv /\ IndexInv /\ CoverInv /\ [DiskNext]_diskVars => CoverInv'
<1> SUFFICES ASSUME OneWriter, PendingInv, IndexInv, CoverInv, [DiskNext]_diskVars
             PROVE  CoverInv'
  OBVIOUS
<1>1. CASE UNCHANGED <<files, writers>>
  BY <1>1 DEF writers, CoverInv, Adding
<1>2. CASE (\E s \in Shards : SaveShard(s)) \/ Dedup \/ UNCHANGED diskVars
  BY <1>1, <1>2 DEF SaveShard, Dedup, diskVars, writers, evicting
<1>3. CASE \E w \in Writers : Write(w) \/ WriteFails(w)
  BY <1>3, CoverWriter
<1>4. CASE Restart
  <2>1. files' \subseteq files /\ files \in SUBSET Shards
    BY <1>4 DEF Restart, PendingInv, WritersOk
  <2>2. /\ BytesOf(files') <= BytesOf(files) /\ BytesOf(files) \in Nat
        /\ BytesOf(files') \in Nat
    BY <2>1, BytesMonotone, BytesType
  <2>3. /\ diskBytes' = BytesOf(files) /\ seen' = [w \in Writers |-> 0]
        /\ wpc' = [w \in Writers |-> "idle"]
    BY <1>4 DEF Restart
  <2> QED BY <2>2, <2>3 DEF CoverInv, Adding
<1> QED BY <1>2, <1>3, <1>4 DEF DiskNext

\* With one writer the count never falls below the bytes of the files, but for
\* the file just written, whatever is stored again, evicted, fails or is found
\* unreadable at a restart (_save_layer_major_shard and _maybe_evict in
\* apc/disk_store/store.py): the cap is not overrun unnoticed.
THEOREM DiskCountCoversFiles ==
  ASSUME OneWriter
  PROVE  DiskSpec => []CountCoversFiles
<1>1. DiskInit => PendingInv /\ IndexInv /\ CoverInv
  BY PendingInit, IndexInit, CoverInit
<1>2. PendingInv /\ IndexInv /\ CoverInv /\ [DiskNext]_diskVars
        => PendingInv' /\ IndexInv' /\ CoverInv'
  BY PendingStep, IndexStep, CoverStep
<1>3. PendingInv /\ CoverInv => CountCoversFiles
  <2> SUFFICES ASSUME PendingInv, CoverInv PROVE CountCoversFiles
    OBVIOUS
  <2>1. PICK w \in Writers : TRUE
    OBVIOUS
  <2>2. Adding(w) \in Nat /\ diskBytes + Adding(w) >= BytesOf(files)
    BY DEF PendingInv, WritersOk, CoverInv, Adding
  <2> QED BY <2>2, CountOfOne
<1> QED BY <1>1, <1>2, <1>3, PTL DEF DiskSpec

-----------------------------------------------------------------------------
(* One writer: at rest the files are within max_bytes.                     *)

\* Nothing waits for the writer and nothing has failed.
Undisturbed == wq = <<>> /\ mishaps \subseteq {"dedup"}

Fits(F) == BytesOf(F) <= DiskCap \/ \E s \in Shards : F = {s}

\* Of the writer: between shards the files fit; when it evicts, every file it
\* will not take is the one it has just written, for the blocks of that file
\* are the only ones in flight.
Rests(w) ==
  /\ wpc[w] \in {"idle", "finish"} => Fits(files)
  /\ wpc[w] \in {"unlink", "unindex"} => files \subseteq victims[w] \cup {item[w]}
  /\ wpc[w] = "evict" => \A h \in BlocksOf[item[w]] : index[h] = item[w]

RestInv == Undisturbed => \A w \in Writers : Rests(w)

LEMMA RestInit == DiskInit => RestInv
BY BytesOfFew DEF DiskInit, RestInv, Rests, Fits

LEMMA RestKept ==
  ASSUME OneWriter, NEW w \in Writers, Undisturbed' => Rests(w)'
  PROVE  RestInv'
<1>1. \A v \in Writers : v = w
  BY DEF OneWriter
<1> QED BY <1>1 DEF RestInv

\* The files of the blocks in flight are then the one just written.
LEMMA ProtectsItem ==
  ASSUME OneWriter, PendingInv, NEW w \in Writers, wq = <<>>,
         \A h \in BlocksOf[item[w]] : index[h] = item[w]
  PROVE  Protected \subseteq {item[w]}
<1>1. \A v \in Writers : v = w
  BY DEF OneWriter
<1>2. ShardSet(wq) = {}
  BY DEF ShardSet
<1>3. Unwritten \subseteq {item[w]}
  BY <1>1, <1>2 DEF Unwritten
<1>4. inFlight \subseteq BlocksOf[item[w]]
  BY <1>3 DEF PendingInv, InFlightIsPending
<1> QED BY <1>4 DEF Protected

LEMMA RestWriter ==
  ASSUME OneWriter, PendingInv, IndexInv, CoverInv, RestInv, NEW w \in Writers,
         Write(w) \/ WriteFails(w)
  PROVE  RestInv'
<1>1. /\ files \in SUBSET Shards /\ wpc \in [Writers -> WriterSteps]
      /\ item \in [Writers -> Shards \cup {NoShard}]
      /\ victims \in [Writers -> SUBSET Shards]
      /\ wpc[w] # "idle" => item[w] \in Shards
      /\ index \in [Hashes -> Shards \cup {NoShard}]
      /\ BlocksOf \in [Shards -> SUBSET Hashes]
  BY ShardsAssumption DEF PendingInv, WritersOk, IndexInv
<1>2. BytesOf(files) \in Nat /\ diskBytes \in Int /\ DiskTarget <= DiskCap
  BY <1>1, BytesType DEF CoverInv
<1>3. wpc[w] \notin {"count", "add"} => diskBytes >= BytesOf(files)
  BY <1>2 DEF CoverInv, Adding
<1>4. Undisturbed => Rests(w)
  BY DEF RestInv
<1> SUFFICES ASSUME Undisturbed' PROVE Rests(w)'
  BY RestKept
<1>5. wq' = <<>> /\ mishaps' \subseteq {"dedup"}
  BY DEF Undisturbed
<1>6. \* to a step of which nothing is asked
  ASSUME NEW p \in {"write", "count", "add", "index"}, Goes(w, p)
  PROVE  Rests(w)'
  <2>1. wpc'[w] = p
    BY <1>1, <1>6 DEF Goes
  <2> QED BY <2>1 DEF Rests
<1>7. CASE TakeItem(w) \/ WriteShard(w) \/ Count(w) \/ AddBytes(w)
  BY <1>6, <1>7 DEF TakeItem, WriteShard, Count, AddBytes
<1>8. CASE WriteFails(w)
  BY <1>5, <1>8 DEF WriteFails, Fault
<1>9. ASSUME wq' = wq, mishaps' = mishaps PROVE Rests(w)
  BY <1>4, <1>5, <1>9 DEF Undisturbed
<1>10. CASE IndexBlocks(w)
  <2>1. /\ wpc[w] = "index" /\ wpc' = [wpc EXCEPT ![w] = "evict"] /\ item' = item
        /\ index' = [h \in Hashes |-> IF h \in BlocksOf[item[w]] THEN item[w] ELSE index[h]]
    BY <1>10 DEF IndexBlocks, Goes
  <2>2. wpc'[w] = "evict" /\ item[w] \in Shards /\ item'[w] = item[w]
    BY <1>1, <2>1
  <2>3. \A h \in BlocksOf[item[w]] : index'[h] = item[w]
    BY <1>1, <2>1, <2>2
  <2> QED BY <2>2, <2>3 DEF Rests
<1>11. CASE EvictStart(w)
  <2>1. /\ wpc[w] = "evict" /\ UNCHANGED <<files, wq, item, mishaps>>
        /\ \/ /\ diskBytes <= DiskCap /\ Goes(w, "finish")
           \/ /\ Goes(w, "unlink")
              /\ victims' = [victims EXCEPT ![w] = files \ Protected]
    BY <1>11 DEF EvictStart, NoFault
  <2>2. CASE diskBytes <= DiskCap /\ Goes(w, "finish")
    <3>1. wpc'[w] = "finish"
      BY <1>1, <2>2 DEF Goes
    <3>2. Fits(files)
      BY <1>2, <1>3, <2>1, <2>2 DEF Fits
    <3>3. Fits(files')
      BY <2>1, <3>2
    <3> QED BY <3>1, <3>3 DEF Rests
  <2>3. CASE /\ Goes(w, "unlink")
             /\ victims' = [victims EXCEPT ![w] = files \ Protected]
    <3>1. wpc'[w] = "unlink" /\ victims'[w] = files \ Protected
      BY <1>1, <2>3 DEF Goes
    <3>2. Rests(w) /\ wq = <<>>
      BY <1>5, <1>9, <2>1
    <3>3. Protected \subseteq {item[w]}
      BY <2>1, <3>2, ProtectsItem DEF Rests
    <3> QED BY <2>1, <3>1, <3>3 DEF Rests
  <2> QED BY <2>1, <2>2, <2>3
<1>12. CASE EvictOne(w)
  <2>1. PICK s \in victims[w] :
          /\ wpc[w] = "unlink" /\ UNCHANGED <<item, wq>>
          /\ victims' = [victims EXCEPT ![w] = victims[w] \ {s}]
          /\ \/ s \in files /\ files' = files \ {s} /\ Goes(w, "unindex") /\ NoFault
             \/ /\ IF s \in files THEN Fault("unlink") ELSE NoFault
                /\ UNCHANGED <<files, wpc>>
    BY <1>12 DEF EvictOne
  <2>2. NoFault /\ files' = files \ {s}
    BY <1>1, <1>5, <2>1 DEF Fault
  <2>3. wpc'[w] \in {"unlink", "unindex"} /\ victims'[w] = victims[w] \ {s}
    BY <1>1, <2>1 DEF Goes
  <2>4. files \subseteq victims[w] \cup {item[w]}
    BY <1>9, <2>1, <2>2 DEF Rests, NoFault
  <2> QED BY <2>1, <2>2, <2>3, <2>4 DEF Rests
<1>13. CASE EvictEnds(w)
  <2>1. /\ wpc[w] = "unlink" /\ UNCHANGED <<files, wq, mishaps>> /\ Goes(w, "finish")
        /\ diskBytes <= DiskTarget \/ victims[w] = {}
    BY <1>13 DEF EvictEnds, EnoughFreed, NoFault
  <2>2. wpc'[w] = "finish"
    BY <1>1, <2>1 DEF Goes
  <2>3. Fits(files)
    <3>1. CASE diskBytes <= DiskTarget
      BY <1>2, <1>3, <2>1, <3>1, CapAssumption DEF Fits
    <3>2. CASE victims[w] = {}
      <4>1. files \subseteq {item[w]} /\ item[w] \in Shards
        BY <1>1, <1>9, <2>1, <3>2 DEF Rests
      <4>2. files = {} \/ files = {item[w]}
        BY <4>1
      <4>3. BytesOf({}) = 0 /\ DiskCap >= 0
        BY BytesOfFew, CapAssumption
      <4> QED BY <4>1, <4>2, <4>3 DEF Fits
    <3> QED BY <2>1, <3>1, <3>2
  <2>4. Fits(files')
    BY <2>1, <2>3
  <2> QED BY <2>2, <2>4 DEF Rests
<1>14. CASE DropIndex(w)
  <2>1. /\ wpc[w] = "unindex" /\ UNCHANGED <<files, wq, item, victims, mishaps>>
        /\ wpc' = [wpc EXCEPT ![w] = "unlink"]
    BY <1>14 DEF DropIndex, NoFault, Goes
  <2>2. wpc'[w] = "unlink" /\ files \subseteq victims[w] \cup {item[w]}
    BY <1>1, <1>9, <2>1 DEF Rests
  <2> QED BY <2>1, <2>2 DEF Rests
<1>15. CASE Finish(w)
  <2>1. /\ wpc[w] = "finish" /\ UNCHANGED <<files, wq, mishaps>>
        /\ wpc' = [wpc EXCEPT ![w] = "idle"]
    BY <1>15 DEF Finish, NoFault, Goes
  <2>2. wpc'[w] = "idle" /\ Fits(files)
    BY <1>1, <1>9, <2>1 DEF Rests
  <2>3. Fits(files')
    BY <2>1, <2>2
  <2> QED BY <2>2, <2>3 DEF Rests
<1> QED BY <1>7, <1>8, <1>10, <1>11, <1>12, <1>13, <1>14, <1>15 DEF Write

LEMMA RestStep ==
  /\ OneWriter /\ PendingInv /\ IndexInv /\ CoverInv /\ RestInv
  /\ [DiskNext]_diskVars
  => RestInv'
<1> SUFFICES ASSUME OneWriter, PendingInv, IndexInv, CoverInv, RestInv,
                    [DiskNext]_diskVars
             PROVE  RestInv'
  OBVIOUS
<1>1. CASE UNCHANGED diskVars
  BY <1>1 DEF diskVars, RestInv, Undisturbed, Rests
<1>2. ASSUME NEW s \in Shards, SaveShard(s) PROVE RestInv'
  <2>1. UNCHANGED <<files, index, wpc, item, victims, mishaps>>
    BY <1>2 DEF SaveShard, writers, evicting, NoFault
  <2>2. wq' = <<>> => wq = <<>>
    <3>1. wq \in Seq(Shards) /\ Len(<<>>) = 0 /\ DiskQueue > 0
      BY DEF PendingInv, WritersOk
    <3>2. wq' = wq \/ wq' = Append(wq, s)
      BY <1>2 DEF SaveShard
    <3>3. Append(wq, s) # <<>>
      BY <3>1
    <3> QED BY <3>2, <3>3
  <2> QED BY <2>1, <2>2 DEF RestInv, Undisturbed, Rests
<1>3. CASE Dedup
  <2>1. /\ UNCHANGED <<files, wpc, item, victims, wq>> /\ mishaps \subseteq mishaps'
        /\ \A h \in Hashes : index[h] # NoShard => index'[h] = index[h]
    BY <1>3 DEF Dedup, writers, evicting
  <2>2. ASSUME NEW w \in Writers, Rests(w) PROVE Rests(w)'
    <3>1. CASE wpc[w] = "evict"
      <4>1. item[w] \in Shards /\ BlocksOf[item[w]] \subseteq Hashes
        BY <3>1 DEF PendingInv, WritersOk
      <4>2. \A h \in BlocksOf[item[w]] : index'[h] = item[w]
        BY <2>1, <2>2, <3>1, <4>1 DEF Rests
      <4> QED BY <2>1, <3>1, <4>2 DEF Rests
    <3>2. CASE wpc[w] # "evict"
      BY <2>1, <2>2, <3>2 DEF Rests
    <3> QED BY <3>1, <3>2
  <2> QED BY <2>1, <2>2 DEF RestInv, Undisturbed
<1>4. CASE \E w \in Writers : Write(w) \/ WriteFails(w)
  BY <1>4, RestWriter
<1>5. CASE Restart
  BY <1>5 DEF Restart, Fault, RestInv, Undisturbed
<1> QED BY <1>1, <1>2, <1>3, <1>4, <1>5 DEF DiskNext

\* With one writer the files are within max_bytes, or one file larger than that
\* is all there is, whenever the writer has written all that was queued and is
\* idle, if no write and no unlink failed and the process did not start again
\* (_maybe_evict in apc/disk_store/base.py): the files it must not take can only
\* be the one it has just written.  No shard is assumed to fit.
THEOREM DiskAtRestWithinCap ==
  ASSUME OneWriter
  PROVE  DiskSpec => []AtRestWithinCap
<1>1. DiskInit => PendingInv /\ IndexInv /\ CoverInv /\ RestInv
  BY PendingInit, IndexInit, CoverInit, RestInit
<1>2. PendingInv /\ IndexInv /\ CoverInv /\ RestInv /\ [DiskNext]_diskVars
        => PendingInv' /\ IndexInv' /\ CoverInv' /\ RestInv'
  BY PendingStep, IndexStep, CoverStep, RestStep
<1>3. RestInv => AtRestWithinCap
  <2>1. PICK w \in Writers : TRUE
    OBVIOUS
  <2> QED BY <2>1 DEF RestInv, Undisturbed, Rests, Fits, AtRestWithinCap
<1> QED BY <1>1, <1>2, <1>3, PTL DEF DiskSpec
=============================================================================

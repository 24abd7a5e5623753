------------------------ MODULE GenerationLoop_proofs ------------------------
(***************************************************************************)
(* Proofs about the generation thread, for every set of requests and every *)
(* limit.                                                                  *)
(***************************************************************************)
EXTENDS GenerationLoop, FiniteSetTheorems, SequenceTheorems, TLAPS

-----------------------------------------------------------------------------
(* Types, and what the thread has in hand.                                 *)

\* The thread never takes more than it has slots for, so active and hand
\* together stay within max_num_seqs.
HandOk ==
    /\ Cardinality(active) + Len(hand) <= MaxNumSeqs
    /\ pc \in {"insert", "flush"} => hand # <<>>
    /\ pc = "flush" => Head(hand) # ReleaseKv
    /\ pc \notin {"insert", "flush"} => hand = <<>>

TypeInv == TypeOK /\ HandOk

\* Sets of requests are finite, and grow by at most one element at a time.
LEMMA FiniteSets ==
    ASSUME NEW S \in SUBSET Requests
    PROVE  IsFiniteSet(S) /\ Cardinality(S) \in Nat
<1> QED BY RequestsAssumption, FS_Subset, FS_CardinalityType

LEMMA OneMore ==
    ASSUME NEW S \in SUBSET Requests, NEW r \in Requests, NEW T \in SUBSET S
    PROVE  Cardinality(T \cup {r}) <= Cardinality(S) + 1
<1>1. IsFiniteSet(S) /\ Cardinality(S) \in Nat /\ Cardinality(T) \in Nat
      /\ IsFiniteSet(T) /\ Cardinality(T) <= Cardinality(S)
  BY FiniteSets, FS_Subset
<1>2. Cardinality(T \cup {r}) = IF r \in T THEN Cardinality(T) ELSE Cardinality(T) + 1
  BY <1>1, FS_AddElement
<1> QED BY <1>1, <1>2

\* What is sent keeps the type of the handlers' queues.
LEMMA SendType ==
    ASSUME TypeOK, NEW m \in [Requests -> Seq(Messages)], Send(m)
    PROVE  rq' \in [Requests -> Seq(Messages)]
<1>1. ASSUME NEW r \in Requests
      PROVE  (IF client[r] \in Listening THEN rq[r] \o m[r] ELSE <<>>) \in Seq(Messages)
  <2>1. rq[r] \in Seq(Messages) /\ m[r] \in Seq(Messages)
    BY DEF TypeOK
  <2>2. rq[r] \o m[r] \in Seq(Messages) /\ <<>> \in Seq(Messages)
    BY <2>1
  <2> QED BY <2>2
<1> QED BY <1>1 DEF Send

\* One message sent to one request, and none to the others.
LEMMA TellType ==
    ASSUME TypeOK, NEW r \in Requests, NEW m \in Messages, Tell(r, m)
    PROVE  rq' \in [Requests -> Seq(Messages)]
<1>1. [Nothing EXCEPT ![r] = <<m>>] =
          [q \in Requests |-> IF q = r THEN <<m>> ELSE <<>>]
  BY DEF Nothing
<1>2. <<m>> \in Seq(Messages) /\ <<>> \in Seq(Messages)
  OBVIOUS
<1>3. [q \in Requests |-> IF q = r THEN <<m>> ELSE <<>>] \in [Requests -> Seq(Messages)]
  BY <1>2
<1> QED BY <1>1, <1>3, SendType DEF Tell

\* The messages that are sent.
LEMMA MessageTypes ==
    /\ <<>> \in Seq(Messages) /\ <<"none">> \in Seq(Messages)
    /\ <<"token">> \in Seq(Messages)
    /\ <<"last", "none">> \in Seq(Messages)
    /\ <<"error", "none">> \in Seq(Messages)
<1> QED BY DEF Messages

\* A prefill admits waiting prompts and moves prefilled ones: no row is lost.
LEMMA PrefillKeeps ==
    ASSUME TypeOK, NEW R \in SUBSET rows, Prefill(R)
    PROVE  /\ waiting' \subseteq waiting /\ prompt' \subseteq waiting \cup prompt
           /\ rows' \subseteq R \cup waiting \cup prompt
           /\ waiting' \cup prompt' \cup rows' = waiting \cup prompt \cup R
           /\ chunks' \in Nat
<1>1. CASE rows' = R /\ UNCHANGED <<waiting, prompt, chunks>>
  BY <1>1 DEF TypeOK
<1>2. CASE chunks > 0 /\ chunks' = chunks - 1 /\ rows' = R /\ UNCHANGED <<waiting, prompt>>
  BY <1>2 DEF TypeOK
<1>3. CASE rows' = R \cup prompt /\ prompt' = {} /\ UNCHANGED <<waiting, chunks>>
  BY <1>3 DEF TypeOK
<1>4. CASE /\ prompt = {}
           /\ \E taken \in Taken :
                 /\ waiting' = waiting \ taken
                 /\ \/ /\ rows' = R \cup taken
                       /\ UNCHANGED <<prompt, chunks>>
                    \/ /\ rows' = R /\ prompt' = taken
                       /\ chunks' \in 0 .. MaxChunks
  <2>1. PICK taken \in Taken :
                 /\ waiting' = waiting \ taken
                 /\ \/ /\ rows' = R \cup taken
                       /\ UNCHANGED <<prompt, chunks>>
                    \/ /\ rows' = R /\ prompt' = taken
                       /\ chunks' \in 0 .. MaxChunks
    BY <1>4
  <2>2. taken \subseteq waiting
    BY DEF Taken
  <2>3. chunks' \in Nat
    BY <2>1, LimitsAssumption DEF TypeOK
  <2> QED BY <1>4, <2>1, <2>2, <2>3
<1> QED BY <1>1, <1>2, <1>3, <1>4 DEF Prefill

\* A decode step keeps the types and loses no row but those that ended.
LEMMA DecodeType ==
    ASSUME TypeOK, Decode
    PROVE  /\ waiting' \subseteq Requests /\ prompt' \subseteq Requests
           /\ rows' \subseteq Requests /\ chunks' \in Nat
           /\ made' \in [Requests -> Nat] /\ active' \subseteq Requests
           /\ rq' \in [Requests -> Seq(Messages)]
           /\ gen' = gen /\ nextUid' = nextUid
<1>1. PICK stop \in SUBSET rows :
        LET done == stop \cup {r \in rows : made[r] + 1 >= MaxTokens}
        IN  /\ Prefill(rows \ done)
            /\ made' = [r \in Requests |->
                          IF r \in rows \ done THEN made[r] + 1 ELSE 0]
            /\ Send([q \in Requests |->
                       IF q \in Receivers(done) THEN <<"last", "none">>
                         ELSE IF q \in Receivers(rows \ done) THEN <<"token">>
                         ELSE <<>>])
            /\ active' = ActiveAfter(done)
            /\ UNCHANGED <<gen, nextUid>>
  BY DEF Decode
<1> DEFINE done == stop \cup {r \in rows : made[r] + 1 >= MaxTokens}
<1>2. Prefill(rows \ done)
  BY <1>1
<1>3. /\ waiting' \subseteq Requests /\ prompt' \subseteq Requests
      /\ rows' \subseteq Requests /\ chunks' \in Nat
  BY <1>2, PrefillKeeps DEF TypeOK
<1>4. made' \in [Requests -> Nat]
  <2>1. \A r \in Requests : made[r] \in Nat
    BY DEF TypeOK
  <2> QED BY <1>1, <2>1
<1>5. active' \subseteq Requests
  BY <1>1 DEF ActiveAfter, TypeOK
<1>6. [q \in Requests |->
         IF q \in Receivers(done) THEN <<"last", "none">>
           ELSE IF q \in Receivers(rows \ done) THEN <<"token">>
           ELSE <<>>] \in [Requests -> Seq(Messages)]
  BY MessageTypes
<1>7. rq' \in [Requests -> Seq(Messages)]
  BY <1>1, <1>6, SendType
<1> QED BY <1>1, <1>3, <1>4, <1>5, <1>7

\* A handler that leaves its queue behind.
LEMMA LeavesType ==
    ASSUME TypeOK, NEW r \in Requests,
           NEW how \in {"idle"} \cup Listening \cup Gone, Leaves(r, how)
    PROVE  /\ client' \in [Requests -> {"idle"} \cup Listening \cup Gone]
           /\ rq' \in [Requests -> Seq(Messages)]
           /\ releasing' \subseteq Requests
<1>1. client' \in [Requests -> {"idle"} \cup Listening \cup Gone]
  BY DEF Leaves, TypeOK
<1>2. rq' \in [Requests -> Seq(Messages)]
  BY MessageTypes DEF Leaves, TypeOK
<1>3. releasing' \subseteq Requests
  BY DEF Leaves, TypeOK
<1> QED BY <1>1, <1>2, <1>3

\* The rest of a sequence that is not empty.
LEMMA TailFacts ==
    ASSUME NEW S, NEW s \in Seq(S), s # <<>>
    PROVE  /\ Tail(s) \in Seq(S) /\ Head(s) \in S
           /\ Len(Tail(s)) = Len(s) - 1
           /\ (Len(s) > 1 <=> Tail(s) # <<>>)
<1>1. Len(s) \in Nat /\ Len(s) > 0
  BY EmptySeq
<1>2. Tail(s) \in Seq(S) /\ Head(s) \in S /\ Len(Tail(s)) = Len(s) - 1
  BY HeadTailProperties
<1>3. Tail(s) = <<>> <=> Len(Tail(s)) = 0
  BY <1>2, EmptySeq
<1> QED BY <1>1, <1>2, <1>3

\* insert and what goes with it.
LEMMA EnterType ==
    ASSUME TypeInv, pc \in {"insert", "flush"}, Head(hand) # ReleaseKv,
           Enter(Head(hand))
    PROVE  TypeInv'
<1> DEFINE r == Head(hand)
<1>1. hand # <<>> /\ hand \in Seq(Items)
  BY DEF TypeInv, HandOk, TypeOK
<1>2. r \in Requests
  BY <1>1 DEF Items
<1>3. rq' \in [Requests -> Seq(Messages)]
  BY <1>2, TellType DEF Enter, TypeInv, Messages
<1>4. hand' \in Seq(Items) /\ (Len(hand) > 1 <=> hand' # <<>>)
  BY <1>1, TailFacts DEF Enter
<1>5. HandOk'
  <2>1. active' = {q \in active : uid[q] # FreshUid} \cup {r}
    BY DEF Enter
  <2>2. Cardinality(active') <= Cardinality(active) + 1
    <3>1. {q \in active : uid[q] # FreshUid} \in SUBSET active
      OBVIOUS
    <3>2. active \in SUBSET Requests
      BY DEF TypeInv, TypeOK
    <3> HIDE DEF r
    <3> QED BY <1>2, <2>1, <3>1, <3>2, OneMore
  <2>3. Cardinality(active) + Len(hand) <= MaxNumSeqs
    BY DEF TypeInv, HandOk
  <2>4. Len(hand') = Len(hand) - 1
    BY <1>1, TailFacts DEF Enter
  <2>5. /\ Cardinality(active) \in Nat /\ Cardinality(active') \in Nat
        /\ MaxNumSeqs \in Nat /\ Len(hand) \in Nat
    <3>1. IsFiniteSet(active) /\ IsFiniteSet(active')
      BY <1>2, <2>1, RequestsAssumption, FS_Subset DEF TypeInv, TypeOK
    <3> QED BY <1>1, <3>1, FS_CardinalityType, LimitsAssumption
  <2>6. Cardinality(active') + Len(hand') <= MaxNumSeqs
    BY <2>2, <2>3, <2>4, <2>5
  <2> QED BY <1>4, <2>6 DEF Enter, AfterItem, HandOk
<1>6. uid' \in [Requests -> Nat] /\ nextUid' \in Nat /\ active' \subseteq Requests
      /\ waiting' \subseteq Requests
  BY <1>2 DEF Enter, FreshUid, TypeInv, TypeOK
<1>7. pc' \in {"insert", "step"} /\ gen' \in BOOLEAN
  BY DEF Enter, AfterItem
<1>8. UNCHANGED <<queue, client, releasing, cancelled, prompt, chunks, rows,
                   made, released, stopping, serialize, faults, harm>>
  BY DEF Enter, history
<1>9. TypeOK'
  BY <1>3, <1>4, <1>6, <1>7, <1>8 DEF TypeInv, TypeOK
<1> QED BY <1>5, <1>9 DEF TypeInv

\* The error handler of the loop.
LEMMA FailType ==
    ASSUME TypeInv, NEW kind, Fail(kind)
    PROVE  TypeInv'
<1>1. [r \in Requests |-> IF r \in active THEN <<"error", "none">> ELSE <<>>]
         \in [Requests -> Seq(Messages)]
  BY MessageTypes
<1>2. rq' \in [Requests -> Seq(Messages)]
  BY <1>1, SendType DEF Fail, TypeInv
<1>3. /\ hand' = <<>> /\ pc' = "poll" /\ active' = {} /\ gen' = FALSE
      /\ nextUid' = 0 /\ waiting' = {} /\ prompt' = {} /\ chunks' = 0
      /\ rows' = {} /\ faults' = faults + 1
      /\ made' = [r \in Requests |-> 0]
      /\ harm' \subseteq {"drop", "lost", "orphan", "stop"}
      /\ UNCHANGED <<queue, client, releasing, cancelled, uid, released,
                     stopping, serialize>>
  BY DEF Fail, TypeInv, TypeOK
<1>4. made' \in [Requests -> Nat] /\ hand' \in Seq(Items)
  BY <1>3
<1>5. /\ 0 \in Nat /\ {} \subseteq Requests /\ FALSE \in BOOLEAN
      /\ faults + 1 \in Nat
  BY DEF TypeInv, TypeOK
<1>6. TypeOK'
  BY <1>2, <1>3, <1>4, <1>5 DEF TypeInv, TypeOK
<1>7. HandOk'
  BY <1>3, FS_EmptySet, EmptySeq, LimitsAssumption DEF HandOk
<1> QED BY <1>6, <1>7 DEF TypeInv

\* batch_gen = None.
LEMMA DropType ==
    ASSUME TypeOK, DropGenerator
    PROVE  /\ gen' = FALSE /\ nextUid' = 0 /\ waiting' = {} /\ prompt' = {}
           /\ chunks' = 0 /\ rows' = {} /\ made' \in [Requests -> Nat]
           /\ harm' \subseteq {"drop", "lost", "orphan", "stop"}
           /\ harm \subseteq harm'
<1> QED BY DEF DropGenerator, TypeOK

\* The first items of the queue, and the others.
LEMMA SplitType ==
    ASSUME NEW s \in Seq(Items), NEW n \in Nat, n <= Len(s)
    PROVE  /\ SubSeq(s, 1, n) \in Seq(Items) /\ Len(SubSeq(s, 1, n)) = n
           /\ SubSeq(s, n + 1, Len(s)) \in Seq(Items)
           /\ Len(SubSeq(s, n + 1, Len(s))) = Len(s) - n
           /\ \A i \in 1 .. n : SubSeq(s, 1, n)[i] = s[i]
           /\ \A i \in 1 .. Len(s) - n : SubSeq(s, n + 1, Len(s))[i] = s[n + i]
<1>1. Len(s) \in Nat /\ \A i \in 1 .. Len(s) : s[i] \in Items
  OBVIOUS
<1>2. SubSeq(s, 1, n) \in Seq(Items) /\ Len(SubSeq(s, 1, n)) = n
      /\ \A i \in 1 .. n : SubSeq(s, 1, n)[i] = s[i]
  BY <1>1, SubSeqProperties
<1>3. SubSeq(s, n + 1, Len(s)) \in Seq(Items)
      /\ Len(SubSeq(s, n + 1, Len(s))) = Len(s) - n
      /\ \A i \in 1 .. Len(s) - n : SubSeq(s, n + 1, Len(s))[i] = s[n + i]
  BY <1>1, SubSeqProperties
<1> QED BY <1>2, <1>3

\* The number of items a poll takes.
LEMMA SlotsType ==
    ASSUME TypeInv, pc = "poll"
    PROVE  /\ Slots \in Nat /\ hand = <<>>
           /\ Slots + Cardinality(active) <= MaxNumSeqs
           /\ Min2(Slots, Len(queue)) \in Nat
           /\ Min2(Slots, Len(queue)) <= Len(queue)
           /\ Min2(Slots, Len(queue)) <= Slots
<1>1. hand = <<>> /\ Len(hand) = 0
  BY EmptySeq DEF TypeInv, HandOk
<1>2. Cardinality(active) \in Nat /\ Cardinality(active) <= MaxNumSeqs
  BY <1>1, FiniteSets DEF TypeInv, HandOk, TypeOK
<1>3. Slots \in Nat /\ Slots + Cardinality(active) <= MaxNumSeqs
  <2>1. CASE active = {}
    BY <1>2, <2>1, LimitsAssumption, FS_EmptySet DEF Slots
  <2>2. CASE active # {}
    BY <1>2, <2>2, LimitsAssumption DEF Slots
  <2> QED BY <2>1, <2>2
<1>4. Len(queue) \in Nat
  BY DEF TypeInv, TypeOK
<1> QED BY <1>1, <1>3, <1>4 DEF Min2

LEMMA PollType ==
    ASSUME TypeInv, Poll
    PROVE  TypeInv'
<1> DEFINE n == Min2(Slots, Len(queue))
           gone == IF gen THEN {r \in active : uid[r] \in cancelled} ELSE {}
<1>1. /\ hand' = SubSeq(queue, 1, n) /\ queue' = SubSeq(queue, n + 1, Len(queue))
      /\ active' = active \ gone /\ RemoveRows(gone)
      /\ Send([r \in Requests |-> IF r \in gone THEN <<"none">> ELSE <<>>])
      /\ pc' = IF n > 0 THEN "insert" ELSE "step"
      /\ cancelled' = {}
      /\ UNCHANGED <<client, releasing, uid, released, stopping, serialize, faults, harm>>
  BY DEF Poll, history
<1>2. n \in Nat /\ n <= Len(queue) /\ n + Cardinality(active) <= MaxNumSeqs
  <2>1. Cardinality(active) \in Nat /\ MaxNumSeqs \in Nat
    BY FiniteSets, LimitsAssumption DEF TypeInv, TypeOK
  <2> QED BY <2>1, SlotsType DEF Poll
<1> HIDE DEF n
<1>3. queue \in Seq(Items)
  BY DEF TypeInv, TypeOK
<1>4. hand' \in Seq(Items) /\ queue' \in Seq(Items) /\ Len(hand') = n
  BY <1>1, <1>2, <1>3, SplitType
<1>5. rq' \in [Requests -> Seq(Messages)]
  <2>1. [r \in Requests |-> IF r \in gone THEN <<"none">> ELSE <<>>]
           \in [Requests -> Seq(Messages)]
    BY MessageTypes
  <2> QED BY <1>1, <2>1, SendType DEF TypeInv
<1>6. active' \subseteq active /\ active' \subseteq Requests
  BY <1>1 DEF TypeInv, TypeOK
<1>7. /\ waiting' \subseteq Requests /\ prompt' \subseteq Requests
      /\ rows' \subseteq Requests /\ chunks' \in Nat
      /\ made' \in [Requests -> Nat] /\ gen' = gen /\ nextUid' = nextUid
  BY <1>1 DEF RemoveRows, TypeInv, TypeOK
<1>8. Cardinality(active') + Len(hand') <= MaxNumSeqs
  <2>1. Cardinality(active') <= Cardinality(active)
    BY <1>6, FiniteSets, FS_Subset DEF TypeInv, TypeOK
  <2>2. Cardinality(active') \in Nat /\ Cardinality(active) \in Nat /\ MaxNumSeqs \in Nat
    BY <1>6, FiniteSets, LimitsAssumption DEF TypeInv, TypeOK
  <2> QED BY <1>2, <1>4, <2>1, <2>2
<1>9. HandOk'
  <2>1. n > 0 <=> hand' # <<>>
    BY <1>2, <1>4, EmptySeq
  <2> QED BY <1>1, <1>2, <1>8, <2>1 DEF HandOk
<1>10. TypeOK'
  <2>1. pc' \in {"poll", "insert", "flush", "step", "stopped"} /\ cancelled' \subseteq Nat
    BY <1>1
  <2> QED BY <1>1, <1>4, <1>5, <1>6, <1>7, <2>1 DEF TypeInv, TypeOK
<1> QED BY <1>9, <1>10 DEF TypeInv

LEMMA ReleaseType ==
    ASSUME TypeInv, Release
    PROVE  TypeInv'
<1>1. hand # <<>> /\ hand \in Seq(Items)
  BY DEF Release, TypeInv, HandOk, TypeOK
<1>2. /\ hand' \in Seq(Items) /\ (Len(hand) > 1 <=> hand' # <<>>)
      /\ Len(hand') = Len(hand) - 1 /\ Len(hand) \in Nat
  BY <1>1, TailFacts DEF Release
<1>3. pc' \in {"insert", "step"} /\ (pc' = "insert" <=> hand' # <<>>)
  BY <1>2 DEF Release, AfterItem
<1>4. Cardinality(active) \in Nat /\ MaxNumSeqs \in Nat
  BY FiniteSets, LimitsAssumption DEF TypeInv, TypeOK
<1>5. HandOk'
  <2>1. active' = active
    BY DEF Release
  <2> QED BY <1>2, <1>3, <1>4, <2>1 DEF TypeInv, HandOk
<1>6. TypeOK'
  <2>1. /\ gen' = FALSE /\ nextUid' = 0 /\ waiting' = {} /\ prompt' = {}
        /\ chunks' = 0 /\ rows' = {} /\ made' \in [Requests -> Nat]
        /\ harm' \subseteq {"drop", "lost", "orphan", "stop"}
    BY DropType DEF Release, TypeInv
  <2>2. /\ released' = TRUE
        /\ UNCHANGED <<queue, client, rq, releasing, cancelled, active, uid,
                       stopping, serialize, faults>>
    BY DEF Release, handlers
  <2> QED BY <1>2, <1>3, <2>1, <2>2 DEF TypeInv, TypeOK
<1> QED BY <1>5, <1>6 DEF TypeInv

LEMMA InsertFailsType ==
    ASSUME TypeInv, InsertFails
    PROVE  TypeInv'
<1>1. hand # <<>> /\ hand \in Seq(Items)
  BY DEF InsertFails, TypeInv, HandOk, TypeOK
<1>2. /\ hand' \in Seq(Items) /\ (Len(hand) > 1 <=> hand' # <<>>)
      /\ Len(hand') = Len(hand) - 1 /\ Len(hand) \in Nat /\ Head(hand) \in Items
  BY <1>1, TailFacts DEF InsertFails
<1>3. pc' \in {"insert", "step"} /\ (pc' = "insert" <=> hand' # <<>>)
  BY <1>2 DEF InsertFails, AfterItem
<1>4. Cardinality(active) \in Nat /\ MaxNumSeqs \in Nat
  BY FiniteSets, LimitsAssumption DEF TypeInv, TypeOK
<1>5. HandOk'
  <2>1. active' = active
    BY DEF InsertFails
  <2> QED BY <1>2, <1>3, <1>4, <2>1 DEF TypeInv, HandOk
<1>6. TypeOK'
  <2>1. Head(hand) \in Requests /\ "error" \in Messages
    BY <1>2 DEF InsertFails, Items, Messages
  <2>2. rq' \in [Requests -> Seq(Messages)]
    BY <2>1, TellType DEF InsertFails, TypeInv
  <2>3. /\ gen' = TRUE /\ faults' = faults + 1
        /\ UNCHANGED <<queue, client, releasing, cancelled, active, uid, nextUid,
                   waiting, prompt, chunks, rows, made, released, stopping,
                   serialize, harm>>
    BY DEF InsertFails
  <2>4. faults + 1 \in Nat
    BY DEF TypeInv, TypeOK
  <2> QED BY <1>2, <1>3, <2>2, <2>3, <2>4 DEF TypeInv, TypeOK
<1> QED BY <1>5, <1>6 DEF TypeInv

\* Decoding takes nothing in hand, and answers no more requests than before.
LEMMA DecodeKeepsCap ==
    ASSUME TypeInv, Decode, UNCHANGED hand
    PROVE  Cardinality(active') + Len(hand') <= MaxNumSeqs
<1>1. active' \subseteq active
  BY DEF Decode, ActiveAfter
<1>2. Cardinality(active') <= Cardinality(active)
  BY <1>1, FiniteSets, FS_Subset DEF TypeInv, TypeOK
<1>3. Cardinality(active') \in Nat /\ Cardinality(active) \in Nat /\ MaxNumSeqs \in Nat
      /\ Len(hand) \in Nat
  BY <1>1, FiniteSets, LimitsAssumption DEF TypeInv, TypeOK
<1> QED BY <1>2, <1>3 DEF TypeInv, HandOk

LEMMA StepType ==
    ASSUME TypeInv, Step
    PROVE  TypeInv'
<1>1. /\ pc = "step" /\ pc' = "poll"
      /\ UNCHANGED <<queue, client, releasing, cancelled, hand, uid, released,
                   stopping, serialize, faults, harm>>
  BY DEF Step, history
<1>2. CASE Decode
  <2>1. TypeOK'
    BY <1>1, <1>2, DecodeType DEF TypeInv, TypeOK
  <2>2. HandOk'
    BY <1>1, <1>2, DecodeKeepsCap DEF TypeInv, HandOk
  <2> QED BY <2>1, <2>2 DEF TypeInv
<1>3. CASE UNCHANGED <<rq, active, batch>>
  BY <1>1, <1>3 DEF TypeInv, TypeOK, HandOk, batch
<1> QED BY <1>2, <1>3 DEF Step

LEMMA FlushType ==
    ASSUME TypeInv, Flush
    PROVE  TypeInv'
<1>1. CASE /\ Decode
           /\ UNCHANGED <<queue, client, releasing, cancelled, pc, hand, uid,
                         released, stopping, serialize, history>>
  <2>1. UNCHANGED <<queue, client, releasing, cancelled, pc, hand, uid,
                         released, stopping, serialize, faults, harm>>
    BY <1>1 DEF history
  <2>2. TypeOK'
    BY <1>1, <2>1, DecodeType DEF TypeInv, TypeOK
  <2>3. HandOk'
    BY <1>1, <2>1, DecodeKeepsCap DEF TypeInv, HandOk
  <2> QED BY <2>2, <2>3 DEF TypeInv
<1>2. CASE Enter(Head(hand))
  BY <1>2, EnterType DEF Flush, TypeInv, HandOk
<1> QED BY <1>1, <1>2 DEF Flush

LEMMA InsertType ==
    ASSUME TypeInv, Insert
    PROVE  TypeInv'
<1>1. CASE Enter(Head(hand))
  BY <1>1, EnterType DEF Insert
<1>2. CASE /\ pc' = "flush"
           /\ UNCHANGED <<handlers, hand, active, uid, batch, released, stopping,
                         serialize, history>>
  BY <1>2 DEF Insert, TypeInv, TypeOK, HandOk, handlers, batch, history
<1> QED BY <1>1, <1>2 DEF Insert

\* A step of a handler leaves the thread alone.
LEMMA HandlerType ==
    ASSUME TypeInv, NEW r \in Requests,
           Submit(r) \/ Start(r) \/ Read(r) \/ Leave(r) \/ SendRelease(r)
    PROVE  TypeInv'
<1>1. UNCHANGED <<pc, hand, active, uid, gen, nextUid, waiting, prompt, chunks,
                  rows, made, serialize, faults, harm>>
  BY DEF Submit, Start, Read, Leave, SendRelease, thread
<1>2. HandOk'
  BY <1>1 DEF TypeInv, HandOk
<1>3. /\ queue' \in Seq(Items)
      /\ client' \in [Requests -> {"idle"} \cup Listening \cup Gone]
      /\ rq' \in [Requests -> Seq(Messages)] /\ releasing' \subseteq Requests
      /\ cancelled' \subseteq Nat /\ released' \in BOOLEAN /\ stopping' \in BOOLEAN
  <2>1. CASE Submit(r)
    <3>1. CASE queue' = Append(queue, r) /\ client' = [client EXCEPT ![r] = "waiting"]
                 /\ UNCHANGED <<rq, releasing>>
      <4>1. queue' \in Seq(Items)
        BY <3>1 DEF TypeInv, TypeOK, Items
      <4>2. client' \in [Requests -> {"idle"} \cup Listening \cup Gone]
        BY <3>1 DEF TypeInv, TypeOK, Listening
      <4> QED BY <2>1, <3>1, <4>1, <4>2 DEF Submit, TypeInv, TypeOK
    <3>2. CASE Leaves(r, "refused") /\ UNCHANGED queue
      <4>1. "refused" \in Gone
        BY DEF Gone
      <4> QED BY <2>1, <3>2, <4>1, LeavesType DEF Submit, TypeInv, TypeOK
    <3> QED BY <2>1, <3>1, <3>2 DEF Submit
  <2>2. CASE Start(r)
    <3>1. CASE client' = [client EXCEPT ![r] = "reading"]
                 /\ rq' = [rq EXCEPT ![r] = Tail(@)] /\ UNCHANGED releasing
      <4>1. rq' \in [Requests -> Seq(Messages)]
        BY <2>2, <3>1, HeadTailProperties DEF Start, TypeInv, TypeOK
      <4>2. client' \in [Requests -> {"idle"} \cup Listening \cup Gone]
        BY <3>1 DEF TypeInv, TypeOK, Listening
      <4> QED BY <2>2, <3>1, <4>1, <4>2 DEF Start, TypeInv, TypeOK
    <3>2. CASE Leaves(r, "failed")
      <4>1. "failed" \in Gone
        BY DEF Gone
      <4> QED BY <2>2, <3>2, <4>1, LeavesType DEF Start, TypeInv, TypeOK
    <3> QED BY <2>2, <3>1, <3>2 DEF Start
  <2>3. CASE Read(r)
    <3>1. CASE rq' = [rq EXCEPT ![r] = Tail(@)] /\ UNCHANGED <<client, releasing>>
      <4>1. rq' \in [Requests -> Seq(Messages)]
        BY <2>3, <3>1, HeadTailProperties DEF Read, TypeInv, TypeOK
      <4> QED BY <2>3, <3>1, <4>1 DEF Read, TypeInv, TypeOK
    <3>2. CASE Leaves(r, EndOf(Head(rq[r])))
      <4>1. EndOf(Head(rq[r])) \in Gone
        BY DEF EndOf, Gone
      <4> QED BY <2>3, <3>2, <4>1, LeavesType DEF Read, TypeInv, TypeOK
    <3> QED BY <2>3, <3>1, <3>2 DEF Read
  <2>4. CASE Leave(r)
    <3>1. "left" \in Gone /\ Leaves(r, "left")
      BY <2>4 DEF Leave, Gone
    <3>2. cancelled' \subseteq Nat
      BY <2>4 DEF Leave, TypeInv, TypeOK
    <3> QED BY <2>4, <3>1, <3>2, LeavesType DEF Leave, TypeInv, TypeOK
  <2>5. CASE SendRelease(r)
    <3>1. queue' \in Seq(Items) /\ releasing' \subseteq Requests
      BY <2>5 DEF SendRelease, TypeInv, TypeOK, Items
    <3> QED BY <2>5, <3>1 DEF SendRelease, TypeInv, TypeOK
  <2> QED BY <2>1, <2>2, <2>3, <2>4, <2>5
<1>4. TypeOK'
  BY <1>1, <1>3 DEF TypeInv, TypeOK
<1> QED BY <1>2, <1>4 DEF TypeInv

LEMMA TypeInvStep ==
    ASSUME TypeInv, [Next]_vars
    PROVE  TypeInv'
<1>1. CASE Poll  BY <1>1, PollType
<1>2. CASE IdleRelease
  <2>1. /\ gen' = FALSE /\ nextUid' = 0 /\ waiting' = {} /\ prompt' = {}
        /\ chunks' = 0 /\ rows' = {} /\ made' \in [Requests -> Nat]
        /\ harm' \subseteq {"drop", "lost", "orphan", "stop"}
    BY <1>2, DropType DEF IdleRelease, TypeInv
  <2>2. /\ released' = TRUE /\ faults' = faults + 1 /\ cancelled' = {}
        /\ UNCHANGED <<queue, client, rq, releasing, pc, hand, active, uid,
                       stopping, serialize>>
    BY <1>2 DEF IdleRelease
  <2>3. faults + 1 \in Nat /\ {} \subseteq Nat
    BY DEF TypeInv, TypeOK
  <2> QED BY <2>1, <2>2, <2>3 DEF TypeInv, TypeOK, HandOk
<1>3. CASE Halt
  BY <1>3 DEF Halt, TypeInv, TypeOK, HandOk, handlers, batch, history
<1>4. CASE Release  BY <1>4, ReleaseType
<1>5. CASE Insert  BY <1>5, InsertType
<1>6. CASE InsertFails  BY <1>6, InsertFailsType
<1>7. CASE EmbedFails  BY <1>7, FailType DEF EmbedFails
<1>8. CASE Step  BY <1>8, StepType
<1>9. CASE StepFails  BY <1>9, FailType DEF StepFails
<1>10. CASE Flush  BY <1>10, FlushType
<1>11. CASE Stop
  BY <1>11 DEF Stop, TypeInv, TypeOK, HandOk, handlers, batch
<1>12. CASE \E r \in Requests :
              Submit(r) \/ Start(r) \/ Read(r) \/ Leave(r) \/ SendRelease(r)
  BY <1>12, HandlerType
<1>13. CASE UNCHANGED vars
  BY <1>13 DEF vars, TypeInv, TypeOK, HandOk
<1> QED BY <1>1, <1>2, <1>3, <1>4, <1>5, <1>6, <1>7, <1>8, <1>9, <1>10, <1>11,
           <1>12, <1>13 DEF Next, Thread

LEMMA TypeInvInit == Init => TypeInv
<1> SUFFICES ASSUME Init PROVE TypeInv
  OBVIOUS
<1>1. HandOk
  BY FS_EmptySet, EmptySeq, LimitsAssumption DEF Init, HandOk
<1>2. TypeOK
  <2>1. serialize \in BOOLEAN
    BY LimitsAssumption DEF Init
  <2>2. <<>> \in Seq(Items) /\ [r \in Requests |-> <<>>] \in [Requests -> Seq(Messages)]
    BY MessageTypes
  <2> QED BY <2>1, <2>2 DEF Init, TypeOK
<1> QED BY <1>1, <1>2 DEF TypeInv

\* Every variable keeps its type, whatever requests, slots and faults there are.
THEOREM TypesHold == Spec => []TypeOK
<1>1. Spec => []TypeInv
  BY TypeInvInit, TypeInvStep, PTL DEF Spec
<1> QED BY <1>1, PTL DEF TypeInv

-----------------------------------------------------------------------------
(* Rows, uids and the requests that are answered.                          *)

Held == waiting \cup prompt \cup rows

\* The generator is gone with its rows, its rows have old uids, and no other
\* request that is answered has the uid of one of them.
UidsOk ==
    /\ ~gen => Held = {} /\ nextUid = 0
    /\ \A r \in Held : uid[r] < nextUid
    /\ \A r \in Held, q \in active : uid[q] = uid[r] => q = r

\* With serialized requests what is in hand is alone.
AloneInHand ==
    serialize => /\ "orphan" \notin harm
                 /\ hand # <<>> => active = {} /\ Len(hand) = 1

BatchInv == UidsOk /\ ActiveHasRow /\ RowsBounded /\ AloneInHand

\* A step of the generator only takes rows away.
LEMMA ShrinkKeepsUids ==
    ASSUME UidsOk, Held' \subseteq Held, active' \subseteq active,
           UNCHANGED <<uid, nextUid, gen>>
    PROVE  UidsOk'
<1> QED BY DEF UidsOk

\* A prefill keeps the rows within the limit.
LEMMA PrefillBounded ==
    ASSUME TypeOK, RowsBounded, NEW R \in SUBSET rows, Prefill(R)
    PROVE  RowsBounded'
<1>1. R \in SUBSET Requests /\ prompt \in SUBSET Requests /\ rows \in SUBSET Requests
  BY DEF TypeOK
<1>2. /\ Cardinality(R) \in Nat /\ Cardinality(prompt) \in Nat
      /\ Cardinality(rows) \in Nat /\ Cardinality(R) <= Cardinality(rows)
  BY <1>1, FiniteSets, FS_Subset
<1>3. ASSUME NEW S \in SUBSET Requests
      PROVE  /\ Cardinality(R \cup S) <= Cardinality(R) + Cardinality(S)
             /\ Cardinality(R \cup S) \in Nat /\ Cardinality(S) \in Nat
  <2>1. IsFiniteSet(R) /\ IsFiniteSet(S) /\ Cardinality(R \cap S) \in Nat
        /\ Cardinality(S) \in Nat
    BY <1>1, FiniteSets
  <2>2. Cardinality(R \cup S) = Cardinality(R) + Cardinality(S) - Cardinality(R \cap S)
    BY <2>1, FS_Union
  <2>3. Cardinality(R \cup S) \in Nat
    BY <1>1, FiniteSets
  <2> QED BY <1>2, <2>1, <2>2, <2>3
<1>4. Cardinality({}) = 0 /\ MaxNumSeqs \in Nat /\ PrefillBatch \in Nat
  BY FS_EmptySet, LimitsAssumption
<1>5. CASE rows' = R /\ UNCHANGED prompt
  BY <1>2, <1>4, <1>5 DEF RowsBounded
<1>6. CASE rows' = R \cup prompt /\ prompt' = {}
  BY <1>1, <1>2, <1>3, <1>4, <1>6 DEF RowsBounded
<1>7. CASE /\ Room(R) >= PrefillBatch
           /\ \E taken \in Taken :
                  \/ rows' = R \cup taken /\ prompt' = prompt /\ prompt = {}
                  \/ rows' = R /\ prompt' = taken
  <2>1. PICK taken \in Taken :
                  \/ rows' = R \cup taken /\ prompt' = prompt /\ prompt = {}
                  \/ rows' = R /\ prompt' = taken
    BY <1>7
  <2>2. taken \in SUBSET Requests /\ Cardinality(waiting) \in Nat
    BY FiniteSets DEF Taken, TypeOK
  <2>3. Cardinality(taken) <= PrefillBatch
    BY <1>4, <2>2 DEF Taken, Min2
  <2>4. Cardinality(R) + Cardinality(taken) <= MaxNumSeqs
    <3>1. PrefillBatch <= MaxNumSeqs - Cardinality(R) /\ Cardinality(taken) \in Nat
      BY <1>3, <1>7, <2>2 DEF Room
    <3> QED BY <1>2, <1>4, <2>3, <3>1
  <2>5. /\ Cardinality(R \cup taken) <= Cardinality(R) + Cardinality(taken)
        /\ Cardinality(R \cup taken) \in Nat /\ Cardinality(taken) \in Nat
    BY <1>3, <2>2
  <2>6. CASE rows' = R \cup taken /\ prompt' = prompt /\ prompt = {}
    BY <1>2, <1>4, <2>4, <2>5, <2>6 DEF RowsBounded
  <2>7. CASE rows' = R /\ prompt' = taken
    BY <1>2, <1>4, <2>4, <2>5, <2>7 DEF RowsBounded
  <2> QED BY <2>1, <2>6, <2>7
<1> QED BY <1>5, <1>6, <1>7 DEF Prefill

\* What every decode step does to the invariant.
LEMMA DecodeKeepsBatch ==
    ASSUME TypeOK, BatchInv, Decode, UNCHANGED <<uid, hand, serialize, harm>>
    PROVE  BatchInv'
<1>1. PICK stop \in SUBSET rows :
        LET done == stop \cup {r \in rows : made[r] + 1 >= MaxTokens}
        IN  /\ Prefill(rows \ done)
            /\ active' = ActiveAfter(done)
            /\ UNCHANGED <<gen, nextUid>>
  BY DEF Decode
<1> DEFINE done == stop \cup {r \in rows : made[r] + 1 >= MaxTokens}
<1>2. /\ Prefill(rows \ done) /\ active' = active \ Receivers(done)
      /\ UNCHANGED <<gen, nextUid>>
  BY <1>1 DEF ActiveAfter
<1>3. Held' = waiting \cup prompt \cup (rows \ done)
  BY <1>2, PrefillKeeps DEF Held
<1> HIDE DEF done
<1>4. UidsOk'
  BY <1>2, <1>3, ShrinkKeepsUids DEF BatchInv, Held
<1>5. ActiveHasRow'
  <2> SUFFICES ASSUME "orphan" \notin harm
               PROVE  (active' # {} => gen') /\ active' \subseteq Held'
    BY DEF ActiveHasRow, Held
  <2>1. (active # {} => gen) /\ active \subseteq Held
    BY DEF BatchInv, ActiveHasRow, Held
  <2>2. \A r \in active : r \in done => r \in Receivers(done)
    BY DEF Receivers
  <2> QED BY <1>2, <1>3, <2>1, <2>2 DEF Held
<1>6. RowsBounded'
  BY <1>2, PrefillBounded DEF BatchInv
<1>7. AloneInHand'
  BY <1>2 DEF BatchInv, AloneInHand
<1> QED BY <1>4, <1>5, <1>6, <1>7 DEF BatchInv

\* insert: the new row has a uid no row has, and whoever else had it is
\* answered no more.
LEMMA EnterKeepsBatch ==
    ASSUME TypeInv, BatchInv, hand # <<>>, Head(hand) \in Requests,
           Enter(Head(hand))
    PROVE  BatchInv'
<1> DEFINE r == Head(hand)
<1>1. /\ waiting' = waiting \cup {r} /\ uid' = [uid EXCEPT ![r] = nextUid]
      /\ nextUid' = nextUid + 1
      /\ active' = {q \in active : uid[q] # nextUid} \cup {r}
      /\ gen' = TRUE /\ hand' = Tail(hand)
      /\ UNCHANGED <<prompt, rows, serialize, harm>>
  BY DEF Enter, FreshUid, history
<1>2. r \in Requests /\ uid \in [Requests -> Nat] /\ nextUid \in Nat
      /\ active \subseteq Requests /\ Held \subseteq Requests
  BY DEF TypeInv, TypeOK, Held
<1>3. Held' = Held \cup {r}
  BY <1>1 DEF Held
<1> HIDE DEF r
<1>4. uid'[r] = nextUid /\ \A q \in Requests : q # r => uid'[q] = uid[q]
  BY <1>1, <1>2
<1>5. UidsOk'
  <2>1. \A h \in Held' : uid'[h] < nextUid'
    BY <1>1, <1>2, <1>3, <1>4 DEF BatchInv, UidsOk
  <2>2. ASSUME NEW h \in Held', NEW q \in active', uid'[q] = uid'[h]
        PROVE  q = h
    <3>1. CASE h = r
      BY <1>1, <1>2, <1>4, <2>2, <3>1
    <3>2. CASE h # r /\ q = r
      <4>1. h \in Held /\ uid[h] < nextUid /\ uid'[h] = uid[h] /\ uid[h] \in Nat
        BY <1>2, <1>3, <1>4, <3>2 DEF BatchInv, UidsOk
      <4> QED BY <1>2, <1>4, <2>2, <3>2, <4>1
    <3>3. CASE h # r /\ q # r
      BY <1>1, <1>2, <1>3, <1>4, <2>2, <3>3 DEF BatchInv, UidsOk
    <3> QED BY <3>1, <3>2, <3>3
  <2> QED BY <1>1, <2>1, <2>2 DEF UidsOk
<1>6. ActiveHasRow'
  BY <1>1, <1>3 DEF BatchInv, ActiveHasRow, Held
<1>7. RowsBounded'
  BY <1>1 DEF BatchInv, RowsBounded
<1>8. AloneInHand'
  <2>1. hand \in Seq(Items)
    BY DEF TypeInv, TypeOK
  <2>2. Len(hand) = 1 => hand' = <<>>
    BY <1>1, <2>1, TailFacts
  <2> QED BY <1>1, <2>2 DEF BatchInv, AloneInHand
<1> QED BY <1>5, <1>6, <1>7, <1>8 DEF BatchInv

\* Dropping the generator leaves orphans only if it was told so in harm.
LEMMA DropKeepsBatch ==
    ASSUME TypeInv, BatchInv, DropGenerator, UNCHANGED <<active, uid, serialize>>,
           serialize => active = {},
           hand' # <<>> => (serialize => Len(hand') = 1)
    PROVE  BatchInv'
<1>1. /\ gen' = FALSE /\ nextUid' = 0 /\ waiting' = {} /\ prompt' = {}
      /\ rows' = {} /\ harm' = harm \cup (IF gen THEN {"drop"} ELSE {})
                    \cup (IF active # {} THEN {"orphan"} ELSE {})
  BY DEF DropGenerator
<1>2. UidsOk'
  BY <1>1 DEF UidsOk, Held
<1>3. ActiveHasRow'
  BY <1>1 DEF ActiveHasRow
<1>4. RowsBounded'
  BY <1>1, FS_EmptySet, LimitsAssumption DEF RowsBounded
<1>5. AloneInHand'
  BY <1>1 DEF AloneInHand, BatchInv
<1> QED BY <1>2, <1>3, <1>4, <1>5 DEF BatchInv

LEMMA FailKeepsBatch ==
    ASSUME BatchInv, NEW kind, Fail(kind)
    PROVE  BatchInv'
<1>1. /\ gen' = FALSE /\ nextUid' = 0 /\ waiting' = {} /\ prompt' = {}
      /\ rows' = {} /\ active' = {} /\ hand' = <<>>
      /\ harm' = harm \cup {"drop"} \cup (IF hand # <<>> THEN {"lost"} ELSE {})
      /\ UNCHANGED <<uid, serialize>>
  BY DEF Fail
<1>2. UidsOk' /\ ActiveHasRow' /\ AloneInHand'
  BY <1>1 DEF UidsOk, Held, ActiveHasRow, AloneInHand, BatchInv
<1>3. RowsBounded'
  BY <1>1, FS_EmptySet, LimitsAssumption DEF RowsBounded
<1> QED BY <1>2, <1>3 DEF BatchInv

\* A poll drops rows together with their requests.
LEMMA PollKeepsBatch ==
    ASSUME TypeInv, BatchInv, Poll
    PROVE  BatchInv'
<1> DEFINE n == Min2(Slots, Len(queue))
           gone == IF gen THEN {r \in active : uid[r] \in cancelled} ELSE {}
<1>1. /\ hand' = SubSeq(queue, 1, n) /\ active' = active \ gone
      /\ RemoveRows(gone) /\ UNCHANGED <<uid, serialize, harm>>
  BY DEF Poll, history
<1> HIDE DEF gone
<1>2. /\ Held' \subseteq Held /\ Held \ gone \subseteq Held'
      /\ rows' \subseteq rows /\ prompt' \subseteq prompt
      /\ UNCHANGED <<gen, nextUid>>
  BY <1>1 DEF RemoveRows, Held
<1>3. UidsOk'
  BY <1>1, <1>2, ShrinkKeepsUids DEF BatchInv
<1>4. ActiveHasRow'
  BY <1>1, <1>2 DEF BatchInv, ActiveHasRow, Held
<1>5. RowsBounded'
  <2>1. rows \in SUBSET Requests /\ prompt \in SUBSET Requests
    BY DEF TypeInv, TypeOK
  <2>2. Cardinality(rows') <= Cardinality(rows) /\ Cardinality(prompt') <= Cardinality(prompt)
    BY <1>2, <2>1, FiniteSets, FS_Subset
  <2>3. /\ Cardinality(rows) \in Nat /\ Cardinality(prompt) \in Nat
        /\ Cardinality(rows') \in Nat /\ Cardinality(prompt') \in Nat
        /\ MaxNumSeqs \in Nat
    BY <1>2, <2>1, FiniteSets, LimitsAssumption
  <2> QED BY <2>2, <2>3 DEF BatchInv, RowsBounded
<1>6. AloneInHand'
  <2>1. n \in Nat /\ n <= Slots /\ n <= Len(queue) /\ Slots \in Nat
        /\ queue \in Seq(Items)
    BY SlotsType DEF Poll, TypeInv, TypeOK
  <2>2. Len(hand') = n /\ hand' \in Seq(Items)
    <3> HIDE DEF n
    <3> QED BY <1>1, <2>1, SplitType
  <2>3. hand' # <<>> => n > 0
    BY <2>1, <2>2, EmptySeq
  <2>4. serialize => Slots \in {0, 1} /\ (active # {} => Slots = 0)
    BY DEF Slots
  <2> HIDE DEF n
  <2> QED BY <1>1, <2>1, <2>2, <2>3, <2>4 DEF BatchInv, AloneInHand
<1> QED BY <1>3, <1>4, <1>5, <1>6 DEF BatchInv

\* An item is a request or a release_kv.
LEMMA HandIsRequest ==
    ASSUME TypeInv, hand # <<>>, Head(hand) # ReleaseKv
    PROVE  Head(hand) \in Requests
<1>1. hand \in Seq(Items)
  BY DEF TypeInv, TypeOK
<1>2. Head(hand) \in Items
  BY <1>1, TailFacts
<1> QED BY <1>2 DEF Items

LEMMA BatchStep ==
    ASSUME TypeInv, BatchInv, [Next]_vars
    PROVE  BatchInv'
<1> USE DEF batch, history, handlers
<1>1. CASE Poll  BY <1>1, PollKeepsBatch
<1>2. CASE IdleRelease
  <2>1. hand = <<>> /\ active = {} /\ UNCHANGED <<hand, active, uid, serialize>>
        /\ DropGenerator
    BY <1>2 DEF IdleRelease, TypeInv, HandOk
  <2> QED BY <2>1, DropKeepsBatch
<1>3. CASE Halt
  BY <1>3 DEF Halt, BatchInv, UidsOk, Held, ActiveHasRow, RowsBounded, AloneInHand
<1>4. CASE Release
  <2>1. hand # <<>> /\ hand \in Seq(Items) /\ hand' = Tail(hand) /\ DropGenerator
        /\ UNCHANGED <<active, uid, serialize>>
    BY <1>4 DEF Release, TypeInv, HandOk, TypeOK
  <2>2. Len(hand) = 1 => hand' = <<>>
    BY <2>1, TailFacts
  <2>3. serialize => active = {} /\ Len(hand) = 1
    BY <2>1 DEF BatchInv, AloneInHand
  <2>4. serialize => hand' = <<>>
    BY <2>2, <2>3
  <2> QED BY <2>1, <2>3, <2>4, DropKeepsBatch
<1>5. CASE Insert
  <2>1. hand # <<>> /\ Head(hand) \in Requests
    BY <1>5, HandIsRequest DEF Insert, TypeInv, HandOk
  <2>2. CASE Enter(Head(hand))
    BY <2>1, <2>2, EnterKeepsBatch
  <2>3. CASE UNCHANGED <<hand, active, uid, batch, serialize, harm>>
    BY <2>3 DEF BatchInv, UidsOk, Held, ActiveHasRow, RowsBounded, AloneInHand
  <2> QED BY <1>5, <2>2, <2>3 DEF Insert
<1>6. CASE InsertFails
  <2>1. hand # <<>> /\ hand \in Seq(Items)
    BY <1>6 DEF InsertFails, TypeInv, HandOk, TypeOK
  <2>2. Len(hand) = 1 => hand' = <<>>
    BY <1>6, <2>1, TailFacts DEF InsertFails
  <2>3. /\ gen' = TRUE /\ UNCHANGED <<active, uid, nextUid, waiting, prompt, rows,
                                      serialize, harm>>
    BY <1>6 DEF InsertFails
  <2>4. UidsOk' /\ ActiveHasRow' /\ RowsBounded'
    BY <2>3 DEF BatchInv, UidsOk, Held, ActiveHasRow, RowsBounded
  <2>5. AloneInHand'
    BY <2>1, <2>2, <2>3 DEF BatchInv, AloneInHand
  <2> QED BY <2>4, <2>5 DEF BatchInv
<1>7. CASE EmbedFails  BY <1>7, FailKeepsBatch DEF EmbedFails
<1>8. CASE Step
  <2>1. CASE Decode
    BY <1>8, <2>1, DecodeKeepsBatch DEF Step, TypeInv
  <2>2. CASE UNCHANGED <<rq, active, batch>>
    BY <1>8, <2>2 DEF Step, BatchInv, UidsOk, Held, ActiveHasRow, RowsBounded, AloneInHand
  <2> QED BY <1>8, <2>1, <2>2 DEF Step
<1>9. CASE StepFails  BY <1>9, FailKeepsBatch DEF StepFails
<1>10. CASE Flush
  <2>1. CASE Decode /\ UNCHANGED <<hand, uid, serialize, history>>
    BY <2>1, DecodeKeepsBatch DEF TypeInv
  <2>2. CASE Enter(Head(hand))
    <3>1. hand # <<>> /\ Head(hand) \in Requests
      BY <1>10, HandIsRequest DEF Flush, TypeInv, HandOk
    <3> QED BY <2>2, <3>1, EnterKeepsBatch
  <2> QED BY <1>10, <2>1, <2>2 DEF Flush
<1>11. CASE Stop
  BY <1>11 DEF Stop, BatchInv, UidsOk, Held, ActiveHasRow, RowsBounded, AloneInHand
<1>12. CASE \E r \in Requests :
              Submit(r) \/ Start(r) \/ Read(r) \/ Leave(r) \/ SendRelease(r)
  <2>1. UNCHANGED thread
    BY <1>12 DEF Submit, Start, Read, Leave, SendRelease
  <2> QED BY <2>1 DEF thread, BatchInv, UidsOk, Held, ActiveHasRow, RowsBounded, AloneInHand
<1>13. CASE UNCHANGED vars
  BY <1>13 DEF vars, BatchInv, UidsOk, Held, ActiveHasRow, RowsBounded, AloneInHand
<1> QED BY <1>1, <1>2, <1>3, <1>4, <1>5, <1>6, <1>7, <1>8, <1>9, <1>10, <1>11,
           <1>12, <1>13 DEF Next, Thread

LEMMA BatchInit == Init => BatchInv
<1> QED BY FS_EmptySet, LimitsAssumption
        DEF Init, BatchInv, UidsOk, Held, ActiveHasRow, RowsBounded, AloneInHand

LEMMA BatchHolds == Spec => [](TypeInv /\ BatchInv)
<1> QED BY TypeInvInit, TypeInvStep, BatchInit, BatchStep, PTL DEF Spec

\* max_num_seqs bounds the rows in memory, whatever the prefill batch size is.
THEOREM RowsAreBounded == Spec => []RowsBounded
<1> QED BY BatchHolds, PTL DEF BatchInv

\* Whoever is answered has a row, until a release_kv comes in early.
THEOREM ActiveHaveRows == Spec => []ActiveHasRow
<1> QED BY BatchHolds, PTL DEF BatchInv

\* No token is ever sent to another request, although generators are dropped,
\* their uids start again at 0 and orphans keep theirs.
THEOREM AnswersAreApart == Spec => []AnswersStayApart
<1>1. UidsOk => AnswersStayApart
  BY DEF UidsOk, Held, AnswersStayApart, Receivers
<1> QED BY <1>1, BatchHolds, PTL DEF BatchInv

\* With serialized requests a release_kv drops no request.
THEOREM SerializedReleases == Spec => []SerializedReleaseIsSafe
<1>1. AloneInHand => SerializedReleaseIsSafe
  BY DEF AloneInHand, SerializedReleaseIsSafe
<1> QED BY <1>1, BatchHolds, PTL DEF BatchInv

\* Whoever is answered has a row, with serialized requests whatever happens.
THEOREM AnsweredHaveRows == Spec => []AnsweredHasRow
<1>1. ActiveHasRow /\ AloneInHand => AnsweredHasRow
  BY DEF ActiveHasRow, AloneInHand, AnsweredHasRow
<1> QED BY <1>1, BatchHolds, PTL DEF BatchInv

-----------------------------------------------------------------------------
(* Sequences of items and of messages.                                     *)

\* A request is in the sequence at most once.
Once(s) == \A i, j \in 1 .. Len(s) : s[i] = s[j] /\ s[i] # ReleaseKv => i = j

\* No end has been sent yet.
Unended(s) == \A i \in 1 .. Len(s) : s[i] \notin Final

\* After an end comes at most a closing None.
EndsWell(s) ==
    \A i \in 1 .. Len(s) :
        s[i] \in Final => \/ i = Len(s)
                          \/ i + 1 = Len(s) /\ s[i] # "none" /\ s[i + 1] = "none"

\* A None only closes an answer that ended.
NonesClose(s) ==
    \A i \in 1 .. Len(s) : s[i] = "none" => i > 1 /\ s[i - 1] \in {"last", "error"}

ContextFirst(s) == \A i \in 2 .. Len(s) : s[i] # "context"

LEMMA InElements ==
    ASSUME NEW S, NEW s \in Seq(S)
    PROVE  \A e : e \in Elements(s) <=> \E i \in 1 .. Len(s) : s[i] = e
<1>1. DOMAIN s = 1 .. Len(s)
  BY LenProperties
<1> QED BY <1>1 DEF Elements

LEMMA ElementsFacts ==
    ASSUME NEW S, NEW s \in Seq(S)
    PROVE  /\ \A e : e \in Elements(s) <=> \E i \in 1 .. Len(s) : s[i] = e
           /\ Elements(<<>>) = {}
           /\ \A e \in S : Elements(Append(s, e)) = Elements(s) \cup {e}
           /\ s # <<>> => Elements(s) = {Head(s)} \cup Elements(Tail(s))
<1>1. DOMAIN s = 1 .. Len(s) /\ Len(s) \in Nat
  BY LenProperties
<1>2. \A e : e \in Elements(s) <=> \E i \in 1 .. Len(s) : s[i] = e
  BY <1>1 DEF Elements
<1>3. Elements(<<>>) = {}
  BY DEF Elements
<1>4. ASSUME NEW e \in S
      PROVE  Elements(Append(s, e)) = Elements(s) \cup {e}
  <2>1. /\ Append(s, e) \in Seq(S) /\ Len(Append(s, e)) = Len(s) + 1
        /\ Append(s, e)[Len(s) + 1] = e
        /\ \A i \in 1 .. Len(s) : Append(s, e)[i] = s[i]
    OBVIOUS
  <2>2. DOMAIN Append(s, e) = 1 .. Len(s) + 1
    BY <2>1, LenProperties
  <2>3. \A x : x \in Elements(Append(s, e)) <=> \E i \in 1 .. Len(s) + 1 : Append(s, e)[i] = x
    BY <2>2 DEF Elements
  <2>4. \A i \in 1 .. Len(s) + 1 : i \in 1 .. Len(s) \/ i = Len(s) + 1
    BY <1>1
  <2>5. \A i \in 1 .. Len(s) : i \in 1 .. Len(s) + 1
    BY <1>1
  <2>6. Len(s) + 1 \in 1 .. Len(s) + 1
    BY <1>1
  <2> QED BY <1>2, <2>1, <2>3, <2>4, <2>5, <2>6
<1>5. ASSUME s # <<>>
      PROVE  Elements(s) = {Head(s)} \cup Elements(Tail(s))
  <2>1. /\ Tail(s) \in Seq(S) /\ Len(Tail(s)) = Len(s) - 1
        /\ \A i \in 1 .. Len(Tail(s)) : Tail(s)[i] = s[i + 1]
        /\ Head(s) = s[1] /\ Len(s) > 0
    BY <1>5, HeadTailProperties, EmptySeq
  <2>2. DOMAIN Tail(s) = 1 .. Len(s) - 1
    BY <2>1, LenProperties
  <2>3. \A x : x \in Elements(Tail(s)) <=> \E i \in 1 .. Len(s) - 1 : Tail(s)[i] = x
    BY <2>2 DEF Elements
  <2>4. \A i \in 1 .. Len(s) - 1 : i + 1 \in 1 .. Len(s) /\ Tail(s)[i] = s[i + 1]
    BY <1>1, <2>1
  <2>5. \A i \in 1 .. Len(s) : i # 1 => i - 1 \in 1 .. Len(s) - 1 /\ Tail(s)[i - 1] = s[i]
    BY <1>1, <2>1
  <2>6. 1 \in 1 .. Len(s)
    BY <1>1, <2>1
  <2> QED BY <1>2, <2>1, <2>3, <2>4, <2>5, <2>6
<1> QED BY <1>2, <1>3, <1>4, <1>5

LEMMA OnceAppend ==
    ASSUME NEW s \in Seq(Items), NEW e \in Items, Once(s),
           e = ReleaseKv \/ e \notin Elements(s)
    PROVE  Once(Append(s, e))
<1>1. /\ Len(Append(s, e)) = Len(s) + 1 /\ Append(s, e)[Len(s) + 1] = e
      /\ \A i \in 1 .. Len(s) : Append(s, e)[i] = s[i] /\ Len(s) \in Nat
  OBVIOUS
<1>2. \A i \in 1 .. Len(s) + 1 : i \in 1 .. Len(s) \/ i = Len(s) + 1
  BY <1>1
<1>3. e = ReleaseKv \/ \A i \in 1 .. Len(s) : s[i] # e
  BY ElementsFacts
<1> QED BY <1>1, <1>2, <1>3 DEF Once

LEMMA OnceTail ==
    ASSUME NEW s \in Seq(Items), s # <<>>, Once(s)
    PROVE  /\ Once(Tail(s))
           /\ Head(s) # ReleaseKv => Head(s) \notin Elements(Tail(s))
<1>1. /\ Tail(s) \in Seq(Items) /\ Len(Tail(s)) = Len(s) - 1
      /\ \A i \in 1 .. Len(Tail(s)) : Tail(s)[i] = s[i + 1]
      /\ Head(s) = s[1] /\ Len(s) > 0 /\ Len(s) \in Nat
  BY HeadTailProperties, EmptySeq
<1>2. \A i \in 1 .. Len(s) - 1 : i + 1 \in 1 .. Len(s) /\ Tail(s)[i] = s[i + 1] /\ i + 1 # 1
  BY <1>1
<1>3. 1 \in 1 .. Len(s)
  BY <1>1
<1>4. Once(Tail(s))
  <2> SUFFICES ASSUME NEW i \in 1 .. Len(s) - 1, NEW j \in 1 .. Len(s) - 1,
                      Tail(s)[i] = Tail(s)[j], Tail(s)[i] # ReleaseKv
               PROVE  i = j
    BY <1>1 DEF Once
  <2>1. i + 1 = j + 1
    BY <1>2 DEF Once
  <2> QED BY <2>1, <1>1
<1>5. ASSUME Head(s) # ReleaseKv, Head(s) \in Elements(Tail(s))
      PROVE  FALSE
  <2>1. PICK i \in 1 .. Len(Tail(s)) : Tail(s)[i] = Head(s)
    BY <1>1, <1>5, InElements
  <2> QED BY <1>1, <1>2, <1>3, <1>5, <2>1 DEF Once
<1> QED BY <1>4, <1>5

LEMMA OnceSplit ==
    ASSUME NEW s \in Seq(Items), NEW n \in Nat, n <= Len(s), Once(s)
    PROVE  LET a == SubSeq(s, 1, n)
               b == SubSeq(s, n + 1, Len(s))
           IN  /\ Once(a) /\ Once(b) /\ Elements(a) \cup Elements(b) = Elements(s)
               /\ Elements(a) \cap Elements(b) \subseteq {ReleaseKv}
<1> DEFINE a == SubSeq(s, 1, n)
           b == SubSeq(s, n + 1, Len(s))
<1>1. /\ a \in Seq(Items) /\ Len(a) = n /\ b \in Seq(Items) /\ Len(b) = Len(s) - n
      /\ \A i \in 1 .. n : a[i] = s[i]
      /\ \A i \in 1 .. Len(s) - n : b[i] = s[n + i]
      /\ Len(s) \in Nat
  BY SplitType
<1> HIDE DEF a, b
<1>2. /\ \A i \in 1 .. n : i \in 1 .. Len(s)
      /\ \A i \in 1 .. Len(s) - n : n + i \in 1 .. Len(s)
      /\ \A i \in 1 .. Len(s) : i \in 1 .. n \/ (i - n \in 1 .. Len(s) - n /\ n + (i - n) = i)
      /\ \A i \in 1 .. n, j \in 1 .. Len(s) - n : i # n + j
      /\ \A i, j \in 1 .. Len(s) - n : n + i = n + j => i = j
  BY <1>1
<1>3. Once(a)
  BY <1>1, <1>2 DEF Once
<1>4. Once(b)
  BY <1>1, <1>2 DEF Once
<1>5. /\ \A e : e \in Elements(s) <=> \E i \in 1 .. Len(s) : s[i] = e
      /\ \A e : e \in Elements(a) <=> \E i \in 1 .. n : a[i] = e
      /\ \A e : e \in Elements(b) <=> \E i \in 1 .. Len(s) - n : b[i] = e
  <2>1. \A e : e \in Elements(s) <=> \E i \in 1 .. Len(s) : s[i] = e
    BY InElements
  <2>2. \A e : e \in Elements(a) <=> \E i \in 1 .. Len(a) : a[i] = e
    BY <1>1, InElements
  <2>3. \A e : e \in Elements(b) <=> \E i \in 1 .. Len(b) : b[i] = e
    BY <1>1, InElements
  <2> QED BY <1>1, <2>1, <2>2, <2>3
<1>6. Elements(a) \cup Elements(b) = Elements(s)
  <2>1. \A e : e \in Elements(a) \/ e \in Elements(b) => e \in Elements(s)
    BY <1>1, <1>2, <1>5
  <2>2. ASSUME NEW e \in Elements(s)
        PROVE  e \in Elements(a) \/ e \in Elements(b)
    <3>1. PICK i \in 1 .. Len(s) : s[i] = e
      BY <1>5
    <3>2. CASE i \in 1 .. n
      BY <1>1, <1>5, <3>1, <3>2
    <3>3. CASE i - n \in 1 .. Len(s) - n /\ n + (i - n) = i
      <4>1. b[i - n] = e
        BY <1>1, <3>1, <3>3
      <4> QED BY <1>5, <3>3, <4>1
    <3> QED BY <1>2, <3>2, <3>3
  <2> QED BY <2>1, <2>2
<1>7. Elements(a) \cap Elements(b) \subseteq {ReleaseKv}
  <2> SUFFICES ASSUME NEW e, e \in Elements(a), e \in Elements(b), e # ReleaseKv
               PROVE  FALSE
    OBVIOUS
  <2>1. PICK i \in 1 .. n : a[i] = e
    BY <1>5
  <2>2. PICK j \in 1 .. Len(s) - n : b[j] = e
    BY <1>5
  <2>3. s[i] = e /\ s[n + j] = e /\ i \in 1 .. Len(s) /\ n + j \in 1 .. Len(s) /\ i # n + j
    BY <1>1, <1>2, <2>1, <2>2
  <2> QED BY <2>3 DEF Once
<1> QED BY <1>3, <1>4, <1>6, <1>7 DEF a, b

\* What follows an answer that has not ended.
LEMMA MailFacts ==
    ASSUME NEW s \in Seq(Messages), NEW e \in Seq(Messages), Unended(s),
           e \in {<<"token">>, <<"none">>, <<"last", "none">>, <<"error", "none">>}
    PROVE  /\ EndsWell(s \o e)
           /\ e = <<"token">> => Unended(s \o e)
           /\ e # <<"token">> => ~Unended(s \o e)
           /\ e # <<"none">> /\ NonesClose(s) => NonesClose(s \o e)
           /\ ContextFirst(s) => ContextFirst(s \o e)
           /\ (\A i \in 1 .. Len(s) : s[i] # "context")
                 => \A i \in 1 .. Len(s \o e) : (s \o e)[i] # "context"
<1>1. /\ Len(s) \in Nat /\ Len(e) \in Nat /\ s \o e \in Seq(Messages)
      /\ Len(s \o e) = Len(s) + Len(e)
      /\ \A i \in 1 .. Len(s) : (s \o e)[i] = s[i]
      /\ \A i \in 1 .. Len(e) : (s \o e)[Len(s) + i] = e[i]
  BY ConcatProperties, LenProperties
<1>2. \A i \in 1 .. Len(s) + Len(e) :
         i \in 1 .. Len(s) \/ (i - Len(s) \in 1 .. Len(e) /\ Len(s) + (i - Len(s)) = i)
  BY <1>1
<1>3. s # <<>> => Len(s) > 0
  BY EmptySeq
<1> DEFINE t == s \o e
<1>4. t \in Seq(Messages) /\ Len(t) = Len(s) + Len(e)
      /\ (\A i \in 1 .. Len(s) : t[i] = s[i])
      /\ (\A i \in 1 .. Len(e) : t[Len(s) + i] = e[i])
  BY <1>1
<1> HIDE DEF t
<1> SUFFICES /\ EndsWell(t)
             /\ e = <<"token">> => Unended(t)
             /\ e # <<"token">> => ~Unended(t)
             /\ e # <<"none">> /\ NonesClose(s) => NonesClose(t)
             /\ ContextFirst(s) => ContextFirst(t)
             /\ (\A i \in 1 .. Len(s) : s[i] # "context")
                   => \A i \in 1 .. Len(t) : t[i] # "context"
  BY DEF t
<1>5. CASE e = <<"token">> \/ e = <<"none">>
  <2>1. Len(e) = 1 /\ e[1] = (IF e = <<"token">> THEN "token" ELSE "none")
    BY <1>5
  <2>2. Len(t) = Len(s) + 1 /\ t[Len(s) + 1] = e[1]
        /\ \A i \in 1 .. Len(t) : i \in 1 .. Len(s) \/ i = Len(s) + 1
    BY <1>1, <1>2, <1>4, <2>1
  <2> QED BY <1>1, <1>3, <1>4, <1>5, <2>1, <2>2
          DEF EndsWell, Unended, NonesClose, ContextFirst, Final
<1>6. CASE e = <<"last", "none">> \/ e = <<"error", "none">>
  <2>1. Len(e) = 2 /\ e[1] \in {"last", "error"} /\ e[2] = "none"
    BY <1>6
  <2>2. Len(t) = Len(s) + 2 /\ t[Len(s) + 1] = e[1] /\ t[Len(s) + 2] = "none"
        /\ \A i \in 1 .. Len(t) : i \in 1 .. Len(s) \/ i = Len(s) + 1 \/ i = Len(s) + 2
    BY <1>1, <1>2, <1>4, <2>1
  <2>3. EndsWell(t) /\ ~Unended(t) /\ e # <<"token">> /\ e # <<"none">>
    BY <1>1, <1>4, <1>6, <2>1, <2>2 DEF EndsWell, Unended, Final
  <2>4. NonesClose(s) => NonesClose(t)
    BY <1>1, <1>4, <2>1, <2>2 DEF NonesClose
  <2>5. ContextFirst(s) => ContextFirst(t)
    BY <1>1, <1>3, <1>4, <2>1, <2>2 DEF ContextFirst
  <2>6. (\A i \in 1 .. Len(s) : s[i] # "context")
           => \A i \in 1 .. Len(t) : t[i] # "context"
    BY <1>1, <1>4, <2>1, <2>2
  <2> QED BY <2>3, <2>4, <2>5, <2>6
<1> QED BY <1>5, <1>6

\* What is left once the first message was read.
LEMMA ReadFacts ==
    ASSUME NEW s \in Seq(Messages), s # <<>>
    PROVE  /\ EndsWell(s) => EndsWell(Tail(s))
           /\ Unended(s) => Unended(Tail(s))
           /\ Head(s) \notin Final /\ Unended(Tail(s)) => Unended(s)
           /\ Head(s) \notin Final /\ NonesClose(s) => NonesClose(Tail(s))
           /\ NonesClose(s) => Head(s) # "none"
           /\ ContextFirst(s) => \A i \in 1 .. Len(Tail(s)) : Tail(s)[i] # "context"
<1> DEFINE t == Tail(s)
<1>1. /\ t \in Seq(Messages) /\ Len(t) = Len(s) - 1
      /\ \A i \in 1 .. Len(t) : t[i] = s[i + 1]
      /\ Head(s) = s[1] /\ Len(s) > 0 /\ Len(s) \in Nat
  BY HeadTailProperties, EmptySeq
<1> HIDE DEF t
<1>2. /\ \A i \in 1 .. Len(t) : i + 1 \in 2 .. Len(s) /\ i + 1 \in 1 .. Len(s)
                                  /\ (i + 1) - 1 = i /\ t[i] = s[i + 1]
      /\ \A i \in 1 .. Len(s) : i # 1 => i - 1 \in 1 .. Len(t) /\ t[i - 1] = s[i]
      /\ 1 \in 1 .. Len(s)
  BY <1>1
<1>3. EndsWell(s) => EndsWell(t)
  <2> SUFFICES ASSUME EndsWell(s), NEW i \in 1 .. Len(t), t[i] \in Final
               PROVE  \/ i = Len(t)
                      \/ i + 1 = Len(t) /\ t[i] # "none" /\ t[i + 1] = "none"
    BY DEF EndsWell
  <2>1. \/ i + 1 = Len(s)
        \/ (i + 1) + 1 = Len(s) /\ s[i + 1] # "none" /\ s[(i + 1) + 1] = "none"
    BY <1>2 DEF EndsWell
  <2>2. CASE i + 1 = Len(s)
    BY <1>1, <2>2
  <2>3. CASE (i + 1) + 1 = Len(s) /\ s[i + 1] # "none" /\ s[(i + 1) + 1] = "none"
    <3>1. i + 1 \in 1 .. Len(t) /\ i + 1 = Len(t)
      BY <1>1, <2>3
    <3> QED BY <1>2, <2>3, <3>1
  <2> QED BY <2>1, <2>2, <2>3
<1>4. Unended(s) => Unended(t)
  BY <1>2 DEF Unended
<1>5. Head(s) \notin Final /\ Unended(t) => Unended(s)
  BY <1>1, <1>2 DEF Unended
<1>6. Head(s) \notin Final /\ NonesClose(s) => NonesClose(t)
  <2> SUFFICES ASSUME Head(s) \notin Final, NonesClose(s), NEW i \in 1 .. Len(t), t[i] = "none"
               PROVE  i > 1 /\ t[i - 1] \in {"last", "error"}
    BY DEF NonesClose
  <2>1. s[i] \in {"last", "error"} /\ i \in 1 .. Len(s)
    BY <1>1, <1>2 DEF NonesClose
  <2>2. i # 1
    BY <1>1, <2>1 DEF Final
  <2> QED BY <1>2, <2>1, <2>2
<1>7. NonesClose(s) => Head(s) # "none"
  BY <1>1, <1>2 DEF NonesClose
<1>8. ContextFirst(s) => \A i \in 1 .. Len(t) : t[i] # "context"
  BY <1>2 DEF ContextFirst
<1> QED BY <1>3, <1>4, <1>5, <1>6, <1>7, <1>8 DEF t

-----------------------------------------------------------------------------
(* What a step of the thread delivers.                                     *)

Pending == Elements(hand) \cup Elements(queue)

OnceInv ==
    /\ Once(hand) /\ Once(queue)
    /\ Elements(hand) \cap Elements(queue) \subseteq {ReleaseKv}

\* The answer of one request: only a listener has messages, they end at most
\* once, and an answer that is due has its request queued, in hand or active.
MailOk(r) ==
    /\ client[r] \notin Listening => rq[r] = <<>>
    /\ EndsWell(rq[r])
    /\ r \in active => Unended(rq[r]) /\ client[r] # "idle"
    /\ r \in Pending => client[r] = "waiting" /\ rq[r] = <<>> /\ r \notin active
    /\ "lost" \notin harm /\ "orphan" \notin harm /\ client[r] \in Listening
          /\ Unended(rq[r]) => r \in Pending \cup active

MailInv == OnceInv /\ \A r \in Requests : MailOk(r)

Ends == {<<"last", "none">>, <<"error", "none">>}

\* Nothing is sent to r.
Kept(r) ==
    /\ rq'[r] = rq[r] /\ (r \in active' => r \in active) /\ uid'[r] = uid[r]
    /\ r \in Pending /\ "lost" \notin harm' => r \in Pending'
    /\ r \in active /\ client[r] \in Listening /\ "orphan" \notin harm' => r \in active'

\* r gets a token, its end, the None of a cancellation, ...
Answered(r) ==
    /\ r \in active /\ client[r] \in Listening /\ uid'[r] = uid[r]
    /\ \/ r \in active' /\ rq'[r] = rq[r] \o <<"token">>
       \/ r \notin active' /\ \E e \in Ends : rq'[r] = rq[r] \o e
       \/ r \notin active' /\ uid[r] \in cancelled /\ rq'[r] = rq[r] \o <<"none">>

\* ... or, at the head of what is in hand, its context or its refusal.
Started(r) ==
    /\ hand # <<>> /\ r = Head(hand) /\ r \in Pending /\ r \notin Pending'
    /\ \/ /\ r \in active' /\ rq'[r] = <<"context">>
          /\ uid'[r] = nextUid /\ nextUid' = nextUid + 1
       \/ /\ r \notin active' /\ rq'[r] = <<"error">> /\ uid'[r] = uid[r]

Delivers ==
    /\ client' = client /\ cancelled' \subseteq cancelled /\ harm \subseteq harm'
    /\ OnceInv' /\ Pending' \subseteq Pending
    /\ "drop" \notin harm' => nextUid' >= nextUid
    /\ \A r \in Requests : Kept(r) \/ Answered(r) \/ Started(r)

LEMMA ShortAnswers ==
    /\ EndsWell(<<>>) /\ EndsWell(<<"context">>) /\ EndsWell(<<"error">>)
    /\ Unended(<<>>) /\ Unended(<<"context">>) /\ ~Unended(<<"error">>)
    /\ NonesClose(<<>>) /\ NonesClose(<<"context">>) /\ NonesClose(<<"error">>)
    /\ ContextFirst(<<>>) /\ ContextFirst(<<"context">>) /\ ContextFirst(<<"error">>)
    /\ \A i \in 1 .. Len(<<>>) : <<>>[i] # "context"
    /\ \A i \in 1 .. Len(<<"error">>) : <<"error">>[i] # "context"
<1> QED BY DEF EndsWell, Unended, NonesClose, ContextFirst, Final

\* A delivery keeps the answers well formed.
LEMMA DeliveryKeepsMail ==
    ASSUME TypeInv, MailInv, Delivers
    PROVE  MailInv'
<1> SUFFICES ASSUME NEW r \in Requests
             PROVE  MailOk(r)'
  BY DEF MailInv, Delivers
<1>1. /\ client'[r] = client[r] /\ harm \subseteq harm' /\ Pending' \subseteq Pending
      /\ rq[r] \in Seq(Messages) /\ MailOk(r)
  BY DEF Delivers, TypeInv, TypeOK, MailInv
<1>2. CASE Kept(r)
  BY <1>1, <1>2 DEF Kept, MailOk
<1>3. CASE Answered(r)
  <2>1. Unended(rq[r]) /\ r \notin Pending
    BY <1>1, <1>3 DEF Answered, MailOk
  <2>2. /\ <<"token">> \in Seq(Messages) /\ <<"none">> \in Seq(Messages)
        /\ <<"token">> # <<"none">>
        /\ \A e \in Ends : e \in Seq(Messages) /\ e # <<"token">>
    BY MessageTypes DEF Ends
  <2>3. CASE r \in active' /\ rq'[r] = rq[r] \o <<"token">>
    <3>1. EndsWell(rq[r] \o <<"token">>) /\ Unended(rq[r] \o <<"token">>)
      BY <1>1, <2>1, <2>2, MailFacts
    <3>2. EndsWell(rq'[r]) /\ Unended(rq'[r])
      BY <2>3, <3>1
    <3> QED BY <1>1, <1>3, <2>1, <2>3, <3>2 DEF Answered, MailOk
  <2>4. CASE r \notin active' /\ \E e \in Ends : rq'[r] = rq[r] \o e
    <3>1. EndsWell(rq'[r]) /\ ~Unended(rq'[r])
      BY <1>1, <2>1, <2>2, <2>4, MailFacts DEF Ends
    <3> QED BY <1>1, <1>3, <2>1, <2>4, <3>1 DEF Answered, MailOk
  <2>5. CASE r \notin active' /\ rq'[r] = rq[r] \o <<"none">>
    <3>1. EndsWell(rq'[r]) /\ ~Unended(rq'[r])
      BY <1>1, <2>1, <2>2, <2>5, MailFacts
    <3> QED BY <1>1, <1>3, <2>1, <2>5, <3>1 DEF Answered, MailOk
  <2> QED BY <1>3, <2>3, <2>4, <2>5 DEF Answered
<1>4. CASE Started(r)
  BY <1>1, <1>4, ShortAnswers DEF Started, MailOk, Listening
<1> QED BY <1>2, <1>3, <1>4 DEF Delivers

\* A send that leaves r alone.
LEMMA SentTo ==
    ASSUME TypeOK, NEW m \in [Requests -> Seq(Messages)], Send(m),
           NEW r \in Requests, client[r] \notin Listening => rq[r] = <<>>
    PROVE  /\ client[r] \in Listening => rq'[r] = rq[r] \o m[r]
           /\ client[r] \notin Listening => rq'[r] = rq[r]
           /\ m[r] = <<>> => rq'[r] = rq[r]
<1>1. /\ client[r] \in Listening => rq'[r] = rq[r] \o m[r]
      /\ client[r] \notin Listening => rq'[r] = rq[r]
  BY DEF Send
<1>2. rq[r] \in Seq(Messages)
  BY DEF TypeOK
<1>3. rq[r] \o <<>> = rq[r]
  BY <1>2, ConcatEmptySeq
<1> QED BY <1>1, <1>3

LEMMA DecodeDelivers ==
    ASSUME TypeOK, MailInv, Decode, UNCHANGED <<queue, client, cancelled, hand, uid, harm>>
    PROVE  Delivers
<1>1. PICK stop \in SUBSET rows :
        LET done == stop \cup {r \in rows : made[r] + 1 >= MaxTokens}
        IN  /\ Send([q \in Requests |->
                       IF q \in Receivers(done) THEN <<"last", "none">>
                         ELSE IF q \in Receivers(rows \ done) THEN <<"token">>
                         ELSE <<>>])
            /\ active' = ActiveAfter(done)
            /\ UNCHANGED nextUid
  BY DEF Decode
<1> DEFINE done == stop \cup {r \in rows : made[r] + 1 >= MaxTokens}
           m == [q \in Requests |->
                       IF q \in Receivers(done) THEN <<"last", "none">>
                         ELSE IF q \in Receivers(rows \ done) THEN <<"token">>
                         ELSE <<>>]
<1>2. Send(m) /\ active' = active \ Receivers(done) /\ nextUid' = nextUid
  BY <1>1 DEF ActiveAfter
<1> HIDE DEF done
<1>3. m \in [Requests -> Seq(Messages)]
  BY MessageTypes
<1>4. Pending' = Pending /\ OnceInv' /\ nextUid' >= nextUid
  BY <1>2 DEF Pending, OnceInv, MailInv, TypeOK
<1>5. ASSUME NEW r \in Requests
      PROVE  Kept(r) \/ Answered(r)
  <2>1. /\ client[r] \in Listening => rq'[r] = rq[r] \o m[r]
        /\ client[r] \notin Listening => rq'[r] = rq[r]
        /\ m[r] = <<>> => rq'[r] = rq[r]
    BY <1>2, <1>3, SentTo DEF MailInv, MailOk
  <2>2. uid'[r] = uid[r] /\ harm' = harm
    OBVIOUS
  <2>3. CASE r \in Receivers(done)
    <3>1. r \in active /\ r \notin active'
      BY <1>2, <2>3 DEF Receivers
    <3>2. m[r] = <<"last", "none">>
      BY <2>3
    <3> QED BY <1>4, <2>1, <2>2, <3>1, <3>2 DEF Kept, Answered, Ends
  <2>4. CASE r \notin Receivers(done) /\ r \in Receivers(rows \ done)
    <3>1. r \in active /\ r \in active'
      BY <1>2, <2>4 DEF Receivers
    <3>2. m[r] = <<"token">>
      BY <2>4
    <3> QED BY <1>4, <2>1, <2>2, <3>1, <3>2 DEF Kept, Answered
  <2>5. CASE r \notin Receivers(done) /\ r \notin Receivers(rows \ done)
    <3>1. m[r] = <<>>
      BY <2>5
    <3> QED BY <1>2, <1>4, <2>1, <2>2, <2>5, <3>1 DEF Kept
  <2> QED BY <2>3, <2>4, <2>5
<1> QED BY <1>2, <1>4, <1>5 DEF Delivers

\* The head of what is in hand is nowhere else.
LEMMA HeadIsOnce ==
    ASSUME TypeInv, MailInv, hand # <<>>, hand' = Tail(hand), queue' = queue
    PROVE  /\ OnceInv' /\ Pending' \subseteq Pending /\ Head(hand) \in Pending
           /\ Head(hand) # ReleaseKv => Head(hand) \notin Pending'
           /\ \A r \in Pending : r # Head(hand) => r \in Pending'
<1>1. hand \in Seq(Items)
  BY DEF TypeInv, TypeOK
<1>2. Elements(hand) = {Head(hand)} \cup Elements(hand')
  BY <1>1, ElementsFacts
<1>3. Once(hand') /\ (Head(hand) # ReleaseKv => Head(hand) \notin Elements(hand'))
  BY <1>1, OnceTail DEF MailInv, OnceInv
<1> QED BY <1>2, <1>3 DEF MailInv, OnceInv, Pending

LEMMA EnterDelivers ==
    ASSUME TypeInv, BatchInv, MailInv, hand # <<>>, Head(hand) \in Requests,
           Enter(Head(hand))
    PROVE  Delivers
<1> DEFINE h == Head(hand)
<1>1. /\ uid' = [uid EXCEPT ![h] = nextUid] /\ nextUid' = nextUid + 1
      /\ active' = {q \in active : uid[q] # nextUid} \cup {h}
      /\ hand' = Tail(hand) /\ Send([Nothing EXCEPT ![h] = <<"context">>])
      /\ UNCHANGED <<queue, client, cancelled, harm>>
  BY DEF Enter, FreshUid, history, Tell
<1>2. /\ OnceInv' /\ Pending' \subseteq Pending /\ h \in Pending /\ h \notin Pending'
      /\ \A r \in Pending : r # h => r \in Pending'
  BY <1>1, HeadIsOnce, RequestsAssumption
<1>3. nextUid \in Nat /\ uid \in [Requests -> Nat]
  BY DEF TypeInv, TypeOK
<1> HIDE DEF h
<1> DEFINE m == [q \in Requests |-> IF q = h THEN <<"context">> ELSE <<>>]
<1>4. Send(m) /\ m \in [Requests -> Seq(Messages)]
  <2>1. [Nothing EXCEPT ![h] = <<"context">>] = m
    BY DEF Nothing
  <2>2. <<"context">> \in Seq(Messages) /\ <<>> \in Seq(Messages)
    BY DEF Messages
  <2> QED BY <1>1, <2>1, <2>2
<1>5. ASSUME NEW r \in Requests
      PROVE  Kept(r) \/ Started(r)
  <2>1. /\ client[r] \in Listening => rq'[r] = rq[r] \o m[r]
        /\ client[r] \notin Listening => rq'[r] = rq[r]
        /\ m[r] = <<>> => rq'[r] = rq[r]
    BY <1>4, SentTo DEF MailInv, MailOk, TypeInv
  <2>2. CASE r = h
    <3>1. client[r] = "waiting" /\ rq[r] = <<>>
      BY <1>2, <2>2 DEF MailInv, MailOk
    <3>2. <<"context">> \in Seq(Messages)
      BY DEF Messages
    <3>3. <<>> \o <<"context">> = <<"context">>
      BY <3>2, ConcatEmptySeq
    <3>4. rq'[r] = <<"context">>
      BY <2>1, <2>2, <3>1, <3>3 DEF Listening
    <3>5. r \in active' /\ uid'[r] = nextUid
      BY <1>1, <1>3, <2>2
    <3> QED BY <1>1, <1>2, <2>2, <3>4, <3>5 DEF Started, h
  <2>3. CASE r # h
    <3>1. m[r] = <<>> /\ uid'[r] = uid[r]
      BY <1>1, <1>3, <2>3
    <3>2. r \in active /\ "orphan" \notin harm => uid[r] # nextUid
      BY <1>3 DEF BatchInv, ActiveHasRow, UidsOk, Held
    <3> QED BY <1>1, <1>2, <2>1, <2>3, <3>1, <3>2 DEF Kept
  <2> QED BY <2>2, <2>3
<1> QED BY <1>1, <1>2, <1>3, <1>5 DEF Delivers

LEMMA InsertFailsDelivers ==
    ASSUME TypeInv, MailInv, InsertFails
    PROVE  Delivers
<1> DEFINE h == Head(hand)
<1>1. hand # <<>> /\ h \in Requests
  BY HandIsRequest DEF InsertFails, TypeInv, HandOk
<1>2. /\ hand' = Tail(hand) /\ Send([Nothing EXCEPT ![h] = <<"error">>])
      /\ UNCHANGED <<queue, client, cancelled, active, uid, nextUid, harm>>
  BY DEF InsertFails, Tell
<1>3. /\ OnceInv' /\ Pending' \subseteq Pending /\ h \in Pending /\ h \notin Pending'
      /\ \A r \in Pending : r # h => r \in Pending'
  BY <1>1, <1>2, HeadIsOnce, RequestsAssumption
<1> HIDE DEF h
<1> DEFINE m == [q \in Requests |-> IF q = h THEN <<"error">> ELSE <<>>]
<1>4. Send(m) /\ m \in [Requests -> Seq(Messages)]
  <2>1. [Nothing EXCEPT ![h] = <<"error">>] = m
    BY DEF Nothing
  <2>2. <<"error">> \in Seq(Messages) /\ <<>> \in Seq(Messages)
    BY DEF Messages
  <2> QED BY <1>2, <2>1, <2>2
<1>5. ASSUME NEW r \in Requests
      PROVE  Kept(r) \/ Started(r)
  <2>1. /\ client[r] \in Listening => rq'[r] = rq[r] \o m[r]
        /\ client[r] \notin Listening => rq'[r] = rq[r]
        /\ m[r] = <<>> => rq'[r] = rq[r]
    BY <1>4, SentTo DEF MailInv, MailOk, TypeInv
  <2>2. CASE r = h
    <3>1. client[r] = "waiting" /\ rq[r] = <<>> /\ r \notin active
      BY <1>3, <2>2 DEF MailInv, MailOk
    <3>2. <<"error">> \in Seq(Messages)
      BY DEF Messages
    <3>3. <<>> \o <<"error">> = <<"error">>
      BY <3>2, ConcatEmptySeq
    <3>4. rq'[r] = <<"error">>
      BY <2>1, <2>2, <3>1, <3>3 DEF Listening
    <3> QED BY <1>1, <1>2, <1>3, <2>2, <3>1, <3>4 DEF Started, h
  <2>3. CASE r # h
    BY <1>2, <1>3, <2>1, <2>3 DEF Kept
  <2> QED BY <2>2, <2>3
<1>6. nextUid' >= nextUid
  BY <1>2 DEF TypeInv, TypeOK
<1> QED BY <1>2, <1>3, <1>5, <1>6 DEF Delivers

LEMMA FailDelivers ==
    ASSUME TypeInv, MailInv, NEW kind, Fail(kind)
    PROVE  Delivers
<1> DEFINE m == [r \in Requests |-> IF r \in active THEN <<"error", "none">> ELSE <<>>]
<1>1. /\ Send(m) /\ active' = {} /\ hand' = <<>> /\ UNCHANGED <<queue, client, cancelled, uid>>
      /\ harm' = harm \cup {"drop"} \cup (IF hand # <<>> THEN {"lost"} ELSE {})
  BY DEF Fail
<1>2. m \in [Requests -> Seq(Messages)]
  BY MessageTypes
<1>3. OnceInv' /\ Pending' = Elements(queue)
  <2>1. Elements(<<>>) = {} /\ Once(<<>>)
    BY DEF Elements, Once
  <2> QED BY <1>1, <2>1 DEF MailInv, OnceInv, Pending
<1>4. "lost" \notin harm' => Pending' = Pending
  BY <1>1, <1>3 DEF Pending, Elements
<1>5. ASSUME NEW r \in Requests
      PROVE  Kept(r) \/ Answered(r)
  <2>1. /\ client[r] \in Listening => rq'[r] = rq[r] \o m[r]
        /\ client[r] \notin Listening => rq'[r] = rq[r]
        /\ m[r] = <<>> => rq'[r] = rq[r]
    BY <1>1, <1>2, SentTo DEF MailInv, MailOk, TypeInv
  <2>2. m[r] = IF r \in active THEN <<"error", "none">> ELSE <<>>
    OBVIOUS
  <2> HIDE DEF m
  <2> QED BY <1>1, <1>4, <2>1, <2>2 DEF Kept, Answered, Ends
<1>6. Pending' \subseteq Pending
  BY <1>3 DEF Pending
<1> QED BY <1>1, <1>3, <1>5, <1>6 DEF Delivers

LEMMA PollDelivers ==
    ASSUME TypeInv, MailInv, Poll
    PROVE  Delivers
<1> DEFINE n == Min2(Slots, Len(queue))
           gone == IF gen THEN {r \in active : uid[r] \in cancelled} ELSE {}
           m == [r \in Requests |-> IF r \in gone THEN <<"none">> ELSE <<>>]
<1>1. /\ hand' = SubSeq(queue, 1, n) /\ queue' = SubSeq(queue, n + 1, Len(queue))
      /\ active' = active \ gone /\ Send(m) /\ cancelled' = {}
      /\ UNCHANGED <<client, uid, harm, nextUid>>
  BY DEF Poll, history, RemoveRows
<1>2. m \in [Requests -> Seq(Messages)]
  BY MessageTypes
<1>3. gone \subseteq active /\ \A r \in gone : uid[r] \in cancelled
  OBVIOUS
<1>4. OnceInv' /\ Pending' = Pending
  <2>1. n \in Nat /\ n <= Len(queue) /\ hand = <<>>
    BY SlotsType DEF Poll
  <2> HIDE DEF n
  <2>2. queue \in Seq(Items) /\ Once(queue)
    BY DEF TypeInv, TypeOK, MailInv, OnceInv
  <2>3. /\ Once(hand') /\ Once(queue') /\ Elements(hand') \cup Elements(queue') = Elements(queue)
        /\ Elements(hand') \cap Elements(queue') \subseteq {ReleaseKv}
    BY <1>1, <2>1, <2>2, OnceSplit
  <2>4. Elements(hand) = {}
    BY <2>1 DEF Elements
  <2> QED BY <2>3, <2>4 DEF OnceInv, Pending
<1>5. ASSUME NEW r \in Requests
      PROVE  Kept(r) \/ Answered(r)
  <2>1. /\ client[r] \in Listening => rq'[r] = rq[r] \o m[r]
        /\ client[r] \notin Listening => rq'[r] = rq[r]
        /\ m[r] = <<>> => rq'[r] = rq[r]
    BY <1>1, <1>2, SentTo DEF MailInv, MailOk, TypeInv
  <2>2. m[r] = IF r \in gone THEN <<"none">> ELSE <<>>
    OBVIOUS
  <2> HIDE DEF m, gone
  <2> QED BY <1>1, <1>3, <1>4, <2>1, <2>2 DEF Kept, Answered
<1>6. nextUid' >= nextUid
  BY <1>1 DEF TypeInv, TypeOK
<1> QED BY <1>1, <1>4, <1>5, <1>6 DEF Delivers

\* A step that sends nothing and takes nothing from the line.
LEMMA QuietDelivers ==
    ASSUME MailInv, client' = client, cancelled' \subseteq cancelled, harm \subseteq harm',
           UNCHANGED <<rq, active, uid>>, OnceInv', Pending' \subseteq Pending,
           \A r \in Requests : r \in Pending => r \in Pending',
           "drop" \notin harm' => nextUid' >= nextUid
    PROVE  Delivers
<1> QED BY DEF Delivers, Kept

LEMMA ThreadDelivers ==
    ASSUME TypeInv, BatchInv, MailInv, Thread
    PROVE  Delivers
<1> USE DEF batch, history, handlers
<1>0. OnceInv /\ nextUid \in Nat
  BY DEF MailInv, TypeInv, TypeOK
<1>1. CASE Poll  BY <1>1, PollDelivers
<1>2. CASE IdleRelease
  <2>1. /\ UNCHANGED <<client, rq, active, uid, hand, queue>> /\ gen /\ cancelled' = {}
        /\ DropGenerator
    BY <1>2 DEF IdleRelease
  <2>2. "drop" \in harm' /\ harm \subseteq harm'
    BY <2>1 DEF DropGenerator
  <2> QED BY <1>0, <2>1, <2>2, QuietDelivers DEF Pending, OnceInv
<1>3. CASE Halt
  BY <1>0, <1>3, QuietDelivers DEF Halt, Pending, OnceInv
<1>4. CASE Release
  <2>1. /\ hand # <<>> /\ hand' = Tail(hand) /\ Head(hand) = ReleaseKv /\ DropGenerator
        /\ UNCHANGED <<queue, client, rq, cancelled, active, uid>>
    BY <1>4 DEF Release, TypeInv, HandOk
  <2>2. "drop" \notin harm' => nextUid' >= nextUid
    <3>1. ~gen => nextUid = 0
      BY DEF BatchInv, UidsOk
    <3> QED BY <2>1, <3>1 DEF DropGenerator
  <2>3. harm \subseteq harm'
    BY <2>1 DEF DropGenerator
  <2>4. /\ OnceInv' /\ Pending' \subseteq Pending
        /\ \A r \in Requests : r \in Pending => r \in Pending'
    BY <2>1, HeadIsOnce, RequestsAssumption
  <2> QED BY <2>1, <2>2, <2>3, <2>4, QuietDelivers
<1>5. CASE Insert
  <2>1. hand # <<>> /\ Head(hand) \in Requests
    BY <1>5, HandIsRequest DEF Insert, TypeInv, HandOk
  <2>2. CASE Enter(Head(hand))
    BY <2>1, <2>2, EnterDelivers
  <2>3. CASE UNCHANGED <<handlers, hand, active, uid, batch, history>>
    BY <1>0, <2>3, QuietDelivers DEF Pending, OnceInv
  <2> QED BY <1>5, <2>2, <2>3 DEF Insert
<1>6. CASE InsertFails  BY <1>6, InsertFailsDelivers
<1>7. CASE EmbedFails  BY <1>7, FailDelivers DEF EmbedFails
<1>8. CASE Step
  <2>1. CASE Decode
    BY <1>8, <2>1, DecodeDelivers DEF Step, TypeInv
  <2>2. CASE UNCHANGED <<rq, active, batch>>
    BY <1>0, <1>8, <2>2, QuietDelivers DEF Step, Pending, OnceInv
  <2> QED BY <1>8, <2>1, <2>2 DEF Step
<1>9. CASE StepFails  BY <1>9, FailDelivers DEF StepFails
<1>10. CASE Flush
  <2>1. CASE Decode /\ UNCHANGED <<queue, client, cancelled, hand, uid, history>>
    BY <2>1, DecodeDelivers DEF TypeInv
  <2>2. CASE Enter(Head(hand))
    <3>1. hand # <<>> /\ Head(hand) \in Requests
      BY <1>10, HandIsRequest DEF Flush, TypeInv, HandOk
    <3> QED BY <2>2, <3>1, EnterDelivers
  <2> QED BY <1>10, <2>1, <2>2 DEF Flush
<1> QED BY <1>1, <1>2, <1>3, <1>4, <1>5, <1>6, <1>7, <1>8, <1>9, <1>10 DEF Thread

-----------------------------------------------------------------------------
(* What a handler does, and the cancellations.                             *)

\* The requests that have a uid of this generator.
Met == {r \in Requests : \/ r \in active \/ client[r] \in {"reading", "left"}
                         \/ \E i \in 1 .. Len(rq[r]) : rq[r][i] = "context"}

CutOk ==
    /\ \A c \in cancelled : \E q \in Requests : client[q] = "left" /\ uid[q] = c
    /\ \A r \in Requests :
          /\ NonesClose(rq[r]) /\ ContextFirst(rq[r]) /\ client[r] # "cut"
          /\ client[r] = "reading" => \A i \in 1 .. Len(rq[r]) : rq[r][i] # "context"
    /\ \A r \in Met : uid[r] < nextUid
    /\ \A r, q \in Met : uid[r] = uid[q] => r = q

\* As long as no generator was dropped the uids tell all requests apart, those
\* that have left included, so a cancelled uid names the one that left.
CutInv == "drop" \notin harm => CutOk

LEMMA DeliveryKeepsCut ==
    ASSUME TypeInv, TypeInv', MailInv, CutInv, Delivers
    PROVE  CutInv'
<1> SUFFICES ASSUME "drop" \notin harm'
             PROVE  CutOk'
  BY DEF CutInv
<1>1. /\ client' = client /\ cancelled' \subseteq cancelled /\ CutOk
      /\ nextUid' >= nextUid /\ nextUid \in Nat /\ nextUid' \in Nat
      /\ uid \in [Requests -> Nat]
      /\ \A r \in Requests : Kept(r) \/ Answered(r) \/ Started(r)
      /\ \A r \in Requests : MailOk(r) /\ rq[r] \in Seq(Messages)
  BY DEF Delivers, CutInv, TypeInv, TypeOK, MailInv
<1>2. ASSUME NEW r \in Requests, Answered(r)
      PROVE  /\ r \in Met /\ uid'[r] = uid[r]
             /\ NonesClose(rq'[r]) /\ ContextFirst(rq'[r])
             /\ client[r] = "reading" => \A i \in 1 .. Len(rq'[r]) : rq'[r][i] # "context"
  <2>1. r \in active /\ client[r] \in Listening /\ Unended(rq[r]) /\ uid'[r] = uid[r]
    BY <1>1, <1>2 DEF Answered, MailOk
  <2>2. r \in Met
    BY <2>1 DEF Met
  <2>3. NonesClose(rq[r]) /\ ContextFirst(rq[r])
        /\ (client[r] = "reading" => \A i \in 1 .. Len(rq[r]) : rq[r][i] # "context")
    BY <1>1 DEF CutOk
  <2>4. uid[r] \notin cancelled
    <3> SUFFICES ASSUME uid[r] \in cancelled PROVE FALSE
      OBVIOUS
    <3>1. PICK q \in Requests : client[q] = "left" /\ uid[q] = uid[r]
      BY <1>1 DEF CutOk
    <3>2. q \in Met
      BY <3>1 DEF Met
    <3>3. q = r
      BY <1>1, <2>2, <3>1, <3>2 DEF CutOk
    <3> QED BY <2>1, <3>1, <3>3 DEF Listening
  <2>5. PICK e \in Ends \cup {<<"token">>} : rq'[r] = rq[r] \o e
    BY <1>2, <2>4 DEF Answered
  <2>6. e \in Seq(Messages) /\ e # <<"none">>
        /\ e \in {<<"token">>, <<"none">>, <<"last", "none">>, <<"error", "none">>}
    <3>1. Len(<<"none">>) = 1 /\ Len(<<"last", "none">>) = 2 /\ Len(<<"error", "none">>) = 2
      OBVIOUS
    <3>2. <<"token">> # <<"none">>
      OBVIOUS
    <3>3. e \in {<<"token">>, <<"last", "none">>, <<"error", "none">>}
      BY DEF Ends
    <3>4. e # <<"none">>
      BY <3>1, <3>2, <3>3
    <3> QED BY <3>3, <3>4, MessageTypes
  <2>7. /\ NonesClose(rq[r] \o e) /\ ContextFirst(rq[r] \o e)
        /\ (\A i \in 1 .. Len(rq[r]) : rq[r][i] # "context")
              => \A i \in 1 .. Len(rq[r] \o e) : (rq[r] \o e)[i] # "context"
    BY <1>1, <2>1, <2>3, <2>6, MailFacts
  <2> QED BY <2>1, <2>2, <2>3, <2>5, <2>7
<1>3. ASSUME NEW r \in Requests, Started(r)
      PROVE  /\ client[r] = "waiting" /\ r \notin Met /\ r = Head(hand)
             /\ NonesClose(rq'[r]) /\ ContextFirst(rq'[r])
             /\ r \in Met' => uid'[r] = nextUid /\ nextUid' = nextUid + 1
  <2>1. client[r] = "waiting" /\ rq[r] = <<>> /\ r \notin active
    BY <1>1, <1>3 DEF Started, MailOk
  <2>2. r \notin Met
    BY <2>1, EmptySeq DEF Met
  <2>3. NonesClose(rq'[r]) /\ ContextFirst(rq'[r])
    BY <1>3, ShortAnswers DEF Started
  <2>4. r \in Met' => uid'[r] = nextUid /\ nextUid' = nextUid + 1
    BY <1>1, <1>3, <2>1, ShortAnswers DEF Started, Met
  <2> QED BY <1>3, <2>1, <2>2, <2>3, <2>4 DEF Started
<1>4. ASSUME NEW r \in Requests, Kept(r)
      PROVE  /\ r \in Met' => r \in Met
             /\ uid'[r] = uid[r] /\ rq'[r] = rq[r]
  BY <1>1, <1>4 DEF Kept, Met
<1>5. ASSUME NEW r \in Met', NEW q \in Met', uid'[r] = uid'[q]
      PROVE  r = q
  <2>1. r \in Requests /\ q \in Requests
    BY DEF Met
  <2>2. /\ Started(r) \/ (r \in Met /\ uid'[r] = uid[r])
        /\ Started(q) \/ (q \in Met /\ uid'[q] = uid[q])
    BY <1>1, <1>2, <1>4, <2>1
  <2>3. CASE Started(r) /\ Started(q)
    BY <1>3, <2>1, <2>3
  <2>4. CASE Started(r) /\ q \in Met /\ uid'[q] = uid[q]
    <3>1. uid[q] < nextUid /\ uid'[r] = nextUid
      BY <1>1, <1>3, <2>1, <2>4 DEF CutOk
    <3> QED BY <1>1, <1>5, <2>1, <2>4, <3>1
  <2>5. CASE Started(q) /\ r \in Met /\ uid'[r] = uid[r]
    <3>1. uid[r] < nextUid /\ uid'[q] = nextUid /\ uid[r] \in Nat
      BY <1>1, <1>3, <2>1, <2>5 DEF CutOk
    <3>2. uid[r] = nextUid
      BY <1>5, <2>5, <3>1
    <3> QED BY <1>1, <3>1, <3>2
  <2>6. CASE r \in Met /\ uid'[r] = uid[r] /\ q \in Met /\ uid'[q] = uid[q]
    BY <1>1, <1>5, <2>6 DEF CutOk
  <2> QED BY <2>2, <2>3, <2>4, <2>5, <2>6
<1>6. ASSUME NEW r \in Met'
      PROVE  uid'[r] < nextUid'
  <2>1. r \in Requests
    BY DEF Met
  <2>2. CASE Started(r)
    BY <1>1, <1>3, <2>1, <2>2
  <2>3. CASE r \in Met /\ uid'[r] = uid[r]
    <3>1. uid[r] < nextUid /\ uid[r] \in Nat
      BY <1>1, <2>1, <2>3 DEF CutOk
    <3> QED BY <1>1, <2>3, <3>1
  <2> QED BY <1>1, <1>2, <1>4, <2>1, <2>2, <2>3
<1>7. ASSUME NEW c \in cancelled'
      PROVE  \E q \in Requests : client'[q] = "left" /\ uid'[q] = c
  <2>1. PICK q \in Requests : client[q] = "left" /\ uid[q] = c
    BY <1>1 DEF CutOk
  <2>2. ~Started(q)
    BY <1>3, <2>1
  <2>3. uid'[q] = uid[q]
    BY <1>1, <1>2, <1>4, <2>2
  <2> QED BY <1>1, <2>1, <2>3
<1>8. ASSUME NEW r \in Requests
      PROVE  /\ NonesClose(rq'[r]) /\ ContextFirst(rq'[r]) /\ client'[r] # "cut"
             /\ client'[r] = "reading" => \A i \in 1 .. Len(rq'[r]) : rq'[r][i] # "context"
  <2>1. client'[r] = client[r] /\ client[r] # "cut"
    BY <1>1 DEF CutOk
  <2>2. CASE Kept(r)
    BY <1>1, <1>4, <2>1, <2>2 DEF CutOk
  <2>3. CASE Answered(r)
    BY <1>2, <2>1, <2>3
  <2>4. CASE Started(r)
    BY <1>3, <2>1, <2>4
  <2> QED BY <1>1, <2>2, <2>3, <2>4
<1> QED BY <1>5, <1>6, <1>7, <1>8 DEF CutOk

\* What a step of one handler changes.
HandlerMoves(r) ==
    /\ UNCHANGED <<hand, active, uid, nextUid, harm>>
    /\ OnceInv'
    /\ \A q \in Requests \ {r} :
          client'[q] = client[q] /\ rq'[q] = rq[q] /\ (q \in Pending' <=> q \in Pending)
    /\ MailOk(r)'
    /\ "drop" \notin harm /\ CutOk =>
          /\ NonesClose(rq'[r]) /\ ContextFirst(rq'[r]) /\ client'[r] # "cut"
          /\ client'[r] = "reading" => \A i \in 1 .. Len(rq'[r]) : rq'[r][i] # "context"
          /\ r \in Met' => r \in Met
          /\ client[r] # "left"
          /\ \/ cancelled' = cancelled
             \/ cancelled' = cancelled \cup {uid[r]} /\ client'[r] = "left"

LEMMA HandlerKeepsMail ==
    ASSUME MailInv, CutInv, NEW r \in Requests, HandlerMoves(r)
    PROVE  MailInv' /\ CutInv'
<1>1. ASSUME NEW q \in Requests
      PROVE  MailOk(q)'
  BY DEF HandlerMoves, MailInv, MailOk
<1>2. MailInv'
  BY <1>1 DEF HandlerMoves, MailInv
<1>3. ASSUME "drop" \notin harm'
      PROVE  CutOk'
  <2>1. CutOk /\ "drop" \notin harm
    BY <1>3 DEF HandlerMoves, CutInv
  <2>2. Met' \subseteq Met
    BY <2>1 DEF HandlerMoves, Met
  <2>3. uid' = uid /\ nextUid' = nextUid
    BY DEF HandlerMoves
  <2>4. \A c \in cancelled' : \E q \in Requests : client'[q] = "left" /\ uid'[q] = c
    BY <2>1, <2>3 DEF HandlerMoves, CutOk
  <2>5. \A q \in Requests :
          /\ NonesClose(rq'[q]) /\ ContextFirst(rq'[q]) /\ client'[q] # "cut"
          /\ client'[q] = "reading" => \A i \in 1 .. Len(rq'[q]) : rq'[q][i] # "context"
    BY <2>1 DEF HandlerMoves, CutOk
  <2> QED BY <2>1, <2>2, <2>3, <2>4, <2>5 DEF CutOk
<1> QED BY <1>2, <1>3 DEF CutInv

\* A handler that goes: its queue is left behind and it has no request pending.
LEMMA LeavesMoves ==
    ASSUME TypeInv, MailInv, NEW r \in Requests, NEW how \in Gone \ {"cut"},
           Leaves(r, how), r \notin Pending, client[r] # "left",
           how = "left" => client[r] = "reading",
           UNCHANGED <<queue, hand, active, uid, nextUid, harm>>,
           \/ cancelled' = cancelled
           \/ cancelled' = cancelled \cup {uid[r]} /\ how = "left"
    PROVE  HandlerMoves(r)
<1>1. /\ client'[r] = how /\ rq'[r] = <<>>
      /\ \A q \in Requests \ {r} : client'[q] = client[q] /\ rq'[q] = rq[q]
  BY DEF Leaves, TypeInv, TypeOK
<1>2. Pending' = Pending /\ OnceInv' /\ how \notin Listening /\ how # "idle"
      /\ how # "reading" /\ how # "cut"
  BY DEF Pending, MailInv, OnceInv, Gone, Listening
<1>3. MailOk(r)'
  BY <1>1, <1>2, ShortAnswers DEF MailOk, MailInv
<1>4. r \in Met' => r \in Met
  BY <1>1, <1>2, ShortAnswers DEF Met
<1> QED BY <1>1, <1>2, <1>3, <1>4, ShortAnswers DEF HandlerMoves

\* A handler that reads a context or a token and goes on.
LEMMA ReadsMoves ==
    ASSUME TypeInv, MailInv, NEW r \in Requests, rq[r] # <<>>,
           rq' = [rq EXCEPT ![r] = Tail(@)],
           \/ /\ client[r] = "waiting" /\ Head(rq[r]) = "context"
              /\ client' = [client EXCEPT ![r] = "reading"]
           \/ client[r] = "reading" /\ Head(rq[r]) = "token" /\ client' = client,
           UNCHANGED <<queue, hand, active, uid, nextUid, harm, cancelled>>
    PROVE  HandlerMoves(r)
<1>1. /\ client'[r] = "reading" /\ rq'[r] = Tail(rq[r]) /\ rq[r] \in Seq(Messages)
      /\ \A q \in Requests \ {r} : client'[q] = client[q] /\ rq'[q] = rq[q]
  BY DEF TypeInv, TypeOK
<1>2. Head(rq[r]) \notin Final
  BY DEF Final
<1>3. Pending' = Pending /\ OnceInv' /\ MailOk(r) /\ client[r] \in Listening
  BY DEF Pending, MailInv, OnceInv, Listening
<1>4. /\ EndsWell(rq[r]) => EndsWell(rq'[r])
      /\ Unended(rq[r]) => Unended(rq'[r])
      /\ Unended(rq'[r]) => Unended(rq[r])
      /\ NonesClose(rq[r]) => NonesClose(rq'[r])
      /\ ContextFirst(rq[r]) => \A i \in 1 .. Len(rq'[r]) : rq'[r][i] # "context"
  <2> DEFINE s == rq[r]
  <2>1. s \in Seq(Messages) /\ s # <<>> /\ Head(s) \notin Final /\ rq'[r] = Tail(s)
    BY <1>1, <1>2
  <2> HIDE DEF s
  <2>2. /\ EndsWell(s) => EndsWell(Tail(s))
        /\ Unended(s) => Unended(Tail(s))
        /\ Unended(Tail(s)) => Unended(s)
        /\ NonesClose(s) => NonesClose(Tail(s))
        /\ ContextFirst(s) => \A i \in 1 .. Len(Tail(s)) : Tail(s)[i] # "context"
    BY <2>1, ReadFacts
  <2>3. s = rq[r]
    BY DEF s
  <2> QED BY <2>1, <2>2, <2>3
<1>5. r \notin Pending
  BY <1>3 DEF MailOk
<1>6. MailOk(r)'
  BY <1>1, <1>3, <1>4, <1>5 DEF MailOk, Listening
<1>7. r \in Met
  <2>1. CASE client[r] = "reading"
    BY <2>1 DEF Met
  <2>2. CASE Head(rq[r]) = "context"
    <3>1. 1 \in 1 .. Len(rq[r]) /\ rq[r][1] = "context"
      BY <1>1, <2>2, EmptySeq
    <3> QED BY <3>1 DEF Met
  <2> QED BY <2>1, <2>2
<1>8. "drop" \notin harm /\ CutOk =>
          /\ NonesClose(rq'[r]) /\ ContextFirst(rq'[r])
          /\ \A i \in 1 .. Len(rq'[r]) : rq'[r][i] # "context"
  <2> SUFFICES ASSUME CutOk
               PROVE  /\ NonesClose(rq'[r]) /\ ContextFirst(rq'[r])
                      /\ \A i \in 1 .. Len(rq'[r]) : rq'[r][i] # "context"
    OBVIOUS
  <2>1. NonesClose(rq[r]) /\ ContextFirst(rq[r])
    BY DEF CutOk
  <2>2. \A i \in 1 .. Len(rq'[r]) : rq'[r][i] # "context"
    BY <1>4, <2>1
  <2>3. rq'[r] \in Seq(Messages)
    BY <1>1, HeadTailProperties
  <2>4. ContextFirst(rq'[r])
    <3>1. \A i \in 2 .. Len(rq'[r]) : i \in 1 .. Len(rq'[r])
      BY <2>3
    <3> QED BY <2>2, <3>1 DEF ContextFirst
  <2> QED BY <1>4, <2>1, <2>2, <2>4
<1> QED BY <1>1, <1>3, <1>6, <1>7, <1>8 DEF HandlerMoves, Listening

LEMMA HandlerStep ==
    ASSUME TypeInv, MailInv, CutInv, NEW r \in Requests,
           Submit(r) \/ Start(r) \/ Read(r) \/ Leave(r) \/ SendRelease(r)
    PROVE  MailInv' /\ CutInv'
<1>1. UNCHANGED <<hand, active, uid, nextUid, harm>>
  BY DEF Submit, Start, Read, Leave, SendRelease, thread
<1>2. /\ MailOk(r) /\ OnceInv /\ queue \in Seq(Items) /\ r \in Items /\ r # ReleaseKv
      /\ rq[r] \in Seq(Messages) /\ client \in [Requests -> {"idle"} \cup Listening \cup Gone]
      /\ hand \in Seq(Items)
  BY RequestsAssumption DEF MailInv, TypeInv, TypeOK, Items
<1>3. CASE Submit(r)
  <2>1. client[r] = "idle" /\ r \notin Pending /\ r \notin active /\ rq[r] = <<>>
        /\ cancelled' = cancelled
    BY <1>2, <1>3 DEF Submit, MailOk, Listening
  <2>2. CASE queue' = Append(queue, r) /\ client' = [client EXCEPT ![r] = "waiting"]
               /\ UNCHANGED <<rq, releasing>>
    <3>1. Elements(queue') = Elements(queue) \cup {r}
      BY <1>2, <2>2, ElementsFacts
    <3>2. Once(queue')
      BY <1>2, <2>1, <2>2, OnceAppend DEF OnceInv, Pending
    <3>3. OnceInv' /\ Pending' = Pending \cup {r}
      BY <1>1, <1>2, <2>1, <3>1, <3>2 DEF OnceInv, Pending
    <3>4. /\ client'[r] = "waiting" /\ rq'[r] = <<>>
          /\ \A q \in Requests \ {r} : client'[q] = client[q] /\ rq'[q] = rq[q]
      BY <1>2, <2>1, <2>2
    <3>5. MailOk(r)'
      BY <1>1, <2>1, <3>3, <3>4, ShortAnswers DEF MailOk, Listening
    <3>6. r \notin Met'
      BY <1>1, <2>1, <3>4, ShortAnswers DEF Met
    <3>7. HandlerMoves(r)
      BY <1>1, <2>1, <3>3, <3>4, <3>5, <3>6, ShortAnswers DEF HandlerMoves
    <3> QED BY <3>7, HandlerKeepsMail
  <2>3. CASE Leaves(r, "refused") /\ UNCHANGED queue
    <3>1. "refused" \in Gone \ {"cut"}
      BY DEF Gone
    <3>2. HandlerMoves(r)
      BY <1>1, <2>1, <2>3, <3>1, LeavesMoves
    <3> QED BY <3>2, HandlerKeepsMail
  <2> QED BY <1>3, <2>2, <2>3 DEF Submit
<1>4. CASE Start(r)
  <2>1. /\ client[r] = "waiting" /\ rq[r] # <<>> /\ r \notin Pending
        /\ UNCHANGED <<queue, cancelled>>
    BY <1>2, <1>4 DEF Start, MailOk
  <2>2. CASE /\ Head(rq[r]) = "context" /\ client' = [client EXCEPT ![r] = "reading"]
             /\ rq' = [rq EXCEPT ![r] = Tail(@)]
    <3>1. HandlerMoves(r)
      BY <1>1, <2>1, <2>2, ReadsMoves
    <3> QED BY <3>1, HandlerKeepsMail
  <2>3. CASE Leaves(r, "failed")
    <3>1. "failed" \in Gone \ {"cut"}
      BY DEF Gone
    <3>2. HandlerMoves(r)
      BY <1>1, <2>1, <2>3, <3>1, LeavesMoves
    <3> QED BY <3>2, HandlerKeepsMail
  <2> QED BY <1>4, <2>2, <2>3 DEF Start
<1>5. CASE Read(r)
  <2>1. /\ client[r] = "reading" /\ rq[r] # <<>> /\ r \notin Pending
        /\ UNCHANGED <<queue, cancelled>>
    BY <1>2, <1>5 DEF Read, MailOk
  <2>2. CASE Head(rq[r]) = "token" /\ rq' = [rq EXCEPT ![r] = Tail(@)] /\ client' = client
    <3>1. HandlerMoves(r)
      BY <1>1, <2>1, <2>2, ReadsMoves
    <3> QED BY <3>1, HandlerKeepsMail
  <2>3. CASE Leaves(r, EndOf(Head(rq[r]))) /\ Head(rq[r]) # "token"
    <3>1. CASE "drop" \notin harm
      <4>1. NonesClose(rq[r]) /\ \A i \in 1 .. Len(rq[r]) : rq[r][i] # "context"
        BY <2>1, <3>1 DEF CutInv, CutOk
      <4>2. Head(rq[r]) # "none"
        BY <1>2, <2>1, <4>1, ReadFacts
      <4>3. Head(rq[r]) # "context"
        <5>1. 1 \in 1 .. Len(rq[r]) /\ Head(rq[r]) = rq[r][1]
          BY <1>2, <2>1, EmptySeq
        <5> QED BY <4>1, <5>1
      <4>4. Head(rq[r]) \in {"last", "error"}
        <5>1. Head(rq[r]) \in Messages
          BY <1>2, <2>1, HeadTailProperties
        <5> QED BY <2>3, <4>2, <4>3, <5>1 DEF Messages
      <4>5. EndOf(Head(rq[r])) \in Gone \ {"cut"} /\ EndOf(Head(rq[r])) # "left"
        BY <4>4 DEF EndOf, Gone
      <4>6. HandlerMoves(r)
        BY <1>1, <2>1, <2>3, <4>5, LeavesMoves
      <4> QED BY <4>6, HandlerKeepsMail
    <3>2. CASE "drop" \in harm
      <4> DEFINE how == EndOf(Head(rq[r]))
      <4>1. how \in Gone
        BY DEF EndOf, Gone
      <4> HIDE DEF how
      <4>2. /\ client'[r] = how /\ rq'[r] = <<>>
            /\ \A q \in Requests \ {r} : client'[q] = client[q] /\ rq'[q] = rq[q]
        BY <1>2, <2>3 DEF Leaves, TypeInv, TypeOK, how
      <4>3. Pending' = Pending /\ OnceInv' /\ how \notin Listening /\ how # "idle"
        BY <1>1, <1>2, <2>1, <4>1 DEF Pending, OnceInv, Gone, Listening
      <4>4. MailOk(r)'
        BY <1>1, <1>2, <2>1, <4>2, <4>3, ShortAnswers DEF MailOk
      <4>5. HandlerMoves(r)
        BY <1>1, <3>2, <4>2, <4>3, <4>4 DEF HandlerMoves
      <4> QED BY <4>5, HandlerKeepsMail
    <3> QED BY <3>1, <3>2
  <2> QED BY <1>5, <2>2, <2>3 DEF Read
<1>6. CASE Leave(r)
  <2>1. /\ client[r] = "reading" /\ r \notin Pending /\ UNCHANGED queue
        /\ cancelled' = cancelled \cup {uid[r]} /\ Leaves(r, "left")
    BY <1>2, <1>6 DEF Leave, MailOk
  <2>2. "left" \in Gone \ {"cut"}
    BY DEF Gone
  <2>3. HandlerMoves(r)
    BY <1>1, <2>1, <2>2, LeavesMoves
  <2> QED BY <2>3, HandlerKeepsMail
<1>7. CASE SendRelease(r)
  <2>1. queue' = Append(queue, ReleaseKv) /\ UNCHANGED <<client, rq, cancelled>>
        /\ ReleaseKv \in Items
    BY <1>7 DEF SendRelease, Items
  <2>2. Elements(queue') = Elements(queue) \cup {ReleaseKv}
    BY <1>2, <2>1, ElementsFacts
  <2>3. Once(queue')
    BY <1>2, <2>1, OnceAppend DEF OnceInv
  <2>4. OnceInv' /\ Pending' = Pending \cup {ReleaseKv}
    BY <1>1, <1>2, <2>2, <2>3 DEF OnceInv, Pending
  <2>5. \A q \in Requests : q \in Pending' <=> q \in Pending
    BY <2>4, RequestsAssumption
  <2>6. MailInv'
    BY <1>1, <2>1, <2>4, <2>5 DEF MailInv, MailOk
  <2>7. CutInv'
    BY <1>1, <2>1 DEF CutInv, CutOk, Met
  <2> QED BY <2>6, <2>7
<1> QED BY <1>3, <1>4, <1>5, <1>6, <1>7

LEMMA MailStep ==
    ASSUME TypeInv, BatchInv, MailInv, CutInv, [Next]_vars
    PROVE  MailInv' /\ CutInv'
<1>1. TypeInv'
  BY TypeInvStep
<1>2. CASE Thread
  BY <1>1, <1>2, ThreadDelivers, DeliveryKeepsMail, DeliveryKeepsCut
<1>3. CASE Stop
  <2>1. /\ UNCHANGED <<queue, hand, client, rq, cancelled, active, uid, nextUid>>
        /\ harm' = harm \cup {"stop"}
    BY <1>3 DEF Stop, handlers, batch
  <2> QED BY <2>1 DEF MailInv, OnceInv, MailOk, Pending, CutInv, CutOk, Met
<1>4. CASE \E r \in Requests :
              Submit(r) \/ Start(r) \/ Read(r) \/ Leave(r) \/ SendRelease(r)
  BY <1>4, HandlerStep
<1>5. CASE UNCHANGED vars
  BY <1>5 DEF vars, MailInv, OnceInv, MailOk, Pending, CutInv, CutOk, Met
<1> QED BY <1>2, <1>3, <1>4, <1>5 DEF Next

LEMMA MailInit == Init => MailInv /\ CutInv
<1> SUFFICES ASSUME Init PROVE MailInv /\ CutInv
  OBVIOUS
<1>1. Elements(<<>>) = {} /\ Once(<<>>)
  BY DEF Elements, Once
<1>2. OnceInv /\ Pending = {}
  BY <1>1 DEF Init, OnceInv, Pending
<1>3. ASSUME NEW r \in Requests
      PROVE  client[r] = "idle" /\ rq[r] = <<>> /\ MailOk(r) /\ r \notin Met
  BY <1>2, ShortAnswers DEF Init, MailOk, Listening, Met
<1>4. CutOk
  BY <1>3, ShortAnswers DEF Init, CutOk, Met
<1> QED BY <1>2, <1>3, <1>4 DEF MailInv, CutInv

LEMMA AllHold == Spec => [](TypeInv /\ MailInv /\ CutInv)
<1> QED BY TypeInvInit, TypeInvStep, BatchInit, BatchStep, MailInit, MailStep, PTL DEF Spec

\* An answer ends once, and whoever was told of its end is answered no more.
THEOREM AnswersEndOnce == Spec => []EndsOnce
<1>1. TypeInv /\ MailInv => EndsOnce
  <2> SUFFICES ASSUME TypeInv, MailInv, NEW r \in Requests, NEW i \in DOMAIN rq[r],
                      rq[r][i] \in Final
               PROVE  /\ r \notin active
                      /\ \/ i = Len(rq[r])
                         \/ i + 1 = Len(rq[r]) /\ rq[r][i] # "none" /\ rq[r][i + 1] = "none"
    BY DEF EndsOnce
  <2>1. rq[r] \in Seq(Messages) /\ MailOk(r)
    BY DEF TypeInv, TypeOK, MailInv
  <2>2. i \in 1 .. Len(rq[r])
    BY <2>1, LenProperties
  <2> QED BY <2>1, <2>2 DEF MailOk, EndsWell, Unended
<1> QED BY <1>1, AllHold, PTL

\* Unless a failed embedding or an early release_kv lost it, a request without
\* an end is somewhere the thread will find it.
THEOREM RequestsStay == Spec => []NoRequestVanishes
<1>1. TypeInv /\ MailInv => NoRequestVanishes
  <2> SUFFICES ASSUME TypeInv, MailInv, harm \cap {"lost", "orphan"} = {},
                      NEW r \in Requests, client[r] \in Listening, ~IsOver(r)
               PROVE  r \in Elements(queue) \cup Elements(hand) \cup active
    BY DEF NoRequestVanishes
  <2>1. rq[r] \in Seq(Messages) /\ MailOk(r)
    BY DEF TypeInv, TypeOK, MailInv
  <2>2. Unended(rq[r])
    BY <2>1, LenProperties DEF IsOver, Unended
  <2> QED BY <2>1, <2>2 DEF MailOk, Pending
<1> QED BY <1>1, AllHold, PTL

\* A cancellation ends nobody else, until a generator was dropped.
THEOREM OthersAreNotCut == Spec => []OnlyAbandonedAreCut
<1>1. CutInv => OnlyAbandonedAreCut
  BY DEF CutInv, CutOk, OnlyAbandonedAreCut
<1> QED BY <1>1, AllHold, PTL

=============================================================================

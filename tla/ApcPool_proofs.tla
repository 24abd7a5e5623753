----------------------------- MODULE ApcPool_proofs -----------------------------
(* Proofs about ApcPool: the pool's types and its table for every disturbance;   *)
(* references, queue and contents as long as no harvest fails halfway and nobody *)
(* clears the pool while blocks are held.                                        *)
EXTENDS ApcPool, FiniteSetTheorems, TLAPS

--------------------------------------------------------------------------------
(* Types *)

LinksType == /\ head \in Blocks \cup {Nil} /\ tail \in Blocks \cup {Nil}
             /\ prev \in [Blocks -> Blocks \cup {Nil}]
             /\ next \in [Blocks -> Blocks \cup {Nil}]

PoolType == /\ ref \in [Blocks -> Nat]
            /\ hash \in [Blocks -> Keys \cup {NoKey}]
            /\ table \in [Keys -> Blocks \cup {Nil}]
            /\ LinksType

PCs == {"idle", "lookup", "unpick", "prefill", "store", "release", "cleanup"}

ThreadType ==
  /\ pc \in PCs /\ row \in Rows /\ pos \in 1 .. MaxLen + 1 /\ lock \in BOOLEAN
  /\ prompt \in [Rows -> Prompts \cup {NoRow}]
  /\ meta \in [Slots -> Blocks \cup {Nil}]
  /\ prefix \in [Rows -> 0 .. MaxLen] /\ skip \in [Rows -> 0 .. MaxLen]
  /\ held \subseteq Slots
  /\ pc = "unpick" => pos <= prefix[row]

TypeInv == PoolType /\ ThreadType

LEMMA TypeInvGivesTypeOK == TypeInv => TypeOK
  BY DEF TypeInv, PoolType, LinksType, ThreadType, TypeOK, PCs

LEMMA BlocksFacts == Blocks \subseteq Nat \ {0} /\ 1 \in Blocks /\ NumBlocks \in Blocks
  BY ConstantsAssumption DEF Blocks

LEMMA PromptFacts ==
  ASSUME NEW p \in Prompts \cup {NoRow}
  PROVE  /\ Len(p) \in 0 .. MaxLen
         /\ \A i \in 1 .. Len(p): p[i] \in Keys
<1>1. p \in Seq(Keys) /\ Len(p) <= MaxLen
  <2>1. CASE p \in Prompts
    BY <2>1, ConstantsAssumption
  <2>2. CASE p = <<>>
    <3>1. Len(p) = 0 /\ p \in Seq(Keys)
      BY <2>2
    <3> QED
      BY <3>1, ConstantsAssumption
  <2> QED
    BY <2>1, <2>2 DEF NoRow
<1> QED
  BY <1>1, ConstantsAssumption

LEMMA HereFacts ==
  ASSUME ThreadType, InPrompt
  PROVE  Here \in Slots /\ Key \in Keys /\ pos \in 1 .. MaxLen
<1>1. prompt[row] \in Prompts \cup {NoRow} /\ row \in Rows /\ pos \in 1 .. MaxLen + 1
  BY DEF ThreadType
<1>2. Len(prompt[row]) \in 0 .. MaxLen /\ \A i \in 1 .. Len(prompt[row]): prompt[row][i] \in Keys
  BY <1>1, PromptFacts
<1>3. pos \in 1 .. MaxLen /\ pos \in 1 .. Len(prompt[row])
  BY <1>1, <1>2, ConstantsAssumption DEF InPrompt
<1> QED
  BY <1>1, <1>2, <1>3 DEF Here, Key, Slots

LEMMA PushType ==
  ASSUME LinksType, NEW b \in Blocks \cup {Nil}, FreePush(b)
  PROVE  LinksType'
  BY BlocksFacts DEF LinksType, FreePush

LEMMA RemoveType ==
  ASSUME LinksType, NEW b \in Blocks, FreeRemove(b)
  PROVE  LinksType'
  BY BlocksFacts DEF LinksType, FreeRemove

(* What a step does to the pool, whatever the thread does with it. *)
PoolStep ==
  \/ UNCHANGED pool
  \/ \E b \in Blocks: AcquireExisting(b)
  \/ \E b \in Blocks \cup {Nil}: ReleaseOne(b)
  \/ \E k \in Keys: table[k] = Nil /\ EvictFor(head, k)
  \/ EvictForNothing(head)
  \/ Clear

LEMMA FoundBlock ==
  ASSUME TypeInv, Found
  PROVE  table[Key] \in Blocks /\ Here \in Slots /\ Key \in Keys
<1>1. Here \in Slots /\ Key \in Keys
  BY HereFacts DEF TypeInv, Found
<1> QED
  BY <1>1 DEF TypeInv, PoolType, Found

LEMMA StepOnPool ==
  ASSUME TypeInv, [Next]_vars
  PROVE  PoolStep
<1>0. CASE UNCHANGED vars
  BY <1>0 DEF PoolStep, vars
<1>1. CASE LookupHit \/ StoreShared
  <2>1. Found /\ AcquireExisting(table[Key])
    BY <1>1 DEF LookupHit, StoreShared
  <2> QED
    BY <2>1, FoundBlock DEF PoolStep
<1>2. CASE StoreNew
  <2>1. InPrompt /\ ~Found /\ EvictFor(head, Key)
    BY <1>2 DEF StoreNew
  <2>2. Key \in Keys /\ table[Key] = Nil
    BY <2>1, HereFacts DEF TypeInv, Found
  <2> QED
    BY <2>1, <2>2 DEF PoolStep
<1>3. CASE StoreRaises
  BY <1>3 DEF StoreRaises, PoolStep
<1>4. CASE Unpick \/ Release \/ Cleanup
  <2>1. Here \in Slots
    <3>1. row \in Rows /\ pos \in Nat /\ 1 <= pos /\ prefix[row] \in 0 .. MaxLen
      BY ConstantsAssumption DEF TypeInv, ThreadType
    <3>2. CASE Release
      BY <3>2, HereFacts DEF Release, TypeInv
    <3>3. CASE Unpick \/ Cleanup
      <4>1. pos <= prefix[row]
        BY <3>3 DEF Unpick, Cleanup, TypeInv, ThreadType
      <4> QED
        BY <4>1, <3>1, ConstantsAssumption DEF Here, Slots
    <3> QED
      BY <1>4, <3>2, <3>3
  <2>2. meta[Here] \in Blocks \cup {Nil} /\ ReleaseOne(meta[Here])
    BY <1>4, <2>1 DEF Unpick, Release, Cleanup, TypeInv, ThreadType
  <2> QED
    BY <2>2 DEF PoolStep
<1>5. CASE ReleaseIdleKv \/ Reset
  BY <1>5 DEF ReleaseIdleKv, Reset, PoolStep
<1>6. CASE \/ Admit \/ LookupEnds \/ Prefilled \/ CacheRefused \/ StoreSkips
           \/ StoreEnds \/ ReleasePasses \/ ReleaseEnds \/ CleanupEnds \/ Remove
           \/ StepRaises
  BY <1>6 DEF Admit, LookupEnds, Prefilled, CacheRefused, StoreSkips, StoreEnds,
              ReleasePasses, ReleaseEnds, CleanupEnds, Remove, StepRaises, PoolStep, pool
<1> QED
  BY <1>0, <1>1, <1>2, <1>3, <1>4, <1>5, <1>6 DEF Next

LEMMA PoolTypeKept ==
  ASSUME PoolType, PoolStep
  PROVE  PoolType'
<1> USE BlocksFacts
<1>0. CASE UNCHANGED pool
  BY <1>0 DEF PoolType, LinksType, pool, links
<1>1. CASE \E b \in Blocks: AcquireExisting(b)
  <2> PICK b \in Blocks: AcquireExisting(b)
    BY <1>1
  <2>1. LinksType'
    BY RemoveType DEF AcquireExisting, PoolType, LinksType, links
  <2>2. ref' \in [Blocks -> Nat]
    BY DEF AcquireExisting, PoolType
  <2> QED
    BY <2>1, <2>2 DEF AcquireExisting, PoolType
<1>2. CASE \E b \in Blocks \cup {Nil}: ReleaseOne(b)
  <2> PICK b \in Blocks \cup {Nil}: ReleaseOne(b)
    BY <1>2
  <2>1. LinksType'
    BY PushType DEF ReleaseOne, PoolType, LinksType, links
  <2>2. ref' \in [Blocks -> Nat]
    <3>1. CASE b \in Blocks
      <4>1. ref[b] \in Nat
        BY <3>1 DEF PoolType
      <4>2. (IF ref[b] <= 1 THEN 0 ELSE ref[b] - 1) \in Nat
        BY <4>1
      <4> QED
        BY <4>2 DEF ReleaseOne, PoolType
    <3>2. CASE b \notin Blocks
      BY <3>2 DEF ReleaseOne, PoolType
    <3> QED
      BY <3>1, <3>2
  <2> QED
    BY <2>1, <2>2 DEF ReleaseOne, PoolType
<1>3. CASE (\E k \in Keys: EvictFor(head, k)) \/ EvictForNothing(head)
  <2>1. head \in Blocks /\ FreeRemove(head)
    BY <1>3 DEF EvictFor, EvictForNothing, PoolType, LinksType
  <2>2. LinksType'
    BY <2>1, RemoveType DEF PoolType
  <2>3. TableWithout(head) \in [Keys -> Blocks \cup {Nil}]
    BY DEF TableWithout, PoolType
  <2> QED
    BY <1>3, <2>1, <2>2, <2>3 DEF EvictFor, EvictForNothing, PoolType
<1>4. CASE Clear
  <2>1. /\ NoRefs \in [Blocks -> Nat] /\ NoHashes \in [Blocks -> Keys \cup {NoKey}]
        /\ NoEntries \in [Keys -> Blocks \cup {Nil}]
    BY DEF NoRefs, NoHashes, NoEntries
  <2>2. /\ PoolPrev \in [Blocks -> Blocks \cup {Nil}]
        /\ PoolNext \in [Blocks -> Blocks \cup {Nil}]
    BY ConstantsAssumption DEF PoolPrev, PoolNext, Blocks, Nil
  <2> QED
    BY <1>4, <2>1, <2>2 DEF Clear, PoolType, LinksType
<1> QED
  BY <1>0, <1>1, <1>2, <1>3, <1>4 DEF PoolStep

LEMMA BatchEndsType ==
  ASSUME BatchEnds
  PROVE  ThreadType'
<1>1. /\ 1 \in Rows /\ 0 \in 0 .. MaxLen /\ 1 \in 1 .. MaxLen + 1
  BY ConstantsAssumption DEF Rows
<1> QED
  BY <1>1 DEF BatchEnds, At, ThreadType, NoBlocks, PCs, Nil

LEMMA NextPickType ==
  ASSUME ThreadType, NextPick
  PROVE  /\ pc' \in {"lookup", "prefill"} /\ row' \in Rows
         /\ pos' \in 1 .. MaxLen + 1 /\ lock' \in BOOLEAN
<1>1. row \in Rows /\ NumRows \in Nat \ {0} /\ MaxLen \in Nat
  BY ConstantsAssumption DEF ThreadType
<1>2. 1 \in Rows /\ (row < NumRows => row + 1 \in Rows) /\ 1 \in 1 .. MaxLen + 1
  BY <1>1 DEF Rows
<1> QED
  BY <1>2 DEF NextPick, At

LEMMA ThreadTypeKept ==
  ASSUME TypeInv, [Next]_vars
  PROVE  ThreadType'
<1> USE DEF PCs, At
<1>c. /\ MaxLen \in Nat /\ NumRows \in Nat \ {0} /\ 1 \in Rows
      /\ row \in Rows /\ pos \in 1 .. MaxLen + 1 /\ row \in Nat /\ pos \in Nat
      /\ ThreadType /\ 1 \in 1 .. MaxLen + 1
  BY ConstantsAssumption DEF TypeInv, ThreadType, Rows
<1>r. \A r \in Rows: skip[r] + 1 \in 1 .. MaxLen + 1 /\ skip[r] \in 0 .. MaxLen
                     /\ prefix[r] \in 0 .. MaxLen
  BY <1>c DEF ThreadType
<1>n. row < NumRows => row + 1 \in Rows
  BY <1>c DEF Rows
<1>0. CASE UNCHANGED vars
  BY <1>0, <1>c DEF vars, batch, ThreadType
<1>1. CASE Admit
  BY <1>1, <1>c DEF Admit, ThreadType
<1>2. CASE LookupHit
  <2>1. table[Key] \in Blocks /\ Here \in Slots
    BY <1>2, FoundBlock DEF LookupHit
  <2>2. pos \in 1 .. MaxLen
    BY <1>2, <1>c, HereFacts DEF LookupHit, Found
  <2>3. pos + 1 \in 1 .. MaxLen + 1 /\ pos \in 0 .. MaxLen
    BY <2>2, <1>c
  <2> QED
    BY <1>2, <1>c, <2>1, <2>3 DEF LookupHit, Records, ThreadType
<1>3. CASE LookupEnds
  <2>1. prompt[row] \in Prompts \cup {NoRow}
    BY <1>c DEF ThreadType
  <2>2. Len(prompt[row]) \in 0 .. MaxLen
    BY <2>1, PromptFacts
  <2>3. CASE NextPick /\ \E n \in 0 .. MaxLen: Skips(n)
    <3>1. /\ pc' \in {"lookup", "prefill"} /\ row' \in Rows
          /\ pos' \in 1 .. MaxLen + 1 /\ lock' \in BOOLEAN
      BY <2>3, <1>c, NextPickType
    <3>2. skip' \in [Rows -> 0 .. MaxLen]
      BY <2>3, <1>c DEF Skips, ThreadType
    <3> QED
      BY <1>3, <1>c, <3>1, <3>2 DEF LookupEnds, ThreadType
  <2>4. CASE prefix[row] > 0 /\ At("unpick", row, 1, FALSE) /\ UNCHANGED skip
    <3>1. 1 <= prefix[row] /\ 1 \in 1 .. MaxLen + 1
      BY <2>4, <1>c, <1>r
    <3> QED
      BY <1>3, <1>c, <2>4, <3>1 DEF LookupEnds, ThreadType
  <2>5. \A n \in 0 .. Len(prompt[row]): n \in 0 .. MaxLen
    BY <2>2, <1>c
  <2> QED
    BY <1>3, <1>r, <1>c, <2>3, <2>4, <2>5 DEF LookupEnds
<1>4. CASE Unpick
  <2>1. Here \in Slots
    BY <1>4, <1>c, <1>r DEF Unpick, ThreadType, Here, Slots
  <2>2. meta' \in [Slots -> Blocks \cup {Nil}] /\ held' \subseteq Slots
    BY <1>4, <1>c, <2>1 DEF Unpick, ThreadType
  <2>3. CASE pos < prefix[row] /\ At("unpick", row, pos + 1, TRUE)
             /\ UNCHANGED <<prefix, skip>>
    <3>1. pos + 1 \in 1 .. MaxLen + 1 /\ pos + 1 <= prefix[row]
      BY <2>3, <1>c, <1>r
    <3> QED
      BY <1>4, <1>c, <2>2, <2>3, <3>1 DEF Unpick, ThreadType
  <2>4. CASE /\ NextPick /\ prefix' = [prefix EXCEPT ![row] = 0]
             /\ \E n \in {0} \cup (pos .. Len(prompt[row])): Skips(n)
    <3>1. /\ pc' \in {"lookup", "prefill"} /\ row' \in Rows
          /\ pos' \in 1 .. MaxLen + 1 /\ lock' \in BOOLEAN
      BY <2>4, <1>c, NextPickType
    <3>2. prompt[row] \in Prompts \cup {NoRow}
      BY <1>c DEF ThreadType
    <3>3. Len(prompt[row]) \in 0 .. MaxLen
      BY <3>2, PromptFacts
    <3>4. \A n \in {0} \cup (pos .. Len(prompt[row])): n \in 0 .. MaxLen
      BY <3>3, <1>c
    <3>5. skip' \in [Rows -> 0 .. MaxLen] /\ prefix' \in [Rows -> 0 .. MaxLen]
      BY <2>4, <3>4, <1>c DEF Skips, ThreadType
    <3> QED
      BY <1>4, <1>c, <2>2, <3>1, <3>5 DEF Unpick, ThreadType
  <2> QED
    BY <1>4, <2>3, <2>4 DEF Unpick
<1>5. CASE Prefilled \/ CacheRefused
  BY <1>5, <1>c, <1>r DEF Prefilled, CacheRefused, ThreadType, batch
<1>6. CASE StoreShared
  <2>1. table[Key] \in Blocks /\ Here \in Slots
    BY <1>6, FoundBlock DEF StoreShared
  <2>2. pos \in 1 .. MaxLen
    BY <1>6, <1>c, HereFacts DEF StoreShared, Found
  <2>3. pos + 1 \in 1 .. MaxLen + 1
    BY <2>2, <1>c
  <2> QED
    BY <1>6, <1>c, <2>1, <2>3 DEF StoreShared, Records, ThreadType
<1>7. CASE StoreNew
  <2>1. head \in Blocks /\ Here \in Slots /\ pos \in 1 .. MaxLen
    BY <1>7, <1>c, HereFacts
       DEF StoreNew, EvictFor, TypeInv, PoolType, LinksType
  <2>2. pos + 1 \in 1 .. MaxLen + 1
    BY <2>1, <1>c
  <2> QED
    BY <1>7, <1>c, <2>1, <2>2 DEF StoreNew, Records, ThreadType
<1>8. CASE StoreEnds
  BY <1>8, <1>c, <1>r DEF StoreEnds, ThreadType, batch
<1>9. CASE StoreRaises
  BY <1>9, <1>c DEF StoreRaises, ThreadType, batch
<1>10. CASE Release \/ ReleasePasses \/ StoreSkips
  <2>1. pos \in 1 .. MaxLen
    BY <1>10, <1>c, HereFacts DEF Release, ReleasePasses, StoreSkips
  <2>2. pos + 1 \in 1 .. MaxLen + 1
    BY <2>1, <1>c
  <2> QED
    BY <1>10, <1>c, <2>2 DEF Release, ReleasePasses, StoreSkips, ThreadType, batch
<1>11. CASE ReleaseEnds
  <2>1. CASE BatchEnds
    BY <2>1, BatchEndsType
  <2>2. CASE row < NumRows /\ At("store", row + 1, skip[row + 1] + 1, FALSE)
             /\ UNCHANGED batch
    BY <2>2, <1>c, <1>r, <1>n DEF ThreadType, batch
  <2> QED
    BY <1>11, <2>1, <2>2 DEF ReleaseEnds
<1>12. CASE Cleanup
  <2>1. pos + 1 \in 1 .. MaxLen + 1
    BY <1>12, <1>c, <1>r DEF Cleanup
  <2> QED
    BY <1>12, <1>c, <2>1 DEF Cleanup, ThreadType
<1>13. CASE CleanupEnds
  <2>1. CASE BatchEnds
    BY <2>1, BatchEndsType
  <2>2. CASE row < NumRows /\ At("cleanup", row + 1, 1, FALSE) /\ UNCHANGED batch
    BY <2>2, <1>c, <1>n DEF ThreadType, batch
  <2> QED
    BY <1>13, <2>1, <2>2 DEF CleanupEnds
<1>14. CASE Remove \/ StepRaises \/ ReleaseIdleKv
  BY <1>14, BatchEndsType DEF Remove, StepRaises, ReleaseIdleKv
<1>15. CASE Reset
  BY <1>15, <1>c DEF Reset, ThreadType, batch
<1> QED
  BY <1>0, <1>1, <1>2, <1>3, <1>4, <1>5, <1>6, <1>7, <1>8, <1>9, <1>10, <1>11,
     <1>12, <1>13, <1>14, <1>15 DEF Next

LEMMA InitPool == Init => PoolType
<1>1. /\ NoRefs \in [Blocks -> Nat] /\ NoHashes \in [Blocks -> Keys \cup {NoKey}]
      /\ NoEntries \in [Keys -> Blocks \cup {Nil}]
  BY DEF NoRefs, NoHashes, NoEntries
<1>2. /\ PoolPrev \in [Blocks -> Blocks \cup {Nil}]
      /\ PoolNext \in [Blocks -> Blocks \cup {Nil}]
  BY ConstantsAssumption DEF PoolPrev, PoolNext, Blocks, Nil
<1> QED
  BY <1>1, <1>2, BlocksFacts DEF Init, PoolType, LinksType

LEMMA InitThread == Init => ThreadType
<1>1. 1 \in Rows /\ 0 \in 0 .. MaxLen /\ 1 \in 1 .. MaxLen + 1
  BY ConstantsAssumption DEF Rows
<1> QED
  BY <1>1 DEF Init, ThreadType, NoBlocks, PCs, Nil

\* Type correctness, for pools, batches and prompts of any size and whatever
\* disturbs them (apc/manager.py, generate/batch).
THEOREM PoolTypeCorrect == Spec => []TypeOK
<1>1. Init => TypeInv
  BY InitPool, InitThread DEF TypeInv
<1>2. TypeInv /\ [Next]_vars => TypeInv'
  <2> SUFFICES ASSUME TypeInv, [Next]_vars PROVE TypeInv'
    OBVIOUS
  <2>1. PoolType'
    BY StepOnPool, PoolTypeKept DEF TypeInv
  <2>2. ThreadType'
    BY ThreadTypeKept
  <2> QED
    BY <2>1, <2>2 DEF TypeInv
<1> QED
  BY <1>1, <1>2, TypeInvGivesTypeOK, PTL DEF Spec

--------------------------------------------------------------------------------
(* The hash table *)

LEMMA EvictKeepsTable ==
  ASSUME PoolType, LookupIsExact, NEW b \in Blocks, NEW k \in Keys,
         table[k] = Nil,
         hash' = [hash EXCEPT ![b] = k],
         table' = [TableWithout(b) EXCEPT ![k] = b]
  PROVE  LookupIsExact'
<1> USE BlocksFacts DEF PoolType, Nil
<1>1. ASSUME NEW j \in Keys, table'[j] # Nil PROVE hash'[table'[j]] = j
  <2>1. CASE j = k
    BY <2>1 DEF TableWithout
  <2>2. CASE j # k
    <3>1. table'[j] = table[j] /\ table[j] # Nil /\ ~(j = hash[b] /\ table[j] = b)
      BY <1>1, <2>2 DEF TableWithout
    <3>2. hash[table[j]] = j /\ table[j] \in Blocks
      BY <3>1 DEF LookupIsExact
    <3>3. table[j] # b
      BY <3>1, <3>2
    <3> QED
      BY <3>1, <3>2, <3>3
  <2> QED
    BY <2>1, <2>2
<1>2. ASSUME NEW c \in Blocks, hash'[c] # NoKey PROVE table'[hash'[c]] = c
  <2>1. CASE c = b
    BY <2>1 DEF TableWithout
  <2>2. CASE c # b
    <3>1. hash'[c] = hash[c] /\ hash[c] \in Keys /\ table[hash[c]] = c
      BY <1>2, <2>2 DEF LookupIsExact
    <3>2. hash[c] # k
      BY <3>1
    <3> QED
      BY <2>2, <3>1, <3>2 DEF TableWithout
  <2> QED
    BY <2>1, <2>2
<1> QED
  BY <1>1, <1>2 DEF LookupIsExact

LEMMA LossKeepsTable ==
  ASSUME PoolType, LookupIsExact, NEW b \in Blocks,
         hash' = [hash EXCEPT ![b] = NoKey], table' = TableWithout(b)
  PROVE  LookupIsExact'
<1> USE BlocksFacts, ConstantsAssumption DEF PoolType, Nil
<1>1. ASSUME NEW j \in Keys, table'[j] # Nil PROVE hash'[table'[j]] = j
  <2>1. table'[j] = table[j] /\ table[j] # Nil /\ ~(j = hash[b] /\ table[j] = b)
    BY <1>1 DEF TableWithout
  <2>2. hash[table[j]] = j /\ table[j] \in Blocks /\ table[j] # b
    BY <2>1 DEF LookupIsExact
  <2> QED
    BY <2>1, <2>2
<1>2. ASSUME NEW c \in Blocks, hash'[c] # NoKey PROVE table'[hash'[c]] = c
  <2>1. c # b /\ hash'[c] = hash[c] /\ hash[c] \in Keys /\ table[hash[c]] = c
    BY <1>2 DEF LookupIsExact
  <2> QED
    BY <2>1 DEF TableWithout
<1> QED
  BY <1>1, <1>2 DEF LookupIsExact

LEMMA TableKept ==
  ASSUME PoolType, LookupIsExact, PoolStep
  PROVE  LookupIsExact'
<1>0. CASE UNCHANGED pool \/ (\E b \in Blocks: AcquireExisting(b))
           \/ (\E b \in Blocks \cup {Nil}: ReleaseOne(b))
  <2>1. UNCHANGED <<hash, table>>
    BY <1>0 DEF pool, AcquireExisting, ReleaseOne
  <2> QED
    BY <2>1 DEF LookupIsExact
<1>1. CASE \E k \in Keys: table[k] = Nil /\ EvictFor(head, k)
  <2> PICK k \in Keys: table[k] = Nil /\ EvictFor(head, k)
    BY <1>1
  <2> PICK b \in Blocks: b = head
    BY DEF EvictFor, PoolType, LinksType
  <2> QED
    BY EvictKeepsTable DEF EvictFor
<1>2. CASE EvictForNothing(head)
  <2> PICK b \in Blocks: b = head
    BY <1>2 DEF EvictForNothing, PoolType, LinksType
  <2> QED
    BY <1>2, LossKeepsTable DEF EvictForNothing
<1>3. CASE Clear
  BY <1>3 DEF Clear, LookupIsExact, NoHashes, NoEntries
<1> QED
  BY <1>0, <1>1, <1>2, <1>3 DEF PoolStep

\* A lookup returns a block only for the content it caches, even after failed
\* harvests, double releases and resets (APCManager.hash_table).
THEOREM PoolLookupIsExact == Spec => []LookupIsExact
<1>1. Init => TypeInv /\ LookupIsExact
  BY InitPool, InitThread DEF TypeInv, Init, LookupIsExact, NoHashes, NoEntries
<1>2. TypeInv /\ LookupIsExact /\ [Next]_vars => TypeInv' /\ LookupIsExact'
  <2> SUFFICES ASSUME TypeInv, LookupIsExact, [Next]_vars
               PROVE  TypeInv' /\ LookupIsExact'
    OBVIOUS
  <2>1. PoolStep
    BY StepOnPool
  <2>2. PoolType' /\ LookupIsExact'
    BY <2>1, PoolTypeKept, TableKept DEF TypeInv
  <2>3. ThreadType'
    BY ThreadTypeKept
  <2> QED
    BY <2>2, <2>3 DEF TypeInv
<1> QED
  BY <1>1, <1>2, PTL DEF Spec
--------------------------------------------------------------------------------
(* References, queue and contents *)

\* q is the free queue: it holds each block without a user once and no other, and
\* its blocks are linked in their order.
IsQueue(q) ==
  /\ q \in Seq(Blocks)
  /\ \A i, j \in 1 .. Len(q): q[i] = q[j] => i = j
  /\ \A b \in Blocks: ref[b] = 0 <=> \E i \in 1 .. Len(q): q[i] = b
  /\ head = IF Len(q) = 0 THEN Nil ELSE q[1]
  /\ tail = IF Len(q) = 0 THEN Nil ELSE q[Len(q)]
  /\ \A i \in 1 .. Len(q):
       /\ next[q[i]] = IF i = Len(q) THEN Nil ELSE q[i + 1]
       /\ prev[q[i]] = IF i = 1 THEN Nil ELSE q[i - 1]

FreeLinks == \E q: IsQueue(q)

\* The thread has released position i of row r, or will never do so.
Released(r, i) == /\ pc \in {"store", "release", "cleanup"}
                  /\ r < row \/ (r = row /\ pc # "store" /\ i < pos)

RecordedIsHeld ==
  \A r \in Rows, i \in 1 .. MaxLen:
    meta[<<r, i>>] # Nil /\ ~Released(r, i) => <<r, i>> \in held

PrefixIsRecorded ==
  \A r \in Rows, i \in 1 .. MaxLen:
    i <= prefix[r] /\ ~(pc = "unpick" /\ r = row /\ i < pos)
      => meta[<<r, i>>] # Nil

LookupOrder ==
  /\ pc = "lookup" => prefix[row] = pos - 1
  /\ pc \in {"lookup", "unpick"} =>
       \A r \in Rows: r > row => prefix[r] = 0
  /\ pc = "idle" => held = {} /\ \A r \in Rows: prefix[r] = 0

ThreadInv == RecordedIsHeld /\ PrefixIsRecorded /\ LookupOrder
PoolInv   == TypeInv /\ LookupIsExact /\ FreeLinks
Inv       == PoolInv /\ ThreadInv /\ RefsCoverHolders /\ KeptAlive

\* No disturbance leaves the pool's own bookkeeping behind.
Undisturbed == Faults \subseteq {"remove", "raise"}

LEMMA RemovedAt ==
  ASSUME NEW q \in Seq(Blocks), NEW k \in 1 .. Len(q)
  PROVE  /\ Lru!RemoveAt(q, k) \in Seq(Blocks)
         /\ Len(Lru!RemoveAt(q, k)) = Len(q) - 1
         /\ \A i \in 1 .. Len(q) - 1:
              Lru!RemoveAt(q, k)[i] = IF i < k THEN q[i] ELSE q[i + 1]
<1> DEFINE l == SubSeq(q, 1, k - 1)
           r == SubSeq(q, k + 1, Len(q))
<1>1. /\ l \in Seq(Blocks) /\ Len(l) = k - 1
      /\ \A i \in 1 .. k - 1: l[i] = q[i]
  OBVIOUS
<1>2. /\ r \in Seq(Blocks) /\ Len(r) = Len(q) - k
      /\ \A i \in 1 .. Len(q) - k: r[i] = q[k + i]
  OBVIOUS
<1>3. Lru!RemoveAt(q, k) = l \o r
  BY DEF Lru!RemoveAt
<1> HIDE DEF l, r
<1>4. /\ l \o r \in Seq(Blocks) /\ Len(l \o r) = Len(q) - 1
  <2>1. Len(l \o r) = Len(l) + Len(r) /\ l \o r \in Seq(Blocks)
    <3>1. l \in Seq(Blocks) /\ r \in Seq(Blocks)
      BY <1>1, <1>2
    <3>2. \A x, y \in Seq(Blocks):
            x \o y \in Seq(Blocks) /\ Len(x \o y) = Len(x) + Len(y)
      OBVIOUS
    <3> QED
      BY <3>1, <3>2
  <2>2. Len(q) \in Nat /\ k \in Nat
    OBVIOUS
  <2> QED
    BY <1>1, <1>2, <2>1, <2>2
<1>5. ASSUME NEW i \in 1 .. Len(q) - 1
      PROVE  (l \o r)[i] = IF i < k THEN q[i] ELSE q[i + 1]
  <2>1. CASE i < k
    <3>1. i \in 1 .. Len(l)
      BY <1>1, <2>1
    <3>2. (l \o r)[i] = l[i]
      BY <1>1, <1>2, <3>1
    <3> QED
      BY <1>1, <2>1, <3>1, <3>2
  <2>2. CASE ~(i < k)
    <3>1. i - (k - 1) \in 1 .. Len(q) - k /\ k + (i - (k - 1)) = i + 1
      BY <2>2
    <3>2. (l \o r)[i] = r[i - (k - 1)]
      BY <1>1, <1>2, <2>2, <1>4
    <3>3. r[i - (k - 1)] = q[i + 1]
      BY <1>2, <3>1
    <3> QED
      BY <2>2, <3>2, <3>3
  <2> QED
    BY <2>1, <2>2
<1> QED
  BY <1>3, <1>4, <1>5

LEMMA RemoveKeepsQueue ==
  ASSUME PoolType, NEW q, IsQueue(q), NEW k \in 1 .. Len(q), FreeRemove(q[k]),
         ref'[q[k]] # 0, \A c \in Blocks: c # q[k] => ref'[c] = ref[c]
  PROVE  IsQueue(Lru!RemoveAt(q, k))'
<1> PICK n \in Nat: n = Len(q)
  BY DEF IsQueue
<1> PICK p: p = Lru!RemoveAt(q, k)
  OBVIOUS
<1>b. /\ Nil \notin Blocks /\ k \in 1 .. n /\ k \in Nat
      /\ \A i \in 1 .. n: q[i] \in Blocks
      /\ \A i, j \in 1 .. n: q[i] = q[j] => i = j
  BY BlocksFacts DEF Nil, IsQueue
<1>1. /\ p \in Seq(Blocks) /\ Len(p) = n - 1
      /\ \A i \in 1 .. n - 1: p[i] = IF i < k THEN q[i] ELSE q[i + 1]
  BY RemovedAt DEF IsQueue
<1>2. /\ next[q[k]] = IF k = n THEN Nil ELSE q[k + 1]
      /\ prev[q[k]] = IF k = 1 THEN Nil ELSE q[k - 1]
  BY DEF IsQueue
<1>3. ASSUME NEW i \in 1 .. n, i # k
      PROVE  /\ next'[q[i]] = IF i = k - 1 THEN next[q[k]] ELSE next[q[i]]
             /\ prev'[q[i]] = IF i = k + 1 THEN prev[q[k]] ELSE prev[q[i]]
             /\ next[q[i]] = IF i = n THEN Nil ELSE q[i + 1]
             /\ prev[q[i]] = IF i = 1 THEN Nil ELSE q[i - 1]
  <2>1. q[i] # q[k] /\ q[i] \in Blocks /\ q[i] # Nil
    BY <1>b, <1>3
  <2>2. q[i] = prev[q[k]] <=> i = k - 1
    BY <1>2, <1>b, <2>1
  <2>3. q[i] = next[q[k]] <=> i = k + 1
    BY <1>2, <1>b, <2>1
  <2> QED
    BY <2>1, <2>2, <2>3 DEF FreeRemove, IsQueue
<1>4. \A i, j \in 1 .. n - 1: p[i] = p[j] => i = j
  BY <1>1, <1>b
<1>5. ASSUME NEW b \in Blocks
      PROVE  ref'[b] = 0 <=> \E i \in 1 .. n - 1: p[i] = b
  <2>1. ASSUME NEW i \in 1 .. n - 1, p[i] = b PROVE ref'[b] = 0
    <3>1. b # q[k] /\ \E j \in 1 .. n: q[j] = b
      BY <1>1, <1>b, <2>1
    <3> QED
      BY <3>1 DEF IsQueue
  <2>2. ASSUME ref'[b] = 0 PROVE \E i \in 1 .. n - 1: p[i] = b
    <3>1. PICK j \in 1 .. n: q[j] = b
      BY <2>2, <1>b DEF IsQueue
    <3>2. j # k
      BY <2>2, <3>1
    <3>3. CASE j < k
      BY <3>1, <3>3, <1>1, <1>b
    <3>4. CASE j > k
      <4>1. j - 1 \in 1 .. n - 1 /\ ~(j - 1 < k) /\ j - 1 + 1 = j
        BY <3>4, <1>b
      <4> QED
        BY <3>1, <4>1, <1>1
    <3> QED
      BY <3>2, <3>3, <3>4, <1>b
  <2> QED
    BY <2>1, <2>2
<1>6. head' = IF n - 1 = 0 THEN Nil ELSE p[1]
  <2>1. head = q[1]
    BY <1>b DEF IsQueue
  <2>2. head' = IF prev[q[k]] = Nil THEN next[q[k]] ELSE head
    BY DEF FreeRemove
  <2>3. prev[q[k]] = Nil <=> k = 1
    BY <1>2, <1>b
  <2> QED
    BY <2>1, <2>2, <2>3, <1>1, <1>2, <1>b
<1>7. tail' = IF n - 1 = 0 THEN Nil ELSE p[n - 1]
  <2>1. tail = q[n]
    BY <1>b DEF IsQueue
  <2>2. tail' = IF next[q[k]] = Nil THEN prev[q[k]] ELSE tail
    BY DEF FreeRemove
  <2>3. next[q[k]] = Nil <=> k = n
    BY <1>2, <1>b
  <2> QED
    BY <2>1, <2>2, <2>3, <1>1, <1>2, <1>b
<1>8. ASSUME NEW i \in 1 .. n - 1
      PROVE  /\ next'[p[i]] = IF i = n - 1 THEN Nil ELSE p[i + 1]
             /\ prev'[p[i]] = IF i = 1 THEN Nil ELSE p[i - 1]
  <2>1. CASE i < k
    <3>1. p[i] = q[i] /\ i \in 1 .. n /\ i # k /\ i # k + 1
      BY <2>1, <1>1, <1>b
    <3>2. prev'[p[i]] = IF i = 1 THEN Nil ELSE p[i - 1]
      BY <2>1, <3>1, <1>1, <1>3, <1>b
    <3>3. next'[p[i]] = IF i = n - 1 THEN Nil ELSE p[i + 1]
      <4>1. CASE i = k - 1
        <5>1. next'[q[i]] = next[q[k]] /\ (i = n - 1 <=> k = n)
          BY <3>1, <4>1, <1>3, <1>b
        <5>2. k # n => i + 1 \in 1 .. n - 1 /\ p[i + 1] = q[k + 1]
          BY <4>1, <1>1, <1>b
        <5> QED
          BY <3>1, <5>1, <5>2, <1>2
      <4>2. CASE i # k - 1
        <5>1. i + 1 \in 1 .. n - 1 /\ i + 1 < k /\ i # n /\ i # n - 1
          BY <2>1, <4>2, <1>b
        <5>2. next'[q[i]] = q[i + 1]
          BY <3>1, <4>2, <5>1, <1>3
        <5> QED
          BY <3>1, <5>1, <5>2, <1>1
      <4> QED
        BY <4>1, <4>2
    <3> QED
      BY <3>2, <3>3
  <2>2. CASE ~(i < k)
    <3>1. p[i] = q[i + 1] /\ i + 1 \in 1 .. n /\ i + 1 # k /\ i + 1 # k - 1
      BY <2>2, <1>1, <1>b
    <3>2. /\ next'[q[i + 1]] = next[q[i + 1]]
          /\ next[q[i + 1]] = IF i + 1 = n THEN Nil ELSE q[i + 2]
          /\ prev'[q[i + 1]] = IF i = k THEN prev[q[k]] ELSE prev[q[i + 1]]
          /\ prev[q[i + 1]] = q[i]
      BY <3>1, <1>3, <1>b
    <3>3. next'[p[i]] = IF i = n - 1 THEN Nil ELSE p[i + 1]
      BY <2>2, <3>1, <3>2, <1>1, <1>b
    <3>4. prev'[p[i]] = IF i = 1 THEN Nil ELSE p[i - 1]
      BY <2>2, <3>1, <3>2, <1>1, <1>2, <1>b
    <3> QED
      BY <3>3, <3>4
  <2> QED
    BY <2>1, <2>2
<1>9. IsQueue(p)'
  <2>1. n - 1 = Len(p)
    BY <1>1
  <2>2. \A i, j \in 1 .. Len(p): p[i] = p[j] => i = j
    BY <1>4, <2>1
  <2>3. \A b \in Blocks: ref'[b] = 0 <=> \E i \in 1 .. Len(p): p[i] = b
    BY <1>5, <2>1
  <2>4. /\ head' = IF Len(p) = 0 THEN Nil ELSE p[1]
        /\ tail' = IF Len(p) = 0 THEN Nil ELSE p[Len(p)]
    BY <1>6, <1>7, <2>1
  <2>5. \A i \in 1 .. Len(p):
          /\ next'[p[i]] = IF i = Len(p) THEN Nil ELSE p[i + 1]
          /\ prev'[p[i]] = IF i = 1 THEN Nil ELSE p[i - 1]
    BY <1>8, <2>1
  <2> QED
    BY <1>1, <2>2, <2>3, <2>4, <2>5 DEF IsQueue
<1> QED
  BY <1>9

LEMMA PushKeepsQueue ==
  ASSUME PoolType, NEW q, IsQueue(q), NEW b \in Blocks, ref[b] # 0, FreePush(b),
         ref' = [ref EXCEPT ![b] = 0]
  PROVE  IsQueue(Append(q, b))'
<1> PICK n \in Nat: n = Len(q)
  BY DEF IsQueue
<1> PICK p: p = Append(q, b)
  OBVIOUS
<1>b. /\ Nil \notin Blocks /\ ref \in [Blocks -> Nat] /\ next \in [Blocks -> Blocks \cup {Nil}]
      /\ \A i \in 1 .. n: q[i] \in Blocks
      /\ \A i, j \in 1 .. n: q[i] = q[j] => i = j
      /\ prev \in [Blocks -> Blocks \cup {Nil}]
  BY BlocksFacts DEF Nil, IsQueue, PoolType, LinksType
<1>1. /\ p \in Seq(Blocks) /\ Len(p) = n + 1 /\ p[n + 1] = b
      /\ \A i \in 1 .. n: p[i] = q[i]
  BY DEF IsQueue
<1>2. \A i \in 1 .. n: q[i] # b
  BY DEF IsQueue
<1>3. tail = IF n = 0 THEN Nil ELSE q[n]
  BY DEF IsQueue
<1>4. \A i, j \in 1 .. n + 1: p[i] = p[j] => i = j
  <2>1. \A i \in 1 .. n + 1: i \in 1 .. n \/ i = n + 1
    OBVIOUS
  <2> QED
    BY <1>1, <1>2, <1>b, <2>1
<1>5. ASSUME NEW c \in Blocks
      PROVE  ref'[c] = 0 <=> \E i \in 1 .. n + 1: p[i] = c
  <2>1. CASE c = b
    BY <2>1, <1>1, <1>b
  <2>2. CASE c # b
    <3>1. ref'[c] = ref[c]
      BY <2>2
    <3>2. ref[c] = 0 <=> \E i \in 1 .. n: q[i] = c
      BY DEF IsQueue
    <3>3. \A i \in 1 .. n + 1: p[i] = c => i \in 1 .. n
      BY <1>1, <2>2
    <3>4. \A i \in 1 .. n: i \in 1 .. n + 1
      OBVIOUS
    <3> QED
      BY <3>1, <3>2, <3>3, <3>4, <1>1
  <2> QED
    BY <2>1, <2>2
<1>6. head' = p[1] /\ tail' = p[n + 1]
  <2>1. head = IF n = 0 THEN Nil ELSE q[1]
    BY DEF IsQueue
  <2>2. tail' = b /\ head' = IF tail = Nil THEN b ELSE head
    BY DEF FreePush
  <2> QED
    BY <2>1, <2>2, <1>1, <1>3, <1>b
<1>7. ASSUME NEW i \in 1 .. n
      PROVE  /\ next'[p[i]] = p[i + 1]
             /\ prev'[p[i]] = IF i = 1 THEN Nil ELSE p[i - 1]
  <2>1. p[i] = q[i] /\ q[i] \in Blocks /\ q[i] # b /\ i \in Nat
    BY <1>1, <1>2, <1>b
  <2>2. /\ next'[q[i]] = IF q[i] = tail THEN b ELSE next[q[i]]
        /\ prev'[q[i]] = prev[q[i]]
    BY <2>1, <1>b DEF FreePush
  <2>3. /\ next[q[i]] = IF i = n THEN Nil ELSE q[i + 1]
        /\ prev[q[i]] = IF i = 1 THEN Nil ELSE q[i - 1]
    BY DEF IsQueue
  <2>4. q[i] = tail <=> i = n
    BY <1>3, <1>b
  <2>5. next'[p[i]] = p[i + 1]
    BY <2>1, <2>2, <2>3, <2>4, <1>1
  <2>6. prev'[p[i]] = IF i = 1 THEN Nil ELSE p[i - 1]
    BY <2>1, <2>2, <2>3, <1>1
  <2> QED
    BY <2>5, <2>6
<1>8. next'[p[n + 1]] = Nil /\ prev'[p[n + 1]] = IF n + 1 = 1 THEN Nil ELSE p[n]
  <2>1. prev'[b] = tail /\ next'[b] = Nil
    BY <1>b, <1>3, <1>2 DEF FreePush
  <2> QED
    BY <2>1, <1>1, <1>3
<1>9. ASSUME NEW i \in 1 .. n + 1
      PROVE  /\ next'[p[i]] = IF i = n + 1 THEN Nil ELSE p[i + 1]
             /\ prev'[p[i]] = IF i = 1 THEN Nil ELSE p[i - 1]
  <2>1. CASE i = n + 1
    BY <2>1, <1>8
  <2>2. CASE i # n + 1
    <3>1. i \in 1 .. n
      BY <2>2
    <3> QED
      BY <2>2, <3>1, <1>7
  <2> QED
    BY <2>1, <2>2
<1>10. IsQueue(p)'
  BY <1>1, <1>4, <1>5, <1>6, <1>9 DEF IsQueue
<1> QED
  BY <1>10

\* q without b, where b is and where it is not.
LEMMA WithoutPlace ==
  ASSUME NEW q, IsQueue(q), NEW b
  PROVE  /\ \A k \in 1 .. Len(q): q[k] = b => Lru!Without(q, b) = Lru!RemoveAt(q, k)
         /\ (\A k \in 1 .. Len(q): q[k] # b) => Lru!Without(q, b) = q
<1>1. ASSUME NEW k \in 1 .. Len(q), q[k] = b
      PROVE  Lru!Without(q, b) = Lru!RemoveAt(q, k)
  <2>1. {i \in 1 .. Len(q): q[i] = b} = {k}
    BY <1>1 DEF IsQueue
  <2>2. (CHOOSE i \in {k}: TRUE) = k
    OBVIOUS
  <2> QED
    BY <2>1, <2>2 DEF Lru!Without
<1>2. ASSUME \A k \in 1 .. Len(q): q[k] # b PROVE Lru!Without(q, b) = q
  <2>1. {i \in 1 .. Len(q): q[i] = b} = {}
    BY <1>2
  <2> QED
    BY <2>1 DEF Lru!Without
<1> QED
  BY <1>1, <1>2

LEMMA TailIsRemove ==
  ASSUME NEW q \in Seq(Blocks), Len(q) > 0
  PROVE  Lru!RemoveAt(q, 1) = Tail(q)
<1> PICK p: p = Lru!RemoveAt(q, 1)
  OBVIOUS
<1>1. /\ p \in Seq(Blocks) /\ Len(p) = Len(q) - 1
      /\ \A i \in 1 .. Len(q) - 1: p[i] = q[i + 1]
  <2>1. 1 \in 1 .. Len(q) /\ \A i \in 1 .. Len(q) - 1: ~(i < 1)
    OBVIOUS
  <2> QED
    BY <2>1, RemovedAt
<1>2. p = Tail(q)
  <2>1. /\ Tail(q) \in Seq(Blocks) /\ Len(Tail(q)) = Len(q) - 1
        /\ \A i \in 1 .. Len(q) - 1: Tail(q)[i] = q[i + 1]
    OBVIOUS
  <2> QED
    BY <1>1, <2>1
<1> QED
  BY <1>2

LEMMA AcquireKeepsQueue ==
  ASSUME PoolType, NEW q, IsQueue(q), NEW b \in Blocks, AcquireExisting(b)
  PROVE  IsQueue(Lru!Without(q, b))'
<1>1. ref[b] \in Nat /\ ref \in [Blocks -> Nat]
  BY DEF PoolType
<1>2. CASE ref[b] = 0
  <2>1. PICK k \in 1 .. Len(q): q[k] = b
    BY <1>2 DEF IsQueue
  <2>2. /\ FreeRemove(q[k]) /\ ref'[q[k]] # 0
        /\ \A c \in Blocks: c # q[k] => ref'[c] = ref[c]
    BY <1>1, <1>2, <2>1 DEF AcquireExisting
  <2>3. IsQueue(Lru!RemoveAt(q, k))'
    BY <2>2, RemoveKeepsQueue
  <2>4. PICK p: p = Lru!RemoveAt(q, k)
    OBVIOUS
  <2>5. Lru!Without(q, b) = p
    BY <2>1, <2>4, WithoutPlace
  <2>6. IsQueue(p)'
    BY <2>3, <2>4
  <2> QED
    BY <2>5, <2>6
<1>3. CASE ref[b] # 0
  <2>1. \A k \in 1 .. Len(q): q[k] # b
    BY <1>3 DEF IsQueue
  <2>2. Lru!Without(q, b) = q
    BY <2>1, WithoutPlace
  <2>3. UNCHANGED links /\ \A c \in Blocks: ref'[c] = 0 <=> ref[c] = 0
    BY <1>1, <1>3 DEF AcquireExisting
  <2>4. IsQueue(q)'
    BY <2>3 DEF IsQueue, links
  <2> QED
    BY <2>2, <2>4
<1> QED
  BY <1>2, <1>3

LEMMA ReleaseKeepsQueue ==
  ASSUME PoolType, NEW q, IsQueue(q), NEW b \in Blocks, ref[b] > 0, ReleaseOne(b)
  PROVE  \E p: IsQueue(p)' /\ p = IF ref[b] = 1 THEN Append(q, b) ELSE q
<1>1. ref[b] \in Nat /\ ref \in [Blocks -> Nat]
  BY DEF PoolType
<1>2. CASE ref[b] = 1
  <2>1. FreePush(b) /\ ref' = [ref EXCEPT ![b] = 0] /\ ref[b] # 0
    BY <1>1, <1>2 DEF ReleaseOne
  <2>2. IsQueue(Append(q, b))'
    BY <2>1, PushKeepsQueue
  <2> QED
    BY <1>2, <2>2
<1>3. CASE ref[b] # 1
  <2>1. ~(ref[b] <= 1) /\ ref[b] - 1 # 0
    BY <1>1, <1>3
  <2>2. UNCHANGED links /\ ref'[b] = ref[b] - 1
    BY <1>1, <2>1 DEF ReleaseOne
  <2>3. \A c \in Blocks: ref'[c] = 0 <=> ref[c] = 0
    BY <1>1, <2>1, <2>2 DEF ReleaseOne
  <2>4. IsQueue(q)'
    BY <2>2, <2>3 DEF IsQueue, links
  <2> QED
    BY <1>3, <2>4
<1> QED
  BY <1>2, <1>3

LEMMA EvictKeepsQueue ==
  ASSUME PoolType, NEW q, IsQueue(q), NEW k \in Keys, EvictFor(head, k)
  PROVE  /\ Len(q) > 0 /\ head = q[1] /\ head \in Blocks /\ ref[head] = 0
         /\ IsQueue(Tail(q))'
<1>1. head \in Blocks /\ head # Nil /\ ref \in [Blocks -> Nat]
  BY DEF EvictFor, PoolType, LinksType
<1>2. Len(q) > 0 /\ head = q[1] /\ q \in Seq(Blocks) /\ 1 \in 1 .. Len(q)
  BY <1>1 DEF IsQueue
<1>3. ref[head] = 0
  BY <1>1, <1>2 DEF IsQueue
<1>4. /\ FreeRemove(q[1]) /\ ref'[q[1]] # 0
      /\ \A c \in Blocks: c # q[1] => ref'[c] = ref[c]
  BY <1>1, <1>2 DEF EvictFor
<1>5. IsQueue(Lru!RemoveAt(q, 1))'
  BY <1>2, <1>4, RemoveKeepsQueue
<1>6. PICK p: p = Lru!RemoveAt(q, 1)
  OBVIOUS
<1>7. Tail(q) = p
  BY <1>2, <1>6, TailIsRemove
<1>8. IsQueue(p)'
  BY <1>5, <1>6
<1>9. IsQueue(Tail(q))'
  BY <1>7, <1>8
<1> QED
  BY <1>1, <1>2, <1>3, <1>9

\* The queue __init__ and clear() build.
AllInOrder == [i \in 1 .. NumBlocks |-> i]

LEMMA FreshQueue ==
  ASSUME ref = NoRefs, head = 1, tail = NumBlocks, prev = PoolPrev, next = PoolNext
  PROVE  IsQueue(AllInOrder)
<1>1. /\ NumBlocks \in Nat \ {0} /\ Blocks = 1 .. NumBlocks
      /\ \A b \in Blocks: /\ ref[b] = 0 /\ prev[b] = b - 1
                          /\ next[b] = IF b = NumBlocks THEN 0 ELSE b + 1
  BY ConstantsAssumption DEF NoRefs, PoolPrev, PoolNext, Blocks, Nil
<1>2. /\ AllInOrder \in Seq(Blocks) /\ Len(AllInOrder) = NumBlocks
      /\ \A i \in 1 .. NumBlocks: AllInOrder[i] = i
  BY <1>1 DEF AllInOrder
<1> HIDE DEF AllInOrder
<1> QED
  BY <1>1, <1>2 DEF IsQueue, Nil

LEMMA SameQueue ==
  ASSUME NEW q, IsQueue(q), UNCHANGED pool
  PROVE  IsQueue(q)'
  BY DEF IsQueue, pool, links

LEMMA AcquireKeepsLinks ==
  ASSUME PoolType, FreeLinks, NEW b \in Blocks, AcquireExisting(b)
  PROVE  FreeLinks'
<1>1. PICK q: IsQueue(q)
  BY DEF FreeLinks
<1> QED
  BY <1>1, AcquireKeepsQueue DEF FreeLinks

LEMMA ReleaseKeepsLinks ==
  ASSUME PoolType, FreeLinks, NEW b \in Blocks, ref[b] > 0, ReleaseOne(b)
  PROVE  FreeLinks'
<1>1. PICK q: IsQueue(q)
  BY DEF FreeLinks
<1> QED
  BY <1>1, ReleaseKeepsQueue DEF FreeLinks

LEMMA EvictKeepsLinks ==
  ASSUME PoolType, FreeLinks, NEW k \in Keys, EvictFor(head, k)
  PROVE  FreeLinks' /\ head \in Blocks /\ ref[head] = 0
<1>1. PICK q: IsQueue(q)
  BY DEF FreeLinks
<1>2. IsQueue(Tail(q))' /\ head \in Blocks /\ ref[head] = 0
  BY <1>1, EvictKeepsQueue
<1> QED
  BY <1>2 DEF FreeLinks

LEMMA HoldersFinite ==
  ASSUME held \subseteq Slots, NEW b
  PROVE  IsFiniteSet(Holders(b)) /\ Cardinality(Holders(b)) \in Nat
<1>1. IsFiniteSet(Rows) /\ IsFiniteSet(1 .. MaxLen)
  BY FS_Interval, ConstantsAssumption DEF Rows
<1>2. IsFiniteSet(Slots)
  BY <1>1, FS_Product DEF Slots
<1>3. Holders(b) \in SUBSET Slots
  BY DEF Holders
<1>4. IsFiniteSet(Holders(b))
  BY <1>2, <1>3, FS_Subset
<1> QED
  BY <1>4, FS_CardinalityType

\* A new holder of block b adds at most one to the holders of b.
LEMMA CountTake ==
  ASSUME held \subseteq Slots, NEW s \in Slots, NEW b \in Blocks,
         meta \in [Slots -> Blocks \cup {Nil}],
         held' = held \cup {s}, meta' = [meta EXCEPT ![s] = b], NEW c
  PROVE  Cardinality(Holders(c)') <= Cardinality(Holders(c)) + (IF c = b THEN 1 ELSE 0)
<1>1. IsFiniteSet(Holders(c)) /\ Cardinality(Holders(c)) \in Nat
  BY HoldersFinite
<1>2. CASE c = b
  <2>1. Holders(c)' \in SUBSET (Holders(c) \cup {s})
    BY DEF Holders
  <2>2. /\ IsFiniteSet(Holders(c) \cup {s})
        /\ Cardinality(Holders(c) \cup {s}) <= Cardinality(Holders(c)) + 1
    <3>1. /\ IsFiniteSet(Holders(c) \cup {s})
          /\ \/ Cardinality(Holders(c) \cup {s}) = Cardinality(Holders(c))
             \/ Cardinality(Holders(c) \cup {s}) = Cardinality(Holders(c)) + 1
      BY <1>1, FS_AddElement, Zenon
    <3> QED
      BY <1>1, <3>1
  <2>3. /\ Cardinality(Holders(c)') <= Cardinality(Holders(c) \cup {s})
        /\ IsFiniteSet(Holders(c)')
    BY <2>1, <2>2, FS_Subset
  <2>4. Cardinality(Holders(c)') \in Nat /\ Cardinality(Holders(c) \cup {s}) \in Nat
    BY <2>2, <2>3, FS_CardinalityType
  <2> QED
    BY <1>1, <1>2, <2>2, <2>3, <2>4
<1>3. CASE c # b
  <2>1. Holders(c)' \in SUBSET Holders(c)
    BY <1>3 DEF Holders
  <2>2. Cardinality(Holders(c)') <= Cardinality(Holders(c)) /\ IsFiniteSet(Holders(c)')
    BY <2>1, <1>1, FS_Subset
  <2>3. Cardinality(Holders(c)') \in Nat
    BY <2>2, FS_CardinalityType
  <2> QED
    BY <1>1, <1>3, <2>2, <2>3
<1> QED
  BY <1>2, <1>3

\* A holder that gives its block up takes one away.
LEMMA CountGive ==
  ASSUME held \subseteq Slots, NEW s \in held,
         held' = held \ {s}, \A t \in Slots: t # s => meta'[t] = meta[t], NEW c
  PROVE  /\ c = meta[s] => /\ Cardinality(Holders(c)') = Cardinality(Holders(c)) - 1
                           /\ Cardinality(Holders(c)) >= 1
         /\ c # meta[s] => Cardinality(Holders(c)') = Cardinality(Holders(c))
<1>1. IsFiniteSet(Holders(c)) /\ Cardinality(Holders(c)) \in Nat
  BY HoldersFinite
<1>2. CASE c = meta[s]
  <2>1. Holders(c)' = Holders(c) \ {s} /\ s \in Holders(c)
    BY <1>2 DEF Holders
  <2>2. Cardinality(Holders(c) \ {s}) = Cardinality(Holders(c)) - 1
    BY <1>1, <2>1, FS_RemoveElement
  <2>3. Cardinality(Holders(c)) # 0
    BY <1>1, <2>1, FS_EmptySet
  <2> QED
    BY <1>1, <1>2, <2>1, <2>2, <2>3
<1>3. CASE c # meta[s]
  <2>1. Holders(c)' = Holders(c)
    BY <1>3 DEF Holders
  <2> QED
    BY <2>1, <1>3
<1> QED
  BY <1>2, <1>3

LEMMA TakeKeeps ==
  ASSUME PoolInv, RefsCoverHolders, KeptAlive, Found,
         AcquireExisting(table[Key]), Records(table[Key]), UNCHANGED prompt
  PROVE  RefsCoverHolders' /\ KeptAlive'
<1>1. table[Key] \in Blocks /\ Here \in Slots /\ Key \in Keys
  BY FoundBlock DEF PoolInv
<1>2. PICK b \in Blocks, s \in Slots: b = table[Key] /\ s = Here
  BY <1>1
<1>3. /\ held \subseteq Slots /\ meta \in [Slots -> Blocks \cup {Nil}]
      /\ ref \in [Blocks -> Nat]
  BY DEF PoolInv, TypeInv, PoolType, ThreadType
<1>4. held' = held \cup {s} /\ meta' = [meta EXCEPT ![s] = b]
  BY <1>2 DEF Records
<1>5. ref' = [ref EXCEPT ![b] = ref[b] + 1] /\ hash' = hash
  BY <1>2 DEF AcquireExisting
<1>6. RefsCoverHolders'
  <2> SUFFICES ASSUME NEW c \in Blocks PROVE ref'[c] >= Cardinality(Holders(c)')
    BY DEF RefsCoverHolders, Holders
  <2>1. Cardinality(Holders(c)') <= Cardinality(Holders(c)) + (IF c = b THEN 1 ELSE 0)
    BY <1>3, <1>4, CountTake
  <2>2. ref[c] >= Cardinality(Holders(c)) /\ ref[c] \in Nat
    BY <1>3 DEF RefsCoverHolders
  <2>3. Cardinality(Holders(c)) \in Nat
    BY <1>3, HoldersFinite
  <2>4. Holders(c)' \in SUBSET Slots /\ held' \subseteq Slots
    BY <1>3, <1>4 DEF Holders
  <2>5. ref'[c] = ref[c] + (IF c = b THEN 1 ELSE 0)
    BY <1>3, <1>5
  <2>6. Cardinality(Holders(c)') \in Nat
    <3>1. IsFiniteSet(Holders(c) \cup {s})
      BY <1>3, HoldersFinite, FS_AddElement
    <3>2. Holders(c)' \in SUBSET (Holders(c) \cup {s})
      BY <1>4 DEF Holders
    <3> QED
      BY <3>1, <3>2, FS_Subset, FS_CardinalityType
  <2> QED
    BY <2>1, <2>2, <2>3, <2>5, <2>6
<1>7. KeptAlive'
  <2> SUFFICES ASSUME NEW t \in held'
               PROVE  meta'[t] # Nil /\ hash'[meta'[t]] = prompt'[t[1]][t[2]]
    BY DEF KeptAlive
  <2>1. CASE t = s
    <3>1. meta'[t] = b /\ b # Nil
      BY <2>1, <1>3, <1>4, BlocksFacts DEF Nil
    <3>2. hash[b] = Key
      BY <1>1, <1>2 DEF PoolInv, LookupIsExact, Found
    <3>3. Key = prompt[t[1]][t[2]]
      BY <2>1, <1>2 DEF Key, Here
    <3> QED
      BY <3>1, <3>2, <3>3, <1>5
  <2>2. CASE t # s
    <3>1. t \in held /\ meta'[t] = meta[t]
      BY <2>2, <1>3, <1>4
    <3> QED
      BY <3>1, <1>5 DEF KeptAlive
  <2> QED
    BY <2>1, <2>2
<1> QED
  BY <1>6, <1>7

LEMMA StoreKeeps ==
  ASSUME PoolInv, RefsCoverHolders, KeptAlive, InPrompt, ~Found,
         EvictFor(head, Key), Records(head), UNCHANGED prompt
  PROVE  RefsCoverHolders' /\ KeptAlive'
<1>1. Here \in Slots /\ Key \in Keys
  BY HereFacts DEF PoolInv, TypeInv
<1>2. head \in Blocks /\ ref[head] = 0
  <2>1. PICK k \in Keys: k = Key
    BY <1>1
  <2> QED
    BY <2>1, EvictKeepsLinks DEF PoolInv, TypeInv
<1>3. PICK b \in Blocks, s \in Slots: b = head /\ s = Here
  BY <1>1, <1>2
<1>4. /\ held \subseteq Slots /\ meta \in [Slots -> Blocks \cup {Nil}]
      /\ ref \in [Blocks -> Nat] /\ hash \in [Blocks -> Keys \cup {NoKey}]
  BY DEF PoolInv, TypeInv, PoolType, ThreadType
<1>5. held' = held \cup {s} /\ meta' = [meta EXCEPT ![s] = b]
  BY <1>3 DEF Records
<1>6. ref' = [ref EXCEPT ![b] = 1] /\ hash' = [hash EXCEPT ![b] = Key]
  BY <1>3 DEF EvictFor
<1>7. Holders(b) = {} /\ Cardinality(Holders(b)) = 0
  <2>1. IsFiniteSet(Holders(b)) /\ Cardinality(Holders(b)) \in Nat
    BY <1>4, HoldersFinite
  <2>2. ref[b] = 0 /\ ref[b] >= Cardinality(Holders(b))
    BY <1>2, <1>3 DEF RefsCoverHolders
  <2>3. Cardinality(Holders(b)) = 0
    BY <2>1, <2>2
  <2> QED
    BY <2>1, <2>3, FS_EmptySet
<1>8. RefsCoverHolders'
  <2> SUFFICES ASSUME NEW c \in Blocks PROVE ref'[c] >= Cardinality(Holders(c)')
    BY DEF RefsCoverHolders, Holders
  <2>1. Cardinality(Holders(c)') <= Cardinality(Holders(c)) + (IF c = b THEN 1 ELSE 0)
    BY <1>4, <1>5, CountTake
  <2>2. ref[c] >= Cardinality(Holders(c)) /\ ref[c] \in Nat
    BY <1>4 DEF RefsCoverHolders
  <2>3. Cardinality(Holders(c)) \in Nat
    BY <1>4, HoldersFinite
  <2>4. ref'[c] = IF c = b THEN 1 ELSE ref[c]
    BY <1>4, <1>6
  <2>5. Cardinality(Holders(c)') \in Nat
    <3>1. IsFiniteSet(Holders(c) \cup {s})
      BY <1>4, HoldersFinite, FS_AddElement
    <3>2. Holders(c)' \in SUBSET (Holders(c) \cup {s})
      BY <1>5 DEF Holders
    <3> QED
      BY <3>1, <3>2, FS_Subset, FS_CardinalityType
  <2> QED
    BY <2>1, <2>2, <2>3, <2>4, <2>5, <1>7
<1>9. KeptAlive'
  <2> SUFFICES ASSUME NEW t \in held'
               PROVE  meta'[t] # Nil /\ hash'[meta'[t]] = prompt'[t[1]][t[2]]
    BY DEF KeptAlive
  <2>1. CASE t = s
    <3>1. meta'[t] = b /\ b # Nil
      BY <2>1, <1>4, <1>5, BlocksFacts DEF Nil
    <3>2. hash'[b] = Key
      BY <1>4, <1>6
    <3>3. Key = prompt[t[1]][t[2]]
      BY <2>1, <1>3 DEF Key, Here
    <3> QED
      BY <3>1, <3>2, <3>3
  <2>2. CASE t # s
    <3>1. t \in held /\ meta'[t] = meta[t]
      BY <2>2, <1>4, <1>5
    <3>2. meta[t] # b
      BY <3>1, <1>7 DEF Holders
    <3>3. hash'[meta[t]] = hash[meta[t]]
      <4>1. meta[t] \in Blocks
        BY <3>1, <1>4 DEF KeptAlive
      <4> QED
        BY <3>2, <4>1, <1>4, <1>6
    <3> QED
      BY <3>1, <3>3 DEF KeptAlive
  <2> QED
    BY <2>1, <2>2
<1> QED
  BY <1>8, <1>9

LEMMA GiveKeeps ==
  ASSUME PoolInv, RefsCoverHolders, KeptAlive, Here \in held,
         ReleaseOne(meta[Here]), held' = held \ {Here},
         \A t \in Slots: t # Here => meta'[t] = meta[t], UNCHANGED prompt
  PROVE  /\ RefsCoverHolders' /\ KeptAlive'
         /\ meta[Here] \in Blocks /\ ref[meta[Here]] > 0
<1>1. /\ held \subseteq Slots /\ meta \in [Slots -> Blocks \cup {Nil}]
      /\ ref \in [Blocks -> Nat] /\ hash' = hash
  BY DEF PoolInv, TypeInv, PoolType, ThreadType, ReleaseOne
<1>2. PICK s \in held: s = Here
  OBVIOUS
<1>3. meta[s] \in Blocks
  BY <1>1 DEF KeptAlive
<1>4. PICK m \in Blocks: m = meta[s]
  BY <1>3
<1>5. held' = held \ {s} /\ \A t \in Slots: t # s => meta'[t] = meta[t]
  BY <1>2
<1>6. \A c \in Blocks:
        /\ c = m => /\ Cardinality(Holders(c)') = Cardinality(Holders(c)) - 1
                    /\ Cardinality(Holders(c)) >= 1
        /\ c # m => Cardinality(Holders(c)') = Cardinality(Holders(c))
        /\ Cardinality(Holders(c)) \in Nat
  BY <1>1, <1>4, <1>5, CountGive, HoldersFinite
<1>7. ref[m] > 0 /\ ref[m] \in Nat
  BY <1>1, <1>6 DEF RefsCoverHolders
<1>8. \A c \in Blocks: ref'[c] = IF c = m THEN ref[c] - 1 ELSE ref[c]
  <2>1. ref' = [ref EXCEPT ![m] = IF ref[m] <= 1 THEN 0 ELSE ref[m] - 1]
    BY <1>2, <1>4 DEF ReleaseOne
  <2>2. (IF ref[m] <= 1 THEN 0 ELSE ref[m] - 1) = ref[m] - 1
    BY <1>7
  <2> QED
    BY <1>1, <2>1, <2>2
<1>9. RefsCoverHolders'
  <2> SUFFICES ASSUME NEW c \in Blocks PROVE ref'[c] >= Cardinality(Holders(c)')
    BY DEF RefsCoverHolders, Holders
  <2>1. ref[c] >= Cardinality(Holders(c)) /\ ref[c] \in Nat
    BY <1>1 DEF RefsCoverHolders
  <2> QED
    BY <2>1, <1>6, <1>8
<1>10. KeptAlive'
  BY <1>1, <1>5 DEF KeptAlive
<1> QED
  BY <1>2, <1>4, <1>7, <1>9, <1>10

LEMMA HereIsHeld ==
  ASSUME TypeInv, ThreadInv, Unpick \/ Release \/ Cleanup
  PROVE  Here \in held
<1>1. /\ row \in Rows /\ row \in Nat /\ pos \in Nat /\ pos >= 1
      /\ prefix[row] \in 0 .. MaxLen /\ MaxLen \in Nat
  BY ConstantsAssumption DEF TypeInv, ThreadType, Rows
<1>2. ~Released(row, pos)
  BY <1>1 DEF Released
<1>3. pos \in 1 .. MaxLen
  <2>1. CASE Release
    BY <2>1, HereFacts DEF Release, TypeInv
  <2>2. CASE Unpick \/ Cleanup
    <3>1. pos <= prefix[row]
      BY <2>2 DEF Unpick, Cleanup, TypeInv, ThreadType
    <3> QED
      BY <3>1, <1>1
  <2> QED
    BY <2>1, <2>2
<1>4. meta[<<row, pos>>] # Nil
  <2>1. CASE Release
    BY <2>1 DEF Release, Here
  <2>2. CASE Unpick \/ Cleanup
    <3>1. pos <= prefix[row]
      BY <2>2 DEF Unpick, Cleanup, TypeInv, ThreadType
    <3>2. ~(pos < pos)
      BY <1>1
    <3> QED
      BY <3>1, <3>2, <1>1, <1>3 DEF ThreadInv, PrefixIsRecorded
  <2> QED
    BY <2>1, <2>2
<1> QED
  BY <1>1, <1>2, <1>3, <1>4 DEF ThreadInv, RecordedIsHeld, Here

LEMMA ClearLinks == Clear => IsQueue(AllInOrder)' /\ FreeLinks'
<1> SUFFICES ASSUME Clear PROVE IsQueue(AllInOrder)' /\ FreeLinks'
  OBVIOUS
<1>1. (ref = NoRefs /\ head = 1 /\ tail = NumBlocks /\ prev = PoolPrev
         /\ next = PoolNext => IsQueue(AllInOrder))'
  BY FreshQueue, PTL
<1>2. IsQueue(AllInOrder)'
  BY <1>1 DEF Clear, NoRefs, PoolPrev, PoolNext
<1> QED
  BY <1>2 DEF FreeLinks

\* Nobody holds anything once a batch has ended.
LEMMA EndKeeps ==
  ASSUME TypeInv', BatchEnds
  PROVE  RefsCoverHolders' /\ KeptAlive' /\ ThreadInv'
<1>1. held' = {}
  BY DEF BatchEnds
<1>2. RefsCoverHolders'
  <2> SUFFICES ASSUME NEW b \in Blocks PROVE ref'[b] >= Cardinality(Holders(b)')
    BY DEF RefsCoverHolders, Holders
  <2>1. Holders(b)' = {}
    BY <1>1 DEF Holders
  <2>2. Cardinality(Holders(b)') = 0
    BY <2>1, FS_EmptySet
  <2>3. ref'[b] \in Nat
    BY DEF TypeInv, PoolType
  <2> QED
    BY <2>2, <2>3
<1>3. KeptAlive'
  BY <1>1 DEF KeptAlive
<1>4. /\ pc' = "idle" /\ \A r \in Rows: prefix'[r] = 0
      /\ \A r \in Rows, i \in 1 .. MaxLen: meta'[<<r, i>>] = Nil
  BY DEF BatchEnds, At, NoBlocks, Slots
<1>5. PrefixIsRecorded'
  <2>1. \A i \in 1 .. MaxLen: ~(i <= 0)
    BY ConstantsAssumption
  <2> QED
    BY <1>4, <2>1 DEF PrefixIsRecorded
<1>6. RecordedIsHeld' /\ LookupOrder'
  BY <1>1, <1>4 DEF RecordedIsHeld, LookupOrder
<1> QED
  BY <1>2, <1>3, <1>5, <1>6 DEF ThreadInv

\* The pool under one step of the thread.
LEMMA PoolKept ==
  ASSUME Undisturbed, Inv, [Next]_vars
  PROVE  FreeLinks' /\ RefsCoverHolders' /\ KeptAlive'
<1>t. TypeInv /\ TypeInv'
  <2>1. PoolStep
    BY StepOnPool DEF Inv, PoolInv
  <2> QED
    BY <2>1, PoolTypeKept, ThreadTypeKept DEF Inv, PoolInv, TypeInv
<1>p. PoolInv /\ ThreadInv /\ PoolType /\ FreeLinks /\ RefsCoverHolders /\ KeptAlive
  BY DEF Inv, PoolInv, TypeInv
<1>u. ASSUME UNCHANGED pool PROVE FreeLinks'
  <2>1. PICK q: IsQueue(q)
    BY <1>p DEF FreeLinks
  <2>2. IsQueue(q)'
    BY <1>u, <2>1, SameQueue
  <2> QED
    BY <2>2 DEF FreeLinks
<1>1. CASE LookupHit \/ StoreShared
  <2>1. Found /\ AcquireExisting(table[Key]) /\ Records(table[Key]) /\ UNCHANGED prompt
    BY <1>1 DEF LookupHit, StoreShared
  <2>2. PICK b \in Blocks: b = table[Key]
    BY <2>1, <1>t, FoundBlock
  <2>3. FreeLinks'
    BY <2>1, <2>2, <1>p, AcquireKeepsLinks
  <2> QED
    BY <2>1, <2>3, <1>p, TakeKeeps
<1>2. CASE StoreNew
  <2>1. InPrompt /\ ~Found /\ EvictFor(head, Key) /\ Records(head) /\ UNCHANGED prompt
    BY <1>2 DEF StoreNew
  <2>2. PICK k \in Keys: k = Key
    BY <2>1, <1>t, HereFacts DEF TypeInv
  <2>3. FreeLinks'
    BY <2>1, <2>2, <1>p, EvictKeepsLinks
  <2> QED
    BY <2>1, <2>3, <1>p, StoreKeeps
<1>3. CASE Unpick \/ Release \/ Cleanup
  <2>1. Here \in held
    BY <1>3, <1>t, <1>p, HereIsHeld
  <2>2. ReleaseOne(meta[Here]) /\ held' = held \ {Here} /\ UNCHANGED prompt
    BY <1>3 DEF Unpick, Release, Cleanup
  <2>3. \A s \in Slots: s # Here => meta'[s] = meta[s]
    BY <1>3, <1>t DEF Unpick, Release, Cleanup, TypeInv, ThreadType
  <2>4. RefsCoverHolders' /\ KeptAlive' /\ meta[Here] \in Blocks /\ ref[meta[Here]] > 0
    BY <2>1, <2>2, <2>3, <1>p, GiveKeeps
  <2>5. PICK b \in Blocks: b = meta[Here]
    BY <2>4
  <2>6. FreeLinks'
    BY <2>2, <2>4, <2>5, <1>p, ReleaseKeepsLinks
  <2> QED
    BY <2>4, <2>6
<1>4. CASE Admit
  <2>1. held = {} /\ held' = {} /\ UNCHANGED <<pool, meta>>
    BY <1>4, <1>p DEF Admit, ThreadInv, LookupOrder
  <2> QED
    BY <2>1, <1>u, <1>p DEF RefsCoverHolders, KeptAlive, Holders, pool
<1>5. CASE \/ UNCHANGED vars \/ LookupEnds \/ Prefilled \/ CacheRefused
           \/ StoreSkips \/ StoreEnds \/ ReleasePasses
  <2>1. UNCHANGED <<pool, prompt, meta, held>>
    BY <1>5 DEF LookupEnds, Prefilled, CacheRefused, StoreSkips, StoreEnds,
                ReleasePasses, batch, vars
  <2> QED
    BY <2>1, <1>u, <1>p DEF RefsCoverHolders, KeptAlive, Holders, pool
<1>6. CASE ReleaseEnds \/ CleanupEnds \/ Remove \/ StepRaises
  <2>1. UNCHANGED pool /\ (BatchEnds \/ UNCHANGED batch)
    BY <1>6 DEF ReleaseEnds, CleanupEnds, Remove, StepRaises
  <2>2. CASE BatchEnds
    BY <2>1, <2>2, <1>u, <1>t, EndKeeps
  <2>3. CASE UNCHANGED batch
    BY <2>1, <2>3, <1>u, <1>p DEF RefsCoverHolders, KeptAlive, Holders, pool, batch
  <2> QED
    BY <2>1, <2>2, <2>3
<1>7. CASE ReleaseIdleKv
  <2>1. Clear /\ BatchEnds
    BY <1>7 DEF ReleaseIdleKv
  <2> QED
    BY <2>1, <1>t, ClearLinks, EndKeeps
<1>8. CASE StoreRaises \/ Reset
  BY <1>8 DEF StoreRaises, Reset, Undisturbed
<1> QED
  BY <1>1, <1>2, <1>3, <1>4, <1>5, <1>6, <1>7, <1>8 DEF Next

\* Where the thread has left its records alone and released no less than before.
LEMMA RecordsKept ==
  ASSUME RecordedIsHeld, UNCHANGED <<meta, held>>,
         \A r \in Rows, i \in 1 .. MaxLen: Released(r, i) => Released(r, i)'
  PROVE  RecordedIsHeld'
BY DEF RecordedIsHeld

LEMMA ReleasedGrows ==
  ASSUME TypeInv,
         \/ UNCHANGED <<pc, row, pos>>
         \/ pc \notin {"store", "release", "cleanup"}
         \/ pc' \in {"store", "release", "cleanup"} /\ row < NumRows /\ row' = row + 1
         \/ pc = "store" /\ pc' = "release" /\ row' = row
         \/ pc' = pc /\ row' = row /\ pos' = pos + 1,
         NEW r \in Rows, NEW i \in 1 .. MaxLen, Released(r, i)
  PROVE  Released(r, i)'
<1>1. r \in Nat /\ row \in Nat /\ i \in Nat /\ pos \in Nat
  BY DEF TypeInv, ThreadType, Rows
<1> QED
  BY <1>1 DEF Released

LEMMA RecordedKept ==
  ASSUME Undisturbed, TypeInv, RecordedIsHeld, ThreadInv, [Next]_vars, ~BatchEnds
  PROVE  RecordedIsHeld'
<1>c. /\ row \in Rows /\ row \in Nat /\ pos \in Nat /\ ThreadType
      /\ held \subseteq Slots /\ meta \in [Slots -> Blocks \cup {Nil}]
  BY DEF TypeInv, ThreadType, Rows
<1>g. ASSUME UNCHANGED <<meta, held>>,
             \/ UNCHANGED <<pc, row, pos>>
             \/ pc \notin {"store", "release", "cleanup"}
             \/ pc' \in {"store", "release", "cleanup"} /\ row < NumRows /\ row' = row + 1
             \/ pc = "store" /\ pc' = "release" /\ row' = row
             \/ pc' = pc /\ row' = row /\ pos' = pos + 1
      PROVE  RecordedIsHeld'
  BY <1>g, ReleasedGrows, RecordsKept
<1>1. CASE LookupHit \/ StoreShared \/ StoreNew
  <2>1. PICK b: held' = held \cup {Here} /\ meta' = [meta EXCEPT ![Here] = b]
    BY <1>1 DEF LookupHit, StoreShared, StoreNew, Records
  <2>2. /\ pc' = pc /\ row' = row /\ pc \in {"lookup", "store"}
    BY <1>1 DEF LookupHit, StoreShared, StoreNew, At
  <2> SUFFICES ASSUME NEW r \in Rows, NEW i \in 1 .. MaxLen,
                      meta'[<<r, i>>] # Nil, ~Released(r, i)'
               PROVE  <<r, i>> \in held'
    BY DEF RecordedIsHeld
  <2>3. CASE <<r, i>> = Here
    BY <2>1, <2>3
  <2>4. CASE <<r, i>> # Here
    <3>1. <<r, i>> \in Slots
      BY DEF Slots
    <3>2. meta[<<r, i>>] # Nil
      BY <2>1, <2>4, <3>1, <1>c
    <3>3. ~Released(r, i)
      BY <2>2 DEF Released
    <3> QED
      BY <2>1, <3>2, <3>3 DEF RecordedIsHeld
  <2> QED
    BY <2>3, <2>4
<1>2. CASE Release \/ Cleanup
  <2>1. /\ held' = held \ {Here} /\ meta' = meta /\ pc' = pc /\ row' = row
        /\ pos' = pos + 1 /\ pc \in {"release", "cleanup"}
    BY <1>2 DEF Release, Cleanup, At
  <2> SUFFICES ASSUME NEW r \in Rows, NEW i \in 1 .. MaxLen,
                      meta'[<<r, i>>] # Nil, ~Released(r, i)'
               PROVE  <<r, i>> \in held'
    BY DEF RecordedIsHeld
  <2>2. i \in Nat /\ r \in Nat
    BY DEF Rows
  <2>3. ~(r < row) /\ ~(r = row /\ i < pos + 1)
    BY <2>1 DEF Released
  <2>4. <<r, i>> # <<row, pos>>
    BY <2>2, <2>3, <1>c
  <2>5. ~Released(r, i)
    BY <2>2, <2>3, <1>c DEF Released
  <2> QED
    BY <2>1, <2>4, <2>5 DEF RecordedIsHeld, Here
<1>3. CASE Unpick
  <2>1. /\ held' = held \ {Here} /\ meta' = [meta EXCEPT ![Here] = Nil]
        /\ pc = "unpick"
    BY <1>3 DEF Unpick
  <2> SUFFICES ASSUME NEW r \in Rows, NEW i \in 1 .. MaxLen, meta'[<<r, i>>] # Nil
               PROVE  <<r, i>> \in held'
    BY DEF RecordedIsHeld
  <2>2. <<r, i>> \in Slots
    BY DEF Slots
  <2>3. <<r, i>> # Here /\ meta[<<r, i>>] # Nil
    BY <2>1, <2>2, <1>c
  <2>4. ~Released(r, i)
    BY <2>1 DEF Released
  <2> QED
    BY <2>1, <2>3, <2>4 DEF RecordedIsHeld
<1>4. CASE UNCHANGED vars
  BY <1>4, <1>g DEF vars, batch
<1>5. CASE Admit \/ LookupEnds \/ Prefilled \/ CacheRefused
  BY <1>5, <1>g DEF Admit, LookupEnds, Prefilled, CacheRefused, batch
<1>6. CASE StoreSkips \/ StoreEnds \/ ReleasePasses
  BY <1>6, <1>g DEF StoreSkips, StoreEnds, ReleasePasses, At, batch
<1>7. CASE ReleaseEnds \/ CleanupEnds
  BY <1>7, <1>g DEF ReleaseEnds, CleanupEnds, At, batch
<1>8. CASE Remove \/ StepRaises \/ ReleaseIdleKv
  BY <1>8 DEF Remove, StepRaises, ReleaseIdleKv
<1>9. CASE StoreRaises \/ Reset
  BY <1>9 DEF StoreRaises, Reset, Undisturbed
<1> QED
  BY <1>1, <1>2, <1>3, <1>4, <1>5, <1>6, <1>7, <1>8, <1>9 DEF Next

LEMMA PrefixKept ==
  ASSUME Undisturbed, Inv, [Next]_vars, ~BatchEnds
  PROVE  PrefixIsRecorded'
<1>c. /\ row \in Rows /\ row \in Nat /\ pos \in Nat /\ ThreadType /\ pos >= 1
      /\ meta \in [Slots -> Blocks \cup {Nil}] /\ prefix \in [Rows -> 0 .. MaxLen]
      /\ TypeInv /\ PrefixIsRecorded /\ LookupOrder /\ MaxLen \in Nat
  BY ConstantsAssumption DEF Inv, PoolInv, ThreadInv, TypeInv, ThreadType, Rows
<1> SUFFICES ASSUME NEW r \in Rows, NEW i \in 1 .. MaxLen,
                    i <= prefix'[r], ~(pc' = "unpick" /\ r = row' /\ i < pos')
             PROVE  meta'[<<r, i>>] # Nil
  BY DEF PrefixIsRecorded
<1>i. i \in Nat /\ i >= 1 /\ r \in Nat /\ <<r, i>> \in Slots /\ prefix[r] \in Nat
  BY <1>c DEF Rows, Slots
<1>1. CASE LookupHit
  <2>1. PICK b \in Blocks: b = table[Key]
    BY <1>1, <1>c, FoundBlock DEF LookupHit
  <2>2. b # Nil
    BY BlocksFacts DEF Nil
  <2>3. meta' = [meta EXCEPT ![<<row, pos>>] = b]
    BY <1>1, <2>1 DEF LookupHit, Records, Here
  <2>4. /\ prefix' = [prefix EXCEPT ![row] = pos] /\ pc = "lookup"
        /\ prefix[row] = pos - 1
    BY <1>1, <1>c DEF LookupHit, LookupOrder
  <2>5. CASE <<r, i>> = <<row, pos>>
    BY <2>2, <2>3, <2>5, <1>i, <1>c
  <2>6. CASE <<r, i>> # <<row, pos>>
    <3>1. i <= prefix[r]
      BY <2>4, <2>6, <1>c, <1>i
    <3>2. meta[<<r, i>>] # Nil
      BY <3>1, <2>4, <1>c DEF PrefixIsRecorded
    <3> QED
      BY <3>2, <2>3, <2>6, <1>i, <1>c
  <2> QED
    BY <2>5, <2>6
<1>2. CASE StoreShared \/ StoreNew
  <2>1. /\ prefix' = prefix /\ pc = "store"
        /\ \E b \in Blocks: meta' = [meta EXCEPT ![<<row, pos>>] = b]
    <3>1. CASE StoreShared
      BY <3>1, <1>c, FoundBlock DEF StoreShared, Records, Here
    <3>2. CASE StoreNew
      BY <3>2, <1>c
         DEF StoreNew, Records, Here, EvictFor, TypeInv, PoolType, LinksType
    <3> QED
      BY <1>2, <3>1, <3>2
  <2>2. PICK b \in Blocks: meta' = [meta EXCEPT ![<<row, pos>>] = b]
    BY <2>1
  <2>3. b # Nil
    BY BlocksFacts DEF Nil
  <2>4. meta[<<r, i>>] # Nil
    BY <2>1, <1>c DEF PrefixIsRecorded
  <2> QED
    BY <2>2, <2>3, <2>4, <1>i, <1>c
<1>3. CASE Unpick
  <2>1. /\ pc = "unpick" /\ meta' = [meta EXCEPT ![<<row, pos>>] = Nil]
    BY <1>3 DEF Unpick, Here
  <2>2. r # row \/ pos < i
    <3>1. CASE prefix' = prefix /\ pc' = "unpick" /\ row' = row /\ pos' = pos + 1
      BY <3>1, <1>i, <1>c
    <3>2. CASE prefix' = [prefix EXCEPT ![row] = 0]
      BY <3>2, <1>i, <1>c
    <3> QED
      BY <1>3, <3>1, <3>2 DEF Unpick, At
  <2>3. i <= prefix[r]
    <3>1. CASE prefix' = prefix
      BY <3>1
    <3>2. CASE prefix' = [prefix EXCEPT ![row] = 0]
      <4>1. r # row
        BY <3>2, <1>i, <1>c
      <4> QED
        BY <4>1, <3>2, <1>c
    <3> QED
      BY <1>3, <3>1, <3>2 DEF Unpick
  <2>4. meta[<<r, i>>] # Nil
    BY <2>2, <2>3, <1>i, <1>c DEF PrefixIsRecorded
  <2>5. <<r, i>> # <<row, pos>>
    BY <2>2, <1>i, <1>c
  <2> QED
    BY <2>1, <2>4, <2>5, <1>i, <1>c
<1>4. CASE \/ UNCHANGED vars \/ Admit \/ LookupEnds \/ Prefilled \/ CacheRefused
           \/ StoreSkips \/ StoreEnds \/ Release \/ ReleasePasses \/ ReleaseEnds
           \/ Cleanup \/ CleanupEnds
  <2>1. UNCHANGED <<prefix, meta>> /\ (pc # "unpick" \/ UNCHANGED <<pc, row, pos>>)
    BY <1>4 DEF vars, Admit, LookupEnds, Prefilled, CacheRefused, StoreSkips, StoreEnds,
                Release, ReleasePasses, ReleaseEnds, Cleanup, CleanupEnds, batch
  <2> QED
    BY <2>1, <1>c DEF PrefixIsRecorded
<1>5. CASE Remove \/ StepRaises \/ ReleaseIdleKv
  BY <1>5 DEF Remove, StepRaises, ReleaseIdleKv
<1>6. CASE StoreRaises \/ Reset
  BY <1>6 DEF StoreRaises, Reset, Undisturbed
<1> QED
  BY <1>1, <1>2, <1>3, <1>4, <1>5, <1>6 DEF Next

LEMMA OrderKept ==
  ASSUME Undisturbed, TypeInv, LookupOrder, [Next]_vars, ~BatchEnds
  PROVE  LookupOrder'
<1>c. /\ row \in Rows /\ row \in Nat /\ pos \in Nat /\ pos >= 1 /\ 1 \in Rows
      /\ prefix \in [Rows -> 0 .. MaxLen] /\ NumRows \in Nat \ {0}
      /\ \A r \in Rows: r \in Nat /\ r >= 1
      /\ row < NumRows => row + 1 \in Rows
  BY ConstantsAssumption DEF TypeInv, ThreadType, Rows
<1>n. ASSUME NextPick, \A r \in Rows: r > row => prefix'[r] = 0
      PROVE  LookupOrder'
  <2>1. CASE row < NumRows
    <3>1. pc' = "lookup" /\ row' = row + 1 /\ pos' = 1
      BY <1>n, <2>1 DEF NextPick, At
    <3> QED
      BY <1>n, <3>1, <2>1, <1>c DEF LookupOrder
  <2>2. CASE ~(row < NumRows)
    BY <1>n, <2>2 DEF NextPick, At, LookupOrder
  <2> QED
    BY <2>1, <2>2
<1>1. CASE Admit
  <2>1. pc' = "lookup" /\ row' = 1 /\ pos' = 1 /\ \A r \in Rows: prefix'[r] = 0
    BY <1>1 DEF Admit, At, LookupOrder
  <2> QED
    BY <2>1, <1>c DEF LookupOrder
<1>2. CASE LookupHit
  <2>1. /\ pc = "lookup" /\ pc' = "lookup" /\ row' = row /\ pos' = pos + 1
        /\ prefix' = [prefix EXCEPT ![row] = pos]
    BY <1>2 DEF LookupHit, At
  <2> QED
    BY <2>1, <1>c DEF LookupOrder
<1>3. CASE LookupEnds
  <2>1. pc = "lookup" /\ prefix' = prefix
    BY <1>3 DEF LookupEnds
  <2>2. \A r \in Rows: r > row => prefix'[r] = 0
    BY <2>1 DEF LookupOrder
  <2>3. CASE At("unpick", row, 1, FALSE)
    BY <2>2, <2>3 DEF At, LookupOrder
  <2> QED
    BY <1>3, <1>n, <2>2, <2>3 DEF LookupEnds
<1>4. CASE Unpick
  <2>1. pc = "unpick"
    BY <1>4 DEF Unpick
  <2>2. CASE At("unpick", row, pos + 1, TRUE) /\ prefix' = prefix
    BY <2>1, <2>2 DEF At, LookupOrder
  <2>3. CASE NextPick /\ prefix' = [prefix EXCEPT ![row] = 0]
    <3>1. \A r \in Rows: r > row => prefix'[r] = 0
      BY <2>1, <2>3, <1>c DEF LookupOrder
    <3> QED
      BY <2>3, <3>1, <1>n
  <2> QED
    BY <1>4, <2>2, <2>3 DEF Unpick
<1>5. CASE UNCHANGED vars
  BY <1>5 DEF vars, batch, LookupOrder
<1>6. CASE \/ Prefilled \/ CacheRefused \/ StoreShared \/ StoreNew \/ StoreSkips
           \/ StoreEnds \/ Release \/ ReleasePasses \/ ReleaseEnds \/ Cleanup
           \/ CleanupEnds
  <2>1. pc' \in {"store", "release", "cleanup"}
    BY <1>6 DEF Prefilled, CacheRefused, StoreShared, StoreNew, StoreSkips, StoreEnds,
                Release, ReleasePasses, ReleaseEnds, Cleanup, CleanupEnds, At
  <2> QED
    BY <2>1 DEF LookupOrder
<1>7. CASE Remove \/ StepRaises \/ ReleaseIdleKv
  BY <1>7 DEF Remove, StepRaises, ReleaseIdleKv
<1>8. CASE StoreRaises \/ Reset
  BY <1>8 DEF StoreRaises, Reset, Undisturbed
<1> QED
  BY <1>1, <1>2, <1>3, <1>4, <1>5, <1>6, <1>7, <1>8 DEF Next

LEMMA InitInv == Init => Inv
<1> SUFFICES ASSUME Init PROVE Inv
  OBVIOUS
<1>1. TypeInv /\ LookupIsExact
  BY InitPool, InitThread DEF TypeInv, Init, LookupIsExact, NoHashes, NoEntries
<1>2. FreeLinks
  BY FreshQueue DEF Init, FreeLinks
<1>3. RefsCoverHolders
  <2> SUFFICES ASSUME NEW b \in Blocks PROVE ref[b] >= Cardinality(Holders(b))
    BY DEF RefsCoverHolders
  <2>1. Holders(b) = {} /\ ref[b] = 0
    BY DEF Init, Holders, NoRefs
  <2>2. Cardinality(Holders(b)) = 0
    BY <2>1, FS_EmptySet
  <2> QED
    BY <2>1, <2>2
<1>4. KeptAlive
  BY DEF Init, KeptAlive
<1>5. ThreadInv
  <2>1. /\ pc = "idle" /\ held = {} /\ \A r \in Rows: prefix[r] = 0
        /\ \A r \in Rows, i \in 1 .. MaxLen: meta[<<r, i>>] = Nil
    BY DEF Init, NoBlocks, Slots
  <2>2. \A i \in 1 .. MaxLen: ~(i <= 0)
    BY ConstantsAssumption
  <2> QED
    BY <2>1, <2>2 DEF ThreadInv, RecordedIsHeld, PrefixIsRecorded, LookupOrder
<1> QED
  BY <1>1, <1>2, <1>3, <1>4, <1>5 DEF Inv, PoolInv

LEMMA InvKept == Undisturbed /\ Inv /\ [Next]_vars => Inv'
<1> SUFFICES ASSUME Undisturbed, Inv, [Next]_vars PROVE Inv'
  OBVIOUS
<1>1. PoolStep
  BY StepOnPool DEF Inv, PoolInv
<1>2. TypeInv' /\ LookupIsExact'
  BY <1>1, PoolTypeKept, ThreadTypeKept, TableKept DEF Inv, PoolInv, TypeInv
<1>3. FreeLinks' /\ RefsCoverHolders' /\ KeptAlive'
  BY PoolKept
<1>4. ThreadInv'
  <2>1. CASE BatchEnds
    BY <2>1, <1>2, EndKeeps
  <2>2. CASE ~BatchEnds
    BY <2>2, RecordedKept, PrefixKept, OrderKept DEF Inv, PoolInv, ThreadInv
  <2> QED
    BY <2>1, <2>2
<1> QED
  BY <1>2, <1>3, <1>4 DEF Inv, PoolInv

\* As long as no harvest fails halfway and nobody resets the pool under the
\* thread, a block has a reference for each holder and keeps the content it was
\* acquired for (APCManager, PromptBatch): eviction never takes a block in use, whether a
\* harvest stops at a full pool or, with a disk tier, goes on past it.
THEOREM PoolKeepsAlive ==
  ASSUME Undisturbed
  PROVE  Spec => [](RefsCoverHolders /\ KeptAlive)
<1>1. Inv /\ [Next]_vars => Inv'
  BY InvKept
<1>2. Inv => RefsCoverHolders /\ KeptAlive
  BY DEF Inv
<1> QED
  BY <1>1, <1>2, InitInv, PTL DEF Spec
--------------------------------------------------------------------------------
(* The free queue read along its links *)

IsWalk(f) ==
  f = [j \in 0 .. NumBlocks |->
         IF j = 0 THEN head ELSE IF f[j - 1] = Nil THEN Nil ELSE next[f[j - 1]]]

LEMMA WalkUnfold == Walk = [i \in 0 .. NumBlocks |-> (CHOOSE f: IsWalk(f))[i]]
  BY DEF Walk, IsWalk

\* A set of places of the queue has a least one.
LEMMA LeastPlace ==
  ASSUME NEW T, T \subseteq Nat, T # {}
  PROVE  \E i \in T: \A j \in T: ~(j < i)
<1>1. PICK i \in T: \A j \in T: ~(<<j, i>> \in OpToRel(<, Nat))
  BY NatLessThanWellFounded, WFMin
<1>2. \A j \in T: j < i => <<j, i>> \in OpToRel(<, Nat)
  BY DEF OpToRel
<1> QED
  BY <1>1, <1>2

\* What the walk reads, given what it reads at every place before.
LEMMA WalkIsUnique ==
  ASSUME NEW f, NEW g, IsWalk(f), IsWalk(g)
  PROVE  \A i \in 0 .. NumBlocks: f[i] = g[i]
<1> SUFFICES ASSUME {i \in 0 .. NumBlocks: f[i] # g[i]} # {} PROVE FALSE
  OBVIOUS
<1>c. NumBlocks \in Nat
  BY ConstantsAssumption
<1>1. PICK i \in 0 .. NumBlocks:
        f[i] # g[i] /\ \A j \in 0 .. NumBlocks: f[j] # g[j] => ~(j < i)
  <2> DEFINE T == {i \in 0 .. NumBlocks: f[i] # g[i]}
  <2>1. T \subseteq Nat /\ T # {}
    BY <1>c
  <2>2. PICK i \in T: \A j \in T: ~(j < i)
    BY <2>1, LeastPlace
  <2> QED
    BY <2>2
<1>2. /\ f[i] = IF i = 0 THEN head ELSE IF f[i - 1] = Nil THEN Nil ELSE next[f[i - 1]]
      /\ g[i] = IF i = 0 THEN head ELSE IF g[i - 1] = Nil THEN Nil ELSE next[g[i - 1]]
  BY DEF IsWalk
<1>3. i # 0 => i - 1 \in 0 .. NumBlocks /\ f[i - 1] = g[i - 1]
  BY <1>1, <1>c
<1> QED
  BY <1>1, <1>2, <1>3

LEMMA QueueFits ==
  ASSUME NEW q, IsQueue(q)
  PROVE  Len(q) \in 0 .. NumBlocks
<1>1. Len(q) \in Nat /\ NumBlocks \in Nat
  BY ConstantsAssumption DEF IsQueue
<1>2. q \in Injection(1 .. Len(q), Blocks)
  <2>1. q \in [1 .. Len(q) -> Blocks] /\ DOMAIN q = 1 .. Len(q)
    BY DEF IsQueue
  <2> QED
    BY <2>1 DEF IsQueue, Injection, IsInjective
<1>3. IsFiniteSet(Blocks) /\ Cardinality(Blocks) = NumBlocks
  BY <1>1, FS_Interval, ConstantsAssumption DEF Blocks
<1>4. Cardinality(1 .. Len(q)) = Len(q)
  BY <1>1, FS_Interval
<1>5. Cardinality(1 .. Len(q)) <= Cardinality(Blocks)
  BY <1>2, <1>3, FS_Injection
<1> QED
  BY <1>1, <1>3, <1>4, <1>5

LEMMA QueueIsWalked ==
  ASSUME NEW q, IsQueue(q)
  PROVE  \A i \in 0 .. NumBlocks: Walk[i] = IF i < Len(q) THEN q[i + 1] ELSE Nil
<1> DEFINE g == [i \in 0 .. NumBlocks |-> IF i < Len(q) THEN q[i + 1] ELSE Nil]
<1>c. /\ NumBlocks \in Nat /\ Len(q) \in 0 .. NumBlocks /\ Nil \notin Blocks
      /\ \A i \in 1 .. Len(q): q[i] \in Blocks
      /\ \A i \in 1 .. Len(q): next[q[i]] = IF i = Len(q) THEN Nil ELSE q[i + 1]
      /\ head = IF Len(q) = 0 THEN Nil ELSE q[1]
  <2>1. NumBlocks \in Nat /\ Len(q) \in 0 .. NumBlocks /\ Nil \notin Blocks
    BY QueueFits, BlocksFacts, ConstantsAssumption DEF Nil
  <2> QED
    BY <2>1 DEF IsQueue
<1>1. IsWalk(g)
  <2>1. ASSUME NEW j \in 0 .. NumBlocks
        PROVE  g[j] = IF j = 0 THEN head
                      ELSE IF g[j - 1] = Nil THEN Nil ELSE next[g[j - 1]]
    <3>1. CASE j = 0
      BY <3>1, <1>c
    <3>2. CASE j # 0
      <4>1. j - 1 \in 0 .. NumBlocks /\ j - 1 + 1 = j
        BY <3>2, <1>c
      <4>2. g[j - 1] = IF j - 1 < Len(q) THEN q[j] ELSE Nil
        BY <4>1
      <4>3. CASE j - 1 < Len(q)
        <5>1. j \in 1 .. Len(q)
          BY <3>2, <4>3, <1>c
        <5>2. g[j - 1] = q[j] /\ q[j] # Nil
          BY <4>2, <4>3, <5>1, <1>c
        <5>3. next[q[j]] = IF j = Len(q) THEN Nil ELSE q[j + 1]
          BY <5>1, <1>c
        <5>4. j < Len(q) <=> j # Len(q)
          BY <5>1, <1>c
        <5> QED
          BY <3>2, <5>2, <5>3, <5>4
      <4>4. CASE ~(j - 1 < Len(q))
        BY <3>2, <4>2, <4>4, <1>c
      <4> QED
        BY <4>3, <4>4
    <3> QED
      BY <3>1, <3>2
  <2>2. g = [j \in 0 .. NumBlocks |-> g[j]]
    OBVIOUS
  <2> HIDE DEF g
  <2>3. g = [j \in 0 .. NumBlocks |->
               IF j = 0 THEN head ELSE IF g[j - 1] = Nil THEN Nil ELSE next[g[j - 1]]]
    BY <2>1, <2>2
  <2> QED
    BY <2>3 DEF IsWalk
<1>2. PICK f: f = CHOOSE h: IsWalk(h)
  OBVIOUS
<1>3. IsWalk(f)
  BY <1>1, <1>2
<1>4. \A i \in 0 .. NumBlocks: f[i] = g[i]
  BY <1>1, <1>3, WalkIsUnique
<1>5. \A i \in 0 .. NumBlocks: Walk[i] = f[i]
  BY <1>2, WalkUnfold
<1> QED
  BY <1>4, <1>5

LEMMA QueueIsRead ==
  ASSUME NEW q, IsQueue(q)
  PROVE  FreeQueue = q /\ QueueIsFree
<1>c. /\ NumBlocks \in Nat /\ Len(q) \in 0 .. NumBlocks /\ Nil \notin Blocks
      /\ \A i \in 1 .. Len(q): q[i] \in Blocks
      /\ q \in Seq(Blocks)
  <2>1. NumBlocks \in Nat
    BY ConstantsAssumption
  <2>2. q \in Seq(Blocks) /\ Len(q) \in 0 .. NumBlocks
    BY QueueFits DEF IsQueue
  <2>3. Nil \notin Blocks
    BY BlocksFacts DEF Nil
  <2> QED
    BY <2>1, <2>2, <2>3
<1> PICK n \in Nat: n = Len(q)
  BY <1>c
<1>1. QueueLength = n
  <2>1. \A i \in 0 .. NumBlocks: Walk[i] # Nil <=> i \in 0 .. n - 1
    <3> SUFFICES ASSUME NEW i \in 0 .. NumBlocks
                 PROVE  Walk[i] # Nil <=> i \in 0 .. n - 1
      OBVIOUS
    <3>1. Walk[i] = IF i < n THEN q[i + 1] ELSE Nil
      BY QueueIsWalked
    <3>2. i < n => q[i + 1] # Nil
      BY <1>c
    <3> QED
      BY <3>1, <3>2, <1>c
  <2>2. {i \in 0 .. NumBlocks: Walk[i] # Nil} = 0 .. n - 1
    BY <2>1, <1>c
  <2>3. Cardinality(0 .. n - 1) = n
    <3>1. 0 \in Int /\ n - 1 \in Int /\ (0 > n - 1 => n = 0)
      OBVIOUS
    <3>2. Cardinality(0 .. n - 1) = IF 0 > n - 1 THEN 0 ELSE (n - 1) - 0 + 1
      BY <3>1, FS_Interval
    <3> QED
      BY <3>1, <3>2
  <2> QED
    BY <2>2, <2>3 DEF QueueLength
<1>2. ASSUME NEW i \in 1 .. n PROVE Walk[i - 1] = q[i]
  <2>1. i - 1 \in 0 .. NumBlocks /\ i - 1 < n /\ i - 1 + 1 = i
    BY <1>c
  <2> QED
    BY <2>1, QueueIsWalked
<1>3. FreeQueue = [i \in 1 .. n |-> q[i]]
  BY <1>1, <1>2 DEF FreeQueue
<1>4. FreeQueue = q
  BY <1>3, <1>c
<1>5. Walk[NumBlocks] = Nil
  BY QueueIsWalked, <1>c
<1>6. Queued = {q[i]: i \in 1 .. n}
  BY <1>1, <1>4 DEF Queued
<1>7. Cardinality(Queued) = n
  <2>1. q \in Bijection(1 .. n, Queued)
    <3>1. q \in [1 .. n -> Queued] /\ DOMAIN q = 1 .. n
      BY <1>6, <1>c
    <3>2. IsInjective(q)
      BY <3>1 DEF IsQueue, IsInjective
    <3>3. \A b \in Queued: \E i \in 1 .. n: q[i] = b
      BY <1>6
    <3> QED
      BY <3>1, <3>2, <3>3 DEF Bijection, Injection, Surjection
  <2> QED
    BY <2>1, FS_CountingElements DEF ExistsBijection
<1>8. Queued = {b \in Blocks: ref[b] = 0}
  BY <1>6, <1>c DEF IsQueue
<1>9. tail = IF n = 0 THEN Nil ELSE FreeQueue[n]
  BY <1>4 DEF IsQueue
<1> QED
  BY <1>1, <1>4, <1>5, <1>7, <1>8, <1>9 DEF QueueIsFree

LEMMA QueueReads == \A q: IsQueue(q) => FreeQueue = q
  BY QueueIsRead

\* As long as no harvest fails halfway and nobody resets the pool under the
\* thread, the links of the free queue lead from its head through every block
\* without a user, once, to its tail (_FreeList of apc/manager.py), wherever in
\* the queue a block is taken out.
THEOREM PoolQueueIsFree ==
  ASSUME Undisturbed
  PROVE  Spec => []QueueIsFree
<1>1. Inv /\ [Next]_vars => Inv'
  BY InvKept
<1>2. Inv => QueueIsFree
  BY QueueIsRead DEF Inv, PoolInv, FreeLinks
<1> QED
  BY <1>1, <1>2, InitInv, PTL DEF Spec

--------------------------------------------------------------------------------
(* The pool implements LruCache *)

\* The first state: every block is in the queue.
LEMMA AllAreQueued ==
  /\ Lru!Cardinality(Blocks) = Len(AllInOrder)
  /\ \A b \in Blocks: \E i \in 1 .. Len(AllInOrder): AllInOrder[i] = b
<1>1. NumBlocks \in Nat /\ Blocks = 1 .. NumBlocks /\ 1 \in Int /\ NumBlocks \in Int
  BY ConstantsAssumption DEF Blocks
<1>2. Len(AllInOrder) = NumBlocks /\ \A i \in 1 .. NumBlocks: AllInOrder[i] = i
  BY <1>1 DEF AllInOrder
<1>3. Cardinality(Blocks) = IF 1 > NumBlocks THEN 0 ELSE NumBlocks - 1 + 1
  BY <1>1, FS_Interval
<1>4. Lru!Cardinality(Blocks) = Cardinality(Blocks)
  BY DEF Cardinality, Lru!Cardinality
<1> HIDE DEF AllInOrder
<1> QED
  BY <1>1, <1>2, <1>3, <1>4

LEMMA InitIsEmpty == Init => Lru!Init
<1> SUFFICES ASSUME Init PROVE Lru!Init
  OBVIOUS
<1>1. FreeQueue = AllInOrder
  BY FreshQueue, QueueReads DEF Init
<1>2. Lru!Empty
  BY DEF Init, NoRefs, NoHashes, Lru!Empty
<1>3. Lru!IsQueueOfAll(FreeQueue)
  BY <1>1, AllAreQueued DEF Lru!IsQueueOfAll
<1> QED
  BY <1>2, <1>3 DEF Lru!Init

LEMMA AcquireIsUse ==
  ASSUME PoolType, FreeLinks, NEW b \in Blocks, hash[b] # NoKey, AcquireExisting(b)
  PROVE  Lru!Use(b)
<1>r. (\A q: IsQueue(q) => FreeQueue = q)'
  BY QueueReads, PTL
<1>1. PICK q: IsQueue(q)
  BY DEF FreeLinks
<1>2. PICK p: p = Lru!Without(q, b)
  OBVIOUS
<1>3. IsQueue(Lru!Without(q, b))'
  BY <1>1, AcquireKeepsQueue
<1>4. IsQueue(p)'
  BY <1>2, <1>3
<1>5. FreeQueue = q /\ FreeQueue' = p
  BY <1>1, <1>4, <1>r, QueueReads
<1>6. FreeQueue' = Lru!Without(FreeQueue, b)
  BY <1>2, <1>5
<1> QED
  BY <1>6 DEF AcquireExisting, Lru!Use

LEMMA ReleaseIsDrop ==
  ASSUME PoolType, FreeLinks, NEW b \in Blocks, ref[b] > 0, ReleaseOne(b)
  PROVE  Lru!Drop(b)
<1>r. (\A q: IsQueue(q) => FreeQueue = q)'
  BY QueueReads, PTL
<1>1. PICK q: IsQueue(q)
  BY DEF FreeLinks
<1>2. PICK p: IsQueue(p)' /\ p = IF ref[b] = 1 THEN Append(q, b) ELSE q
  BY <1>1, ReleaseKeepsQueue
<1>3. FreeQueue = q /\ FreeQueue' = p
  BY <1>1, <1>2, <1>r, QueueReads
<1>4. FreeQueue' = IF ref[b] = 1 THEN Append(FreeQueue, b) ELSE FreeQueue
  BY <1>2, <1>3
<1>5. ref' = [ref EXCEPT ![b] = ref[b] - 1]
  <2>1. ref[b] \in Nat /\ (ref[b] <= 1 => ref[b] = 1)
    BY DEF PoolType
  <2>2. (IF ref[b] <= 1 THEN 0 ELSE ref[b] - 1) = ref[b] - 1
    BY <2>1
  <2> QED
    BY <2>2 DEF ReleaseOne
<1> QED
  BY <1>4, <1>5 DEF ReleaseOne, Lru!Drop

LEMMA EvictIsStore ==
  ASSUME PoolType, FreeLinks, LookupIsExact, NEW k \in Keys, table[k] = Nil,
         EvictFor(head, k)
  PROVE  Lru!Store(k)
<1>r. (\A q: IsQueue(q) => FreeQueue = q)'
  BY QueueReads, PTL
<1>1. PICK q: IsQueue(q)
  BY DEF FreeLinks
<1>2. Len(q) > 0 /\ head = q[1] /\ q \in Seq(Blocks) /\ IsQueue(Tail(q))'
  BY <1>1, EvictKeepsQueue DEF IsQueue
<1>3. PICK p: p = Tail(q)
  OBVIOUS
<1>4. IsQueue(p)'
  BY <1>2, <1>3
<1>5. FreeQueue = q /\ FreeQueue' = p
  BY <1>1, <1>4, <1>r, QueueReads
<1>6. FreeQueue # <<>> /\ Head(FreeQueue) = head /\ FreeQueue' = Tail(FreeQueue)
  BY <1>2, <1>3, <1>5
<1>7. \A b \in Blocks: hash[b] # k
  BY BlocksFacts, ConstantsAssumption DEF LookupIsExact, Nil
<1> QED
  BY <1>6, <1>7 DEF EvictFor, Lru!Store

LEMMA ClearIsForget == Clear => Lru!Forget
<1> SUFFICES ASSUME Clear PROVE Lru!Forget
  OBVIOUS
<1>r. (\A q: IsQueue(q) => FreeQueue = q)'
  BY QueueReads, PTL
<1>1. FreeQueue' = AllInOrder
  BY <1>r, ClearLinks
<1>2. Lru!Empty'
  BY DEF Clear, NoRefs, NoHashes, Lru!Empty
<1>3. Lru!IsQueueOfAll(FreeQueue)'
  BY <1>1, AllAreQueued DEF Lru!IsQueueOfAll
<1> QED
  BY <1>2, <1>3 DEF Lru!Forget

LEMMA SameIsStutter ==
  ASSUME FreeLinks, UNCHANGED pool
  PROVE  UNCHANGED Lru!vars
<1>r. (\A q: IsQueue(q) => FreeQueue = q)'
  BY QueueReads, PTL
<1>1. PICK q: IsQueue(q)
  BY DEF FreeLinks
<1>2. FreeQueue = q /\ FreeQueue' = q
  BY <1>1, <1>r, SameQueue, QueueReads
<1> QED
  BY <1>2 DEF Lru!vars, pool

LEMMA StepIsLru ==
  ASSUME Undisturbed, Inv, [Next]_vars
  PROVE  [Lru!Next]_(Lru!vars)
<1>p. /\ PoolType /\ FreeLinks /\ LookupIsExact /\ TypeInv /\ PoolInv /\ ThreadInv
      /\ RefsCoverHolders /\ KeptAlive
  BY DEF Inv, PoolInv, TypeInv
<1>1. CASE LookupHit \/ StoreShared
  <2>1. Found /\ AcquireExisting(table[Key])
    BY <1>1 DEF LookupHit, StoreShared
  <2>2. PICK b \in Blocks: b = table[Key]
    BY <2>1, <1>p, FoundBlock
  <2>3. hash[b] # NoKey
    BY <2>1, <2>2, <1>p, FoundBlock, ConstantsAssumption DEF LookupIsExact, Found
  <2>4. Lru!Use(b)
    BY <2>1, <2>2, <2>3, <1>p, AcquireIsUse
  <2> QED
    BY <2>4 DEF Lru!Next
<1>2. CASE StoreNew
  <2>1. InPrompt /\ ~Found /\ EvictFor(head, Key)
    BY <1>2 DEF StoreNew
  <2>2. PICK k \in Keys: k = Key
    BY <2>1, <1>p, HereFacts DEF TypeInv
  <2>3. table[k] = Nil
    BY <2>1, <2>2 DEF Found
  <2>4. Lru!Store(k)
    BY <2>1, <2>2, <2>3, <1>p, EvictIsStore
  <2> QED
    BY <2>4 DEF Lru!Next
<1>3. CASE Unpick \/ Release \/ Cleanup
  <2>1. Here \in held
    BY <1>3, <1>p, HereIsHeld
  <2>2. ReleaseOne(meta[Here]) /\ held' = held \ {Here} /\ UNCHANGED prompt
    BY <1>3 DEF Unpick, Release, Cleanup
  <2>3. \A s \in Slots: s # Here => meta'[s] = meta[s]
    BY <1>3, <1>p DEF Unpick, Release, Cleanup, TypeInv, ThreadType
  <2>4. meta[Here] \in Blocks /\ ref[meta[Here]] > 0
    BY <2>1, <2>2, <2>3, <1>p, GiveKeeps
  <2>5. PICK b \in Blocks: b = meta[Here]
    BY <2>4
  <2>6. Lru!Drop(b)
    BY <2>2, <2>4, <2>5, <1>p, ReleaseIsDrop
  <2> QED
    BY <2>6 DEF Lru!Next
<1>4. CASE ReleaseIdleKv
  <2>1. Lru!Forget
    BY <1>4, ClearIsForget DEF ReleaseIdleKv
  <2> QED
    BY <2>1 DEF Lru!Next
<1>5. CASE \/ UNCHANGED vars \/ Admit \/ LookupEnds \/ Prefilled \/ CacheRefused
           \/ StoreSkips \/ StoreEnds \/ ReleasePasses \/ ReleaseEnds
           \/ CleanupEnds \/ Remove \/ StepRaises
  <2>1. UNCHANGED pool
    BY <1>5 DEF vars, Admit, LookupEnds, Prefilled, CacheRefused, StoreSkips, StoreEnds,
                ReleasePasses, ReleaseEnds, CleanupEnds, Remove, StepRaises
  <2> QED
    BY <2>1, <1>p, SameIsStutter
<1>6. CASE StoreRaises \/ Reset
  BY <1>6 DEF StoreRaises, Reset, Undisturbed
<1> QED
  BY <1>1, <1>2, <1>3, <1>4, <1>5, <1>6 DEF Next

\* As long as no harvest fails halfway and nobody resets the pool under the
\* thread, the linked blocks, their reference counts and the table implement a
\* least recently released queue (APCManager): each acquisition is a use, each
\* release ends one, each store takes the block that was released first.
THEOREM PoolImplementsLru ==
  ASSUME Undisturbed
  PROVE  Spec => ImplementsLru
<1>1. Inv /\ [Next]_vars => Inv'
  BY InvKept
<1>2. Inv /\ [Next]_vars => [Lru!Next]_(Lru!vars)
  BY StepIsLru
<1> QED
  BY <1>1, <1>2, InitInv, InitIsEmpty, PTL DEF Spec, ImplementsLru, Lru!Spec
================================================================================

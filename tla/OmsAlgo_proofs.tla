--------------------------- MODULE OmsAlgo_proofs ---------------------------
(* What holds of every parent order, whatever its algorithm, parameters and *)
(* venue: its types, that it says what its children executed, and that the   *)
(* shares of its buckets add up to no more than the order and the rounding.  *)
EXTENDS OmsAlgo, FiniteSetTheorems, TLAPS

USE AlgoAssumption

\* A bucket under way is one of the order's buckets.
BucketExists ==
    job.kind \in {"twap", "vwap"} =>
        /\ bucket <= Buckets
        /\ at \in {"sent", "again"} => bucket < Buckets

AlgoInv == AlgoTypeOK /\ BucketExists /\ ParentIsTrue

-----------------------------------------------------------------------------
(* The operators.                                                          *)

LEMMA JobTypes ==
  ASSUME job \in Jobs
  PROVE  /\ job.kind \in {"twap", "vwap", "iceberg", "seek"}
         /\ job.venue \in {"paper", "live"}
         /\ job.total \in Nat \ {0} /\ job.weights \in Seq(Nat)
         /\ job.slice \in Nat \ {0} /\ job.jitter \in Nat
         /\ Buckets \in Nat \ {0} /\ Volume(job) \in Nat \ {0}
<1>1. job \in Job /\ Len(job.weights) > 0 /\ Volume(job) \in Nat \ {0}
  OBVIOUS
<1>2. job.weights \in Seq(Nat)
  BY <1>1 DEF Job
<1>3. Buckets \in Nat \ {0}
  BY <1>1, <1>2 DEF Buckets
<1> QED BY <1>1, <1>2, <1>3 DEF Job

LEMMA RoundedIsInt ==
  ASSUME NEW n \in Int, NEW d \in Nat \ {0}
  PROVE  Rounded(n, d) \in Int
<1>1. 2 * n + d \in Int /\ 2 * d \in Nat \ {0}
  OBVIOUS
<1> QED BY <1>1 DEF Rounded

LEMMA ChildIsInt ==
  ASSUME AlgoTypeOK, BucketExists, NEW q \in NextChild
  PROVE  q \in Int
<1>1. /\ job.total \in Nat \ {0} /\ parent.filled \in Nat /\ Left \in Int
      /\ job.slice \in Nat \ {0} /\ job.jitter \in Nat /\ child \in Nat
      /\ Buckets \in Nat \ {0} /\ bucket \in Nat /\ leftover \in Nat
  BY JobTypes DEF AlgoTypeOK, Left
<1>2. CASE job.kind \in {"twap", "vwap"}
  <2>1. bucket < Buckets /\ q = BucketShare
    BY <1>1, <1>2 DEF NextChild, BucketExists
  <2>2. leftover * Buckets \in Int
    BY <1>1
  <2>3. job.weights[bucket + 1] \in Nat
    BY <1>1, <2>1, JobTypes DEF AlgoTypeOK, Buckets
  <2>4. job.total * job.weights[bucket + 1] \in Int
    BY <1>1, <2>3
  <2>5. job.total + leftover * Buckets \in Int
    BY <1>1, <2>2
  <2>6. Volume(job) \in Nat \ {0}
    BY JobTypes DEF AlgoTypeOK
  <2>7. Rounded(job.total + leftover * Buckets, Buckets) \in Int
    BY <1>1, <2>5, RoundedIsInt
  <2>8. Rounded(job.total * job.weights[bucket + 1], Volume(job)) \in Int
    BY <2>4, <2>6, RoundedIsInt
  <2> QED BY <1>1, <2>1, <2>7, <2>8 DEF BucketShare
<1>3. CASE job.kind = "iceberg"
  <2>1. PICK d \in -job.jitter .. job.jitter :
           q = Smaller(Smaller(job.slice, Left) + d, Left)
    BY <1>3 DEF NextChild
  <2> QED BY <1>1, <2>1 DEF Smaller
<1>4. CASE job.kind = "seek"
  BY <1>1, <1>4 DEF NextChild, Smaller
<1> QED BY <1>2, <1>3, <1>4, JobTypes DEF AlgoTypeOK

\* What apply_child_fill makes of the parent of an answered child.
LEMMA CountedIsTrue ==
  ASSUME AlgoInv, NEW k \in 0 .. child, NEW f \in 0 .. child, Answer(k, f),
         parent' = Counted(f)
  PROVE  /\ parent' \in [state : {"SUBMITTED", "PARTIAL_FILLED", "FILLED",
                                  "CANCELLED", "REJECTED"}, filled : Nat]
         /\ executed' \in Nat /\ ParentIsTrue'
<1>1. /\ job' = job /\ job.total \in Nat /\ executed \in Nat /\ k \in Nat /\ f \in Nat
      /\ executed' = executed + k /\ f <= k /\ (job.venue = "paper" => f = k)
      /\ parent.filled \in Nat
  BY JobTypes DEF AlgoInv, AlgoTypeOK, Answer
<1>2. parent'.filled = parent.filled + f
  BY <1>1 DEF Counted, AlgoInv, AlgoTypeOK
<1>3. parent'.state = "FILLED" => job.total <= parent'.filled \/ (f = 0 /\ parent' = parent)
  BY <1>1 DEF Counted
<1>4. parent' \in [state : {"SUBMITTED", "PARTIAL_FILLED", "FILLED", "CANCELLED", "REJECTED"},
                   filled : Nat]
  BY <1>1 DEF Counted, AlgoInv, AlgoTypeOK
<1>5. parent.filled <= executed /\ (job.venue = "paper" => parent.filled = executed)
      /\ (parent.state = "FILLED" => job.total <= executed)
  BY <1>1 DEF AlgoInv, ParentIsTrue
<1>6. parent'.filled <= executed' /\ (job.venue = "paper" => parent'.filled = executed')
  BY <1>1, <1>2, <1>5
<1>7. parent'.state = "FILLED" => job.total <= executed'
  BY <1>1, <1>2, <1>3, <1>5, <1>6
<1> QED BY <1>1, <1>4, <1>6, <1>7 DEF ParentIsTrue

\* The states in which start() and the scheduler leave the parent.
LEMMA EndedIsTrue ==
  ASSUME AlgoInv, UNCHANGED <<job, executed>>,
         NEW s \in {"CANCELLED", "REJECTED", EndState(parent)},
         parent' = [parent EXCEPT !.state = s]
  PROVE  /\ parent' \in [state : {"SUBMITTED", "PARTIAL_FILLED", "FILLED",
                                  "CANCELLED", "REJECTED"}, filled : Nat]
         /\ ParentIsTrue'
<1>1. job.total \in Nat /\ executed \in Nat /\ parent.filled \in Nat
  BY JobTypes DEF AlgoInv, AlgoTypeOK
<1>2. s \in {"FILLED", "PARTIAL_FILLED", "CANCELLED", "REJECTED"}
      /\ (s = "FILLED" => job.total <= parent.filled)
  BY DEF EndState
<1>3. parent' \in [state : {"SUBMITTED", "PARTIAL_FILLED", "FILLED", "CANCELLED", "REJECTED"},
                   filled : Nat]
      /\ parent'.state = s /\ parent'.filled = parent.filled
  BY <1>2 DEF AlgoInv, AlgoTypeOK
<1>4. parent.filled <= executed /\ (job.venue = "paper" => parent.filled = executed)
  BY <1>1 DEF AlgoInv, ParentIsTrue
<1> QED BY <1>1, <1>2, <1>3, <1>4 DEF ParentIsTrue

-----------------------------------------------------------------------------
(* The invariant.                                                          *)

LEMMA AlgoInvInit == AlgoInit => AlgoInv
<1> SUFFICES ASSUME AlgoInit PROVE AlgoInv
  OBVIOUS
<1>1. AlgoTypeOK
  BY DEF AlgoInit, AlgoTypeOK
<1>2. BucketExists
  BY JobTypes DEF AlgoInit, BucketExists
<1>3. ParentIsTrue
  BY DEF AlgoInit, ParentIsTrue
<1> QED BY <1>1, <1>2, <1>3 DEF AlgoInv

LEMMA AlgoInvStep == AlgoInv /\ [AlgoNext]_algoVars => AlgoInv'
<1> SUFFICES ASSUME AlgoInv, [AlgoNext]_algoVars PROVE AlgoInv'
  OBVIOUS
<1>0. /\ bucket \in Nat /\ child \in Nat /\ leftover \in Nat /\ retries \in Nat
      /\ Buckets \in Nat \ {0} /\ job \in Jobs
  BY JobTypes DEF AlgoInv, AlgoTypeOK
<1>1. CASE Starts
  <2>1. AlgoTypeOK'
    BY <1>1 DEF Starts, AlgoInv, AlgoTypeOK
  <2>2. BucketExists'
    BY <1>1, <1>0 DEF Starts, AlgoInv, BucketExists, Buckets
  <2>3. ParentIsTrue'
    BY <1>1 DEF Starts, AlgoInv, ParentIsTrue
  <2> QED BY <2>1, <2>2, <2>3 DEF AlgoInv
<1>2. CASE StartRaises \/ Finishes \/ CancelAlgo
  <2>1. UNCHANGED <<job, bucket, child, leftover, retries, executed>> /\ at' = "ended"
    BY <1>2 DEF StartRaises, Finishes, CancelAlgo
  <2>2. PICK s \in {"CANCELLED", "REJECTED", EndState(parent)} :
           parent' = [parent EXCEPT !.state = s]
    BY <1>2 DEF StartRaises, Finishes, CancelAlgo
  <2>3. /\ parent' \in [state : {"SUBMITTED", "PARTIAL_FILLED", "FILLED",
                                 "CANCELLED", "REJECTED"}, filled : Nat]
        /\ ParentIsTrue'
    BY <2>1, <2>2, EndedIsTrue
  <2>4. AlgoTypeOK'
    BY <2>1, <2>3 DEF AlgoInv, AlgoTypeOK
  <2>5. BucketExists'
    BY <2>1, <1>0 DEF AlgoInv, BucketExists, Buckets
  <2> QED BY <2>3, <2>4, <2>5 DEF AlgoInv
<1>3. CASE SendsChild
  <2>1. PICK q \in NextChild : q > 0 /\ child' = q
    BY <1>3 DEF SendsChild
  <2>2. child' \in Nat
    BY <2>1, ChildIsInt DEF AlgoInv
  <2>3. AlgoTypeOK'
    BY <1>3, <2>2 DEF SendsChild, AlgoInv, AlgoTypeOK
  <2>4. job.kind \in {"twap", "vwap"} => bucket # Buckets
    BY <2>1 DEF NextChild
  <2>5. BucketExists'
    BY <1>3, <2>4, <1>0 DEF SendsChild, AlgoInv, BucketExists, Buckets
  <2>6. ParentIsTrue'
    BY <1>3 DEF SendsChild, AlgoInv, ParentIsTrue
  <2> QED BY <2>3, <2>5, <2>6 DEF AlgoInv
<1>4. CASE SkipsBucket
  <2>1. bucket # Buckets /\ at' = "head" /\ bucket' = bucket + 1
    BY <1>4 DEF SkipsBucket, NextChild
  <2>2. AlgoTypeOK'
    BY <1>4, <2>1, <1>0 DEF SkipsBucket, AlgoInv, AlgoTypeOK
  <2>3. BucketExists'
    BY <1>4, <2>1, <1>0 DEF SkipsBucket, AlgoInv, BucketExists, Buckets
  <2>4. ParentIsTrue'
    BY <1>4 DEF SkipsBucket, AlgoInv, ParentIsTrue
  <2> QED BY <2>2, <2>3, <2>4 DEF AlgoInv
<1>5. ASSUME NEW k \in 0 .. child, NEW f \in 0 .. child, BucketAnswered(k, f)
      PROVE  AlgoInv'
  <2>1. /\ parent' \in [state : {"SUBMITTED", "PARTIAL_FILLED", "FILLED",
                                 "CANCELLED", "REJECTED"}, filled : Nat]
        /\ executed' \in Nat /\ ParentIsTrue'
    BY <1>5, CountedIsTrue DEF BucketAnswered
  <2>2. child - f \in Nat
    BY <1>0
  <2>3. /\ at' \in {"head", "again"} /\ bucket' \in {bucket, bucket + 1}
        /\ child' \in Nat /\ leftover' \in Nat /\ retries' = retries /\ job' = job
    BY <1>5, <1>0, <2>2 DEF BucketAnswered, Answer
  <2>4. AlgoTypeOK'
    BY <2>1, <2>3, <1>0 DEF AlgoTypeOK
  <2>5. at \in {"sent", "again"} /\ job.kind \in {"twap", "vwap"}
        /\ (at' = "again" => bucket' = bucket)
    BY <1>5 DEF BucketAnswered, Answer
  <2>6. BucketExists'
    BY <2>3, <2>5, <1>0 DEF AlgoInv, BucketExists, Buckets
  <2> QED BY <2>1, <2>4, <2>6 DEF AlgoInv
<1>6. ASSUME NEW k \in 0 .. child, NEW f \in 0 .. child, DisplayAnswered(k, f)
      PROVE  AlgoInv'
  <2>1. Answer(k, f) /\ job.kind = "iceberg" /\ UNCHANGED <<bucket, child, leftover>>
        /\ job' = job /\ at' \in {"ended", "head"} /\ retries' \in Nat
    BY <1>6, <1>0 DEF DisplayAnswered, Answer
  <2>2. parent' = Counted(f) \/ (f = 0 /\ parent' = [parent EXCEPT !.state = EndState(parent)])
    BY <1>6 DEF DisplayAnswered
  <2>3. /\ parent' \in [state : {"SUBMITTED", "PARTIAL_FILLED", "FILLED",
                                 "CANCELLED", "REJECTED"}, filled : Nat]
        /\ executed' \in Nat /\ ParentIsTrue'
    <3>1. CASE parent' = Counted(f)
      BY <2>1, <3>1, CountedIsTrue
    <3>2. CASE f = 0 /\ parent' = [parent EXCEPT !.state = EndState(parent)]
      <4>1. /\ job.total \in Nat /\ executed \in Nat /\ parent.filled \in Nat
            /\ executed' = executed + k /\ k \in Nat
            /\ (job.venue = "paper" => k = 0)
        BY <2>1, <3>2, JobTypes DEF AlgoInv, AlgoTypeOK, Answer
      <4>2. EndState(parent) \in {"FILLED", "PARTIAL_FILLED", "CANCELLED"}
            /\ (EndState(parent) = "FILLED" => job.total <= parent.filled)
        BY DEF EndState
      <4>3. parent' \in [state : {"SUBMITTED", "PARTIAL_FILLED", "FILLED",
                                  "CANCELLED", "REJECTED"}, filled : Nat]
            /\ parent'.state = EndState(parent) /\ parent'.filled = parent.filled
        BY <3>2, <4>2 DEF AlgoInv, AlgoTypeOK
      <4>4. parent.filled <= executed /\ (job.venue = "paper" => parent.filled = executed)
        BY <4>1 DEF AlgoInv, ParentIsTrue
      <4>5. ParentIsTrue'
        BY <2>1, <4>1, <4>2, <4>3, <4>4 DEF ParentIsTrue
      <4> QED BY <4>1, <4>3, <4>5
    <3> QED BY <2>2, <3>1, <3>2
  <2>4. AlgoTypeOK'
    BY <2>1, <2>3, <1>0 DEF AlgoTypeOK
  <2>5. BucketExists'
    BY <2>1 DEF BucketExists
  <2> QED BY <2>3, <2>4, <2>5 DEF AlgoInv
<1>7. ASSUME NEW k \in 0 .. child, NEW f \in 0 .. child, LevelAnswered(k, f)
      PROVE  AlgoInv'
  <2>1. /\ parent' \in [state : {"SUBMITTED", "PARTIAL_FILLED", "FILLED",
                                 "CANCELLED", "REJECTED"}, filled : Nat]
        /\ executed' \in Nat /\ ParentIsTrue'
    BY <1>7, CountedIsTrue DEF LevelAnswered
  <2>2. child - f \in Nat
    BY <1>0
  <2>3. /\ at' = "head" /\ bucket' \in Nat /\ child' \in Nat /\ job.kind = "seek"
        /\ leftover' = leftover /\ retries' = retries /\ job' = job
    BY <1>7, <1>0, <2>2 DEF LevelAnswered, Answer
  <2>4. AlgoTypeOK'
    BY <2>1, <2>3, <1>0 DEF AlgoTypeOK
  <2>5. BucketExists'
    BY <2>3 DEF BucketExists
  <2> QED BY <2>1, <2>4, <2>5 DEF AlgoInv
<1>8. CASE UNCHANGED algoVars
  <2>1. AlgoTypeOK'
    BY <1>8 DEF algoVars, AlgoInv, AlgoTypeOK
  <2>2. BucketExists'
    BY <1>8, <1>0 DEF algoVars, AlgoInv, BucketExists, Buckets
  <2>3. ParentIsTrue'
    BY <1>8 DEF algoVars, AlgoInv, ParentIsTrue
  <2> QED BY <2>1, <2>2, <2>3 DEF AlgoInv
<1> QED BY <1>1, <1>2, <1>3, <1>4, <1>5, <1>6, <1>7, <1>8 DEF AlgoNext, AlgoSteps

LEMMA AlgoInvariant == AlgoSpec => []AlgoInv
<1> QED BY AlgoInvInit, AlgoInvStep, PTL DEF AlgoSpec

-----------------------------------------------------------------------------
(* Sums of weights.  MapThenSumSet adds them by recursion over the subsets of *)
(* the buckets: that the recursion has a solution, and what it is, follows   *)
(* from the least set for which it would not hold.                           *)

First(S) == CHOOSE i \in S : TRUE

\* f adds the weights w of the subsets of S, one after the other.
IsSum(f, w, S) ==
    f = [s \in SUBSET S |-> IF s = {} THEN 0 ELSE w[First(s)] + f[s \ {First(s)}]]

SumOf(w, S) == MapThenSumSet(LAMBDA i : w[i], S)

LEMMA SumUnfold == \A w, S : SumOf(w, S) = (CHOOSE f : IsSum(f, w, S))[S]
BY DEF SumOf, MapThenSumSet, MapThenFoldSet, IsSum, First

LEMMA VolumeIsSum == \A j : Volume(j) = SumOf(j.weights, DOMAIN j.weights)
BY DEF Volume, SumOf

\* A set of sets of buckets has a least member.
LEMMA LeastSet ==
  ASSUME NEW D, IsFiniteSet(D), NEW T, T \subseteq SUBSET D, T # {}
  PROVE  \E S \in T : \A U \in SUBSET S : U # S => U \notin T
<1>1. IsWellFoundedOn(StrictSubsetOrdering(D), SUBSET D)
  <2>1. FiniteSubsetsOf(D) = SUBSET D
    BY FS_FiniteSubsetsOfFinite
  <2>2. IsWellFoundedOn(StrictSubsetOrdering(D), FiniteSubsetsOf(D))
    BY FS_StrictSubsetOrderingWellFounded
  <2> QED BY <2>1, <2>2
<1>2. PICK S \in T : \A U \in T : ~ (<<U, S>> \in StrictSubsetOrdering(D))
  BY <1>1, WFMin
<1>3. ASSUME NEW U \in SUBSET S, U # S, U \in T PROVE FALSE
  <2>1. <<U, S>> \in (SUBSET D) \X (SUBSET D)
    BY <1>3
  <2>2. <<U, S>> \in StrictSubsetOrdering(D)
    BY <2>1, <1>3 DEF StrictSubsetOrdering
  <2> QED BY <2>2, <1>2, <1>3
<1> QED BY <1>3

LEMMA SumIsUnique ==
  ASSUME NEW w, NEW S, IsFiniteSet(S), NEW f, NEW g, IsSum(f, w, S), IsSum(g, w, S)
  PROVE  \A s \in SUBSET S : f[s] = g[s]
<1> SUFFICES ASSUME {s \in SUBSET S : f[s] # g[s]} # {} PROVE FALSE
  OBVIOUS
<1>1. PICK s \in SUBSET S : /\ f[s] # g[s]
                            /\ \A u \in SUBSET s : u # s => f[u] = g[u]
  <2> DEFINE T == {s \in SUBSET S : f[s] # g[s]}
  <2>1. T \subseteq SUBSET S /\ T # {}
    OBVIOUS
  <2>2. PICK s \in T : \A u \in SUBSET s : u # s => u \notin T
    <3> HIDE DEF T
    <3> QED BY <2>1, LeastSet
  <2> QED BY <2>2
<1>2. \A u \in SUBSET S : /\ f[u] = IF u = {} THEN 0
                                    ELSE w[First(u)] + f[u \ {First(u)}]
                          /\ g[u] = IF u = {} THEN 0
                                    ELSE w[First(u)] + g[u \ {First(u)}]
  BY DEF IsSum
<1>3. s # {}
  BY <1>1, <1>2
<1>4. First(s) \in s
  BY <1>3 DEF First
<1>5. f[s \ {First(s)}] = g[s \ {First(s)}]
  BY <1>1, <1>4
<1> QED BY <1>1, <1>2, <1>3, <1>5

\* What is to be shown of every set S of buckets.
Adds(w, S) == /\ SumOf(w, S) = IF S = {} THEN 0
                               ELSE w[First(S)] + SumOf(w, S \ {First(S)})

LEMMA SumRecurs ==
  ASSUME NEW D, IsFiniteSet(D), NEW w
  PROVE  \A S \in SUBSET D : Adds(w, S)
<1> SUFFICES ASSUME {S \in SUBSET D : ~Adds(w, S)} # {} PROVE FALSE
  OBVIOUS
<1>1. PICK S \in SUBSET D : ~Adds(w, S) /\ \A u \in SUBSET S : u # S => Adds(w, u)
  <2> DEFINE T == {S \in SUBSET D : ~Adds(w, S)}
  <2>1. T \subseteq SUBSET D /\ T # {}
    OBVIOUS
  <2>2. PICK S \in T : \A u \in SUBSET S : u # S => u \notin T
    <3> HIDE DEF T
    <3> QED BY <2>1, LeastSet
  <2> QED BY <2>2
<1>f. IsFiniteSet(S)
  BY FS_Subset
<1>2. PICK all : all = IF S = {} THEN 0 ELSE w[First(S)] + SumOf(w, S \ {First(S)})
  OBVIOUS
<1> DEFINE g == [s \in SUBSET S |-> IF s = S THEN all ELSE SumOf(w, s)]
<1>3. IsSum(g, w, S)
  <2>1. ASSUME NEW s \in SUBSET S
        PROVE  g[s] = IF s = {} THEN 0 ELSE w[First(s)] + g[s \ {First(s)}]
    <3>1. s # {} => First(s) \in s
      BY DEF First
    <3>2. s # {} => s \ {First(s)} # S
      BY <3>1
    <3>3. s # {} => g[s \ {First(s)}] = SumOf(w, s \ {First(s)})
      BY <3>2
    <3>4. CASE s = S
      BY <1>2, <3>3, <3>4
    <3>5. CASE s # S
      <4>1. Adds(w, s) /\ g[s] = SumOf(w, s)
        BY <1>1, <3>5
      <4> QED BY <3>3, <4>1 DEF Adds
    <3> QED BY <3>4, <3>5
  <2>2. g = [s \in SUBSET S |-> g[s]]
    OBVIOUS
  <2> HIDE DEF g
  <2>3. g = [s \in SUBSET S |-> IF s = {} THEN 0
                                ELSE w[First(s)] + g[s \ {First(s)}]]
    BY <2>1, <2>2
  <2> QED BY <2>3 DEF IsSum
<1>4. PICK f : f = CHOOSE h : IsSum(h, w, S)
  OBVIOUS
<1>5. IsSum(f, w, S)
  BY <1>3, <1>4
<1>6. f[S] = g[S]
  <2> HIDE DEF g
  <2> QED BY <1>3, <1>5, <1>f, SumIsUnique
<1>7. g[S] = all
  OBVIOUS
<1>8. SumOf(w, S) = all
  BY <1>4, <1>6, <1>7, SumUnfold
<1> QED BY <1>1, <1>2, <1>8 DEF Adds

\* A weight taken out of a set leaves the sum of the others.
Takes(w, S) == /\ SumOf(w, S) \in Nat
               /\ \A i \in S : SumOf(w, S) = w[i] + SumOf(w, S \ {i})

LEMMA SumTakes ==
  ASSUME NEW D, IsFiniteSet(D), NEW w, \A i \in D : w[i] \in Nat
  PROVE  \A S \in SUBSET D : Takes(w, S)
<1> SUFFICES ASSUME {S \in SUBSET D : ~Takes(w, S)} # {} PROVE FALSE
  OBVIOUS
<1>1. PICK S \in SUBSET D : ~Takes(w, S) /\ \A u \in SUBSET S : u # S => Takes(w, u)
  <2> DEFINE T == {S \in SUBSET D : ~Takes(w, S)}
  <2>1. T \subseteq SUBSET D /\ T # {}
    OBVIOUS
  <2>2. PICK S \in T : \A u \in SUBSET S : u # S => u \notin T
    <3> HIDE DEF T
    <3> QED BY <2>1, LeastSet
  <2> QED BY <2>2
<1>2. Adds(w, S)
  BY SumRecurs
<1>3. S # {}
  BY <1>1, <1>2 DEF Adds, Takes
<1>4. PICK c \in S : SumOf(w, S) = w[c] + SumOf(w, S \ {c})
  BY <1>2, <1>3 DEF Adds, First
<1>5. Takes(w, S \ {c}) /\ w[c] \in Nat
  BY <1>1
<1>6. SumOf(w, S) \in Nat
  BY <1>4, <1>5 DEF Takes
<1>7. ASSUME NEW i \in S, i # c PROVE SumOf(w, S) = w[i] + SumOf(w, S \ {i})
  <2>1. PICK R \in SUBSET D : R = (S \ {i}) \ {c} /\ R = (S \ {c}) \ {i}
    OBVIOUS
  <2>2. Takes(w, S \ {i}) /\ Takes(w, R) /\ w[i] \in Nat
    BY <1>1, <1>7, <2>1
  <2>3. SumOf(w, S \ {c}) = w[i] + SumOf(w, R)
    BY <1>5, <1>7, <2>1 DEF Takes
  <2>4. SumOf(w, S \ {i}) = w[c] + SumOf(w, R)
    BY <2>2, <1>7, <2>1 DEF Takes
  <2>5. SumOf(w, R) \in Nat
    BY <2>2 DEF Takes
  <2> QED BY <1>4, <1>5, <2>2, <2>3, <2>4, <2>5
<1> QED BY <1>1, <1>4, <1>6, <1>7 DEF Takes

\* The volume of the first b buckets.
Before(j, b) == SumOf(j.weights, 1 .. b)

LEMMA BeforeGrows ==
  ASSUME job \in Jobs
  PROVE  /\ Before(job, 0) = 0 /\ Before(job, Buckets) = Volume(job)
         /\ \A b \in 0 .. Buckets : Before(job, b) \in Nat
         /\ \A b \in 0 .. Buckets - 1 : Before(job, b + 1) = Before(job, b) + job.weights[b + 1]
<1>1. /\ job.weights \in Seq(Nat) /\ Buckets \in Nat \ {0} /\ Buckets = Len(job.weights)
  BY JobTypes DEF Buckets
<1>2. /\ DOMAIN job.weights = 1 .. Buckets
      /\ \A i \in 1 .. Buckets : job.weights[i] \in Nat
  BY <1>1
<1>3. IsFiniteSet(1 .. Buckets)
  BY <1>1, FS_Interval
<1>4. \A S \in SUBSET (1 .. Buckets) : Takes(job.weights, S) /\ Adds(job.weights, S)
  BY <1>2, <1>3, SumTakes, SumRecurs
<1>5. Before(job, 0) = 0
  <2>1. 1 .. 0 = {} /\ {} \in SUBSET (1 .. Buckets)
    OBVIOUS
  <2> QED BY <2>1, <1>4 DEF Before, Adds
<1>6. Before(job, Buckets) = Volume(job)
  BY <1>2, VolumeIsSum DEF Before
<1>7. ASSUME NEW b \in 0 .. Buckets PROVE Before(job, b) \in Nat
  <2>1. 1 .. b \in SUBSET (1 .. Buckets)
    BY <1>1
  <2> QED BY <2>1, <1>4 DEF Before, Takes
<1>8. ASSUME NEW b \in 0 .. Buckets - 1
      PROVE  Before(job, b + 1) = Before(job, b) + job.weights[b + 1]
  <2>1. 1 .. b + 1 \in SUBSET (1 .. Buckets) /\ b + 1 \in 1 .. b + 1 /\ b + 1 \in 1 .. Buckets
    BY <1>1
  <2>2. (1 .. b + 1) \ {b + 1} = 1 .. b
    BY <1>1
  <2>3. Before(job, b + 1) = job.weights[b + 1] + Before(job, b)
    BY <2>1, <2>2, <1>4 DEF Before, Takes
  <2>4. Before(job, b) \in Nat /\ job.weights[b + 1] \in Nat
    BY <1>1, <1>2, <1>7, <2>1
  <2> QED BY <2>3, <2>4
<1> QED BY <1>5, <1>6, <1>7, <1>8

\* No part of the buckets has more volume than all.
LEMMA BeforeBounded ==
  ASSUME job \in Jobs
  PROVE  \A b \in 0 .. Buckets : Before(job, b) <= Volume(job)
<1> SUFFICES ASSUME NEW b \in 0 .. Buckets, ~(Before(job, b) <= Volume(job)) PROVE FALSE
  OBVIOUS
<1>1. /\ Buckets \in Nat \ {0} /\ Volume(job) \in Nat /\ job.weights \in Seq(Nat)
      /\ \A i \in 1 .. Buckets : job.weights[i] \in Nat
  BY JobTypes DEF Buckets
<1> DEFINE T == {n \in Nat : n <= Buckets /\ ~(Before(job, Buckets - n) <= Volume(job))}
<1>2. T \subseteq Nat /\ T # {}
  <2>1. Buckets - b \in Nat /\ Buckets - b <= Buckets /\ Buckets - (Buckets - b) = b
    BY <1>1
  <2>2. Buckets - b \in T
    BY <2>1
  <2> QED BY <2>2
<1>3. PICK n \in T : \A m \in T : ~(<<m, n>> \in OpToRel(<, Nat))
  BY <1>2, NatLessThanWellFounded, WFMin
<1>4. n # 0
  BY <1>1, BeforeGrows
<1>5. n - 1 \in Nat /\ n - 1 < n /\ n \in Nat
  BY <1>4
<1>6. n - 1 \notin T
  BY <1>3, <1>5 DEF OpToRel
<1>7. Before(job, Buckets - (n - 1)) <= Volume(job)
  BY <1>1, <1>5, <1>6
<1>8. /\ Buckets - n \in 0 .. Buckets - 1 /\ Buckets - (n - 1) = (Buckets - n) + 1
      /\ Buckets - n + 1 \in 1 .. Buckets
  BY <1>1, <1>5
<1>9. Before(job, Buckets - (n - 1)) = Before(job, Buckets - n) + job.weights[Buckets - n + 1]
  BY <1>8, BeforeGrows
<1>10. Before(job, Buckets - n) \in Nat /\ job.weights[Buckets - n + 1] \in Nat
  BY <1>1, <1>8, BeforeGrows
<1> QED BY <1>1, <1>7, <1>9, <1>10

-----------------------------------------------------------------------------
(* What the shares of the buckets add up to.                               *)

\* What of the whole the first b buckets of twap and vwap stand for.
Whole(j) == IF j.kind = "twap" THEN Len(j.weights) ELSE Volume(j)
Mass(j, b) == IF j.kind = "twap" THEN b ELSE Before(j, b)

\* No more than the first b shares, each rounded up by half a unit.
Within(j, x, b) == 2 * (Whole(j) * x) <= 2 * (j.total * Mass(j, b)) + b * Whole(j)

LEMMA RoundedBound ==
  ASSUME NEW n \in Int, NEW d \in Nat \ {0}
  PROVE  2 * (d * Rounded(n, d)) <= 2 * n + d
<1>1. /\ 2 * n + d \in Int /\ 2 * d \in Nat \ {0}
  OBVIOUS
<1>2. PICK a \in Int, c \in Nat \ {0} : a = 2 * n + d /\ c = 2 * d
  BY <1>1
<1>3. c * (a \div c) <= a
  OBVIOUS
<1>4. Rounded(n, d) = a \div c /\ a \div c \in Int
  BY <1>2 DEF Rounded
<1>5. (2 * d) * (a \div c) = 2 * (d * (a \div c))
  BY <1>4
<1> QED BY <1>2, <1>3, <1>4, <1>5

LEMMA MassTypes ==
  ASSUME job \in Jobs
  PROVE  /\ Whole(job) \in Nat \ {0} /\ Mass(job, 0) = 0
         /\ \A b \in 0 .. Buckets : Mass(job, b) \in Nat /\ Mass(job, b) <= Whole(job)
         /\ \A b \in 0 .. Buckets - 1 :
               Mass(job, b + 1) = Mass(job, b) + IF job.kind = "twap" THEN 1
                                                 ELSE job.weights[b + 1]
<1>1. Buckets = Len(job.weights) /\ Buckets \in Nat \ {0} /\ Volume(job) \in Nat \ {0}
  BY JobTypes DEF Buckets
<1>2. CASE job.kind = "twap"
  BY <1>1, <1>2 DEF Whole, Mass
<1>3. CASE job.kind # "twap"
  <2>1. Whole(job) = Volume(job) /\ \A b : Mass(job, b) = Before(job, b)
    BY <1>3 DEF Whole, Mass
  <2> QED BY <1>1, <1>3, <2>1, BeforeGrows, BeforeBounded
<1> QED BY <1>2, <1>3

LEMMA WithinSmaller ==
  ASSUME job \in Jobs, NEW b \in 0 .. Buckets, NEW x \in Int, NEW y \in Int, x <= y,
         Within(job, y, b)
  PROVE  Within(job, x, b)
<1>1. PICK w \in Nat \ {0} : w = Whole(job)
  BY MassTypes
<1>2. job.total \in Nat /\ Mass(job, b) \in Nat /\ Buckets \in Nat
  BY MassTypes, JobTypes
<1>3. PICK r \in Int : r = 2 * (job.total * Mass(job, b)) + b * Whole(job)
  BY <1>1, <1>2
<1>4. w * x <= w * y /\ w * x \in Int /\ w * y \in Int
  OBVIOUS
<1>5. 2 * (w * y) <= r
  BY <1>1, <1>3 DEF Within
<1>6. 2 * (w * x) <= r
  BY <1>4, <1>5
<1> QED BY <1>1, <1>3, <1>6 DEF Within

\* What one more bucket adds to the right side.
LEMMA WithinShare ==
  ASSUME job \in Jobs, NEW b \in 0 .. Buckets - 1, NEW x \in Int, NEW c \in Int,
         Within(job, x, b),
         2 * (Whole(job) * c) <=
            2 * (job.total * IF job.kind = "twap" THEN 1 ELSE job.weights[b + 1]) + Whole(job)
  PROVE  Within(job, x + c, b + 1)
<1>0. Buckets \in Nat \ {0} /\ job.weights \in Seq(Nat) /\ Buckets = Len(job.weights)
  BY JobTypes DEF Buckets
<1>1. PICK w \in Nat \ {0} : w = Whole(job)
  BY MassTypes
<1>2. PICK v \in Nat : v = IF job.kind = "twap" THEN 1 ELSE job.weights[b + 1]
  BY <1>0
<1>3. PICK m \in Nat : m = Mass(job, b)
  <2>1. b \in 0 .. Buckets
    BY <1>0
  <2> QED BY <2>1, MassTypes
<1>4. PICK t \in Nat : t = job.total
  BY JobTypes
<1>5. Mass(job, b + 1) = m + v
  BY <1>2, <1>3, MassTypes
<1>6. 2 * (w * x) <= 2 * (t * m) + b * w
  BY <1>1, <1>3, <1>4 DEF Within
<1>7. 2 * (w * c) <= 2 * (t * v) + w
  BY <1>1, <1>2, <1>4
<1>8. /\ w * (x + c) = w * x + w * c
      /\ t * (m + v) = t * m + t * v
      /\ (b + 1) * w = b * w + w
  OBVIOUS
<1>9. w * x \in Int /\ w * c \in Int /\ t * m \in Int /\ t * v \in Int /\ b * w \in Int
  OBVIOUS
<1>10. 2 * (w * (x + c)) <= 2 * (t * (m + v)) + (b + 1) * w
  BY <1>6, <1>7, <1>8, <1>9
<1> QED BY <1>1, <1>4, <1>5, <1>10 DEF Within

LEMMA WithinNext ==
  ASSUME job \in Jobs, NEW b \in 0 .. Buckets - 1, NEW x \in Int, Within(job, x, b)
  PROVE  Within(job, x, b + 1)
<1>0. Buckets \in Nat \ {0} /\ job.weights \in Seq(Nat) /\ Buckets = Len(job.weights)
  BY JobTypes DEF Buckets
<1>1. PICK w \in Nat \ {0} : w = Whole(job)
  BY MassTypes
<1>2. PICK v \in Nat : v = IF job.kind = "twap" THEN 1 ELSE job.weights[b + 1]
  BY <1>0
<1>3. PICK t \in Nat : t = job.total
  BY JobTypes
<1>4. w * 0 = 0 /\ t * v \in Nat
  OBVIOUS
<1>5. 2 * (w * 0) <= 2 * (t * v) + w
  BY <1>4
<1>6. Within(job, x + 0, b + 1)
  BY <1>1, <1>2, <1>3, <1>5, WithinShare
<1> QED BY <1>6

LEMMA WithinLimit ==
  ASSUME job \in Jobs, NEW b \in 0 .. Buckets - 1, NEW x \in Int, Within(job, x, b)
  PROVE  x <= job.total + (Buckets - 1) \div 2
<1>0. PICK n \in Nat \ {0} : n = Buckets
  BY JobTypes
<1>1. PICK w \in Nat \ {0} : w = Whole(job)
  BY MassTypes
<1>2. PICK m \in Nat : m = Mass(job, b) /\ m <= w
  BY <1>0, <1>1, MassTypes
<1>3. PICK t \in Nat : t = job.total
  BY JobTypes
<1>4. 2 * (w * x) <= 2 * (t * m) + b * w
  BY <1>1, <1>2, <1>3 DEF Within
<1>5. t * m <= t * w /\ b * w <= (n - 1) * w
  BY <1>0, <1>2
<1>6. t * w \in Int /\ t * m \in Int /\ w * x \in Int /\ b * w \in Int /\ (n - 1) * w \in Int
  BY <1>0
<1>7. 2 * (w * x) <= 2 * (t * w) + (n - 1) * w
  BY <1>4, <1>5, <1>6
<1>8. PICK e \in Int : e = 2 * x - 2 * t - (n - 1)
  OBVIOUS
<1>9. w * e = 2 * (w * x) - 2 * (t * w) - (n - 1) * w
  BY <1>8
<1>10. w * e <= 0
  BY <1>6, <1>7, <1>9
<1>11. e <= 0
  BY <1>10
<1>12. 2 * x <= 2 * t + (n - 1)
  BY <1>8, <1>11
<1>13. x <= t + (n - 1) \div 2
  BY <1>12
<1> QED BY <1>0, <1>3, <1>13

-----------------------------------------------------------------------------
(* What is executed.                                                       *)

Limit == (IF job.venue = "live" THEN 2 * job.total ELSE job.total) + RoundingMargin

\* twap and vwap: before a bucket what was executed and carried over is within
\* the shares of the buckets before, and the child of a bucket stays within
\* them with its own; the last bucket takes what is left.
SharesBounded ==
    /\ at = "again" => job.kind = "twap"
    /\ job.kind = "vwap" => leftover = 0
    /\ at \in {"new", "head"} /\ bucket < Buckets => Within(job, executed + leftover, bucket)
    /\ at \in {"sent", "again"} =>
          IF bucket < Buckets - 1 THEN Within(job, executed + child, bucket + 1)
          ELSE executed + child <= Limit

\* iceberg and seek: a child, and what is left of a slice that goes to the
\* next level, is no more than what is left of the order.
SliceBounded ==
    /\ at # "again" /\ (at = "new" => bucket = 0)
    /\ at = "sent" \/ (job.kind = "seek" /\ at = "head" /\ bucket # 0)
         => executed + child <= job.total

\* At the live venue nothing is seen of what twap's, iceberg's and seek's
\* children execute, so that nothing bounds it.
ExecutionBounded ==
    (job.venue = "paper" \/ job.kind = "vwap") =>
        /\ executed <= Limit
        /\ IF job.kind \in {"twap", "vwap"} THEN SharesBounded ELSE SliceBounded

LEMMA LimitTypes ==
  ASSUME job \in Jobs
  PROVE  /\ Limit \in Nat /\ RoundingMargin \in Nat /\ job.total <= Limit
         /\ job.kind \in {"twap", "vwap"} =>
               /\ RoundingMargin = (Buckets - 1) \div 2
               /\ job.total + RoundingMargin <= Limit
         /\ job.venue = "live" => Limit = 2 * job.total + RoundingMargin
<1>1. Buckets \in Nat \ {0} /\ job.total \in Nat
  BY JobTypes
<1>2. (Buckets - 1) \div 2 \in Nat
  BY <1>1
<1>3. RoundingMargin \in Nat
  BY <1>2 DEF RoundingMargin
<1> QED BY <1>1, <1>2, <1>3 DEF Limit, RoundingMargin

LEMMA LimitKept ==
  ASSUME job' = job
  PROVE  Limit' = Limit /\ Buckets' = Buckets
BY DEF Limit, RoundingMargin, Buckets

\* Whatever is sent to a bucket stays within the limit.
LEMMA ChildWithinLimit ==
  ASSUME AlgoInv, ExecutionBounded, at \in {"sent", "again"},
         job.venue = "paper" \/ job.kind = "vwap"
  PROVE  executed + child <= Limit
<1>0. /\ job \in Jobs /\ executed \in Nat /\ child \in Nat /\ bucket \in Nat
      /\ Buckets \in Nat \ {0} /\ job.total \in Nat
  BY JobTypes DEF AlgoInv, AlgoTypeOK
<1>1. CASE job.kind \in {"twap", "vwap"}
  <2>1. SharesBounded /\ bucket < Buckets
    BY <1>1 DEF ExecutionBounded, AlgoInv, BucketExists
  <2>2. CASE bucket < Buckets - 1
    <3>1. Within(job, executed + child, bucket + 1)
      BY <2>1, <2>2 DEF SharesBounded
    <3>2. bucket + 1 \in 0 .. Buckets - 1 /\ executed + child \in Int
      BY <1>0, <2>2
    <3>3. executed + child <= job.total + (Buckets - 1) \div 2
      BY <1>0, <3>1, <3>2, WithinLimit
    <3>4. (Buckets - 1) \div 2 \in Int
      BY <1>0
    <3> QED BY <1>0, <1>1, <3>2, <3>3, <3>4, LimitTypes
  <2>3. CASE ~(bucket < Buckets - 1)
    BY <2>1, <2>3 DEF SharesBounded
  <2> QED BY <2>2, <2>3
<1>2. CASE job.kind \notin {"twap", "vwap"}
  <2>1. executed + child <= job.total
    BY <1>2 DEF ExecutionBounded, SliceBounded
  <2> QED BY <1>0, <2>1, LimitTypes
<1> QED BY <1>1, <1>2

LEMMA BoundedInit == AlgoInit => ExecutionBounded
<1> SUFFICES ASSUME AlgoInit PROVE ExecutionBounded
  OBVIOUS
<1>1. job \in Jobs /\ at = "new" /\ executed = 0 /\ leftover = 0 /\ bucket = 0
  BY DEF AlgoInit
<1>2. executed <= Limit
  BY <1>1, LimitTypes
<1>3. Within(job, 0, 0)
  <2>1. PICK w \in Nat : w = Whole(job)
    BY <1>1, MassTypes
  <2>2. PICK t \in Nat : t = job.total
    BY <1>1, JobTypes
  <2>3. 2 * (w * 0) <= 2 * (t * 0) + 0 * w
    OBVIOUS
  <2> QED BY <1>1, <2>1, <2>2, <2>3, MassTypes DEF Within
<1>4. SharesBounded
  BY <1>1, <1>3 DEF SharesBounded
<1>5. SliceBounded
  BY <1>1 DEF SliceBounded
<1> QED BY <1>2, <1>4, <1>5 DEF ExecutionBounded

\* The share of a bucket that is not the last.
LEMMA ShareIsBounded ==
  ASSUME AlgoInv, SharesBounded, at = "head", job.kind \in {"twap", "vwap"},
         bucket < Buckets - 1
  PROVE  Within(job, executed + BucketShare, bucket + 1) /\ BucketShare \in Int
<1>0. /\ job \in Jobs /\ executed \in Nat /\ leftover \in Nat /\ bucket \in Nat
      /\ Buckets \in Nat \ {0} /\ job.total \in Nat /\ Volume(job) \in Nat \ {0}
      /\ Buckets = Len(job.weights) /\ bucket \in 0 .. Buckets - 1
  BY JobTypes DEF AlgoInv, AlgoTypeOK, Buckets
<1>1. Within(job, executed + leftover, bucket)
  BY <1>0 DEF SharesBounded
<1>2. CASE job.kind = "twap"
  <2>1. PICK d \in Nat \ {0} : d = Buckets
    BY <1>0
  <2>2. PICK t \in Nat : t = job.total
    BY <1>0
  <2>3. t + leftover * d \in Int
    BY <1>0
  <2>4. PICK q \in Int : q = Rounded(t + leftover * d, d)
    BY <2>3, RoundedIsInt
  <2>5. BucketShare = q
    BY <1>0, <1>2, <2>1, <2>2, <2>4 DEF BucketShare
  <2>6. 2 * (d * q) <= 2 * (t + leftover * d) + d
    BY <2>3, <2>4, RoundedBound
  <2>7. d * (q - leftover) = d * q - leftover * d
    BY <1>0
  <2>8. d * q \in Int /\ leftover * d \in Int
    BY <1>0
  <2>9. 2 * (d * (q - leftover)) <= 2 * t + d
    BY <2>6, <2>7, <2>8
  <2>10. Whole(job) = d /\ t * 1 = t
    BY <1>0, <1>2, <2>1 DEF Whole
  <2>11. 2 * (Whole(job) * (q - leftover)) <=
            2 * (job.total * IF job.kind = "twap" THEN 1 ELSE job.weights[bucket + 1])
               + Whole(job)
    BY <1>2, <2>2, <2>9, <2>10
  <2>12. executed + leftover \in Int /\ q - leftover \in Int
    BY <1>0
  <2>13. Within(job, (executed + leftover) + (q - leftover), bucket + 1)
    BY <1>0, <1>1, <2>11, <2>12, WithinShare
  <2>14. (executed + leftover) + (q - leftover) = executed + q
    BY <1>0
  <2> QED BY <2>5, <2>13, <2>14
<1>3. CASE job.kind = "vwap"
  <2>1. PICK d \in Nat \ {0} : d = Volume(job)
    BY <1>0
  <2>2. PICK v \in Nat : v = job.weights[bucket + 1]
    BY <1>0, JobTypes
  <2>3. PICK t \in Nat : t = job.total
    BY <1>0
  <2>4. t * v \in Int
    OBVIOUS
  <2>5. PICK q \in Int : q = Rounded(t * v, d)
    BY <2>4, RoundedIsInt
  <2>6. BucketShare = q
    BY <1>0, <1>3, <2>1, <2>2, <2>3, <2>5 DEF BucketShare
  <2>7. 2 * (d * q) <= 2 * (t * v) + d
    BY <2>4, <2>5, RoundedBound
  <2>8. Whole(job) = d
    BY <1>3, <2>1 DEF Whole
  <2>9. 2 * (Whole(job) * q) <=
           2 * (job.total * IF job.kind = "twap" THEN 1 ELSE job.weights[bucket + 1])
              + Whole(job)
    BY <1>3, <2>2, <2>3, <2>7, <2>8
  <2>10. executed + leftover = executed /\ executed \in Int
    BY <1>0, <1>3 DEF SharesBounded
  <2>11. Within(job, executed, bucket)
    BY <1>1, <2>10
  <2>12. Within(job, executed + q, bucket + 1)
    BY <1>0, <2>9, <2>10, <2>11, WithinShare
  <2> QED BY <2>6, <2>12
<1> QED BY <1>2, <1>3

LEMMA BoundedStep ==
  AlgoInv /\ ExecutionBounded /\ [AlgoNext]_algoVars => ExecutionBounded'
<1> SUFFICES ASSUME AlgoInv, ExecutionBounded, [AlgoNext]_algoVars PROVE ExecutionBounded'
  OBVIOUS
<1>0. /\ job \in Jobs /\ bucket \in Nat /\ child \in Nat /\ leftover \in Nat
      /\ executed \in Nat /\ parent.filled \in Nat /\ job.total \in Nat \ {0}
      /\ Buckets \in Nat \ {0} /\ Limit \in Nat
  BY JobTypes, LimitTypes DEF AlgoInv, AlgoTypeOK
<1>j. job' = job /\ Limit' = Limit /\ Buckets' = Buckets
  <2>1. job' = job
    BY DEF AlgoNext, AlgoSteps, Starts, StartRaises, SendsChild, SkipsBucket, Finishes,
           CancelAlgo, BucketAnswered, DisplayAnswered, LevelAnswered, Answer, algoVars
  <2> QED BY <2>1, LimitKept
<1> SUFFICES ASSUME job.venue = "paper" \/ job.kind = "vwap"
             PROVE  /\ executed' <= Limit
                    /\ job.kind \in {"twap", "vwap"} => SharesBounded'
                    /\ job.kind \notin {"twap", "vwap"} => SliceBounded'
  BY <1>j DEF ExecutionBounded
<1>b. /\ executed <= Limit
      /\ job.kind \in {"twap", "vwap"} => SharesBounded
      /\ job.kind \notin {"twap", "vwap"} => SliceBounded
  BY DEF ExecutionBounded
<1>p. /\ job.venue = "paper" => parent.filled = executed
      /\ job.kind = "iceberg" \/ job.kind = "seek" => job.venue = "paper"
  BY DEF AlgoInv, ParentIsTrue
<1>1. CASE Starts
  <2>1. /\ at = "new" /\ at' = "head"
        /\ UNCHANGED <<bucket, child, leftover, executed>>
    BY <1>1 DEF Starts
  <2>2. job.kind \in {"twap", "vwap"} => SharesBounded'
    BY <2>1, <1>b, <1>j DEF SharesBounded
  <2>3. job.kind \notin {"twap", "vwap"} => SliceBounded'
    BY <2>1, <1>b, <1>j DEF SliceBounded
  <2> QED BY <2>1, <2>2, <2>3, <1>b
<1>2. CASE StartRaises \/ Finishes \/ CancelAlgo
  <2>1. UNCHANGED <<job, bucket, child, leftover, executed>> /\ at' = "ended"
    BY <1>2 DEF StartRaises, Finishes, CancelAlgo
  <2> QED BY <2>1, <1>b, <1>j DEF SharesBounded, SliceBounded
<1>3. CASE SendsChild
  <2>1. PICK q \in NextChild : q > 0 /\ child' = q
    BY <1>3 DEF SendsChild
  <2>2. /\ at = "head" /\ at' = "sent" /\ q \in Int
        /\ UNCHANGED <<bucket, leftover, executed>>
    BY <1>3, <2>1, ChildIsInt DEF SendsChild, AlgoInv
  <2>3. ASSUME job.kind \in {"twap", "vwap"} PROVE SharesBounded'
    <3>1. bucket < Buckets /\ q = BucketShare
      BY <2>1, <2>3, <1>0 DEF NextChild, AlgoInv, BucketExists
    <3>2. CASE bucket < Buckets - 1
      <4>1. Within(job, executed + q, bucket + 1)
        BY <2>2, <2>3, <3>1, <3>2, <1>b, ShareIsBounded
      <4> QED BY <1>b, <1>j, <2>1, <2>2, <2>3, <3>2, <4>1 DEF SharesBounded
    <3>3. CASE bucket = Buckets - 1
      <4>1. q = job.total - parent.filled
        BY <3>1, <3>3 DEF BucketShare, Left
      <4>2. executed + q <= Limit
        <5>1. CASE job.venue = "paper"
          BY <4>1, <5>1, <1>0, <1>p, LimitTypes
        <5>2. CASE job.venue = "live"
          <6>1. Within(job, executed + leftover, bucket) /\ bucket \in 0 .. Buckets - 1
            BY <1>0, <1>b, <2>2, <2>3, <3>1 DEF SharesBounded
          <6>2. executed + leftover <= job.total + (Buckets - 1) \div 2
            BY <1>0, <6>1, WithinLimit
          <6>3. executed + leftover <= job.total + RoundingMargin /\ RoundingMargin \in Nat
            BY <1>0, <2>3, <6>2, LimitTypes
          <6> QED BY <1>0, <4>1, <5>2, <6>3, LimitTypes
        <5> QED BY <5>1, <5>2, <1>0, JobTypes
      <4> QED BY <1>0, <1>b, <1>j, <2>1, <2>2, <2>3, <3>3, <4>2 DEF SharesBounded
    <3> QED BY <1>0, <3>1, <3>2, <3>3
  <2>4. ASSUME job.kind \notin {"twap", "vwap"} PROVE SliceBounded'
    <3>1. Left = job.total - executed /\ Left \in Int /\ job.slice \in Nat
      BY <1>0, <1>p, <2>4, JobTypes DEF Left
    <3>2. CASE job.kind = "iceberg"
      <4>1. PICK d \in -job.jitter .. job.jitter :
               q = Smaller(Smaller(job.slice, Left) + d, Left)
        BY <2>1, <3>2 DEF NextChild
      <4>2. q <= Left
        BY <4>1, <3>1, <1>0, JobTypes DEF Smaller
      <4> QED BY <1>0, <1>j, <2>1, <2>2, <3>1, <3>2, <4>2 DEF SliceBounded
    <3>3. CASE job.kind = "seek"
      <4>1. q = IF bucket = 0 THEN Smaller(job.slice, Left) ELSE child
        BY <2>1, <3>3 DEF NextChild
      <4>2. executed + q <= job.total
        BY <1>0, <1>b, <2>2, <2>4, <3>1, <3>3, <4>1 DEF SliceBounded, Smaller
      <4> QED BY <1>0, <1>j, <2>1, <2>2, <3>3, <4>2 DEF SliceBounded
    <3> QED BY <2>4, <3>2, <3>3, <1>0, JobTypes
  <2> QED BY <1>b, <2>2, <2>3, <2>4
<1>4. CASE SkipsBucket
  <2>1. /\ at = "head" /\ at' = "head" /\ bucket' = bucket + 1
        /\ UNCHANGED <<child, leftover, executed>> /\ job.kind \in {"twap", "vwap"}
    BY <1>4 DEF SkipsBucket
  <2>2. Within(job, executed + leftover, bucket) \/ ~(bucket < Buckets)
    BY <1>b, <2>1 DEF SharesBounded
  <2>3. bucket' < Buckets => Within(job, executed + leftover, bucket + 1)
    <3>1. bucket + 1 < Buckets => bucket \in 0 .. Buckets - 1 /\ bucket < Buckets
      BY <1>0
    <3>2. executed + leftover \in Int
      BY <1>0
    <3> QED BY <1>0, <2>1, <2>2, <3>1, <3>2, WithinNext
  <2> QED BY <1>b, <1>j, <2>1, <2>3 DEF SharesBounded
<1>5. ASSUME NEW k \in 0 .. child, NEW f \in 0 .. child, BucketAnswered(k, f)
      PROVE  executed' <= Limit /\ SharesBounded' /\ job.kind \in {"twap", "vwap"}
  <2>1. /\ job.kind \in {"twap", "vwap"} /\ at \in {"sent", "again"}
        /\ executed' = executed + k /\ (job.venue = "paper" => f = k)
    BY <1>5 DEF BucketAnswered, Answer
  <2>2. executed + child <= Limit
    BY <2>1, ChildWithinLimit
  <2>3. executed' <= Limit
    BY <1>0, <2>1, <2>2
  <2>4. bucket < Buckets
    BY <2>1 DEF AlgoInv, BucketExists
  <2>5. CASE job.kind = "twap" /\ job.again /\ at = "sent" /\ f < child
    <3>1. at' = "again" /\ child' = child - f /\ UNCHANGED <<bucket, leftover>>
      BY <1>5, <2>5 DEF BucketAnswered
    <3>2. executed' + child' = executed + child
      BY <1>0, <1>p, <2>1, <2>5, <3>1
    <3> QED BY <1>b, <1>j, <2>1, <2>3, <2>5, <3>1, <3>2 DEF SharesBounded
  <2>6. CASE ~(job.kind = "twap" /\ job.again /\ at = "sent" /\ f < child)
    <3>1. /\ at' = "head" /\ bucket' = bucket + 1
          /\ leftover' = IF job.kind = "twap" THEN child - f ELSE 0
      BY <1>5, <2>6 DEF BucketAnswered
    <3>2. executed' + leftover' <= executed + child /\ executed' + leftover' \in Int
      BY <1>0, <2>1, <3>1
    <3>3. bucket + 1 < Buckets => Within(job, executed' + leftover', bucket + 1)
      <4>1. SUFFICES ASSUME bucket + 1 < Buckets
                     PROVE  Within(job, executed' + leftover', bucket + 1)
        OBVIOUS
      <4>2. Within(job, executed + child, bucket + 1)
        BY <1>0, <1>b, <2>1, <4>1 DEF SharesBounded
      <4>3. bucket + 1 \in 0 .. Buckets /\ executed + child \in Int
        BY <1>0, <4>1
      <4> QED BY <1>0, <3>2, <4>2, <4>3, WithinSmaller
    <3> QED BY <1>j, <2>1, <2>3, <3>1, <3>3 DEF SharesBounded
  <2> QED BY <2>5, <2>6
<1>6. ASSUME NEW k \in 0 .. child, NEW f \in 0 .. child, DisplayAnswered(k, f)
      PROVE  executed' <= Limit /\ SliceBounded' /\ job.kind = "iceberg"
  <2>1. /\ job.kind = "iceberg" /\ at \in {"sent", "again"} /\ executed' = executed + k
        /\ at' \in {"ended", "head"}
    BY <1>6 DEF DisplayAnswered, Answer
  <2>2. executed + child <= Limit
    BY <2>1, ChildWithinLimit
  <2> QED BY <1>0, <1>j, <2>1, <2>2 DEF SliceBounded
<1>7. ASSUME NEW k \in 0 .. child, NEW f \in 0 .. child, LevelAnswered(k, f)
      PROVE  executed' <= Limit /\ SliceBounded' /\ job.kind = "seek"
  <2>1. /\ job.kind = "seek" /\ at \in {"sent", "again"} /\ executed' = executed + k
        /\ (job.venue = "paper" => f = k) /\ at' = "head" /\ child' = child - f
    BY <1>7 DEF LevelAnswered, Answer
  <2>2. executed + child <= Limit
    BY <2>1, ChildWithinLimit
  <2>3. executed + child <= job.total
    BY <1>b, <2>1 DEF SliceBounded
  <2>4. executed' + child' = executed + child
    BY <1>0, <1>p, <2>1
  <2> QED BY <1>0, <1>j, <2>1, <2>2, <2>3, <2>4 DEF SliceBounded
<1>8. CASE UNCHANGED algoVars
  BY <1>8, <1>b, <1>j DEF algoVars, SharesBounded, SliceBounded
<1> QED BY <1>1, <1>2, <1>3, <1>4, <1>5, <1>6, <1>7, <1>8, <1>b DEF AlgoNext, AlgoSteps

LEMMA AlgoBounded == AlgoSpec => []ExecutionBounded
<1> QED BY AlgoInvariant, BoundedInit, BoundedStep, PTL DEF AlgoSpec

-----------------------------------------------------------------------------
(* The theorems.                                                           *)

\* The types hold of any parent order: every child of twap, vwap, iceberg and
\* liquidity_seek asks for a whole number of units, and never for a share of
\* a bucket that does not exist.
THEOREM AlgoTypeCorrect == AlgoSpec => []AlgoTypeOK
<1>1. AlgoInv => AlgoTypeOK
  BY DEF AlgoInv
<1> QED BY <1>1, AlgoInvariant, PTL

\* ParentOrder.filled_qty is what the children executed at the paper venue and
\* no more than that at the live one, and FILLED is said of a parent only when
\* its whole quantity was executed, whenever the algorithm ends, gives up,
\* raises or is cancelled.
THEOREM AlgoParentIsTrue == AlgoSpec => []ParentIsTrue
<1>1. AlgoInv => ParentIsTrue
  BY DEF AlgoInv
<1> QED BY <1>1, AlgoInvariant, PTL

\* At the paper venue no algorithm executes more than its parent order, but
\* for the half units by which the shares of twap and vwap are rounded up: a
\* seventh of eleven is sent as two, six times, before the last bucket takes
\* what is left.  At the live venue vwap, which is told of nothing, executes at
\* most the order twice.  For any order, weights and rounding.
THEOREM AlgoExecutesWhatItSays == AlgoSpec => []ExecutesWhatItSays
<1>1. AlgoInv /\ ExecutionBounded => ExecutesWhatItSays
  <2> SUFFICES ASSUME AlgoInv, ExecutionBounded PROVE ExecutesWhatItSays
    OBVIOUS
  <2>1. ParentIsTrue /\ (job.venue = "paper" \/ job.kind = "vwap" => executed <= Limit)
    BY DEF AlgoInv, ExecutionBounded
  <2> QED BY <2>1 DEF ExecutesWhatItSays, Limit
<1> QED BY <1>1, AlgoInvariant, AlgoBounded, PTL
=============================================================================

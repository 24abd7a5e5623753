------------------------- MODULE KanbanFleet_proofs -------------------------
(***************************************************************************)
(* Proofs about KanbanFleet for any number of loops, processes, alerts,    *)
(* stages, tasks and faults.                                               *)
(***************************************************************************)
EXTENDS KanbanFleet, FiniteSetTheorems, TLAPS

\* A loop past the SELECT of claim_task has the id of an inserted row in hand,
\* and a row not inserted yet has no failures: what typing needs.
Holding(w) == pc[w] \in {"update", "run", "complete", "fail_read", "fail_write"}

HandInv ==
    /\ \A w \in Workers :
          Holding(w) => cand[w] \in Tasks /\ status[cand[w]] # "absent"
    /\ \A t \in Tasks : status[t] = "absent" => failures[t] = 0

\* By the count the row keeps, which a lost update may lower, a task past its
\* limit is not offered.
OfferedBelowLimit ==
    \A t \in Tasks :
        status[t] \in {"todo", "in_progress"} => failures[t] < FailureLimit

IInv == TypeOK /\ HandInv /\ OfferedBelowLimit

LEMMA InitIInv == Init => IInv
  <1> SUFFICES ASSUME Init PROVE IInv
    OBVIOUS
  <1> USE BoardAssumption, FleetAssumption DEF BoardAssumption, FleetAssumption
  <1>1. (CHOOSE a \in Alerts : TRUE) \in Alerts
    OBVIOUS
  <1>2. 1 \in Stages /\ 0 \in 0 .. MaxFaults
    BY DEF Stages
  <1>3. BoardTypeOK
    BY <1>1, <1>2 DEF Init, BoardInit, BoardTypeOK, Status, Beat
  <1>4. TypeOK
    BY <1>2, <1>3 DEF Init, TypeOK, PCs
  <1>5. HandInv /\ OfferedBelowLimit
    BY DEF Init, BoardInit, HandInv, Holding, OfferedBelowLimit
  <1> QED
    BY <1>4, <1>5 DEF IInv

\* A fault keeps the count within its bound and its kind on record.
LEMMA FaultType ==
    ASSUME TypeOK, NEW kind, Fault(kind)
    PROVE  faults' \in 0 .. MaxFaults /\ harm' \subseteq FaultKinds
  <1>1. MaxFaults \in Nat /\ faults \in 0 .. MaxFaults /\ harm \subseteq FaultKinds
    BY FleetAssumption DEF TypeOK, FleetAssumption
  <1>2. /\ kind \in FaultKinds /\ faults < MaxFaults
        /\ faults' = faults + 1 /\ harm' = harm \cup {kind}
    BY DEF Fault
  <1> QED
    BY <1>1, <1>2

\* create_task preserves what is known of the rows.
LEMMA CreateTaskRows ==
    ASSUME IInv, NEW s \in Stages, NEW a \in Alerts, CreateTask(s, a)
    PROVE  /\ BoardTypeOK'
           /\ OfferedBelowLimit'
           /\ \A t \in Tasks : status'[t] = "absent" => failures'[t] = 0
           /\ \A t \in Tasks : status[t] # "absent" => status'[t] # "absent"
  <1>1. PICK t \in Tasks :
            /\ status[t] = "absent"
            /\ status' = [status EXCEPT ![t] = "todo"]
            /\ stage' = [stage EXCEPT ![t] = s]
            /\ origin' = [origin EXCEPT ![t] = a]
            /\ UNCHANGED <<owner, hb, failures>>
    BY DEF CreateTask, IsNextId
  <1>2. FailureLimit \in Nat \ {0}
    BY BoardAssumption DEF BoardAssumption
  <1>3. BoardTypeOK'
    BY <1>1 DEF IInv, TypeOK, BoardTypeOK, Status
  <1> QED
    BY <1>1, <1>2, <1>3
       DEF IInv, TypeOK, BoardTypeOK, HandInv, OfferedBelowLimit

\* The loop goes on to a profile that exists.
LEMMA NextProfileTypes ==
    ASSUME TypeOK, NEW w \in Workers, NextProfile(w)
    PROVE  /\ pc' \in [Workers -> PCs]
           /\ idx' \in [Workers -> Stages]
           /\ cand' \in [Workers -> Tasks \cup {0}]
           /\ seen' \in [Workers -> Nat]
           /\ beats' \in [Workers -> BOOLEAN]
           /\ ~Holding(w)'
           /\ \A v \in Workers \ {w} : pc'[v] = pc[v] /\ cand'[v] = cand[v]
  BY BoardAssumption
     DEF NextProfile, Release, Goto, TypeOK, PCs, Stages, Holding, BoardAssumption

LEMMA NextIInv == IInv /\ [Next]_vars => IInv'
  <1> SUFFICES ASSUME IInv, [Next]_vars PROVE IInv'
    OBVIOUS
  <1> USE BoardAssumption, FleetAssumption DEF BoardAssumption, FleetAssumption
  <1> USE DEF IInv, HandInv, faultVars
  <1>1. ASSUME NEW p \in Processes, NEW a \in Alerts, SubmitAlert(p, a)
        PROVE  IInv'
    <2>1. 1 \in Stages
      BY DEF Stages
    <2>2. BoardTypeOK' /\ OfferedBelowLimit' /\ HandInv'
      BY <1>1, <2>1, CreateTaskRows DEF SubmitAlert, loopVars, Holding, TypeOK
    <2> QED
      BY <1>1, <2>2 DEF SubmitAlert, loopVars, TypeOK
  <1>2. ASSUME NEW w \in Workers, ReclaimStaleTasks(w)
        PROVE  IInv'
    BY <1>2 DEF ReclaimStaleTasks, ReclaimUpdate, IsStale, Goto, historyVars,
                TypeOK, BoardTypeOK, Holding, OfferedBelowLimit, PCs, Status
  <1>3. ASSUME NEW w \in Workers, ClaimSelect(w)
        PROVE  IInv'
    <2>1. CASE NextProfile(w)
      BY <1>3, <2>1, NextProfileTypes
         DEF ClaimSelect, boardVars, historyVars, TypeOK, BoardTypeOK, Holding,
             OfferedBelowLimit
    <2>2. ASSUME NEW t \in Tasks, IsBestCandidate(idx[w], t),
                 cand' = [cand EXCEPT ![w] = t], Goto(w, "update"),
                 UNCHANGED <<idx, seen, beats>>
          PROVE  IInv'
      BY <1>3, <2>2
         DEF ClaimSelect, boardVars, historyVars, IsBestCandidate, Candidates,
             Goto, TypeOK, BoardTypeOK, Holding, OfferedBelowLimit, PCs
    <2> QED
      BY <1>3, <2>1, <2>2 DEF ClaimSelect
  <1>4. ASSUME NEW w \in Workers, Claim(w)
        PROVE  IInv'
    BY <1>4 DEF Claim, ClaimUpdate, Goto, historyVars, TypeOK, BoardTypeOK,
                Holding, OfferedBelowLimit, PCs, Status, Beat
  <1>5. ASSUME NEW w \in Workers, Heartbeat(w) \/ HeartbeatRaises(w)
        PROVE  IInv'
    <2>1. CASE Heartbeat(w)
      BY <2>1 DEF Heartbeat, HeartbeatUpdate, loopVars, historyVars, TypeOK,
                  BoardTypeOK, Holding, OfferedBelowLimit, Beat
    <2>2. CASE HeartbeatRaises(w)
      <3>1. faults' \in 0 .. MaxFaults /\ harm' \subseteq FaultKinds
        BY <2>2, FaultType DEF HeartbeatRaises
      <3>2. beats' \in [Workers -> BOOLEAN]
        BY <2>2 DEF HeartbeatRaises, TypeOK
      <3>3. UNCHANGED <<boardVars, pc, idx, cand, seen, historyVars>>
        BY <2>2 DEF HeartbeatRaises
      <3> QED
        BY <3>1, <3>2, <3>3 DEF boardVars, historyVars, TypeOK, BoardTypeOK,
                                Holding, OfferedBelowLimit
    <2> QED
      BY <1>5, <2>1, <2>2
  <1>6. ASSUME NEW w \in Workers, RunStage(w)
        PROVE  IInv'
    <2>1. cand[w] \in Tasks
      BY <1>6 DEF RunStage, Holding
    <2>2. /\ ran' \in [Tasks -> Nat]
          /\ UNCHANGED <<idx, cand, seen, beats, submitted, failCalls, faultVars>>
          /\ Goto(w, "complete")
      BY <1>6, <2>1 DEF RunStage, TypeOK
    <2>3. CASE stage[cand[w]] = NStages
      BY <1>6, <2>1, <2>2, <2>3
         DEF RunStage, boardVars, Goto, TypeOK, BoardTypeOK, Holding,
             OfferedBelowLimit, PCs
    <2>4. CASE stage[cand[w]] # NStages
      <3>1. stage[cand[w]] + 1 \in Stages /\ origin[cand[w]] \in Alerts
        BY <2>1, <2>4 DEF TypeOK, BoardTypeOK, Stages
      <3>2. CreateTask(stage[cand[w]] + 1, origin[cand[w]])
        BY <1>6, <2>4 DEF RunStage
      <3>3. /\ BoardTypeOK' /\ OfferedBelowLimit'
            /\ \A t \in Tasks : status'[t] = "absent" => failures'[t] = 0
            /\ \A t \in Tasks : status[t] # "absent" => status'[t] # "absent"
        BY <3>1, <3>2, CreateTaskRows
      <3> QED
        BY <1>6, <2>1, <2>2, <3>3 DEF RunStage, Goto, TypeOK, Holding, PCs
    <2> QED
      BY <2>3, <2>4
  <1>7. ASSUME NEW w \in Workers, RunnerRaises(w) \/ CompleteRaises(w)
        PROVE  IInv'
    <2>1. faults' \in 0 .. MaxFaults /\ harm' \subseteq FaultKinds
      BY <1>7, FaultType DEF RunnerRaises, CompleteRaises, TypeOK
    <2>2. /\ Goto(w, "complete") \/ Goto(w, "fail_read")
          /\ pc[w] \in {"run", "complete"}
          /\ UNCHANGED <<boardVars, idx, cand, seen, beats, historyVars>>
      BY <1>7 DEF RunnerRaises, CompleteRaises
    <2> QED
      BY <2>1, <2>2 DEF boardVars, historyVars, Goto, TypeOK, BoardTypeOK,
                        Holding, OfferedBelowLimit, PCs
  <1>8. ASSUME NEW w \in Workers, CompleteTask(w)
        PROVE  IInv'
    <2>1. CompleteUpdate(cand[w]) /\ UNCHANGED <<historyVars, faultVars>>
      BY <1>8 DEF CompleteTask
    <2> QED
      BY <1>8, <2>1, NextProfileTypes
         DEF CompleteTask, CompleteUpdate, historyVars, TypeOK, BoardTypeOK,
             Holding, OfferedBelowLimit, Status
  <1>9. ASSUME NEW w \in Workers, FailTaskRead(w)
        PROVE  IInv'
    BY <1>9 DEF FailTaskRead, boardVars, historyVars, Goto, TypeOK, BoardTypeOK,
                Holding, OfferedBelowLimit, PCs
  <1>10. ASSUME NEW w \in Workers, FailTaskWrite(w)
         PROVE  IInv'
    <2>1. cand[w] \in Tasks /\ seen[w] \in Nat
      BY <1>10 DEF FailTaskWrite, Holding, TypeOK
    <2>2. /\ FailUpdate(cand[w], seen[w])
          /\ failCalls' = [failCalls EXCEPT ![cand[w]] = @ + 1]
          /\ UNCHANGED <<submitted, ran, faultVars>>
      BY <1>10 DEF FailTaskWrite
    <2>3. /\ BoardTypeOK' /\ OfferedBelowLimit'
          /\ \A t \in Tasks : status'[t] = "absent" => failures'[t] = 0
          /\ \A t \in Tasks : status[t] # "absent" => status'[t] # "absent"
      BY <2>1, <2>2
         DEF FailUpdate, TypeOK, BoardTypeOK, OfferedBelowLimit, Status
    <2> QED
      BY <1>10, <2>1, <2>2, <2>3, NextProfileTypes
         DEF FailTaskWrite, TypeOK, Holding
  <1>11. ASSUME NEW w \in Workers, TickRaises(w) \/ Start(w)
         PROVE  IInv'
    <2>1. CASE TickRaises(w)
      <3>1. faults' \in 0 .. MaxFaults /\ harm' \subseteq FaultKinds
        BY <2>1, FaultType DEF TickRaises
      <3>2. /\ pc' \in [Workers -> PCs] /\ idx' \in [Workers -> Stages]
            /\ cand' \in [Workers -> Tasks \cup {0}] /\ seen' \in [Workers -> Nat]
            /\ beats' \in [Workers -> BOOLEAN]
        BY <2>1 DEF TickRaises, Release, Goto, TypeOK, PCs, Stages
      <3>3. UNCHANGED <<boardVars, historyVars>>
        BY <2>1 DEF TickRaises
      <3>4. \A v \in Workers : Holding(v)' => Holding(v) /\ cand'[v] = cand[v]
        BY <2>1 DEF TickRaises, Release, Goto, TypeOK, Holding
      <3> QED
        BY <3>1, <3>2, <3>3, <3>4
           DEF boardVars, historyVars, TypeOK, BoardTypeOK, OfferedBelowLimit
    <2>2. CASE Start(w)
      BY <2>2 DEF Start, boardVars, historyVars, Goto, TypeOK, BoardTypeOK,
                  Holding, OfferedBelowLimit, PCs
    <2> QED
      BY <1>11, <2>1, <2>2
  <1>12. ASSUME NEW t \in Tasks, HeartbeatExpires(t)
         PROVE  IInv'
    <2>1. faults' \in 0 .. MaxFaults /\ harm' \subseteq FaultKinds
      BY <1>12, FaultType DEF HeartbeatExpires, TypeOK
    <2>2. /\ hb' = [hb EXCEPT ![t] = "stale"]
          /\ UNCHANGED <<status, owner, failures, stage, origin, loopVars,
                         historyVars>>
      BY <1>12 DEF HeartbeatExpires
    <2> QED
      BY <2>1, <2>2 DEF loopVars, historyVars, TypeOK, BoardTypeOK, Holding,
                        OfferedBelowLimit, Beat
  <1>13. ASSUME NEW p \in Processes, Crash(p)
         PROVE  IInv'
    BY <1>13 DEF Crash, Fault, boardVars, historyVars, TypeOK, BoardTypeOK,
                 Holding, OfferedBelowLimit, PCs, Stages
  <1>14. ASSUME NEW p \in Processes, NEW t \in Tasks, BlockTask(p, t)
         PROVE  IInv'
    BY <1>14 DEF BlockTask, BlockUpdate, Fault, loopVars, historyVars, TypeOK,
                 BoardTypeOK, Holding, OfferedBelowLimit, Status
  <1>15. CASE UNCHANGED vars
    BY <1>15 DEF vars, boardVars, TypeOK, BoardTypeOK, Holding,
                 OfferedBelowLimit
  <1> QED
    BY <1>1, <1>2, <1>3, <1>4, <1>5, <1>6, <1>7, <1>8, <1>9, <1>10, <1>11,
       <1>12, <1>13, <1>14, <1>15 DEF Next, LoopStep

\* Every variable keeps its type: no loop leaves the profiles it has, and none
\* writes to a row it has not selected.
THEOREM FleetTypeCorrect == Spec => []TypeOK
  <1>1. IInv => TypeOK
    BY DEF IInv
  <1> QED
    BY <1>1, InitIInv, NextIInv, PTL DEF Spec

-----------------------------------------------------------------------------
(***************************************************************************)
(* Exclusive leases.  All loops share the lock of one board object, and    *)
(* nothing worse than a crash has happened.                                *)
(***************************************************************************)
SingleProcess == \A v, w \in Workers : ProcessOf[v] = ProcessOf[w]

\* Why a lease is never taken away: the row selected under the lock is still
\* todo, the heartbeat of a running task is fresh because its thread lives, and
\* only one loop is between two statements.
LeaseInv ==
    /\ \A w \in Workers : pc[w] = "update" => status[cand[w]] = "todo"
    /\ \A w \in Workers :
          Working(w) => /\ beats[w]
                        /\ status[cand[w]] = "in_progress"
                        /\ owner[cand[w]] = w
                        /\ hb[cand[w]] = "fresh"
    /\ \A v, w \in Workers : HoldsLock(v) /\ HoldsLock(w) => v = w

LEMMA LockExcludes ==
    ASSUME SingleProcess, NEW w \in Workers, MayUse(w), ~HoldsLock(w)
    PROVE  \A v \in Workers : ~HoldsLock(v)
  BY DEF SingleProcess, MayUse, LockFree

LEMMA NextLease ==
    ASSUME SingleProcess, IInv, LeaseInv, [Next]_vars, OnlyCrashes'
    PROVE  LeaseInv'
  <1> USE DEF IInv, TypeOK, BoardTypeOK, HandInv, Holding, LeaseInv, Working,
              HoldsLock
  <1>1. ASSUME NEW p \in Processes, NEW a \in Alerts, SubmitAlert(p, a)
        PROVE  LeaseInv'
    BY <1>1 DEF SubmitAlert, CreateTask, IsNextId, loopVars
  <1>2. ASSUME NEW w \in Workers, ReclaimStaleTasks(w)
        PROVE  LeaseInv'
    <2>1. \A v \in Workers : ~HoldsLock(v)
      BY <1>2, LockExcludes DEF ReclaimStaleTasks
    <2> QED
      BY <1>2, <2>1 DEF ReclaimStaleTasks, ReclaimUpdate, IsStale, Goto
  <1>3. ASSUME NEW w \in Workers, ClaimSelect(w)
        PROVE  LeaseInv'
    <2>1. \A v \in Workers : ~HoldsLock(v)
      BY <1>3, LockExcludes DEF ClaimSelect
    <2>2. CASE NextProfile(w)
      BY <1>3, <2>1, <2>2 DEF ClaimSelect, NextProfile, Release, Goto, boardVars
    <2>3. ASSUME NEW t \in Tasks, IsBestCandidate(idx[w], t),
                 cand' = [cand EXCEPT ![w] = t], Goto(w, "update"),
                 UNCHANGED <<idx, seen, beats>>
          PROVE  LeaseInv'
      BY <1>3, <2>1, <2>3
         DEF ClaimSelect, IsBestCandidate, Candidates, Goto, boardVars
    <2> QED
      BY <1>3, <2>2, <2>3 DEF ClaimSelect
  <1>4. ASSUME NEW w \in Workers, Claim(w)
        PROVE  LeaseInv'
    <2>1. status[cand[w]] = "todo" /\ cand[w] \in Tasks
      BY <1>4 DEF Claim
    <2>2. \A v \in Workers \ {w} :
             /\ ~HoldsLock(v)
             /\ Working(v) => cand[v] # cand[w] /\ cand[v] \in Tasks
      BY <1>4, <2>1 DEF Claim
    <2> QED
      BY <1>4, <2>1, <2>2 DEF Claim, ClaimUpdate, Goto
  <1>5. ASSUME NEW w \in Workers, Heartbeat(w)
        PROVE  LeaseInv'
    BY <1>5 DEF Heartbeat, HeartbeatUpdate, loopVars
  <1>6. ASSUME NEW w \in Workers, RunStage(w)
        PROVE  LeaseInv'
    <2>1. CASE UNCHANGED boardVars
      BY <1>6, <2>1 DEF RunStage, Goto, boardVars
    <2>2. CASE CreateTask(stage[cand[w]] + 1, origin[cand[w]])
      <3>1. \A t \in Tasks : status[t] # "absent" => status'[t] = status[t]
        BY <2>2 DEF CreateTask, IsNextId
      <3> QED
        BY <1>6, <2>2, <3>1 DEF RunStage, CreateTask, Goto
    <2> QED
      BY <1>6, <2>1, <2>2 DEF RunStage
  <1>7. ASSUME NEW w \in Workers, RunnerRaises(w) \/ FailTaskRead(w)
        PROVE  LeaseInv'
    <2>1. CASE RunnerRaises(w)
      BY <2>1 DEF RunnerRaises, Goto, boardVars
    <2>2. CASE FailTaskRead(w)
      <3>1. \A v \in Workers : ~HoldsLock(v)
        BY <2>2, LockExcludes DEF FailTaskRead
      <3> QED
        BY <2>2, <3>1 DEF FailTaskRead, Goto, boardVars
    <2> QED
      BY <1>7, <2>1, <2>2
  <1>8. ASSUME NEW w \in Workers, CompleteTask(w)
        PROVE  LeaseInv'
    <2>1. \A v \in Workers : ~HoldsLock(v)
      BY <1>8, LockExcludes DEF CompleteTask
    <2>2. \A v \in Workers \ {w} : Working(v) => cand[v] # cand[w]
      BY <1>8 DEF CompleteTask
    <2> QED
      BY <1>8, <2>1, <2>2
         DEF CompleteTask, CompleteUpdate, NextProfile, Release, Goto
  <1>9. ASSUME NEW w \in Workers, FailTaskWrite(w)
        PROVE  LeaseInv'
    <2>1. \A v \in Workers \ {w} : ~HoldsLock(v)
      BY <1>9 DEF FailTaskWrite
    <2>2. \A v \in Workers \ {w} : Working(v) => cand[v] # cand[w]
      BY <1>9 DEF FailTaskWrite
    <2> QED
      BY <1>9, <2>1, <2>2
         DEF FailTaskWrite, FailUpdate, NextProfile, Release, Goto
  <1>10. ASSUME NEW w \in Workers, Start(w)
         PROVE  LeaseInv'
    BY <1>10 DEF Start, Goto, boardVars
  <1>11. ASSUME NEW t \in Tasks, HeartbeatExpires(t)
         PROVE  LeaseInv'
    <2>1. ~Beating(t)
      BY <1>11 DEF HeartbeatExpires, Fault, OnlyCrashes
    <2>2. \A w \in Workers : Working(w) => cand[w] # t
      BY <2>1 DEF Beating
    <2> QED
      BY <1>11, <2>2 DEF HeartbeatExpires, loopVars
  <1>12. ASSUME NEW p \in Processes, Crash(p)
         PROVE  LeaseInv'
    BY <1>12 DEF Crash, boardVars
  <1>13. ASSUME NEW w \in Workers,
                HeartbeatRaises(w) \/ CompleteRaises(w) \/ TickRaises(w)
         PROVE  FALSE
    BY <1>13 DEF HeartbeatRaises, CompleteRaises, TickRaises, Fault, OnlyCrashes
  <1>14. ASSUME NEW p \in Processes, NEW t \in Tasks, BlockTask(p, t)
         PROVE  FALSE
    BY <1>14 DEF BlockTask, Fault, OnlyCrashes
  <1>15. CASE UNCHANGED vars
    BY <1>15 DEF vars, boardVars
  <1> QED
    BY <1>1, <1>2, <1>3, <1>4, <1>5, <1>6, <1>7, <1>8, <1>9, <1>10, <1>11,
       <1>12, <1>13, <1>14, <1>15 DEF Next, LoopStep

\* What has gone wrong stays on record.
LEMMA HarmGrows == ASSUME [Next]_vars PROVE harm \subseteq harm'
  BY DEF Next, vars, faultVars, Fault, LoopStep, SubmitAlert, ReclaimStaleTasks,
         ClaimSelect, Claim, Heartbeat, HeartbeatRaises, RunStage, RunnerRaises,
         CompleteTask, CompleteRaises, FailTaskRead, FailTaskWrite, TickRaises,
         HeartbeatExpires, Crash, Start, BlockTask

\* In one process that at worst has died, a loop works on a task only while it
\* owns the in_progress row: claim_task is atomic, reclaim takes nothing from a
\* live worker.
THEOREM FleetLease ==
    ASSUME SingleProcess
    PROVE  Spec => []HasLease
  <1> DEFINE Kept == OnlyCrashes => LeaseInv
  <1>1. Init => Kept
    BY DEF Init, LeaseInv, Working, HoldsLock
  <1>2. IInv /\ Kept /\ [Next]_vars => Kept'
    <2> SUFFICES ASSUME IInv, Kept, [Next]_vars, OnlyCrashes' PROVE LeaseInv'
      OBVIOUS
    <2>1. OnlyCrashes
      BY HarmGrows DEF OnlyCrashes
    <2> QED
      BY <2>1, NextLease
  <1>3. Kept => HasLease
    BY DEF LeaseInv, HasLease
  <1> HIDE DEF Kept
  <1> QED
    BY <1>1, <1>2, <1>3, InitIInv, NextIInv, PTL DEF Spec

\* Under the same assumption no task is run by two loops at a time.
THEOREM FleetSingleRunner ==
    ASSUME SingleProcess
    PROVE  Spec => []SingleRunner
  <1>1. HasLease => SingleRunner
    BY DEF HasLease, SingleRunner
  <1> QED
    BY <1>1, FleetLease, PTL

-----------------------------------------------------------------------------
(***************************************************************************)
(* Counting failures.  Unlike a lease this survives every fault: whatever  *)
(* raises or dies lets go of the lock and of the count it has read.        *)
(***************************************************************************)
CountInv ==
    /\ NoLostFailure
    /\ \A v, w \in Workers : HoldsLock(v) /\ HoldsLock(w) => v = w
    /\ \A w \in Workers : pc[w] = "fail_write" => seen[w] = failures[cand[w]]

\* A step that counts nothing keeps the counts if whoever holds the lock after
\* it held it before.
LEMMA CountKept ==
    ASSUME CountInv, UNCHANGED <<failures, failCalls>>,
           \A w \in Workers : HoldsLock(w)' => HoldsLock(w),
           \A w \in Workers : pc'[w] = "fail_write" =>
               pc[w] = "fail_write" /\ seen'[w] = seen[w] /\ cand'[w] = cand[w]
    PROVE  CountInv'
  BY DEF CountInv, NoLostFailure

\* A step of one loop that goes elsewhere than between two statements.
LEMMA CountLoopStep ==
    ASSUME TypeOK, CountInv, UNCHANGED <<failures, failCalls>>, NEW w \in Workers,
           pc'[w] \notin {"update", "fail_write"},
           \A v \in Workers \ {w} :
               pc'[v] = pc[v] /\ seen'[v] = seen[v] /\ cand'[v] = cand[v]
    PROVE  CountInv'
  BY CountKept DEF HoldsLock

\* NextProfile is such a step.
LEMMA NextProfileGoesOn ==
    ASSUME TypeOK, NEW w \in Workers, NextProfile(w)
    PROVE  /\ pc'[w] \in {"select", "reclaim"}
           /\ \A v \in Workers \ {w} :
                 pc'[v] = pc[v] /\ seen'[v] = seen[v] /\ cand'[v] = cand[v]
  BY DEF NextProfile, Release, Goto, TypeOK

LEMMA NextCount ==
    ASSUME SingleProcess, IInv, CountInv, [Next]_vars
    PROVE  CountInv'
  <1> USE DEF IInv, TypeOK, HandInv, Holding
  <1>1. ASSUME NEW p \in Processes, NEW a \in Alerts, SubmitAlert(p, a)
        PROVE  CountInv'
    BY <1>1, CountKept DEF SubmitAlert, CreateTask, loopVars, HoldsLock
  <1>2. ASSUME NEW w \in Workers,
               ReclaimStaleTasks(w) \/ Claim(w) \/ RunStage(w) \/ RunnerRaises(w)
                 \/ CompleteRaises(w) \/ TickRaises(w) \/ Start(w)
        PROVE  CountInv'
    <2>1. UNCHANGED <<failures, failCalls>>
      BY <1>2 DEF ReclaimStaleTasks, ReclaimUpdate, Claim, ClaimUpdate, RunStage,
                  CreateTask, RunnerRaises, CompleteRaises, TickRaises, Start,
                  boardVars, historyVars
    <2>2. /\ pc'[w] \notin {"update", "fail_write"}
          /\ \A v \in Workers \ {w} :
                pc'[v] = pc[v] /\ seen'[v] = seen[v] /\ cand'[v] = cand[v]
      BY <1>2 DEF ReclaimStaleTasks, Claim, RunStage, RunnerRaises, CompleteRaises,
                  TickRaises, Start, Goto, Release
    <2> QED
      BY <2>1, <2>2, CountLoopStep
  <1>3. ASSUME NEW w \in Workers, CompleteTask(w)
        PROVE  CountInv'
    <2>1. UNCHANGED <<failures, failCalls>>
      BY <1>3 DEF CompleteTask, CompleteUpdate, historyVars
    <2>2. NextProfile(w)
      BY <1>3 DEF CompleteTask
    <2> QED
      BY <2>1, <2>2, NextProfileGoesOn, CountLoopStep
  <1>4. ASSUME NEW w \in Workers, ClaimSelect(w)
        PROVE  CountInv'
    <2>1. UNCHANGED <<failures, failCalls>> /\ \A v \in Workers : ~HoldsLock(v)
      BY <1>4, LockExcludes DEF ClaimSelect, boardVars, historyVars, HoldsLock
    <2>2. CASE NextProfile(w)
      BY <2>1, <2>2, NextProfileGoesOn, CountLoopStep
    <2>3. CASE Goto(w, "update")
      <3>1. \A v \in Workers : pc'[v] # "fail_write" /\ (HoldsLock(v)' => v = w)
        BY <2>1, <2>3 DEF Goto, HoldsLock
      <3> QED
        BY <2>1, <3>1 DEF CountInv, NoLostFailure
    <2> QED
      BY <1>4, <2>2, <2>3 DEF ClaimSelect
  <1>5. ASSUME NEW w \in Workers, Heartbeat(w) \/ HeartbeatRaises(w)
        PROVE  CountInv'
    BY <1>5, CountKept DEF Heartbeat, HeartbeatUpdate, HeartbeatRaises, boardVars,
                           loopVars, historyVars, HoldsLock
  <1>6. ASSUME NEW w \in Workers, FailTaskRead(w)
        PROVE  CountInv'
    <2>1. \A v \in Workers : ~HoldsLock(v)
      BY <1>6, LockExcludes DEF FailTaskRead, HoldsLock
    <2>2. \A v \in Workers : HoldsLock(v)' => v = w
      BY <1>6, <2>1 DEF FailTaskRead, Goto, HoldsLock
    <2>3. seen'[w] = failures[cand[w]] /\ UNCHANGED <<cand, failures, failCalls>>
      BY <1>6 DEF FailTaskRead, boardVars, historyVars
    <2> QED
      BY <2>2, <2>3 DEF CountInv, NoLostFailure, HoldsLock
  <1>7. ASSUME NEW w \in Workers, FailTaskWrite(w)
        PROVE  CountInv'
    <2>1. /\ cand[w] \in Tasks /\ seen[w] = failures[cand[w]]
          /\ \A v \in Workers \ {w} : ~HoldsLock(v)
      BY <1>7 DEF FailTaskWrite, CountInv, HoldsLock
    <2>2. NextProfile(w)
      BY <1>7 DEF FailTaskWrite
    <2>3. failures' = [failures EXCEPT ![cand[w]] = failures[cand[w]] + 1]
          /\ failCalls' = [failCalls EXCEPT ![cand[w]] = failCalls[cand[w]] + 1]
      BY <1>7, <2>1 DEF FailTaskWrite, FailUpdate
    <2>4. NoLostFailure'
      BY <2>3 DEF CountInv, NoLostFailure
    <2>5. \A v \in Workers : ~HoldsLock(v)'
      BY <2>1, <2>2, NextProfileGoesOn DEF HoldsLock
    <2> QED
      BY <2>4, <2>5 DEF CountInv, HoldsLock
  <1>8. ASSUME NEW t \in Tasks, HeartbeatExpires(t)
        PROVE  CountInv'
    BY <1>8, CountKept DEF HeartbeatExpires, loopVars, historyVars, HoldsLock
  <1>9. ASSUME NEW p \in Processes, Crash(p)
        PROVE  CountInv'
    BY <1>9, CountKept DEF Crash, boardVars, historyVars, HoldsLock
  <1>10. ASSUME NEW p \in Processes, NEW t \in Tasks, BlockTask(p, t)
         PROVE  CountInv'
    BY <1>10, CountKept DEF BlockTask, BlockUpdate, loopVars, historyVars, HoldsLock
  <1>11. CASE UNCHANGED vars
    BY <1>11, CountKept DEF vars, boardVars, HoldsLock
  <1> QED
    BY <1>1, <1>2, <1>3, <1>4, <1>5, <1>6, <1>7, <1>8, <1>9, <1>10, <1>11
       DEF Next, LoopStep

\* In one process failure_count is the number of failures recorded, whatever
\* raises, stalls or dies: the two statements of fail_task are one under the
\* lock of the board.
THEOREM FleetNoLostFailure ==
    ASSUME SingleProcess
    PROVE  Spec => []NoLostFailure
  <1>1. Init => CountInv
    BY DEF Init, BoardInit, CountInv, NoLostFailure, HoldsLock
  <1>2. IInv /\ CountInv /\ [Next]_vars => CountInv'
    BY NextCount
  <1>3. CountInv => NoLostFailure
    BY DEF CountInv
  <1> QED
    BY <1>1, <1>2, <1>3, InitIInv, NextIInv, PTL DEF Spec

\* In one process a task for which fail_task was called failure_limit times is
\* not offered or running again, whatever raises, stalls or dies: the count the
\* row keeps is the number of the calls, and the limit is applied to that count.
THEOREM FleetRetriesStop ==
    ASSUME SingleProcess
    PROVE  Spec => []RetriesStopAtLimit
  <1>1. IInv /\ NoLostFailure => RetriesStopAtLimit
    <2> SUFFICES ASSUME IInv, NoLostFailure, NEW t \in Tasks,
                        failCalls[t] >= FailureLimit,
                        status[t] \in {"todo", "in_progress"}
                 PROVE  FALSE
      BY DEF RetriesStopAtLimit
    <2>1. failures[t] < FailureLimit /\ failures[t] \in Nat /\ FailureLimit \in Nat
      BY BoardAssumption
         DEF IInv, OfferedBelowLimit, TypeOK, BoardTypeOK, BoardAssumption
    <2>2. failCalls[t] = failures[t]
      BY DEF NoLostFailure
    <2> QED
      BY <2>1, <2>2
  <1> QED
    BY <1>1, FleetNoLostFailure, InitIInv, NextIInv, PTL DEF Spec

-----------------------------------------------------------------------------
(***************************************************************************)
(* Alerts.  This needs no lease: whoever completes a task after its stage  *)
(* has run leaves an open task of a later stage behind, and whatever else  *)
(* happens to a row leaves it open.                                        *)
(***************************************************************************)
OpenStates == {"todo", "in_progress", "blocked"}

\* Task t keeps its alert in sight: it is open, or the last stage, run and done.
Alive(t) == status[t] \in OpenStates \/ Finished(t)

\* The stage of task t has run to its end: it was the last one, or a task of a
\* later stage of the same alert is alive.
Followed(t) ==
    \/ stage[t] = NStages /\ ran[t] > 0
    \/ \E u \in Tasks : origin[u] = origin[t] /\ stage[u] > stage[t] /\ Alive(u)

AlertInv ==
    /\ AlertNotLost
    /\ \A w \in Workers : pc[w] = "complete" => Followed(cand[w])

\* Rows are inserted, never changed, and what has run has run.
RowsStay ==
    \A t \in Tasks :
        status[t] # "absent" =>
            /\ status'[t] # "absent" /\ origin'[t] = origin[t] /\ stage'[t] = stage[t]
            /\ ran[t] > 0 => ran'[t] > 0

\* A step that closes no task.
NoneCloses ==
    \A t \in Tasks :
        /\ status[t] \in OpenStates => status'[t] \in OpenStates
        /\ status[t] = "done" => status'[t] \in OpenStates \cup {"done"}

LEMMA OpenKept ==
    ASSUME IInv, AlertInv, RowsStay, NoneCloses, submitted' = submitted
    PROVE  /\ AlertNotLost'
           /\ \A t \in Tasks : Alive(t) => status[t] # "absent" /\ Alive(t)'
           /\ \A t \in Tasks : status[t] # "absent" /\ Followed(t) => Followed(t)'
  <1> USE DEF IInv, TypeOK, BoardTypeOK
  <1>1. ASSUME NEW t \in Tasks, Alive(t)
        PROVE  status[t] # "absent" /\ Alive(t)'
    BY <1>1 DEF Alive, Finished, RowsStay, NoneCloses, OpenStates
  <1>2. AlertNotLost'
    <2> SUFFICES ASSUME NEW a \in submitted
                 PROVE  \E t \in Tasks : origin'[t] = a /\ Alive(t)'
      BY DEF AlertNotLost, Alive, OpenStates
    <2>1. PICK t \in Tasks : origin[t] = a /\ Alive(t)
      BY DEF AlertInv, AlertNotLost, Alive, OpenStates
    <2> QED
      BY <1>1, <2>1 DEF RowsStay
  <1>3. ASSUME NEW t \in Tasks, status[t] # "absent", Followed(t)
        PROVE  Followed(t)'
    <2>1. CASE stage[t] = NStages /\ ran[t] > 0
      BY <1>3, <2>1 DEF Followed, RowsStay
    <2>2. CASE ~(stage[t] = NStages /\ ran[t] > 0)
      <3>1. PICK u \in Tasks : origin[u] = origin[t] /\ stage[u] > stage[t] /\ Alive(u)
        BY <1>3, <2>2 DEF Followed
      <3>2. status[u] # "absent" /\ Alive(u)'
        BY <1>1, <3>1
      <3>3. origin'[u] = origin'[t] /\ stage'[u] > stage'[t]
        BY <1>3, <3>1, <3>2 DEF RowsStay
      <3> QED
        BY <3>2, <3>3 DEF Followed
    <2> QED
      BY <2>1, <2>2
  <1> QED
    BY <1>1, <1>2, <1>3

\* An operation that closes no task and lets no loop complete one.
LEMMA AlertKept ==
    ASSUME IInv, AlertInv, RowsStay, NoneCloses, submitted' = submitted,
           \A w \in Workers : pc'[w] = "complete" =>
               pc[w] = "complete" /\ cand'[w] = cand[w]
    PROVE  AlertInv'
  <1>1. \A w \in Workers : pc[w] = "complete" =>
           cand[w] \in Tasks /\ status[cand[w]] # "absent" /\ Followed(cand[w])
    BY DEF IInv, HandInv, Holding, AlertInv
  <1>2. /\ AlertNotLost'
        /\ \A t \in Tasks : status[t] # "absent" /\ Followed(t) => Followed(t)'
    BY OpenKept
  <1>3. ASSUME NEW w \in Workers, pc'[w] = "complete"
        PROVE  Followed(cand[w])' /\ cand'[w] = cand[w]
    BY <1>1, <1>2, <1>3
  <1> QED
    BY <1>2, <1>3 DEF AlertInv, Followed, Alive, Finished

\* What create_task leaves.
LEMMA CreateTaskOpens ==
    ASSUME IInv, NEW s \in Stages, NEW a \in Alerts, CreateTask(s, a)
    PROVE  /\ \A t \in Tasks : status[t] # "absent" =>
                  status'[t] = status[t] /\ origin'[t] = origin[t] /\ stage'[t] = stage[t]
           /\ \E t \in Tasks : /\ status[t] = "absent" /\ status'[t] = "todo"
                               /\ origin'[t] = a /\ stage'[t] = s
                               /\ \A u \in Tasks \ {t} : status'[u] = status[u]
  BY DEF CreateTask, IsNextId, IInv, TypeOK, BoardTypeOK

LEMMA NextAlert == ASSUME IInv, AlertInv, [Next]_vars PROVE AlertInv'
  <1> USE DEF IInv, TypeOK, BoardTypeOK, HandInv, Holding, OpenStates
  <1>1. ASSUME NEW p \in Processes, NEW a \in Alerts, SubmitAlert(p, a)
        PROVE  AlertInv'
    <2>1. 1 \in Stages
      BY BoardAssumption DEF BoardAssumption, Stages
    <2>2. CreateTask(1, a) /\ UNCHANGED <<pc, cand, ran>>
          /\ submitted' = submitted \cup {a}
      BY <1>1 DEF SubmitAlert, loopVars
    <2>3. PICK t \in Tasks : status[t] = "absent" /\ status'[t] = "todo" /\ origin'[t] = a
      BY <2>1, <2>2, CreateTaskOpens
    <2>4. \A u \in Tasks : status[u] # "absent" =>
             status'[u] = status[u] /\ origin'[u] = origin[u] /\ stage'[u] = stage[u]
      BY <2>1, <2>2, CreateTaskOpens
    <2>5. ASSUME NEW u \in Tasks, Alive(u)
          PROVE  /\ Alive(u)' /\ origin'[u] = origin[u] /\ stage'[u] = stage[u]
      BY <2>2, <2>4, <2>5 DEF Alive, Finished
    <2>6. AlertNotLost'
      <3> SUFFICES ASSUME NEW b \in submitted'
                   PROVE  \E u \in Tasks : origin'[u] = b /\ Alive(u)'
        BY DEF AlertNotLost, Alive
      <3>1. CASE b = a
        BY <2>3, <3>1 DEF Alive
      <3>2. CASE b # a
        <4>1. PICK u \in Tasks : origin[u] = b /\ Alive(u)
          BY <2>2, <3>2 DEF AlertInv, AlertNotLost, Alive
        <4> QED
          BY <2>5, <4>1
      <3> QED
        BY <3>1, <3>2
    <2>7. ASSUME NEW w \in Workers, pc[w] = "complete"
          PROVE  Followed(cand[w])'
      <3>1. cand[w] \in Tasks /\ status[cand[w]] # "absent" /\ Followed(cand[w])
        BY <2>7 DEF AlertInv
      <3> QED
        BY <2>2, <2>4, <2>5, <3>1 DEF Followed
    <2> QED
      BY <2>2, <2>6, <2>7 DEF AlertInv, Followed, Alive, Finished
  <1>2. ASSUME NEW w \in Workers, ReclaimStaleTasks(w)
        PROVE  AlertInv'
    BY <1>2, AlertKept
       DEF ReclaimStaleTasks, ReclaimUpdate, IsStale, Goto, historyVars, RowsStay,
           NoneCloses
  <1>3. ASSUME NEW w \in Workers, ClaimSelect(w)
        PROVE  AlertInv'
    <2>1. \A v \in Workers : pc'[v] = "complete" => pc[v] = "complete" /\ cand'[v] = cand[v]
      BY <1>3, NextProfileGoesOn DEF ClaimSelect, Goto
    <2> QED
      BY <1>3, <2>1, AlertKept DEF ClaimSelect, boardVars, historyVars, RowsStay,
           NoneCloses
  <1>4. ASSUME NEW w \in Workers, Claim(w)
        PROVE  AlertInv'
    BY <1>4, AlertKept DEF Claim, ClaimUpdate, Goto, historyVars, RowsStay, NoneCloses
  <1>5. ASSUME NEW w \in Workers, Heartbeat(w) \/ HeartbeatRaises(w)
        PROVE  AlertInv'
    BY <1>5, AlertKept DEF Heartbeat, HeartbeatUpdate, HeartbeatRaises, boardVars,
                           loopVars, historyVars, RowsStay, NoneCloses
  <1>6. ASSUME NEW w \in Workers, RunStage(w)
        PROVE  AlertInv'
    <2>1. cand[w] \in Tasks /\ status[cand[w]] # "absent" /\ origin[cand[w]] \in Alerts
      BY <1>6 DEF RunStage
    <2>2. /\ UNCHANGED <<cand, submitted>>
          /\ \A v \in Workers \ {w} : pc'[v] = pc[v]
      BY <1>6 DEF RunStage, Goto
    <2>3. ran' = [ran EXCEPT ![cand[w]] = ran[cand[w]] + 1]
      BY <1>6 DEF RunStage
    <2>4. RowsStay /\ NoneCloses /\ Followed(cand[w])'
      <3>1. CASE stage[cand[w]] = NStages
        <4>1. UNCHANGED boardVars
          BY <1>6, <3>1 DEF RunStage
        <4>2. ran'[cand[w]] > 0
          BY <2>1, <2>3
        <4> QED
          BY <2>1, <2>2, <2>3, <3>1, <4>1, <4>2
             DEF boardVars, RowsStay, NoneCloses, Followed
      <3>2. CASE stage[cand[w]] # NStages
        <4>1. stage[cand[w]] + 1 \in Stages /\ stage[cand[w]] \in Nat
          BY <2>1, <3>2, BoardAssumption DEF BoardAssumption, Stages
        <4>2. CreateTask(stage[cand[w]] + 1, origin[cand[w]])
          BY <1>6, <3>2 DEF RunStage
        <4>3. PICK t \in Tasks :
                 /\ status'[t] = "todo" /\ origin'[t] = origin[cand[w]]
                 /\ stage'[t] = stage[cand[w]] + 1
          BY <2>1, <4>1, <4>2, CreateTaskOpens
        <4>4. \A u \in Tasks : status[u] # "absent" =>
                 status'[u] = status[u] /\ origin'[u] = origin[u] /\ stage'[u] = stage[u]
          BY <2>1, <4>1, <4>2, CreateTaskOpens
        <4>5. Followed(cand[w])'
          BY <2>1, <2>2, <4>1, <4>3, <4>4 DEF Followed, Alive
        <4> QED
          BY <2>1, <2>3, <4>4, <4>5 DEF RowsStay, NoneCloses
      <3> QED
        BY <3>1, <3>2
    <2>5. AlertNotLost'
          /\ \A t \in Tasks : status[t] # "absent" /\ Followed(t) => Followed(t)'
      BY <2>2, <2>4, OpenKept
    <2>6. \A v \in Workers : pc'[v] = "complete" => Followed(cand[v])'
      BY <2>2, <2>4, <2>5 DEF AlertInv
    <2> QED
      BY <2>2, <2>5, <2>6 DEF AlertInv, Followed, Alive, Finished
  <1>7. ASSUME NEW w \in Workers,
               RunnerRaises(w) \/ CompleteRaises(w) \/ FailTaskRead(w) \/ TickRaises(w)
                 \/ Start(w)
        PROVE  AlertInv'
    BY <1>7, AlertKept DEF RunnerRaises, CompleteRaises, FailTaskRead, TickRaises, Start,
                           Goto, Release, boardVars, historyVars, RowsStay, NoneCloses
  <1>8. ASSUME NEW w \in Workers, CompleteTask(w)
        PROVE  AlertInv'
    <2>0. PICK t \in Tasks : t = cand[w]
      BY <1>8 DEF CompleteTask
    <2>1. /\ status[t] # "absent" /\ Followed(t)
          /\ status' = [status EXCEPT ![t] = "done"]
          /\ UNCHANGED <<origin, stage, submitted, ran>>
      BY <1>8, <2>0 DEF CompleteTask, CompleteUpdate, historyVars, AlertInv
    <2>2. \A u \in Tasks : stage[u] \in Nat
      BY BoardAssumption DEF BoardAssumption, Stages
    <2>3. \A u \in Tasks \ {t} : Alive(u) => Alive(u)'
      BY <2>1 DEF Alive, Finished
    <2>4. \/ Alive(t)'
          \/ \E v \in Tasks \ {t} :
                origin[v] = origin[t] /\ stage[v] > stage[t] /\ Alive(v)'
      <3>1. CASE stage[t] = NStages /\ ran[t] > 0
        BY <2>1, <3>1 DEF Alive, Finished
      <3>2. CASE ~(stage[t] = NStages /\ ran[t] > 0)
        <4>1. PICK v \in Tasks : origin[v] = origin[t] /\ stage[v] > stage[t] /\ Alive(v)
          BY <2>1, <3>2 DEF Followed
        <4> QED
          BY <2>2, <2>3, <4>1
      <3> QED
        BY <3>1, <3>2
    <2>5. ASSUME NEW r \in Tasks, Followed(r)
          PROVE  Followed(r)'
      <3>1. CASE stage[r] = NStages /\ ran[r] > 0
        BY <2>1, <3>1 DEF Followed
      <3>2. CASE ~(stage[r] = NStages /\ ran[r] > 0)
        <4>1. PICK u \in Tasks : origin[u] = origin[r] /\ stage[u] > stage[r] /\ Alive(u)
          BY <2>5, <3>2 DEF Followed
        <4>2. CASE u = t
          <5>1. CASE Alive(t)'
            BY <2>1, <4>1, <4>2, <5>1 DEF Followed
          <5>2. ASSUME NEW v \in Tasks \ {t}, origin[v] = origin[t], stage[v] > stage[t],
                       Alive(v)'
                PROVE  Followed(r)'
            <6>1. stage[v] > stage[r] /\ origin[v] = origin[r]
              BY <2>2, <4>1, <4>2, <5>2
            <6> QED
              BY <2>1, <5>2, <6>1 DEF Followed
          <5> QED
            BY <2>4, <5>1, <5>2
        <4>3. CASE u # t
          BY <2>1, <2>3, <4>1, <4>3 DEF Followed
        <4> QED
          BY <4>2, <4>3
      <3> QED
        BY <3>1, <3>2
    <2>6. AlertNotLost'
      <3> SUFFICES ASSUME NEW a \in submitted
                   PROVE  \E u \in Tasks : origin[u] = a /\ Alive(u)'
        BY <2>1 DEF AlertNotLost, Alive
      <3>1. PICK u \in Tasks : origin[u] = a /\ Alive(u)
        BY DEF AlertInv, AlertNotLost, Alive
      <3> QED
        BY <2>3, <2>4, <3>1
    <2>7. \A v \in Workers : pc'[v] = "complete" => pc[v] = "complete" /\ cand'[v] = cand[v]
      BY <1>8, NextProfileGoesOn DEF CompleteTask
    <2>8. \A v \in Workers : pc'[v] = "complete" => cand'[v] \in Tasks /\ Followed(cand[v])'
      BY <2>5, <2>7 DEF AlertInv
    <2> QED
      BY <2>6, <2>7, <2>8 DEF AlertInv, Followed, Alive, Finished
  <1>9. ASSUME NEW w \in Workers, FailTaskWrite(w)
        PROVE  AlertInv'
    <2>1. \A v \in Workers : pc'[v] = "complete" => pc[v] = "complete" /\ cand'[v] = cand[v]
      BY <1>9, NextProfileGoesOn DEF FailTaskWrite
    <2>2. cand[w] \in Tasks
      BY <1>9 DEF FailTaskWrite
    <2> QED
      BY <1>9, <2>1, <2>2, AlertKept DEF FailTaskWrite, FailUpdate, RowsStay, NoneCloses
  <1>10. ASSUME NEW t \in Tasks, HeartbeatExpires(t)
         PROVE  AlertInv'
    BY <1>10, AlertKept DEF HeartbeatExpires, loopVars, historyVars, RowsStay, NoneCloses
  <1>11. ASSUME NEW p \in Processes, Crash(p)
         PROVE  AlertInv'
    BY <1>11, AlertKept DEF Crash, boardVars, historyVars, RowsStay, NoneCloses
  <1>12. ASSUME NEW p \in Processes, NEW t \in Tasks, BlockTask(p, t)
         PROVE  AlertInv'
    BY <1>12, AlertKept DEF BlockTask, BlockUpdate, loopVars, historyVars, RowsStay,
           NoneCloses
  <1>13. CASE UNCHANGED vars
    BY <1>13, AlertKept DEF vars, boardVars, RowsStay, NoneCloses
  <1> QED
    BY <1>1, <1>2, <1>3, <1>4, <1>5, <1>6, <1>7, <1>8, <1>9, <1>10, <1>11, <1>12,
       <1>13 DEF Next, LoopStep

\* An alert is never lost between two stages, in any number of processes and
\* under every fault: what is done has been followed by a later stage, or was
\* the executor's task and has run.
THEOREM FleetAlertNotLost == Spec => []AlertNotLost
  <1>1. Init => AlertInv
    BY DEF Init, AlertInv, AlertNotLost
  <1>2. IInv /\ AlertInv /\ [Next]_vars => AlertInv'
    BY NextAlert
  <1>3. AlertInv => AlertNotLost
    BY DEF AlertInv
  <1> QED
    BY <1>1, <1>2, <1>3, InitIInv, NextIInv, PTL DEF Spec

-----------------------------------------------------------------------------
(***************************************************************************)
(* Nothing twice.  A task is the only one of its alert and stage, and the  *)
(* task before it, which created it, will not run again: its loop is about *)
(* to complete it, or it is done.                                          *)
(***************************************************************************)
HasRun(t) ==
    \/ status[t] = "done"
    \/ \E w \in Workers : pc[w] = "complete" /\ cand[w] = t

OnceInv ==
    /\ harm = {}
    /\ \A t \in Tasks : status[t] # "absent" => origin[t] \in submitted
    /\ \A t, u \in Tasks :
          status[t] # "absent" /\ status[u] # "absent"
            /\ origin[t] = origin[u] /\ stage[t] = stage[u] => t = u
    /\ \A t \in Tasks :
          status[t] # "absent" /\ stage[t] # 1 =>
              \E b \in Tasks : /\ status[b] # "absent" /\ origin[b] = origin[t]
                               /\ stage[b] + 1 = stage[t] /\ HasRun(b)
    /\ \A t \in Tasks : ran[t] = 0 \/ (ran[t] = 1 /\ HasRun(t))

\* A step that inserts nothing, runs nothing and lets nothing run again.
LEMMA OnceKept ==
    ASSUME IInv, OnceInv, UNCHANGED <<stage, origin, submitted, ran, harm>>,
           \A t \in Tasks : status'[t] = "absent" <=> status[t] = "absent",
           \A t \in Tasks : HasRun(t) => HasRun(t)'
    PROVE  OnceInv'
  <1>1. \A t \in Tasks : status'[t] # "absent" /\ stage[t] # 1 =>
           \E b \in Tasks : /\ status'[b] # "absent" /\ origin[b] = origin[t]
                            /\ stage[b] + 1 = stage[t] /\ HasRun(b)'
    BY DEF OnceInv
  <1>2. \A t \in Tasks : ran[t] = 0 \/ (ran[t] = 1 /\ HasRun(t)')
    BY DEF OnceInv
  <1> QED
    BY <1>1, <1>2 DEF OnceInv, HasRun

\* A loop whose stage is still to run is the only one with its task.
LEMMA StillToRun ==
    ASSUME IInv, LeaseInv, NEW w \in Workers, pc[w] = "run"
    PROVE  /\ cand[w] \in Tasks /\ status[cand[w]] = "in_progress" /\ ~HasRun(cand[w])
  BY DEF IInv, HandInv, Holding, LeaseInv, Working, HasRun

\* Nothing of an alert exists past a stage that is still to run.
LEMMA NothingFollows ==
    ASSUME IInv, OnceInv, NEW t \in Tasks, status[t] # "absent", ~HasRun(t)
    PROVE  /\ \A u \in Tasks : status[u] # "absent" /\ origin[u] = origin[t]
                                  => stage[u] # stage[t] + 1
           /\ ran[t] = 0
  <1> USE DEF IInv, TypeOK, BoardTypeOK
  <1>1. stage[t] \in Nat /\ stage[t] >= 1 /\ origin[t] \in Alerts
    BY BoardAssumption DEF BoardAssumption, Stages
  <1>2. ASSUME NEW u \in Tasks, status[u] # "absent", origin[u] = origin[t],
               stage[u] = stage[t] + 1
        PROVE  FALSE
    <2>1. stage[u] # 1
      BY <1>1, <1>2
    <2>2. PICK b \in Tasks : /\ status[b] # "absent" /\ origin[b] = origin[u]
                             /\ stage[b] + 1 = stage[u] /\ HasRun(b)
      BY <1>2, <2>1 DEF OnceInv
    <2>3. stage[b] \in Nat
      BY BoardAssumption DEF BoardAssumption, Stages
    <2>4. stage[b] = stage[t]
      BY <1>1, <1>2, <2>2, <2>3
    <2> QED
      BY <1>2, <2>2, <2>4 DEF OnceInv
  <1>3. ran[t] = 0
    BY DEF OnceInv
  <1> QED
    BY <1>2, <1>3

LEMMA NextOnce ==
    ASSUME IInv, LeaseInv, LeaseInv', OnceInv, [Next]_vars, faults' = 0
    PROVE  OnceInv'
  <1> USE DEF IInv, TypeOK, BoardTypeOK
  <1>1. ASSUME NEW p \in Processes, NEW a \in Alerts, SubmitAlert(p, a)
        PROVE  OnceInv'
    <2>1. CreateTask(1, a) /\ UNCHANGED <<pc, cand, ran, harm>>
          /\ submitted' = submitted \cup {a} /\ a \notin submitted
      BY <1>1 DEF SubmitAlert, loopVars, faultVars
    <2>2. PICK t \in Tasks :
              /\ status[t] = "absent"
              /\ status' = [status EXCEPT ![t] = "todo"]
              /\ stage' = [stage EXCEPT ![t] = 1]
              /\ origin' = [origin EXCEPT ![t] = a]
      BY <2>1 DEF CreateTask, IsNextId
    <2>3. \A b \in Tasks : status[b] # "absent" /\ HasRun(b) =>
             /\ status'[b] # "absent" /\ HasRun(b)'
             /\ origin'[b] = origin[b] /\ stage'[b] = stage[b]
      BY <2>1, <2>2 DEF HasRun
    <2>4. \A u \in Tasks : status[u] # "absent" => origin[u] # a
      BY <2>1 DEF OnceInv
    <2>5. \A u \in Tasks : status'[u] # "absent" =>
             u = t \/ (status[u] # "absent" /\ origin'[u] = origin[u] /\ stage'[u] = stage[u])
      BY <2>2
    <2>6. stage'[t] = 1 /\ origin'[t] = a
      BY <2>2
    <2>7. \A u, v \in Tasks :
             status'[u] # "absent" /\ status'[v] # "absent"
               /\ origin'[u] = origin'[v] /\ stage'[u] = stage'[v] => u = v
      BY <2>4, <2>5, <2>6 DEF OnceInv
    <2>8. \A u \in Tasks : status'[u] # "absent" /\ stage'[u] # 1 =>
             \E b \in Tasks : /\ status'[b] # "absent" /\ origin'[b] = origin'[u]
                              /\ stage'[b] + 1 = stage'[u] /\ HasRun(b)'
      BY <2>3, <2>5, <2>6 DEF OnceInv
    <2>9. \A u \in Tasks : HasRun(u) => HasRun(u)'
      BY <2>1, <2>2 DEF HasRun
    <2>10. \A u \in Tasks : ran[u] = 0 \/ (ran[u] = 1 /\ HasRun(u)')
      BY <2>9 DEF OnceInv
    <2> QED
      BY <2>1, <2>5, <2>6, <2>7, <2>8, <2>10 DEF OnceInv, HasRun
  <1>2. ASSUME NEW w \in Workers, RunStage(w)
        PROVE  OnceInv'
    <2>1. PICK t \in Tasks : t = cand[w]
      BY <1>2, StillToRun DEF RunStage
    <2>2. /\ status[t] # "absent" /\ ~HasRun(t) /\ origin[t] \in submitted
          /\ origin[t] \in Alerts
      BY <1>2, <2>1, StillToRun DEF RunStage, OnceInv
    <2>3. /\ UNCHANGED <<cand, submitted, harm>> /\ pc[w] = "run"
          /\ pc' = [pc EXCEPT ![w] = "complete"]
      BY <1>2 DEF RunStage, Goto, faultVars
    <2>4. HasRun(t)'
      BY <2>1, <2>3 DEF HasRun
    <2>5. \A u \in Tasks : ran'[u] = 0 \/ (ran'[u] = 1 /\ HasRun(u)')
      <3>1. ran' = [ran EXCEPT ![t] = ran[t] + 1] /\ ran[t] = 0
        BY <1>2, <2>1, <2>2, NothingFollows DEF RunStage
      <3>2. ASSUME NEW u \in Tasks, u # t, HasRun(u)
            PROVE  HasRun(u)'
        <4>1. CASE status[u] = "done"
          BY <1>2, <4>1 DEF RunStage, boardVars, CreateTask, IsNextId, HasRun
        <4>2. CASE \E v \in Workers : pc[v] = "complete" /\ cand[v] = u
          BY <2>3, <4>2 DEF HasRun
        <4> QED
          BY <3>2, <4>1, <4>2 DEF HasRun
      <3> QED
        BY <2>4, <3>1, <3>2 DEF OnceInv
    <2>6. CASE stage[t] = NStages
      <3>1. UNCHANGED <<status, stage, origin>>
        BY <1>2, <2>1, <2>6 DEF RunStage, boardVars
      <3>2. \A b \in Tasks : HasRun(b) => HasRun(b)'
        BY <2>3, <3>1 DEF HasRun
      <3>3. \A u \in Tasks : status[u] # "absent" /\ stage[u] # 1 =>
               \E b \in Tasks : /\ status[b] # "absent" /\ origin[b] = origin[u]
                                /\ stage[b] + 1 = stage[u] /\ HasRun(b)'
        BY <3>2 DEF OnceInv
      <3> QED
        BY <2>3, <2>5, <3>1, <3>3 DEF OnceInv, HasRun
    <2>7. CASE stage[t] # NStages
      <3>1. CreateTask(stage[t] + 1, origin[t])
        BY <1>2, <2>1, <2>7 DEF RunStage
      <3>2. PICK n \in Tasks :
                /\ status[n] = "absent"
                /\ status' = [status EXCEPT ![n] = "todo"]
                /\ stage' = [stage EXCEPT ![n] = stage[t] + 1]
                /\ origin' = [origin EXCEPT ![n] = origin[t]]
        BY <3>1 DEF CreateTask, IsNextId
      <3>3. \A b \in Tasks : status[b] # "absent" =>
               /\ status'[b] # "absent" /\ (HasRun(b) => HasRun(b)')
               /\ origin'[b] = origin[b] /\ stage'[b] = stage[b]
        BY <2>3, <3>2 DEF HasRun
      <3>4. \A u \in Tasks : status[u] # "absent" /\ origin[u] = origin[t]
                                => stage[u] # stage[t] + 1
        BY <2>2, NothingFollows
      <3>5. \A u \in Tasks : status'[u] # "absent" => u = n \/ status[u] # "absent"
        BY <3>2
      <3>6. stage'[n] = stage[t] + 1 /\ origin'[n] = origin[t]
        BY <3>2
      <3>7. \A u, v \in Tasks :
               status'[u] # "absent" /\ status'[v] # "absent"
                 /\ origin'[u] = origin'[v] /\ stage'[u] = stage'[v] => u = v
        BY <3>3, <3>4, <3>5, <3>6 DEF OnceInv
      <3>8. \A u \in Tasks : status'[u] # "absent" /\ stage'[u] # 1 =>
               \E b \in Tasks : /\ status'[b] # "absent" /\ origin'[b] = origin'[u]
                                /\ stage'[b] + 1 = stage'[u] /\ HasRun(b)'
        BY <2>2, <2>4, <3>3, <3>5, <3>6 DEF OnceInv
      <3>9. \A u \in Tasks : status'[u] # "absent" => origin'[u] \in submitted
        BY <2>2, <3>3, <3>5, <3>6 DEF OnceInv
      <3> QED
        BY <2>3, <2>5, <3>7, <3>8, <3>9 DEF OnceInv, HasRun
    <2> QED
      BY <2>6, <2>7
  <1>3. ASSUME NEW w \in Workers,
               ReclaimStaleTasks(w) \/ Claim(w) \/ RunnerRaises(w) \/ FailTaskRead(w)
                 \/ Start(w)
        PROVE  OnceInv'
    <2>1. UNCHANGED <<stage, origin, submitted, ran, harm>>
      BY <1>3 DEF ReclaimStaleTasks, ReclaimUpdate, Claim, ClaimUpdate, RunnerRaises,
                  FailTaskRead, Start, boardVars, historyVars, faultVars
    <2>2. \A t \in Tasks : /\ status'[t] = "absent" <=> status[t] = "absent"
                           /\ status[t] = "done" => status'[t] = "done"
      BY <1>3 DEF ReclaimStaleTasks, ReclaimUpdate, IsStale, Claim, ClaimUpdate,
                  RunnerRaises, FailTaskRead, Start, boardVars
    <2>3. \A v \in Workers : pc[v] = "complete" => pc'[v] = "complete" /\ cand'[v] = cand[v]
      BY <1>3 DEF ReclaimStaleTasks, Claim, RunnerRaises, FailTaskRead, Start, Goto
    <2> QED
      BY <2>1, <2>2, <2>3, OnceKept DEF HasRun
  <1>4. ASSUME NEW w \in Workers, ClaimSelect(w)
        PROVE  OnceInv'
    <2>1. \A v \in Workers : pc[v] = "complete" => pc'[v] = "complete" /\ cand'[v] = cand[v]
      BY <1>4, NextProfileGoesOn DEF ClaimSelect, Goto
    <2> QED
      BY <1>4, <2>1, OnceKept DEF ClaimSelect, boardVars, historyVars, faultVars, HasRun
  <1>5. ASSUME NEW w \in Workers, Heartbeat(w)
        PROVE  OnceInv'
    BY <1>5, OnceKept DEF Heartbeat, HeartbeatUpdate, loopVars, historyVars, faultVars,
                          HasRun
  <1>6. ASSUME NEW w \in Workers, CompleteTask(w)
        PROVE  OnceInv'
    <2>1. PICK t \in Tasks : t = cand[w]
      BY <1>6 DEF CompleteTask, HandInv, Holding
    <2>2. status[t] # "absent" /\ status' = [status EXCEPT ![t] = "done"]
      BY <1>6, <2>1 DEF CompleteTask, CompleteUpdate, HandInv, Holding
    <2>3. \A v \in Workers \ {w} : pc'[v] = pc[v] /\ cand'[v] = cand[v]
      BY <1>6, NextProfileGoesOn DEF CompleteTask
    <2>4. \A u \in Tasks : HasRun(u) => HasRun(u)'
      BY <2>1, <2>2, <2>3 DEF HasRun
    <2> QED
      BY <1>6, <2>2, <2>4, OnceKept DEF CompleteTask, CompleteUpdate, historyVars, faultVars
  <1>7. ASSUME NEW w \in Workers, FailTaskWrite(w)
        PROVE  OnceInv'
    <2>1. PICK t \in Tasks : t = cand[w]
      BY <1>7 DEF FailTaskWrite, HandInv, Holding
    <2>2. /\ status[t] = "in_progress"
          /\ status' = [status EXCEPT ![t] = IF seen[w] + 1 >= FailureLimit
                                             THEN "blocked" ELSE "todo"]
      BY <1>7, <2>1 DEF FailTaskWrite, FailUpdate, LeaseInv, Working
    <2>3. \A v \in Workers : pc[v] = "complete" => pc'[v] = pc[v] /\ cand'[v] = cand[v]
      BY <1>7, NextProfileGoesOn DEF FailTaskWrite
    <2>4. \A u \in Tasks : HasRun(u) => HasRun(u)'
      BY <2>2, <2>3 DEF HasRun
    <2>5. \A u \in Tasks : status'[u] = "absent" <=> status[u] = "absent"
      BY <2>2
    <2> QED
      BY <1>7, <2>4, <2>5, OnceKept DEF FailTaskWrite, FailUpdate, faultVars
  <1>8. ASSUME NEW t \in Tasks, HeartbeatExpires(t)
        PROVE  OnceInv'
    <2>1. UNCHANGED faultVars
      BY <1>8, FleetAssumption DEF HeartbeatExpires, Fault, FleetAssumption
    <2> QED
      BY <1>8, <2>1, OnceKept DEF HeartbeatExpires, loopVars, historyVars, faultVars, HasRun
  <1>9. ASSUME \/ \E w \in Workers :
                     HeartbeatRaises(w) \/ CompleteRaises(w) \/ TickRaises(w)
               \/ \E p \in Processes : Crash(p)
               \/ \E p \in Processes, t \in Tasks : BlockTask(p, t)
        PROVE  FALSE
    <2>1. faults' = faults + 1 /\ faults \in Nat
      BY <1>9, FleetAssumption
         DEF HeartbeatRaises, CompleteRaises, TickRaises, Crash, BlockTask, Fault,
             FleetAssumption
    <2> QED
      BY <2>1
  <1>10. CASE UNCHANGED vars
    BY <1>10, OnceKept DEF vars, boardVars, HasRun
  <1> QED
    BY <1>1, <1>2, <1>3, <1>4, <1>5, <1>6, <1>7, <1>8, <1>9, <1>10 DEF Next, LoopStep

\* The number of faults only grows.
LEMMA FaultsGrow == ASSUME IInv, [Next]_vars, faults' = 0 PROVE faults = 0
  <1>1. faults \in Nat
    BY FleetAssumption DEF IInv, TypeOK, FleetAssumption
  <1>2. faults' = faults \/ faults' = faults + 1
    BY DEF Next, vars, faultVars, Fault, LoopStep, SubmitAlert, ReclaimStaleTasks,
           ClaimSelect, Claim, Heartbeat, HeartbeatRaises, RunStage, RunnerRaises,
           CompleteTask, CompleteRaises, FailTaskRead, FailTaskWrite, TickRaises,
           HeartbeatExpires, Crash, Start, BlockTask
  <1> QED
    BY <1>1, <1>2

LEMMA AtMostOne ==
    ASSUME NEW S, \A x, y \in S : x = y
    PROVE  Cardinality(S) <= 1
  <1>1. CASE S = {}
    BY <1>1, FS_EmptySet
  <1>2. CASE S # {}
    <2>1. PICK x \in S : TRUE
      BY <1>2
    <2>2. S = {x}
      BY <2>1
    <2> QED
      BY <2>2, FS_Singleton
  <1> QED
    BY <1>1, <1>2

\* In one process and without faults every stage of an alert is created once
\* and no worker function returns twice for a task, for any number of loops.
THEOREM FleetExactlyOnce ==
    ASSUME SingleProcess
    PROVE  Spec => []ExactlyOnceWithoutFaults
  <1> DEFINE Kept == OnlyCrashes => LeaseInv
             Once == faults = 0 => OnceInv
  <1>1. Init => Kept /\ Once
    BY DEF Init, BoardInit, LeaseInv, OnceInv, HasRun, Working, HoldsLock
  <1>2. IInv /\ Kept /\ Once /\ [Next]_vars => Kept' /\ Once'
    <2> SUFFICES ASSUME IInv, Kept, Once, [Next]_vars PROVE Kept' /\ Once'
      OBVIOUS
    <2>1. Kept'
      <3> SUFFICES ASSUME OnlyCrashes' PROVE LeaseInv'
        OBVIOUS
      <3> QED
        BY HarmGrows, NextLease DEF OnlyCrashes
    <2>2. Once'
      <3> SUFFICES ASSUME faults' = 0 PROVE OnceInv'
        OBVIOUS
      <3>1. OnceInv
        BY FaultsGrow
      <3>2. harm' = harm \/ faults' = faults + 1
        BY DEF Next, vars, faultVars, Fault, LoopStep, SubmitAlert, ReclaimStaleTasks,
               ClaimSelect, Claim, Heartbeat, HeartbeatRaises, RunStage, RunnerRaises,
               CompleteTask, CompleteRaises, FailTaskRead, FailTaskWrite, TickRaises,
               HeartbeatExpires, Crash, Start, BlockTask
      <3>3. harm = {} /\ harm' = {}
        BY <3>1, <3>2, FaultsGrow DEF OnceInv
      <3>4. LeaseInv /\ LeaseInv'
        BY <2>1, <3>3 DEF OnlyCrashes
      <3> QED
        BY <3>1, <3>4, NextOnce
    <2> QED
      BY <2>1, <2>2
  <1>3. IInv /\ Once => ExactlyOnceWithoutFaults
    <2> SUFFICES ASSUME OnceInv PROVE ExactlyOnceWithoutFaults
      BY DEF ExactlyOnceWithoutFaults
    <2>1. \A t \in Tasks : ran[t] <= 1
      BY DEF OnceInv
    <2>2. ASSUME NEW a \in Alerts, NEW s \in Stages
          PROVE  Cardinality({t \in Tasks : /\ status[t] # "absent"
                                            /\ origin[t] = a /\ stage[t] = s}) <= 1
      <3> DEFINE S == {t \in Tasks : status[t] # "absent" /\ origin[t] = a /\ stage[t] = s}
      <3>1. \A x, y \in S : x = y
        BY DEF OnceInv
      <3> HIDE DEF S
      <3>2. Cardinality(S) <= 1
        BY <3>1, AtMostOne
      <3> QED
        BY <3>2 DEF S
    <2> QED
      BY <2>1, <2>2 DEF ExactlyOnceWithoutFaults
  <1> HIDE DEF Kept, Once
  <1> QED
    BY <1>1, <1>2, <1>3, InitIInv, NextIInv, PTL DEF Spec

-----------------------------------------------------------------------------
(***************************************************************************)
(* Runs and their price.  Every run of a task still to come is in the hand *)
(* of a loop, or loose: the row is on offer, or in progress for nobody who *)
(* refreshes its heartbeat, so that it will be.  A step turns such a       *)
(* chance into a run, hands it on or drops it; only a fault makes one.     *)
(***************************************************************************)
Hands(t) == {w \in Workers :
                cand[w] = t /\ pc[w] \in {"update", "run", "fail_read", "fail_write"}}

Guarded(t) ==
    \E w \in Workers : /\ Working(w) /\ beats[w] /\ cand[w] = t
                       /\ owner[t] = w /\ hb[t] = "fresh"

Loose(t) ==
    \/ status[t] = "todo" /\ \A w \in Workers : pc[w] = "update" => cand[w] # t
    \/ status[t] = "in_progress" /\ ~Guarded(t)

Paid(t) ==
    /\ IsFiniteSet(Hands(t))
    /\ ran[t] + Cardinality(Hands(t)) + (IF Loose(t) THEN 1 ELSE 0) <= 1 + faults

PaidInv ==
    /\ \A t \in Tasks : Paid(t)
    /\ \A t \in Tasks : status[t] = "absent" => ran[t] = 0

\* No hand more, no run more, and not loose unless it was or a fault has paid.
LEMMA PaidKept ==
    ASSUME TypeOK, TypeOK', NEW t \in Tasks, Paid(t),
           Hands(t)' \subseteq Hands(t), ran'[t] = ran[t],
           Loose(t)' => Loose(t), faults' >= faults
    PROVE  Paid(t)'
  <1>1. /\ IsFiniteSet(Hands(t)') /\ Cardinality(Hands(t)') <= Cardinality(Hands(t))
        /\ Cardinality(Hands(t)') \in Nat /\ Cardinality(Hands(t)) \in Nat
    BY FS_Subset, FS_CardinalityType DEF Paid
  <1>2. /\ faults \in Nat /\ faults' \in Nat /\ ran[t] \in Nat
    BY FleetAssumption DEF TypeOK, FleetAssumption
  <1> QED
    BY <1>1, <1>2 DEF Paid

LEMMA PaidByFault ==
    ASSUME TypeOK, TypeOK', NEW t \in Tasks, Paid(t),
           Hands(t)' \subseteq Hands(t), ran'[t] = ran[t], faults' = faults + 1
    PROVE  Paid(t)'
  <1>1. /\ IsFiniteSet(Hands(t)') /\ Cardinality(Hands(t)') <= Cardinality(Hands(t))
        /\ Cardinality(Hands(t)') \in Nat /\ Cardinality(Hands(t)) \in Nat
    BY FS_Subset, FS_CardinalityType DEF Paid
  <1>2. /\ faults \in Nat /\ ran[t] \in Nat
    BY FleetAssumption DEF TypeOK, FleetAssumption
  <1> QED
    BY <1>1, <1>2 DEF Paid

\* A loop lets go of its chance: it has run the task, or leaves it to be run.
LEMMA PaidBySpending ==
    ASSUME TypeOK, TypeOK', NEW t \in Tasks, NEW w \in Hands(t), Paid(t),
           Hands(t)' \subseteq Hands(t) \ {w}, faults' = faults,
           \/ ran'[t] = ran[t]
           \/ ran'[t] = ran[t] + 1 /\ (Loose(t)' => Loose(t))
    PROVE  Paid(t)'
  <1>1. /\ IsFiniteSet(Hands(t) \ {w}) /\ Cardinality(Hands(t)) \in Nat
        /\ Cardinality(Hands(t) \ {w}) = Cardinality(Hands(t)) - 1
    BY FS_RemoveElement, FS_CardinalityType DEF Paid
  <1>2. /\ IsFiniteSet(Hands(t)') /\ Cardinality(Hands(t)') \in Nat
        /\ Cardinality(Hands(t)') <= Cardinality(Hands(t) \ {w})
    BY <1>1, FS_Subset, FS_CardinalityType
  <1>3. /\ faults \in Nat /\ ran[t] \in Nat
    BY FleetAssumption DEF TypeOK, FleetAssumption
  <1>4. Cardinality(Hands(t)') <= Cardinality(Hands(t)) - 1
    BY <1>1, <1>2
  <1> QED
    BY <1>1, <1>2, <1>3, <1>4 DEF Paid

\* A loop takes a chance that was loose, or one a fault has made.
LEMMA PaidByTaking ==
    ASSUME TypeOK, TypeOK', NEW t \in Tasks, NEW w \in Workers, Paid(t),
           w \notin Hands(t), Hands(t)' = Hands(t) \cup {w}, ran'[t] = ran[t],
           \/ Loose(t) /\ ~Loose(t)' /\ faults' = faults
           \/ (Loose(t)' => Loose(t)) /\ faults' = faults + 1
    PROVE  Paid(t)'
  <1>1. /\ IsFiniteSet(Hands(t)') /\ Cardinality(Hands(t)) \in Nat
        /\ Cardinality(Hands(t)') = Cardinality(Hands(t)) + 1
    BY FS_AddElement, FS_CardinalityType DEF Paid
  <1>2. /\ faults \in Nat /\ ran[t] \in Nat
    BY FleetAssumption DEF TypeOK, FleetAssumption
  <1> QED
    BY <1>1, <1>2 DEF Paid

\* A row just inserted is loose once.
LEMMA PaidWhenNew ==
    ASSUME IInv, TypeOK', NEW t \in Tasks, status[t] = "absent", ran'[t] = 0,
           Hands(t)' \subseteq Hands(t)
    PROVE  Paid(t)'
  <1>1. Hands(t)' = {}
    BY DEF Hands, IInv, HandInv, Holding
  <1>2. faults' \in Nat
    BY FleetAssumption DEF TypeOK, FleetAssumption
  <1> QED
    BY <1>1, <1>2, FS_EmptySet DEF Paid

\* A step that leaves the loops' hands and the row of a task alone.
LEMMA PaidElsewhere ==
    ASSUME TypeOK, TypeOK', NEW t \in Tasks, Paid(t),
           status'[t] = status[t], owner'[t] = owner[t], hb'[t] = hb[t],
           ran'[t] = ran[t], faults' >= faults,
           \A w \in Workers : cand[w] = t \/ cand'[w] = t =>
               /\ Holding(w) \/ Holding(w)' =>
                     pc'[w] = pc[w] /\ cand'[w] = cand[w] /\ beats'[w] = beats[w]
    PROVE  Paid(t)'
  <1>1. Hands(t)' = Hands(t)
    BY DEF Hands, Holding
  <1>2. Guarded(t)' <=> Guarded(t)
    BY DEF Guarded, Working, Holding
  <1>3. (\A w \in Workers : pc'[w] = "update" => cand'[w] # t)
          <=> (\A w \in Workers : pc[w] = "update" => cand[w] # t)
    BY DEF Holding
  <1>4. Loose(t)' => Loose(t)
    BY <1>2, <1>3 DEF Loose
  <1> QED
    BY <1>1, <1>4, PaidKept

\* No step takes a row away.
LEMMA NextRows ==
    ASSUME IInv, [Next]_vars
    PROVE  \A t \in Tasks : status'[t] = "absent" => status[t] = "absent"
  <1> USE DEF IInv, TypeOK, BoardTypeOK
  <1>1. ASSUME NEW s, NEW a, CreateTask(s, a)
        PROVE  \A t \in Tasks : status'[t] = "absent" => status[t] = "absent"
    BY <1>1 DEF CreateTask, IsNextId
  <1>2. CASE UNCHANGED status
    BY <1>2
  <1> QED
    BY <1>1, <1>2
       DEF Next, vars, boardVars, LoopStep, SubmitAlert, ReclaimStaleTasks,
           ReclaimUpdate, ClaimSelect, Claim, ClaimUpdate, Heartbeat, HeartbeatUpdate,
           HeartbeatRaises, RunStage, RunnerRaises, CompleteTask, CompleteUpdate,
           CompleteRaises, FailTaskRead, FailTaskWrite, FailUpdate, TickRaises,
           HeartbeatExpires, Crash, Start, BlockTask, BlockUpdate

LEMMA NextPaid ==
    ASSUME SingleProcess, IInv, IInv', PaidInv, [Next]_vars
    PROVE  PaidInv'
  <1> USE DEF IInv, TypeOK, BoardTypeOK, HandInv, Holding, PaidInv
  <1>n. faults \in Nat /\ faults' \in Nat /\ faults >= faults
    BY FleetAssumption DEF FleetAssumption
  <1>r. \A t \in Tasks : status'[t] = "absent" => status[t] = "absent"
    BY NextRows
  <1>1. ASSUME NEW p \in Processes, NEW a \in Alerts, SubmitAlert(p, a)
        PROVE  PaidInv'
    <2>1. UNCHANGED <<pc, cand, beats, ran, faults, owner, hb>>
      BY <1>1 DEF SubmitAlert, CreateTask, loopVars, faultVars
    <2>2. ASSUME NEW t \in Tasks
          PROVE  Paid(t)'
      <3>1. CASE status[t] = "absent"
        BY <2>1, <3>1, PaidWhenNew DEF Hands
      <3>2. CASE status[t] # "absent"
        <4>1. status'[t] = status[t]
          BY <1>1, <3>2 DEF SubmitAlert, CreateTask, IsNextId
        <4> QED
          BY <2>1, <4>1, <1>n, PaidElsewhere
      <3> QED
        BY <3>1, <3>2
    <2> QED
      BY <2>1, <2>2, <1>r
  <1>2. ASSUME NEW w \in Workers, ReclaimStaleTasks(w)
        PROVE  PaidInv'
    <2>1. /\ UNCHANGED <<cand, beats, ran, faults, hb>>
          /\ pc[w] = "reclaim" /\ pc' = [pc EXCEPT ![w] = "select"]
      BY <1>2 DEF ReclaimStaleTasks, ReclaimUpdate, Goto, historyVars, faultVars
    <2>2. ASSUME NEW t \in Tasks
          PROVE  Paid(t)'
      <3>1. Hands(t)' = Hands(t)
        BY <2>1 DEF Hands
      <3>2. CASE IsStale(t)
        BY <2>1, <3>1, <3>2, <1>n, PaidKept DEF IsStale, Loose, Guarded
      <3>3. CASE ~IsStale(t)
        <4>1. status'[t] = status[t] /\ owner'[t] = owner[t]
          BY <1>2, <3>3 DEF ReclaimStaleTasks, ReclaimUpdate
        <4> QED
          BY <2>1, <4>1, <1>n, PaidElsewhere
      <3> QED
        BY <3>2, <3>3
    <2> QED
      BY <2>1, <2>2, <1>r
  <1>3. ASSUME NEW w \in Workers, ClaimSelect(w)
        PROVE  PaidInv'
    <2>1. /\ UNCHANGED <<status, owner, hb, ran, faults>> /\ pc[w] = "select"
          /\ \A v \in Workers : ~HoldsLock(v)
      BY <1>3, LockExcludes
         DEF ClaimSelect, boardVars, historyVars, faultVars, HoldsLock
    <2>2. CASE NextProfile(w)
      <3>1. /\ pc'[w] \in {"select", "reclaim"}
            /\ \A v \in Workers \ {w} :
                  pc'[v] = pc[v] /\ cand'[v] = cand[v] /\ beats'[v] = beats[v]
        BY <2>2, NextProfileGoesOn DEF NextProfile, Release
      <3> QED
        BY <2>1, <3>1, <1>n, PaidElsewhere
    <2>3. ASSUME NEW s \in Tasks, IsBestCandidate(idx[w], s),
                 cand' = [cand EXCEPT ![w] = s], Goto(w, "update"), UNCHANGED beats
          PROVE  PaidInv'
      <3>1. pc' = [pc EXCEPT ![w] = "update"] /\ status[s] = "todo"
        BY <2>3 DEF Goto, IsBestCandidate, Candidates
      <3>2. Paid(s)'
        <4>1. w \notin Hands(s) /\ Hands(s)' = Hands(s) \cup {w}
          BY <2>1, <2>3, <3>1 DEF Hands
        <4>2. Loose(s) /\ ~Loose(s)'
          BY <2>1, <2>3, <3>1 DEF Loose, HoldsLock
        <4> QED
          BY <2>1, <4>1, <4>2, PaidByTaking
      <3>3. ASSUME NEW t \in Tasks, t # s
            PROVE  Paid(t)'
        <4>1. \A v \in Workers : v # w =>
                 pc'[v] = pc[v] /\ cand'[v] = cand[v] /\ beats'[v] = beats[v]
          BY <2>3, <3>1
        <4>2. Hands(t)' = Hands(t)
          BY <2>1, <2>3, <3>1, <3>3, <4>1 DEF Hands
        <4>3. Guarded(t) => Guarded(t)'
          BY <2>1, <2>3, <3>1, <3>3, <4>1 DEF Guarded, Working
        <4>4. Loose(t)' => Loose(t)
          BY <2>1, <4>3 DEF Loose, HoldsLock
        <4> QED
          BY <2>1, <4>2, <4>4, <1>n, PaidKept
      <3> QED
        BY <2>1, <3>2, <3>3, <1>r
    <2> QED
      BY <1>3, <2>2, <2>3 DEF ClaimSelect
  <1>4. ASSUME NEW w \in Workers, Claim(w)
        PROVE  PaidInv'
    <2>1. /\ UNCHANGED <<cand, ran, faults>> /\ pc[w] = "update"
          /\ pc' = [pc EXCEPT ![w] = "run"] /\ beats' = [beats EXCEPT ![w] = TRUE]
          /\ ClaimUpdate(cand[w], w) /\ cand[w] \in Tasks
      BY <1>4 DEF Claim, Goto, historyVars, faultVars
    <2>2. ASSUME NEW t \in Tasks
          PROVE  Paid(t)'
      <3>1. Hands(t)' = Hands(t)
        BY <2>1 DEF Hands
      <3>2. CASE t = cand[w] /\ status[t] = "todo"
        <4>1. status'[t] = "in_progress" /\ owner'[t] = w /\ hb'[t] = "fresh"
          BY <2>1, <3>2 DEF ClaimUpdate
        <4>2. Guarded(t)'
          BY <2>1, <3>2, <4>1 DEF Guarded, Working
        <4>3. ~Loose(t)'
          BY <4>1, <4>2 DEF Loose
        <4> QED
          BY <2>1, <3>1, <4>3, <1>n, PaidKept
      <3>3. CASE ~(t = cand[w] /\ status[t] = "todo")
        <4>1. status'[t] = status[t] /\ owner'[t] = owner[t] /\ hb'[t] = hb[t]
          BY <2>1, <3>3 DEF ClaimUpdate
        <4>2. Guarded(t) => Guarded(t)'
          BY <2>1, <4>1 DEF Guarded, Working
        <4>3. Loose(t)' => Loose(t)
          BY <2>1, <3>3, <4>1, <4>2 DEF Loose
        <4> QED
          BY <2>1, <3>1, <4>3, <1>n, PaidKept
      <3> QED
        BY <3>2, <3>3
    <2> QED
      BY <2>1, <2>2, <1>r
  <1>5. ASSUME NEW w \in Workers, Heartbeat(w)
        PROVE  PaidInv'
    <2>1. /\ UNCHANGED <<pc, cand, beats, ran, faults, status, owner>>
          /\ hb' = [hb EXCEPT ![cand[w]] = "fresh"]
      BY <1>5 DEF Heartbeat, HeartbeatUpdate, loopVars, historyVars, faultVars
    <2>2. ASSUME NEW t \in Tasks
          PROVE  Paid(t)'
      <3>1. Hands(t)' = Hands(t)
        BY <2>1 DEF Hands
      <3>2. Guarded(t) => Guarded(t)'
        BY <2>1 DEF Guarded, Working
      <3>3. Loose(t)' => Loose(t)
        BY <2>1, <3>2 DEF Loose
      <3> QED
        BY <2>1, <3>1, <3>3, <1>n, PaidKept
    <2> QED
      BY <2>1, <2>2, <1>r
  <1>6. ASSUME NEW w \in Workers, HeartbeatRaises(w) \/ TickRaises(w)
        PROVE  PaidInv'
    <2>1. ran' = ran /\ faults' = faults + 1
      BY <1>6 DEF HeartbeatRaises, TickRaises, Fault, historyVars
    <2>2. \A t \in Tasks : Hands(t)' \subseteq Hands(t)
      BY <1>6 DEF HeartbeatRaises, TickRaises, Goto, Release, Hands
    <2> QED
      BY <2>1, <2>2, <1>r, PaidByFault
  <1>7. ASSUME NEW w \in Workers, RunStage(w)
        PROVE  PaidInv'
    <2>1. /\ UNCHANGED <<cand, beats, faults, owner, hb>> /\ pc[w] = "run"
          /\ pc' = [pc EXCEPT ![w] = "complete"]
          /\ ran' = [ran EXCEPT ![cand[w]] = ran[cand[w]] + 1]
          /\ cand[w] \in Tasks /\ status[cand[w]] # "absent"
      BY <1>7 DEF RunStage, CreateTask, Goto, boardVars, faultVars
    <2>2. \A t \in Tasks : status[t] # "absent" => status'[t] = status[t]
      BY <1>7 DEF RunStage, CreateTask, IsNextId, boardVars
    <2>3. ASSUME NEW t \in Tasks, t = cand[w]
          PROVE  Paid(t)'
      <3>1. w \in Hands(t) /\ Hands(t)' \subseteq Hands(t) \ {w}
        BY <2>1, <2>3 DEF Hands
      <3>2. Guarded(t) => Guarded(t)'
        BY <2>1 DEF Guarded, Working
      <3>3. Loose(t)' => Loose(t)
        BY <2>1, <2>2, <2>3, <3>2 DEF Loose
      <3> QED
        BY <2>1, <2>3, <3>1, <3>3, PaidBySpending
    <2>4. ASSUME NEW t \in Tasks, t # cand[w]
          PROVE  Paid(t)' /\ ran'[t] = ran[t]
      <3>1. CASE status[t] = "absent"
        BY <2>1, <2>4, <3>1, PaidWhenNew DEF Hands
      <3>2. CASE status[t] # "absent"
        BY <2>1, <2>2, <2>4, <3>2, <1>n, PaidElsewhere
      <3> QED
        BY <2>1, <2>4, <3>1, <3>2
    <2> QED
      BY <2>1, <2>3, <2>4, <1>r
  <1>8. ASSUME NEW w \in Workers, RunnerRaises(w) \/ FailTaskRead(w) \/ Start(w)
        PROVE  PaidInv'
    <2>1. /\ UNCHANGED <<cand, beats, ran, faults, status, owner, hb>>
          /\ \/ pc[w] = "run" /\ pc' = [pc EXCEPT ![w] = "fail_read"]
             \/ pc[w] = "fail_read" /\ pc' = [pc EXCEPT ![w] = "fail_write"]
             \/ pc[w] = "down" /\ pc' = [pc EXCEPT ![w] = "reclaim"]
      BY <1>8 DEF RunnerRaises, FailTaskRead, Start, Goto, boardVars, historyVars,
                  faultVars
    <2>2. ASSUME NEW t \in Tasks
          PROVE  Paid(t)'
      <3>1. Hands(t)' = Hands(t)
        BY <2>1 DEF Hands
      <3>2. Guarded(t) => Guarded(t)'
        BY <2>1 DEF Guarded, Working
      <3>3. Loose(t)' => Loose(t)
        BY <2>1, <3>2 DEF Loose
      <3> QED
        BY <2>1, <3>1, <3>3, <1>n, PaidKept
    <2> QED
      BY <2>1, <2>2, <1>r
  <1>9. ASSUME NEW w \in Workers, CompleteRaises(w)
        PROVE  PaidInv'
    <2>1. /\ UNCHANGED <<cand, beats, ran, status, owner, hb>> /\ faults' = faults + 1
          /\ pc[w] = "complete" /\ pc' = [pc EXCEPT ![w] = "fail_read"]
      BY <1>9 DEF CompleteRaises, Fault, Goto, boardVars, historyVars
    <2>2. ASSUME NEW t \in Tasks
          PROVE  Paid(t)'
      <3>1. Guarded(t) => Guarded(t)'
        BY <2>1 DEF Guarded, Working
      <3>2. Loose(t)' => Loose(t)
        BY <2>1, <3>1 DEF Loose
      <3>3. CASE t = cand[w]
        <4>1. w \notin Hands(t) /\ Hands(t)' = Hands(t) \cup {w}
          BY <2>1, <3>3 DEF Hands
        <4> QED
          BY <2>1, <3>2, <4>1, PaidByTaking
      <3>4. CASE t # cand[w]
        <4>1. Hands(t)' = Hands(t)
          BY <2>1, <3>4 DEF Hands
        <4> QED
          BY <2>1, <4>1, PaidByFault
      <3> QED
        BY <3>3, <3>4
    <2> QED
      BY <2>1, <2>2, <1>r
  <1>10. ASSUME NEW w \in Workers, CompleteTask(w) \/ FailTaskWrite(w)
         PROVE  PaidInv'
    <2>1. PICK s \in Tasks : s = cand[w]
      BY <1>10 DEF CompleteTask, FailTaskWrite
    <2>2. /\ UNCHANGED <<ran, faults, hb>>
          /\ pc'[w] \in {"select", "reclaim"}
          /\ \A v \in Workers : v # w =>
                pc'[v] = pc[v] /\ cand'[v] = cand[v] /\ beats'[v] = beats[v]
      BY <1>10, NextProfileGoesOn
         DEF CompleteTask, CompleteUpdate, FailTaskWrite, FailUpdate, NextProfile,
             Release, historyVars, faultVars
    <2>3. \A t \in Tasks : t # s => status'[t] = status[t] /\ owner'[t] = owner[t]
      BY <1>10, <2>1 DEF CompleteTask, CompleteUpdate, FailTaskWrite, FailUpdate
    <2>4. ASSUME NEW t \in Tasks, t # s
          PROVE  Paid(t)'
      <3>1. Hands(t)' = Hands(t)
        BY <2>1, <2>2, <2>4 DEF Hands
      <3>2. Guarded(t) => Guarded(t)'
        BY <2>1, <2>2, <2>3, <2>4 DEF Guarded, Working
      <3>3. pc[w] # "update"
        BY <1>10 DEF CompleteTask, FailTaskWrite
      <3>4. Loose(t)' => Loose(t)
        BY <2>2, <2>3, <2>4, <3>2, <3>3 DEF Loose
      <3> QED
        BY <2>2, <3>1, <3>4, <1>n, PaidKept
    <2>5. CASE CompleteTask(w)
      <3>1. status'[s] = "done"
        BY <2>1, <2>5 DEF CompleteTask, CompleteUpdate
      <3>2. Hands(s)' \subseteq Hands(s) /\ ~Loose(s)'
        BY <2>2, <3>1 DEF Hands, Loose
      <3>3. Paid(s)'
        BY <2>2, <3>2, <1>n, PaidKept
      <3> QED
        BY <2>2, <2>4, <3>3, <1>r
    <2>6. CASE FailTaskWrite(w)
      <3>1. w \in Hands(s) /\ Hands(s)' \subseteq Hands(s) \ {w}
        BY <2>1, <2>2, <2>6 DEF Hands, FailTaskWrite
      <3>2. Paid(s)'
        BY <2>2, <3>1, PaidBySpending
      <3> QED
        BY <2>2, <2>4, <3>2, <1>r
    <2> QED
      BY <1>10, <2>5, <2>6
  <1>11. ASSUME NEW s \in Tasks, HeartbeatExpires(s)
         PROVE  PaidInv'
    <2>1. /\ UNCHANGED <<pc, cand, beats, ran, status, owner>>
          /\ hb' = [hb EXCEPT ![s] = "stale"] /\ status[s] = "in_progress"
      BY <1>11 DEF HeartbeatExpires, loopVars, historyVars
    <2>2. \A t \in Tasks : Hands(t)' = Hands(t)
      BY <2>1 DEF Hands
    <2>3. CASE Beating(s)
      <3>1. faults' = faults + 1
        BY <1>11, <2>3 DEF HeartbeatExpires, Fault
      <3> QED
        BY <2>1, <2>2, <3>1, <1>r, PaidByFault
    <2>4. CASE ~Beating(s)
      <3>1. faults' = faults
        BY <1>11, <2>4 DEF HeartbeatExpires, faultVars
      <3>2. ~Guarded(s)
        BY <2>4 DEF Beating, Guarded
      <3>3. \A t \in Tasks : Guarded(t) => Guarded(t)'
        BY <2>1, <3>2 DEF Guarded, Working
      <3>4. \A t \in Tasks : Loose(t)' => Loose(t)
        BY <2>1, <3>3 DEF Loose
      <3> QED
        BY <2>1, <2>2, <3>1, <3>4, <1>n, <1>r, PaidKept
    <2> QED
      BY <2>3, <2>4
  <1>12. ASSUME NEW p \in Processes, Crash(p)
         PROVE  PaidInv'
    <2>1. ran' = ran /\ faults' = faults + 1
      BY <1>12 DEF Crash, Fault, historyVars
    <2>2. \A t \in Tasks : Hands(t)' \subseteq Hands(t)
      BY <1>12 DEF Crash, Hands
    <2> QED
      BY <2>1, <2>2, <1>r, PaidByFault
  <1>13. ASSUME NEW p \in Processes, NEW s \in Tasks, BlockTask(p, s)
         PROVE  PaidInv'
    <2>1. ran' = ran /\ faults' = faults + 1
      BY <1>13 DEF BlockTask, Fault, historyVars
    <2>2. \A t \in Tasks : Hands(t)' \subseteq Hands(t)
      BY <1>13 DEF BlockTask, loopVars, Hands
    <2> QED
      BY <2>1, <2>2, <1>r, PaidByFault
  <1>14. CASE UNCHANGED vars
    <2>1. UNCHANGED <<status, owner, hb, pc, cand, beats, ran, faults>>
      BY <1>14 DEF vars, boardVars
    <2> QED
      BY <2>1, <1>n, <1>r, PaidElsewhere
  <1> QED
    BY <1>1, <1>2, <1>3, <1>4, <1>5, <1>6, <1>7, <1>8, <1>9, <1>10, <1>11, <1>12,
       <1>13, <1>14 DEF Next, LoopStep

\* In one process, whatever raises, stalls or dies, a worker function returns for
\* a task at most once more than there were faults: without one nothing is run
\* again, and no fault has a task run again more than once.
THEOREM FleetRerunsArePaid ==
    ASSUME SingleProcess
    PROVE  Spec => []RerunsArePaid
  <1>1. Init => PaidInv
    <2> SUFFICES ASSUME Init PROVE PaidInv
      OBVIOUS
    <2>1. \A t \in Tasks : Hands(t) = {} /\ ~Loose(t) /\ ran[t] = 0
      BY DEF Init, BoardInit, Hands, Loose
    <2>2. faults = 0
      BY DEF Init
    <2> QED
      BY <2>1, <2>2, FS_EmptySet DEF PaidInv, Paid
  <1>2. IInv /\ PaidInv /\ [Next]_vars => PaidInv'
    BY NextIInv, NextPaid
  <1>3. IInv /\ PaidInv => RerunsArePaid
    <2> SUFFICES ASSUME IInv, NEW t \in Tasks, Paid(t) PROVE ran[t] <= 1 + faults
      BY DEF PaidInv, RerunsArePaid
    <2>1. Cardinality(Hands(t)) \in Nat
      BY FS_CardinalityType DEF Paid
    <2>2. ran[t] \in Nat /\ faults \in Nat
      BY FleetAssumption DEF IInv, TypeOK, FleetAssumption
    <2> QED
      BY <2>1, <2>2 DEF Paid
  <1> QED
    BY <1>1, <1>2, <1>3, InitIInv, NextIInv, PTL DEF Spec

-----------------------------------------------------------------------------
(***************************************************************************)
(* What a step may never do, and the leases it implements.                 *)
(***************************************************************************)
LEMMA TerminalStays ==
    ASSUME IInv, LeaseInv, [Next]_vars, OnlyCrashes', NEW t \in Tasks,
           status[t] \in {"done", "blocked"}
    PROVE  status'[t] = status[t]
  <1> USE DEF IInv, TypeOK, BoardTypeOK, HandInv, Holding, LeaseInv, Working
  <1>1. ASSUME NEW s, NEW a, CreateTask(s, a)
        PROVE  status'[t] = status[t]
    BY <1>1 DEF CreateTask, IsNextId
  <1>2. ASSUME NEW w \in Workers, CompleteTask(w) \/ FailTaskWrite(w)
        PROVE  status'[t] = status[t]
    BY <1>2 DEF CompleteTask, CompleteUpdate, FailTaskWrite, FailUpdate
  <1>3. ASSUME NEW w \in Workers, ReclaimStaleTasks(w) \/ Claim(w)
        PROVE  status'[t] = status[t]
    BY <1>3 DEF ReclaimStaleTasks, ReclaimUpdate, IsStale, Claim, ClaimUpdate
  <1>4. ASSUME NEW w \in Workers,
               HeartbeatRaises(w) \/ CompleteRaises(w) \/ TickRaises(w)
        PROVE  FALSE
    BY <1>4 DEF HeartbeatRaises, CompleteRaises, TickRaises, Fault, OnlyCrashes
  <1>5. ASSUME NEW p \in Processes, NEW u \in Tasks, BlockTask(p, u)
        PROVE  FALSE
    BY <1>5 DEF BlockTask, Fault, OnlyCrashes
  <1>6. ASSUME NEW w \in Workers,
               ClaimSelect(w) \/ Heartbeat(w) \/ RunnerRaises(w) \/ FailTaskRead(w)
                 \/ Start(w)
        PROVE  status'[t] = status[t]
    BY <1>6 DEF ClaimSelect, Heartbeat, HeartbeatUpdate, RunnerRaises, FailTaskRead,
                Start, boardVars
  <1>7. ASSUME NEW w \in Workers, RunStage(w)
        PROVE  status'[t] = status[t]
    BY <1>1, <1>7 DEF RunStage, boardVars
  <1>8. ASSUME NEW p \in Processes, NEW a \in Alerts, SubmitAlert(p, a)
        PROVE  status'[t] = status[t]
    BY <1>1, <1>8 DEF SubmitAlert
  <1>9. CASE \/ \E u \in Tasks : HeartbeatExpires(u)
             \/ \E p \in Processes : Crash(p)
             \/ UNCHANGED vars
    BY <1>9 DEF HeartbeatExpires, Crash, vars, boardVars
  <1> QED
    BY <1>2, <1>3, <1>4, <1>5, <1>6, <1>7, <1>8, <1>9 DEF Next, LoopStep

\* In one process that at worst has died, nobody puts a finished task back to
\* work: complete_task and fail_task write without looking, but only on a row
\* their loop still owns.
THEOREM FleetTerminalIsFinal ==
    ASSUME SingleProcess
    PROVE  Spec => TerminalIsFinal
  <1> DEFINE Kept == OnlyCrashes => LeaseInv
             Final == OnlyCrashes' => \A t \in Tasks :
                         status[t] \in {"done", "blocked"} => status'[t] = status[t]
  <1>1. Init => Kept
    BY DEF Init, LeaseInv, Working, HoldsLock
  <1>2. IInv /\ Kept /\ [Next]_vars => Kept'
    <2> SUFFICES ASSUME IInv, Kept, [Next]_vars, OnlyCrashes' PROVE LeaseInv'
      OBVIOUS
    <2> QED
      BY HarmGrows, NextLease DEF OnlyCrashes
  <1>3. IInv /\ Kept /\ [Next]_vars => [Final]_vars
    <2> SUFFICES ASSUME IInv, Kept, [Next]_vars, OnlyCrashes' PROVE Final
      OBVIOUS
    <2>1. LeaseInv
      BY HarmGrows DEF OnlyCrashes
    <2> QED
      BY <2>1, TerminalStays
  <1> HIDE DEF Kept
  <1>4. Spec => [][Final]_vars
    <2> HIDE DEF Final
    <2> QED
      BY <1>1, <1>2, <1>3, InitIInv, NextIInv, PTL DEF Spec
  <1> QED
    BY <1>4 DEF TerminalIsFinal

\* The abstract state of a board and its loops.
Phases == [t \in Tasks |-> IF status[t] = "in_progress" THEN "taken" ELSE status[t]]
Works == [w \in Workers |-> IF Working(w) THEN cand[w] ELSE 0]

\* A step that neither takes a task nor lets one go.
LEMMA LeaseStutters ==
    ASSUME \A t \in Tasks : status'[t] = status[t],
           \A w \in Workers : Working(w)' <=> Working(w),
           \A w \in Workers : Working(w) => cand'[w] = cand[w]
    PROVE  Phases' = Phases /\ Works' = Works
  BY DEF Phases, Works

\* create_task offers a task.
LEMMA CreateTaskOffers ==
    ASSUME IInv, NEW s, NEW a, CreateTask(s, a),
           \A w \in Workers : Working(w)' <=> Working(w), UNCHANGED cand
    PROVE  Lease!Next
  <1>1. PICK t \in Tasks : status[t] = "absent" /\ status' = [status EXCEPT ![t] = "todo"]
    BY DEF CreateTask, IsNextId
  <1>2. Phases[t] = "absent" /\ Phases' = [Phases EXCEPT ![t] = "todo"]
    BY <1>1 DEF Phases, IInv, TypeOK, BoardTypeOK
  <1>3. Works' = Works
    BY DEF Works
  <1>4. Lease!Offer(t)
    BY <1>2, <1>3 DEF Lease!Offer, Phases, Works
  <1> QED
    BY <1>4 DEF Lease!Next

LEMMA StepIsLease ==
    ASSUME SingleProcess, IInv, LeaseInv, [Next]_vars, OnlyCrashes'
    PROVE  Lease!Next \/ UNCHANGED Lease!leaseVars
  <1> USE DEF IInv, TypeOK, BoardTypeOK, HandInv, Holding, LeaseInv, Working
  <1>t. \A t \in Tasks : t # 0
    BY BoardAssumption DEF Tasks, BoardAssumption
  <1>0. ASSUME Phases' = Phases, Works' = Works
        PROVE  UNCHANGED Lease!leaseVars
    BY <1>0 DEF Lease!leaseVars, Phases, Works
  <1>1. ASSUME NEW p \in Processes, NEW a \in Alerts, SubmitAlert(p, a)
        PROVE  Lease!Next
    BY <1>1, CreateTaskOffers DEF SubmitAlert, loopVars
  <1>2. ASSUME NEW w \in Workers, ReclaimStaleTasks(w)
        PROVE  Lease!Next
    <2>0. PICK lost \in SUBSET Tasks : lost = {t \in Tasks : IsStale(t)}
      OBVIOUS
    <2>1. \A t \in lost : Phases[t] = "taken" /\ \A v \in Workers : Works[v] # t
      <3> SUFFICES ASSUME NEW t \in Tasks, IsStale(t)
                   PROVE  Phases[t] = "taken" /\ \A v \in Workers : Works[v] # t
        BY <2>0
      <3>1. \A v \in Workers : Working(v) => cand[v] # t
        BY DEF IsStale
      <3> QED
        BY <3>1, <1>t DEF IsStale, Phases, Works
    <2>2. Phases' = [t \in Tasks |-> IF t \in lost THEN "todo" ELSE Phases[t]]
      BY <1>2, <2>0 DEF ReclaimStaleTasks, ReclaimUpdate, IsStale, Phases
    <2>3. Works' = Works
      BY <1>2 DEF ReclaimStaleTasks, Goto, Works
    <2>4. Lease!Revoke(lost)
      BY <2>1, <2>2, <2>3 DEF Lease!Revoke, Lease!Idle, Phases, Works
    <2> QED
      BY <2>4 DEF Lease!Next
  <1>3. ASSUME NEW w \in Workers, ClaimSelect(w)
        PROVE  Phases' = Phases /\ Works' = Works
    <2>1. ~Working(w) /\ ~Working(w)'
      BY <1>3 DEF ClaimSelect, NextProfile, Goto
    <2>2. \A v \in Workers \ {w} : pc'[v] = pc[v] /\ cand'[v] = cand[v]
      BY <1>3, NextProfileGoesOn DEF ClaimSelect, Goto
    <2> QED
      BY <1>3, <2>1, <2>2, LeaseStutters DEF ClaimSelect, boardVars
  <1>4. ASSUME NEW w \in Workers, Claim(w)
        PROVE  Lease!Next
    <2>1. PICK t \in Tasks : t = cand[w]
      BY <1>4 DEF Claim
    <2>2. status[t] = "todo" /\ status' = [status EXCEPT ![t] = "in_progress"]
      BY <1>4, <2>1 DEF Claim, ClaimUpdate
    <2>3. /\ Phases[t] = "todo" /\ Phases' = [Phases EXCEPT ![t] = "taken"]
          /\ \A v \in Workers : Works[v] # t
          /\ Works[w] = 0
      <3>1. \A v \in Workers : Working(v) => cand[v] # t
        BY <2>2
      <3>2. ~Working(w)
        BY <1>4 DEF Claim
      <3> QED
        BY <2>2, <3>1, <3>2, <1>t DEF Phases, Works
    <2>4. Works' = [Works EXCEPT ![w] = t]
      BY <1>4, <2>1 DEF Claim, Goto, Works
    <2>5. Lease!Acquire(w, t)
      BY <2>3, <2>4 DEF Lease!Acquire, Lease!Idle, Phases, Works
    <2> QED
      BY <2>5 DEF Lease!Next
  <1>5. ASSUME NEW w \in Workers, Heartbeat(w)
        PROVE  Phases' = Phases /\ Works' = Works
    BY <1>5, LeaseStutters DEF Heartbeat, HeartbeatUpdate, loopVars
  <1>6. ASSUME NEW w \in Workers, RunStage(w)
        PROVE  Lease!Next \/ (Phases' = Phases /\ Works' = Works)
    <2>1. (\A v \in Workers : Working(v)' <=> Working(v)) /\ UNCHANGED cand
      BY <1>6 DEF RunStage, Goto
    <2>2. CASE UNCHANGED boardVars
      BY <2>1, <2>2, LeaseStutters DEF boardVars
    <2>3. CASE CreateTask(stage[cand[w]] + 1, origin[cand[w]])
      BY <2>1, <2>3, CreateTaskOffers
    <2> QED
      BY <1>6, <2>2, <2>3 DEF RunStage
  <1>7. ASSUME NEW w \in Workers, RunnerRaises(w) \/ FailTaskRead(w) \/ Start(w)
        PROVE  Phases' = Phases /\ Works' = Works
    BY <1>7, LeaseStutters DEF RunnerRaises, FailTaskRead, Start, Goto, boardVars
  <1>8. ASSUME NEW w \in Workers, CompleteTask(w) \/ FailTaskWrite(w)
        PROVE  Lease!Next
    <2>1. PICK t \in Tasks : t = cand[w]
      BY <1>8 DEF CompleteTask, FailTaskWrite
    <2>2. PICK v \in {"done", "todo", "blocked"} :
             status[t] = "in_progress" /\ status' = [status EXCEPT ![t] = v]
      BY <1>8, <2>1 DEF CompleteTask, CompleteUpdate, FailTaskWrite, FailUpdate
    <2>3. Phases[t] = "taken" /\ Phases' = [Phases EXCEPT ![t] = v]
      BY <2>2 DEF Phases
    <2>4. Works[w] = t /\ t # 0
      BY <1>t, <1>8, <2>1 DEF CompleteTask, FailTaskWrite, Works
    <2>5. NextProfile(w)
      BY <1>8 DEF CompleteTask, FailTaskWrite
    <2>6. ~Working(w)' /\ \A u \in Workers \ {w} : pc'[u] = pc[u] /\ cand'[u] = cand[u]
      BY <2>5, NextProfileGoesOn
    <2>7. Works' = [Works EXCEPT ![w] = 0]
      BY <2>6 DEF Works
    <2>8. Lease!Settle(w, v)
      BY <2>3, <2>4, <2>7 DEF Lease!Settle, Phases, Works
    <2> QED
      BY <2>8 DEF Lease!Next
  <1>9. ASSUME NEW t \in Tasks, HeartbeatExpires(t)
        PROVE  Phases' = Phases /\ Works' = Works
    BY <1>9, LeaseStutters DEF HeartbeatExpires, loopVars
  <1>10. ASSUME NEW p \in Processes, Crash(p)
         PROVE  Lease!Next
    <2> DEFINE dead == {w \in Workers : ProcessOf[w] = p}
    <2>1. Phases' = Phases
      BY <1>10 DEF Crash, boardVars, Phases
    <2>2. Works' = [w \in Workers |-> IF w \in dead THEN 0 ELSE Works[w]]
      BY <1>10 DEF Crash, Works
    <2>3. Lease!Die(dead)
      BY <2>1, <2>2 DEF Lease!Die, Phases, Works
    <2> QED
      BY <2>3 DEF Lease!Next
  <1>11. ASSUME NEW w \in Workers,
                HeartbeatRaises(w) \/ CompleteRaises(w) \/ TickRaises(w)
         PROVE  FALSE
    BY <1>11 DEF HeartbeatRaises, CompleteRaises, TickRaises, Fault, OnlyCrashes
  <1>12. ASSUME NEW p \in Processes, NEW t \in Tasks, BlockTask(p, t)
         PROVE  FALSE
    BY <1>12 DEF BlockTask, Fault, OnlyCrashes
  <1>13. CASE UNCHANGED vars
    BY <1>13, <1>0, LeaseStutters DEF vars, boardVars
  <1> QED
    BY <1>0, <1>1, <1>2, <1>3, <1>4, <1>5, <1>6, <1>7, <1>8, <1>9, <1>10, <1>11,
       <1>12, <1>13 DEF Next, LoopStep

\* The loops of one process implement exclusive leases as long as the process
\* only dies: claim_task acquires, complete_task and fail_task settle, and
\* reclaim_stale_tasks revokes only what nobody works on.
THEOREM FleetImplementsLease ==
    ASSUME SingleProcess
    PROVE  Spec => ImplementsLease
  <1> DEFINE Kept == OnlyCrashes => LeaseInv
             Leased == OnlyCrashes' => [Lease!Next]_(Lease!leaseVars)
  <1>1. Init => Kept /\ Lease!Init
    BY DEF Init, BoardInit, LeaseInv, Working, HoldsLock, Lease!Init
  <1>2. IInv /\ Kept /\ [Next]_vars => Kept'
    <2> SUFFICES ASSUME IInv, Kept, [Next]_vars, OnlyCrashes' PROVE LeaseInv'
      OBVIOUS
    <2> QED
      BY HarmGrows, NextLease DEF OnlyCrashes
  <1>3. IInv /\ Kept /\ [Next]_vars => [Leased]_vars
    <2> SUFFICES ASSUME IInv, Kept, [Next]_vars, OnlyCrashes'
                 PROVE  [Lease!Next]_(Lease!leaseVars)
      OBVIOUS
    <2>1. LeaseInv
      BY HarmGrows DEF OnlyCrashes
    <2> QED
      BY <2>1, StepIsLease
  <1> HIDE DEF Kept
  <1>4. Spec => Lease!Init /\ [][Leased]_vars
    <2> HIDE DEF Leased
    <2> QED
      BY <1>1, <1>2, <1>3, InitIInv, NextIInv, PTL DEF Spec
  <1> QED
    BY <1>4 DEF ImplementsLease
=============================================================================

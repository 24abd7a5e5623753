---------------------------- MODULE KanbanFleet ----------------------------
(***************************************************************************)
(* Dispatch loops (src/xmlx_vlm/kanban/dispatcher.py) that run the trading *)
(* pipeline of src/xmlx_vlm/ai_trader/runtime/kanban_bridge.py over one    *)
(* SQLite file.  A loop is one thread running dispatch_once for ever; the  *)
(* loops of one process share a board object and so its threading.Lock,    *)
(* the loops of different processes share only the file.                   *)
(*                                                                         *)
(* A worker id is fresh for every claim (uuid4); the model uses the loop   *)
(* itself, since a row is todo only with worker_id NULL and a loop works   *)
(* on one task at a time.                                                  *)
(***************************************************************************)
EXTENDS KanbanBoard

CONSTANTS Processes,   \* operating system processes, one board object each
          ProcessOf,   \* Workers -> Processes
          FaultKinds,  \* which of the faults below may happen
          MaxFaults    \* bound on how many of them happen

ASSUME FleetAssumption ==
    /\ ProcessOf \in [Workers -> Processes]
    /\ FaultKinds \subseteq {"crash", "stall", "dberror", "block"}
    /\ MaxFaults \in Nat

VARIABLES pc,        \* Workers -> where dispatch_once is
          idx,       \* Workers -> the profile whose turn it is
          cand,      \* Workers -> the task id in hand, 0 for none
          seen,      \* Workers -> failure_count read by fail_task
          beats,     \* Workers -> is the heartbeat thread of the task alive
          submitted, \* alerts published so far
          ran,       \* history: Tasks -> returns of the task's worker function
          failCalls, \* history: Tasks -> committed fail_task calls
          faults,    \* faults so far
          harm       \* history: the kinds of these faults

vars == <<boardVars, pc, idx, cand, seen, beats, submitted, ran, failCalls,
          faults, harm>>
loopVars == <<pc, idx, cand, seen, beats>>
historyVars == <<submitted, ran, failCalls>>
faultVars == <<faults, harm>>

PCs == {"reclaim", "select", "update", "run", "complete",
        "fail_read", "fail_write", "down"}

TypeOK ==
    /\ BoardTypeOK
    /\ pc \in [Workers -> PCs]
    /\ idx \in [Workers -> Stages]
    /\ cand \in [Workers -> Tasks \cup {0}]
    /\ seen \in [Workers -> Nat]
    /\ beats \in [Workers -> BOOLEAN]
    /\ submitted \subseteq Alerts
    /\ ran \in [Tasks -> Nat]
    /\ failCalls \in [Tasks -> Nat]
    /\ faults \in 0 .. MaxFaults
    /\ harm \subseteq FaultKinds

Init ==
    /\ BoardInit
    /\ pc = [w \in Workers |-> "reclaim"]
    /\ idx = [w \in Workers |-> 1]
    /\ cand = [w \in Workers |-> 0]
    /\ seen = [w \in Workers |-> 0]
    /\ beats = [w \in Workers |-> FALSE]
    /\ submitted = {}
    /\ ran = [t \in Tasks |-> 0]
    /\ failCalls = [t \in Tasks |-> 0]
    /\ faults = 0
    /\ harm = {}

-----------------------------------------------------------------------------
\* fail_task without the lock; a lock nobody shares.
HoldsLockToClaim(w) == pc[w] = "update"
LockFreeAlways(p) == TRUE

\* Between the two statements of claim_task and of fail_task a loop holds the
\* lock of its process's board.
HoldsLock(w) == pc[w] \in {"update", "fail_write"}
LockFree(p)  == \A w \in Workers : ProcessOf[w] = p => ~HoldsLock(w)
MayUse(w)    == LockFree(ProcessOf[w])

\* The loop has a claimed task in hand, from the return of claim_task to the
\* end of the finally clause; its heartbeat thread runs all that time.
Working(w) == pc[w] \in {"run", "complete", "fail_read", "fail_write"}

Goto(w, l) == pc' = [pc EXCEPT ![w] = l]

\* The loop lets go of the task; the finally clause stops the heartbeats.
Release(w) ==
    /\ cand' = [cand EXCEPT ![w] = 0]
    /\ seen' = [seen EXCEPT ![w] = 0]
    /\ beats' = [beats EXCEPT ![w] = FALSE]

\* One profile too many.
NextProfileTooFar(w) ==
    /\ Release(w)
    /\ IF idx[w] <= NStages
       THEN idx' = [idx EXCEPT ![w] = @ + 1] /\ Goto(w, "select")
       ELSE idx' = [idx EXCEPT ![w] = 1] /\ Goto(w, "reclaim")

\* The for loop of dispatch_once goes to the next profile, or ends.
NextProfile(w) ==
    /\ Release(w)
    /\ IF idx[w] < NStages
       THEN idx' = [idx EXCEPT ![w] = @ + 1] /\ Goto(w, "select")
       ELSE idx' = [idx EXCEPT ![w] = 1] /\ Goto(w, "reclaim")

\* A statement raises (the database stays locked past busy_timeout); the
\* transaction is rolled back.
Fault(kind) ==
    /\ kind \in FaultKinds
    /\ faults < MaxFaults
    /\ faults' = faults + 1
    /\ harm' = harm \cup {kind}

-----------------------------------------------------------------------------
\* submit_alert: any process publishes a task for the first profile.
SubmitAlert(p, a) ==
    /\ LockFree(p)
    /\ a \notin submitted
    /\ submitted' = submitted \cup {a}
    /\ CreateTask(1, a)
    /\ UNCHANGED <<loopVars, ran, failCalls, faultVars>>

ReclaimStaleTasks(w) ==
    /\ pc[w] = "reclaim"
    /\ MayUse(w)
    /\ ReclaimUpdate
    /\ Goto(w, "select")
    /\ UNCHANGED <<idx, cand, seen, beats, historyVars, faultVars>>

ClaimSelect(w) ==
    /\ pc[w] = "select"
    /\ MayUse(w)
    /\ \/ /\ Candidates(idx[w]) = {}
          /\ NextProfile(w)
       \/ \E t \in Tasks :
             /\ IsBestCandidate(idx[w], t)
             /\ cand' = [cand EXCEPT ![w] = t]
             /\ Goto(w, "update")
             /\ UNCHANGED <<idx, seen, beats>>
    /\ UNCHANGED <<boardVars, historyVars, faultVars>>

\* The UPDATE commits and get_task returns the row, whoever owns it.
Claim(w) ==
    /\ pc[w] = "update"
    /\ ClaimUpdate(cand[w], w)
    /\ Goto(w, "run")
    /\ beats' = [beats EXCEPT ![w] = TRUE]
    /\ UNCHANGED <<idx, cand, seen, historyVars, faultVars>>

Heartbeat(w) ==
    /\ Working(w)
    /\ beats[w]
    /\ hb[cand[w]] # "fresh"
    /\ MayUse(w)
    /\ HeartbeatUpdate(cand[w], w)
    /\ UNCHANGED <<loopVars, historyVars, faultVars>>

\* _heartbeat_loop catches nothing: one statement that raises ends the thread.
HeartbeatRaises(w) ==
    /\ Working(w)
    /\ beats[w]
    /\ Fault("dberror")
    /\ beats' = [beats EXCEPT ![w] = FALSE]
    /\ UNCHANGED <<boardVars, pc, idx, cand, seen, historyVars>>

\* A worker function returns.  Scout, analyst and risk officer have created the
\* task of the next profile.  The executor has changed nothing: it logs and
\* returns the text of a submission, and calls no order engine.
RunStage(w) ==
    /\ pc[w] = "run"
    /\ LET t == cand[w]
       IN /\ ran' = [ran EXCEPT ![t] = @ + 1]
          /\ IF stage[t] = NStages
             THEN UNCHANGED boardVars
             ELSE MayUse(w) /\ CreateTask(stage[t] + 1, origin[t])
    /\ Goto(w, "complete")
    /\ UNCHANGED <<idx, cand, seen, beats, submitted, failCalls, faultVars>>

\* The exception of a worker function is swallowed.
RunnerRaisesSwallowed(w) ==
    /\ pc[w] = "run"
    /\ Goto(w, "complete")
    /\ UNCHANGED <<boardVars, idx, cand, seen, beats, historyVars, faultVars>>

\* A worker function raises before it has done anything.
RunnerRaises(w) ==
    /\ pc[w] = "run"
    /\ Goto(w, "fail_read")
    /\ UNCHANGED <<boardVars, idx, cand, seen, beats, historyVars, faultVars>>

CompleteTask(w) ==
    /\ pc[w] = "complete"
    /\ MayUse(w)
    /\ CompleteUpdate(cand[w])
    /\ NextProfile(w)
    /\ UNCHANGED <<historyVars, faultVars>>

\* complete_task is inside the try: when it raises, the task that has run is
\* recorded as failed.
CompleteRaises(w) ==
    /\ pc[w] = "complete"
    /\ Fault("dberror")
    /\ Goto(w, "fail_read")
    /\ UNCHANGED <<boardVars, idx, cand, seen, beats, historyVars>>

FailTaskRead(w) ==
    /\ pc[w] = "fail_read"
    /\ MayUse(w)
    /\ seen' = [seen EXCEPT ![w] = failures[cand[w]]]
    /\ Goto(w, "fail_write")
    /\ UNCHANGED <<boardVars, idx, cand, beats, historyVars, faultVars>>

FailTaskWrite(w) ==
    /\ pc[w] = "fail_write"
    /\ FailUpdate(cand[w], seen[w])
    /\ failCalls' = [failCalls EXCEPT ![cand[w]] = @ + 1]
    /\ NextProfile(w)
    /\ UNCHANGED <<submitted, ran, faultVars>>

\* Any other statement raises (at "run": the get_task of claim_task): the
\* exception ends dispatch_once and the loop starts its next tick.
TickRaises(w) ==
    /\ pc[w] \in {"select", "update", "run", "fail_read", "fail_write"}
    /\ Fault("dberror")
    /\ Goto(w, "reclaim")
    /\ idx' = [idx EXCEPT ![w] = 1]
    /\ Release(w)
    /\ UNCHANGED <<boardVars, historyVars>>

-----------------------------------------------------------------------------
\* A heartbeat grows old.  While the owner's heartbeat thread runs this takes
\* a stall of its process: it beats three times per stale_timeout_seconds.
Beating(t) ==
    \E w \in Workers : Working(w) /\ beats[w] /\ cand[w] = t /\ owner[t] = w

HeartbeatExpires(t) ==
    /\ status[t] = "in_progress"
    /\ hb[t] = "fresh"
    /\ IF Beating(t) THEN Fault("stall") ELSE UNCHANGED faultVars
    /\ hb' = [hb EXCEPT ![t] = "stale"]
    /\ UNCHANGED <<status, owner, failures, stage, origin, loopVars, historyVars>>

\* A process dies with all its loops; the rows stay.
Crash(p) ==
    /\ \E w \in Workers : ProcessOf[w] = p /\ pc[w] # "down"
    /\ Fault("crash")
    /\ pc' = [w \in Workers |-> IF ProcessOf[w] = p THEN "down" ELSE pc[w]]
    /\ idx' = [w \in Workers |-> IF ProcessOf[w] = p THEN 1 ELSE idx[w]]
    /\ cand' = [w \in Workers |-> IF ProcessOf[w] = p THEN 0 ELSE cand[w]]
    /\ seen' = [w \in Workers |-> IF ProcessOf[w] = p THEN 0 ELSE seen[w]]
    /\ beats' = [w \in Workers |-> beats[w] /\ ProcessOf[w] # p]
    /\ UNCHANGED <<boardVars, historyVars>>

\* The process is started again and its dispatcher's start() runs a loop.
Start(w) ==
    /\ pc[w] = "down"
    /\ Goto(w, "reclaim")
    /\ UNCHANGED <<boardVars, idx, cand, seen, beats, historyVars, faultVars>>

\* An operator calls block_task on a task that exists.
BlockTask(p, t) ==
    /\ status[t] # "absent"
    /\ LockFree(p)
    /\ Fault("block")
    /\ BlockUpdate(t)
    /\ UNCHANGED <<loopVars, historyVars>>

-----------------------------------------------------------------------------
LoopStep(w) ==
    \/ ReclaimStaleTasks(w)
    \/ ClaimSelect(w)
    \/ Claim(w)
    \/ RunStage(w)
    \/ RunnerRaises(w)
    \/ CompleteTask(w)
    \/ CompleteRaises(w)
    \/ FailTaskRead(w)
    \/ FailTaskWrite(w)
    \/ TickRaises(w)

Next ==
    \/ \E p \in Processes, a \in Alerts : SubmitAlert(p, a)
    \/ \E w \in Workers : LoopStep(w) \/ Heartbeat(w) \/ HeartbeatRaises(w)
                            \/ Start(w)
    \/ \E t \in Tasks : HeartbeatExpires(t)
    \/ \E p \in Processes : Crash(p)
    \/ \E p \in Processes, t \in Tasks : BlockTask(p, t)

Spec == Init /\ [][Next]_vars

\* The loop threads and the heartbeat threads are scheduled and worker
\* functions return; time passes, so a heartbeat nobody refreshes expires.
\* Nothing restarts a process that died.
Fairness ==
    /\ \A w \in Workers : WF_vars(LoopStep(w)) /\ WF_vars(Heartbeat(w))
    /\ \A t \in Tasks : WF_vars(HeartbeatExpires(t) /\ ~Beating(t))

FairSpec == Spec /\ Fairness

-----------------------------------------------------------------------------
(***************************************************************************)
(* Properties                                                              *)
(***************************************************************************)

OnlyCrashes == harm \subseteq {"crash"}

\* A loop works on a task only while the row says so: in progress, and owned
\* by it ("Atomically claim", board.py:211), as long as processes only die.
\* Holds in one process; not across processes.
HasLease ==
    OnlyCrashes =>
        \A w \in Workers :
            Working(w) => status[cand[w]] = "in_progress" /\ owner[cand[w]] = w

\* As long as processes only die, no two loops run the same task at a time.
SingleRunner ==
    OnlyCrashes =>
        \A v, w \in Workers :
            v # w /\ Working(v) /\ Working(w) => cand[v] # cand[w]

\* failure_count is the number of failures recorded: no call of fail_task
\* overwrites the count of another one.
NoLostFailure == failures = failCalls

\* A task for which fail_task was called failure_limit times is not offered or
\* running again, however the calls of stale workers, reclaims and crashes
\* interleave.  It counts the calls, not the column.  Holds in one process;
\* across processes a lost update lowers the column and re-opens a blocked task.
RetriesStopAtLimit ==
    \A t \in Tasks :
        failCalls[t] >= FailureLimit => status[t] \notin {"todo", "in_progress"}

\* The pipeline of an alert has come to its end: the worker function of an
\* executor task has run and the task is done.
Finished(t) == stage[t] = NStages /\ status[t] = "done" /\ ran[t] > 0

\* An alert is never lost between two stages: until its executor task has run
\* and is done, some task of it is waiting, running, or blocked for an operator
\* to see.
AlertNotLost ==
    \A a \in submitted :
        \E t \in Tasks :
            /\ origin[t] = a
            /\ status[t] \in {"todo", "in_progress", "blocked"} \/ Finished(t)

\* Without faults every stage of an alert is created once and no worker function
\* returns twice for a task.
ExactlyOnceWithoutFaults ==
    faults = 0 =>
        /\ \A t \in Tasks : ran[t] <= 1
        /\ \A a \in Alerts, s \in Stages :
              Cardinality({t \in Tasks : /\ status[t] # "absent"
                                         /\ origin[t] = a
                                         /\ stage[t] = s}) <= 1

\* A task runs again only because something went wrong: every further return of
\* its worker function is paid for by a fault of its own, be it a complete_task
\* that raised after the function had acted, a lost heartbeat, a stall or a
\* crash.  A fault never costs a task more than one extra run.  Holds in one
\* process.
RerunsArePaid == \A t \in Tasks : ran[t] <= 1 + faults

\* Done and blocked are final as long as processes only die: nobody puts a
\* finished task back to work.
TerminalIsFinal ==
    [][OnlyCrashes' => \A t \in Tasks :
          status[t] \in {"done", "blocked"} => status'[t] = status[t]]_vars

\* Every alert gets through the executor stage or ends as a blocked task,
\* although a process died with a task in hand: the others reclaim it.
AlertSettles ==
    \A a \in Alerts :
        a \in submitted ~>
            \E t \in Tasks : origin[t] = a /\ (Finished(t) \/ status[t] = "blocked")

\* One process implements exclusive leases on the tasks as long as it only
\* dies: a loop that works on a task has acquired it and nobody takes it away.
Lease == INSTANCE TaskLease WITH
    phase <- [t \in Tasks |-> IF status[t] = "in_progress" THEN "taken" ELSE status[t]],
    works <- [w \in Workers |-> IF Working(w) THEN cand[w] ELSE 0]

ImplementsLease ==
    Lease!Init /\ [][OnlyCrashes' => [Lease!Next]_(Lease!leaseVars)]_vars
=============================================================================

---------------------------- MODULE KanbanBoard ----------------------------
(***************************************************************************)
(* The rows of the kanban_tasks table (src/xmlx_vlm/kanban/board.py) and   *)
(* the SQL statements KanbanBoard runs on them.  Every operator here is    *)
(* one committed statement; the methods that run two statements            *)
(* (claim_task, fail_task) are put together in KanbanFleet, where the      *)
(* threading.Lock of a board object is.                                    *)
(*                                                                         *)
(* Time is abstracted to what reclaim_stale_tasks compares: a heartbeat is *)
(* "null" before the first claim, "fresh" when it is younger than          *)
(* stale_timeout_seconds and "stale" afterwards.  Task ids are numbered in *)
(* creation order, so they also stand for created_at.                      *)
(***************************************************************************)
EXTENDS Naturals, FiniteSets

CONSTANTS Workers,       \* worker ids: the dispatch loops that claim tasks
          Nobody,        \* worker_id IS NULL
          Alerts,        \* market alerts, the origin of every task
          NStages,       \* number of pipeline stages (assignee profiles)
          FailureLimit,  \* failure_limit of fail_task
          MaxTasks       \* bound on the rows ever created

ASSUME BoardAssumption ==
    /\ Nobody \notin Workers
    /\ Alerts # {}
    /\ NStages \in Nat \ {0}
    /\ FailureLimit \in Nat \ {0}
    /\ MaxTasks \in Nat \ {0}

Tasks  == 1 .. MaxTasks
Stages == 1 .. NStages
Status == {"absent", "todo", "in_progress", "done", "blocked"}
Beat   == {"null", "fresh", "stale"}

VARIABLES status,    \* Tasks -> Status; "absent" is a row not yet inserted
          owner,     \* Tasks -> worker_id
          hb,        \* Tasks -> age of heartbeat_at
          failures,  \* Tasks -> failure_count
          stage,     \* Tasks -> stage of assignee_profile
          origin     \* Tasks -> the alert in metadata

boardVars == <<status, owner, hb, failures, stage, origin>>

BoardTypeOK ==
    /\ status \in [Tasks -> Status]
    /\ owner \in [Tasks -> Workers \cup {Nobody}]
    /\ hb \in [Tasks -> Beat]
    /\ failures \in [Tasks -> Nat]
    /\ stage \in [Tasks -> Stages]
    /\ origin \in [Tasks -> Alerts]

BoardInit ==
    /\ status = [t \in Tasks |-> "absent"]
    /\ owner = [t \in Tasks |-> Nobody]
    /\ hb = [t \in Tasks |-> "null"]
    /\ failures = [t \in Tasks |-> 0]
    /\ stage = [t \in Tasks |-> 1]
    /\ origin = [t \in Tasks |-> CHOOSE a \in Alerts : TRUE]

(***************************************************************************)
(* create_task: INSERT of a 'todo' row with no worker and no heartbeat.    *)
(***************************************************************************)
IsNextId(t) == status[t] = "absent" /\ \A u \in 1 .. t - 1 : status[u] # "absent"

CreateTask(s, a) ==
    \E t \in Tasks :
        /\ IsNextId(t)
        /\ status' = [status EXCEPT ![t] = "todo"]
        /\ stage' = [stage EXCEPT ![t] = s]
        /\ origin' = [origin EXCEPT ![t] = a]
        /\ UNCHANGED <<owner, hb, failures>>

(***************************************************************************)
(* The two statements of claim_task.  The SELECT names the todo row of the *)
(* profile with the greatest priority and, among equals, the oldest; all   *)
(* rows of one profile carry the priority of their alert, which the fleet  *)
(* leaves at its default, so the oldest is the first.                      *)
(***************************************************************************)
Candidates(s) == {t \in Tasks : status[t] = "todo" /\ stage[t] = s}

IsBestCandidate(s, t) ==
    t \in Candidates(s) /\ \A u \in Candidates(s) : t <= u

\* UPDATE ... WHERE id = ? AND status = 'todo': no row changes, and nobody
\* looks at rowcount, when the row is not todo any more.
ClaimUpdate(t, w) ==
    /\ IF status[t] = "todo"
       THEN /\ status' = [status EXCEPT ![t] = "in_progress"]
            /\ owner' = [owner EXCEPT ![t] = w]
            /\ hb' = [hb EXCEPT ![t] = "fresh"]
       ELSE UNCHANGED <<status, owner, hb>>
    /\ UNCHANGED <<failures, stage, origin>>

\* heartbeat: only the owner of an in_progress row refreshes it.
HeartbeatUpdate(t, w) ==
    /\ owner[t] = w
    /\ status[t] = "in_progress"
    /\ hb' = [hb EXCEPT ![t] = "fresh"]
    /\ UNCHANGED <<status, owner, failures, stage, origin>>

\* complete_task: UPDATE ... WHERE id = ?, whatever the status and the owner.
CompleteUpdate(t) ==
    /\ status' = [status EXCEPT ![t] = "done"]
    /\ UNCHANGED <<owner, hb, failures, stage, origin>>

\* Off by one: blocks one failure too late.
FailUpdateLate(t, seen) ==
    /\ failures' = [failures EXCEPT ![t] = seen + 1]
    /\ status' = [status EXCEPT ![t] = IF seen + 1 > FailureLimit
                                       THEN "blocked" ELSE "todo"]
    /\ owner' = [owner EXCEPT ![t] = Nobody]
    /\ UNCHANGED <<hb, stage, origin>>

\* The UPDATE of fail_task, given the failure_count its SELECT returned.
FailUpdate(t, seen) ==
    /\ failures' = [failures EXCEPT ![t] = seen + 1]
    /\ status' = [status EXCEPT ![t] = IF seen + 1 >= FailureLimit
                                       THEN "blocked" ELSE "todo"]
    /\ owner' = [owner EXCEPT ![t] = Nobody]
    /\ UNCHANGED <<hb, stage, origin>>

\* block_task keeps worker_id and heartbeat_at.
BlockUpdate(t) ==
    /\ status' = [status EXCEPT ![t] = "blocked"]
    /\ UNCHANGED <<owner, hb, failures, stage, origin>>

\* The WHERE clause without its cutoff, and without its second alternative.
IsStaleAnyAge(t) == status[t] = "in_progress"
IsStaleIfNull(t) == status[t] = "in_progress" /\ hb[t] = "null"

\* reclaim_stale_tasks: every expired in_progress row goes back to todo.
IsStale(t) == status[t] = "in_progress" /\ hb[t] \in {"null", "stale"}

ReclaimUpdate ==
    /\ status' = [t \in Tasks |-> IF IsStale(t) THEN "todo" ELSE status[t]]
    /\ owner' = [t \in Tasks |-> IF IsStale(t) THEN Nobody ELSE owner[t]]
    /\ UNCHANGED <<hb, failures, stage, origin>>
=============================================================================

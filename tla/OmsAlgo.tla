------------------------------- MODULE OmsAlgo -------------------------------
(* One algorithm order: how the four algorithms of oms/execution/algo cut a *)
(* parent order into children, send each through the router and add up what *)
(* it reports, and what scheduler.py makes of the parent when the algorithm *)
(* ends, raises or is cancelled.  The router and the venue are in OmsEngine; *)
(* here a child comes back with what it has filled.                         *)
(*                                                                           *)
(* The paper venue fills a child when it is sent or never.  At the live one  *)
(* an order that fills at once comes back REJECTED with nothing filled, and  *)
(* one that rests fills later (OmsLive): the children are not registered with *)
(* the engine, so the algorithm is told of neither.  Quantities count the    *)
(* smallest unit, to which quantize_qty rounds half up.                      *)
EXTENDS Integers, Sequences, FiniteSetsExt

CONSTANTS
    Jobs,       \* algorithm, parameters and venue of the parent order
    MaxRetries, \* iceberg's max_retries
    MaxUnseen   \* bound: what the live venue executes, of which nothing is told

Job == [kind : {"twap", "vwap", "iceberg", "seek"}, venue : {"paper", "live"},
        total : Nat \ {0},
        weights : Seq(Nat),            \* vwap: a bucket's volume; twap: equal
        slice : Nat \ {0},             \* iceberg's display_qty, seek's slice_qty
        jitter : Nat,                  \* iceberg's variance
        again : BOOLEAN,               \* twap's leftover_mode is "immediate"
        tif : {"GTC", "IOC"}]          \* iceberg's time_in_force

\* total_weight
Volume(j) == MapThenSumSet(LAMBDA i : j.weights[i], DOMAIN j.weights)

ASSUME AlgoAssumption ==
    /\ \A j \in Jobs : j \in Job /\ Len(j.weights) > 0 /\ Volume(j) \in Nat \ {0}
    /\ MaxRetries \in Nat \ {0} /\ MaxUnseen \in Nat

VARIABLES
    job,
    parent,   \* the ParentOrder: state and filled_qty
    at,       \* the algorithm: "new", "head" of its loop, "sent", "again", "ended"
    bucket,   \* buckets done; for seek the level
    child,    \* quantity of the child under way
    leftover, \* twap: what the last bucket left
    retries,  \* iceberg
    executed  \* history: what the venue executes of all children

algoVars == <<job, parent, at, bucket, child, leftover, retries, executed>>

AlgoTypeOK ==
    /\ job \in Jobs
    /\ parent \in [state : {"SUBMITTED", "PARTIAL_FILLED", "FILLED", "CANCELLED", "REJECTED"},
                   filled : Nat]
    /\ at \in {"new", "head", "sent", "again", "ended"}
    /\ bucket \in Nat /\ child \in Nat /\ leftover \in Nat /\ retries \in Nat
    /\ executed \in Nat

\* start_algo
AlgoInit ==
    /\ job \in Jobs
    /\ parent = [state |-> "SUBMITTED", filled |-> 0]
    /\ at = "new" /\ bucket = 0 /\ child = 0 /\ leftover = 0 /\ retries = 0
    /\ executed = 0

Buckets == Len(job.weights)
Levels == 3
Left == job.total - parent.filled
Smaller(x, y) == IF x < y THEN x ELSE y
ParentDone == parent.state = "FILLED"

\* quantize_qty(n / d)
Rounded(n, d) == (2 * n + d) \div (2 * d)

-----------------------------------------------------------------------------
(* Sending.                                                                *)

Starts == at = "new" /\ at' = "head"
          /\ UNCHANGED <<job, parent, bucket, child, leftover, retries, executed>>

\* A parameter that cannot be read: _run_algo rejects the parent.
StartRaises ==
    /\ at = "new" /\ at' = "ended"
    /\ parent' = [parent EXCEPT !.state = "REJECTED"]
    /\ UNCHANGED <<job, bucket, child, leftover, retries, executed>>

\* A bucket's share, with what the one before it left; the last one takes
\* what is left.
BucketShare ==
    IF bucket = Buckets - 1 THEN Left
    ELSE IF job.kind = "twap" THEN Rounded(job.total + leftover * Buckets, Buckets)
    ELSE Rounded(job.total * job.weights[bucket + 1], Volume(job))

\* What may be sent next; nothing stands for a loop that ends.
NextChild ==
    CASE job.kind \in {"twap", "vwap"} ->
           IF bucket = Buckets \/ ParentDone THEN {} ELSE {BucketShare}
      [] job.kind = "iceberg" ->
           IF Left <= 0 THEN {}
           ELSE {Smaller(Smaller(job.slice, Left) + d, Left) : d \in -job.jitter .. job.jitter}
      [] job.kind = "seek" ->
           IF Left <= 0 THEN {} ELSE {IF bucket = 0 THEN Smaller(job.slice, Left) ELSE child}

SendsChild ==
    /\ at = "head"
    /\ \E q \in NextChild : q > 0 /\ child' = q
    /\ at' = "sent"
    /\ UNCHANGED <<job, parent, bucket, leftover, retries, executed>>

\* A bucket whose share rounds to nothing is slept through.
SkipsBucket ==
    /\ at = "head" /\ job.kind \in {"twap", "vwap"}
    /\ \E q \in NextChild : q <= 0
    /\ bucket' = bucket + 1
    /\ UNCHANGED <<job, parent, at, child, leftover, retries, executed>>

-----------------------------------------------------------------------------
(* The end of start().                                                     *)

\* A slip: an algorithm that comes to its end has filled its order.
EndStateDone(p) == "FILLED"

EndState(p) ==
    IF job.total <= p.filled THEN "FILLED"
    ELSE IF job.kind = "vwap" /\ p.filled = 0 THEN "CANCELLED"
    ELSE "PARTIAL_FILLED"

\* The loop ends; iceberg's also when the variance leaves nothing to show.
Finishes ==
    /\ at = "head"
    /\ NextChild = {} \/ (job.kind = "iceberg" /\ \E q \in NextChild : q <= 0)
    /\ at' = "ended"
    /\ parent' = [parent EXCEPT !.state = EndState(parent)]
    /\ UNCHANGED <<job, bucket, child, leftover, retries, executed>>

\* cancel_algo: the task is cancelled at its await and, whatever state the
\* parent was in, it is CANCELLED.
CancelAlgo ==
    /\ at' = "ended"
    /\ parent' = [parent EXCEPT !.state = "CANCELLED"]
    /\ UNCHANGED <<job, bucket, child, leftover, retries, executed>>

-----------------------------------------------------------------------------
(* Answers.                                                                *)

\* apply_child_fill
Counted(f) ==
    IF f = 0 THEN parent
    ELSE [filled |-> parent.filled + f,
          state |-> IF job.total <= parent.filled + f THEN "FILLED" ELSE "PARTIAL_FILLED"]

\* What the router may get for a child: an aggressive one is FOK, the others
\* fill in part or are rejected.
Executions ==
    IF at = "again" \/ (job.kind = "seek" /\ bucket = Levels - 1) THEN {0, child} ELSE 0 .. child

\* k is executed and f of it is seen on the child.
Answer(k, f) ==
    /\ at \in {"sent", "again"} /\ k \in Executions
    /\ IF job.venue = "paper" THEN f = k ELSE f = 0 /\ executed + k <= MaxUnseen
    /\ executed' = executed + k
    /\ UNCHANGED job

\* twap retries what is left at once or carries it over; vwap does neither.
BucketAnswered(k, f) ==
    /\ job.kind \in {"twap", "vwap"} /\ Answer(k, f) /\ parent' = Counted(f)
    /\ IF job.kind = "twap" /\ job.again /\ at = "sent" /\ f < child
       THEN /\ at' = "again" /\ child' = child - f
            /\ UNCHANGED <<bucket, leftover>>
       ELSE /\ at' = "head" /\ bucket' = bucket + 1
            /\ leftover' = IF job.kind = "twap" THEN child - f ELSE 0
            /\ UNCHANGED child
    /\ UNCHANGED retries

\* max_retries counts the children that rested without a fill.
GivesUp == retries + 1 >= MaxRetries

DisplayAnswered(k, f) ==
    /\ job.kind = "iceberg" /\ Answer(k, f)
    /\ LET rested == f = 0 /\ job.tif = "GTC"
           gone == rested /\ GivesUp
       IN  /\ retries' = IF rested THEN retries + 1 ELSE retries
           /\ at' = IF gone THEN "ended" ELSE "head"
           /\ parent' = IF gone THEN [parent EXCEPT !.state = EndState(parent)] ELSE Counted(f)
    /\ UNCHANGED <<bucket, child, leftover>>

\* The next level sends what is left of the slice; after a full fill or the
\* last level the next slice begins.
LevelAnswered(k, f) ==
    /\ job.kind = "seek" /\ Answer(k, f) /\ parent' = Counted(f)
    /\ bucket' = IF f = child \/ bucket = Levels - 1 THEN 0 ELSE bucket + 1
    /\ child' = child - f
    /\ at' = "head"
    /\ UNCHANGED <<leftover, retries>>

AlgoSteps ==
    \/ Starts \/ StartRaises \/ SendsChild \/ SkipsBucket \/ Finishes
    \/ \E k, f \in 0 .. child :
          BucketAnswered(k, f) \/ DisplayAnswered(k, f) \/ LevelAnswered(k, f)

AlgoNext == AlgoSteps \/ CancelAlgo

AlgoSpec == AlgoInit /\ [][AlgoNext]_algoVars

-----------------------------------------------------------------------------
(* Properties.                                                             *)

\* Whenever the algorithm is cancelled or ends, what the parent says has been
\* filled is what its children executed at the paper venue, never more than
\* that at the live one, and a parent is called filled only when it is.
ParentIsTrue ==
    /\ IF job.venue = "paper" THEN parent.filled = executed ELSE parent.filled <= executed
    /\ parent.state = "FILLED" => job.total <= executed

\* Every share but the last may be rounded up by half a unit.
RoundingMargin == IF job.kind \in {"twap", "vwap"} THEN (Buckets - 1) \div 2 ELSE 0

\* ParentIsTrue, and no more is executed than was ordered and rounded.  At the
\* live venue the last share is the whole order once more, since nothing the
\* others executed is seen: of a vwap, which retries nothing, at most twice
\* the order is executed.
ExecutesWhatItSays ==
    /\ ParentIsTrue
    /\ job.venue = "paper" => executed <= job.total + RoundingMargin
    /\ job.venue = "live" /\ job.kind = "vwap" => executed <= 2 * job.total + RoundingMargin
=============================================================================

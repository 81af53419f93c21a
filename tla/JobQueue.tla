------------------------------ MODULE JobQueue ------------------------------
(***************************************************************************)
(* The job queue between the API and the worker, as app/worker.py sets     *)
(* arq up: jobs with fixed ids, a result that keeps the id taken for a     *)
(* while (keep_result), one running job (max_jobs = 1), and jobs that run  *)
(* again after a Retry or after the worker died, up to MaxTries times.     *)
(***************************************************************************)
EXTENDS Naturals

CONSTANTS Jobs,     \* the fixed job ids
          MaxTries  \* arq's max_tries

ASSUME QueueAssumption == MaxTries \in Nat \ {0}

VARIABLE queue  \* queue[j]: where job j is and how often it was started

QueueOK == queue \in [Jobs -> [is : {"free", "queued", "running", "kept"},
                               tries : 0 .. MaxTries]]

QueueInit == queue = [j \in Jobs |-> [is |-> "free", tries |-> 0]]

InState(state) == {j \in Jobs : queue[j].is = state}

(* Bug: coming back counts as a start already. *)
MovesCounting(j, state) ==
    queue' = [queue EXCEPT ![j] = [is |-> state, tries |-> IF state = "queued" THEN @.tries + 1 ELSE 0]]

Moves(j, state) ==
    queue' = [queue EXCEPT ![j] = [is |-> state, tries |-> IF state = "queued" THEN @.tries ELSE 0]]

(* An id is taken while its job waits, runs or has a recent result. *)
IdTaken(j) == queue[j].is # "free"

(* enqueue_job with a fixed id: a taken id means there is nothing to do. *)
Enqueue(j) ==
    IF IdTaken(j) THEN UNCHANGED queue
    ELSE queue' = [queue EXCEPT ![j] = [is |-> "queued", tries |-> 0]]

(* The worker takes the next job, if it runs none and the job has a try    *)
(* left.                                                                   *)
Take(j) ==
    /\ InState("running") = {}
    /\ queue[j].is = "queued"
    /\ queue[j].tries < MaxTries
    /\ queue' = [queue EXCEPT ![j] = [is |-> "running", tries |-> @.tries + 1]]

(* A job that was started too often fails instead. *)
TooManyTries(j) ==
    /\ InState("running") = {}
    /\ queue[j].is = "queued"
    /\ queue[j].tries = MaxTries
    /\ Moves(j, "kept")

(* The running job returns or raises: its result is kept. *)
Done(j) == queue[j].is = "running" /\ Moves(j, "kept")

(* It raises Retry, or the worker dies under it. *)
Again(j) == queue[j].is = "running" /\ Moves(j, "queued")

(* keep_result is over. *)
ResultLapses(j) == queue[j].is = "kept" /\ Moves(j, "free")
=============================================================================

----------------------------- MODULE FreshReads -----------------------------
(***************************************************************************)
(* What the public response cache promises its callers, without saying how *)
(* (app/cache.py, module docstring): a request is answered with a state of *)
(* the database that is no older than the newest write acknowledged before *)
(* the request started.  A state of the database is named by the number of *)
(* commits made in the scope so far.                                       *)
(***************************************************************************)
EXTENDS Naturals

CONSTANTS Readers,    \* the request slots of all API processes
          MaxWrites   \* bound on the number of commits

VARIABLES db,         \* the number of commits made so far
          acked,      \* the newest commit whose writer has been answered
          phase,      \* phase[r]: idle, pending, done or failed
          floor,      \* floor[r]: the value of acked when r's request started
          answer      \* answer[r]: the state r was answered from, once it was

fvars == <<db, acked, phase, floor, answer>>

Ended == {"idle", "done", "failed"}

FreshInit ==
    /\ db = 0
    /\ acked = 0
    /\ phase = [r \in Readers |-> "idle"]
    /\ floor = [r \in Readers |-> 0]
    /\ answer = [r \in Readers |-> 0]

(* A write commits. *)
Write ==
    /\ db < MaxWrites
    /\ db' = db + 1
    /\ UNCHANGED <<acked, phase, floor, answer>>

(* The writer of some commit is answered. *)
Acknowledge ==
    /\ acked' \in acked .. db
    /\ UNCHANGED <<db, phase, floor, answer>>

(* A request starts: from now on it must see everything acknowledged. *)
Ask(r) ==
    /\ phase[r] \in Ended
    /\ phase' = [phase EXCEPT ![r] = "pending"]
    /\ floor' = [floor EXCEPT ![r] = acked]
    /\ answer' = [answer EXCEPT ![r] = 0]
    /\ UNCHANGED <<db, acked>>

(* One or several pending requests are answered, or fail, on the same      *)
(* state v of the database: v is no older than what each of them must see. *)
Answer(S, v, outcome) ==
    /\ \A r \in S : phase[r] = "pending" /\ floor[r] <= v
    /\ v <= db
    /\ phase' = [r \in Readers |-> IF r \in S THEN outcome ELSE phase[r]]
    /\ answer' = [r \in Readers |-> IF r \in S THEN v ELSE answer[r]]
    /\ UNCHANGED <<db, acked, floor>>

(* The caller goes away before it is answered. *)
Abandon(r) ==
    /\ phase[r] = "pending"
    /\ phase' = [phase EXCEPT ![r] = "idle"]
    /\ answer' = [answer EXCEPT ![r] = 0]
    /\ UNCHANGED <<db, acked, floor>>

FreshNext ==
    \/ Write
    \/ Acknowledge
    \/ \E r \in Readers : Ask(r) \/ Abandon(r)
    \/ \E S \in SUBSET Readers, v \in 0 .. MaxWrites, o \in {"done", "failed"} :
          Answer(S, v, o)

FreshSpec == FreshInit /\ [][FreshNext]_fvars

=============================================================================

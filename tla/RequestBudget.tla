--------------------------- MODULE RequestBudget ---------------------------
(***************************************************************************)
(* What a paced client promises an upstream service, whatever its callers  *)
(* do: at most Budget requests start in any Window, two starts are at      *)
(* least Gap apart, and nothing starts while a pause the service asked for *)
(* is running.  Times are ages and remaining times, so that the clock      *)
(* itself is not part of the state.                                        *)
(***************************************************************************)
EXTENDS Naturals

CONSTANTS Budget,  \* requests per window
          Window,  \* the rolling window
          Gap,     \* the least time between two starts
          Pauses   \* the pauses the service may ask for

VARIABLES
    age,   \* age[k]: the age of the k-th newest start, at most Window
    pause  \* how long the service wants no request

vars == <<age, pause>>

Later(t, d) == IF t > d THEN t - d ELSE 0
Older(t) == IF t < Window THEN t + 1 ELSE Window

Init ==
    /\ age = [k \in 1 .. Budget |-> Window]
    /\ pause = 0

Start ==
    /\ pause = 0
    /\ age[Budget] = Window
    /\ age[1] >= Gap
    /\ age' = [k \in 1 .. Budget |-> IF k = 1 THEN 0 ELSE age[k - 1]]
    /\ UNCHANGED pause

Throttle ==
    /\ \E p \in Pauses : pause' = IF p > pause THEN p ELSE pause
    /\ UNCHANGED age

Tick ==
    /\ age' = [k \in 1 .. Budget |-> Older(age[k])]
    /\ pause' = Later(pause, 1)

Next == Start \/ Throttle \/ Tick

Spec == Init /\ [][Next]_vars
=============================================================================

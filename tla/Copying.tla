------------------------------ MODULE Copying ------------------------------
(***************************************************************************)
(* What copying a stream of a known length promises, whoever does it: what *)
(* arrives has been taken from the source before, nothing that arrived is  *)
(* taken back, and a copy that is reported as a success is complete.       *)
(***************************************************************************)
EXTENDS Naturals

CONSTANT Lengths     \* how much a source may hold

VARIABLES
  held,    \* what the source holds
  taken,   \* how much of it was read
  given,   \* how much of it has arrived
  state    \* "none", "copying", "ok", "failed"

vars == <<held, taken, given, state>>

Init == held = 0 /\ taken = 0 /\ given = 0 /\ state = "none"

Start ==
  /\ state # "copying" /\ state' = "copying"
  /\ held' \in Lengths /\ taken' = 0 /\ given' = 0

Take == /\ state = "copying"
        /\ taken' \in Nat /\ taken < taken' /\ taken' <= held
        /\ UNCHANGED <<held, given, state>>

Give == /\ state = "copying"
        /\ given' \in Nat /\ given < given' /\ given' <= taken
        /\ UNCHANGED <<held, taken, state>>

Succeed == /\ state = "copying" /\ given = held /\ state' = "ok"
           /\ UNCHANGED <<held, taken, given>>
Fail == /\ state = "copying" /\ state' = "failed"
        /\ UNCHANGED <<held, taken, given>>

Next == Start \/ Take \/ Give \/ Succeed \/ Fail

Spec == Init /\ [][Next]_vars
=============================================================================

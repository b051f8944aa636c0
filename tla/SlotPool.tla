------------------------------- MODULE SlotPool -------------------------------
(***************************************************************************)
(* What "enforces provider concurrency limits" promises: a pool of slots   *)
(* that a job enters only while fewer jobs than the limit are in it.       *)
(***************************************************************************)
EXTENDS Integers, FiniteSets

CONSTANTS Jobs, Slots, Limit

VARIABLE occupants  \* the jobs in each slot

Init == occupants = [s \in Slots |-> {}]

Enter(s, j) ==
  /\ j \notin occupants[s]
  /\ Cardinality(occupants[s]) < Limit[s]
  /\ occupants' = [occupants EXCEPT ![s] = @ \cup {j}]

Leave(s, j) ==
  /\ j \in occupants[s]
  /\ occupants' = [occupants EXCEPT ![s] = @ \ {j}]

Next == \E s \in Slots, j \in Jobs : Enter(s, j) \/ Leave(s, j)

Spec == Init /\ [][Next]_occupants

===============================================================================

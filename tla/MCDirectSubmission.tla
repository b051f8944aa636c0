-------------------------- MODULE MCDirectSubmission --------------------------
(***************************************************************************)
(* Instances of direct submission for TLC: more requests than slots.       *)
(***************************************************************************)
EXTENDS DirectSubmission, TLC

CONSTANTS p1, p2, c1, c2, c3, fatal, backpressure, gpu

MCProfile == [j \in Jobs |-> gpu]
MCRequested == [j \in Jobs |-> IF j = 3 THEN AutoProvider ELSE p1]
MCAttempts == [k \in RetryableClasses |-> 2]
LimitOne == [s \in Slots |-> 1]

ClientSymmetry == Permutations(Clients)

===============================================================================

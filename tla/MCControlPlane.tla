---------------------------- MODULE MCControlPlane ----------------------------
(***************************************************************************)
(* Instances of the whole control plane for TLC.                           *)
(***************************************************************************)
EXTENDS ControlPlane, TLC

CONSTANTS p1, w1, o1, c1, fatal, backpressure, gpu

MCGroup == [j \in Jobs |-> gpu]
MCKey == [j \in Jobs |-> j]
MCProfile == [j \in Jobs |-> gpu]
MCRequested == [j \in Jobs |-> p1]
MCRoutes == [j \in Jobs |-> Providers]
NoRetries == [k \in RetryableClasses |-> 0]
LimitOne == [s \in Slots |-> 1]

===============================================================================

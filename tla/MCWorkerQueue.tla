---------------------------- MODULE MCWorkerQueue ----------------------------
(***************************************************************************)
(* Instances of the queue for TLC: two jobs, one profile, one slot on each *)
(* provider; queue_* differ in the operations, the processes and what can  *)
(* fail.                                                                   *)
(***************************************************************************)
EXTENDS WorkerQueueProps, TLC

CONSTANTS p1, p2, w1, w2, o1, fatal, transient, gpu

MCGroup == [j \in Jobs |-> gpu]
MCKey == [j \in Jobs |-> j]
FirstTwo == [j \in Jobs |-> IF j = 2 THEN 1 ELSE j]
MCProfile == [j \in Jobs |-> gpu]
OneProvider == {p1}
TwoProviders == {p1, p2}
FirstAuto == [j \in Jobs |-> IF j = 1 THEN AutoProvider ELSE p1]
OneEach == [j \in Jobs |-> IF j = 1 THEN p1 ELSE p2]
AnyRoute == [j \in Jobs |-> Providers]
RouteMayFail == [j \in Jobs |-> Providers \cup {NoProvider}]
NoRetries == [c \in RetryableClasses |-> 0]
OneRetry == [c \in RetryableClasses |-> 1]
LimitOne == [s \in Slots |-> 1]

WorkerSymmetry == Permutations(Workers)

===============================================================================

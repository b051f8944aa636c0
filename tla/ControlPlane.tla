----------------------------- MODULE ControlPlane -----------------------------
(***************************************************************************)
(* The deployed system: the worker service, operators and direct           *)
(* submissions on one store and one log.  The worker holds the worker      *)
(* lock, a direct submission the lock of its slot; neither takes the       *)
(* other's.                                                                *)
(***************************************************************************)
EXTENDS WorkerQueueProps, DirectSubmission

controlVars == <<store, wal, pc, mem, lock, draining, late, capLock>>

ControlTypeOK == TypeOK /\ DirectTypeOK

ControlInit == Init /\ capLock = [s \in Slots |-> NoClient]

ControlNext ==
  \/ Next /\ UNCHANGED capLock
  \/ DirectNext /\ UNCHANGED queueVars

ControlSpec == ControlInit /\ [][ControlNext]_controlVars

-------------------------------------------------------------------------------

\* The worker as in WorkerQueueProps; a direct submission that lives goes on,
\* and a flock some process waits for is granted.
ControlFairness ==
  /\ \A w \in Workers : /\ WF_controlVars(WorkerStep(w) /\ UNCHANGED capLock)
                         /\ WF_controlVars(Restart(w) /\ UNCHANGED capLock)
  /\ \A w \in Workers, j \in Jobs :
       SF_controlVars((\E S \in SUBSET Jobs : j \in S /\ BeginPass(w, S)) /\ UNCHANGED capLock)
  /\ \A c \in Clients :
       /\ WF_controlVars(pc[c] # "idle" /\ ClientStep(c) /\ UNCHANGED queueVars)
       /\ \A j \in Jobs : SF_controlVars(ReserveCounts(c, j) /\ UNCHANGED queueVars)

ControlFairSpec == ControlSpec /\ ControlFairness

WorkersSurvive == <>[](\A w \in Workers : pc[w] # "down")

\* An active record is given up in the end, whether its process finishes, dies
\* or hangs, and also while the worker is drained or blocked by the log:
\* recover_stale_jobs comes before both checks.
SlotsReclaimed ==
  WorkersSurvive => \A j \in Jobs : store[j].status \in Active ~> store[j].status \notin Active

===============================================================================

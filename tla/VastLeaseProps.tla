--------------------------- MODULE VastLeaseProps -----------------------------
(***************************************************************************)
(* What the handling of Vast instances promises: what a cleanup, a cost    *)
(* guard and the reaper may leave behind, and what the reaper may take.    *)
(***************************************************************************)
EXTENDS VastLease

\* A process that uses its job's instance: the worker runs on it or is about to.
Uses(c, i) ==
  run[c].pc \in {"boot", "work"} /\ run[c].copy.pid = i /\ inst[i].label = run[c].job

\* The reaper has just destroyed i.
Reaped(i) == reaper.pc = "fresh" /\ reaper.id = i /\ Live(i) /\ ~Live(i)'

\* A cleanup whose label listing answered and whose destroys were all confirmed
\* leaves none of the instances the process created, whatever was lost before: a
\* create without an answer, an answer without an id, an undo that failed
\* (vast.py:464-499, 772-822).
SweepLeavesNothing ==
  \A c \in Callers :
    run[c].pc = "postguard" /\ run[c].swept /\ run[c].copy.cleanup = "exited" /\ run[c].tidy
      => run[c].made \cap Alive = {}

\* A submission that ends as succeeded under a cost guard that answered has left
\* none of its instances in the account, even when its own cleanup saw nothing
\* (runner.py:310, 336-339).
AuditedSuccessLeavesNothing ==
  [][\A c \in Callers :
       PostGuard(c, TRUE, TRUE) /\ rec'[run[c].job].status = "succeeded"
         => run[c].made \cap Alive = {}]_leaseVars

\* In the first attempt of a job the reaper never destroys an instance a process
\* still uses, also when recover_stale_jobs has declared the job failed meanwhile:
\* the cleaning_up events are what tells a dead attempt from a slow one
\* (orphan_inventory.py:271-310).
ReaperSparesFirstAttempt ==
  [][\A i \in Ids : Reaped(i) =>
       \A c \in Callers : Uses(c, i) => retries[run[c].job] > 0]_leaseVars

\* The reaper destroys orphans only: never an instance a process still uses, in
\* any attempt (cli.py:1000, "cleanup of eligible Vast orphan instances").
ReaperTakesOrphansOnly ==
  [][\A i \in Ids : Reaped(i) =>
       \A c \in Callers : ~Uses(c, i)]_leaseVars
===============================================================================

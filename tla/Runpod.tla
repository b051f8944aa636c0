-------------------------------- MODULE Runpod --------------------------------
(***************************************************************************)
(* RunPod as a whole: jobs and an operator's commands on one account, and  *)
(* what they promise to leave behind.                                      *)
(***************************************************************************)
EXTENDS RunpodJobs, RunpodCommands

CONSTANT MaxBusy  \* bound on the jobs and commands under way at once

runpodVars == <<pod, endpoint, template, request, faults, rec, run, op>>

RunpodInit == AccountInit /\ JobsInit /\ CommandsInit

Busy == {j \in Jobs : run[j].pc \notin {"guard", "done"}}
        \cup (IF Doing("idle") THEN {} ELSE {op.n})

RunpodNext ==
  \/ AccountStep /\ UNCHANGED <<rec, run, op>>
  \/ (\E j \in Jobs : JobStep(j)) /\ UNCHANGED op /\ Cardinality(Busy') <= MaxBusy
  \/ CommandStep /\ UNCHANGED <<rec, run>> /\ Cardinality(Busy') <= MaxBusy

RunpodSpec == RunpodInit /\ [][RunpodNext]_runpodVars

RunpodTypeOK == AccountTypeOK /\ JobsTypeOK /\ CommandsTypeOK

-------------------------------------------------------------------------------
(* Properties *)

\* The pod of a job that is stored as succeeded is named in the record and costs
\* nothing any more, whatever happened to the calls (runpod.py:659-668, 2193-2196).
SucceededPodStopped ==
  \A j \in PodJobs : rec[j].status = "succeeded" => rec[j].pid /\ ~PodRuns(j)

\* A job that ends as succeeded under a guard that answered has left no pod in the
\* account, not even a stopped one (runpod.py:1755-1765, runner.py:336-339).
AuditedPodRemoved == \A j \in PodJobs : run[j].audited => j \notin Listed

\* A job whose calls all answered and had their effect leaves no request queued or
\* running at its endpoint (runpod.py:2337-2346, 2400-2409).
TidyJobLeavesNoRequest ==
  \A j \in EndpointJobs :
    At(j, "done") /\ run[j].tidy /\ ~run[j].sync => ~LiveRequest(j)

\* A command that failed, although all its calls answered, leaves no endpoint of its
\* own unless it had accepted it (runpod.py:314-318, 1225-1235; the probe's finally
\* block).
FailedCommandLeavesNoEndpoint ==
  op.verdict = "failed" /\ op.tidy /\ ~op.accepted =>
    endpoint[op.n] \in {"none", "deleted"}

\* An endpoint that is kept costs nothing while nobody uses it, whatever RunPod made
\* of the scale it was asked for (runpod.py:314, 1185-1187).
AcceptedIsCold == op.accepted /\ op.tidy => endpoint[op.n] = "cold"

\* A probe that reports ok has had its request completed and has taken its endpoint
\* away, whatever was lost on the way
\* (scripts/runpod-asr-serverless-contract-probe.py:199, 213-219).
ProbeOkLeavesNoEndpoint ==
  op.kind = "probe" /\ op.verdict = "ok" =>
    endpoint[op.n] \in {"none", "deleted"} /\ request[op.n] = "completed"

\* No command disables or deletes the endpoint that was there, which jobs use.
ConfiguredEndpointSpared == [][endpoint'[Known] = endpoint[Known]]_runpodVars
===============================================================================

---------------------------- MODULE RunpodAccount -----------------------------
(***************************************************************************)
(* The RunPod account: pods, serverless endpoints, templates and requests, *)
(* and what the cost guard sees of them.  A resource is named after who    *)
(* creates it: a pod after its job, an endpoint and a template after the   *)
(* operator's command, a request after its job or command.  Number 0 is    *)
(* what was there before.                                                  *)
(*                                                                         *)
(* RunPod stops a pod and keeps it: an exited pod stays in the list until  *)
(* somebody removes it.                                                    *)
(***************************************************************************)
EXTENDS Integers, FiniteSets

CONSTANTS
  PodJobs,       \* jobs that run in a pod (smoke, asr_diarization, gpu_task, pod_http)
  EndpointJobs,  \* jobs sent to the configured endpoint (llm_heavy, gpu_task)
  MaxCommands,   \* bound on the operator's commands
  MaxFaults      \* bound on what goes wrong: calls without an answer or without
                 \* an effect, processes that die

ASSUME AccountAssumption ==
  /\ PodJobs \cap EndpointJobs = {}
  /\ (PodJobs \cup EndpointJobs) \cap Nat = {}
  /\ MaxCommands \in Nat /\ MaxFaults \in Nat

VARIABLES
  pod,       \* the pod of each job
  endpoint,  \* the serverless endpoints
  template,  \* the serverless templates
  request,   \* the requests sent to an endpoint
  faults     \* what went wrong so far

accountVars == <<pod, endpoint, template, request, faults>>

Commands == 1..MaxCommands

Known == 0  \* the endpoint that is configured, the template the operator names

Jobs == PodJobs \cup EndpointJobs

Requesters == EndpointJobs \cup Commands

AccountTypeOK ==
  /\ pod \in [PodJobs -> {"none", "starting", "running", "exited", "removed"}]
  /\ endpoint \in [Commands \cup {Known} -> {"none", "cold", "warm", "off", "deleted"}]
  /\ template \in [Commands \cup {Known} -> {"none", "kept", "deleted"}]
  /\ request \in [Requesters ->
       {"none", "queued", "running", "completed", "failed", "cancelled"}]
  /\ faults \in 0..MaxFaults

AccountInit ==
  /\ pod = [j \in PodJobs |-> "none"]
  /\ endpoint = [e \in Commands \cup {Known} |-> IF e = Known THEN "cold" ELSE "none"]
  /\ template = [t \in Commands \cup {Known} |-> IF t = Known THEN "kept" ELSE "none"]
  /\ request = [q \in Requesters |-> "none"]
  /\ faults = 0

-------------------------------------------------------------------------------
(* Reading the account *)

LiveRequest(q) == request[q] \in {"queued", "running"}

\* A pod that costs money by the hour.
PodRuns(j) == pod[j] \in {"starting", "running"}

\* Every pod the snapshot lists, whatever its desiredStatus.
Listed == {j \in PodJobs : pod[j] \in {"starting", "running", "exited"}}

\* Endpoints with workersMin or workersStandby above zero.
Warm == {e \in DOMAIN endpoint : endpoint[e] = "warm"}

\* Mutant: an exited pod is not billable.
BillableRunning == {j \in PodJobs : PodRuns(j)} \cup Warm

Billable == Listed \cup Warm

\* Whether something goes wrong with a step.
Counted(wrong) ==
  /\ wrong => faults < MaxFaults
  /\ faults' = IF wrong THEN faults + 1 ELSE faults

\* cost_guard with the outcome ok.  A snapshot that fails is an empty one, which
\* is a clean one; a failing doctor and a volume nobody approved are not clean.
\* answered says whether the outcome is that of the account.
Guard(ok, answered) ==
  /\ answered => (ok <=> Billable = {})
  /\ Counted(~answered)

-------------------------------------------------------------------------------
(* What RunPod and the operator do by themselves *)

PodStarts(j) ==
  /\ pod[j] = "starting"
  /\ pod' = [pod EXCEPT ![j] = "running"]
  /\ UNCHANGED <<endpoint, template, request, faults>>

\* podTerminate, by hand
PodRemoved(j) ==
  /\ pod[j] = "exited"
  /\ pod' = [pod EXCEPT ![j] = "removed"]
  /\ UNCHANGED <<endpoint, template, request, faults>>

RequestStarts(q) ==
  /\ request[q] = "queued"
  /\ request' = [request EXCEPT ![q] = "running"]
  /\ UNCHANGED <<pod, endpoint, template, faults>>

\* It ends, or its time to live does.
RequestEnds(q, outcome) ==
  /\ LiveRequest(q)
  /\ outcome = "completed" => request[q] = "running"
  /\ request' = [request EXCEPT ![q] = outcome]
  /\ UNCHANGED <<pod, endpoint, template, faults>>

AccountStep ==
  \/ \E j \in PodJobs : PodStarts(j) \/ PodRemoved(j)
  \/ \E q \in Requesters :
       RequestStarts(q) \/ \E o \in {"completed", "failed"} : RequestEnds(q, o)
===============================================================================

------------------------------ MODULE RunpodJobs ------------------------------
(***************************************************************************)
(* Jobs on RunPod: submit_job with RunPodProvider.submit inside it, each   *)
(* job in a process of its own.  A pod job creates a pod, waits for its    *)
(* worker, has it generate and stops the pod in a finally block.  An       *)
(* endpoint job sends a request to the configured endpoint and polls it.   *)
(***************************************************************************)
EXTENDS RunpodAccount

CONSTANT SyncJobs  \* endpoint jobs for which the openai mode is configured

ASSUME SyncAssumption == SyncJobs \subseteq EndpointJobs

VARIABLES
  rec,  \* the stored record of each job
  run   \* what the process of each job holds in memory

Phases == {"guard", "submit", "create", "check", "poll", "stop", "send", "wait",
           "cancel", "artifacts", "postguard", "done"}

\* pid is whether the record names the job's pod.
Record == [status : {"new", "starting", "running", "succeeded", "failed"},
           error : BOOLEAN, pid : BOOLEAN]

\* The result so far (ok), the error, whether the pod's id is known, whether the
\* request is a chat completion that answers itself (sync).  tidy and audited are
\* history: whether every call of the process answered and had its effect, and
\* whether it ended as succeeded with a cost guard that answered.
Process == [pc : Phases, ok : BOOLEAN, error : BOOLEAN, known : BOOLEAN,
            sync : BOOLEAN, tidy : BOOLEAN, audited : BOOLEAN]

JobsTypeOK ==
  /\ rec \in [Jobs -> Record]
  /\ run \in [Jobs -> Process]

Fresh == [pc |-> "guard", ok |-> TRUE, error |-> FALSE, known |-> FALSE,
          sync |-> FALSE, tidy |-> TRUE, audited |-> FALSE]

JobsInit ==
  /\ rec = [j \in Jobs |-> [status |-> "new", error |-> FALSE, pid |-> FALSE]]
  /\ run = [j \in Jobs |-> Fresh]

-------------------------------------------------------------------------------
(* Moving on *)

At(j, phase) == run[j].pc = phase

Goto(j, phase) == run' = [run EXCEPT ![j].pc = phase]

\* An exception or a failure of the provider's work; gone wrong with a fault or not.
Fails(j, phase, fault) ==
  /\ run' = [run EXCEPT ![j] = [run[j] EXCEPT !.pc = phase, !.ok = FALSE, !.error = TRUE,
                                              !.tidy = @ /\ ~fault]]
  /\ Counted(fault)
  /\ UNCHANGED rec

Quiet == UNCHANGED <<pod, endpoint, template, request>>

-------------------------------------------------------------------------------
(* submit_job *)

PreGuardRefuses(j, answered) ==
  /\ At(j, "guard") /\ Guard(FALSE, answered)
  /\ rec' = [rec EXCEPT ![j].status = "failed", ![j].error = TRUE]
  /\ Goto(j, "done") /\ Quiet

PreGuardPasses(j, answered) ==
  /\ At(j, "guard") /\ Guard(TRUE, answered)
  /\ rec' = [rec EXCEPT ![j].status = "starting"]
  /\ Goto(j, "submit") /\ Quiet

\* The guard of the whole account has the last word on a job without an error.
PostGuard(j, ok, answered) ==
  /\ At(j, "postguard") /\ Guard(ok, answered)
  /\ LET blamed == ~ok /\ ~rec[j].error
     IN /\ rec' = [rec EXCEPT ![j].status = IF blamed THEN "failed" ELSE @,
                              ![j].error = @ \/ blamed]
        /\ run' = [run EXCEPT ![j] =
             [Fresh EXCEPT !.pc = "done", !.sync = run[j].sync, !.tidy = run[j].tidy,
                !.audited = answered /\ ~blamed /\ rec[j].status = "succeeded"]]
  /\ Quiet

\* The process dies, or a guard in it raises.
JobDies(j) ==
  /\ run[j].pc \notin {"guard", "done"}
  /\ run' = [run EXCEPT ![j] = [Fresh EXCEPT !.pc = "done", !.tidy = FALSE]]
  /\ Counted(TRUE) /\ Quiet /\ UNCHANGED rec

-------------------------------------------------------------------------------
(* A pod job: _submit_pod_worker and canary_pod_http_worker *)

StartPodWorker(j) ==
  /\ j \in PodJobs /\ At(j, "submit")
  /\ rec' = [rec EXCEPT ![j].status = "running"]
  /\ Goto(j, "create") /\ Quiet /\ UNCHANGED faults

\* The plan is not ok: no such gpu type, no price, or too dear a price.
PlanRefuses(j) ==
  /\ j \in PodJobs /\ At(j, "create")
  /\ Fails(j, "artifacts", FALSE) /\ Quiet

\* No machine is free, or the call is refused.
CreateRefused(j) ==
  /\ j \in PodJobs /\ At(j, "create")
  /\ Fails(j, "stop", FALSE) /\ Quiet

PodCreated(j) ==
  /\ j \in PodJobs /\ At(j, "create")
  /\ pod' = [pod EXCEPT ![j] = "starting"]
  /\ run' = [run EXCEPT ![j].pc = "check", ![j].known = TRUE]
  /\ UNCHANGED <<endpoint, template, request, faults, rec>>

\* The pod exists, and the answer is lost or names no id.
PodCreateLost(j) ==
  /\ j \in PodJobs /\ At(j, "create")
  /\ pod' = [pod EXCEPT ![j] = "starting"]
  /\ Fails(j, "stop", TRUE)
  /\ UNCHANGED <<endpoint, template, request>>

\* _actual_pod_cost_guard: what the pod really costs may be more than planned.
PodTooDear(j) == At(j, "check") /\ Fails(j, "stop", FALSE) /\ Quiet

PodAffordable(j) ==
  /\ At(j, "check")
  /\ Goto(j, "poll") /\ Quiet /\ UNCHANGED <<faults, rec>>

\* The worker is healthy and has generated.
PodServes(j) ==
  /\ At(j, "poll") /\ pod[j] = "running"
  /\ Goto(j, "stop") /\ Quiet /\ UNCHANGED <<faults, rec>>

\* Never healthy until the deadline, a bad answer, or a poll that raises
PodUnfit(j, fault) == At(j, "poll") /\ Fails(j, "stop", fault) /\ Quiet

\* Mutant: the result does not depend on the stop.
StopPodUnchecked(j, effect, confirmed) ==
  /\ At(j, "stop") /\ run[j].known
  /\ confirmed => effect
  /\ pod' = [pod EXCEPT ![j] = IF effect /\ PodRuns(j) THEN "exited" ELSE @]
  /\ run' = [run EXCEPT ![j] = [run[j] EXCEPT !.pc = "artifacts", !.tidy = @ /\ confirmed]]
  /\ Counted(~confirmed)
  /\ UNCHANGED <<endpoint, template, request, rec>>

\* The finally block stops the pod; a stop that is not confirmed spoils the result.
StopPod(j, effect, confirmed) ==
  /\ At(j, "stop") /\ run[j].known
  /\ confirmed => effect
  /\ pod' = [pod EXCEPT ![j] = IF effect /\ PodRuns(j) THEN "exited" ELSE @]
  /\ run' = [run EXCEPT ![j] = [run[j] EXCEPT !.pc = "artifacts", !.ok = @ /\ confirmed,
                            !.error = @ \/ ~confirmed, !.tidy = @ /\ confirmed]]
  /\ Counted(~confirmed)
  /\ UNCHANGED <<endpoint, template, request, rec>>

NothingToStop(j) ==
  /\ At(j, "stop") /\ ~run[j].known
  /\ Goto(j, "artifacts") /\ Quiet /\ UNCHANGED <<faults, rec>>

-------------------------------------------------------------------------------
(* An endpoint job *)

\* No endpoint is configured.
NoEndpoint(j) ==
  /\ j \in EndpointJobs /\ At(j, "submit")
  /\ rec' = [rec EXCEPT ![j].status = "failed", ![j].error = TRUE]
  /\ Goto(j, "postguard") /\ Quiet /\ UNCHANGED faults

\* _llm_endpoint takes the endpoint from the snapshot, without its configured
\* mode, and from the environment, with it, only when the snapshot lacks it.
FindEndpoint(j, answered) ==
  /\ j \in EndpointJobs /\ At(j, "submit")
  /\ LET found == answered /\ endpoint[Known] # "deleted"
     IN run' = [run EXCEPT ![j].pc = "send", ![j].sync = j \in SyncJobs /\ ~found]
  /\ rec' = [rec EXCEPT ![j].status = "running"]
  /\ Counted(~answered) /\ Quiet

SendRefused(j) == j \in EndpointJobs /\ At(j, "send") /\ Fails(j, "artifacts", FALSE) /\ Quiet

Send(j) ==
  /\ At(j, "send")
  /\ request' = [request EXCEPT ![j] = "queued"]
  /\ Goto(j, "wait")
  /\ UNCHANGED <<pod, endpoint, template, faults, rec>>

\* The request is queued, and nobody learns its id.
SendLost(j) ==
  /\ At(j, "send")
  /\ request' = [request EXCEPT ![j] = "queued"]
  /\ Fails(j, "artifacts", TRUE)
  /\ UNCHANGED <<pod, endpoint, template>>

\* The output has a text, or says ok.
Answered(j) ==
  /\ At(j, "wait") /\ request[j] = "completed"
  /\ Goto(j, "artifacts") /\ Quiet /\ UNCHANGED <<faults, rec>>

\* Not completed, or completed with an output that will not do
AnsweredBadly(j) ==
  /\ At(j, "wait") /\ ~LiveRequest(j)
  /\ Fails(j, "artifacts", FALSE) /\ Quiet

\* Mutant: a request that waits too long is given up, not cancelled.
TimesOutUncancelled(j) ==
  /\ At(j, "wait") /\ LiveRequest(j) /\ ~run[j].sync
  /\ Goto(j, "artifacts") /\ Quiet /\ UNCHANGED <<faults, rec>>

\* The status read was IN_QUEUE or IN_PROGRESS, and its time is over.
TimesOut(j) ==
  /\ At(j, "wait") /\ LiveRequest(j) /\ ~run[j].sync
  /\ Goto(j, "cancel") /\ Quiet /\ UNCHANGED <<faults, rec>>

\* Mutant: a state no request has.
CancelMisspelled(j, effect) ==
  /\ At(j, "cancel")
  /\ request' = [request EXCEPT ![j] = IF effect /\ LiveRequest(j) THEN "canceled" ELSE @]
  /\ Fails(j, "artifacts", ~effect)
  /\ UNCHANGED <<pod, endpoint, template>>

\* Meanwhile the request may have ended.  What the cancel answers is not looked at.
Cancel(j, effect) ==
  /\ At(j, "cancel")
  /\ request' = [request EXCEPT ![j] = IF effect /\ LiveRequest(j) THEN "cancelled" ELSE @]
  /\ Fails(j, "artifacts", ~effect)
  /\ UNCHANGED <<pod, endpoint, template>>

\* The chat completion times out, which cancels nothing.
SyncTimesOut(j) ==
  /\ At(j, "wait") /\ LiveRequest(j) /\ run[j].sync
  /\ Fails(j, "artifacts", FALSE) /\ Quiet

\* A status call raises: the child process ends without a cancel.
PollRaises(j) ==
  /\ At(j, "wait") /\ ~run[j].sync
  /\ Fails(j, "artifacts", TRUE) /\ Quiet

-------------------------------------------------------------------------------
\* The artifacts are written and verified and the record is saved; a verification
\* that fails leaves no error in it.  Until here the record has no pod id.
SaveOutcome(j, verified) ==
  /\ At(j, "artifacts")
  /\ rec' = [rec EXCEPT ![j] =
       [status |-> IF run[j].ok /\ verified THEN "succeeded" ELSE "failed",
        error  |-> run[j].error,
        pid    |-> run[j].known]]
  /\ run' = [run EXCEPT ![j].pc = "postguard", ![j].ok = TRUE, ![j].error = FALSE]
  /\ Quiet /\ UNCHANGED faults

\* Writing the artifacts raises: submit_job fails the job.
SubmitRaises(j) ==
  /\ At(j, "artifacts")
  /\ rec' = [rec EXCEPT ![j].status = "failed", ![j].error = TRUE]
  /\ run' = [run EXCEPT ![j].pc = "postguard", ![j].ok = TRUE, ![j].error = FALSE]
  /\ Counted(TRUE) /\ Quiet

JobStep(j) ==
  \/ JobDies(j) \/ SubmitRaises(j)
  \/ StartPodWorker(j) \/ PlanRefuses(j) \/ CreateRefused(j) \/ PodCreated(j)
  \/ PodCreateLost(j) \/ PodTooDear(j) \/ PodAffordable(j) \/ PodServes(j)
  \/ NothingToStop(j)
  \/ NoEndpoint(j) \/ SendRefused(j) \/ Send(j) \/ SendLost(j) \/ Answered(j)
  \/ AnsweredBadly(j) \/ TimesOut(j) \/ SyncTimesOut(j) \/ PollRaises(j)
  \/ \E b \in BOOLEAN :
       \/ PreGuardRefuses(j, b) \/ PreGuardPasses(j, b) \/ PodUnfit(j, b)
       \/ FindEndpoint(j, b) \/ Cancel(j, b) \/ SaveOutcome(j, b)
       \/ \E e \in BOOLEAN : PostGuard(j, b, e) \/ StopPod(j, b, e)
===============================================================================

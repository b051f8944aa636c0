----------------------------- MODULE RunpodProof ------------------------------
(***************************************************************************)
(* Theorems about the RunPod account, for any jobs, any number of commands *)
(* and any number of faults.                                               *)
(***************************************************************************)
EXTENDS Runpod, TLAPS

\* A job of a pod: until the pod is created it has none; a result that is good so far
\* has a pod whose id is known, and once the artifacts are written one that was
\* stopped; a success is that of a pod that stays stopped.
PodJobInv(j) ==
  LET p == run[j] IN
  /\ p.pc \in {"guard", "submit", "create", "check", "poll", "stop", "artifacts", "postguard",
               "done"}
  /\ p.pc \in {"guard", "submit", "create"} => pod[j] = "none"
  /\ p.known => pod[j] # "none"
  /\ p.pc \in {"check", "poll", "stop"} /\ p.ok => p.known
  /\ p.pc = "artifacts" /\ p.ok => p.known /\ pod[j] \in {"exited", "removed"}
  /\ p.ok => ~p.error
  /\ rec[j].status = "succeeded" =>
       /\ rec[j].pid /\ ~rec[j].error
       /\ pod[j] \in {"exited", "removed"}
       /\ p.pc \in {"postguard", "done"}
  /\ p.audited => p.pc = "done" /\ pod[j] = "removed"

\* A job at the endpoint: it has no request before it sends one, and one that is live is
\* waited for, unless something of it was lost or it answers itself.
EndpointJobInv(j) ==
  LET p == run[j] IN
  /\ p.pc \in {"guard", "submit", "send", "wait", "cancel", "artifacts", "postguard", "done"}
  /\ p.pc \in {"guard", "submit", "send"} => request[j] = "none"
  /\ LiveRequest(j) /\ p.tidy /\ ~p.sync => p.pc \in {"wait", "cancel"}

\* Where an endpoint of its own is there, the command knows it.
Holding == {"inspect", "canary", "send", "wait", "cancel", "disable", "delete"}

\* The command: its kind fits its phase; only a probe works with the endpoint that is
\* there, and that one creates none and comes to no disable and no delete; what it
\* creates is new; what is still there and not accepted it knows and will take away,
\* or something was lost; what is accepted is cold; a good result is that of a request
\* that has completed, and a delete that was confirmed has had its effect.
CommandInv ==
  /\ op.pc # "idle" => op.n > 0
  /\ op.n = 0 => op = NoCommand
  /\ op.pc \in {"resolve", "send", "wait", "cancel", "untemplate"} => op.kind = "probe"
  /\ op.pc = "canary" => op.kind = "promote"
  /\ op.pc = "postguard" => op.kind # "promote"
  /\ op.existing => /\ op.kind = "probe" /\ endpoint[op.n] = "none"
                    /\ op.pc \notin {"template", "endpoint", "disable", "delete"}
  /\ op.pc \in Holding => op.endpoint
  /\ op.pc \in {"resolve", "template", "endpoint"} =>
       endpoint[op.n] = "none" /\ ~op.endpoint
  /\ op.pc = "inspect" /\ ~op.existing => endpoint[op.n] \in {"cold", "warm"}
  /\ op.pc = "canary" => endpoint[op.n] = "cold"
  /\ op.n > 0 /\ op.tidy /\ endpoint[op.n] \notin {"none", "deleted"} =>
       op.pc \in Holding \/ op.accepted
  /\ op.accepted => op.pc \in {"postguard", "idle"}
  /\ op.accepted /\ op.tidy => endpoint[op.n] = "cold"
  /\ op.ok => /\ op.pc \in {"disable", "delete", "untemplate", "postguard"}
              /\ request[op.n] = "completed" /\ op.endpoint
  /\ op.deleted => op.pc \in {"untemplate", "postguard"} /\ endpoint[op.n] = "deleted"
  /\ op.verdict # "none" => op.pc = "idle"
  /\ op.verdict = "ok" /\ op.kind = "probe" =>
       endpoint[op.n] \in {"none", "deleted"} /\ request[op.n] = "completed"

\* Commands to come have created nothing yet.
FutureInv == \A n \in Commands : n > op.n => endpoint[n] = "none"

RunpodInv ==
  /\ RunpodTypeOK
  /\ \A j \in PodJobs : PodJobInv(j)
  /\ \A j \in EndpointJobs : EndpointJobInv(j)
  /\ CommandInv
  /\ FutureInv

-------------------------------------------------------------------------------
(* What a job does *)

LEMMA ConstantFacts ==
  /\ MaxCommands \in Nat /\ MaxFaults \in Nat /\ Known \notin Commands
  /\ Known \in DOMAIN [e \in Commands \cup {Known} |-> e]
  /\ \A n \in Commands : n \notin Jobs /\ n # Known /\ n \in Requesters
  /\ PodJobs \cap EndpointJobs = {}
BY AccountAssumption DEF Commands, Known, Jobs, Requesters

LEMMA CountedType ==
  ASSUME AccountTypeOK, NEW b, Counted(b)
  PROVE  faults' \in 0..MaxFaults
BY AccountAssumption DEF AccountTypeOK, Counted

\* Only the process of j and its record move.
OnlyJob(j) ==
  /\ run' \in [Jobs -> Process] /\ rec' \in [Jobs -> Record]
  /\ \A k \in Jobs : k # j => run'[k] = run[k] /\ rec'[k] = rec[k]

\* Of what a process holds, only the phase is another one.
LEMMA GotoMemory ==
  ASSUME JobsTypeOK, NEW j \in Jobs, NEW phase \in Phases, Goto(j, phase)
  PROVE  /\ run' \in [Jobs -> Process] /\ \A k \in Jobs : k # j => run'[k] = run[k]
         /\ run'[j].pc = phase
         /\ run'[j].ok = run[j].ok /\ run'[j].error = run[j].error
         /\ run'[j].known = run[j].known /\ run'[j].sync = run[j].sync
         /\ run'[j].tidy = run[j].tidy /\ run'[j].audited = run[j].audited
<1>1. run[j] \in Process /\ run \in [Jobs -> Process]
  BY DEF JobsTypeOK
<1>. DEFINE p == [run[j] EXCEPT !.pc = phase]
<1>2. run' = [run EXCEPT ![j] = p]
  BY DEF Goto
<1>3. /\ p \in Process /\ p.pc = phase /\ p.ok = run[j].ok /\ p.error = run[j].error
      /\ p.known = run[j].known /\ p.sync = run[j].sync
      /\ p.tidy = run[j].tidy /\ p.audited = run[j].audited
  BY <1>1 DEF Process
<1>. HIDE DEF p
<1>. QED BY <1>1, <1>2, <1>3

\* What fails has an error, and is no longer tidy if a call was to blame.
LEMMA FailsMemory ==
  ASSUME JobsTypeOK, AccountTypeOK, NEW j \in Jobs, NEW phase \in Phases, NEW f \in BOOLEAN,
         Fails(j, phase, f)
  PROVE  /\ OnlyJob(j) /\ rec' = rec /\ faults' \in 0..MaxFaults
         /\ run'[j].pc = phase /\ ~run'[j].ok
         /\ run'[j].known = run[j].known /\ run'[j].sync = run[j].sync
         /\ run'[j].tidy => run[j].tidy /\ ~f
         /\ run'[j].audited = run[j].audited
<1>1. run[j] \in Process /\ run \in [Jobs -> Process]
  BY DEF JobsTypeOK
<1>. DEFINE p == [run[j] EXCEPT !.pc = phase, !.ok = FALSE, !.error = TRUE, !.tidy = @ /\ ~f]
<1>2. run' = [run EXCEPT ![j] = p]
  BY <1>1 DEF Fails
<1>3. /\ p \in Process /\ p.pc = phase /\ ~p.ok
      /\ p.known = run[j].known /\ p.sync = run[j].sync
      /\ p.tidy = (run[j].tidy /\ ~f) /\ p.audited = run[j].audited
  BY <1>1 DEF Process
<1>. HIDE DEF p
<1>4. rec' = rec /\ faults' \in 0..MaxFaults
  BY CountedType DEF Fails
<1>. QED BY <1>1, <1>2, <1>3, <1>4 DEF OnlyJob, JobsTypeOK

\* A job moves, with its own pod and its own request.
JobEffect(j) ==
  /\ OnlyJob(j)
  /\ pod' \in [PodJobs -> {"none", "starting", "running", "exited", "removed"}]
  /\ \A k \in PodJobs : k # j => pod'[k] = pod[k]
  /\ request' \in [Requesters -> {"none", "queued", "running", "completed", "failed", "cancelled"}]
  /\ \A q \in Requesters : q # j => request'[q] = request[q]
  /\ UNCHANGED <<endpoint, template>>
  /\ faults' \in 0..MaxFaults
  /\ j \in PodJobs => PodJobInv(j)'
  /\ j \in EndpointJobs => EndpointJobInv(j)'

JobInv(j) ==
  /\ j \in PodJobs => PodJobInv(j)
  /\ j \in EndpointJobs => EndpointJobInv(j)

\* A step that leaves the account alone
LEMMA QuietEffect ==
  ASSUME AccountTypeOK, NEW j \in Jobs, OnlyJob(j), Quiet, faults' \in 0..MaxFaults,
         j \in PodJobs => PodJobInv(j)', j \in EndpointJobs => EndpointJobInv(j)'
  PROVE  JobEffect(j)
BY DEF JobEffect, Quiet, AccountTypeOK

\* A job fails somewhere: a pod job has no result then, an endpoint job no live request
\* that nobody waits for.
LEMMA FailsEffect ==
  ASSUME JobsTypeOK, AccountTypeOK, NEW j \in Jobs, JobInv(j), NEW f \in BOOLEAN,
         NEW phase \in {"artifacts", "stop"}, Fails(j, phase, f), Quiet,
         j \in PodJobs => run[j].pc \in {"create", "check", "poll"},
         j \in EndpointJobs => /\ phase = "artifacts" /\ run[j].pc \in {"send", "wait"}
                               /\ f \/ ~LiveRequest(j) \/ run[j].sync
  PROVE  JobEffect(j)
<1>1. /\ OnlyJob(j) /\ rec' = rec /\ faults' \in 0..MaxFaults
      /\ run'[j].pc = phase /\ ~run'[j].ok
      /\ run'[j].known = run[j].known /\ run'[j].sync = run[j].sync
      /\ run'[j].tidy => run[j].tidy /\ ~f
      /\ run'[j].audited = run[j].audited
  BY FailsMemory DEF Phases
<1>2. ASSUME j \in PodJobs PROVE PodJobInv(j)'
  BY <1>1, <1>2 DEF JobInv, PodJobInv, Quiet
<1>3. ASSUME j \in EndpointJobs PROVE EndpointJobInv(j)'
  BY <1>1, <1>3 DEF JobInv, EndpointJobInv, Quiet, LiveRequest
<1>. QED BY <1>1, <1>2, <1>3, QuietEffect

\* A job goes on to another phase.
LEMMA GotoEffect ==
  ASSUME JobsTypeOK, AccountTypeOK, NEW j \in Jobs, JobInv(j),
         NEW phase \in Phases, Goto(j, phase), Quiet, rec' \in [Jobs -> Record],
         \A k \in Jobs : k # j => rec'[k] = rec[k],
         rec'[j].status # "succeeded" \/ rec'[j] = rec[j],
         faults' \in 0..MaxFaults,
         j \in PodJobs =>
           \/ run[j].pc = "guard" /\ phase \in {"submit", "done"}
           \/ run[j].pc = "submit" /\ phase = "create"
           \/ run[j].pc = "check" /\ phase = "poll"
           \/ run[j].pc = "poll" /\ phase = "stop"
           \/ run[j].pc = "stop" /\ phase = "artifacts" /\ ~run[j].known,
         j \in EndpointJobs =>
           \/ run[j].pc = "guard" /\ phase \in {"submit", "done"}
           \/ run[j].pc = "submit" /\ phase = "postguard"
           \/ run[j].pc = "wait" /\ phase = "cancel"
           \/ run[j].pc = "wait" /\ phase = "artifacts" /\ ~LiveRequest(j)
  PROVE  JobEffect(j)
<1>1. /\ run' \in [Jobs -> Process] /\ \A k \in Jobs : k # j => run'[k] = run[k]
      /\ run'[j].pc = phase
      /\ run'[j].ok = run[j].ok /\ run'[j].error = run[j].error
      /\ run'[j].known = run[j].known /\ run'[j].sync = run[j].sync
      /\ run'[j].tidy = run[j].tidy /\ run'[j].audited = run[j].audited
  BY GotoMemory
<1>2. ASSUME j \in PodJobs PROVE PodJobInv(j)'
  BY <1>1, <1>2 DEF JobInv, PodJobInv, Quiet
<1>3. ASSUME j \in EndpointJobs PROVE EndpointJobInv(j)'
  BY <1>1, <1>3 DEF JobInv, EndpointJobInv, Quiet, LiveRequest
<1>. QED BY <1>1, <1>2, <1>3, QuietEffect DEF OnlyJob

\* The guard of the account counts a fault at most.
LEMMA GuardCounts ==
  ASSUME AccountTypeOK, NEW ok \in BOOLEAN, NEW answered \in BOOLEAN, Guard(ok, answered)
  PROVE  faults' \in 0..MaxFaults
BY CountedType DEF Guard

\* The fields of a record that is failed with an error, or only gets another status
LEMMA RecordFails ==
  ASSUME JobsTypeOK, NEW j \in Jobs,
         rec' = [rec EXCEPT ![j].status = "failed", ![j].error = TRUE]
  PROVE  /\ rec' \in [Jobs -> Record] /\ \A k \in Jobs : k # j => rec'[k] = rec[k]
         /\ rec'[j].status = "failed"
<1>. DEFINE r == [rec[j] EXCEPT !.status = "failed", !.error = TRUE]
<1>1. rec[j] \in Record /\ rec \in [Jobs -> Record]
  BY DEF JobsTypeOK
<1>2. rec' = [rec EXCEPT ![j] = r]
  BY <1>1
<1>3. r \in Record /\ r.status = "failed"
  BY <1>1 DEF Record
<1>. HIDE DEF r
<1>. QED BY <1>1, <1>2, <1>3

LEMMA RecordMoves ==
  ASSUME JobsTypeOK, NEW j \in Jobs, NEW s \in {"starting", "running"},
         rec' = [rec EXCEPT ![j].status = s]
  PROVE  /\ rec' \in [Jobs -> Record] /\ \A k \in Jobs : k # j => rec'[k] = rec[k]
         /\ rec'[j].status = s
<1>. DEFINE r == [rec[j] EXCEPT !.status = s]
<1>1. rec[j] \in Record /\ rec \in [Jobs -> Record]
  BY DEF JobsTypeOK
<1>2. rec' = [rec EXCEPT ![j] = r]
  BY <1>1
<1>3. r \in Record /\ r.status = s
  BY <1>1 DEF Record
<1>. HIDE DEF r
<1>. QED BY <1>1, <1>2, <1>3

\* The steps that only go on
LEMMA JobGoesOn ==
  ASSUME JobsTypeOK, AccountTypeOK, NEW j \in Jobs, JobInv(j),
         \/ \E b \in BOOLEAN : PreGuardRefuses(j, b) \/ PreGuardPasses(j, b)
         \/ StartPodWorker(j) \/ PodAffordable(j) \/ PodServes(j) \/ NothingToStop(j)
         \/ NoEndpoint(j) \/ Answered(j) \/ TimesOut(j)
  PROVE  JobEffect(j)
<1>0. rec \in [Jobs -> Record] /\ faults \in 0..MaxFaults /\ rec[j] \in Record
  BY DEF JobsTypeOK, AccountTypeOK
<1>1. ASSUME NEW b \in BOOLEAN, PreGuardRefuses(j, b) PROVE JobEffect(j)
  <2>1. /\ rec' \in [Jobs -> Record] /\ \A k \in Jobs : k # j => rec'[k] = rec[k]
        /\ rec'[j].status = "failed"
    BY <1>1, RecordFails DEF PreGuardRefuses
  <2>2. faults' \in 0..MaxFaults
    BY <1>1, GuardCounts DEF PreGuardRefuses
  <2>3. run[j].pc = "guard" /\ Goto(j, "done") /\ Quiet /\ "done" \in Phases
    BY <1>1 DEF PreGuardRefuses, At, Phases
  <2>. QED BY <2>1, <2>2, <2>3, GotoEffect
<1>2. ASSUME NEW b \in BOOLEAN, PreGuardPasses(j, b) PROVE JobEffect(j)
  <2>1. /\ rec' \in [Jobs -> Record] /\ \A k \in Jobs : k # j => rec'[k] = rec[k]
        /\ rec'[j].status = "starting"
    BY <1>2, RecordMoves DEF PreGuardPasses
  <2>2. faults' \in 0..MaxFaults
    BY <1>2, GuardCounts DEF PreGuardPasses
  <2>3. run[j].pc = "guard" /\ Goto(j, "submit") /\ Quiet /\ "submit" \in Phases
    BY <1>2 DEF PreGuardPasses, At, Phases
  <2>. QED BY <2>1, <2>2, <2>3, GotoEffect
<1>3. ASSUME StartPodWorker(j) PROVE JobEffect(j)
  <2>1. /\ rec' \in [Jobs -> Record] /\ \A k \in Jobs : k # j => rec'[k] = rec[k]
        /\ rec'[j].status = "running"
    BY <1>3, RecordMoves DEF StartPodWorker
  <2>2. /\ run[j].pc = "submit" /\ Goto(j, "create") /\ Quiet /\ "create" \in Phases
        /\ j \in PodJobs /\ j \notin EndpointJobs /\ faults' = faults
    BY <1>3, ConstantFacts DEF StartPodWorker, At, Phases
  <2>. QED BY <1>0, <2>1, <2>2, GotoEffect
<1>4. ASSUME NoEndpoint(j) PROVE JobEffect(j)
  <2>1. /\ rec' \in [Jobs -> Record] /\ \A k \in Jobs : k # j => rec'[k] = rec[k]
        /\ rec'[j].status = "failed"
    BY <1>4, RecordFails DEF NoEndpoint
  <2>2. /\ run[j].pc = "submit" /\ Goto(j, "postguard") /\ Quiet /\ "postguard" \in Phases
        /\ j \notin PodJobs /\ faults' = faults
    BY <1>4, ConstantFacts DEF NoEndpoint, At, Phases
  <2>. QED BY <1>0, <2>1, <2>2, GotoEffect
<1>5. ASSUME PodAffordable(j) PROVE JobEffect(j)
  <2>1. /\ run[j].pc = "check" /\ Goto(j, "poll") /\ Quiet /\ "poll" \in Phases
        /\ j \notin EndpointJobs /\ faults' = faults /\ rec' = rec
    BY <1>5 DEF PodAffordable, At, Phases, JobInv, EndpointJobInv
  <2>. QED BY <1>0, <2>1, GotoEffect
<1>6. ASSUME PodServes(j) PROVE JobEffect(j)
  <2>1. /\ run[j].pc = "poll" /\ Goto(j, "stop") /\ Quiet /\ "stop" \in Phases
        /\ j \notin EndpointJobs /\ faults' = faults /\ rec' = rec
    BY <1>6 DEF PodServes, At, Phases, JobInv, EndpointJobInv
  <2>. QED BY <1>0, <2>1, GotoEffect
<1>7. ASSUME NothingToStop(j) PROVE JobEffect(j)
  <2>1. /\ run[j].pc = "stop" /\ Goto(j, "artifacts") /\ Quiet /\ "artifacts" \in Phases
        /\ ~run[j].known /\ j \notin EndpointJobs /\ faults' = faults /\ rec' = rec
    BY <1>7 DEF NothingToStop, At, Phases, JobInv, EndpointJobInv
  <2>. QED BY <1>0, <2>1, GotoEffect
<1>8. ASSUME Answered(j) PROVE JobEffect(j)
  <2>1. /\ run[j].pc = "wait" /\ Goto(j, "artifacts") /\ Quiet /\ "artifacts" \in Phases
        /\ ~LiveRequest(j) /\ j \notin PodJobs /\ faults' = faults /\ rec' = rec
    BY <1>8 DEF Answered, At, Phases, JobInv, PodJobInv, LiveRequest
  <2>. QED BY <1>0, <2>1, GotoEffect
<1>9. ASSUME TimesOut(j) PROVE JobEffect(j)
  <2>1. /\ run[j].pc = "wait" /\ Goto(j, "cancel") /\ Quiet /\ "cancel" \in Phases
        /\ j \notin PodJobs /\ faults' = faults /\ rec' = rec
    BY <1>9 DEF TimesOut, At, Phases, JobInv, PodJobInv
  <2>. QED BY <1>0, <2>1, GotoEffect
<1>. QED BY <1>1, <1>2, <1>3, <1>4, <1>5, <1>6, <1>7, <1>8, <1>9

\* The steps at which a job fails without touching the account
LEMMA JobFails ==
  ASSUME JobsTypeOK, AccountTypeOK, NEW j \in Jobs, JobInv(j),
         \/ PlanRefuses(j) \/ CreateRefused(j) \/ PodTooDear(j)
         \/ \E b \in BOOLEAN : PodUnfit(j, b)
         \/ SendRefused(j) \/ AnsweredBadly(j) \/ SyncTimesOut(j) \/ PollRaises(j)
  PROVE  JobEffect(j)
<1>1. PICK f \in BOOLEAN, phase \in {"artifacts", "stop"} :
        /\ Fails(j, phase, f) /\ Quiet
        /\ \/ run[j].pc \in {"create", "check", "poll"}
           \/ /\ phase = "artifacts" /\ run[j].pc = "send" /\ ~LiveRequest(j)
           \/ /\ phase = "artifacts" /\ run[j].pc = "wait"
              /\ f \/ ~LiveRequest(j) \/ run[j].sync
  <2>1. CASE PlanRefuses(j)
    BY <2>1 DEF PlanRefuses, At
  <2>2. CASE CreateRefused(j)
    BY <2>2 DEF CreateRefused, At
  <2>3. CASE PodTooDear(j)
    BY <2>3 DEF PodTooDear, At
  <2>4. CASE \E b \in BOOLEAN : PodUnfit(j, b)
    BY <2>4 DEF PodUnfit, At
  <2>5. CASE SendRefused(j)
    BY <2>5 DEF SendRefused, At, JobInv, EndpointJobInv, LiveRequest
  <2>6. CASE AnsweredBadly(j)
    BY <2>6 DEF AnsweredBadly, At
  <2>7. CASE SyncTimesOut(j)
    BY <2>7 DEF SyncTimesOut, At
  <2>8. CASE PollRaises(j)
    BY <2>8 DEF PollRaises, At
  <2>. QED BY <2>1, <2>2, <2>3, <2>4, <2>5, <2>6, <2>7, <2>8
<1>2. j \in PodJobs => run[j].pc \in {"create", "check", "poll"}
  BY <1>1 DEF JobInv, PodJobInv
<1>3. j \in EndpointJobs => /\ phase = "artifacts" /\ run[j].pc \in {"send", "wait"}
                            /\ f \/ ~LiveRequest(j) \/ run[j].sync
  BY <1>1 DEF JobInv, EndpointJobInv
<1>. QED BY <1>1, <1>2, <1>3, FailsEffect

\* The steps with the job's own pod
LEMMA PodMoves ==
  ASSUME JobsTypeOK, AccountTypeOK, NEW j \in Jobs, JobInv(j),
         \/ PodCreated(j) \/ PodCreateLost(j)
         \/ \E b, e \in BOOLEAN : StopPod(j, b, e)
  PROVE  JobEffect(j)
<1>0. run[j] \in Process /\ run \in [Jobs -> Process]
  BY DEF JobsTypeOK
<1>1. ASSUME PodCreated(j) PROVE JobEffect(j)
  <2>. DEFINE p == [run[j] EXCEPT !.pc = "check", !.known = TRUE]
  <2>1. run' = [run EXCEPT ![j] = p]
    BY <1>0, <1>1 DEF PodCreated
  <2>2. /\ p \in Process /\ p.pc = "check" /\ p.known
        /\ p.ok = run[j].ok /\ p.error = run[j].error /\ p.audited = run[j].audited
    BY <1>0 DEF Process, Phases
  <2>. HIDE DEF p
  <2>3. OnlyJob(j) /\ run'[j] = p
    BY <1>0, <1>1, <2>1, <2>2 DEF PodCreated, OnlyJob, JobsTypeOK
  <2>4. /\ j \in PodJobs /\ j \notin EndpointJobs /\ run[j].pc = "create"
        /\ pod' = [pod EXCEPT ![j] = "starting"]
        /\ UNCHANGED <<endpoint, template, request, faults, rec>>
    BY <1>1, ConstantFacts DEF PodCreated, At
  <2>5. PodJobInv(j)'
    BY <2>2, <2>3, <2>4 DEF PodJobInv, JobInv, AccountTypeOK
  <2>. QED BY <2>3, <2>4, <2>5 DEF JobEffect, AccountTypeOK
<1>2. ASSUME PodCreateLost(j) PROVE JobEffect(j)
  <2>1. /\ OnlyJob(j) /\ rec' = rec /\ faults' \in 0..MaxFaults
        /\ run'[j].pc = "stop" /\ ~run'[j].ok
        /\ run'[j].known = run[j].known /\ run'[j].audited = run[j].audited
    BY <1>2, FailsMemory DEF PodCreateLost, Phases
  <2>2. /\ j \in PodJobs /\ j \notin EndpointJobs /\ run[j].pc = "create"
        /\ pod' = [pod EXCEPT ![j] = "starting"]
        /\ UNCHANGED <<endpoint, template, request>>
    BY <1>2, ConstantFacts DEF PodCreateLost, At
  <2>3. PodJobInv(j)'
    BY <2>1, <2>2 DEF PodJobInv, JobInv, AccountTypeOK
  <2>. QED BY <2>1, <2>2, <2>3 DEF JobEffect, AccountTypeOK
<1>3. ASSUME NEW b \in BOOLEAN, NEW e \in BOOLEAN, StopPod(j, b, e) PROVE JobEffect(j)
  <2>. DEFINE p == [run[j] EXCEPT !.pc = "artifacts", !.ok = @ /\ e,
                                  !.error = @ \/ ~e, !.tidy = @ /\ e]
  <2>1. run' = [run EXCEPT ![j] = p]
    BY <1>0, <1>3 DEF StopPod
  <2>2. /\ p \in Process /\ p.pc = "artifacts" /\ p.known = run[j].known
        /\ p.ok => run[j].ok /\ e /\ (p.error => run[j].error)
        /\ p.audited = run[j].audited
    <3>1. CASE e
      BY <1>0, <3>1 DEF Process, Phases
    <3>2. CASE ~e
      BY <1>0, <3>2 DEF Process, Phases
    <3>. QED BY <3>1, <3>2
  <2>. HIDE DEF p
  <2>4. /\ j \in PodJobs /\ j \notin EndpointJobs
        /\ run[j].pc = "stop" /\ run[j].known /\ (e => b)
        /\ UNCHANGED <<endpoint, template, request, rec>>
    BY <1>3, ConstantFacts DEF StopPod, At, JobInv, EndpointJobInv, Jobs
  <2>3. OnlyJob(j) /\ run'[j] = p
    BY <1>0, <2>1, <2>2, <2>4 DEF OnlyJob, JobsTypeOK
  <2>5. pod' = [pod EXCEPT ![j] = IF b /\ PodRuns(j) THEN "exited" ELSE pod[j]]
    BY <1>3 DEF StopPod
  <2>6. faults' \in 0..MaxFaults
    BY <1>3, CountedType DEF StopPod
  <2>7. /\ pod' \in [PodJobs -> {"none", "starting", "running", "exited", "removed"}]
        /\ \A k \in PodJobs : k # j => pod'[k] = pod[k]
        /\ pod[j] # "none" => pod'[j] # "none"
        /\ e /\ pod[j] # "none" => pod'[j] \in {"exited", "removed"}
        /\ pod[j] \in {"exited", "removed"} => pod'[j] = pod[j]
    BY <2>4, <2>5 DEF PodRuns, AccountTypeOK
  <2>8. PodJobInv(j)'
    BY <2>2, <2>3, <2>4, <2>7 DEF PodJobInv, JobInv
  <2>. QED BY <2>3, <2>4, <2>6, <2>7, <2>8 DEF JobEffect, AccountTypeOK
<1>. QED BY <1>1, <1>2, <1>3

\* The steps with the job's own request
LEMMA RequestMoves ==
  ASSUME JobsTypeOK, AccountTypeOK, NEW j \in Jobs, JobInv(j),
         \/ Send(j) \/ SendLost(j) \/ \E b \in BOOLEAN : FindEndpoint(j, b) \/ Cancel(j, b)
  PROVE  JobEffect(j)
<1>0. run[j] \in Process /\ run \in [Jobs -> Process]
  BY DEF JobsTypeOK
<1>1. ASSUME Send(j) PROVE JobEffect(j)
  <2>1. /\ run' \in [Jobs -> Process] /\ \A k \in Jobs : k # j => run'[k] = run[k]
        /\ run'[j].pc = "wait"
    BY <1>1, GotoMemory DEF Send, Phases
  <2>2. /\ j \in EndpointJobs /\ j \notin PodJobs
        /\ request' = [request EXCEPT ![j] = "queued"]
        /\ UNCHANGED <<pod, endpoint, template, faults, rec>>
    BY <1>1 DEF Send, At, JobInv, PodJobInv, Jobs
  <2>3. OnlyJob(j)
    BY <2>1, <2>2 DEF OnlyJob, JobsTypeOK
  <2>4. EndpointJobInv(j)'
    BY <2>1, <2>2 DEF EndpointJobInv
  <2>. QED BY <2>2, <2>3, <2>4 DEF JobEffect, AccountTypeOK
<1>2. ASSUME SendLost(j) PROVE JobEffect(j)
  <2>1. /\ OnlyJob(j) /\ faults' \in 0..MaxFaults
        /\ run'[j].pc = "artifacts" /\ ~run'[j].tidy
    BY <1>2, FailsMemory DEF SendLost, Phases
  <2>2. /\ j \in EndpointJobs /\ j \notin PodJobs
        /\ request' = [request EXCEPT ![j] = "queued"]
        /\ UNCHANGED <<pod, endpoint, template>>
    BY <1>2 DEF SendLost, At, JobInv, PodJobInv, Jobs
  <2>3. EndpointJobInv(j)'
    BY <2>1, <2>2 DEF EndpointJobInv
  <2>. QED BY <2>1, <2>2, <2>3 DEF JobEffect, AccountTypeOK
<1>3. ASSUME NEW b \in BOOLEAN, FindEndpoint(j, b) PROVE JobEffect(j)
  <2>1. PICK s \in BOOLEAN : run' = [run EXCEPT ![j].pc = "send", ![j].sync = s]
    <3>. DEFINE found == b /\ endpoint[Known] # "deleted"
    <3>1. run' = [run EXCEPT ![j].pc = "send", ![j].sync = j \in SyncJobs /\ ~found]
      BY <1>3 DEF FindEndpoint
    <3>2. (j \in SyncJobs /\ ~found) \in BOOLEAN
      OBVIOUS
    <3>. HIDE DEF found
    <3>. QED BY <3>1, <3>2
  <2>. DEFINE p == [run[j] EXCEPT !.pc = "send", !.sync = s]
  <2>2. run' = [run EXCEPT ![j] = p]
    BY <1>0, <2>1
  <2>3. p \in Process /\ p.pc = "send"
    BY <1>0 DEF Process, Phases
  <2>. HIDE DEF p
  <2>4. /\ rec' \in [Jobs -> Record] /\ \A k \in Jobs : k # j => rec'[k] = rec[k]
    BY <1>3, RecordMoves DEF FindEndpoint
  <2>5. OnlyJob(j) /\ run'[j] = p
    BY <1>0, <2>2, <2>3, <2>4 DEF OnlyJob
  <2>6. /\ j \in EndpointJobs /\ j \notin PodJobs /\ Quiet /\ run[j].pc = "submit"
    BY <1>3, ConstantFacts DEF FindEndpoint, At
  <2>7. faults' \in 0..MaxFaults
    BY <1>3, CountedType DEF FindEndpoint
  <2>8. EndpointJobInv(j)'
    BY <2>3, <2>5, <2>6 DEF EndpointJobInv, JobInv, LiveRequest, Quiet
  <2>. QED BY <2>5, <2>6, <2>7, <2>8, QuietEffect
<1>4. ASSUME NEW b \in BOOLEAN, Cancel(j, b) PROVE JobEffect(j)
  <2>1. /\ OnlyJob(j) /\ faults' \in 0..MaxFaults
        /\ run'[j].pc = "artifacts" /\ (run'[j].tidy => b)
    BY <1>4, FailsMemory DEF Cancel, Phases
  <2>2. /\ j \in EndpointJobs /\ j \notin PodJobs
        /\ request' = [request EXCEPT ![j] = IF b /\ LiveRequest(j) THEN "cancelled" ELSE request[j]]
        /\ UNCHANGED <<pod, endpoint, template>>
    BY <1>4 DEF Cancel, At, JobInv, PodJobInv, Jobs
  <2>3. j \in Requesters
    BY <2>2 DEF Requesters
  <2>4. ~(run'[j].tidy /\ LiveRequest(j)')
    BY <2>1, <2>2, <2>3 DEF LiveRequest, AccountTypeOK
  <2>5. EndpointJobInv(j)'
    BY <2>1, <2>4 DEF EndpointJobInv, LiveRequest
  <2>. QED BY <2>1, <2>2, <2>3, <2>5 DEF JobEffect, AccountTypeOK
<1>. QED BY <1>1, <1>2, <1>3, <1>4

\* What a process forgets when it writes the outcome or ends
LEMMA ForgetMemory ==
  ASSUME JobsTypeOK, NEW j \in Jobs,
         run' = [run EXCEPT ![j].pc = "postguard", ![j].ok = TRUE, ![j].error = FALSE]
  PROVE  /\ run' \in [Jobs -> Process] /\ \A k \in Jobs : k # j => run'[k] = run[k]
         /\ run'[j].pc = "postguard" /\ run'[j].ok /\ ~run'[j].error
         /\ run'[j].known = run[j].known /\ run'[j].sync = run[j].sync
         /\ run'[j].tidy = run[j].tidy /\ run'[j].audited = run[j].audited
<1>. DEFINE p == [run[j] EXCEPT !.pc = "postguard", !.ok = TRUE, !.error = FALSE]
<1>1. run[j] \in Process /\ run \in [Jobs -> Process]
  BY DEF JobsTypeOK
<1>2. run' = [run EXCEPT ![j] = p]
  BY <1>1
<1>3. /\ p \in Process /\ p.pc = "postguard" /\ p.ok /\ ~p.error
      /\ p.known = run[j].known /\ p.sync = run[j].sync
      /\ p.tidy = run[j].tidy /\ p.audited = run[j].audited
  BY <1>1 DEF Process, Phases
<1>. HIDE DEF p
<1>. QED BY <1>1, <1>2, <1>3

\* The steps at which a job ends: its outcome is saved, its guard answers, it dies.
LEMMA JobEnds ==
  ASSUME JobsTypeOK, AccountTypeOK, NEW j \in Jobs, JobInv(j),
         \/ JobDies(j) \/ SubmitRaises(j) \/ \E b \in BOOLEAN : SaveOutcome(j, b)
         \/ \E b, e \in BOOLEAN : PostGuard(j, b, e)
  PROVE  JobEffect(j)
<1>0. /\ run[j] \in Process /\ run \in [Jobs -> Process]
      /\ rec[j] \in Record /\ rec \in [Jobs -> Record]
  BY DEF JobsTypeOK
<1>1. ASSUME JobDies(j) PROVE JobEffect(j)
  <2>. DEFINE p == [Fresh EXCEPT !.pc = "done", !.tidy = FALSE]
  <2>1. /\ p \in Process /\ p.pc = "done" /\ ~p.known /\ ~p.error /\ ~p.tidy /\ ~p.audited
    BY DEF Process, Phases, Fresh
  <2>2. run' = [run EXCEPT ![j] = p] /\ rec' = rec /\ Quiet /\ Counted(TRUE)
    BY <1>1 DEF JobDies
  <2>. HIDE DEF p
  <2>3. OnlyJob(j) /\ run'[j] = p /\ faults' \in 0..MaxFaults
    BY <1>0, <2>1, <2>2, CountedType DEF OnlyJob
  <2>4. ASSUME j \in PodJobs PROVE PodJobInv(j)'
    BY <2>1, <2>2, <2>3, <2>4 DEF PodJobInv, JobInv, Quiet
  <2>5. ASSUME j \in EndpointJobs PROVE EndpointJobInv(j)'
    BY <2>1, <2>2, <2>3 DEF EndpointJobInv
  <2>. QED BY <2>2, <2>3, <2>4, <2>5, QuietEffect
<1>2. ASSUME SubmitRaises(j) PROVE JobEffect(j)
  <2>1. /\ run[j].pc = "artifacts" /\ Quiet /\ faults' \in 0..MaxFaults
    BY <1>2, CountedType DEF SubmitRaises, At
  <2>2. /\ rec' \in [Jobs -> Record] /\ \A k \in Jobs : k # j => rec'[k] = rec[k]
        /\ rec'[j].status = "failed"
    BY <1>2, RecordFails DEF SubmitRaises
  <2>3. /\ run' \in [Jobs -> Process] /\ \A k \in Jobs : k # j => run'[k] = run[k]
        /\ run'[j].pc = "postguard" /\ ~run'[j].error
        /\ run'[j].known = run[j].known /\ run'[j].sync = run[j].sync
        /\ run'[j].tidy = run[j].tidy /\ run'[j].audited = run[j].audited
    BY <1>2, ForgetMemory DEF SubmitRaises
  <2>4. ASSUME j \in PodJobs PROVE PodJobInv(j)'
    BY <2>1, <2>2, <2>3, <2>4 DEF PodJobInv, JobInv, Quiet
  <2>5. ASSUME j \in EndpointJobs PROVE EndpointJobInv(j)'
    BY <2>1, <2>3, <2>5 DEF EndpointJobInv, JobInv, Quiet, LiveRequest
  <2>. QED BY <2>1, <2>2, <2>3, <2>4, <2>5, QuietEffect DEF OnlyJob
<1>3. ASSUME NEW b \in BOOLEAN, SaveOutcome(j, b) PROVE JobEffect(j)
  <2>1. /\ run[j].pc = "artifacts" /\ Quiet /\ faults' \in 0..MaxFaults
    BY <1>3 DEF SaveOutcome, At, AccountTypeOK
  <2>2. PICK s \in {"succeeded", "failed"} :
          /\ s = "succeeded" => run[j].ok
          /\ rec' = [rec EXCEPT ![j] = [status |-> s, error |-> run[j].error,
                                        pid |-> run[j].known]]
    BY <1>3 DEF SaveOutcome
  <2>. DEFINE r == [status |-> s, error |-> run[j].error, pid |-> run[j].known]
  <2>3. r \in Record /\ r.status = s /\ r.error = run[j].error /\ r.pid = run[j].known
    BY <1>0 DEF Record, Process
  <2>4. rec' = [rec EXCEPT ![j] = r]
    BY <2>2
  <2>. HIDE DEF r
  <2>5. /\ run' \in [Jobs -> Process] /\ \A k \in Jobs : k # j => run'[k] = run[k]
        /\ run'[j].pc = "postguard" /\ ~run'[j].error
        /\ run'[j].known = run[j].known /\ run'[j].sync = run[j].sync
        /\ run'[j].tidy = run[j].tidy /\ run'[j].audited = run[j].audited
    BY <1>3, ForgetMemory DEF SaveOutcome
  <2>6. OnlyJob(j) /\ rec'[j] = r
    BY <1>0, <2>3, <2>4, <2>5 DEF OnlyJob
  <2>7. ASSUME j \in PodJobs PROVE PodJobInv(j)'
    BY <2>1, <2>2, <2>3, <2>5, <2>6, <2>7 DEF PodJobInv, JobInv, Quiet
  <2>8. ASSUME j \in EndpointJobs PROVE EndpointJobInv(j)'
    BY <2>1, <2>5, <2>8 DEF EndpointJobInv, JobInv, Quiet, LiveRequest
  <2>. QED BY <2>1, <2>6, <2>7, <2>8, QuietEffect
<1>4. ASSUME NEW b \in BOOLEAN, NEW e \in BOOLEAN, PostGuard(j, b, e) PROVE JobEffect(j)
  <2>1. /\ run[j].pc = "postguard" /\ Quiet /\ faults' \in 0..MaxFaults
        /\ e /\ b => j \notin Listed
    BY <1>4, GuardCounts DEF PostGuard, At, Guard, Billable
  <2>. DEFINE blamed == ~b /\ ~rec[j].error
              r == [rec[j] EXCEPT !.status = IF blamed THEN "failed" ELSE @,
                                  !.error = @ \/ blamed]
              p == [Fresh EXCEPT !.pc = "done", !.sync = run[j].sync, !.tidy = run[j].tidy,
                      !.audited = e /\ ~blamed /\ rec[j].status = "succeeded"]
  <2>2. rec' = [rec EXCEPT ![j] = r] /\ run' = [run EXCEPT ![j] = p]
    BY <1>0, <1>4 DEF PostGuard
  <2>3. /\ r \in Record
        /\ r.status = "succeeded" => rec[j].status = "succeeded" /\ ~blamed
        /\ ~blamed => r.status = rec[j].status
        /\ r.pid = rec[j].pid /\ (~blamed => r.error = rec[j].error)
    <3>1. CASE blamed
      BY <1>0, <3>1 DEF Record
    <3>2. CASE ~blamed
      BY <1>0, <3>2 DEF Record
    <3>. QED BY <3>1, <3>2
  <2>4. /\ p \in Process /\ p.pc = "done" /\ ~p.known /\ ~p.error
        /\ p.tidy = run[j].tidy /\ p.sync = run[j].sync
        /\ p.audited => e /\ ~blamed /\ rec[j].status = "succeeded"
    <3>1. CASE e /\ ~blamed /\ rec[j].status = "succeeded"
      BY <1>0, <3>1 DEF Process, Phases, Fresh
    <3>2. CASE ~(e /\ ~blamed /\ rec[j].status = "succeeded")
      BY <1>0, <3>2 DEF Process, Phases, Fresh
    <3>. QED BY <3>1, <3>2
  <2>5. ~blamed => b \/ rec[j].error
    OBVIOUS
  <2>. HIDE DEF blamed, r, p
  <2>6. OnlyJob(j) /\ rec'[j] = r /\ run'[j] = p
    BY <1>0, <2>2, <2>3, <2>4 DEF OnlyJob
  <2>7. ASSUME j \in PodJobs PROVE PodJobInv(j)'
    <3>1. PodJobInv(j) /\ pod' = pod
      BY <2>1, <2>7 DEF JobInv, Quiet
    <3>2. p.audited => pod[j] = "removed"
      BY <2>1, <2>4, <2>5, <2>7, <3>1 DEF PodJobInv, Listed
    <3>. QED BY <2>1, <2>3, <2>4, <2>6, <3>1, <3>2 DEF PodJobInv
  <2>8. ASSUME j \in EndpointJobs PROVE EndpointJobInv(j)'
    BY <2>1, <2>4, <2>6, <2>8 DEF EndpointJobInv, JobInv, Quiet, LiveRequest
  <2>. QED BY <2>1, <2>6, <2>7, <2>8, QuietEffect
<1>. QED BY <1>1, <1>2, <1>3, <1>4

\* Every step of a job
LEMMA JobStepEffect ==
  ASSUME JobsTypeOK, AccountTypeOK, NEW j \in Jobs, JobInv(j), JobStep(j)
  PROVE  JobEffect(j)
<1>1. CASE \/ \E b \in BOOLEAN : PreGuardRefuses(j, b) \/ PreGuardPasses(j, b)
           \/ StartPodWorker(j) \/ PodAffordable(j) \/ PodServes(j) \/ NothingToStop(j)
           \/ NoEndpoint(j) \/ Answered(j) \/ TimesOut(j)
  BY <1>1, JobGoesOn
<1>2. CASE \/ PlanRefuses(j) \/ CreateRefused(j) \/ PodTooDear(j)
           \/ \E b \in BOOLEAN : PodUnfit(j, b)
           \/ SendRefused(j) \/ AnsweredBadly(j) \/ SyncTimesOut(j) \/ PollRaises(j)
  BY <1>2, JobFails
<1>3. CASE PodCreated(j) \/ PodCreateLost(j) \/ \E b, e \in BOOLEAN : StopPod(j, b, e)
  BY <1>3, PodMoves
<1>4. CASE \/ Send(j) \/ SendLost(j)
           \/ \E b \in BOOLEAN : FindEndpoint(j, b) \/ Cancel(j, b)
  BY <1>4, RequestMoves
<1>5. CASE \/ JobDies(j) \/ SubmitRaises(j) \/ \E b \in BOOLEAN : SaveOutcome(j, b)
           \/ \E b, e \in BOOLEAN : PostGuard(j, b, e)
  BY <1>5, JobEnds
<1>. QED BY <1>1, <1>2, <1>3, <1>4, <1>5 DEF JobStep

-------------------------------------------------------------------------------
(* What a command does *)

\* A command moves, with its own endpoint and request, and leaves the endpoint that
\* was there alone.
CommandEffect ==
  /\ pod' = pod
  /\ endpoint' \in [Commands \cup {Known} -> {"none", "cold", "warm", "off", "deleted"}]
  /\ template' \in [Commands \cup {Known} -> {"none", "kept", "deleted"}]
  /\ request' \in [Requesters -> {"none", "queued", "running", "completed", "failed", "cancelled"}]
  /\ faults' \in 0..MaxFaults
  /\ endpoint'[Known] = endpoint[Known]
  /\ \A q \in EndpointJobs : request'[q] = request[q]
  /\ CommandsTypeOK' /\ CommandInv' /\ FutureInv'

\* What a command changes of the account
OwnOnly ==
  /\ pod' = pod
  /\ endpoint' \in [Commands \cup {Known} -> {"none", "cold", "warm", "off", "deleted"}]
  /\ template' \in [Commands \cup {Known} -> {"none", "kept", "deleted"}]
  /\ request' \in [Requesters -> {"none", "queued", "running", "completed", "failed", "cancelled"}]
  /\ faults' \in 0..MaxFaults
  /\ \A e \in Commands \cup {Known} : e # op.n => endpoint'[e] = endpoint[e]
  /\ \A q \in Requesters : q # op.n => request'[q] = request[q]

LEMMA UnderWay ==
  ASSUME CommandsTypeOK, CommandInv, op.pc # "idle"
  PROVE  op.n \in Commands /\ op.n > 0 /\ op.n # Known /\ op.n \in Requesters
BY ConstantFacts DEF CommandsTypeOK, CommandInv, Command, Commands, Known

LEMMA OwnFrame ==
  ASSUME AccountTypeOK, CommandsTypeOK, CommandInv, FutureInv, op.pc # "idle", OwnOnly,
         op' \in Command, op'.n = op.n, CommandInv'
  PROVE  CommandEffect
<1>1. op.n \in Commands /\ op.n > 0 /\ op.n # Known
  BY UnderWay
<1>2. endpoint'[Known] = endpoint[Known]
  BY <1>1 DEF OwnOnly
<1>3. \A q \in EndpointJobs : request'[q] = request[q]
  BY <1>1, ConstantFacts DEF OwnOnly, Requesters, Jobs
<1>4. FutureInv'
  BY <1>1 DEF OwnOnly, FutureInv, Commands
<1>. QED BY <1>2, <1>3, <1>4 DEF CommandEffect, CommandsTypeOK, OwnOnly

\* The account stays as it is, or gets another template, endpoint or request of the command.
LEMMA NothingTouched ==
  ASSUME AccountTypeOK, Unchanged, faults' \in 0..MaxFaults
  PROVE  OwnOnly /\ endpoint' = endpoint /\ request' = request
BY DEF AccountTypeOK, Unchanged, OwnOnly

LEMMA TemplateTouched ==
  ASSUME AccountTypeOK, UNCHANGED <<pod, endpoint, request>>, faults' \in 0..MaxFaults,
         template' \in [Commands \cup {Known} -> {"none", "kept", "deleted"}]
  PROVE  OwnOnly /\ endpoint' = endpoint /\ request' = request
BY DEF AccountTypeOK, OwnOnly

LEMMA EndpointTouched ==
  ASSUME AccountTypeOK, CommandsTypeOK, CommandInv, op.pc # "idle",
         UNCHANGED <<pod, template, request>>, faults' \in 0..MaxFaults,
         NEW s \in {"none", "cold", "warm", "off", "deleted"},
         endpoint' = [endpoint EXCEPT ![op.n] = s]
  PROVE  OwnOnly /\ endpoint'[op.n] = s /\ request' = request
BY UnderWay DEF AccountTypeOK, OwnOnly

LEMMA RequestTouched ==
  ASSUME AccountTypeOK, CommandsTypeOK, CommandInv, op.pc # "idle",
         UNCHANGED <<pod, endpoint, template>>, faults' \in 0..MaxFaults,
         NEW s \in {"none", "queued", "running", "completed", "failed", "cancelled"},
         request' = [request EXCEPT ![op.n] = s]
  PROVE  OwnOnly /\ endpoint' = endpoint /\ request'[op.n] = s
BY UnderWay DEF AccountTypeOK, OwnOnly

\* A command that has reported
LEMMA OverEffect ==
  ASSUME AccountTypeOK, CommandsTypeOK, CommandInv, FutureInv, op.pc # "idle", OwnOnly,
         NEW c \in Command, NEW ok \in BOOLEAN, op' = Over(c, ok), c.n = op.n,
         c.tidy /\ ~c.accepted => endpoint'[op.n] \in {"none", "deleted"},
         c.tidy /\ c.accepted => endpoint'[op.n] = "cold",
         ok /\ c.kind = "probe" =>
           endpoint'[op.n] \in {"none", "deleted"} /\ request'[op.n] = "completed"
  PROVE  CommandEffect
<1>. DEFINE q == Over(c, ok)
<1>1. /\ q \in Command /\ q.n = op.n /\ q.kind = c.kind /\ q.pc = "idle" /\ ~q.existing
      /\ ~q.endpoint /\ ~q.ok /\ q.accepted = c.accepted /\ ~q.deleted
      /\ q.tidy = c.tidy /\ (q.verdict = "ok" => ok)
  <2>1. PICK v \in {"ok", "failed"} :
          /\ v = "ok" => ok
          /\ q = [NoCommand EXCEPT !.n = c.n, !.kind = c.kind, !.accepted = c.accepted,
                                   !.tidy = c.tidy, !.verdict = v]
    BY DEF Over
  <2>2. c.n \in 0..MaxCommands /\ c.kind \in Kinds /\ c.accepted \in BOOLEAN /\ c.tidy \in BOOLEAN
    BY DEF Command
  <2>3. "idle" \in CommandPhases
    BY DEF CommandPhases
  <2>. HIDE DEF q
  <2>. QED BY <2>1, <2>2, <2>3 DEF NoCommand, Command
<1>. HIDE DEF q
<1>2. op' = q
  BY DEF q
<1>3. op.n > 0
  BY UnderWay
<1>4. CommandInv'
  BY <1>1, <1>2, <1>3 DEF CommandInv, Holding
<1>. QED BY <1>1, <1>2, <1>4, OwnFrame

\* A command in which something raises takes away what it knows of, if it can: there
\* it has an endpoint only where it knows it, or a call was to blame.
LEMMA RaisesEffect ==
  ASSUME AccountTypeOK, CommandsTypeOK, CommandInv, FutureInv, OwnOnly,
         NEW f \in BOOLEAN, Raises(f),
         op.pc \in {"resolve", "template", "endpoint", "inspect", "canary", "send", "wait"},
         op.kind = "quarantine" => op.pc \in {"template", "endpoint"},
         endpoint' = endpoint \/ (f /\ op.pc = "endpoint")
  PROVE  CommandEffect
<1>1. op \in Command /\ op.n \in Commands /\ op.n > 0 /\ op.pc # "idle"
  BY UnderWay DEF CommandsTypeOK
<1>2. ~op.accepted /\ ~op.deleted /\ op.verdict = "none"
  BY <1>1 DEF CommandInv, Command
<1>. DEFINE known == op.endpoint /\ ~op.existing
            to == CASE op.kind = "promote"    -> IF known THEN "disable" ELSE "idle"
                    [] op.kind = "quarantine" -> "idle"
                    [] op.kind = "probe"      -> IF known THEN "disable" ELSE "untemplate"
            c == [op EXCEPT !.pc = to, !.preclean = FALSE, !.ok = FALSE, !.tidy = @ /\ ~f]
<1>3. op' = IF to = "idle" THEN Over(c, FALSE) ELSE c
  BY DEF Raises
<1>4. /\ op.kind \in {"promote", "quarantine", "probe"}
      /\ known => op.endpoint /\ ~op.existing
      /\ ~known => ~op.endpoint \/ op.existing
  BY <1>1 DEF Command, Kinds
<1>5. /\ to \in {"disable", "untemplate", "idle"}
      /\ to = "disable" => known /\ op.kind # "quarantine"
      /\ to = "untemplate" => ~known /\ op.kind = "probe"
      /\ to = "idle" => op.kind = "quarantine" \/ (op.kind = "promote" /\ ~known)
  BY <1>4
<1>. HIDE DEF to, known
<1>6. /\ c \in Command /\ c.n = op.n /\ c.kind = op.kind /\ c.pc = to
      /\ c.existing = op.existing /\ c.endpoint = op.endpoint /\ ~c.ok
      /\ c.accepted = op.accepted /\ c.deleted = op.deleted /\ c.verdict = op.verdict
      /\ (c.tidy => op.tidy /\ ~f)
  <2>1. to \in CommandPhases
    BY <1>5 DEF CommandPhases
  <2>2. CASE f
    BY <1>1, <2>1, <2>2 DEF Command
  <2>3. CASE ~f
    BY <1>1, <2>1, <2>3 DEF Command
  <2>. QED BY <2>2, <2>3
<1>. HIDE DEF c
<1>7. ~known => op.existing \/ op.pc \in {"resolve", "template", "endpoint"}
  BY <1>4 DEF CommandInv, Holding
<1>8. op.pc \in {"resolve", "template", "endpoint"} \/ op.existing =>
        endpoint[op.n] = "none"
  BY DEF CommandInv
<1>9. (to = "untemplate" \/ to = "idle") /\ c.tidy => endpoint'[op.n] = "none"
  BY <1>5, <1>6, <1>7, <1>8
<1>10. CASE to = "idle"
  <2>1. op' = Over(c, FALSE)
    BY <1>3, <1>10
  <2>. QED BY <1>1, <1>2, <1>6, <1>9, <1>10, <2>1, OverEffect
<1>11. CASE to # "idle"
  <2>1. op' = c
    BY <1>3, <1>11
  <2>2. to = "disable" => op.endpoint /\ ~op.existing
    BY <1>4, <1>5
  <2>3. op.existing => op.kind = "probe" /\ endpoint[op.n] = "none"
    BY DEF CommandInv
  <2>4. op.existing => endpoint'[op.n] = "none"
    BY <2>3 DEF CommandInv
  <2>5. CommandInv'
    BY <1>1, <1>2, <1>5, <1>6, <1>9, <1>11, <2>1, <2>2, <2>3, <2>4 DEF CommandInv, Holding
  <2>. QED BY <1>1, <1>6, <2>1, <2>5, OwnFrame
<1>. QED BY <1>10, <1>11

\* The steps of a command at which something raises
LEMMA CommandRaises ==
  ASSUME AccountTypeOK, CommandsTypeOK, CommandInv, FutureInv,
         \/ ProbeRefuses \/ CreateTemplateLost \/ CreateRefusedToCommand \/ ScaleUnsafe
         \/ CanaryFails \/ WorkerActive \/ ProbeSendLost \/ ProbeSendRefused
         \/ ProbePollRaises \/ \E s \in {"cold", "warm"} : CreateEndpointLost(s)
  PROVE  CommandEffect
<1>0. ASSUME NEW f \in BOOLEAN, Raises(f) PROVE faults' \in 0..MaxFaults
  BY <1>0, CountedType DEF Raises
<1>1. PICK f \in BOOLEAN :
        /\ Raises(f)
        /\ op.pc \in {"resolve", "template", "endpoint", "inspect", "canary", "send", "wait"}
        /\ op.kind = "quarantine" => op.pc \in {"template", "endpoint"}
        /\ OwnOnly /\ (endpoint' = endpoint \/ (f /\ op.pc = "endpoint"))
  <2>1. ASSUME NEW f \in BOOLEAN, Raises(f), Unchanged PROVE OwnOnly /\ endpoint' = endpoint
    BY <1>0, <2>1, NothingTouched
  <2>2. CASE ProbeRefuses
    BY <2>1, <2>2 DEF ProbeRefuses, Doing, CommandInv
  <2>3. CASE CreateRefusedToCommand
    BY <2>1, <2>3 DEF CreateRefusedToCommand, Doing, CommandInv
  <2>4. CASE ScaleUnsafe
    BY <2>1, <2>4 DEF ScaleUnsafe, Doing, CommandInv
  <2>5. CASE CanaryFails
    BY <2>1, <2>5 DEF CanaryFails, Doing, CommandInv
  <2>6. CASE WorkerActive
    BY <2>1, <2>6 DEF WorkerActive, Doing, CommandInv
  <2>7. CASE ProbeSendRefused
    BY <2>1, <2>7 DEF ProbeSendRefused, Doing, CommandInv
  <2>8. CASE ProbePollRaises
    BY <2>1, <2>8 DEF ProbePollRaises, Doing, CommandInv
  <2>9. CASE CreateTemplateLost
    <3>1. Raises(TRUE) /\ faults' \in 0..MaxFaults /\ op.pc = "template"
      BY <1>0, <2>9 DEF CreateTemplateLost, Doing
    <3>2. OwnOnly /\ endpoint' = endpoint
      BY <2>9, <3>1, TemplateTouched DEF CreateTemplateLost, AccountTypeOK
    <3>. QED BY <3>1, <3>2
  <2>10. CASE ProbeSendLost
    <3>1. Raises(TRUE) /\ faults' \in 0..MaxFaults /\ op.pc = "send"
      BY <1>0, <2>10 DEF ProbeSendLost, Doing
    <3>2. OwnOnly /\ endpoint' = endpoint
      BY <2>10, <3>1, RequestTouched DEF ProbeSendLost
    <3>. QED BY <3>1, <3>2 DEF CommandInv
  <2>11. CASE \E s \in {"cold", "warm"} : CreateEndpointLost(s)
    <3>1. PICK s \in {"cold", "warm"} : CreateEndpointLost(s)
      BY <2>11
    <3>2. Raises(TRUE) /\ faults' \in 0..MaxFaults /\ op.pc = "endpoint"
      BY <1>0, <3>1 DEF CreateEndpointLost, Doing
    <3>3. OwnOnly
      BY <3>1, <3>2, EndpointTouched DEF CreateEndpointLost
    <3>. QED BY <3>2, <3>3
  <2>. QED BY <2>2, <2>3, <2>4, <2>5, <2>6, <2>7, <2>8, <2>9, <2>10, <2>11
<1>. QED BY <1>1, RaisesEffect

\* A command that begins has created nothing.
LEMMA CommandBegins ==
  ASSUME AccountTypeOK, CommandsTypeOK, CommandInv, FutureInv,
         \/ Promote \/ \E b \in BOOLEAN : Quarantine(b)
         \/ \E b, e, x, t \in BOOLEAN : Probe(x, t, b, e)
  PROVE  CommandEffect
<1>0. /\ NoCommand \in Command /\ ~NoCommand.endpoint /\ ~NoCommand.ok /\ ~NoCommand.accepted
      /\ ~NoCommand.deleted /\ NoCommand.tidy /\ NoCommand.verdict = "none"
      /\ ~NoCommand.existing
  BY AccountAssumption DEF NoCommand, Command, CommandPhases, Kinds
<1>1. ASSUME NEW c \in Command, Begins(c), faults' \in 0..MaxFaults,
             c.pc \in {"resolve", "template", "endpoint"},
             c.pc = "resolve" \/ c.existing => c.kind = "probe",
             c.existing => c.pc = "resolve",
             ~c.endpoint, ~c.ok, ~c.accepted, ~c.deleted, c.verdict = "none"
      PROVE  CommandEffect
  <2>. DEFINE q == [c EXCEPT !.n = op.n + 1]
  <2>1. op' = q /\ Unchanged /\ op.n < MaxCommands
    BY <1>1 DEF Begins
  <2>2. op.n \in 0..MaxCommands
    BY DEF CommandsTypeOK, Command
  <2>3. /\ op.n + 1 \in Commands /\ op.n + 1 > op.n /\ op.n + 1 > 0
        /\ op.n + 1 \in 0..MaxCommands
    BY <2>1, <2>2, AccountAssumption DEF Commands
  <2>4. /\ q \in Command /\ q.n = op.n + 1 /\ q.kind = c.kind /\ q.pc = c.pc
        /\ q.existing = c.existing /\ q.endpoint = c.endpoint /\ q.ok = c.ok
        /\ q.accepted = c.accepted /\ q.deleted = c.deleted /\ q.verdict = c.verdict
    BY <2>3 DEF Command
  <2>. HIDE DEF q
  <2>5. endpoint' = endpoint /\ endpoint[op.n + 1] = "none"
    BY <2>1, <2>3 DEF Unchanged, FutureInv
  <2>6. CommandInv'
    BY <1>1, <2>1, <2>3, <2>4, <2>5 DEF CommandInv, Holding
  <2>7. FutureInv'
    BY <2>1, <2>2, <2>4, <2>5 DEF FutureInv, Commands
  <2>. QED BY <1>1, <2>1, <2>4, <2>6, <2>7
           DEF CommandEffect, CommandsTypeOK, Unchanged, AccountTypeOK
<1>2. CASE Promote
  <2>. DEFINE c == [NoCommand EXCEPT !.kind = "promote", !.pc = "template"]
  <2>1. /\ c \in Command /\ c.pc = "template" /\ ~c.existing /\ c.kind = "promote"
        /\ ~c.endpoint /\ ~c.ok /\ ~c.accepted /\ ~c.deleted /\ c.verdict = "none"
    BY <1>0 DEF Command, CommandPhases, Kinds
  <2>2. Begins(c) /\ faults' \in 0..MaxFaults
    BY <1>2 DEF Promote, AccountTypeOK
  <2>. HIDE DEF c
  <2>. QED BY <1>1, <2>1, <2>2
<1>3. CASE \E b \in BOOLEAN : Quarantine(b)
  <2>1. PICK b \in BOOLEAN : Quarantine(b)
    BY <1>3
  <2>2. PICK pc \in {"template", "endpoint"} :
          Begins([NoCommand EXCEPT !.kind = "quarantine", !.named = b, !.pc = pc])
    BY <2>1 DEF Quarantine
  <2>. DEFINE c == [NoCommand EXCEPT !.kind = "quarantine", !.named = b, !.pc = pc]
  <2>3. /\ c \in Command /\ c.pc = pc /\ ~c.existing /\ c.kind = "quarantine"
        /\ ~c.endpoint /\ ~c.ok /\ ~c.accepted /\ ~c.deleted /\ c.verdict = "none"
    BY <1>0 DEF Command, CommandPhases, Kinds
  <2>4. Begins(c) /\ faults' \in 0..MaxFaults
    BY <2>1, <2>2 DEF Quarantine, AccountTypeOK
  <2>. HIDE DEF c
  <2>. QED BY <1>1, <2>3, <2>4
<1>4. CASE \E b, e, x, t \in BOOLEAN : Probe(x, t, b, e)
  <2>1. PICK b, e, x, t \in BOOLEAN : Probe(x, t, b, e)
    BY <1>4
  <2>. DEFINE c == [NoCommand EXCEPT !.kind = "probe", !.pc = "resolve", !.preclean = b,
                                     !.existing = x, !.named = t]
  <2>2. /\ c \in Command /\ c.pc = "resolve" /\ c.kind = "probe"
        /\ ~c.endpoint /\ ~c.ok /\ ~c.accepted /\ ~c.deleted /\ c.verdict = "none"
    BY <1>0 DEF Command, CommandPhases, Kinds
  <2>3. Begins(c) /\ faults' \in 0..MaxFaults
    BY <2>1, GuardCounts DEF Probe
  <2>. HIDE DEF c
  <2>. QED BY <1>1, <2>2, <2>3
<1>. QED BY <1>2, <1>3, <1>4

\* A command goes on: of what it holds, the phase is another one, and it may be no
\* longer tidy.
Moved(to, b) ==
  /\ op' \in Command /\ op'.pc = to /\ (op'.tidy => op.tidy /\ b)
  /\ op'.n = op.n /\ op'.kind = op.kind /\ op'.existing = op.existing
  /\ op'.endpoint = op.endpoint /\ op'.ok = op.ok /\ op'.accepted = op.accepted
  /\ op'.deleted = op.deleted /\ op'.verdict = op.verdict

LEMMA GoOnMemory ==
  ASSUME CommandsTypeOK, NEW to \in CommandPhases, GoOn(to)
  PROVE  Moved(to, TRUE)
<1>. DEFINE c == [op EXCEPT !.pc = to]
<1>1. op \in Command /\ op' = c
  BY DEF CommandsTypeOK, GoOn
<1>2. /\ c \in Command /\ c.pc = to /\ c.tidy = op.tidy
      /\ c.n = op.n /\ c.kind = op.kind /\ c.existing = op.existing
      /\ c.endpoint = op.endpoint /\ c.ok = op.ok /\ c.accepted = op.accepted
      /\ c.deleted = op.deleted /\ c.verdict = op.verdict
  BY <1>1 DEF Command
<1>. HIDE DEF c
<1>. QED BY <1>1, <1>2 DEF Moved

LEMMA TidyMemory ==
  ASSUME CommandsTypeOK, NEW to \in CommandPhases, NEW b \in BOOLEAN,
         op' = [op EXCEPT !.pc = to, !.tidy = @ /\ b]
  PROVE  Moved(to, b)
<1>. DEFINE c == [op EXCEPT !.pc = to, !.tidy = @ /\ b]
<1>1. op \in Command /\ op' = c
  BY DEF CommandsTypeOK
<1>2. /\ c \in Command /\ c.pc = to /\ (c.tidy => op.tidy /\ b)
      /\ c.n = op.n /\ c.kind = op.kind /\ c.existing = op.existing
      /\ c.endpoint = op.endpoint /\ c.ok = op.ok /\ c.accepted = op.accepted
      /\ c.deleted = op.deleted /\ c.verdict = op.verdict
  <2>1. CASE b
    BY <1>1, <2>1 DEF Command
  <2>2. CASE ~b
    BY <1>1, <2>2 DEF Command
  <2>. QED BY <2>1, <2>2
<1>. HIDE DEF c
<1>. QED BY <1>1, <1>2 DEF Moved

\* The steps of a command that leave the account alone and keep it under way
LEMMA CommandGoesOn ==
  ASSUME AccountTypeOK, CommandsTypeOK, CommandInv, FutureInv,
         \/ ScaleSafe \/ ProbeRunFails \/ NoTemplateToDelete
         \/ \E b \in BOOLEAN : WorkerQuiet(b)
  PROVE  CommandEffect
<1>1. PICK to \in CommandPhases, b \in BOOLEAN :
        /\ Moved(to, b) /\ Unchanged /\ faults' \in 0..MaxFaults /\ op.pc # "idle"
        /\ \/ /\ op.pc = "inspect" /\ to = "canary"
              /\ op.kind = "promote" /\ endpoint[op.n] # "warm"
           \/ op.pc = "wait" /\ to = "cancel"
           \/ op.pc = "untemplate" /\ to = "postguard"
           \/ op.pc = "inspect" /\ to = "send" /\ op.kind = "probe"
  <2>0. {"canary", "cancel", "postguard", "send"} \subseteq CommandPhases
    BY DEF CommandPhases
  <2>1. CASE ScaleSafe
    BY <2>0, <2>1, GoOnMemory DEF ScaleSafe, Doing, AccountTypeOK
  <2>2. CASE ProbeRunFails
    BY <2>0, <2>2, GoOnMemory DEF ProbeRunFails, Doing, AccountTypeOK
  <2>3. CASE NoTemplateToDelete
    BY <2>0, <2>3, GoOnMemory DEF NoTemplateToDelete, Doing, AccountTypeOK
  <2>4. CASE \E b \in BOOLEAN : WorkerQuiet(b)
    <3>1. PICK b \in BOOLEAN : WorkerQuiet(b)
      BY <2>4
    <3>2. Moved("send", b)
      BY <2>0, <3>1, TidyMemory DEF WorkerQuiet
    <3>. QED BY <2>0, <3>1, <3>2, CountedType DEF WorkerQuiet, Doing
  <2>. QED BY <2>1, <2>2, <2>3, <2>4
<1>2. OwnOnly /\ endpoint' = endpoint /\ request' = request
  BY <1>1, NothingTouched
<1>3. op \in Command /\ op.n > 0
  BY <1>1, UnderWay DEF CommandsTypeOK
<1>4. CommandInv'
  BY <1>1, <1>2, <1>3 DEF CommandInv, Holding, Moved, Command
<1>. QED BY <1>1, <1>2, <1>4, OwnFrame DEF Moved

\* What a command creates
LEMMA CommandCreates ==
  ASSUME AccountTypeOK, CommandsTypeOK, CommandInv, FutureInv,
         ProbeResolves \/ CreateTemplate \/ \E s \in {"cold", "warm"} : CreateEndpoint(s)
  PROVE  CommandEffect
<1>1. CASE ProbeResolves
  <2>1. PICK to \in {"inspect", "endpoint", "template"} :
          /\ to = "inspect" <=> op.existing
          /\ op' = [op EXCEPT !.pc = to, !.endpoint = op.existing, !.template = op.named,
                              !.preclean = FALSE]
    BY <1>1 DEF ProbeResolves
  <2>2. /\ op \in Command /\ op.pc = "resolve" /\ OwnOnly /\ op.n > 0
        /\ endpoint' = endpoint /\ request' = request
    BY <1>1, UnderWay, NothingTouched DEF ProbeResolves, Doing, AccountTypeOK, CommandsTypeOK
  <2>. DEFINE c == [op EXCEPT !.pc = to, !.endpoint = op.existing, !.template = op.named,
                              !.preclean = FALSE]
  <2>3. /\ c \in Command /\ c.pc = to /\ c.tidy = op.tidy
        /\ c.n = op.n /\ c.kind = op.kind /\ c.existing = op.existing
        /\ c.endpoint = op.existing /\ c.ok = op.ok /\ c.accepted = op.accepted
        /\ c.deleted = op.deleted /\ c.verdict = op.verdict
    BY <2>2 DEF Command, CommandPhases
  <2>4. op' = c
    BY <2>1
  <2>. HIDE DEF c
  <2>5. CommandInv'
    BY <2>1, <2>2, <2>3, <2>4 DEF CommandInv, Holding
  <2>. QED BY <2>2, <2>3, <2>4, <2>5, OwnFrame
<1>2. CASE CreateTemplate
  <2>1. /\ op \in Command /\ op.pc = "template" /\ op.n > 0
        /\ OwnOnly /\ endpoint' = endpoint /\ request' = request
    BY <1>2, UnderWay, TemplateTouched DEF CreateTemplate, Doing, AccountTypeOK, CommandsTypeOK
  <2>. DEFINE c == [op EXCEPT !.pc = "endpoint", !.template = TRUE]
  <2>2. /\ c \in Command /\ c.pc = "endpoint" /\ c.tidy = op.tidy
        /\ c.n = op.n /\ c.kind = op.kind /\ c.existing = op.existing
        /\ c.endpoint = op.endpoint /\ c.ok = op.ok /\ c.accepted = op.accepted
        /\ c.deleted = op.deleted /\ c.verdict = op.verdict
    BY <2>1 DEF Command, CommandPhases
  <2>3. op' = c
    BY <1>2 DEF CreateTemplate
  <2>. HIDE DEF c
  <2>4. CommandInv'
    BY <2>1, <2>2, <2>3 DEF CommandInv, Holding
  <2>. QED BY <2>1, <2>2, <2>3, <2>4, OwnFrame
<1>3. ASSUME NEW s \in {"cold", "warm"}, CreateEndpoint(s) PROVE CommandEffect
  <2>1. op \in Command /\ op.pc = "endpoint" /\ op.n > 0 /\ faults' \in 0..MaxFaults
    BY <1>3, UnderWay DEF CreateEndpoint, Doing, AccountTypeOK, CommandsTypeOK
  <2>2. OwnOnly /\ endpoint'[op.n] = s /\ request' = request
    BY <1>3, <2>1, EndpointTouched DEF CreateEndpoint
  <2>. DEFINE c == [op EXCEPT !.pc = "inspect", !.endpoint = TRUE]
  <2>3. /\ c \in Command /\ c.pc = "inspect" /\ c.tidy = op.tidy
        /\ c.n = op.n /\ c.kind = op.kind /\ c.existing = op.existing
        /\ c.endpoint /\ c.ok = op.ok /\ c.accepted = op.accepted
        /\ c.deleted = op.deleted /\ c.verdict = op.verdict
    BY <2>1 DEF Command, CommandPhases
  <2>4. op' = c
    BY <1>3 DEF CreateEndpoint
  <2>. HIDE DEF c
  <2>5. CommandInv'
    BY <2>1, <2>2, <2>3, <2>4 DEF CommandInv, Holding
  <2>. QED BY <2>1, <2>2, <2>3, <2>4, <2>5, OwnFrame
<1>. QED BY <1>1, <1>2, <1>3

\* What a probe sends, sees completed and cancels
LEMMA CommandProbes ==
  ASSUME AccountTypeOK, CommandsTypeOK, CommandInv, FutureInv,
         ProbeSends \/ \E b \in BOOLEAN : ProbeCompletes(b) \/ ProbeCancels(b)
  PROVE  CommandEffect
<1>0. op \in Command /\ {"wait", "untemplate", "disable"} \subseteq CommandPhases
  BY DEF CommandsTypeOK, CommandPhases
<1>1. CASE ProbeSends
  <2>1. op.pc = "send" /\ Moved("wait", TRUE) /\ op.n > 0
    BY <1>0, <1>1, GoOnMemory, UnderWay DEF ProbeSends, Doing
  <2>2. OwnOnly /\ endpoint' = endpoint
    BY <1>1, <2>1, RequestTouched DEF ProbeSends, AccountTypeOK
  <2>3. CommandInv'
    BY <2>1, <2>2 DEF CommandInv, Holding, Moved
  <2>. QED BY <2>1, <2>2, <2>3, OwnFrame DEF Moved
<1>2. ASSUME NEW b \in BOOLEAN, ProbeCompletes(b) PROVE CommandEffect
  <2>1. PICK to \in CommandPhases : Cleans(to) /\ op' = [op EXCEPT !.pc = to, !.ok = b]
    BY <1>2 DEF ProbeCompletes
  <2>2. /\ op.pc = "wait" /\ op.n > 0 /\ request[op.n] = "completed"
        /\ OwnOnly /\ endpoint' = endpoint /\ request' = request
    BY <1>2, UnderWay, NothingTouched DEF ProbeCompletes, Doing, AccountTypeOK
  <2>. DEFINE c == [op EXCEPT !.pc = to, !.ok = b]
  <2>3. /\ c \in Command /\ c.pc = to /\ c.tidy = op.tidy
        /\ c.n = op.n /\ c.kind = op.kind /\ c.existing = op.existing
        /\ c.endpoint = op.endpoint /\ c.accepted = op.accepted
        /\ c.deleted = op.deleted /\ c.verdict = op.verdict
    BY <1>0 DEF Command
  <2>4. op' = c
    BY <2>1
  <2>. HIDE DEF c
  <2>5. /\ to \in {"untemplate", "disable"}
        /\ to = "untemplate" <=> op.existing
    BY <2>1 DEF Cleans
  <2>6. CommandInv'
    BY <2>2, <2>3, <2>4, <2>5 DEF CommandInv, Holding
  <2>. QED BY <2>2, <2>3, <2>4, <2>6, OwnFrame
<1>3. ASSUME NEW b \in BOOLEAN, ProbeCancels(b) PROVE CommandEffect
  <2>1. PICK to \in CommandPhases : Cleans(to) /\ op' = [op EXCEPT !.pc = to, !.tidy = @ /\ b]
    BY <1>3 DEF ProbeCancels
  <2>2. op.pc = "cancel" /\ op.n > 0 /\ faults' \in 0..MaxFaults /\ op.n \in Requesters
    BY <1>3, UnderWay, CountedType DEF ProbeCancels, Doing
  <2>3. PICK s \in {"none", "queued", "running", "completed", "failed", "cancelled"} :
          request' = [request EXCEPT ![op.n] = s]
    <3>1. request[op.n] \in {"none", "queued", "running", "completed", "failed", "cancelled"}
      BY <2>2 DEF AccountTypeOK
    <3>. QED BY <1>3, <3>1 DEF ProbeCancels
  <2>4. OwnOnly /\ endpoint' = endpoint
    BY <1>3, <2>2, <2>3, RequestTouched DEF ProbeCancels
  <2>5. Moved(to, b)
    BY <2>1, TidyMemory
  <2>6. /\ to \in {"untemplate", "disable"}
        /\ to = "untemplate" <=> op.existing
    BY <2>1 DEF Cleans
  <2>7. CommandInv'
    BY <2>2, <2>4, <2>5, <2>6 DEF CommandInv, Holding, Moved
  <2>. QED BY <2>2, <2>4, <2>5, <2>7, OwnFrame DEF Moved
<1>. QED BY <1>1, <1>2, <1>3

\* What a command takes away
LEMMA CommandTakesAway ==
  ASSUME AccountTypeOK, CommandsTypeOK, CommandInv, FutureInv,
         \E b, e \in BOOLEAN : Disable(b, e) \/ Delete(b, e) \/ DeleteTemplate(b, e)
  PROVE  CommandEffect
<1>0. op \in Command /\ {"delete", "idle", "postguard", "untemplate"} \subseteq CommandPhases
  BY DEF CommandsTypeOK, CommandPhases
<1>1. ASSUME NEW b \in BOOLEAN, NEW e \in BOOLEAN, Disable(b, e) PROVE CommandEffect
  <2>1. /\ op.pc = "disable" /\ faults' \in 0..MaxFaults /\ op.n > 0 /\ Target = op.n
        /\ op.n \in Commands
    BY <1>1, CountedType, UnderWay DEF Disable, Doing, Target, CommandInv
  <2>2. PICK s \in {"none", "cold", "warm", "off", "deleted"} :
          /\ endpoint' = [endpoint EXCEPT ![op.n] = s]
    <3>1. endpoint[op.n] \in {"none", "cold", "warm", "off", "deleted"}
      BY <2>1 DEF AccountTypeOK
    <3>. QED BY <1>1, <2>1, <3>1 DEF Disable
  <2>3. OwnOnly /\ request' = request
    BY <1>1, <2>1, <2>2, EndpointTouched DEF Disable
  <2>4. CASE ~e /\ op.kind = "quarantine"
    <3>. DEFINE c == [op EXCEPT !.tidy = FALSE]
    <3>1. c \in Command /\ c.n = op.n /\ ~c.tidy
      BY <1>0 DEF Command
    <3>2. op' = Over(c, FALSE)
      BY <1>1, <2>4 DEF Disable
    <3>. HIDE DEF c
    <3>. QED BY <2>1, <2>3, <3>1, <3>2, OverEffect
  <2>5. CASE e \/ op.kind # "quarantine"
    <3>1. Moved("delete", e)
      BY <1>0, <1>1, <2>5, TidyMemory DEF Disable
    <3>2. CommandInv'
      BY <2>1, <2>3, <3>1 DEF CommandInv, Holding, Moved
    <3>. QED BY <2>1, <2>3, <3>1, <3>2, OwnFrame DEF Moved
  <2>. QED BY <2>4, <2>5
<1>2. ASSUME NEW b \in BOOLEAN, NEW e \in BOOLEAN, Delete(b, e) PROVE CommandEffect
  <2>1. /\ op.pc = "delete" /\ faults' \in 0..MaxFaults /\ op.n > 0 /\ Target = op.n
        /\ op.n \in Commands /\ op.kind \in {"promote", "quarantine", "probe"}
    BY <1>0, <1>2, CountedType, UnderWay DEF Delete, Doing, Target, CommandInv, Command, Kinds
  <2>2. PICK s \in {"none", "cold", "warm", "off", "deleted"} :
          /\ endpoint' = [endpoint EXCEPT ![op.n] = s]
          /\ e => s = "deleted"
    <3>1. endpoint[op.n] \in {"none", "cold", "warm", "off", "deleted"}
      BY <2>1 DEF AccountTypeOK
    <3>. QED BY <1>2, <2>1, <3>1 DEF Delete
  <2>3. OwnOnly /\ request' = request /\ endpoint'[op.n] = s
    BY <1>2, <2>1, <2>2, EndpointTouched DEF Delete
  <2>. DEFINE to == CASE op.kind = "promote"    -> "idle"
                      [] op.kind = "quarantine" -> IF e THEN "postguard" ELSE "idle"
                      [] op.kind = "probe"      -> "untemplate"
              c == [op EXCEPT !.pc = to, !.deleted = e, !.tidy = @ /\ e]
  <2>4. op' = IF to = "idle" THEN Over(c, FALSE) ELSE c
    BY <1>2 DEF Delete
  <2>5. /\ to \in {"idle", "postguard", "untemplate"}
        /\ to = "postguard" => op.kind = "quarantine" /\ e
        /\ to = "untemplate" => op.kind = "probe"
    BY <2>1
  <2>. HIDE DEF to
  <2>6. /\ c \in Command /\ c.n = op.n /\ c.kind = op.kind /\ c.pc = to
        /\ c.existing = op.existing /\ c.endpoint = op.endpoint /\ c.ok = op.ok
        /\ c.accepted = op.accepted /\ (c.deleted => e) /\ c.verdict = op.verdict
        /\ (c.tidy => op.tidy /\ e)
    <3>1. to \in CommandPhases
      BY <1>0, <2>5
    <3>2. CASE e
      BY <1>0, <3>1, <3>2 DEF Command
    <3>3. CASE ~e
      BY <1>0, <3>1, <3>3 DEF Command
    <3>. QED BY <3>2, <3>3
  <2>. HIDE DEF c
  <2>7. ~op.accepted
    BY <2>1 DEF CommandInv
  <2>8. CASE to = "idle"
    <3>1. op' = Over(c, FALSE)
      BY <2>4, <2>8
    <3>. QED BY <2>1, <2>2, <2>3, <2>6, <2>7, <3>1, OverEffect
  <2>9. CASE to # "idle"
    <3>1. op' = c
      BY <2>4, <2>9
    <3>2. CommandInv'
      BY <2>1, <2>2, <2>3, <2>5, <2>6, <2>7, <2>9, <3>1 DEF CommandInv, Holding
    <3>. QED BY <2>1, <2>3, <2>6, <3>1, <3>2, OwnFrame
  <2>. QED BY <2>8, <2>9
<1>3. ASSUME NEW b \in BOOLEAN, NEW e \in BOOLEAN, DeleteTemplate(b, e) PROVE CommandEffect
  <2>1. op.pc = "untemplate" /\ faults' \in 0..MaxFaults /\ op.n > 0 /\ op.n \in Commands
    BY <1>3, CountedType, UnderWay DEF DeleteTemplate, Doing
  <2>2. template' \in [Commands \cup {Known} -> {"none", "kept", "deleted"}]
    <3>. DEFINE t == IF op.named THEN Known ELSE op.n
    <3>1. t \in Commands \cup {Known}
      BY <2>1
    <3>2. template' = [template EXCEPT ![t] = IF b THEN "deleted" ELSE template[t]]
      BY <1>3 DEF DeleteTemplate
    <3>. HIDE DEF t
    <3>. QED BY <3>1, <3>2 DEF AccountTypeOK
  <2>3. OwnOnly /\ endpoint' = endpoint /\ request' = request
    BY <1>3, <2>1, <2>2, TemplateTouched DEF DeleteTemplate
  <2>4. Moved("postguard", e)
    BY <1>0, <1>3, TidyMemory DEF DeleteTemplate
  <2>5. CommandInv'
    BY <2>1, <2>3, <2>4 DEF CommandInv, Holding, Moved
  <2>. QED BY <2>1, <2>3, <2>4, <2>5, OwnFrame DEF Moved
<1>. QED BY <1>1, <1>2, <1>3

\* What a command judges and reports
LEMMA CommandReports ==
  ASSUME AccountTypeOK, CommandsTypeOK, CommandInv, FutureInv,
         \/ CanaryPasses \/ CommandDies
         \/ \E b, e \in BOOLEAN : Judge(b, e) \/ QuarantineReports(b, e) \/ ProbeReports(b, e)
  PROVE  CommandEffect
<1>0. op \in Command
  BY DEF CommandsTypeOK
<1>1. CASE CanaryPasses
  <2>1. /\ op.pc = "canary" /\ op.n > 0
        /\ OwnOnly /\ endpoint' = endpoint /\ request' = request
    BY <1>1, UnderWay, NothingTouched DEF CanaryPasses, Doing, AccountTypeOK
  <2>. DEFINE c == [op EXCEPT !.accepted = TRUE]
  <2>2. c \in Command /\ c.n = op.n /\ c.accepted /\ c.kind = op.kind
    BY <1>0 DEF Command
  <2>3. op' = Over(c, TRUE)
    BY <1>1 DEF CanaryPasses
  <2>. HIDE DEF c
  <2>4. endpoint[op.n] = "cold" /\ op.kind = "promote"
    BY <2>1 DEF CommandInv
  <2>. QED BY <2>1, <2>2, <2>3, <2>4, OverEffect
<1>2. CASE CommandDies
  <2>1. /\ op.pc # "idle" /\ op.n \in Commands /\ op.n > 0 /\ faults' \in 0..MaxFaults
        /\ op.kind \in Kinds /\ op.n \in 0..MaxCommands
    BY <1>0, <1>2, UnderWay, CountedType DEF CommandDies, Doing, Command
  <2>2. OwnOnly
    BY <1>2, <2>1, NothingTouched DEF CommandDies
  <2>. DEFINE c == [NoCommand EXCEPT !.n = op.n, !.kind = op.kind, !.tidy = FALSE]
  <2>3. /\ c \in Command /\ c.n = op.n /\ c.pc = "idle" /\ ~c.tidy /\ ~c.existing
        /\ ~c.endpoint /\ ~c.ok /\ ~c.accepted /\ ~c.deleted /\ c.verdict = "none"
    BY <2>1 DEF NoCommand, Command, CommandPhases
  <2>4. op' = c
    BY <1>2 DEF CommandDies
  <2>. HIDE DEF c
  <2>5. CommandInv'
    BY <2>1, <2>3, <2>4 DEF CommandInv, Holding
  <2>. QED BY <2>1, <2>2, <2>3, <2>4, <2>5, OwnFrame
<1>3. ASSUME NEW b \in BOOLEAN, NEW e \in BOOLEAN, Judge(b, e) PROVE CommandEffect
  <2>1. /\ op.pc = "inspect" /\ op.kind = "quarantine" /\ faults' \in 0..MaxFaults
        /\ op.n > 0 /\ op.n \in Commands /\ (b /\ e => Billable = {})
    BY <1>3, UnderWay, GuardCounts DEF Judge, Doing, Guard
  <2>2. OwnOnly /\ endpoint' = endpoint /\ request' = request
    BY <1>3, <2>1, NothingTouched DEF Judge
  <2>3. endpoint[op.n] \in {"cold", "warm"} /\ ~op.existing
    BY <2>1 DEF CommandInv
  <2>4. b /\ e => endpoint[op.n] = "cold"
    BY <2>1, <2>3 DEF Billable, Warm, AccountTypeOK
  <2>5. PICK to \in {"postguard", "disable"} :
          /\ to = "postguard" <=> b
          /\ op' = [op EXCEPT !.accepted = b, !.pc = to, !.tidy = @ /\ e]
    BY <1>3 DEF Judge
  <2>. DEFINE c == [op EXCEPT !.accepted = b, !.pc = to, !.tidy = @ /\ e]
  <2>6. /\ c \in Command /\ c.pc = to /\ (c.tidy => op.tidy /\ e)
        /\ c.n = op.n /\ c.kind = op.kind /\ c.existing = op.existing
        /\ c.endpoint = op.endpoint /\ c.ok = op.ok /\ (c.accepted <=> b)
        /\ c.deleted = op.deleted /\ c.verdict = op.verdict
    <3>0. to \in CommandPhases
      BY DEF CommandPhases
    <3>1. CASE e /\ b
      BY <1>0, <3>0, <3>1 DEF Command
    <3>2. CASE e /\ ~b
      BY <1>0, <3>0, <3>2 DEF Command
    <3>3. CASE ~e /\ b
      BY <1>0, <3>0, <3>3 DEF Command
    <3>4. CASE ~e /\ ~b
      BY <1>0, <3>0, <3>4 DEF Command
    <3>. QED BY <3>1, <3>2, <3>3, <3>4
  <2>7. op' = c
    BY <2>5
  <2>. HIDE DEF c
  <2>8. CommandInv'
    BY <2>1, <2>2, <2>3, <2>4, <2>5, <2>6, <2>7 DEF CommandInv, Holding
  <2>. QED BY <2>1, <2>2, <2>6, <2>7, <2>8, OwnFrame
<1>4. ASSUME NEW b \in BOOLEAN, NEW e \in BOOLEAN, QuarantineReports(b, e)
      PROVE  CommandEffect
  <2>1. /\ op.pc = "postguard" /\ op.kind = "quarantine" /\ faults' \in 0..MaxFaults /\ op.n > 0
    BY <1>4, UnderWay, GuardCounts DEF QuarantineReports, Doing
  <2>2. OwnOnly /\ endpoint' = endpoint /\ request' = request
    BY <1>4, <2>1, NothingTouched DEF QuarantineReports
  <2>3. PICK ok \in BOOLEAN : op' = Over(op, ok)
    <3>1. (op.accepted /\ b) \in BOOLEAN
      OBVIOUS
    <3>. QED BY <1>4, <3>1 DEF QuarantineReports
  <2>4. /\ op.tidy /\ ~op.accepted => endpoint[op.n] \in {"none", "deleted"}
        /\ op.tidy /\ op.accepted => endpoint[op.n] = "cold"
    BY <2>1 DEF CommandInv, Holding
  <2>. QED BY <1>0, <2>1, <2>2, <2>3, <2>4, OverEffect
<1>5. ASSUME NEW b \in BOOLEAN, NEW e \in BOOLEAN, ProbeReports(b, e)
      PROVE  CommandEffect
  <2>1. /\ op.pc = "postguard" /\ op.kind = "probe" /\ faults' \in 0..MaxFaults /\ op.n > 0
    BY <1>5, UnderWay, GuardCounts DEF ProbeReports, Doing
  <2>2. OwnOnly /\ endpoint' = endpoint /\ request' = request
    BY <1>5, <2>1, NothingTouched DEF ProbeReports
  <2>3. PICK ok \in BOOLEAN : /\ op' = Over(op, ok)
                              /\ ok => op.ok /\ (op.existing \/ ~op.endpoint \/ op.deleted)
    <3>1. PICK ok \in BOOLEAN :
            /\ ok = (op.ok /\ ((op.existing \/ ~op.endpoint \/ op.deleted) /\ b))
      OBVIOUS
    <3>. QED BY <1>5, <3>1 DEF ProbeReports
  <2>4. /\ op.tidy /\ ~op.accepted => endpoint[op.n] \in {"none", "deleted"}
        /\ op.tidy /\ op.accepted => endpoint[op.n] = "cold"
    BY <2>1 DEF CommandInv, Holding
  <2>5. ok => endpoint[op.n] \in {"none", "deleted"} /\ request[op.n] = "completed"
    BY <2>3 DEF CommandInv
  <2>. QED BY <1>0, <2>1, <2>2, <2>3, <2>4, <2>5, OverEffect
<1>. QED BY <1>1, <1>2, <1>3, <1>4, <1>5

\* Every step of a command
LEMMA CommandStepEffect ==
  ASSUME AccountTypeOK, CommandsTypeOK, CommandInv, FutureInv, CommandStep
  PROVE  CommandEffect
<1>1. CASE \/ ProbeRefuses \/ CreateTemplateLost \/ CreateRefusedToCommand \/ ScaleUnsafe
           \/ CanaryFails \/ WorkerActive \/ ProbeSendLost \/ ProbeSendRefused
           \/ ProbePollRaises \/ \E s \in {"cold", "warm"} : CreateEndpointLost(s)
  BY <1>1, CommandRaises
<1>2. CASE \/ Promote \/ \E b \in BOOLEAN : Quarantine(b)
           \/ \E b, e, x, t \in BOOLEAN : Probe(x, t, b, e)
  BY <1>2, CommandBegins
<1>3. CASE \/ ScaleSafe \/ ProbeRunFails \/ NoTemplateToDelete
           \/ \E b \in BOOLEAN : WorkerQuiet(b)
  BY <1>3, CommandGoesOn
<1>4. CASE \/ ProbeResolves \/ CreateTemplate
           \/ \E s \in {"cold", "warm"} : CreateEndpoint(s)
  BY <1>4, CommandCreates
<1>5. CASE ProbeSends \/ \E b \in BOOLEAN : ProbeCompletes(b) \/ ProbeCancels(b)
  BY <1>5, CommandProbes
<1>6. CASE \E b, e \in BOOLEAN : Disable(b, e) \/ Delete(b, e) \/ DeleteTemplate(b, e)
  BY <1>6, CommandTakesAway
<1>7. CASE \/ CanaryPasses \/ CommandDies
           \/ \E b, e \in BOOLEAN :
                Judge(b, e) \/ QuarantineReports(b, e) \/ ProbeReports(b, e)
  BY <1>7, CommandReports
<1>. QED BY <1>1, <1>2, <1>3, <1>4, <1>5, <1>6, <1>7 DEF CommandStep

-------------------------------------------------------------------------------
(* Every step *)

\* RunPod moves on by itself: a pod starts or is removed by hand, a request runs or
\* ends, and one that has completed stays so.
AccountEffect ==
  /\ UNCHANGED <<endpoint, template, faults>>
  /\ pod' \in [PodJobs -> {"none", "starting", "running", "exited", "removed"}]
  /\ request' \in [Requesters -> {"none", "queued", "running", "completed", "failed", "cancelled"}]
  /\ \A j \in PodJobs : \/ pod'[j] = pod[j]
                        \/ pod[j] = "starting" /\ pod'[j] = "running"
                        \/ pod[j] = "exited" /\ pod'[j] = "removed"
  /\ \A q \in Requesters : \/ request'[q] = request[q]
                           \/ LiveRequest(q) /\ request'[q] # "none"

LEMMA AccountStepEffect ==
  ASSUME AccountTypeOK, AccountStep
  PROVE  AccountEffect
<1>1. ASSUME NEW j \in PodJobs, PodStarts(j) \/ PodRemoved(j) PROVE AccountEffect
  BY <1>1 DEF AccountTypeOK, PodStarts, PodRemoved, AccountEffect
<1>2. ASSUME NEW q \in Requesters,
             RequestStarts(q) \/ \E o \in {"completed", "failed"} : RequestEnds(q, o)
      PROVE  AccountEffect
  <2>1. PICK s \in {"running", "completed", "failed"} :
          /\ request' = [request EXCEPT ![q] = s] /\ LiveRequest(q)
          /\ UNCHANGED <<pod, endpoint, template, faults>>
    BY <1>2 DEF RequestStarts, RequestEnds, LiveRequest
  <2>. QED BY <2>1 DEF AccountTypeOK, AccountEffect
<1>. QED BY <1>1, <1>2 DEF AccountStep

\* What others do to a job: nothing to its process, its record and its pod, or a step of
\* the account.
LEMMA PodJobKept ==
  ASSUME NEW j \in PodJobs, PodJobInv(j), run'[j] = run[j], rec'[j] = rec[j],
         \/ pod'[j] = pod[j]
         \/ pod[j] = "starting" /\ pod'[j] = "running"
         \/ pod[j] = "exited" /\ pod'[j] = "removed"
  PROVE  PodJobInv(j)'
BY DEF PodJobInv

LEMMA EndpointJobKept ==
  ASSUME NEW j \in EndpointJobs, EndpointJobInv(j), run'[j] = run[j],
         request'[j] = request[j] \/ (LiveRequest(j) /\ request'[j] # "none")
  PROVE  EndpointJobInv(j)'
BY DEF EndpointJobInv, LiveRequest

LEMMA CommandKept ==
  ASSUME CommandsTypeOK, CommandInv, FutureInv, op' = op, endpoint' = endpoint,
         \A n \in Commands : \/ request'[n] = request[n]
                             \/ LiveRequest(n) /\ request'[n] # "none"
  PROVE  CommandsTypeOK' /\ CommandInv' /\ FutureInv'
<1>1. CommandsTypeOK' /\ FutureInv'
  BY DEF CommandsTypeOK, FutureInv
<1>2. request[op.n] = "completed" /\ op.n \in Commands => request'[op.n] = "completed"
  BY DEF LiveRequest
<1>3. op.n \in Commands \/ op = NoCommand
  BY AccountAssumption DEF CommandsTypeOK, Command, CommandInv, Commands
<1>4. op = NoCommand => ~op.ok /\ op.verdict = "none"
  BY DEF NoCommand
<1>5. op.ok \/ op.verdict = "ok" => op.n \in Commands
  BY <1>3, <1>4
<1>6. CommandInv'
  BY <1>2, <1>5 DEF CommandInv
<1>. QED BY <1>1, <1>6

LEMMA RunpodStart == RunpodInit => RunpodInv
<1>. SUFFICES ASSUME RunpodInit PROVE RunpodInv
  OBVIOUS
<1>1. AccountTypeOK
  BY AccountAssumption DEF RunpodInit, AccountInit, AccountTypeOK
<1>2. JobsTypeOK
  BY DEF RunpodInit, JobsInit, JobsTypeOK, Record, Process, Phases, Fresh
<1>3. CommandsTypeOK
  BY AccountAssumption
     DEF RunpodInit, CommandsInit, CommandsTypeOK, NoCommand, Command, CommandPhases, Kinds
<1>4. ASSUME NEW j \in PodJobs PROVE PodJobInv(j)
  BY DEF RunpodInit, AccountInit, JobsInit, PodJobInv, Fresh, Jobs
<1>5. ASSUME NEW j \in EndpointJobs PROVE EndpointJobInv(j)
  BY DEF RunpodInit, AccountInit, JobsInit, EndpointJobInv, Fresh, Jobs, LiveRequest, Requesters
<1>6. CommandInv
  BY DEF RunpodInit, CommandsInit, NoCommand, CommandInv, Holding
<1>7. FutureInv
  BY DEF RunpodInit, AccountInit, FutureInv, Known, Commands
<1>. QED BY <1>1, <1>2, <1>3, <1>4, <1>5, <1>6, <1>7 DEF RunpodInv, RunpodTypeOK

LEMMA RunpodStep ==
  ASSUME RunpodInv, [RunpodNext]_runpodVars
  PROVE  RunpodInv' /\ endpoint'[Known] = endpoint[Known]
<1>0. /\ AccountTypeOK /\ JobsTypeOK /\ CommandsTypeOK /\ CommandInv /\ FutureInv
      /\ \A j \in PodJobs : PodJobInv(j)
      /\ \A j \in EndpointJobs : EndpointJobInv(j)
  BY DEF RunpodInv, RunpodTypeOK
<1>1. CASE AccountStep /\ UNCHANGED <<rec, run, op>>
  <2>1. AccountEffect
    BY <1>0, <1>1, AccountStepEffect
  <2>2. \A j \in PodJobs : PodJobInv(j)'
    BY <1>0, <1>1, <2>1, PodJobKept DEF AccountEffect
  <2>3. \A j \in EndpointJobs : EndpointJobInv(j)'
    BY <1>0, <1>1, <2>1, EndpointJobKept DEF AccountEffect, Requesters
  <2>4. CommandsTypeOK' /\ CommandInv' /\ FutureInv'
    BY <1>0, <1>1, <2>1, CommandKept DEF AccountEffect, Requesters
  <2>5. AccountTypeOK' /\ JobsTypeOK'
    BY <1>0, <1>1, <2>1 DEF AccountEffect, AccountTypeOK, JobsTypeOK
  <2>. QED BY <2>1, <2>2, <2>3, <2>4, <2>5 DEF RunpodInv, RunpodTypeOK, AccountEffect
<1>2. CASE (\E j \in Jobs : JobStep(j)) /\ UNCHANGED op
  <2>1. PICK j \in Jobs : JobStep(j)
    BY <1>2
  <2>2. JobEffect(j)
    BY <1>0, <2>1, JobStepEffect DEF JobInv
  <2>3. \A k \in PodJobs : PodJobInv(k)'
    <3>. TAKE k \in PodJobs
    <3>1. CASE k = j
      BY <2>2, <3>1 DEF JobEffect
    <3>2. CASE k # j
      BY <1>0, <2>2, <3>2, PodJobKept DEF JobEffect, OnlyJob, Jobs
    <3>. QED BY <3>1, <3>2
  <2>4. \A k \in EndpointJobs : EndpointJobInv(k)'
    <3>. TAKE k \in EndpointJobs
    <3>1. CASE k = j
      BY <2>2, <3>1 DEF JobEffect
    <3>2. CASE k # j
      BY <1>0, <2>2, <3>2, EndpointJobKept DEF JobEffect, OnlyJob, Jobs, Requesters
    <3>. QED BY <3>1, <3>2
  <2>5. \A n \in Commands : request'[n] = request[n]
    BY <2>2, ConstantFacts DEF JobEffect
  <2>6. CommandsTypeOK' /\ CommandInv' /\ FutureInv'
    BY <1>0, <1>2, <2>2, <2>5, CommandKept DEF JobEffect
  <2>7. AccountTypeOK' /\ JobsTypeOK'
    BY <1>0, <2>2 DEF JobEffect, OnlyJob, AccountTypeOK, JobsTypeOK
  <2>. QED BY <2>2, <2>3, <2>4, <2>6, <2>7 DEF RunpodInv, RunpodTypeOK, JobEffect
<1>3. CASE CommandStep /\ UNCHANGED <<rec, run>>
  <2>1. CommandEffect
    BY <1>0, <1>3, CommandStepEffect
  <2>2. \A k \in PodJobs : PodJobInv(k)'
    BY <1>0, <1>3, <2>1, PodJobKept DEF CommandEffect
  <2>3. \A k \in EndpointJobs : EndpointJobInv(k)'
    BY <1>0, <1>3, <2>1, EndpointJobKept DEF CommandEffect
  <2>4. AccountTypeOK' /\ JobsTypeOK'
    BY <1>0, <1>3, <2>1 DEF CommandEffect, AccountTypeOK, JobsTypeOK
  <2>. QED BY <2>1, <2>2, <2>3, <2>4 DEF RunpodInv, RunpodTypeOK, CommandEffect
<1>4. CASE UNCHANGED runpodVars
  <2>1. AccountTypeOK' /\ JobsTypeOK' /\ endpoint' = endpoint
    BY <1>0, <1>4 DEF runpodVars, AccountTypeOK, JobsTypeOK
  <2>2. \A k \in PodJobs : PodJobInv(k)'
    BY <1>0, <1>4, PodJobKept DEF runpodVars
  <2>3. \A k \in EndpointJobs : EndpointJobInv(k)'
    BY <1>0, <1>4, EndpointJobKept DEF runpodVars
  <2>4. CommandsTypeOK' /\ CommandInv' /\ FutureInv'
    BY <1>0, <1>4, CommandKept DEF runpodVars
  <2>. QED BY <2>1, <2>2, <2>3, <2>4 DEF RunpodInv, RunpodTypeOK
<1>. QED BY <1>1, <1>2, <1>3, <1>4 DEF RunpodNext

LEMMA RunpodInvariant == RunpodSpec => []RunpodInv
<1>1. RunpodInit => RunpodInv
  BY RunpodStart
<1>2. RunpodInv /\ [RunpodNext]_runpodVars => RunpodInv'
  BY RunpodStep
<1>. QED BY <1>1, <1>2, PTL DEF RunpodSpec

-------------------------------------------------------------------------------
(* What holds at all times *)

\* The account, the jobs and the command keep their types (runpod.py, runner.py).
THEOREM RunpodTypesKept == RunpodSpec => []RunpodTypeOK
<1>1. RunpodInv => RunpodTypeOK
  BY DEF RunpodInv
<1>. QED BY <1>1, RunpodInvariant, PTL

\* The pod of a job that is stored as succeeded is named in its record and no longer
\* costs anything, whatever happened to the calls: the finally block that stops it
\* comes before the outcome, and an unconfirmed stop spoils it
\* (runpod.py:659-668, 2193-2196).
THEOREM SucceededPodsStop == RunpodSpec => []SucceededPodStopped
<1>1. RunpodInv => SucceededPodStopped
  BY DEF RunpodInv, SucceededPodStopped, PodJobInv, PodRuns
<1>. QED BY <1>1, RunpodInvariant, PTL

\* A job that ends as succeeded under a guard that answered has left no pod in the
\* account (runpod.py:1755-1765, runner.py:336-339).
THEOREM AuditedPodsGone == RunpodSpec => []AuditedPodRemoved
<1>1. RunpodInv => AuditedPodRemoved
  <2>. SUFFICES ASSUME RunpodInv, NEW j \in PodJobs, run[j].audited PROVE j \notin Listed
    BY DEF AuditedPodRemoved
  <2>. QED BY DEF RunpodInv, PodJobInv, Listed
<1>. QED BY <1>1, RunpodInvariant, PTL

\* A job whose calls all answered and had their effect leaves no request queued or
\* running at its endpoint (runpod.py:2337-2346, 2400-2409).
THEOREM TidyJobsLeaveNoRequest == RunpodSpec => []TidyJobLeavesNoRequest
<1>1. RunpodInv => TidyJobLeavesNoRequest
  BY DEF RunpodInv, TidyJobLeavesNoRequest, EndpointJobInv, At
<1>. QED BY <1>1, RunpodInvariant, PTL

\* A command that failed, although all its calls answered, leaves no endpoint of its
\* own unless it had accepted it (runpod.py:314-318, 1225-1235).
THEOREM FailedCommandsLeaveNoEndpoint == RunpodSpec => []FailedCommandLeavesNoEndpoint
<1>1. RunpodInv => FailedCommandLeavesNoEndpoint
  <2>. SUFFICES ASSUME RunpodInv, op.verdict = "failed", op.tidy, ~op.accepted
                PROVE  endpoint[op.n] \in {"none", "deleted"}
    BY DEF FailedCommandLeavesNoEndpoint
  <2>1. CommandInv
    BY DEF RunpodInv
  <2>2. op.n > 0 /\ op.pc = "idle"
    <3>1. op # NoCommand
      BY DEF NoCommand
    <3>2. op.n # 0
      BY <2>1, <3>1 DEF CommandInv
    <3>. QED BY <2>1, <3>2 DEF CommandInv, RunpodInv, RunpodTypeOK, CommandsTypeOK, Command
  <2>. QED BY <2>1, <2>2 DEF CommandInv, Holding
<1>. QED BY <1>1, RunpodInvariant, PTL

\* An endpoint that is kept costs nothing while nobody uses it, whatever RunPod made of
\* the scale it was asked for (runpod.py:314, 1185-1187).
THEOREM AcceptedEndpointsAreCold == RunpodSpec => []AcceptedIsCold
<1>1. RunpodInv => AcceptedIsCold
  BY DEF RunpodInv, CommandInv, AcceptedIsCold
<1>. QED BY <1>1, RunpodInvariant, PTL

\* A probe that reports ok has had its request completed and has taken its endpoint
\* away, whatever was lost on the way
\* (scripts/runpod-asr-serverless-contract-probe.py:199, 213-219).
THEOREM OkProbesLeaveNoEndpoint == RunpodSpec => []ProbeOkLeavesNoEndpoint
<1>1. RunpodInv => ProbeOkLeavesNoEndpoint
  BY DEF RunpodInv, CommandInv, ProbeOkLeavesNoEndpoint
<1>. QED BY <1>1, RunpodInvariant, PTL

\* No command disables or deletes the endpoint that was there, which jobs use
\* (runpod.py:1225-1235, the probe's finally block).
THEOREM ConfiguredEndpointsSpared == RunpodSpec => ConfiguredEndpointSpared
<1>1. RunpodInv /\ [RunpodNext]_runpodVars => [endpoint'[Known] = endpoint[Known]]_runpodVars
  BY RunpodStep
<1>. QED BY <1>1, RunpodInvariant, PTL DEF RunpodSpec, ConfiguredEndpointSpared
===============================================================================

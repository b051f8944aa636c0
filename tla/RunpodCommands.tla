---------------------------- MODULE RunpodCommands ----------------------------
(***************************************************************************)
(* What an operator runs against RunPod, one command after the other:      *)
(* promote_vllm_endpoint, quarantine_public_ollama_endpoint and the ASR    *)
(* serverless contract probe (scripts/), each of which creates a template  *)
(* and an endpoint and takes away what it may not keep.                    *)
(***************************************************************************)
EXTENDS RunpodAccount

VARIABLE op  \* the operator's command

Kinds == {"promote", "quarantine", "probe"}

CommandPhases == {"idle", "resolve", "template", "endpoint", "inspect", "canary",
                  "send", "wait", "cancel", "disable", "delete", "untemplate",
                  "postguard"}

\* Command number n: where it is, whether the guard before it was clean, whether it
\* works on the endpoint that was there (existing) and with the template the
\* operator names (named), whether it knows the endpoint and the template it has,
\* whether the work went well (ok), whether the endpoint is accepted, whether its
\* delete was confirmed.
\* tidy and verdict are history: every call answered and had its effect, and what the
\* command reported.
Command == [n : 0..MaxCommands, kind : Kinds, pc : CommandPhases, preclean : BOOLEAN,
            existing : BOOLEAN, named : BOOLEAN, endpoint : BOOLEAN, template : BOOLEAN,
            ok : BOOLEAN, accepted : BOOLEAN, deleted : BOOLEAN,
            tidy : BOOLEAN, verdict : {"none", "ok", "failed"}]

CommandsTypeOK == op \in Command

NoCommand ==
  [n |-> 0, kind |-> "promote", pc |-> "idle", preclean |-> FALSE, existing |-> FALSE,
   named |-> FALSE, endpoint |-> FALSE, template |-> FALSE, ok |-> FALSE,
   accepted |-> FALSE, deleted |-> FALSE, tidy |-> TRUE, verdict |-> "none"]

CommandsInit == op = NoCommand

-------------------------------------------------------------------------------
(* Moving on *)

\* The endpoint of the command.
Target == IF op.existing THEN Known ELSE op.n

Doing(phase) == op.pc = phase

GoOn(phase) == op' = [op EXCEPT !.pc = phase]

\* The command has reported; of its memory c only the history is left.
Over(c, ok) ==
  [NoCommand EXCEPT !.n = c.n, !.kind = c.kind, !.accepted = c.accepted,
                    !.tidy = c.tidy, !.verdict = IF ok THEN "ok" ELSE "failed"]

Unchanged == UNCHANGED <<pod, endpoint, template, request>>

\* Where a command goes when something in it raises: the promotion into its
\* handler, the probe into its finally block, the quarantine nowhere.
Raises(fault) ==
  /\ LET known == op.endpoint /\ ~op.existing
         to == CASE op.kind = "promote"    -> IF known THEN "disable" ELSE "idle"
                 [] op.kind = "quarantine" -> "idle"
                 [] op.kind = "probe"      -> IF known THEN "disable" ELSE "untemplate"
         after == [op EXCEPT !.pc = to, !.preclean = FALSE, !.ok = FALSE,
                             !.tidy = @ /\ ~fault]
     IN op' = IF to = "idle" THEN Over(after, FALSE) ELSE after
  /\ Counted(fault)

-------------------------------------------------------------------------------
(* Commands begin *)

Begins(c) ==
  /\ Doing("idle") /\ op.n < MaxCommands
  /\ op' = [c EXCEPT !.n = op.n + 1]
  /\ Unchanged

Promote ==
  /\ Begins([NoCommand EXCEPT !.kind = "promote", !.pc = "template"])
  /\ UNCHANGED faults

\* The operator may name a template.
Quarantine(named) ==
  /\ Begins([NoCommand EXCEPT !.kind = "quarantine", !.named = named,
                              !.pc = IF named THEN "endpoint" ELSE "template"])
  /\ UNCHANGED faults

\* The probe looks at the account first, and judges what it saw later.
Probe(existing, named, preclean, answered) ==
  /\ existing => ~named
  /\ Guard(preclean, answered)
  /\ Begins([NoCommand EXCEPT !.kind = "probe", !.pc = "resolve", !.preclean = preclean,
                              !.existing = existing, !.named = named])

\* _resolve_existing_endpoint does not find the endpoint, or the plan is not ok, or
\* the guard was not clean.
ProbeRefuses ==
  /\ Doing("resolve")
  /\ Raises(FALSE) /\ Unchanged

ProbeResolves ==
  /\ Doing("resolve") /\ op.preclean
  /\ op.existing => endpoint[Known] # "deleted"
  /\ op' = [op EXCEPT !.pc = IF op.existing THEN "inspect"
                             ELSE IF op.named THEN "endpoint" ELSE "template",
                      !.endpoint = op.existing, !.template = op.named,
                      !.preclean = FALSE]
  /\ Unchanged /\ UNCHANGED faults

-------------------------------------------------------------------------------
(* What a command creates *)

CreateTemplate ==
  /\ Doing("template")
  /\ template' = [template EXCEPT ![op.n] = "kept"]
  /\ op' = [op EXCEPT !.pc = "endpoint", !.template = TRUE]
  /\ UNCHANGED <<pod, endpoint, request, faults>>

CreateTemplateLost ==
  /\ Doing("template")
  /\ template' = [template EXCEPT ![op.n] = "kept"]
  /\ Raises(TRUE)
  /\ UNCHANGED <<pod, endpoint, request>>

TemplateThere == op.named => template[Known] = "kept"

\* RunPod may give an endpoint standby workers nobody asked for.
CreateEndpoint(scale) ==
  /\ Doing("endpoint") /\ TemplateThere
  /\ endpoint' = [endpoint EXCEPT ![op.n] = scale]
  /\ op' = [op EXCEPT !.pc = "inspect", !.endpoint = TRUE]
  /\ UNCHANGED <<pod, template, request, faults>>

CreateEndpointLost(scale) ==
  /\ Doing("endpoint") /\ TemplateThere
  /\ endpoint' = [endpoint EXCEPT ![op.n] = scale]
  /\ Raises(TRUE)
  /\ UNCHANGED <<pod, template, request>>

CreateRefusedToCommand ==
  /\ op.pc \in {"template", "endpoint"}
  /\ Raises(FALSE) /\ Unchanged

-------------------------------------------------------------------------------
(* What it does with the endpoint *)

\* _endpoint_scale_to_zero_invariant, on the answer of the create: standby workers,
\* or more workers at most than the one that was asked for
ScaleUnsafe ==
  /\ Doing("inspect") /\ op.kind = "promote"
  /\ Raises(FALSE) /\ Unchanged

ScaleSafe ==
  /\ Doing("inspect") /\ op.kind = "promote" /\ endpoint[op.n] # "warm"
  /\ GoOn("canary") /\ Unchanged /\ UNCHANGED faults

\* The canary generates a text: the endpoint is promoted.
CanaryPasses ==
  /\ Doing("canary")
  /\ op' = Over([op EXCEPT !.accepted = TRUE], TRUE)
  /\ Unchanged /\ UNCHANGED faults

\* Mutant: a canary that fails ends the promotion.
CanaryFailsKeeping ==
  /\ Doing("canary")
  /\ op' = Over(op, FALSE)
  /\ Unchanged /\ UNCHANGED faults

CanaryFails == Doing("canary") /\ Raises(FALSE) /\ Unchanged

\* Mutant: the endpoint is kept whatever the guard says.
JudgeBlindly(ok, answered) ==
  /\ Doing("inspect") /\ op.kind = "quarantine"
  /\ Guard(ok, answered)
  /\ op' = [op EXCEPT !.accepted = TRUE, !.pc = "postguard", !.tidy = @ /\ answered]
  /\ Unchanged

\* The quarantine keeps an endpoint when the guard of the account is clean.
Judge(ok, answered) ==
  /\ Doing("inspect") /\ op.kind = "quarantine"
  /\ Guard(ok, answered)
  /\ op' = [op EXCEPT !.accepted = ok, !.pc = IF ok THEN "postguard" ELSE "disable",
                      !.tidy = @ /\ answered]
  /\ Unchanged

\* A probe wants an endpoint without workers that run or start; a health that fails
\* shows none.
WorkerActive ==
  /\ Doing("inspect") /\ op.kind = "probe"
  /\ Raises(FALSE) /\ Unchanged

WorkerQuiet(answered) ==
  /\ Doing("inspect") /\ op.kind = "probe"
  /\ answered /\ op.existing => \A j \in EndpointJobs : request[j] # "running"
  /\ Counted(~answered)
  /\ op' = [op EXCEPT !.pc = "send", !.tidy = @ /\ answered]
  /\ Unchanged

ProbeSends ==
  /\ Doing("send")
  /\ request' = [request EXCEPT ![op.n] = "queued"]
  /\ GoOn("wait")
  /\ UNCHANGED <<pod, endpoint, template, faults>>

ProbeSendLost ==
  /\ Doing("send")
  /\ request' = [request EXCEPT ![op.n] = "queued"]
  /\ Raises(TRUE)
  /\ UNCHANGED <<pod, endpoint, template>>

ProbeSendRefused == Doing("send") /\ Raises(FALSE) /\ Unchanged

\* Mutant: into the finally block, as if the endpoint were always the probe's own.
CleansAll(phase) == phase = "disable"

\* Into the finally block
Cleans(phase) == phase = IF op.existing THEN "untemplate" ELSE "disable"

\* The run completes, with what the contract asks for or without.
ProbeCompletes(contract) ==
  /\ Doing("wait") /\ request[op.n] = "completed"
  /\ \E to \in CommandPhases :
       Cleans(to) /\ op' = [op EXCEPT !.pc = to, !.ok = contract]
  /\ Unchanged /\ UNCHANGED faults

\* It fails or takes too long, and is cancelled in either case.
ProbeRunFails ==
  /\ Doing("wait") /\ request[op.n] # "completed"
  /\ GoOn("cancel") /\ Unchanged /\ UNCHANGED faults

\* A status call raises, which cancels nothing.
ProbePollRaises == Doing("wait") /\ Raises(TRUE) /\ Unchanged

ProbeCancels(effect) ==
  /\ Doing("cancel")
  /\ request' = [request EXCEPT ![op.n] =
       IF effect /\ LiveRequest(op.n) THEN "cancelled" ELSE @]
  /\ \E to \in CommandPhases :
       Cleans(to) /\ op' = [op EXCEPT !.pc = to, !.tidy = @ /\ effect]
  /\ Counted(~effect)
  /\ UNCHANGED <<pod, endpoint, template>>

-------------------------------------------------------------------------------
(* What it takes away *)

\* A disable that raises ends a quarantine; the others go on to the delete.
Disable(effect, confirmed) ==
  /\ Doing("disable")
  /\ confirmed => effect
  /\ endpoint' = [endpoint EXCEPT ![Target] = IF effect /\ @ # "deleted" THEN "off" ELSE @]
  /\ op' = IF ~confirmed /\ op.kind = "quarantine"
           THEN Over([op EXCEPT !.tidy = FALSE], FALSE)
           ELSE [op EXCEPT !.pc = "delete", !.tidy = @ /\ confirmed]
  /\ Counted(~confirmed)
  /\ UNCHANGED <<pod, template, request>>

Delete(effect, confirmed) ==
  /\ Doing("delete")
  /\ confirmed => effect
  /\ endpoint' = [endpoint EXCEPT ![Target] = IF effect THEN "deleted" ELSE @]
  /\ LET to == CASE op.kind = "promote"    -> "idle"
                 [] op.kind = "quarantine" -> IF confirmed THEN "postguard" ELSE "idle"
                 [] op.kind = "probe"      -> "untemplate"
         after == [op EXCEPT !.pc = to, !.deleted = confirmed, !.tidy = @ /\ confirmed]
     IN op' = IF to = "idle" THEN Over(after, FALSE) ELSE after
  /\ Counted(~confirmed)
  /\ UNCHANGED <<pod, template, request>>

\* The probe deletes the template it worked with, also one the operator named.
DeleteTemplate(effect, confirmed) ==
  /\ Doing("untemplate") /\ op.template
  /\ confirmed => effect
  /\ LET t == IF op.named THEN Known ELSE op.n
     IN template' = [template EXCEPT ![t] = IF effect THEN "deleted" ELSE @]
  /\ op' = [op EXCEPT !.pc = "postguard", !.tidy = @ /\ confirmed]
  /\ Counted(~confirmed)
  /\ UNCHANGED <<pod, endpoint, request>>

NoTemplateToDelete ==
  /\ Doing("untemplate") /\ ~op.template
  /\ GoOn("postguard") /\ Unchanged /\ UNCHANGED faults

-------------------------------------------------------------------------------
(* What it reports *)

QuarantineReports(ok, answered) ==
  /\ Doing("postguard") /\ op.kind = "quarantine"
  /\ Guard(ok, answered)
  /\ op' = Over(op, op.accepted /\ ok)
  /\ Unchanged

\* Mutant: whether the endpoint was deleted is not asked.
ProbeReportsUncleaned(ok, answered) ==
  /\ Doing("postguard") /\ op.kind = "probe"
  /\ Guard(ok, answered)
  /\ op' = Over(op, op.ok /\ ok)
  /\ Unchanged

\* cleanup.ok: the delete is confirmed, if there was an endpoint to delete, and the
\* guard is clean.  The template is not asked for.
ProbeReports(ok, answered) ==
  /\ Doing("postguard") /\ op.kind = "probe"
  /\ Guard(ok, answered)
  /\ LET cleaned == (op.existing \/ ~op.endpoint \/ op.deleted) /\ ok
     IN op' = Over(op, op.ok /\ cleaned)
  /\ Unchanged

\* The command dies, or a guard in it raises.
CommandDies ==
  /\ ~Doing("idle")
  /\ op' = [NoCommand EXCEPT !.n = op.n, !.kind = op.kind, !.tidy = FALSE]
  /\ Counted(TRUE) /\ Unchanged

CommandStep ==
  \/ Promote \/ CommandDies \/ ProbeRefuses \/ ProbeResolves
  \/ CreateTemplate \/ CreateTemplateLost \/ CreateRefusedToCommand
  \/ ScaleUnsafe \/ ScaleSafe \/ CanaryPasses \/ CanaryFails \/ WorkerActive
  \/ ProbeSends \/ ProbeSendLost \/ ProbeSendRefused \/ ProbeRunFails \/ ProbePollRaises
  \/ NoTemplateToDelete
  \/ \E s \in {"cold", "warm"} : CreateEndpoint(s) \/ CreateEndpointLost(s)
  \/ \E b \in BOOLEAN :
       \/ Quarantine(b) \/ WorkerQuiet(b) \/ ProbeCompletes(b) \/ ProbeCancels(b)
       \/ \E e \in BOOLEAN :
            \/ Judge(b, e) \/ Disable(b, e) \/ Delete(b, e) \/ DeleteTemplate(b, e)
            \/ QuarantineReports(b, e) \/ ProbeReports(b, e)
            \/ \E x, t \in BOOLEAN : Probe(x, t, b, e)
===============================================================================

----------------------------- MODULE SubmitGates -----------------------------
(***************************************************************************)
(* The decisions of submit_job, and of the worker pass that leads to it,   *)
(* from what is recorded when they are taken: jobs (quota, circuit),       *)
(* provider probes (the catalog a workspace plan is made from) and         *)
(* contract probes.  Callers submit jobs directly, each in a thread of its *)
(* own; the worker runs one queued job at a time.  A submission reads the  *)
(* circuit, the quota and the plan in steps of their own, and then asks    *)
(* the cost guard, a network call: what the others save comes between.     *)
(***************************************************************************)
EXTENDS Gates, SequencesExt

CONSTANTS
  AnyProvider, Nobody,  \* no provider is asked for; there is none
  Budget,         \* source_budgets_usd; 0 for none
  Limit,          \* provider_limits
  MinSamples,     \* circuit_breaker: a circuit opens on so many samples
  OpenPercent,    \* of which so many percent failed
  Probed,         \* providers whose runtime names a contract probe
  ProbeLog,       \* how many records recent_contract_probe_summary reads
  Flighty,        \* bound: providers whose health changes
  Handled,        \* bound: the queued jobs an operator cancels and retries
  MaxProbes       \* bound: provider probes that are recorded

ASSUME AskedAssumption ==
  \A j \in Asks : /\ Request[j].asked \in Providers \cup {AnyProvider}
                  /\ Request[j].quoted \in Providers \cup {Nobody}
                  /\ Request[j].planned => Request[j].quoted \in Providers

ASSUME SubmitAssumption ==
  /\ Limit \in [Providers -> Nat \ {0}] /\ MinSamples \in Nat \ {0} /\ OpenPercent \in 0..100
  /\ Probed \subseteq Providers /\ ProbeLog \in Nat \ {0}
  /\ IsFiniteSet(Probed) /\ Cardinality(Probed) <= ProbeLog
  /\ Flighty \subseteq Providers /\ MaxProbes \in Nat
  /\ Handled \subseteq {j \in Asks : Request[j].path = "queue"}

ASSUME QuotaAssumption ==
  /\ IsFiniteSet(Asks)
  /\ \A j \in Asks : Request[j].cost.runtime \in Nat /\ Budget[Request[j].source] \in Nat

VARIABLES
  rec,       \* what is known of each job: recorded, and in the thread that has it
  phase,     \* how far the thread that submits a job has come
  recent,    \* the recorded ends of the last window_seconds, oldest first
  up,        \* the providers whose signal says they are available
  snapshot,  \* how many provider probes were recorded
  probeLog,  \* the contract probes on record, the last ProbeLog of them
  charged,   \* history: the jobs that reached a provider and were not cancelled since
  beside,    \* history: who else was under way since a submission read its quota
  overtaken  \* history: submissions since whose plan a contract probe was recorded

history == <<charged, beside, overtaken>>
around == <<up, snapshot, probeLog>>
gateVars == <<rec, phase, recent, around, history>>

\* Not in submit_job; a provider is chosen; the quota answered; the gates are passed
\* and the cost guard is asked; a direct submission is to reserve its slot.
Phases == {"none", "selected", "inQuota", "overQuota", "planned", "cleared"}

\* The submissions that may still spend what the quota granted them.
UnderWay == {j \in DOMAIN phase : phase[j] \in {"inQuota", "planned", "cleared"}}

NoStamp == [provider |-> Nobody, snapshot |-> 0, proven |-> FALSE]

Queued == {j \in Asks : Request[j].path = "queue"}

GatesTypeOK ==
  /\ rec \in [Asks -> [status : {"absent", "queued", "starting", "active", "succeeded", "failed", "cancelled"},
                       provider : Providers \cup {Nobody}, circuitProbe : BOOLEAN, retried : BOOLEAN, mismatch : BOOLEAN,
                       stamp : [provider : Providers \cup {Nobody}, snapshot : 0..MaxProbes, proven : BOOLEAN]]]
  /\ phase \in [Asks -> Phases]
  /\ charged \subseteq Asks /\ beside \in [Asks -> SUBSET Asks] /\ overtaken \subseteq Asks
  /\ recent \in Seq(Asks) /\ up \subseteq Providers
  /\ snapshot \in 0..MaxProbes
  /\ probeLog \in Seq(Probed \X BOOLEAN) /\ Len(probeLog) <= ProbeLog

GatesInit ==
  /\ rec = [j \in Asks |-> [status |-> "absent", provider |-> Nobody, circuitProbe |-> FALSE,
                            retried |-> FALSE, mismatch |-> FALSE, stamp |-> NoStamp]]
  /\ phase = [j \in Asks |-> "none"] /\ recent = <<>>
  /\ charged = {} /\ beside = [j \in Asks |-> {}] /\ overtaken = {}
  /\ up = Providers /\ snapshot = 0
  /\ probeLog = SetToSeq({<<p, TRUE>> : p \in Probed})

Recorded(j) == rec[j].status # "absent"

-------------------------------------------------------------------------------
(* The circuit of a provider: provider_circuit_state *)

\* All the ends there ever were.
SamplesEver(p) ==
  SetToSeq({j \in Asks : rec[j].status \in {"succeeded", "failed"} /\ rec[j].provider = p})

Samples(p) ==
  LET Ended(j) == rec[j].status \in {"succeeded", "failed"} /\ rec[j].provider = p
  IN SelectSeq(recent, Ended)

\* Enough of the samples failed, and the last is not the success of a probe.
Open(p) ==
  \E s \in {Samples(p)} :
    /\ Len(s) >= MinSamples
    /\ 100 * Cardinality({i \in DOMAIN s : rec[s[i]].status = "failed"}) >= OpenPercent * Len(s)
    /\ ~(rec[s[Len(s)]].status = "succeeded" /\ rec[s[Len(s)]].circuitProbe)

-------------------------------------------------------------------------------
(* Routing: route_job *)

\* What routing and the gates answer whenever they are asked.
Candidates == [j \in Asks |-> {p \in Providers : Candidate(j, p)}]
Passing == [j \in Asks |-> {p \in Providers : SafetyGates(j, p)}]

Eligible(j, p) == p \in Candidates[j] /\ ~Open(p) /\ p \in up

\* The first eligible provider of the profile's order; none when it raises.
Routes(j) ==
  LET order == Request[j].order
  IN {order[i] : i \in {i \in DOMAIN order : /\ Eligible(j, order[i])
                                            /\ \A k \in 1..(i - 1) : ~Eligible(j, order[k])}}

-------------------------------------------------------------------------------
(* The workspace plan: provider_workspace_plan *)

\* The latest record of the probe, while it is among those that are read.
ProvenBy(log, p) ==
  \E i \in DOMAIN log : log[i] = <<p, TRUE>> /\ \A k \in (i + 1)..Len(log) : log[k][1] # p

Proven(p) == p \in Probed => ProvenBy(probeLog, p)

\* What tells one plan of a job from another: workspace_plan_id is made of it.  The
\* job that probes a runtime does not need it proven.
Plan(j, p) ==
  [provider |-> p, snapshot |-> snapshot, proven |-> Request[j].isProbe \/ Proven(p)]

\* decision = requires_action, for jobs that need a backend.
NeedsAction(j, plan) ==
  Request[j].backends # {} /\ ~(ImageOk(j, plan.provider) /\ plan.proven)

\* _workspace_plan_for_submit: the plan stamped on the job, when it is for p.
PlanFor(j, p) == IF rec[j].stamp.provider = p THEN rec[j].stamp ELSE Plan(j, p)

-------------------------------------------------------------------------------
(* The quota: quota_check *)

\* estimate_job_cost of each of them, together.
RuntimeCosts(S) == MapThenSumSet(LAMBDA j : Request[j].cost.runtime, S)

\* Only jobs that still run count.
CommittedWhileActive(s) ==
  RuntimeCosts({j \in Asks : rec[j].status \in {"queued", "starting", "active"} /\ Request[j].source = s})

\* committed_costs: of every recorded job, how ever it ended, that was not cancelled.
Committed(s) ==
  RuntimeCosts({j \in Asks : Recorded(j) /\ rec[j].status # "cancelled" /\ Request[j].source = s})

\* A queued job is on record already and counts twice.
WithinQuota(j) ==
  LET s == Request[j].source
  IN Budget[s] # 0 => Committed(s) + Request[j].cost.runtime <= Budget[s]

-------------------------------------------------------------------------------
(* submit_job up to its reservation *)

\* The job's record is saved and it is the last to be.
Ends(j, r) ==
  /\ rec' = [rec EXCEPT ![j] = r]
  /\ recent' = Append(RemoveFirst(recent, j), j)

\* The thread is past its reservation, or its job is refused.
Leaves(j) ==
  /\ phase' = [phase EXCEPT ![j] = "none"]
  /\ beside' = [beside EXCEPT ![j] = {}]
  /\ overtaken' = overtaken \ {j}

\* _save_blocked_job.
Refuses(j, r) ==
  /\ Ends(j, [r EXCEPT !.status = "failed"])
  /\ Leaves(j)
  /\ UNCHANGED charged

\* The thread goes on, and what it knows of its job is r.
Goes(j, to, r) ==
  /\ phase' = [phase EXCEPT ![j] = to]
  /\ rec' = [rec EXCEPT ![j] = r]
  /\ UNCHANGED recent

\* The job is at its provider: its record says so.
Reaches(j) ==
  /\ rec' = [rec EXCEPT ![j].status = "active"]
  /\ charged' = charged \cup {j}
  /\ Leaves(j)
  /\ UNCHANGED recent

\* An explicit provider, as the worker's choice is one, against the quote.
Conflicts(j, p) ==
  p # AnyProvider /\ Request[j].quoted # Nobody /\ p # Request[j].quoted

Selected(j, p) ==
  IF p # AnyProvider THEN {p}
  ELSE IF Request[j].quoted # Nobody THEN {Request[j].quoted}
  ELSE Routes(j)

\* An open circuit lets every job through that asks for the provider, as a probe.
WithCircuit(j, p) == [rec[j] EXCEPT !.provider = p, !.circuitProbe = @ \/ Open(p)]

\* submit_job(job, provider_name = p) up to the circuit.  Where routing raises nothing
\* is saved.
Gate(j, p) ==
  /\ phase[j] = "none"
  /\ IF Conflicts(j, p) THEN Refuses(j, [rec[j] EXCEPT !.provider = p, !.mismatch = TRUE])
     ELSE /\ \E q \in Selected(j, p) : Goes(j, "selected", WithCircuit(j, q))
          /\ UNCHANGED history
  /\ UNCHANGED around

\* A direct submission.
Submit(j) ==
  /\ j \notin Queued /\ rec[j].status = "absent"
  /\ Gate(j, Request[j].asked)

\* The quota reads what is on record; what it says is held against the job later.
CheckQuota(j) ==
  /\ phase[j] = "selected"
  /\ IF WithinQuota(j)
     THEN /\ Goes(j, "inQuota", rec[j])
          /\ beside' = [i \in Asks |-> IF i = j THEN UnderWay
                                       ELSE IF i \in UnderWay THEN beside[i] \cup {j} ELSE beside[i]]
     ELSE Goes(j, "overQuota", rec[j]) /\ UNCHANGED beside
  /\ UNCHANGED <<charged, overtaken, around>>

\* A stamped plan is as good as a current one.
PlanByStamp(j) ==
  /\ phase[j] \in {"inQuota", "overQuota"}
  /\ \E p \in {rec[j].provider} : \E plan \in {PlanFor(j, p)} :
       IF phase[j] = "inQuota" /\ p \in Passing[j] /\ ~NeedsAction(j, plan)
       THEN Goes(j, "planned", [rec[j] EXCEPT !.stamp = plan]) /\ UNCHANGED history
       ELSE Refuses(j, [rec[j] EXCEPT !.stamp = plan])
  /\ UNCHANGED around

\* The plan is made, and all gates are judged: the safety gates with the quota's answer,
\* drift of the plan, and whether it requires action.
PlanWorkspace(j) ==
  /\ phase[j] \in {"inQuota", "overQuota"}
  /\ \E p \in {rec[j].provider} : \E plan \in {PlanFor(j, p)} :
       IF phase[j] = "inQuota" /\ p \in Passing[j] /\ plan = Plan(j, p) /\ ~NeedsAction(j, plan)
       THEN Goes(j, "planned", [rec[j] EXCEPT !.stamp = plan]) /\ UNCHANGED history
       ELSE Refuses(j, [rec[j] EXCEPT !.stamp = plan])
  /\ UNCHANGED around

\* collect_cost_guard asks the providers.  The worker's job has its slot and goes on to
\* the provider; a direct one still has to reserve one and is not on record.
CostGuard(j) ==
  /\ phase[j] = "planned"
  /\ \/ Refuses(j, rec[j])
     \/ j \in Queued /\ Reaches(j)
     \/ j \notin Queued /\ Goes(j, "cleared", rec[j]) /\ UNCHANGED history
  /\ UNCHANGED around

Active(p) == {j \in Asks : rec[j].status \in {"starting", "active"} /\ rec[j].provider = p}

\* reserve_direct_execution_slot: a slot, or 429 and a record of it.
Reserve(j) ==
  /\ phase[j] = "cleared"
  /\ IF Cardinality(Active(rec[j].provider)) >= Limit[rec[j].provider]
     THEN Refuses(j, rec[j])
     ELSE Reaches(j)
  /\ UNCHANGED around

\* The provider's answer, with the guard, the timeout and the verification after it.
Finish(j) ==
  /\ rec[j].status = "active"
  /\ \/ Ends(j, [rec[j] EXCEPT !.status = "succeeded"])
     \/ Ends(j, [rec[j] EXCEPT !.status = "failed"])
  /\ UNCHANGED <<phase, around, history>>

-------------------------------------------------------------------------------
(* Queued jobs *)

\* A child of a workflow is stamped with the plan for the provider of its quote.
Enqueue(j) ==
  /\ j \in Queued /\ rec[j].status = "absent"
  /\ rec' = [rec EXCEPT ![j].status = "queued",
                        ![j].stamp = IF Request[j].planned THEN Plan(j, Request[j].quoted) ELSE NoStamp]
  /\ UNCHANGED <<phase, recent, around, history>>

\* replan_queued_jobs; a job nobody can take keeps the provider it had.
Replanned(j) ==
  IF rec[j].status = "queued" /\ Request[j].asked = AnyProvider /\ Routes(j) # {}
  THEN [rec[j] EXCEPT !.provider = CHOOSE p \in Routes(j) : TRUE]
  ELSE rec[j]

\* _requested_or_selected_provider of a replanned job; none when it routes and
\* routing raises.
Choice(j) ==
  LET kept == {rec[j].provider} \ {Nobody}
  IN IF Request[j].asked # AnyProvider THEN (IF kept # {} THEN kept ELSE {Request[j].asked})
     ELSE IF Routes(j) # {} THEN Routes(j) ELSE kept

Full(p) == Cardinality(Active(p)) >= Limit[p]

\* next_runnable_job: the first queued job whose provider has a slot; a job whose
\* routing raises ends the pass.
Runnable(j) ==
  /\ rec[j].status = "queued"
  /\ \E p \in Choice(j) : ~Full(p)
  /\ \A i \in Asks : i < j /\ rec[i].status = "queued" => \E p \in Choice(i) : Full(p)

WorkerIdle == \A j \in Queued : rec[j].status \notin {"starting", "active"}

\* A worker pass: all is replanned, one job is started.
PassStarts(j) ==
  /\ WorkerIdle /\ Runnable(j)
  /\ \E p \in Choice(j) :
       rec' = [i \in Asks |-> IF i = j THEN [rec[i] EXCEPT !.status = "starting", !.provider = p]
                              ELSE Replanned(i)]
  /\ UNCHANGED <<phase, recent, around, history>>

\* A pass that starts none.
PassReplans ==
  /\ WorkerIdle /\ ~\E j \in Asks : Runnable(j)
  /\ rec' = [i \in Asks |-> Replanned(i)] /\ rec' # rec
  /\ UNCHANGED <<phase, recent, around, history>>

\* The pass goes on to submit the job it started.
PassSubmits(j) ==
  /\ rec[j].status = "starting"
  /\ Gate(j, rec[j].provider)

Cancel(j) ==
  /\ j \in Handled /\ rec[j].status = "queued"
  /\ rec' = [rec EXCEPT ![j].status = "cancelled"]
  /\ charged' = charged \ {j}
  /\ UNCHANGED <<phase, recent, around, beside, overtaken>>

\* A status no reader knows.
RetryMisspelt(j) ==
  /\ j \in Handled /\ rec[j].status \in {"failed", "cancelled"} /\ ~rec[j].retried
  /\ rec' = [rec EXCEPT ![j].status = "enqueued", ![j].retried = TRUE, ![j].mismatch = FALSE]
  /\ recent' = RemoveFirst(recent, j)
  /\ UNCHANGED <<phase, around, history>>

\* retry_job, or the remediation of the pass: the job keeps its provider, its plan and the mark of a probe.
Retry(j) ==
  /\ j \in Handled /\ rec[j].status \in {"failed", "cancelled"} /\ ~rec[j].retried
  /\ rec' = [rec EXCEPT ![j].status = "queued", ![j].retried = TRUE, ![j].mismatch = FALSE]
  /\ recent' = RemoveFirst(recent, j)
  /\ UNCHANGED <<phase, around, history>>

-------------------------------------------------------------------------------
(* Around them *)

\* The oldest save is window_seconds old.
Expire ==
  /\ recent # <<>>
  /\ recent' = Tail(recent)
  /\ UNCHANGED <<rec, phase, around, history>>

HealthFails(p) ==
  /\ p \in up \cap Flighty
  /\ up' = up \ {p}
  /\ UNCHANGED <<rec, phase, recent, snapshot, probeLog, history>>

HealthReturns(p) ==
  /\ p \notin up
  /\ up' = up \cup {p}
  /\ UNCHANGED <<rec, phase, recent, snapshot, probeLog, history>>

\* probe_provider: the catalog is made of the probes on record, so it is another.
ProviderProbe ==
  /\ snapshot < MaxProbes
  /\ snapshot' = snapshot + 1
  /\ UNCHANGED <<rec, phase, recent, up, probeLog, history>>

\* active_contract_probe or a parsed artifact is recorded.
ContractProbe(p, ok) ==
  LET log == Append(probeLog, <<p, ok>>)
  IN /\ p \in Probed
     /\ probeLog' = IF Len(log) > ProbeLog THEN Tail(log) ELSE log
     /\ overtaken' = overtaken \cup {j \in Asks : phase[j] \in {"planned", "cleared"}}
     /\ UNCHANGED <<rec, phase, recent, up, snapshot, charged, beside>>

GatesNext ==
  \/ \E j \in Asks :
       \/ Submit(j) \/ CheckQuota(j) \/ PlanWorkspace(j) \/ CostGuard(j) \/ Reserve(j) \/ Finish(j)
       \/ Enqueue(j) \/ PassStarts(j) \/ PassSubmits(j) \/ Cancel(j) \/ Retry(j)
  \/ PassReplans \/ Expire \/ ProviderProbe
  \/ \E p \in Providers : HealthFails(p) \/ HealthReturns(p)
  \/ \E p \in Probed, ok \in BOOLEAN : ContractProbe(p, ok)

GatesSpec == GatesInit /\ [][GatesNext]_gateVars

===============================================================================

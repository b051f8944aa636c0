----------------------------- MODULE WorkflowPlan -----------------------------
(***************************************************************************)
(* What a workflow is split into and estimated to cost, what has to be     *)
(* there before it can run, and the decision made of both: plan_workflow.  *)
(* plan_workload decides the same of a workload, which an adapter turns    *)
(* into a workflow.  Prices are micro-dollars a second, multipliers        *)
(* tenths and costs hundredths of a micro-dollar.                          *)
(***************************************************************************)
EXTENDS Integers, Sequences, FiniteSets, SequencesExt

CONSTANTS
  Unset,        \* what a request leaves out
  Classes,      \* budget_classes
  DefaultClass,
  Price,        \* provider_price_usd_per_second, of the policy or the defaults
  Strategies,   \* workflow_strategies: whether each runs in the API
  Rules,        \* the requirement registry: workload_rules
  Backends,     \* backends
  Runtimes,     \* provider_runtimes, by provider and gpu profile
  Authorized,   \* the secrets a provider may be given for a job type
  Passed,       \* the contract probes whose latest record passes
  Observed,     \* p50 of collect_stats, by provider, job type and gpu profile
  Catalog       \* the providers of the catalog, by name, and what they execute

\* Python's a or b of two numbers, and b for an a that is None.
Number(a, b) == IF a \in {Unset, 0} THEN b ELSE a
Given(a, b) == IF a = Unset THEN b ELSE a

Larger(a, b) == IF a < b THEN b ELSE a

-------------------------------------------------------------------------------
(* The budget *)

NoBudget == [auto |-> 0, hard |-> 0, allowed |-> <<>>, retry |-> 10, margin |-> 10]

\* resolve_budget_class: an unknown class has the standard budget.
BudgetOf(r) ==
  LET class == Given(r.class, DefaultClass)
      named == {class, "standard"} \cap DOMAIN Classes
  IN IF named = {} THEN NoBudget ELSE Classes[IF class \in named THEN class ELSE "standard"]

\* approval_decision of a p95 estimate.  The caller's limit lowers the hard cap, and
\* a limit of 0 takes it off.
Approval(p95, budget, limit) ==
  LET cap == IF limit = Unset \/ (budget.hard # 0 /\ budget.hard <= limit) THEN budget.hard ELSE limit
  IN [decision |-> IF cap # 0 /\ p95 > cap THEN "reject"
                   ELSE IF budget.auto # 0 /\ p95 > budget.auto THEN "pending_approval"
                   ELSE "auto_execute",
      cap |-> cap]

-------------------------------------------------------------------------------
(* The chunks *)

\* _chunk_token_budget.
ChunkBudget(r) ==
  IF r.chunkTokens \notin {Unset, 0} THEN r.chunkTokens
  ELSE Larger(1024, Number(r.maxInput, 32768) - Number(r.reserved, 4096))

\* _json_items: the tokens of each item, or of as many as the size hint counts.
Items(r) ==
  IF r.items # Unset THEN r.items
  ELSE [i \in 1..Given(r.itemCount, 0) |-> Number(r.itemTokens, 500)]

Total(s) == FoldLeft(+, 0, s)

\* _plan_chunks: items are put into the last chunk as long as they fit.
Packed(items, limit) ==
  LET packed[i \in 0..Len(items)] ==
        IF i = 0 THEN << <<>> >>
        ELSE LET before == packed[i - 1]
                 open == Last(before)
                 item == Larger(1, items[i])
             IN IF open # <<>> /\ Total(open) + item > limit
                THEN Append(before, <<item>>)
                ELSE Append(Front(before), Append(open, item))
  IN packed[Len(items)]

\* Only JSON is split by the plan: anything else is one chunk to it.
PlannedChunks(r) ==
  IF r.splitter # "json_array_chunker" THEN << <<>> >> ELSE Packed(Items(r), ChunkBudget(r))

-------------------------------------------------------------------------------
(* The estimate: estimate_workflow_cost *)

\* Also a provider nobody prices, as "auto" is none.
PriceOf(p) == IF p \in DOMAIN Price THEN Price[p] ELSE 1000

EstimatedProvider(r) ==
  Given(r.provider, IF BudgetOf(r).allowed = <<>> THEN "modal" ELSE Head(BudgetOf(r).allowed))

\* _estimated_runtime_seconds: asked for, else observed, else a minute.
MapSeconds(r) ==
  LET group == <<EstimatedProvider(r), r.jobType, r.profile>>
  IN Given(r.mapSeconds, Given(r.gpuSeconds, IF group \in DOMAIN Observed THEN Observed[group] ELSE 60))

ReduceSeconds(r) == Number(r.reduceSeconds, Larger(10, MapSeconds(r) \div 2))

\* There is always a chunk, and so a reducer.
P95Of(r) ==
  LET b == BudgetOf(r)
  IN (Len(PlannedChunks(r)) * MapSeconds(r) + ReduceSeconds(r)) * PriceOf(EstimatedProvider(r))
       * Number(b.retry, 10) * Number(b.margin, 10)

-------------------------------------------------------------------------------
(* The registered requirements *)

\* What a rule asks of a request; diarization is asked for or not.
Asks(q) == q.hints \cup {<<"speaker_diarization", q.diarize>>}

\* resolve_workload_rule: the most specific rule that matches, else one that asks
\* for nothing, else any; an empty set when the kind has no rule.
RulesOf(q) ==
  LET ofKind == {i \in DOMAIN Rules : Rules[i].kind = q.kind}
      matching == {i \in ofKind : Rules[i].when \subseteq Asks(q)}
      plain == {i \in ofKind : Rules[i].when = {}}
      First(S) == {Rules[i] : i \in {i \in S : \A k \in S : i <= k}}
      most == {i \in matching : \A k \in matching : Cardinality(Rules[k].when) <= Cardinality(Rules[i].when)}
  IN IF matching # {} THEN First(most) ELSE IF plain # {} THEN First(plain) ELSE First(ofKind)

\* workload_gpu_profile.
ProfileOf(q) ==
  IF q.profile # Unset THEN q.profile
  ELSE IF RulesOf(q) = {} THEN "" ELSE (CHOOSE rule \in RulesOf(q) : TRUE).profile

\* image_contract_status.
ImageFits(runtime, backends) ==
  runtime.image.registered /\ runtime.image.verified /\ backends \subseteq runtime.image.provides

\* _runtime_contract_probe_ok.
ProbePassed(runtime) == runtime.probe \in Passed

\* _secret_ref_status.
SecretAllowed(x, q, p) == <<p, q.jobType, x.id>> \in Authorized

\* _evaluate_requirement; of a type it does not know nothing is met.
Met(x, q, p, runtime, backends) ==
  \/ x.type = "secret" /\ SecretAllowed(x, q, p)
  \/ x.type = "provider_secret_binding" /\ ProbePassed(runtime)
  \/ /\ x.type = "worker_dependency"
     /\ x.assumed \/ ImageFits(runtime, backends) \/ ProbePassed(runtime)

\* The requirements of the backends, and of the runtime its secrets, its probe
\* and its image.
Blockers(q, p, runtime, backends) ==
  LET wanted == UNION {Backends[b].requires : b \in backends} \cup runtime.bindings
  IN {x.type : x \in {x \in wanted : ~Met(x, q, p, runtime, backends)}}
       \cup (IF runtime.probe # Unset /\ ~ProbePassed(runtime) THEN {"runtime_contract_probe"} ELSE {})
       \cup (IF ImageFits(runtime, backends) THEN {} ELSE {"image_contract"})

\* A model the caller names has to be one the diarization backend knows.
UnknownModel(q, rule) ==
  /\ q.speakerModel # Unset /\ rule.diarizer # Unset
  /\ q.speakerModel \notin Backends[rule.diarizer].models

BackendsOf(rule) == rule.backends \cup ({rule.diarizer} \ {Unset})

\* _runtime_support_status of the runtime for a provider and a profile.
Support(place, backends) ==
  IF place \notin DOMAIN Runtimes THEN "requires_backend_registration"
  ELSE IF backends \subseteq Runtimes[place].supports THEN "supported"
  ELSE "unsupported"

\* evaluate_workload_requirements for the provider p; "auto" is judged as modal.
Requirements(q, p) ==
  LET at == IF p = "auto" THEN "modal" ELSE p
      place == <<at, ProfileOf(q)>>
      Judged(rule, backends) ==
        IF UnknownModel(q, rule) THEN "requires_backend_registration"
        ELSE IF Support(place, backends) # "supported" THEN Support(place, backends)
        ELSE IF Blockers(q, at, Runtimes[place], backends) # {} THEN "requires_action"
        ELSE "can_run_now"
  IN IF RulesOf(q) = {} THEN "unsupported"
     ELSE LET rule == CHOOSE rule \in RulesOf(q) : TRUE IN Judged(rule, BackendsOf(rule))

-------------------------------------------------------------------------------
(* plan_workflow *)

\* evaluate_workflow_requirements asks for speech only.
WorkflowRequirements(r) ==
  LET q == [kind |-> IF r.jobType = "asr" THEN "transcription.whisper" ELSE r.type,
            hints |-> {}, diarize |-> r.diarize, profile |-> r.profile,
            jobType |-> r.jobType, speakerModel |-> r.speakerModel]
  IN IF r.jobType # "asr" /\ r.type # "transcription_whisper" THEN "can_run_now"
     ELSE Requirements(q, EstimatedProvider(r))

Refusing == {"requires_action", "requires_backend_registration", "unsupported"}

\* What is required goes before what it costs.
Planned(approval, required) == IF required \in Refusing THEN required ELSE approval

\* plan_workflow raises, and nothing is saved.
UnknownStrategy(r) == ~({r.splitter, r.reducer} \subseteq DOMAIN Strategies)

\* _strategy_runs_in_api: what is split there has its jobs at once, and what is merged
\* there has no reduce job.
KindPlanned(r) == IF Strategies[r.splitter] THEN "chunked" ELSE "media"
MergedInApi(r) == Strategies[r.reducer]

PlanDecision(r) ==
  IF UnknownStrategy(r) THEN "raises"
  ELSE Planned(Approval(P95Of(r), BudgetOf(r), r.limit).decision, WorkflowRequirements(r))

\* The cap the manifest keeps: of the budget alone when something is required.
PlannedCap(r) ==
  IF WorkflowRequirements(r) \in Refusing THEN BudgetOf(r).hard
  ELSE Number(Approval(P95Of(r), BudgetOf(r), r.limit).cap, BudgetOf(r).hard)

CanRunNow(decision) == decision \notin Refusing \cup {"reject"}

\* execute_workflow: the status of a manifest whose workflow is not executed.
ManifestStatus(decision) ==
  IF decision \in {"reject", "requires_backend_registration", "unsupported"} THEN "rejected" ELSE decision

\* build_plan_quote: created_at is no part of it, so that the same plan is the
\* same quote, and its provider is that of the estimate.
PlanQuote(r) ==
  [provider |-> EstimatedProvider(r), request |-> r, p95 |-> P95Of(r), decision |-> PlanDecision(r),
   canRunNow |-> CanRunNow(PlanDecision(r))]

-------------------------------------------------------------------------------
(* plan_workload *)

StartupOf(p) == IF p \in {"local", "ollama"} THEN 0 ELSE IF p = "modal" THEN 90 ELSE 180

RunSeconds(q) ==
  Number(q.runSeconds, IF q.kind = "transcription.whisper" THEN Larger(30, q.duration \div 4) ELSE 120)

\* _estimate_provider_option: p95 is 1.35 of what is expected.
OptionSeconds(q, p) == 135 * (RunSeconds(q) + Number(q.startup, StartupOf(p)))
OptionCost(q, p) == OptionSeconds(q, p) * Given(Catalog[p].price, 0)

\* The providers that execute the job and that the budget allows.
Options(q) ==
  {p \in DOMAIN Catalog : q.jobType \in Catalog[p].executes /\ p \in ToSet(BudgetOf(q).allowed)}

\* Options are sorted by cost, seconds and name.
Before(q, p, o) ==
  \/ OptionCost(q, p) < OptionCost(q, o)
  \/ /\ OptionCost(q, p) = OptionCost(q, o)
     /\ \/ OptionSeconds(q, p) < OptionSeconds(q, o)
        \/ OptionSeconds(q, p) = OptionSeconds(q, o) /\ Catalog[p].rank <= Catalog[o].rank

Best(q) == {p \in Options(q) : \A o \in Options(q) : Before(q, p, o)}

WorkloadDecision(q) ==
  IF Options(q) = {} THEN "reject"
  ELSE LET p == CHOOSE p \in Best(q) : TRUE
       IN Planned(Approval(OptionCost(q, p), BudgetOf(q), q.limit).decision, Requirements(q, p))

\* workload_to_workflow, for transcriptions: the workflow that plan_workflow is then
\* asked for.  A caller who names no provider gets "auto".
WorkflowOf(q) ==
  [type |-> "transcription_whisper", class |-> q.class, provider |-> Given(q.provider, "auto"),
   splitter |-> "ffmpeg_time_splitter", reducer |-> "timeline_reducer",
   chunkTokens |-> Unset, maxInput |-> Unset, reserved |-> Unset,
   items |-> Unset, itemCount |-> Unset, itemTokens |-> Unset,
   mapSeconds |-> IF q.duration = 0 THEN 120 ELSE Larger(30, q.duration \div 4),
   gpuSeconds |-> Unset, reduceSeconds |-> 30, limit |-> q.limit,
   jobType |-> "asr", profile |-> ProfileOf(q), diarize |-> q.diarize,
   speakerModel |-> Given(q.speakerModel, "pyannote/speaker-diarization-3.1")]

===============================================================================

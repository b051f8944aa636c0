-------------------------- MODULE WorkflowPlanChecks --------------------------
(***************************************************************************)
(* What the plans promise, over bounded inputs.                            *)
(***************************************************************************)
EXTENDS WorkflowPlan

CONSTANT Asked   \* the workload requests that are planned

Tokens == UNION {[1..n -> 0..3] : n \in 0..4}

Budgets == [auto : 0..2, hard : 0..3]

Order == <<"auto_execute", "pending_approval", "reject">>
Strictness(decision) == CHOOSE i \in DOMAIN Order : Order[i] = decision

-------------------------------------------------------------------------------

\* _plan_chunks loses no item and keeps their order; a chunk is over the budget only
\* when it is one item, and is not closed while the next item fits.
ASSUME PackingIsExact ==
  \A items \in Tokens, limit \in 1..4 :
    LET packed == Packed(items, limit)
    IN /\ FlattenSeq(packed) = [i \in DOMAIN items |-> Larger(1, items[i])]
       /\ \A i \in DOMAIN packed : Len(packed[i]) > 1 => Total(packed[i]) <= limit
       /\ \A i \in 1..(Len(packed) - 1) : Total(packed[i]) + packed[i + 1][1] > limit

\* approval_decision: what costs more is not judged more leniently, and nothing that
\* is not rejected costs more than either cap, unless the caller's limit is 0.
ASSUME CapsBind ==
  \A b \in Budgets, limit \in {Unset} \cup 0..3, p \in 0..4, q \in 0..4 :
    LET D(p95) == Approval(p95, b, limit).decision
    IN /\ p <= q => Strictness(D(p)) <= Strictness(D(q))
       /\ D(p) # "reject" /\ limit # 0 => (b.hard # 0 => p <= b.hard) /\ (limit # Unset => p <= limit)

\* A limit of 0 takes the hard cap of the budget off.
ASSUME ZeroLimitLiftsCap ==
  \A b \in Budgets, p \in 0..4 : Approval(p, b, 0).decision # "reject"

\* plan_workload: exactly one option is best, no other is cheaper or, at its cost,
\* faster.
ASSUME BestIsLeast ==
  \A q \in Asked :
    Options(q) # {} =>
      /\ Cardinality(Best(q)) = 1
      /\ \A p \in Best(q), o \in Options(q) :
           \/ OptionCost(q, p) < OptionCost(q, o)
           \/ OptionCost(q, p) = OptionCost(q, o) /\ OptionSeconds(q, p) <= OptionSeconds(q, o)

\* plan_workload: what may run at once has a provider, whose cost is within what its
\* budget approves, and a runtime that can run it now.
ASSUME ExecutedIsAffordable ==
  \A q \in Asked :
    WorkloadDecision(q) = "auto_execute" =>
      \E p \in Best(q) :
        /\ Requirements(q, p) \notin Refusing
        /\ BudgetOf(q).auto # 0 => OptionCost(q, p) <= BudgetOf(q).auto

\* evaluate_workload_requirements: what runs now runs on a proven runtime with a
\* verified image and secrets it may have; a diarized transcription is never
\* judged by the rule of a plain one.
ASSUME ReadyIsProven ==
  \A q \in Asked, p \in DOMAIN Catalog \cup {"auto"} :
    Requirements(q, p) = "can_run_now" =>
      LET place == <<IF p = "auto" THEN "modal" ELSE p, ProfileOf(q)>>
          runtime == Runtimes[place]
      IN /\ runtime.probe \in Passed \cup {Unset} /\ runtime.image.verified
         /\ q.diarize => "pyannote" \in runtime.supports /\ <<place[1], q.jobType, "hf_token">> \in Authorized

\* plan_workload and the workflow its adapter makes need not agree: without a provider
\* the workflow is estimated for, and its quote names, a provider that does not exist.
ASSUME AdapterQuotesAuto ==
  \A q \in Asked :
    q.provider = Unset /\ q.kind = "transcription.whisper" =>
      PlanQuote(WorkflowOf(q)).provider \notin DOMAIN Catalog

===============================================================================

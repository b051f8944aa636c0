--------------------------- MODULE SubmitGatesProps ---------------------------
(***************************************************************************)
(* What the gates promise, given that they are asked at once by several    *)
(* threads and that what they are answered from changes.                   *)
(***************************************************************************)
EXTENDS SubmitGates

\* What quota_check counts of the jobs that reached their provider: each of them once,
\* however often it was retried, and none that was cancelled since.
Charged(s) == RuntimeCosts({j \in charged : Request[j].source = s})

\* What the submissions of a source cost that were between their look at the quota and
\* their provider at some time while j was.
Overlap(j, s) == RuntimeCosts({i \in beside[j] : Request[i].source = s})

ReachesProvider(j) == rec[j].status # "active" /\ rec'[j].status = "active"

\* Whenever a job reaches its provider, the jobs of its source that did are charged at
\* most the budget and what the submissions cost that overlapped with this one, which
\* its quota_check may not have seen: ended jobs go on counting, and a submission that
\* met no other never overruns.
OverrunByOverlap ==
  [][\A j \in Asks : LET s == Request[j].source IN
       ReachesProvider(j) /\ Budget[s] # 0 => Charged(s)' <= Budget[s] + Overlap(j, s)]_gateVars

\* A job that needs a backend reaches a provider whose runtime is not proven only when
\* a contract probe was recorded while the cost guard was asked or the slot reserved:
\* never on the plan stamped on it when it was created, or in an earlier attempt.
UnprovenOnlyIfOvertaken ==
  [][\A j \in Asks : ReachesProvider(j) /\ Request[j].backends # {} /\ ~Request[j].isProbe =>
       Proven(rec'[j].provider) \/ j \in overtaken]_gateVars

\* A job whose caller left the provider open is never refused for a conflict with
\* its own quote.
QuotedRunsWhereQuoted ==
  \A j \in Asks : Request[j].asked = AnyProvider => ~rec[j].mismatch

-------------------------------------------------------------------------------
(* Liveness *)

\* The worker polls and finishes its pass, providers answer, and time passes, so
\* that what was recorded leaves the circuit's window; a provider that is
\* unavailable becomes available again, and in the end stays so.
WorkerSteps ==
  \/ \E j \in Queued : \/ PassStarts(j) \/ PassSubmits(j) \/ CheckQuota(j) \/ PlanWorkspace(j)
                      \/ CostGuard(j) \/ Finish(j)
  \/ PassReplans

GatesFairness ==
  /\ WF_gateVars(WorkerSteps)
  /\ WF_gateVars(\E j \in Asks \ Queued : CheckQuota(j) \/ PlanWorkspace(j) \/ CostGuard(j) \/ Reserve(j) \/ Finish(j))
  /\ WF_gateVars(Expire)
  /\ WF_gateVars(\E p \in Providers : HealthReturns(p))

FairGatesSpec == GatesSpec /\ GatesFairness

HealthStays == <>[](up = Providers)

\* A job is queued for ever neither behind a circuit that its own earlier failures
\* opened nor behind another job whose routing raises: the failures leave the
\* window, though with no new job the circuit sees nothing but them.
QueuedJobsSettle ==
  HealthStays =>
    \A j \in Queued :
      (\A i \in Queued : Request[i].asked # AnyProvider \/ \E p \in Names(i) : Candidate(i, p)) =>
        (rec[j].status = "queued" ~> rec[j].status \in {"succeeded", "failed", "cancelled"})

===============================================================================

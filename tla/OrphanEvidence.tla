---------------------------- MODULE OrphanEvidence ----------------------------
(***************************************************************************)
(* What the orphan inventory knows of a job and of a resource: the phases  *)
(* a job's processes timed, the cleanup they record, what the provider     *)
(* says of the resource; and the reaper of the providers that have no      *)
(* lifecycle of their own in the inventory.                                *)
(***************************************************************************)
EXTENDS Integers, Sequences, FiniteSets, SequencesExt

CONSTANT NoJobFile   \* no job, or no id

TerminalStatuses == {"succeeded", "failed", "cancelled"}

-------------------------------------------------------------------------------
(* The phases of a job *)

TimedPhases ==
  {"cancelled", "cleaning_up", "collecting_artifacts", "failed", "image_materialization", "planned", "received",
   "reserving_workspace", "running_worker", "staging_input", "starting_worker", "succeeded", "validated", "verifying"}

TimedEvents(times, attempts, providers) ==
  [phase : TimedPhases, event : {"enter", "exit", "instant"}, at : times, attempt : attempts, provider : providers]

\* mark_phase: the timeline is only appended to.
Mark(events, e) == Append(events, e)

\* ensure_received: once, at the time the job was created.
MarkReceived(events, created, provider) ==
  IF \E i \in DOMAIN events : events[i].phase = "received" THEN events
  ELSE Mark(events, [phase |-> "received", event |-> "instant", at |-> created, attempt |-> 1, provider |-> provider])

Greatest(S) == CHOOSE x \in S : \A y \in S : y <= x
Least(S) == CHOOSE x \in S : \A y \in S : x <= y

Span(e, from) ==
  [phase |-> e.phase, attempt |-> e.attempt, from |-> from, to |-> e.at,
   duration |-> IF e.at > from THEN e.at - from ELSE 0]

\* timing_summary: an exit closes the last enter of its phase and attempt that is
\* open; without one it is a span of no length, as an instant is.
Walk(events) ==
  FoldLeft(
    LAMBDA walk, i :
      LET e == events[i]
          open == {k \in walk.open : events[k].phase = e.phase /\ events[k].attempt = e.attempt}
          closing == e.event = "exit" /\ open # {}
      IN IF e.event = "enter" THEN [walk EXCEPT !.open = @ \cup {i}]
         ELSE [open |-> IF closing THEN walk.open \ {Greatest(open)} ELSE walk.open,
               spans |-> Append(walk.spans, Span(e, IF closing THEN events[Greatest(open)].at ELSE e.at))],
    [open |-> {}, spans |-> <<>>], [i \in DOMAIN events |-> i])

OpenPhases(events) == {<<events[i].phase, events[i].attempt>> : i \in Walk(events).open}

Measured(events) == FoldLeft(LAMBDA sum, span : sum + span.duration, 0, Walk(events).spans)

Elapsed(events) ==
  LET at == {events[i].at : i \in DOMAIN events} IN IF at = {} THEN 0 ELSE Greatest(at) - Least(at)

UnknownGap(events) == IF Elapsed(events) > Measured(events) THEN Elapsed(events) - Measured(events) ELSE 0

\* _cleanup_evidence: of any attempt, at any provider.
CleanupMarks(events, event) == {i \in DOMAIN events : events[i].phase = "cleaning_up" /\ events[i].event = event}
EnterSeen(events) == CleanupMarks(events, "enter") # {}
ExitSeen(events) == CleanupMarks(events, "exit") # {}
CleanupSeen(events) == EnterSeen(events) /\ ExitSeen(events)

-------------------------------------------------------------------------------
(* A Vast.ai instance: two reports of its state, either of which may be empty *)

Inactive == {"deleted", "destroyed", "terminated", "stopped", "exited"}
Stopping == {"stopping", "exiting"}
Provisioning == {"pending", "provisioning", "starting", "loading", "unloaded"}
Serving == {"running", "loaded"}

\* _is_vast_instance_active
ActiveStates(states) == states \cap Inactive = {}

\* _vast_lifecycle_phase
LifecyclePhase(states) ==
  CASE states \cap Inactive # {}     -> "terminal"
    [] states \cap Inactive = {} /\ states \cap Stopping # {} -> "stopping"
    [] states \cap (Inactive \cup Stopping) = {} /\ states \cap Provisioning # {} -> "provisioning"
    [] states \cap (Inactive \cup Stopping \cup Provisioning) = {} /\ states \cap Serving # {} -> "running"
    [] OTHER -> "unknown"

\* vast_orphan_inventory: why an instance that carries a job's label is a candidate.
InstanceReason(file, job, id) ==
  CASE file = "unreadable" -> "job_unreadable"
    [] file = "missing" -> "job_missing"
    [] file = "read" /\ job.status \in TerminalStatuses -> "terminal_job_active_instance"
    [] file = "read" /\ job.status \notin TerminalStatuses /\ NoJobFile \notin {job.pid, id} /\ job.pid # id ->
         "provider_job_id_mismatch"
    [] OTHER -> ""

\* _reaper_plan_for_candidate: the first thing that keeps an instance from being reaped.
KeepsInstance(states, file, job, id) ==
  CASE InstanceReason(file, job, id) # "terminal_job_active_instance" -> "report_only_reason"
    [] InstanceReason(file, job, id) = "terminal_job_active_instance" ->
         IF LifecyclePhase(states) # "running" THEN "instance_lifecycle_not_destroyable"
         ELSE IF id = NoJobFile \/ job.pid # id THEN "provider_job_id_not_exact_match"
         ELSE IF ~CleanupSeen(job.events) THEN "missing_cleanup_evidence"
         ELSE ""

-------------------------------------------------------------------------------
(* The other providers: what their guard finds billable *)

\* _generic_orphan_inventory keeps the last of the listed jobs with the resource's id,
\* which is the one written longest ago.
JobOf(jobs, provider, id) ==
  LET known == {i \in DOMAIN jobs : jobs[i].provider = provider /\ jobs[i].pid # NoJobFile /\ jobs[i].pid = id}
  IN IF known = {} THEN NoJobFile ELSE jobs[Greatest(known)]

ResourceReason(job) ==
  IF job # NoJobFile /\ job.status \in TerminalStatuses
  THEN "terminal_job_active_resource" ELSE "unmatched_billable_resource"

\* _generic_reaper_plan_for_candidate: the exit of a cleanup is enough.
Reapable(provider, resource, jobs) ==
  LET job == JobOf(jobs, provider, resource.id)
  IN /\ ResourceReason(job) = "terminal_job_active_resource"
     /\ provider = "runpod" /\ resource.type \in {"pod", "resource"}
     /\ ExitSeen(job.events)

\* _apply_generic_reaper_action: what came of an action, by what its principal, its
\* preflight and the guards before and after it answered.
Applied(o) ==
  CASE ~o.principal \/ ~o.preflight \/ o.before # "found" -> "ineligible"
    [] o.principal /\ o.preflight /\ o.before = "found" ->
         IF o.stopped /\ o.after = "gone" THEN "destroyed" ELSE "destroy_failed"

\* _generic_orphan_reaper, over what would come of each action that is eligible: only
\* what was confirmed counts towards the limit.
ReaperRun(outcomes, limit) ==
  FoldLeft(
    LAMBDA run, o :
      IF run.destroyed >= limit THEN [run EXCEPT !.skipped = @ + 1]
      ELSE CASE Applied(o) = "destroyed" -> [run EXCEPT !.destroyed = @ + 1, !.called = @ + 1]
             [] Applied(o) = "ineligible" -> [run EXCEPT !.skipped = @ + 1]
             [] Applied(o) = "destroy_failed" ->
                  [run EXCEPT !.skipped = @ + 1, !.called = @ + 1, !.ok = FALSE],
    [destroyed |-> 0, skipped |-> 0, called |-> 0, ok |-> TRUE], outcomes)

===============================================================================

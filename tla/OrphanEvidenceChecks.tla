------------------------- MODULE OrphanEvidenceChecks -------------------------
(***************************************************************************)
(* What the evidence of the orphan inventory is worth, over bounded        *)
(* timelines and resources.                                                *)
(***************************************************************************)
EXTENDS OrphanEvidence

\* What runner.submit_job times at any provider, and what only the Vast lanes time.
RunnerMarks ==
  {e \in TimedEvents({0, 1}, {1}, {"runpod"}) :
     e.phase \in {"validated", "verifying", "failed"} /\ (e.phase = "failed") = (e.event = "instant")}
CleanupMark == {e \in TimedEvents({0, 1}, {1}, {"vast"}) : e.phase = "cleaning_up" /\ e.event # "instant"}

Timelines == UNION {[1..n -> RunnerMarks \cup CleanupMark] : n \in 0..3}

\* Two phases, either of which a crash may cut short.
Cut ==
  UNION {[1..n -> {e \in TimedEvents({0, 1}, {1}, {"vast"}) :
                     e.phase \in {"running_worker", "collecting_artifacts"} /\ e.event # "instant"}] : n \in 0..4}

Forward(events) == \A i, k \in DOMAIN events : i < k => events[i].at <= events[k].at

\* What is left is left at once: no phase runs inside another.
Sequential(events) ==
  \A i \in DOMAIN events :
    events[i].event = "exit" => i > 1 /\ events[i - 1].event = "enter" /\ events[i - 1].phase = events[i].phase

Job(events, status) == [provider |-> "runpod", pid |-> "pod", status |-> status, events |-> events]

Outcomes == [principal : BOOLEAN, preflight : {TRUE}, before : {"found", "not_found", "guard_failed"}, stopped : BOOLEAN,
             after : {"gone", "still_billable", "guard_failed"}]

-------------------------------------------------------------------------------

\* timing_summary: with a clock that runs forward and one phase at a time, what is
\* measured and the unknown gap add up to what elapsed, whatever was cut short.
ASSUME TimesAddUp ==
  \A tail \in Timelines \cup Cut :
    LET events == MarkReceived(<<>>, 0, "runpod") \o tail
    IN Forward(events) /\ Sequential(events) => Measured(events) + UnknownGap(events) = Elapsed(events)

\* A phase that a crash left open stays open for ever: every attempt is timed as the
\* first, and the exit of the next closes the later enter.
ASSUME CrashLeavesPhaseOpen ==
  \A events \in {e \in Cut : Len(e) = 3} :
    events[1].event = "enter" /\ Sequential(events) /\ events[2].phase = events[1].phase /\ events[2].event = "enter"
      => <<events[1].phase, 1>> \in OpenPhases(events)

\* _generic_reaper_plan_for_candidate: only Vast times a cleanup, so a pod of RunPod is
\* reapable only on the cleanup of an earlier attempt that ran at Vast.
ASSUME PodReapedOnForeignCleanup ==
  \A events \in Timelines, status \in TerminalStatuses \cup {"running"} :
    Reapable("runpod", [id |-> "pod", type |-> "pod"], <<Job(events, status)>>) =>
      \E i \in DOMAIN events : events[i].phase = "cleaning_up" /\ events[i].provider = "vast"

\* An instance is reaped only while both its reports let it run, on a record that
\* names it; an empty report is active but not running, and is never reaped.
ASSUME ReapedInstanceRuns ==
  \A states \in SUBSET {"running", "stopped", "loading", "stopping"}, file \in {"read", "missing", "unreadable"},
     status \in TerminalStatuses \cup {"running"}, pid \in {"i1", "i2", NoJobFile}, id \in {"i1", NoJobFile},
     events \in {<<>>} \cup {<<e, f>> : e, f \in CleanupMark} :
    KeepsInstance(states, file, [status |-> status, pid |-> pid, events |-> events], id) = "" =>
      /\ ActiveStates(states) /\ states = {"running"} /\ pid = id /\ id # NoJobFile
      /\ file = "read" /\ status \in TerminalStatuses /\ CleanupSeen(events)

\* A run destroys no more than its limit and reports ok only when everything it called
\* for is gone.
ASSUME ReaperCountsConfirmed ==
  \A outcomes \in UNION {[1..n -> Outcomes] : n \in 0..2}, limit \in 0..2 :
    LET run == ReaperRun(outcomes, limit)
    IN /\ run.destroyed <= limit /\ run.destroyed + run.skipped = Len(outcomes)
       /\ run.ok <=> run.called = run.destroyed

\* But it stops more than its limit when what it stops stays billable, as a stopped
\* pod does.
ASSUME UnconfirmedIsUnlimited ==
  \E outcomes \in [1..2 -> Outcomes] : ReaperRun(outcomes, 1).called = 2 /\ ReaperRun(outcomes, 1).destroyed = 0

===============================================================================

------------------------------ MODULE VastLease -------------------------------
(***************************************************************************)
(* The Vast.ai instances of direct-instance jobs: who creates them, finds  *)
(* them again, destroys them, and what is left of them.  VastProvider      *)
(* creates an instance for a job, labels it with the job's id and destroys *)
(* in a finally block whatever it believes the job created; the cost guard *)
(* looks at the whole account before and after; the orphan reaper destroys *)
(* what a finished job left behind.                                        *)
(*                                                                         *)
(* Every call to the provider can fail.  A failed listing is an empty one  *)
(* (VastProvider._instances); a create whose answer is lost has created an *)
(* instance nobody knows the id of.                                        *)
(***************************************************************************)
EXTENDS Integers, FiniteSets

CONSTANTS
  Jobs,         \* jobs the router sends to Vast
  NoJob,        \* no job, or a label that is not ours
  Staged,       \* those of job_type asr, which try several offers
  DirectJobs,   \* those submitted directly, not through the queue
  Workers,      \* processes that run work_once
  Clients,      \* processes that submit directly
  Ids,          \* instance ids of the account; the provider counts them up
  MaxStartups,  \* max_startup_attempts of a staged job
  MaxRetries,   \* bound on the retries of each job by an operator
  MaxFaults     \* bound on what goes wrong: calls without an answer or without
                \* an effect, crashes, jobs grown stale or retried, instances of
                \* others

ASSUME LeaseAssumption ==
  /\ NoJob \notin Jobs
  /\ Staged \subseteq Jobs /\ DirectJobs \subseteq Jobs
  /\ Workers \cap Clients = {}
  /\ Ids \subseteq Nat \ {0} /\ IsFiniteSet(Ids)
  /\ MaxStartups \in Nat \ {0}
  /\ MaxRetries \in [Jobs -> Nat] /\ MaxFaults \in Nat

Callers == Workers \cup Clients

NoId == 0  \* an empty provider_job_id

VARIABLES
  inst,     \* the account: state and label of every instance
  rec,      \* jobs/*.json, the fields that matter here
  wal,      \* the furthest submission record of each job in the WAL
  run,      \* what each process running submit_job holds in memory
  reaper,   \* the orphan reaper: where it is, and with which instance
  retries,  \* retries of each job so far
  faults    \* what went wrong so far

leaseVars == <<inst, rec, wal, run, reaper, retries, faults>>

Instance == [state : {"unused", "provisioning", "running", "gone"},
             label : Jobs \cup {NoJob}]

\* cleanup is what the cleaning_up events of timing_v2 amount to: none, an enter,
\* an enter and an exit.  No operation removes events.
Record == [status  : {"new", "queued", "starting", "running", "succeeded", "failed"},
           pid     : Ids \cup {NoId},
           error   : BOOLEAN,
           cleanup : {"none", "entered", "exited"}]

Terminal == {"succeeded", "failed"}

Phases == {"idle", "guard", "submit", "reserve", "create", "detect", "boot",
           "work", "undo", "cleanup", "sweep", "destroy", "postguard"}

\* A process: where it is, the job and its copy of the record, the listing it
\* made before creating (before), the ids it believes it created, in this startup
\* (batch) and in all (found), those still to destroy (todo), the startups tried,
\* and whether every destroy was confirmed (tidy).
\* made and swept are history: what it really created, and whether the listing of
\* its cleanup answered.
Process == [pc : Phases, job : Jobs \cup {NoJob}, copy : Record,
            before : SUBSET Ids, batch : SUBSET Ids, found : SUBSET Ids,
            todo : SUBSET Ids, tried : 0..MaxStartups, tidy : BOOLEAN,
            made : SUBSET Ids, swept : BOOLEAN]

LeaseTypeOK ==
  /\ inst \in [Ids -> Instance]
  /\ rec \in [Jobs -> Record]
  /\ wal \in [Jobs -> {"none", "submitted", "final"}]
  /\ run \in [Callers -> Process]
  /\ reaper \in [pc : {"idle", "planned", "fresh"}, id : Ids \cup {NoId}]
  /\ retries \in [Jobs -> Nat]
  /\ faults \in 0..MaxFaults

NewRecord(j) ==
  [status |-> IF j \in DirectJobs THEN "new" ELSE "queued",
   pid |-> NoId, error |-> FALSE, cleanup |-> "none"]

Idle == [pc |-> "idle", job |-> NoJob,
         copy |-> [status |-> "new", pid |-> NoId, error |-> FALSE, cleanup |-> "none"],
         before |-> {}, batch |-> {}, found |-> {}, todo |-> {}, tried |-> 0,
         tidy |-> TRUE, made |-> {}, swept |-> FALSE]

Init ==
  /\ inst = [i \in Ids |-> [state |-> "unused", label |-> NoJob]]
  /\ rec = [j \in Jobs |-> NewRecord(j)]
  /\ wal = [j \in Jobs |-> "none"]
  /\ run = [c \in Callers |-> Idle]
  /\ reaper = [pc |-> "idle", id |-> NoId]
  /\ retries = [j \in Jobs |-> 0]
  /\ faults = 0

-------------------------------------------------------------------------------
(* Reading the account and the store *)

\* The id of the next instance created in the account
NextId(i) == inst[i].state = "unused" /\ \A k \in Ids : k < i => inst[k].state # "unused"

Live(i) == inst[i].state \in {"provisioning", "running"}

Alive == {i \in Ids : Live(i)}

\* The account once i is destroyed, if it is there
Without(i) == [inst EXCEPT ![i] = IF Live(i) THEN [state |-> "gone", label |-> NoJob] ELSE @]

\* _instance_ids, when the listing answers or not
Listed(answered) == IF answered THEN Alive ELSE {}

\* Mutant: only what is running already is looked at.
LabelledRunning(j, answered) ==
  {i \in Listed(answered) : inst[i].label = j /\ inst[i].state = "running"}

\* _instances_by_label
Labelled(j, answered) == {i \in Listed(answered) : inst[i].label = j}

\* sorted(created_ids)[0]
First(S) == CHOOSE i \in S : \A k \in S : i <= k

\* A submission the WAL has open, which stops every dispatch of a worker.
Ambiguous(j) == wal[j] = "submitted" /\ rec[j].status \notin Terminal

Holds(c, phase) == run[c].pc = phase

\* cost > 0, or a cur_state other than deleted: an instance that is there has one or
\* the other, and one that is gone may go on being listed as deleted.
Billable(i) == inst[i].state \notin {"unused", "gone"}

\* Mutant: an instance that is still provisioning is not billable.
GuardBlocksRunning(healthy, answered) ==
  ~healthy \/ (answered /\ \E i \in Ids : inst[i].state = "running")

\* cost_guard blocks when the health check fails; after it, a listing that fails adds
\* no resource, and the guard passes.
GuardBlocks(healthy, answered) == ~healthy \/ (answered /\ \E i \in Ids : Billable(i))

-------------------------------------------------------------------------------
(* Moving on *)

\* store.save of the process's copy, changed to r
Save(c, r) == rec' = [rec EXCEPT ![run[c].job] = r]

Failed(r) == [r EXCEPT !.status = "failed", !.error = TRUE]

\* Whether something goes wrong with a step.
Counted(wrong) ==
  /\ wrong => faults < MaxFaults
  /\ faults' = IF wrong THEN faults + 1 ELSE faults

\* A step of a process of which something may go wrong.
Steps(wrong) == Counted(wrong) /\ UNCHANGED <<reaper, retries>>

Settled == UNCHANGED <<reaper, retries, faults>>

\* The process's next memory is p; nothing else of the processes changes.
Becomes(c, p) == run' = [run EXCEPT ![c] = p]

SaveAndBecome(c, r, p) == Save(c, r) /\ Becomes(c, [p EXCEPT !.copy = r])

-------------------------------------------------------------------------------
(* submit_job around the provider *)

\* The process takes job j, with r as its copy of the record.
Takes(c, j, r) ==
  /\ Holds(c, "idle")
  /\ Becomes(c, [Idle EXCEPT !.pc = "guard", !.job = j, !.copy = r])
  /\ UNCHANGED <<inst, wal>> /\ Settled

\* work_once: the dispatch of a queued job, unless the WAL is ambiguous
Dispatch(c, j) ==
  /\ c \in Workers /\ rec[j].status = "queued"
  /\ \A k \in Jobs : ~Ambiguous(k)
  /\ LET r == [rec[j] EXCEPT !.status = "starting"]
     IN rec' = [rec EXCEPT ![j] = r] /\ Takes(c, j, r)

\* A direct submission: nothing is stored before the guard.
SubmitDirectly(c, j) ==
  /\ c \in Clients /\ rec[j].status = "new" /\ \A d \in Clients : run[d].job # j
  /\ Takes(c, j, rec[j])
  /\ UNCHANGED rec

\* The pre-submit cost guard finds something billable, or no health: the job fails
\* before the provider and before the WAL.
GuardRefuses(c, healthy) ==
  /\ Holds(c, "guard") /\ GuardBlocks(healthy, TRUE)
  /\ Save(c, Failed(run[c].copy))
  /\ Becomes(c, Idle)
  /\ UNCHANGED <<inst, wal>> /\ Steps(~healthy)

\* The guard passes, because the account is empty or because it did not answer.  A
\* direct submission is stored with its slot; the submission is logged.
GuardPasses(c, answered) ==
  /\ Holds(c, "guard") /\ ~GuardBlocks(TRUE, answered)
  /\ LET j == run[c].job
         r == [run[c].copy EXCEPT !.status = "starting"]
     IN /\ rec' = IF c \in Clients THEN [rec EXCEPT ![j] = r] ELSE rec
        /\ wal' = [wal EXCEPT ![j] = IF @ = "final" THEN @ ELSE "submitted"]
        /\ Becomes(c, [run[c] EXCEPT !.pc = "submit", !.copy = r])
  /\ UNCHANGED inst /\ Steps(~answered)

\* After the provider: the post-submit guard fails a job that has no error yet,
\* the record is saved and the WAL closed.
PostGuard(c, healthy, answered) ==
  /\ Holds(c, "postguard")
  /\ LET old == run[c].copy
     IN Save(c, IF GuardBlocks(healthy, answered) /\ ~old.error THEN Failed(old) ELSE old)
  /\ Becomes(c, Idle)
  /\ wal' = [wal EXCEPT ![run[c].job] = "final"]
  /\ UNCHANGED inst /\ Steps(~healthy \/ ~answered)

-------------------------------------------------------------------------------
(* VastProvider.submit and _submit_direct_instance_asr *)

\* The provider is not allowed to, or cannot, run the job.
Refuse(c) ==
  /\ Holds(c, "submit")
  /\ SaveAndBecome(c, Failed([run[c].copy EXCEPT !.pid = NoId]),
                   [run[c] EXCEPT !.pc = "postguard"])
  /\ UNCHANGED <<inst, wal>> /\ Settled

Begin(c) ==
  /\ Holds(c, "submit")
  /\ SaveAndBecome(c, [run[c].copy EXCEPT !.pid = NoId, !.status = "starting"],
                   [run[c] EXCEPT !.pc = "reserve"])
  /\ UNCHANGED <<inst, wal>> /\ Settled

\* An exception of the try block: the error is kept, and the finally block runs.
Raise(c) ==
  /\ SaveAndBecome(c, [run[c].copy EXCEPT !.error = TRUE],
                   [run[c] EXCEPT !.pc = "cleanup", !.before = {}])
  /\ UNCHANGED <<inst, wal>> /\ Settled

\* An exception of one startup, in which the process has come to know p: that of a
\* staged job is undone, not raised.
FailsKnowing(c, p) ==
  IF p.job \in Staged
  THEN /\ Becomes(c, [p EXCEPT !.pc = "undo", !.todo = @ \cup p.batch, !.before = {}])
       /\ UNCHANGED rec
  ELSE SaveAndBecome(c, [p.copy EXCEPT !.error = TRUE],
                     [p EXCEPT !.pc = "cleanup", !.before = {}])

StartupFails(c) == FailsKnowing(c, run[c]) /\ UNCHANGED <<inst, wal>> /\ Settled

\* No offer (left) within the budget and the deadline, or an input, an image
\* contract or a token that is missing
NoOffer(c) == Holds(c, "reserve") /\ Raise(c)

\* before_ids, just before the instance is created
ListBefore(c, answered) ==
  /\ Holds(c, "reserve")
  /\ Becomes(c, [run[c] EXCEPT !.pc = "create", !.before = Listed(answered),
                               !.batch = {}])
  /\ UNCHANGED <<inst, rec, wal>> /\ Steps(~answered)

\* The create is refused, or the listing before it raised.
CreateRefused(c) == Holds(c, "create") /\ StartupFails(c)

\* The instance exists from now on.  The answer names it, or names nothing.
Create(c, i, named) ==
  /\ Holds(c, "create") /\ NextId(i)
  /\ inst' = [inst EXCEPT ![i] = [state |-> "provisioning", label |-> run[c].job]]
  /\ LET known == IF named THEN {i} ELSE {}
     IN Becomes(c, [run[c] EXCEPT !.pc = "detect", !.batch = known,
                                  !.found = @ \cup known, !.made = @ \cup {i}])
  /\ UNCHANGED <<rec, wal>> /\ Steps(~named)

\* The instance exists, but the create timed out.
CreateLost(c, i) ==
  /\ Holds(c, "create") /\ NextId(i)
  /\ inst' = [inst EXCEPT ![i] = [state |-> "provisioning", label |-> run[c].job]]
  /\ FailsKnowing(c, [run[c] EXCEPT !.made = @ \cup {i}])
  /\ UNCHANGED wal /\ Steps(TRUE)

\* Two listings per poll, one for the label and one for what is new: each may
\* fail.  The first id in order is the job's, the others are known as created.
Detect(c, byLabel, byDelta) ==
  /\ Holds(c, "detect")
  /\ LET p == run[c]
         batch == p.batch \cup Labelled(p.job, byLabel)
                          \cup (Listed(byDelta) \ p.before)
     IN /\ batch # {}
        /\ SaveAndBecome(c, [p.copy EXCEPT !.pid = First(batch)],
                         [p EXCEPT !.pc = "boot", !.batch = batch, !.before = {},
                                   !.found = @ \cup batch])
  /\ UNCHANGED <<inst, wal>> /\ Steps(~byLabel \/ ~byDelta)

\* One of the two listings raises, the second when labelled: whatever the create named
\* and the first has shown is known, to a staged job only for its undo.
DetectRaises(c, labelled) ==
  /\ Holds(c, "detect")
  /\ LET p == run[c]
         seen == Labelled(p.job, labelled)
     IN FailsKnowing(c, [p EXCEPT !.batch = @ \cup seen,
                                  !.found = IF p.job \in Staged THEN @ ELSE @ \cup seen])
  /\ UNCHANGED <<inst, wal>> /\ Steps(TRUE)

\* Nothing is found until the deadline.
NotDetected(c) == Holds(c, "detect") /\ run[c].batch = {} /\ StartupFails(c)

\* ssh never answers.
BootFails(c) == Holds(c, "boot") /\ run[c].job \in Staged /\ StartupFails(c)

\* The instance the record names answers, as only a running one does.
Answers(c) == \E i \in Ids : i = run[c].copy.pid /\ inst[i].state = "running"

\* ssh answers; a job that is not staged goes on at once.
Boot(c) ==
  /\ Holds(c, "boot")
  /\ run[c].job \in Staged => Answers(c)
  /\ SaveAndBecome(c, [run[c].copy EXCEPT !.status = "running"],
                   [run[c] EXCEPT !.pc = "work", !.batch = {}, !.tried = 0])
  /\ UNCHANGED <<inst, wal>> /\ Settled

\* The marker is in the logs, or the commands over ssh have come back.
WorkDone(c) ==
  /\ Holds(c, "work") /\ Answers(c)
  /\ Becomes(c, [run[c] EXCEPT !.pc = "cleanup"])
  /\ UNCHANGED <<inst, rec, wal>> /\ Settled

WorkFails(c) == Holds(c, "work") /\ Raise(c)

\* Destroy calls go through todo in order; the call may take effect or not, and
\* only a call that did may be confirmed.
DestroyNext(c, effect, confirmed) ==
  /\ run[c].todo # {}
  /\ confirmed => effect
  /\ LET i == First(run[c].todo)
     IN /\ inst' = IF effect THEN Without(i) ELSE inst
        /\ Becomes(c, [run[c] EXCEPT !.todo = @ \ {i},
                                     !.tidy = @ /\ (confirmed \/ Holds(c, "undo"))])
  /\ UNCHANGED <<rec, wal>> /\ Steps(~confirmed)

\* A failed startup destroys what it found, whatever comes of it.
UndoStartup(c, effect) ==
  Holds(c, "undo") /\ DestroyNext(c, effect, effect)

NextStartup(c) ==
  /\ Holds(c, "undo") /\ run[c].todo = {}
  /\ LET p == [run[c] EXCEPT !.tried = @ + 1, !.batch = {}]
     IN Becomes(c, IF p.tried < MaxStartups
                   THEN [p EXCEPT !.pc = "reserve"]
                   ELSE [p EXCEPT !.pc = "cleanup", !.copy.error = TRUE])
  /\ UNCHANGED <<inst, rec, wal>> /\ Settled

\* The finally block enters the cleaning_up phase.
EnterCleanup(c) ==
  /\ Holds(c, "cleanup")
  /\ SaveAndBecome(c, [run[c].copy EXCEPT !.cleanup = IF @ = "none" THEN "entered" ELSE @],
                   [run[c] EXCEPT !.pc = "sweep", !.batch = {}, !.before = {},
                                  !.tried = 0])
  /\ UNCHANGED <<inst, wal>> /\ Settled

\* What carries the job's label is the job's, too.
Sweep(c, answered) ==
  /\ Holds(c, "sweep")
  /\ LET all == run[c].found \cup Labelled(run[c].job, answered)
     IN Becomes(c, [run[c] EXCEPT !.pc = "destroy", !.found = all, !.todo = all,
                                  !.swept = answered])
  /\ UNCHANGED <<inst, rec, wal>> /\ Steps(~answered)

\* The listing of the finally block raises: the rest of the block is not run, and
\* submit_job fails the job.
SweepRaises(c) ==
  /\ Holds(c, "sweep")
  /\ SaveAndBecome(c, Failed(run[c].copy), [run[c] EXCEPT !.pc = "postguard", !.found = {}])
  /\ UNCHANGED <<inst, wal>> /\ Steps(TRUE)

CleanupDestroy(c, effect, confirmed) ==
  Holds(c, "destroy") /\ DestroyNext(c, effect, confirmed)

\* The phase ends and the job's status follows from its error and its artifacts.
Finish(c, verified) ==
  /\ Holds(c, "destroy") /\ run[c].todo = {}
  /\ LET error == run[c].copy.error \/ ~run[c].tidy
         ok == verified /\ ~error
         r == [run[c].copy EXCEPT !.error = error, !.cleanup = "exited",
                                  !.status = IF ok THEN "succeeded" ELSE "failed"]
     IN SaveAndBecome(c, r, [run[c] EXCEPT !.pc = "postguard", !.found = {}])
  /\ UNCHANGED <<inst, wal>> /\ Settled

-------------------------------------------------------------------------------
(* What happens around the jobs *)

\* The process dies with all it knows of its instances, or its cost guard raises.
Crash(c) ==
  /\ ~Holds(c, "idle")
  /\ Becomes(c, Idle)
  /\ UNCHANGED <<inst, rec, wal>> /\ Steps(TRUE)

\* Mutant: a status that does not exist.
RecoverStaleMisnamed(j) ==
  /\ rec[j].status \in {"starting", "running"}
  /\ rec' = [rec EXCEPT ![j].status = "stale"]
  /\ UNCHANGED <<inst, wal, run>> /\ Steps(TRUE)

\* recover_stale_jobs, at any time an active job may have become too old
RecoverStale(j) ==
  /\ rec[j].status \in {"starting", "running"}
  /\ rec' = [rec EXCEPT ![j] = Failed(@)]
  /\ UNCHANGED <<inst, wal, run>> /\ Steps(TRUE)

\* retry_job keeps provider_job_id and metadata.timing_v2.
Retry(j) ==
  /\ rec[j].status = "failed" /\ retries[j] < MaxRetries[j]
  /\ retries' = [retries EXCEPT ![j] = @ + 1]
  /\ rec' = [rec EXCEPT ![j] = [@ EXCEPT !.status = "queued", !.error = FALSE]]
  /\ Counted(TRUE) /\ UNCHANGED <<inst, wal, run, reaper>>

\* Someone else creates an instance in the account.
ForeignInstance(i) ==
  /\ NextId(i)
  /\ inst' = [inst EXCEPT ![i] = [state |-> "running", label |-> NoJob]]
  /\ UNCHANGED <<rec, wal, run>> /\ Steps(TRUE)

BecomesRunning(i) ==
  /\ inst[i].state = "provisioning"
  /\ inst' = [inst EXCEPT ![i].state = "running"]
  /\ UNCHANGED <<rec, wal, run>> /\ Settled

-------------------------------------------------------------------------------
(* The orphan reaper *)

\* vast_orphan_inventory's reason for a live instance that needs one
Zombie(i) ==
  /\ Live(i) /\ inst[i].label \in Jobs
  /\ rec[inst[i].label].status \in Terminal

\* Mutant: no evidence of a cleanup is asked for.
EligibleWithoutEvidence(i) ==
  /\ Zombie(i) /\ inst[i].state = "running"
  /\ rec[inst[i].label].pid = i

\* _reaper_plan_for_candidate
Eligible(i) ==
  /\ Zombie(i) /\ inst[i].state = "running"
  /\ rec[inst[i].label].pid = i
  /\ rec[inst[i].label].cleanup = "exited"

ReaperPlans(i) ==
  /\ reaper.pc = "idle" /\ Eligible(i)
  /\ reaper' = [pc |-> "planned", id |-> i]
  /\ UNCHANGED <<inst, rec, wal, run, retries, faults>>

\* _apply_reaper_action reads the provider and the classification again.
ReaperConfirms ==
  /\ reaper.pc = "planned" /\ Zombie(reaper.id)
  /\ reaper' = [reaper EXCEPT !.pc = "fresh"]
  /\ UNCHANGED <<inst, rec, wal, run, retries, faults>>

\* No principal, no approval, no answer, or a classification that changed
ReaperSkips ==
  /\ reaper.pc = "planned"
  /\ reaper' = [pc |-> "idle", id |-> NoId]
  /\ UNCHANGED <<inst, rec, wal, run, retries, faults>>

ReaperDestroys(effect) ==
  /\ reaper.pc = "fresh"
  /\ inst' = IF effect THEN Without(reaper.id) ELSE inst
  /\ reaper' = [pc |-> "idle", id |-> NoId]
  /\ UNCHANGED <<rec, wal, run, retries, faults>>

-------------------------------------------------------------------------------
CallerStep(c) ==
  \/ Refuse(c) \/ Begin(c) \/ NoOffer(c) \/ CreateRefused(c)
  \/ NotDetected(c) \/ BootFails(c) \/ Boot(c) \/ WorkDone(c) \/ WorkFails(c)
  \/ NextStartup(c) \/ EnterCleanup(c) \/ SweepRaises(c)
  \/ \E b \in BOOLEAN :
       \/ GuardRefuses(c, b) \/ GuardPasses(c, b) \/ ListBefore(c, b)
       \/ DetectRaises(c, b) \/ UndoStartup(c, b) \/ Sweep(c, b) \/ Finish(c, b)
       \/ \E e \in BOOLEAN : PostGuard(c, b, e) \/ Detect(c, b, e) \/ CleanupDestroy(c, b, e)
  \/ \E i \in Ids : CreateLost(c, i) \/ \E b \in BOOLEAN : Create(c, i, b)

ReaperStep ==
  \/ \E i \in Ids : ReaperPlans(i)
  \/ ReaperConfirms \/ ReaperSkips
  \/ \E b \in BOOLEAN : ReaperDestroys(b)

LeaseNext ==
  \/ \E c \in Callers : \/ CallerStep(c) \/ Crash(c)
                        \/ \E j \in Jobs : Dispatch(c, j) \/ SubmitDirectly(c, j)
  \/ \E j \in Jobs : RecoverStale(j) \/ Retry(j)
  \/ \E i \in Ids : ForeignInstance(i) \/ BecomesRunning(i)
  \/ ReaperStep

LeaseSpec == Init /\ [][LeaseNext]_leaseVars
===============================================================================

# A verification project for gpu-job-control

gpu-job-control takes GPU jobs from callers, queues them, chooses a provider
(local, ollama, modal, runpod, vast), submits them under gates and concurrency
limits, and recovers from failures with a write-ahead log, automatic retries
and dead letters.  Everything is a file under one data directory, and every API
thread, CLI command and worker service is a process of its own that reads and
writes those files.  There is no transaction and almost no lock: the questions
worth asking are about interleavings, crashes, records read before and saved
after, and resources at a provider whose calls may be lost.

This directory holds TLA+ modules of the control plane and of its providers,
TLC runs, and proofs.  Line numbers below are of `src/src/gpu_job/`.

## 1. Inventory

### Actors

| Actor | Code | What it does |
|---|---|---|
| Worker | `work_loop`, `queue.py:348`; systemd service and `gpu-job worker` | one pass after another, each under `worker.lock` |
| Operator | API thread (`api.py:542`) or CLI command (`cli.py:195-245`) | enqueue, cancel, retry, replan, drain; RunPod commands; contract probes; no lock |
| Caller of workflows | API thread (`api.py:581`) or CLI command | execute, approve, drain a workflow; no lock |
| Client | API thread `POST /submit` with execute, `gpu-job submit --execute` | one direct submission, `capacity-<slot>.lock` for its reservation |
| Reaper | `gpu-job` command over `orphan_inventory.py` | plan, fresh check and destruction of what is left at a provider |
| Provider account | Vast.ai, RunPod | starts, stops and ends what it was asked for; other people's resources are in it |

### Components

| Component | State | Operations | Hard because | Correct when |
|---|---|---|---|---|
| Store (`store.py`, `models.py`) | `jobs/*.json` | save (whole record), load, list | last writer wins over whatever happened since its read | a saved record never breaks what other parts count on |
| Queue (`queue.py`) | statuses in the records | enqueue, cancel, force-cancel, group cancel, retry, recover stale, replan, scan | read-decide-write without a lock | no slot above its limit; a queued job settles |
| Worker (`queue.py:282`) | `worker.lock` | recover, drain check, log check, replan, pick, save, submit, remediate | crash at any step, drain or cancel in the middle | at most one dispatch after a drain; none over an unfinished submission |
| Log (`wal.py`) | `logs/wal.jsonl` | append, recovery status and plan | order of several attempts, crash between two records | every provider call is in the log; an unfinished one blocks dispatch |
| Pipeline (`runner.py`) | its own `Job` object | gates, reservation, log, provider call, checks, artifacts, log | ten exits, exceptions, stale writes | every exit leaves a consistent record and log |
| Gates (`router.py`, `circuit.py`, `quota.py`, `provenance.py`, `compliance.py`, ...) | none: computed from records, probes and policy | route, judge | check then act; what was checked is stamped on the job and used later | overshoot bounded by what overlaps; a stamp never stands for a proof |
| Capacity (`capacity.py`, `concurrency.py`) | `capacity-*.lock` | count, reserve | two lock disciplines over one count | active jobs per provider and profile within the limit |
| Remediation (`remediation.py`, `dlq.py`) | `retry_attempts`, `error_class` | retry later or dead letter | decides on metadata of earlier attempts | retries within the budget |
| Drain (`drain.py`) | `drain.json` | start, clear, status | checked once in a pass | bounds the work begun after it |
| Intake (`intake.py`, `idempotency.py`) | buffered jobs | intake, plan groups, promote | duplicate check before the save; promotion from a stale list | no job at a provider is put back in the queue |
| Workflows (`workflow.py`, `contracts.py`, `requirements.py`, `plan_quote.py`) | `workflows/*.json` | plan, execute, approve, drain, advance | children saved one by one before the manifest; money judged by estimates | children are owned and advanced once; a workflow is worked off |
| Vast.ai (`providers/vast.py`) | instances, endpoints, workergroups | create, detect, boot, run, clean up; serverless lane | a create without an answer; a cleanup that sees nothing; a process that dies | nothing of a finished job is left and paid for |
| RunPod (`providers/runpod.py`) | pods, endpoints, templates, requests | pod jobs, endpoint jobs, promote, quarantine, probe | lost answers between creation and deletion; a stopped pod stays | the same, and the configured endpoint is spared |
| Orphan inventory (`orphan_inventory.py`) | none | find, plan, confirm, destroy | a resource in use looks like an orphan | never destroys what a live process uses |
| Contract probes (`provider_contract_probe.py`, `provider_module_contracts.py`) | the probe log | parse an artifact, judge, record | evidence read from reports, logs and worker listings | a pass is evidence of what was asked for |
| Timing (`timing.py`) | `metadata.timing_v2` of a job | enter, exit, mark, summarise | phases of several attempts and crashes in one list | times add up |
| Audit, authorization, launch gate, reports | chain, approvals | append, lookups | little | tables |

`PROJECT.json` lists them all with what is modelled, and under `hazards` every
place where this code can go wrong in a way a test hardly reaches, with the
property that covers it or why none does.

## 2. Modules

| Module | Models | Depends on |
|---|---|---|
| `JobRecords` | the record and what each operation makes of it (pure) | |
| `Submission` | store, log, processes' memory, and `submit_job` with its exits; the mapping of its records to a `SlotPool` | `JobRecords`, `SlotPool` |
| `WorkerQueue` | `queue.py`, `drain.py`, intake, the worker pass, operators, crashes | `Submission` |
| `SlotPool` | abstract: a pool of slots with a limit | |
| `WorkerQueueProps` | what the queue promises; fairness | `WorkerQueue` |
| `DirectSubmission` | direct execution and slot reservation | `Submission` |
| `ControlPlane` | workers, operators and clients on one store | `WorkerQueueProps`, `DirectSubmission` |
| `Workflow`, `WorkflowProps` | `workflow.py`: manifests, their child jobs, callers and the service's pass over them | |
| `WorkflowPlan` | the plan: chunks, estimate, budget, approval, requirements, quotes, `plan_workload` (pure) | |
| `WorkflowPlanChecks` | what a plan promises, over bounded inputs | `WorkflowPlan` |
| `Gates` | routing and the safety gates, as far as they are functions of request and policy | |
| `SubmitGates`, `SubmitGatesProps` | the decisions of `submit_job` and of a pass from recorded state: quota, circuit, signals, workspace plans, contract probes, quotes | `Gates` |
| `VastLease`, `VastLeaseProps` | Vast instances: both job lanes, cost guard, reaper | |
| `VastServerless` | the pyworker probe, the pyworker lane, an operator's deployment; the account as a whole | `VastLease` |
| `RunpodAccount` | pods, endpoints, templates, requests, the guard's view | |
| `RunpodJobs` | jobs in pods and at the endpoint | `RunpodAccount` |
| `RunpodCommands` | promote, quarantine, the ASR serverless probe | `RunpodAccount` |
| `Runpod` | jobs and commands on one account, and what they promise | the two above |
| `OrphanEvidence`, `OrphanEvidenceChecks` | a job's timeline, the evidence of a cleanup, the reasons to keep or reap, the reaper of other providers (pure) | |
| `ProbeEvidence`, `ProbeEvidenceChecks` | the record made of a probe's artifact, its verdict, failure class, a module's canary evidence (pure) | |
| `SubmissionProof` | lemmas on records, `submit_job` and slots | `Submission`, TLAPS |
| `WorkerQueueProof`, `DirectSubmissionProof` | theorems of the queue and of direct submission | `WorkerQueueProps`, `DirectSubmission`, `SubmissionProof` |
| `ControlPlaneProof` | theorems of the composed system | `WorkerQueueProof`, `ControlPlane` |
| `WorkflowProof`, `VastProof`, `RunpodProof`, `SubmitGatesProof` | theorems | `WorkflowProps`; `VastLeaseProps` and `VastServerless`; `Runpod`; `SubmitGatesProps` |
| `MCWorkerQueue`, `MCDirectSubmission`, `MCControlPlane`, `MCWorkflow`, `MCVastLease`, `MCRunpod`, `MCSubmitGates` | instances for TLC | |

The provider call of `Submission` is one step with a nondeterministic outcome;
`VastLease` and `RunpodJobs` open that step, with a `submit_job` reduced to what
they depend on (guard, log, record).  The gates of `Submission` are likewise a
choice, which `SubmitGates` opens, with the provider reduced to an outcome.
`Workflow` takes its plan from `WorkflowPlan`.

### Store, queue, pipeline

* `store[j]` is `jobs/<j>.json`; status `"absent"` means there is no file.
  `mem[a][j]` is the `Job` object process `a` holds.  `Save` replaces the record
  by the copy, as `JobStore.save` does.  `os.replace` makes one save atomic.
* `wal[j]` is the log folded as `wal_recovery_status` folds it (`submit`,
  `final`), with one more bit, `open`, that the code forgets: the last of the
  two records is a submit.
* `pc[a]` is where a process is.  A step ends where the code has written a file
  or can no longer be told apart from another point: two writes of a process
  are always two steps, so that every other process and a crash fit in between.
* `lock` is the worker lock (`flock`, freed by the kernel when its holder
  dies), `capLock[s]` the lock of a slot, `draining` is `drain.json`.
* `late` is a history variable: jobs marked starting since the drain began, counted up
  to `MaxLate`.

The worker pass is `BeginPass` (lock, read stale jobs), `SaveNext` for each,
`PassDrained` / `PassBlocked` / `PassReplans`, `SaveNext` for each replanned
record, `PassPromotes`, `SaveNext` for each promoted record, `Pick` /
`PickNothing` / `PickRaises`, `MarkStarting`, the pipeline (`SubmitStep`),
`Settle`.  An exception that leaves `work_once` (`PickRaises`) ends the process,
as a kill does (`WorkerCrash`): phase `"down"`, until the supervisor starts the
service again (`Restart`).  The pipeline is `GateBlocks` or `GatesPass`,
`LogSubmit`, `ProviderStarts`, `ProviderSucceeds` / `ProviderFails` /
`ProviderRaises`, and then a step for each save: `PostChecks` (guard, timeout),
`VerifyArtifacts`, `NoteTerminal`, `RecordExecution`, and `LogFinal`.  No registered
provider returns a plan from a submission that executes, so the branch for one
(`runner.py:328-333`) is never reached and `PostChecks` says so in its guard.

Abstracted:

* Time.  Stale recovery may find any set of active jobs past its threshold,
  `retry_after` may have passed or not, `max_runtime_seconds` too: all choices.
* Error texts are the class `classify_error` gives them.  A provider may fail
  with any class; a gate only with one that is not retryable; the runtime limit
  only with a retryable one.
* Routing answers any provider of `Routes[j]`, or raises.
* `Pick` reads the queued jobs and counts the active ones in one step.  The code
  reads the list first; between the two an operator can only cancel, retry or
  replan, which the steps between `Pick` and `MarkStarting` allow as well.
* Intake groups a job by `Group[j]`; `Plans` chooses which groups have been held
  long enough and can be routed.  What the promotion does to burst sizes is left
  out.
* What a worker pass does to workflows is not in `WorkerQueue`, where it adds
  queued jobs as `EnqueueJob` does; `Workflow` has it.
* The window of 1000 records of `list_jobs`, torn log lines and the temporary
  file of a save: see the hazards.

### Gates

`Gates` translates each rule of routing (`Executes`, `StartsInTime`,
`SuitsWorkload`) and each safety gate (`Provenance`, `Compliant`, `Capable`,
`Affordable`, `SecretsAllowed`, `Placeable`, `Resumable`) as an operator over the
request, the provider and the policy.  `SubmitGates` has the state they and the
others are asked in: `rec` with the stamp of the workspace plan and the marks of a
job, `recent` (the ends inside `window_seconds`, oldest first), `up` (signals),
`snapshot` and `probeLog` (provider and contract probes on record).

| Action | Code |
|---|---|
| `Submit`, `Gate` | `submit_job` up to the circuit: the quote against an explicit provider, the route, the circuit of what it gives |
| `CheckQuota` | `quota_check`, whose answer is held against the job later |
| `PlanWorkspace` | the workspace plan, and the judgement: safety gates, drift, required action |
| `CostGuard` | `collect_cost_guard`; the worker's job goes on to its provider |
| `Reserve` | `reserve_direct_execution_slot`, then the provider |
| `Enqueue`, `PassStarts`, `PassReplans`, `PassSubmits` | queue and worker pass, with `replan_queued_jobs` and `_requested_or_selected_provider` |
| `Finish`, `Cancel`, `Retry` | the end of a submission; the operator |
| `Expire`, `HealthFails`, `HealthReturns`, `ProviderProbe`, `ContractProbe` | time and what is recorded meanwhile |

`phase` is where the thread of a submission is between these reads: everybody else's
saves, probes and submissions fit in between.  `charged`, `beside` and `overtaken`
are history: which jobs reached a provider, who was under way with whom, and whose
plan a contract probe came after.  They decide nothing.

Left out: the global budget of `quota_check`, the arithmetic of the timeout gate,
the rule files of `policy_engine.py`, scores (a fixed order stands for them) and
stability windows of signals.

### Workflows

`Workflow` stands on its own: it has the child jobs of each workflow, the status
in `workflows/<id>.json`, and of every process where it is (`pc`) and the operation
it is at (`task`: the flow, the jobs still to be saved, the manifest status it will
save).

| Action | Code |
|---|---|
| `ExecuteWorkflow` = `PlanBlocks` or `PlanPasses` | `execute_workflow`, `submit_bulk_workflow` up to the first child |
| `CreateNext`, `SaveManifest` | the loop over children, then `_save_manifest`; of a request and of a pass |
| `ApproveRead`, `ApproveSave`, `ExecuteApproved` | `approve_workflow`: load, save, execute with `force_approve` |
| `DrainWorkflow`, `CancelNext`, `DrainSave` | `drain_workflow`: `cancel_group`'s list, its saves, the manifest |
| `BeginPass`, `BudgetDrains`, `BudgetDone` | `enforce_workflow_budget_drains` |
| `AdvanceSkips`, `AdvanceWorkflow`, `EndPass` | `advance_workflows` |
| `JobStarts`, `JobEnds`, `JobRetried` | the queue, as far as a workflow sees it |
| `Crash`, `Restart` | a process dies between two saves; systemd starts the service again |

Number of maps and hard cap are constants of `Workflow`, because they are functions
of the request.  What a plan decides and estimates is not: `execute_workflow` plans
again on every call, from the contract probes recorded by then
(`requirements.py:376-411`) and the p95 statistics (`workflow.py:1283-1298`).
`Decisions` and `P95` are therefore sets, from which every plan takes what it likes;
`MCWorkflow` computes them with `WorkflowPlan` from a workload request, whose runtime
is proven or not.  `OverCap` is the drift of `cost_drift_decision`: the estimates of
the children there are plus the p95 of what is left.  Starting and running are one status of a job; the race of two
writers for one record is left to `WorkerQueue`.  A request with `execute` submits
each child itself instead of enqueueing it, which is why `JobStarts` does not wait
for the service's pass to end.

### Provider accounts

`VastLease`: `inst` is the account, `rec` and `wal` what is stored, `run[c]` what
the process of `submit_job` holds (listing before, ids it believes it created, ids
still to destroy), `reaper` the reaper between its plan, its second look and its
destruction.  One action per call to the provider, with its answer as a parameter:
a failed listing is an empty one, as `_instances` makes it, or raises (`DetectRaises`,
`SweepRaises`); a create may take effect without an answer; a destroy may be confirmed,
effective, or neither.  The guard is blocked by a health check that fails and by any
instance that has a cost or a state (`vast.py:1122`); that an instance which is there
has one of the two is assumed of the account.  The history
fields `made` and `swept` record what really happened and decide nothing.
`VastServerless` adds endpoints and workergroups: the pyworker probe step by step
through its finally block and its verdict, and jobs sent to an operator's
deployment.  The probe holds ids, its own or those of a deployment it was told to use,
and deletes what it holds unless it was told so (`Deletes`).  Instances and deployments are explored one beside the other at rest
(`VastNext`): all they see of each other is an account that is not empty, which
`ForeignInstance` is as well.

`RunpodAccount` has pods (which RunPod keeps when they are stopped), endpoints by
what their scale costs (`cold`, `warm`, `off`), templates and requests.
`RunpodJobs` has `submit_job` with `RunPodProvider.submit` in it for pods and for
endpoints (polled, or answering themselves); `RunpodCommands` an operator's commands,
one after the other.  `Raises` is where each command goes when something in it
raises: the promotion into its handler, the probe into its finally block, the
quarantine nowhere.

Left out of both: offer scoring, prices, remote shell commands, payloads, artifact
copies, the workers' own code.  Ollama and Modal keep nothing of ours at the provider.

### Evidence

`OrphanEvidence` is the timeline of `timing.py` as a sequence of events, what
`orphan_inventory.py` reads from it and from a provider's two state reports, the
reasons in their order, and the reaper's run over several candidates.
`ProbeEvidence` is `parse_contract_probe_artifact`: an artifact is a record of the
files a worker left and the values it said, a text is the set of markers found in
it, and what a report leaves out is `Silent` or `Unset`.  Both are pure; their
promises are named assumptions that TLC evaluates (section 3).

## 3. Runs

| Run | Question | Answer |
|---|---|---|
| `queue_races` | one worker, one operator with every operation but drain, both mortal, routing may raise: are the limits kept whatever is written over what? | `CapacityRespected`, `RunningIsLogged` and the refinement of `SlotPool` hold |
| `queue_liveness` | jobs taken in, cancels, worker crashes and restarts, one automatic retry | `RetryBudget`, `WaitingSettles` hold |
| `queue_intake` | two workers, one caller of intake, group planning and drain, all mortal; three jobs, two with one key; two providers | `WorkerSparesCommitted`, `DrainBound`, `UnfinishedBlocksDispatch`, `StrandedBlocksDispatch` hold |
| `direct_capacity` | three mortal clients, three requests, two providers | capacity, reservation and the refinement of `SlotPool` hold |
| `control_slots` | worker and mortal client, drain | types of the composed system hold; every active record is given up in the end |
| `workflow_stages` | a media workflow (split, map, reduce) as it is planned from a workload request: two callers, one that executes and approves, one that approves and drains; the service drains it over budget, advances it, dies and is restarted | `JobsPerChunk`, `FlowsFinish` hold; plan checks below |
| `vast_leases` | a queued job with one retry and a direct, staged one; a worker, a client, the reaper, foreign instances; two probes, a pyworker job and a deployment; three faults | what is left behind and by whom; evidence checks below |
| `runpod_account` | a pod job and an endpoint job beside one command of any kind; two faults | the same for RunPod; probe checks below |
| `submit_gates` | a direct and a queued job and a workflow's child that needs a proven runtime, on one budget; the child is cancelled and retried; circuits, signals, probes change | overrun comes of overlap; only a probe recorded after the plan lets an unproven job through; queued jobs settle |
| `control_two_locks`, `vast_reaper_in_use`, `gates_ignored_quote` | three statements of the repository | violated, see below |

### What the properties of the provider and gate runs say

* `SweepLeavesNothing`: a Vast cleanup whose label listing answered and whose
  destroys were confirmed leaves none of the instances the process really created,
  whatever was lost before (a create without an answer, an undo that failed).
  `AuditedSuccessLeavesNothing` says the same of a success under a guard that
  answered, even when the cleanup saw nothing.  Both need the label and the guard;
  the code's own list of ids is not enough.
* `ReaperSparesFirstAttempt`: in the first attempt of a job the reaper never takes an
  instance a process still uses, also when the job has been declared stale.
* `TidyProbeLeavesNothing`, `ProbeOkLeavesNothing`, `DeploymentSpared`: what the
  pyworker probe leaves when nothing was lost, when it says ok, and of others.
  `DeploymentFailsItsJobs` states what the code does to a lane meant to have a
  deployment: guards that see fail its jobs.
* `SucceededPodStopped`, `AuditedPodRemoved`, `TidyJobLeavesNoRequest`: the same
  questions of RunPod jobs.  `FailedCommandLeavesNoEndpoint`, `AcceptedIsCold`,
  `ProbeOkLeavesNoEndpoint`, `ConfiguredEndpointSpared`: of its commands.
* `OverrunByOverlap`: when a job reaches its provider, the jobs of its source that did
  are charged no more than the budget and the submissions that were between their
  quota check and their provider while it was.  Two that read the quota at once may
  both pass, however they then follow each other.  What is charged is what
  `quota_check` counts: a job once, however often it was retried, and not at all once
  it is cancelled, so what a source really spends may be more.
* `UnprovenOnlyIfOvertaken`: the workspace plan is made and judged in one step
  (`runner.py:172-230`), and after it come the cost guard, a call over the network, and
  the reservation (`243-287`).  A contract probe recorded in that window is not seen;
  nothing else, no stamp of an earlier plan or attempt, stands for a probe that failed.
* `QueuedJobsSettle`: no job is queued for ever behind a circuit its own failures
  opened, nor behind a job whose routing raises.

### Assumptions that TLC evaluates

Pure algorithms are checked against statements over all inputs of a bounded set;
each is a named `ASSUME`, which TLC evaluates at the start of the runs that extend
the module.

* `WorkflowPlanChecks` (`workflow_stages`): `PackingIsExact` (`_plan_chunks` loses and
  reorders nothing and closes no chunk early), `CapsBind` (a larger estimate is never
  judged more leniently, and what is not rejected is under both caps), `BestIsLeast`,
  `ExecutedIsAffordable`, `ReadyIsProven` (what runs at once runs on a proven runtime
  with a verified image and the secrets it may have), and two facts a reader may not
  expect: `ZeroLimitLiftsCap`, `AdapterQuotesAuto`.
* `OrphanEvidenceChecks` (`vast_leases`, `vast_reaper_in_use`): `TimesAddUp`,
  `ReapedInstanceRuns`, `ReaperCountsConfirmed`; unexpected: `CrashLeavesPhaseOpen`,
  `PodReapedOnForeignCleanup`, `UnconfirmedIsUnlimited`.
* `ProbeEvidenceChecks` (`runpod_account`): `FailuresAreNamed`,
  `ProvenModuleHasEvidence`, `FailedCleanupProvesNothing`; unexpected:
  `PassIgnoresCleanup`, `SilentCleanupCounts`, `LogsHideTinyModel`.

### Bounds

The queue's instances have two jobs, one GPU profile and one place on each slot,
which is the smallest instance where two jobs compete; two are enough for every race
between one job and another writer, and for one job waiting behind another.
`queue_intake` and `direct_capacity` have three: a third job besides two of one key,
a third request for two slots.  The operations an operator may use, who may die and
what may fail are chosen per run, since all at once is beyond TLC.

| Constant | Module | Bounds | Enough because |
|---|---|---|---|
| `MaxLate` | `WorkerQueue` | how far `late` counts: 2 in the queue's runs, 0 in those of the composed system, which do not ask for it | `DrainBound` fails at two |
| `Rounds`, `Copies`, `Chunks` | `Workflow` | executions of a flow, jobs of a chunk, segments | two chunks give a point between two saves; `Copies` leaves room for a second job, which a fault makes |
| `Retryable` | `Workflow` | stages whose jobs are retried | retries of a stage differ only in what they delay |
| `MaxFaults` | `VastLease`, `RunpodAccount` | unanswered or ineffective calls, crashes, staleness, retries, foreign instances, together: three in `vast_leases`, two elsewhere | three lost calls (create, listing, sweep) bring an instance past every defence but the last guard; a crash, staleness and a retry are three as well |
| `Ids` | `VastLease` | instances ever created | a second startup, or somebody else's instance beside one's own |
| `MaxStartups`, `MaxRetries` | `VastLease` | startups of a staged job, retries by an operator | the second attempt is where evidence of the first misleads |
| `MaxServerless` | `VastServerless` | probes and pyworker jobs that ever begin | two: one beside another |
| `MaxCommands`, `MaxBusy` | `RunpodAccount`, `Runpod` | commands ever, jobs and commands at once | commands follow one another and their resources are their own |
| `Flighty`, `Handled` | `SubmitGates` | providers whose signal changes, queued jobs an operator cancels and retries | one of each shows what a change does |
| `MaxProbes`, `ProbeLog` | `SubmitGates` | provider probes recorded, contract probes read | the window of one record is the smallest in which a later probe hides an earlier one (the code reads the last 100) |
| `MinSamples`, `OpenPercent` | `SubmitGates` | policy values, not bounds | two samples and 80 percent open and close a circuit with three jobs |

One flow is enough in `workflow_stages` because flows meet only in the loop of the
service, which handles one after the other.  A caller executes it once: the code lets
a request repeat a workflow id, which overwrites the manifest of a flow that runs
(operation `execute_again`, in no run).  `Finished` counts a flow as worked off when its reduce job is there and all
its jobs have ended, over the map jobs there are: when the service dies between two
map jobs, the rest of the segments gets none, ever.

`CHECK_DEADLOCK FALSE` is set where the system really stops: `direct_capacity` when
its request ids are used up, the Vast, RunPod and gate runs when every job and command
has ended.  `ClientSymmetry` and `WorkerSymmetry` permute processes that are alike; no
run with symmetry checks liveness.

`UnfinishedBlocksDispatch` is checked while each job is submitted once: the log's fold
does not tell two attempts of a job apart.  What holds whatever is retried is
`StrandedBlocksDispatch`, which speaks of a job that is still stored as starting or
running and whose log has no final record at all: one that waits again after a retry
may have been put there between a pass's look at the log and its dispatch.  The run
exercises it while jobs are submitted once; that it survives retries is the theorem's
(section 4).  That only one job of a key is live is no property here: with two callers at once, with a retry,
or with a cancel that a promotion overwrites, the code lets two live.  `CapacityRespected` is about the stored records, which is what the code counts.  A process that is found stale while it
still runs at the provider does not count any more, neither in the code nor in the
property.

### Disagreements with runs

* `control_two_locks`: `README.md:22` promises provider concurrency limits.
  `work_once` and `reserve_direct_execution_slot` count under different locks.
* `vast_reaper_in_use`: `cli.py:1000` and `docs/launch-worktree-cleanup.md:494-496`
  speak of eligible orphans and of evidence of a cleanup.  A retry keeps the timeline,
  so the cleanup of the first attempt makes the instance of the second eligible as
  soon as its job is declared stale.
* `gates_ignored_quote`: `docs/launch-worktree-cleanup.md:388` calls the quote's
  provider the source of truth.  The queue routes an `auto` child without looking at
  its quote and hands the result over as an explicit provider, which `submit_job`
  refuses as a conflict.

### Disagreements without runs

Met while translating; each follows from the lines given and needs no
interleaving, or was shown by an earlier run of this project and is kept as text.

Queue and log:
* `remediation_decision` prefers `metadata.error_class`, which a retry keeps
  (`remediation.py:22`), so a failure that may not be retried is
  (`docs/error-codes.md:50`).
* An operator's replan saves records listed as queued over jobs dispatched meanwhile
  (`queue.py:207`; `docs/routing-policy.md:106`).
* The recovery fold is a set of jobs with a final record anywhere (`wal.py:90`): the
  second attempt of a job that dies at the provider is not found ambiguous (`:150`).
* Two live jobs may have one key: `find_duplicate` and the save of `intake_job` have no
  lock around them, and a retry does not look for the key (`intake.py:68`).

Workflows:
* A workflow that is said to require action may have jobs: an approval that read that
  status may save it after another approval planned again, passed and created them
  (`workflow.py:446-459`).
* An approval that executes saves `approved`, which a pass does not skip, before it
  creates the map jobs: a pass reduces over the first (`workflow.py:611`;
  `tests/test_workflow_planner.py:226`).  A bulk workflow has no reducer, and a helper
  job with no action is enqueued when all its jobs have succeeded.  An approval between
  two stages stores `succeeded`, which ends the workflow.
* `max_cost_usd` of 0 lifts the hard cap (`1247-1252`).  Nobody writes actual costs, so
  the drain sees estimates only (`1352-1366`); the drift counts queued children twice
  (`754-762`); the p95 of a media plan is that of one segment (`1328`); a split that
  finds no segments is never mapped.  Requirements turn a plan that was rejected for its
  cost into one that requires action.
* A quote for `auto` names no provider (`contracts.py:190`); a provider nobody prices
  is the cheapest (`contracts.py:299`).

Gates:
* The circuit counts refusals by gates as failures of the provider, and opens again
  when another job succeeds after the probe that closed it (the last sample is no probe).
* `docs/launch-worktree-cleanup.md:392` says that drift of a workspace plan is rejected
  before GPU allocation.  `submit_job` compares (`runner.py:217-230`) before it asks the
  cost guard and reserves (`243-287`), and not again: a probe recorded as failed in
  between is not seen, which `UnprovenOnlyIfOvertaken` allows for.
* A queued job counts twice against its quota; what a refused job would have cost
  counts for ever, what a retried and then cancelled one did spend does not.
* The workspace plan's stamp survives retries, and is refused then when anything has
  changed.  Its probe verdict and that of the requirements have different defaults
  (`workspace_registry.py:235`, `requirements.py:409`).
* An expired policy exception blocks every submission (`policy_engine.py:86-88`).
* The score rule of `docs/routing-policy.md` is not the one in `router.py:197-228`.

Providers:
* Vast: the difference of two listings adopts somebody else's new instance
  (`vast.py:344`, `668`); a guard whose listing fails passes; an exception of the
  listing in the finally block skips its destroys (`466`, `798`).  The pyworker probe
  never learns an id it cannot read, checks no delete, reads an unbound result when it
  never came to its request, and its guard refuses the existing deployment it is told
  to use.
* RunPod: quarantine accepts an endpoint whose snapshot failed (`runpod.py:1746-1749`,
  `314-318`) - `AcceptedIsCold` is about commands whose calls answered; the result of a
  cancel is not looked at; the ASR probe deletes a template the operator named.
* A pod stopped by `podStop` stays billable to the guard and to the reaper, whose
  destroys are never confirmed and whose limit then does not bind
  (`UnconfirmedIsUnlimited`); only Vast times a cleanup, so a pod is reapable only on
  an earlier attempt at Vast (`PodReapedOnForeignCleanup`).  `reconcile.py:32-33` reads
  keys no guard returns.

Contract probes (`provider_contract_probe.py`):
* The verdict ignores the cleanup, and a cleanup report without a verdict counts as an
  observed one; a model found in logs prefers one that is not tiny (`512-525`); any
  worker an endpoint lists is GPU evidence (`921-935`).

### Fairness

`Fairness` (`WorkerQueueProps`) assumes of the worker that it keeps polling and
goes on with its pass (the loop of `work_loop`), that a record that stays active
is some day found stale (its threshold passes), and that a queued job the scan
may take is some day taken (its `retry_after` passes, and `flock` lets some
waiter in).  It also assumes that the supervisor starts a dead worker again
(`Restart=on-failure` in `systemd/gpu-job-worker.service`).  It assumes of an
operator only that an operation it has begun is carried out.
`WaitingSettles` holds when the service is in the end not drained and its workers
in the end do not die any more (`ServiceStays`); without that nothing need be
dispatched, or a job may be found stale and requeued for ever.  `WorkersSurvive`
(`ControlPlane`) is the same premise without the drain.  Manual retries are left out
of `queue_liveness`: a job that died at the provider, was found stale and is then
retried is ambiguous again and blocks every pass, which is listed among the hazards.

`WorkflowFairness` assumes that the service goes on with its pass and is restarted,
and that some queued or active job moves as long as there is one.  Of callers it
assumes nothing: they may stop or die for good at any step.  `FlowsFinish` holds when
the service in the end stays up and jobs are not retried for ever, and it lets a
drained workflow stop.

`GatesFairness` assumes that the worker goes on, that direct submissions end, that
what was recorded leaves `window_seconds` (`Expire`, which is time passing), and that
an unavailable provider becomes available again; `QueuedJobsSettle` holds when
in the end all providers stay available (`HealthStays`), for jobs some named provider
can take at all.  Weak fairness is enough: each of these stays enabled until it is
taken.

The provider models state safety only: nothing in the code makes a crashed process's
instance go away but an operator's reaper, which nobody schedules.

## 4. Proofs

Every safety property of the passing runs but one (`UnfinishedBlocksDispatch`) is a
theorem, for every value of the
constants that the named assumptions allow: job ids that are numbers and finitely
many, disjoint sets of actors, limits, budgets and costs that are natural numbers.
What a theorem assumes beyond that is said with it.  The bounds of section 3 (faults,
retries, startups, commands, ids) are constants too, so the theorems hold for any of
them.

Each follows the same argument.  The property is seldom inductive, because it speaks
of what is stored and a process holds, or has decided on, what it read before.  The
inductive invariant adds what the processes at work may still do.  A lemma for each
action, or for each kind of step (`...Effect`), says what the step changes, so that
those at rest need only one argument; TLC has checked every invariant on an instance.

### Queue and worker (`WorkerQueueProof`)

* `TypeCorrect == Spec => []TypeOK`
* `WorkerCapacityRespected == Spec => []CapacityRespected`
* `DrainBounded == Spec => []DrainBound`
* `WorkerPlansAreSafe == Spec => WorkerSparesCommitted`
* `WorkerImplementsPool == Spec => PoolSpec`
* `StrandedBlocks == Spec => StrandedBlocksDispatch`

`CapacityRespected` is not inductive: it does not say that a worker which has
counted still has its place when it saves.  The inductive invariant `IInv` adds

* `Discipline`: only the holder of the worker lock is at work; what a bulk write
  (of an operator, of recovery, of a replan) saves is not active; a worker that
  dispatches holds one job, bound to a provider;
* `Room`: on the slot of a dispatched job there is a place left when that job's
  own record is not counted;
* `DrainSeen`: after the one late dispatch no worker stands between its drain
  check and its dispatch.

The argument goes through the effect of a step (`WorkerEffect`,
`OperatorEffect`): each writes either a record that is not active, which only
frees places (`InactiveShrinks`), or, by the lock holder, the record of the one
job it dispatched, which takes at most the place `Room` kept for it
(`OwnSaveShrinks`).  So no stale write of an operator can break the limit, and
this is what fails once clients, who do not take the worker lock, are added.
The refinement of `SlotPool` is the same argument once more: under the mapping
`occupants[s] = ActiveOn(s)` a save is one `Enter`, one `Leave`, or a stutter, and
an `Enter` finds the room it needs (`PoolStep`).

`WorkerPlansAreSafe` adds one more conjunct, `Spared`: what a pass is about to put
back in the queue is not active.  It holds because the lock is held, and breaks
for an operator, who has none.

`StrandedBlocks` has to bridge the way of a pass from its look at the log to its
dispatch.  `Checked` says of a worker on that way that no job is stranded.  It survives
every other process, because only the holder of the lock adds to the log, a final record
is never taken back, and what others save over a record that is not active is not active
either.  It says nothing of jobs that wait again, nor of a second attempt after a first
that was finished, where the fold of the log does forget.  `UnfinishedBlocksDispatch`,
which includes those, is only model-checked, where each job is submitted once.

### Direct submission (`DirectSubmissionProof`)

* `DirectTypesKept == DirectSpec => []DirectTypeOK`
* `DirectWithinLimits == DirectSpec => []DirectCapacityRespected`
* `SubmittedFromASlot == DirectSpec => []SubmittedHoldsSlot`
* `DirectImplementsPool`: when every limit is positive, `DirectSpec => PoolSpec`

The lock of a slot is held between the count and the save only; `DirectInv` says
(`Locked`) that in between the slot has the room that was counted, and (`ClientOK`,
`Own`) that a client alone writes the record of its job, so what it holds is what is
stored.  A limit of 0 is none to a reservation and would be a full slot to the pool.

### Everybody on one store (`ControlPlaneProof`)

* `RetriesBounded == Spec => []RetryBudget`
* `RunningLogged == Spec => []RunningIsLogged`
* `ControlTypesKept == ControlSpec => []ControlTypeOK`
* `ControlRunningLogged`, `ControlRetriesBounded`, `ControlDrainBounded`:
  `ControlSpec => []RunningIsLogged`, `[]RetryBudget`, `[]DrainBound`

Neither of the first two is inductive about the stored records alone, because a
process may hold a copy of a record for as long as it likes and save it over whatever
is there.  `RecordInv` therefore says the same of every copy, stored or held (`Sound`:
its attempts are within a budget; when it is running or succeeded the job's
`provider_submit` is in the log), and that a process which calls the provider has
logged it (`Calling`).  Each operation on a record keeps it sound (`RecordSound`,
`RemediatedWithin`), log records are never taken back, so a save of any copy does too.

`ControlInv` carries this, and the part of `IInv` that does not count places
(`CoreInv`), over to workers, operators and clients together: a client's step leaves
the worker lock, the drain and everybody's copies alone.  What does count does not
carry over: `CapacityRespected` and `SubmittedHoldsSlot` are false there
(`control_two_locks`).

### Workflows (`WorkflowProof`)

* `WorkflowTyped == WorkflowSpec => []WorkflowTypeOK`
* `ChunksMappedOnce == WorkflowSpec => []JobsPerChunk`

They hold whatever plans decide, and for every cap and cost.  `JobsInv` counts for each chunk its map jobs
and the processes that have one still to create (`ChunkInv`): together they are at
most the executions of the flow, and one for a media workflow, whose segments only the
service maps.  A crash forgets a creator and a save turns it into a job.

### Provider accounts (`VastProof`, `RunpodProof`)

`VastProof` proves, of `VastSpec`, for any jobs, processes, instances, probes, and any
number of lost calls, crashes and retries: `VastTypesKept`, `SweptInstancesGone`
(`SweepLeavesNothing`), `AuditedSuccessClean` (`AuditedSuccessLeavesNothing`),
`FirstAttemptSpared` (`ReaperSparesFirstAttempt`), `TidyProbeClean`
(`TidyProbeLeavesNothing`), `ReportedOkClean` (`ProbeOkLeavesNothing`),
`OperatorDeploymentSpared` (`DeploymentSpared`), `DeploymentJobsFail`
(`DeploymentFailsItsJobs`).  `VastInv` consists of

* `MadeInv`: what a process created and what is still there carries its job's label;
  after a listing that answered it is among what the process will destroy.  This is
  why the label protects where the process's own list of ids does not.
* `AttemptInv`, `FreshInv`, `ReaperInv`: in a first attempt one process has the job,
  and no record tells of a finished cleanup before that process has come to its end;
  the reaper has only planned instances whose record does.  A retry keeps the record,
  which is what `vast_reaper_in_use` shows to go wrong.
* `ProbeInv`, `TaskInv`: what of a probe is there it knows and will delete, or a call
  of it was lost; the ids it holds are its own unless it works on a deployment; what a
  listing has not shown does not appear later.

`RunpodProof` proves, of `RunpodSpec`: `RunpodTypesKept`, `SucceededPodsStop`
(`SucceededPodStopped`), `AuditedPodsGone` (`AuditedPodRemoved`),
`TidyJobsLeaveNoRequest` (`TidyJobLeavesNoRequest`), `FailedCommandsLeaveNoEndpoint`
(`FailedCommandLeavesNoEndpoint`), `AcceptedEndpointsAreCold` (`AcceptedIsCold`),
`OkProbesLeaveNoEndpoint` (`ProbeOkLeavesNoEndpoint`), `ConfiguredEndpointsSpared`
(`ConfiguredEndpointSpared`).  `RunpodInv` says for every phase of a job
(`PodJobInv`, `EndpointJobInv`) and of a command (`CommandInv`) what may be there of
it: an endpoint that is there, not accepted, and of which no call was lost belongs to
a command in a phase (`Holding`) that still takes it away.  `FutureInv` keeps the
names of commands to come unused.

### Gates (`SubmitGatesProof`)

* `GatesTypesKept == GatesSpec => []GatesTypeOK`
* `UnprovenOvertaken == GatesSpec => UnprovenOnlyIfOvertaken`
* `OverrunBounded == GatesSpec => OverrunByOverlap`

`GatesInv` adds to the types what both need of a submission under way.  `Shown`: when
the plan was made the chosen runtime was proven, and only a probe recorded since may
have changed that, which is what `overtaken` notes.  Any two submissions under way are
in each other's `beside`, so what is not beside a submission was charged before it
looked at the quota.  `Spare`: those charges and its own (`Seen`) fit the budget, for
the quota check saw them; later charges cannot enter `Seen`, for whoever is charged
later is beside it.  `Alone` and `Counted` say that nobody else writes the record of a
submission under way, and that what is charged counts for the quota.  That the sums
then compare is proved from the definition of the fold: it adds the same total in any
order (`CostsWith`), and the total of a union is at most that of its parts
(`CostsWithin`).  Both are inductions over finite sets, carried out with a smallest
counterexample (`Smallest`), which the first-order provers can follow.

### What is only model-checked

* `UnfinishedBlocksDispatch` (above).
* Liveness (`WaitingSettles`, `SlotsReclaimed`, `FlowsFinish`, `QueuedJobsSettle`): the
  prover has neither `ENABLED` nor fairness.
* The pure statements of section 3, which TLC evaluates over bounded inputs.  The next
  theorems worth having are those of them that should hold of any input: `CapsBind`,
  `PackingIsExact`, `ReaperCountsConfirmed`, `FailuresAreNamed`,
  `ProvenModuleHasEvidence`; their folds yield to the argument `CostsWith` uses.
* Of the statements that are violated, `WorkerCapacityRespected` and
  `DirectWithinLimits`, and `FirstAttemptSpared`, say what of two holds under
  which premises.

## 5. Not modelled

* Audit chain, decision log: append-only records that no decision reads.
* Authorization, approvals, destructive preflight: lookups in files only people
  write; the preflight is a choice in the reaper.
* Launch gate, readiness, invariants, reports, the HTTP client: conjunctions and
  listings of what other components answer.
* Model workers (inference scripts, pod and container code), image builds, schema
  emitters: external to the control plane or without shared state.
* Of modelled components: a save's two steps and its shared temporary name, the window
  of `list_jobs`, torn log lines, a manifest file read while it is written, rule files
  of the policy engine, the global budget, signal stability, error text rules, offer
  scoring.  Those that can go wrong are among the hazards, with a note.

------------------------------- MODULE Workflow -------------------------------
(***************************************************************************)
(* Workflows: a manifest per workflow and its child jobs.  Callers (API    *)
(* threads and CLI processes) execute, approve and drain workflows without *)
(* a lock; the worker service enforces budgets and advances workflows in   *)
(* its pass, under the worker lock.  Children are saved one by one, the    *)
(* manifest after them, and any process may die in between.                *)
(***************************************************************************)
EXTENDS Integers, FiniteSets

CONSTANTS
  Flows,      \* workflow ids
  Kind,       \* "bulk": jobs are given; "chunked": json_array_chunker splits in
              \* the API; "media": a split helper job finds the segments
  Merged,     \* flows whose reducer runs in the API
  Decisions,  \* what plan_workflow may decide on a flow, Blocked or to execute it: it
              \* plans anew in every call, by the probes and statistics of that time
  PlannedMaps, \* map jobs the plan of a flow counts: a media flow's segments are
              \* not known to it
  P95,        \* what a plan may estimate for them and the reducer
  JobCost,    \* what cost_estimate reads in the template of a flow's map jobs
  HardCap,    \* effective_hard_cap_usd; 0 for none
  Chunks,     \* how many jobs or chunks a flow has, and segments at most
  Rounds,     \* bound on the executions of one flow
  Copies,     \* bound on the map jobs of one chunk
  Callers,    \* API threads and CLI processes
  Service,    \* the worker service
  Operations, \* the operations each caller uses: execute, execute_again, approve, drain
  Retryable,  \* bound: the stages whose jobs are retried
  Mortal      \* the processes that may die

Blocked == {"rejected", "requires_action", "pending_approval"}

ASSUME FlowAssumption ==
  /\ Kind \in [Flows -> {"bulk", "chunked", "media"}]
  /\ Merged \subseteq {w \in Flows : Kind[w] # "bulk"}
  /\ Decisions \in [Flows -> SUBSET (Blocked \cup {"auto_execute"}) \ {{}}]
  /\ \A w \in Flows : Kind[w] = "bulk" => Decisions[w] = {"auto_execute"}
  /\ PlannedMaps \in [Flows -> Nat \ {0}]
  /\ P95 \in [Flows -> SUBSET Nat] /\ JobCost \in [Flows -> Nat] /\ HardCap \in [Flows -> Nat]
  /\ Chunks \in Nat \ {0} /\ Rounds \in Nat \ {0} /\ Copies \in Nat \ {0}
  /\ Service \notin Callers /\ DOMAIN Operations = Callers

Actors == Callers \cup {Service}

\* A helper job's id is made of the workflow, stage and index; a map job's is new.
Split     == <<"split", 1, 1>>
Reduce    == <<"reduce", 1, 1>>
MapJobs   == {"map"} \X (1..Chunks) \X (1..Copies)
JobIds    == MapJobs \cup {Split, Reduce}

JobStatuses == {"absent", "queued", "active", "succeeded", "failed", "cancelled"}
Terminal    == {"succeeded", "failed", "cancelled"}

\* Statuses workflow_status keeps; advance_workflows and
\* enforce_workflow_budget_drains leave such a workflow alone.
Kept == Blocked \cup Terminal \cup {"draining"}

ManifestStatuses == Kept \cup {"absent", "queued", "running", "approved"}

VARIABLES
  jobs,       \* the child jobs of each workflow
  manifest,   \* the status in workflows/*.json
  pc,         \* where each process is
  task,       \* the operation of each process: its flow, the jobs still to save,
              \* the manifest status it holds, whether an approval executes
  left,       \* the workflows the loop of the service has not visited yet
  executions  \* history: how often the children of a flow were begun

vars == <<jobs, manifest, pc, task, left, executions>>

Phases == {"idle", "down", "planning", "creating", "approving", "cancelling",
           "budget", "advance"}

Task == [flow : Flows, todo : SUBSET (JobIds \cup {"split", "map", "reduce"} \X (1..Chunks)),
         status : ManifestStatuses, execute : BOOLEAN]

NoTask == [flow |-> "none", todo |-> {}, status |-> "absent", execute |-> FALSE]

WorkflowTypeOK ==
  /\ jobs \in [Flows -> [JobIds -> JobStatuses]]
  /\ manifest \in [Flows -> ManifestStatuses]
  /\ pc \in [Actors -> Phases]
  /\ task \in [Actors -> Task \cup {NoTask}]
  /\ \A a \in Actors : pc[a] \notin {"idle", "down", "budget", "advance"} => task[a] \in Task
  /\ left \subseteq Flows
  /\ executions \in [Flows -> 0..Rounds]

WorkflowInit ==
  /\ jobs = [w \in Flows |-> [x \in JobIds |-> "absent"]]
  /\ manifest = [w \in Flows |-> "absent"]
  /\ pc = [a \in Actors |-> "idle"]
  /\ task = [a \in Actors |-> NoTask]
  /\ left = {}
  /\ executions = [w \in Flows |-> 0]

-------------------------------------------------------------------------------
(* Reading a workflow *)

Present(w) == {x \in JobIds : jobs[w][x] # "absent"}

Maps(w) == Present(w) \cap MapJobs

\* workflow_status: the status a reader is shown, and approve_workflow saves.
Derived(w) ==
  LET there == {jobs[w][x] : x \in Present(w)}
      order == <<"active", "queued", "failed", "cancelled", "succeeded">>
      first == CHOOSE i \in 1..5 : order[i] \in there /\ \A k \in 1..(i - 1) : order[k] \notin there
  IN IF manifest[w] \in Kept \/ there = {} THEN manifest[w]
     ELSE IF order[first] = "active" THEN "running" ELSE order[first]

\* The split is done and no map job is there.
SegmentsToMapAgain(w) == Kind[w] = "media" /\ jobs[w][Split] = "succeeded"

SegmentsToMap(w) ==
  Kind[w] = "media" /\ jobs[w][Split] = "succeeded" /\ Maps(w) = {}

\* A reduction that waits for every chunk to have its job.
ReadyWhenComplete(w) ==
  /\ w \notin Merged /\ jobs[w][Reduce] = "absent"
  /\ \A i \in 1..Chunks : \E x \in MapJobs : x[2] = i /\ jobs[w][x] = "succeeded"

\* The map jobs there are have succeeded and no reduce job is there.  A bulk
\* workflow has no reducer, which is not one that runs in the API either.
ReadyToReduce(w) ==
  /\ w \notin Merged /\ jobs[w][Reduce] = "absent"
  /\ Maps(w) # {} /\ \A x \in Maps(w) : jobs[w][x] = "succeeded"

-------------------------------------------------------------------------------
(* Moving on *)

Goto(a, phase) == pc' = [pc EXCEPT ![a] = phase]

\* A caller's operation is over; the service goes on with its loop.
Resume(a, phase) == Goto(a, IF a = Service THEN phase ELSE "idle")

Begin(a, w, todo, s, ex) ==
  task' = [task EXCEPT ![a] = [flow |-> w, todo |-> todo, status |-> s, execute |-> ex]]

Drop(a) == task' = [task EXCEPT ![a] = NoTask]

Done(a, t) == task' = [task EXCEPT ![a].todo = @ \ {t}]

-------------------------------------------------------------------------------
(* execute_workflow and submit_bulk_workflow *)

FirstStage(w) == IF Kind[w] = "media" THEN {<<"split", 1>>} ELSE {"map"} \X (1..Chunks)

\* The plan blocks a workflow, unless it only wants an approval that was forced.
PlanBlocks(c, w, force) ==
  /\ \E d \in Decisions[w] \cap Blocked :
       /\ ~(force /\ d = "pending_approval")
       /\ manifest' = [manifest EXCEPT ![w] = d]
  /\ Goto(c, "idle") /\ Drop(c)
  /\ UNCHANGED <<jobs, left, executions>>

PlanPasses(c, w, force) ==
  /\ executions[w] < Rounds
  /\ Decisions[w] \cap ({"auto_execute"} \cup (IF force THEN {"pending_approval"} ELSE {})) # {}
  /\ executions' = [executions EXCEPT ![w] = @ + 1]
  /\ Begin(c, w, FirstStage(w), "queued", FALSE)
  /\ Goto(c, "creating")
  /\ UNCHANGED <<jobs, manifest, left>>

\* POST /workflows of a workflow id not seen before; "execute_again" lets a caller
\* repeat the request.
ExecuteWorkflow(c, w) ==
  /\ pc[c] = "idle"
  /\ \/ "execute_again" \in Operations[c]
     \/ "execute" \in Operations[c] /\ manifest[w] = "absent" /\ executions[w] = 0
  /\ PlanBlocks(c, w, FALSE) \/ PlanPasses(c, w, FALSE)

\* A map job gets an id nobody has; a helper job's id is always the same.
NewJob(w, t) ==
  IF t[1] = "map"
  THEN {x \in MapJobs : x[2] = t[2] /\ x[3] = 1 + Cardinality({y \in Maps(w) : y[2] = t[2]})}
  ELSE {<<t[1], 1, 1>>}

\* The next child, in the order of the chunks.  enqueue_job overwrites a job that
\* has the id.  With submit_job in its place the child is terminal before the
\* next one is begun, which the steps of the queue allow here as well.
CreateNext(a, x) ==
  /\ pc[a] = "creating"
  /\ \E t \in task[a].todo :
       /\ \A u \in task[a].todo : t[2] <= u[2]
       /\ x \in NewJob(task[a].flow, t)
       /\ Done(a, t)
  /\ jobs' = [jobs EXCEPT ![task[a].flow][x] = "queued"]
  /\ UNCHANGED <<manifest, pc, left, executions>>

\* The manifest, read or built before the children, is saved after them.
SaveManifest(a) ==
  /\ pc[a] = "creating" /\ task[a].todo = {}
  /\ manifest' = [manifest EXCEPT ![task[a].flow] = task[a].status]
  /\ Resume(a, "advance") /\ Drop(a)
  /\ UNCHANGED <<jobs, left, executions>>

-------------------------------------------------------------------------------
(* approve_workflow *)

ApproveRead(c, w, ex) ==
  /\ "approve" \in Operations[c]
  /\ pc[c] = "idle" /\ manifest[w] # "absent"
  /\ ex => executions[w] < Rounds
  /\ Begin(c, w, {}, IF manifest[w] = "pending_approval" THEN "approved" ELSE Derived(w), ex)
  /\ Goto(c, "approving")
  /\ UNCHANGED <<jobs, manifest, left, executions>>

ApproveSave(c) ==
  /\ pc[c] = "approving"
  /\ manifest' = [manifest EXCEPT ![task[c].flow] = task[c].status]
  /\ IF task[c].execute
     THEN Goto(c, "planning") /\ UNCHANGED task
     ELSE Goto(c, "idle") /\ Drop(c)
  /\ UNCHANGED <<jobs, left, executions>>

\* An approval that executes plans again, by then perhaps with another outcome, and
\* forces what only wants an approval.
ExecuteApproved(c) ==
  /\ pc[c] = "planning"
  /\ PlanBlocks(c, task[c].flow, TRUE) \/ PlanPasses(c, task[c].flow, TRUE)

-------------------------------------------------------------------------------
(* drain_workflow *)

\* cancel_group lists the jobs of the flow that can be cancelled.
DrainRead(a, w) ==
  /\ Begin(a, w, {x \in JobIds : jobs[w][x] = "queued"}, "draining", FALSE)
  /\ Goto(a, "cancelling")
  /\ UNCHANGED <<jobs, manifest, executions>>

DrainWorkflow(c, w) ==
  /\ "drain" \in Operations[c]
  /\ pc[c] = "idle"
  /\ DrainRead(c, w)
  /\ UNCHANGED left

CancelNext(a, x) ==
  /\ pc[a] = "cancelling" /\ x \in task[a].todo
  /\ jobs' = [jobs EXCEPT ![task[a].flow][x] = "cancelled"]
  /\ Done(a, x)
  /\ UNCHANGED <<manifest, pc, left, executions>>

\* A status that nobody skips.
DrainSaveMisnamed(a) ==
  /\ pc[a] = "cancelling" /\ task[a].todo = {}
  /\ manifest' = [manifest EXCEPT ![task[a].flow] = IF @ = "absent" THEN @ ELSE "drained"]
  /\ Resume(a, "budget") /\ Drop(a)
  /\ UNCHANGED <<jobs, left, executions>>

\* A drain of a workflow without a manifest only cancels its jobs.
DrainSave(a) ==
  /\ pc[a] = "cancelling" /\ task[a].todo = {}
  /\ manifest' = [manifest EXCEPT ![task[a].flow] = IF @ = "absent" THEN @ ELSE "draining"]
  /\ Resume(a, "budget") /\ Drop(a)
  /\ UNCHANGED <<jobs, left, executions>>

-------------------------------------------------------------------------------
(* The worker pass *)

Listed == {w \in Flows : manifest[w] # "absent"}

BeginPass ==
  /\ pc[Service] = "idle"
  /\ left' = Listed
  /\ Goto(Service, "budget")
  /\ UNCHANGED <<jobs, manifest, task, executions>>

\* _remaining_estimated_cost, times the planned maps; every ended job counts, a
\* split as well.
Remaining(w, p95) ==
  LET done == Cardinality({x \in Present(w) : jobs[w][x] \in Terminal})
  IN IF done < PlannedMaps[w] THEN p95 * (PlannedMaps[w] - done) ELSE 0

\* cost_drift_decision, by the estimate of the plan that was saved.  The actual cost of a job is what was estimated for it, be it
\* still queued or cancelled; that of a helper is 0.
OverCap(w, p95) ==
  /\ HardCap[w] # 0
  /\ PlannedMaps[w] * (JobCost[w] * Cardinality(Maps(w))) + Remaining(w, p95) > PlannedMaps[w] * HardCap[w]

\* enforce_workflow_budget_drains finds w over its cap.
BudgetDrains(w) ==
  /\ pc[Service] = "budget" /\ w \in left
  /\ manifest[w] \notin Kept /\ \E p95 \in P95[w] : OverCap(w, p95)
  /\ DrainRead(Service, w)
  /\ left' = left \ {w}

BudgetDone ==
  /\ pc[Service] = "budget"
  /\ left' = Listed
  /\ Goto(Service, "advance")
  /\ UNCHANGED <<jobs, manifest, task, executions>>

AdvanceSkips(w) ==
  /\ pc[Service] = "advance" /\ w \in left
  /\ manifest[w] \in Kept \/ ~(SegmentsToMap(w) \/ ReadyToReduce(w))
  /\ left' = left \ {w}
  /\ UNCHANGED <<jobs, manifest, pc, task, executions>>

AdvanceWorkflow(w) ==
  /\ pc[Service] = "advance" /\ w \in left
  /\ manifest[w] \notin Kept
  /\ \/ SegmentsToMap(w) /\ \E n \in 1..Chunks : Begin(Service, w, {"map"} \X (1..n), "queued", FALSE)
     \/ ReadyToReduce(w) /\ Begin(Service, w, {<<"reduce", 1>>}, "queued", FALSE)
  /\ Goto(Service, "creating")
  /\ left' = left \ {w}
  /\ UNCHANGED <<jobs, manifest, executions>>

EndPass ==
  /\ pc[Service] = "advance" /\ left = {}
  /\ Goto(Service, "idle")
  /\ UNCHANGED <<jobs, manifest, task, left, executions>>

ServiceStep ==
  \/ BeginPass \/ BudgetDone \/ EndPass
  \/ \E w \in Flows : BudgetDrains(w) \/ AdvanceSkips(w) \/ AdvanceWorkflow(w)
  \/ \E x \in JobIds : CreateNext(Service, x) \/ CancelNext(Service, x)
  \/ SaveManifest(Service) \/ DrainSave(Service)

CallerStep(c) ==
  \/ \E w \in Flows :
       \/ ExecuteWorkflow(c, w)
       \/ \E ex \in BOOLEAN : ApproveRead(c, w, ex)
       \/ DrainWorkflow(c, w)
  \/ ApproveSave(c) \/ ExecuteApproved(c)
  \/ \E x \in JobIds : CreateNext(c, x) \/ CancelNext(c, x)
  \/ SaveManifest(c) \/ DrainSave(c)

-------------------------------------------------------------------------------
(* The queue, as far as workflows see it; WorkerQueue has what races over one *)
(* record do to it.                                                           *)

JobMoves(w, x, s) ==
  /\ jobs' = [jobs EXCEPT ![w][x] = s]
  /\ UNCHANGED <<manifest, pc, task, left, executions>>

\* Also while a pass advances: a request with execute submits its jobs itself.
JobStarts(w, x) == jobs[w][x] = "queued" /\ JobMoves(w, x, "active")

JobEnds(w, x) ==
  jobs[w][x] = "active" /\ \E s \in {"succeeded", "failed"} : JobMoves(w, x, s)

\* An automatic retry, or one asked for.
JobRetried(w, x) ==
  /\ x[1] \in Retryable
  /\ jobs[w][x] \in {"active", "failed", "cancelled"}
  /\ JobMoves(w, x, "queued")

QueueStep == \E w \in Flows, x \in JobIds : JobStarts(w, x) \/ JobEnds(w, x) \/ JobRetried(w, x)

Crash(a) ==
  /\ a \in Mortal /\ pc[a] \notin {"idle", "down"}
  /\ Goto(a, IF a = Service THEN "down" ELSE "idle")
  /\ Drop(a)
  /\ UNCHANGED <<jobs, manifest, left, executions>>

Restart ==
  /\ pc[Service] = "down"
  /\ Goto(Service, "idle")
  /\ UNCHANGED <<jobs, manifest, task, left, executions>>

WorkflowNext ==
  \/ ServiceStep
  \/ \E c \in Callers : CallerStep(c)
  \/ QueueStep
  \/ \E a \in Actors : Crash(a)
  \/ Restart

WorkflowSpec == WorkflowInit /\ [][WorkflowNext]_vars

===============================================================================

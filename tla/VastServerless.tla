---------------------------- MODULE VastServerless ----------------------------
(***************************************************************************)
(* The serverless side of the Vast.ai account: endpoints with their        *)
(* workergroups, the contract probe that creates one of each, asks it and  *)
(* deletes both                                                            *)
(* (scripts/vast-pyworker-serverless-contract-probe.py), and gpu_task jobs *)
(* sent to a deployment an operator keeps.  A probe may run beside another *)
(* one; instances of other people are in the same account.                 *)
(*                                                                         *)
(* The script checks no delete.  It lists the whole account afterwards,    *)
(* and a call that takes too long raises, also in the finally block.       *)
(***************************************************************************)
EXTENDS VastLease

CONSTANTS
  Probes,        \* runs of the contract probe
  PyworkerJobs,  \* gpu_task jobs of the lane vast_pyworker_serverless
  Known,         \* the deployment an operator keeps, if any
  MaxServerless  \* bound on the probes and jobs that ever begin

ASSUME ServerlessAssumption == Known \notin Probes /\ MaxServerless \in Nat

VARIABLES
  endpoint,  \* the endpoint of each probe, and the operator's
  group,     \* the workergroup of each
  probe,     \* what each probe holds in memory
  task       \* the pyworker jobs: where submit_job is, and the status it saved

serverlessVars == <<endpoint, group, probe, task>>

Owners == Probes \cup {Known}

ProbePhases == {"idle", "endpoint", "group", "ask", "logs", "ungroup", "unendpoint",
                "endpoints", "groups", "postguard", "done"}

\* A probe: whether it works on the operator's deployment (existing), knows the ids
\* of its endpoint and of its group, had its request tried (asked) and answered well
\* (ok), and found no endpoint (empty) and no group (nogroup) in the account after
\* its deletes.  An id it knows is a set of at most one.  tidy is history: each of its
\* calls answered and had its effect.
ProbeRun == [pc : ProbePhases, existing : BOOLEAN, endpoint : SUBSET Owners, group : SUBSET Owners,
             asked : BOOLEAN, ok : BOOLEAN, empty : BOOLEAN, nogroup : BOOLEAN,
             tidy : BOOLEAN, verdict : {"none", "ok", "failed", "raised"}]

ServerlessTypeOK ==
  /\ endpoint \in [Owners -> {"none", "there", "deleted"}]
  /\ group \in [Owners -> {"none", "there", "deleted"}]
  /\ probe \in [Probes -> ProbeRun]
  /\ task \in [PyworkerJobs -> [pc : {"guard", "ask", "postguard", "done"},
                                status : {"new", "starting", "running", "succeeded", "failed"},
                                blind : BOOLEAN]]

NewProbe ==
  [pc |-> "idle", existing |-> FALSE, endpoint |-> {}, group |-> {},
   asked |-> FALSE, ok |-> FALSE, empty |-> FALSE, nogroup |-> FALSE,
   tidy |-> TRUE, verdict |-> "none"]

NewTask == [pc |-> "guard", status |-> "new", blind |-> FALSE]

ServerlessInit ==
  /\ endpoint \in {[o \in Owners |-> IF o = Known THEN e ELSE "none"] : e \in {"none", "there"}}
  /\ group = endpoint
  /\ probe = [p \in Probes |-> NewProbe]
  /\ task = [j \in PyworkerJobs |-> NewTask]

-------------------------------------------------------------------------------
(* Reading the account *)

Endpoints == {o \in Owners : endpoint[o] = "there"}

Groups == {o \in Owners : group[o] = "there"}

\* Mutant: what is serverless costs nothing.
AccountEmptyOfInstances == Alive = {}

\* cost_guard counts every endpoint and workergroup, with workers or without.
AccountEmpty == Alive = {} /\ Endpoints = {} /\ Groups = {}

\* cost_guard with the outcome ok: a listing that fails shows nothing, a failing
\* health check is not ok.
AccountGuard(ok, answered) ==
  /\ answered => (ok <=> AccountEmpty)
  /\ Counted(~answered)

SameAccount == UNCHANGED <<endpoint, group>>

-------------------------------------------------------------------------------
(* The probe creates and asks *)

ProbeAt(p, phase) == probe[p].pc = phase

\* The probe's next memory is r.
Goes(p, r) == probe' = [probe EXCEPT ![p] = r]

\* An exception of the try block leads into the finally block.
ProbeRaises(p, fault) ==
  /\ Goes(p, [probe[p] EXCEPT !.pc = "logs", !.ok = FALSE, !.tidy = @ /\ ~fault])
  /\ Counted(fault)

\* The guard is not clean, or an argument, the template or a listing is missing.
ProbeNotAdmitted(p, ok, answered) ==
  /\ ProbeAt(p, "idle")
  /\ AccountGuard(ok, answered)
  /\ Goes(p, [probe[p] EXCEPT !.pc = "logs"])
  /\ SameAccount

\* The operator may name a deployment that is there already.
ProbeAdmitted(p, existing, answered) ==
  /\ ProbeAt(p, "idle")
  /\ AccountGuard(TRUE, answered)
  /\ LET named == IF existing THEN {Known} ELSE {}
     IN Goes(p, [probe[p] EXCEPT !.pc = IF existing THEN "ask" ELSE "endpoint",
                                 !.existing = existing, !.endpoint = named, !.group = named])
  /\ SameAccount

\* The endpoint exists.  Its id can be read from the answer, or the probe never
\* learns it.
ProbeCreatesEndpoint(p, named) ==
  /\ ProbeAt(p, "endpoint")
  /\ endpoint' = [endpoint EXCEPT ![p] = "there"]
  /\ \/ named /\ Goes(p, [probe[p] EXCEPT !.pc = "group", !.endpoint = {p}]) /\ Counted(FALSE)
     \/ ~named /\ ProbeRaises(p, TRUE)
  /\ UNCHANGED group

ProbeCreatesGroup(p, named) ==
  /\ ProbeAt(p, "group")
  /\ group' = [group EXCEPT ![p] = "there"]
  /\ \/ named /\ Goes(p, [probe[p] EXCEPT !.pc = "ask", !.group = {p}]) /\ Counted(FALSE)
     \/ ~named /\ ProbeRaises(p, TRUE)
  /\ UNCHANGED endpoint

\* A create is refused, or a listing or the client of the request raises.
ProbeStopsEarly(p) ==
  /\ probe[p].pc \in {"endpoint", "group", "ask"}
  /\ ProbeRaises(p, FALSE) /\ SameAccount

\* The request reaches a worker of the deployment and is answered well, or not.
ProbeAsks(p, ok) ==
  /\ ProbeAt(p, "ask")
  /\ ok => probe[p].endpoint \subseteq Endpoints /\ probe[p].group \subseteq Groups
  /\ Goes(p, [probe[p] EXCEPT !.pc = "logs", !.asked = TRUE, !.ok = ok])
  /\ SameAccount /\ Counted(FALSE)

-------------------------------------------------------------------------------
(* The probe cleans up *)

\* Mutant: deletes what it used, created or not.
DeletesUsed(p, ids) == ids

\* Of the ids the script holds, those it deletes: none when it works on resources
\* that were there (managed_resources).
Deletes(p, ids) == IF probe[p].existing THEN {} ELSE ids

\* The resources once those with these ids are deleted, or not
DeletedIn(resources, ids, effect) ==
  [o \in Owners |-> IF o \in ids /\ effect THEN "deleted" ELSE resources[o]]

\* The logs of the workergroup tell whether its image could be pulled.
ProbeReadsLogs(p, pulled) ==
  /\ ProbeAt(p, "logs")
  /\ Goes(p, [probe[p] EXCEPT !.pc = "ungroup", !.ok = @ /\ pulled])
  /\ SameAccount /\ Counted(FALSE)

\* Mutant: the workergroup goes with its endpoint, or so it is believed.
ProbeDeletesGroupNever(p, effect) ==
  /\ ProbeAt(p, "ungroup")
  /\ Goes(p, [probe[p] EXCEPT !.pc = "unendpoint"])
  /\ SameAccount /\ Counted(~effect)

\* Whether the delete had an effect is not looked at.
ProbeDeletesGroup(p, effect) ==
  /\ ProbeAt(p, "ungroup")
  /\ group' = DeletedIn(group, Deletes(p, probe[p].group), effect)
  /\ Goes(p, [probe[p] EXCEPT !.pc = "unendpoint", !.tidy = @ /\ effect])
  /\ Counted(~effect) /\ UNCHANGED endpoint

ProbeDeletesEndpoint(p, effect) ==
  /\ ProbeAt(p, "unendpoint")
  /\ endpoint' = DeletedIn(endpoint, Deletes(p, probe[p].endpoint), effect)
  /\ Goes(p, [probe[p] EXCEPT !.pc = "endpoints", !.tidy = @ /\ effect])
  /\ Counted(~effect) /\ UNCHANGED group

\* The two listings of the whole account; one that fails is not an empty one.
ProbeListsEndpoints(p, answered) ==
  /\ ProbeAt(p, "endpoints")
  /\ Goes(p, [probe[p] EXCEPT !.pc = "groups", !.empty = answered /\ Endpoints = {},
                              !.tidy = @ /\ answered])
  /\ Counted(~answered) /\ SameAccount

ProbeListsGroups(p, answered) ==
  /\ ProbeAt(p, "groups")
  /\ Goes(p, [probe[p] EXCEPT !.pc = "postguard", !.nogroup = answered /\ Groups = {},
                              !.tidy = @ /\ answered])
  /\ Counted(~answered) /\ SameAccount

\* Mutant: the guard alone says whether the account is clean.
CleanupOkByGuard(p, ok) == ok

\* cleanup.ok
CleanupOk(p, ok) ==
  (probe[p].existing \/ (probe[p].empty /\ probe[p].nogroup)) /\ ok

\* The verdict.  A probe that never came to its request has no sdk_request, which
\* the report after the finally block reads: it raises, and nothing is written.
ProbeReports(p, ok, answered) ==
  /\ ProbeAt(p, "postguard")
  /\ AccountGuard(ok, answered)
  /\ LET good == probe[p].ok /\ CleanupOk(p, ok)
         verdict == IF probe[p].asked THEN IF good THEN "ok" ELSE "failed" ELSE "raised"
     IN Goes(p, [NewProbe EXCEPT !.pc = "done", !.existing = probe[p].existing,
                                 !.tidy = probe[p].tidy, !.verdict = verdict])
  /\ SameAccount

\* The probe dies, or a call of its finally block takes too long, which raises.
ProbeDies(p) ==
  /\ probe[p].pc \notin {"idle", "done"}
  /\ Goes(p, [NewProbe EXCEPT !.pc = "done", !.tidy = FALSE, !.verdict = "raised"])
  /\ Counted(TRUE) /\ SameAccount

ProbeStep(p) ==
  \/ ProbeStopsEarly(p) \/ ProbeDies(p)
  \/ \E b \in BOOLEAN :
       \/ ProbeCreatesEndpoint(p, b) \/ ProbeCreatesGroup(p, b) \/ ProbeAsks(p, b)
       \/ ProbeReadsLogs(p, b) \/ ProbeDeletesGroup(p, b) \/ ProbeDeletesEndpoint(p, b)
       \/ ProbeListsEndpoints(p, b) \/ ProbeListsGroups(p, b)
       \/ \E e \in BOOLEAN : ProbeNotAdmitted(p, b, e) \/ ProbeAdmitted(p, b, e)
                             \/ ProbeReports(p, b, e)

-------------------------------------------------------------------------------
(* A job sent to the operator's deployment *)

\* The job's next state is t.
TaskBecomes(j, t) == task' = [task EXCEPT ![j] = t] /\ SameAccount

\* submit_job's guard before the provider.
TaskGuarded(j, ok, answered) ==
  /\ task[j].pc = "guard"
  /\ AccountGuard(ok, answered)
  /\ TaskBecomes(j, IF ok THEN [pc |-> "ask", status |-> "starting", blind |-> ~answered]
                          ELSE [pc |-> "done", status |-> "failed", blind |-> ~answered])

TaskRuns(j) ==
  /\ task[j].pc = "ask" /\ task[j].status = "starting"
  /\ TaskBecomes(j, [task[j] EXCEPT !.status = "running"]) /\ Counted(FALSE)

\* One call, no retry and nothing to clean up.  No deployment, no answer in time, an
\* answer that is not ok or artifacts that fail verification: the job has failed.
TaskAnswered(j, ok) ==
  /\ task[j].pc = "ask" /\ task[j].status = "running"
  /\ ok => Known \in Endpoints \cap Groups
  /\ TaskBecomes(j, [task[j] EXCEPT !.pc = "postguard",
                                    !.status = IF ok THEN "succeeded" ELSE "failed"])
  /\ Counted(FALSE)

\* The guard after the provider fails a job that has no error.
TaskAudited(j, ok, answered) ==
  /\ task[j].pc = "postguard"
  /\ AccountGuard(ok, answered)
  /\ TaskBecomes(j, [task[j] EXCEPT !.pc = "done", !.status = IF ok THEN @ ELSE "failed",
                                    !.blind = @ \/ ~answered])

TaskDies(j) ==
  /\ task[j].pc \notin {"guard", "done"}
  /\ TaskBecomes(j, [task[j] EXCEPT !.pc = "done"]) /\ Counted(TRUE)

TaskStep(j) ==
  \/ TaskRuns(j) \/ TaskDies(j)
  \/ \E b \in BOOLEAN :
       \/ TaskAnswered(j, b)
       \/ \E e \in BOOLEAN : TaskGuarded(j, b, e) \/ TaskAudited(j, b, e)

-------------------------------------------------------------------------------
(* The account as a whole *)

LeasesAtRest ==
  rec = [j \in Jobs |-> NewRecord(j)] /\ run = [c \in Callers |-> Idle]

Begun == {p \in Probes : probe[p] # NewProbe} \cup {j \in PyworkerJobs : task[j] # NewTask}

ServerlessAtRest ==
  Begun = {} /\ Endpoints = {}

VastInit == Init /\ ServerlessInit

\* Instances and deployments are explored one beside the other at rest: to the
\* guards of the one, the other is an account that is not empty, as the instances
\* of others are.
VastNext ==
  \/ ServerlessAtRest /\ LeaseNext /\ UNCHANGED serverlessVars
  \/ /\ LeasesAtRest
     /\ \/ (\E p \in Probes : ProbeStep(p)) /\ UNCHANGED task
        \/ (\E j \in PyworkerJobs : TaskStep(j)) /\ UNCHANGED probe
     /\ Cardinality(Begun') <= MaxServerless
     /\ UNCHANGED <<inst, rec, wal, run, reaper, retries>>
  \/ /\ LeasesAtRest
     /\ \E i \in Ids : ForeignInstance(i)
     /\ UNCHANGED serverlessVars

vastVars == <<inst, rec, wal, run, reaper, retries, faults,
              endpoint, group, probe, task>>

VastSpec == VastInit /\ [][VastNext]_vastVars

-------------------------------------------------------------------------------
(* Properties *)

VastTypeOK == LeaseTypeOK /\ ServerlessTypeOK

\* A probe of which nothing was lost leaves no endpoint and no workergroup of its
\* own behind, wherever it stopped (the script's finally block, 184-203).
TidyProbeLeavesNothing ==
  \A p \in Probes : ProbeAt(p, "done") /\ probe[p].tidy => p \notin Endpoints \cup Groups

\* A probe that reports ok has left nothing of its own, although it looks at no
\* delete and its guard may be blind: the listings and the guard have to agree
\* (_cleanup_ok, 574-590).
ProbeOkLeavesNothing ==
  \A p \in Probes : probe[p].verdict = "ok" => p \notin Endpoints \cup Groups

\* No probe deletes the operator's deployment, also one that works with it.
DeploymentSpared ==
  [][endpoint'[Known] = endpoint[Known] /\ group'[Known] = group[Known]]_vastVars

\* While a deployment is kept, a job sent to it is failed by a guard, unless a guard
\* was blind: submit_job asks the guard before and after (runner.py:244-258, 336-339),
\* and to the guard the deployment is a residue (vast.py:1141-1153).
DeploymentFailsItsJobs ==
  \A j \in PyworkerJobs :
    task[j].pc = "done" /\ task[j].status = "succeeded" => task[j].blind
===============================================================================

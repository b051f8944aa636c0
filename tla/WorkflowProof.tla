---------------------------- MODULE WorkflowProof ----------------------------
(***************************************************************************)
(* Theorems about workflows, for any flows, callers, plans and crashes.    *)
(***************************************************************************)
EXTENDS WorkflowProps, FiniteSetTheorems, TLAPS

-------------------------------------------------------------------------------
(* Types *)

\* A workflow with jobs is shown the first of five statuses some job has.
LEMMA DerivedStatus ==
  ASSUME WorkflowTypeOK, NEW w \in Flows
  PROVE  \/ Derived(w) = manifest[w]
         \/ Derived(w) \in {"running", "queued", "failed", "cancelled", "succeeded"}
<1>. DEFINE there == {jobs[w][x] : x \in Present(w)}
            order == <<"active", "queued", "failed", "cancelled", "succeeded">>
            first == CHOOSE i \in 1..5 : order[i] \in there /\ \A k \in 1..(i - 1) : order[k] \notin there
<1>1. CASE manifest[w] \in Kept \/ there = {}
  BY <1>1 DEF Derived
<1>2. CASE manifest[w] \notin Kept /\ there # {}
  <2>1. there \subseteq {"active", "queued", "failed", "cancelled", "succeeded"}
    BY DEF WorkflowTypeOK, Present, JobStatuses
  <2>2. \E i \in 1..5 : order[i] \in there /\ \A k \in 1..(i - 1) : order[k] \notin there
    <3>1. CASE "active" \in there
      <4>1. 1 \in 1..5 /\ order[1] \in there /\ \A k \in 1..(1 - 1) : order[k] \notin there
        BY <3>1
      <4>. QED BY <4>1
    <3>2. CASE "active" \notin there /\ "queued" \in there
      <4>1. 2 \in 1..5 /\ order[2] \in there /\ \A k \in 1..(2 - 1) : order[k] \notin there
        BY <3>2
      <4>. QED BY <4>1
    <3>3. CASE {"active", "queued"} \cap there = {} /\ "failed" \in there
      <4>1. \A k \in 1..(3 - 1) : k = 1 \/ k = 2
        OBVIOUS
      <4>2. 3 \in 1..5 /\ order[3] \in there /\ order[1] \notin there /\ order[2] \notin there
        BY <3>3
      <4>. QED BY <4>1, <4>2
    <3>4. CASE {"active", "queued", "failed"} \cap there = {} /\ "cancelled" \in there
      <4>1. \A k \in 1..(4 - 1) : k = 1 \/ k = 2 \/ k = 3
        OBVIOUS
      <4>2. 4 \in 1..5 /\ order[4] \in there /\ order[1] \notin there /\ order[2] \notin there /\ order[3] \notin there
        BY <3>4
      <4>. QED BY <4>1, <4>2
    <3>5. CASE {"active", "queued", "failed", "cancelled"} \cap there = {}
      <4>1. \A k \in 1..(5 - 1) : k = 1 \/ k = 2 \/ k = 3 \/ k = 4
        OBVIOUS
      <4>2. "succeeded" \in there
        BY <1>2, <2>1, <3>5
      <4>3. 5 \in 1..5 /\ order[5] \in there /\ order[1] \notin there /\ order[2] \notin there /\ order[3] \notin there /\ order[4] \notin there
        BY <4>2, <3>5
      <4>. QED BY <4>1, <4>3
    <3>. QED BY <3>1, <3>2, <3>3, <3>4, <3>5
  <2>3. first \in 1..5
    BY <2>2
  <2>4. order[first] \in {"active", "queued", "failed", "cancelled", "succeeded"}
    <3>1. \A i \in 1..5 : i = 1 \/ i = 2 \/ i = 3 \/ i = 4 \/ i = 5
      OBVIOUS
    <3>2. \A i \in 1..5 : order[i] \in {"active", "queued", "failed", "cancelled", "succeeded"}
      BY <3>1
    <3>. HIDE DEF order, first
    <3>. QED BY <2>3, <3>2
  <2>5. Derived(w) = IF order[first] = "active" THEN "running" ELSE order[first]
    BY <1>2 DEF Derived
  <2>. HIDE DEF order, first
  <2>. QED BY <2>4, <2>5
<1>. QED BY <1>1, <1>2

\* Every plan, todo list and status an operation holds is one of its type.
LEMMA BegunTyped ==
  ASSUME WorkflowTypeOK, NEW a \in Actors, NEW w \in Flows, NEW todo, NEW s, NEW ex \in BOOLEAN,
         todo \subseteq JobIds \/ todo \subseteq {"split", "map", "reduce"} \X (1..Chunks),
         s \in ManifestStatuses, Begin(a, w, todo, s, ex)
  PROVE  /\ task' \in [Actors -> Task \cup {NoTask}]
         /\ task'[a] = [flow |-> w, todo |-> todo, status |-> s, execute |-> ex]
         /\ task'[a] \in Task
         /\ \A b \in Actors : b # a => task'[b] = task[b]
<1>. DEFINE t == [flow |-> w, todo |-> todo, status |-> s, execute |-> ex]
<1>1. todo \in SUBSET (JobIds \cup {"split", "map", "reduce"} \X (1..Chunks))
  OBVIOUS
<1>2. t \in Task
  BY <1>1 DEF Task
<1>3. task' = [task EXCEPT ![a] = t]
  BY DEF Begin
<1>. HIDE DEF t
<1>4. task' \in [Actors -> Task \cup {NoTask}] /\ task'[a] = t
  BY <1>2, <1>3 DEF WorkflowTypeOK
<1>5. \A b \in Actors : b # a => task'[b] = task[b]
  BY <1>3 DEF WorkflowTypeOK
<1>. QED BY <1>2, <1>4, <1>5 DEF t

\* The phases in which a process holds an operation.
LEMMA TaskTyped ==
  ASSUME WorkflowTypeOK, NEW a \in Actors,
         pc[a] \in {"planning", "creating", "approving", "cancelling"}
  PROVE  /\ task[a] \in Task /\ task[a].flow \in Flows /\ task[a].status \in ManifestStatuses
         /\ task[a].execute \in BOOLEAN
         /\ task[a].todo \subseteq JobIds \cup {"split", "map", "reduce"} \X (1..Chunks)
BY DEF WorkflowTypeOK, Task

\* A process moves on to a phase; if that is one of an operation, it holds one.
LEMMA MovesTyped ==
  ASSUME WorkflowTypeOK, NEW a \in Actors, NEW p \in Phases, Goto(a, p),
         task' \in [Actors -> Task \cup {NoTask}],
         \A b \in Actors : b # a => task'[b] = task[b],
         p \notin {"idle", "down", "budget", "advance"} => task'[a] \in Task
  PROVE  /\ pc' \in [Actors -> Phases]
         /\ \A b \in Actors : pc'[b] \notin {"idle", "down", "budget", "advance"} => task'[b] \in Task
BY DEF WorkflowTypeOK, Goto

LEMMA TypeInit == WorkflowInit => WorkflowTypeOK
<1>. SUFFICES ASSUME WorkflowInit PROVE WorkflowTypeOK
  OBVIOUS
<1>1. jobs \in [Flows -> [JobIds -> JobStatuses]]
  BY DEF WorkflowInit, JobStatuses
<1>2. executions \in [Flows -> 0..Rounds]
  BY FlowAssumption DEF WorkflowInit
<1>. QED BY <1>1, <1>2 DEF WorkflowInit, WorkflowTypeOK, ManifestStatuses, Phases

\* Writing one child leaves the rest of the state as it was typed.
LEMMA JobTyped ==
  ASSUME WorkflowTypeOK, NEW w \in Flows, NEW x \in JobIds, NEW s \in JobStatuses,
         jobs' = [jobs EXCEPT ![w][x] = s]
  PROVE  jobs' \in [Flows -> [JobIds -> JobStatuses]]
BY DEF WorkflowTypeOK

\* Ticking off a child leaves the operation typed.
LEMMA DoneTyped ==
  ASSUME WorkflowTypeOK, NEW a \in Actors, task[a] \in Task, NEW t, Done(a, t)
  PROVE  /\ task' \in [Actors -> Task \cup {NoTask}]
         /\ task'[a] = [task[a] EXCEPT !.todo = @ \ {t}]
         /\ task'[a] \in Task
         /\ \A b \in Actors : b # a => task'[b] = task[b]
<1>. DEFINE r == [task[a] EXCEPT !.todo = @ \ {t}]
<1>1. r \in Task
  BY DEF Task
<1>2. task' = [task EXCEPT ![a] = r]
  BY DEF Done
<1>. HIDE DEF r
<1>3. task' \in [Actors -> Task \cup {NoTask}] /\ task'[a] = r
  BY <1>1, <1>2 DEF WorkflowTypeOK
<1>4. \A b \in Actors : b # a => task'[b] = task[b]
  BY <1>2 DEF WorkflowTypeOK
<1>. QED BY <1>1, <1>3, <1>4 DEF r

LEMMA FirstStageTyped ==
  ASSUME NEW w \in Flows
  PROVE  FirstStage(w) \subseteq {"split", "map", "reduce"} \X (1..Chunks)
<1>1. 1 \in 1..Chunks
  BY FlowAssumption
<1>. QED BY <1>1 DEF FirstStage

-------------------------------------------------------------------------------
(* The map jobs of a chunk *)

ChunkJobs(w, i) == {x \in Maps(w) : x[2] = i}

\* The processes that still have to create a map job of chunk i.
Creators(w, i) ==
  {a \in Actors : pc[a] = "creating" /\ task[a].flow = w /\ <<"map", i>> \in task[a].todo}

MapBudget(w) == IF Kind[w] = "media" THEN 1 ELSE executions[w]

\* The jobs of a chunk and those still to be created are within the budget; the
\* segments of a media workflow are only mapped by the service.
ChunkInv(w, i) ==
  /\ IsFiniteSet(ChunkJobs(w, i)) /\ IsFiniteSet(Creators(w, i))
  /\ Cardinality(ChunkJobs(w, i)) + Cardinality(Creators(w, i)) <= MapBudget(w)
  /\ Kind[w] = "media" => Creators(w, i) \subseteq {Service}

\* Children to create are stages and indices; jobs to cancel are there.
TodoInv(a) ==
  /\ pc[a] = "creating" => task[a].todo \subseteq {"split", "map", "reduce"} \X (1..Chunks)
  /\ pc[a] = "cancelling" => task[a].todo \subseteq Present(task[a].flow)

JobsInv ==
  /\ WorkflowTypeOK
  /\ \A a \in Actors : TodoInv(a)
  /\ \A w \in Flows, i \in 1..Chunks : ChunkInv(w, i)

\* The other processes are where they were.
Alone(a) == \A b \in Actors : b # a => pc'[b] = pc[b] /\ task'[b] = task[b]

\* A process moves on with an operation of its type, or with none.
LEMMA OperationTyped ==
  ASSUME WorkflowTypeOK, NEW a \in Actors, NEW p \in Phases, Goto(a, p),
         task' \in [Actors -> Task \cup {NoTask}],
         \A b \in Actors : b # a => task'[b] = task[b],
         p \notin {"idle", "down", "budget", "advance"} => task'[a] \in Task,
         jobs' \in [Flows -> [JobIds -> JobStatuses]],
         manifest' \in [Flows -> ManifestStatuses],
         executions' \in [Flows -> 0..Rounds],
         left' \subseteq Flows
  PROVE  WorkflowTypeOK' /\ Alone(a) /\ pc'[a] = p
<1>1. /\ pc' \in [Actors -> Phases]
      /\ \A b \in Actors : pc'[b] \notin {"idle", "down", "budget", "advance"} => task'[b] \in Task
  BY MovesTyped
<1>2. pc'[a] = p /\ \A b \in Actors : b # a => pc'[b] = pc[b]
  BY DEF Goto, WorkflowTypeOK
<1>. QED BY <1>1, <1>2 DEF WorkflowTypeOK, Alone

\* Fewer jobs, fewer creators and more executions keep a chunk within its budget.
LEMMA ChunkShrinks ==
  ASSUME WorkflowTypeOK, WorkflowTypeOK', NEW w \in Flows, NEW i \in 1..Chunks, ChunkInv(w, i),
         ChunkJobs(w, i)' \subseteq ChunkJobs(w, i), Creators(w, i)' \subseteq Creators(w, i),
         executions'[w] >= executions[w]
  PROVE  ChunkInv(w, i)'
<1>. DEFINE A == ChunkJobs(w, i)  B == Creators(w, i)
<1>1. IsFiniteSet(A) /\ IsFiniteSet(B) /\ Cardinality(A) + Cardinality(B) <= MapBudget(w)
  BY DEF ChunkInv
<1>2. IsFiniteSet(A') /\ Cardinality(A') <= Cardinality(A)
  BY <1>1, FS_Subset
<1>3. IsFiniteSet(B') /\ Cardinality(B') <= Cardinality(B)
  BY <1>1, FS_Subset
<1>4. /\ Cardinality(A) \in Nat /\ Cardinality(B) \in Nat
      /\ Cardinality(A') \in Nat /\ Cardinality(B') \in Nat
  BY <1>1, <1>2, <1>3, FS_CardinalityType
<1>5. MapBudget(w) \in Nat /\ MapBudget(w)' \in Nat /\ MapBudget(w) <= MapBudget(w)'
  BY FlowAssumption DEF WorkflowTypeOK, MapBudget
<1>6. Cardinality(A') + Cardinality(B') <= MapBudget(w)'
  BY <1>1, <1>2, <1>3, <1>4, <1>5
<1>. QED BY <1>2, <1>3, <1>6 DEF ChunkInv

\* A step that creates no job and begins no creation.
LEMMA QuietKeeps ==
  ASSUME JobsInv, WorkflowTypeOK', NEW a \in Actors, Alone(a),
         pc'[a] # "creating",
         pc'[a] = "cancelling" => task'[a].todo \subseteq Present(task'[a].flow),
         \A w \in Flows : Present(w)' = Present(w), UNCHANGED executions
  PROVE  JobsInv'
<1>1. ASSUME NEW b \in Actors PROVE TodoInv(b)'
  <2>1. CASE b = a
    <3>1. pc'[a] = "cancelling" => task'[a].flow \in Flows
      BY DEF WorkflowTypeOK, Task
    <3>. QED BY <2>1, <3>1 DEF TodoInv
  <2>2. CASE b # a
    <3>1. pc'[b] = pc[b] /\ task'[b] = task[b] /\ TodoInv(b)
      BY <2>2 DEF Alone, JobsInv
    <3>2. pc[b] = "cancelling" => task[b].flow \in Flows
      BY TaskTyped DEF JobsInv
    <3>. QED BY <3>1, <3>2 DEF TodoInv
  <2>. QED BY <2>1, <2>2
<1>2. ASSUME NEW w \in Flows, NEW i \in 1..Chunks PROVE ChunkInv(w, i)'
  <2>1. ChunkJobs(w, i)' = ChunkJobs(w, i)
    BY DEF ChunkJobs, Maps
  <2>2. Creators(w, i)' \subseteq Creators(w, i)
    BY DEF Creators, Alone
  <2>3. executions[w] \in Nat
    BY FlowAssumption DEF JobsInv, WorkflowTypeOK
  <2>. QED BY <2>1, <2>2, <2>3, ChunkShrinks DEF JobsInv
<1>. QED BY <1>1, <1>2 DEF JobsInv

\* A process that moves on to a phase without an operation.
LEMMA IdleKeeps ==
  ASSUME JobsInv, NEW a \in Actors, NEW p \in {"idle", "down", "budget", "advance"}, Goto(a, p),
         task' = task \/ Drop(a), UNCHANGED <<jobs, executions>>,
         manifest' \in [Flows -> ManifestStatuses], left' \subseteq Flows
  PROVE  JobsInv'
<1>1. /\ task' \in [Actors -> Task \cup {NoTask}]
      /\ \A b \in Actors : b # a => task'[b] = task[b]
  BY DEF JobsInv, WorkflowTypeOK, Drop
<1>2. p \in Phases
  BY DEF Phases
<1>3. WorkflowTypeOK' /\ Alone(a) /\ pc'[a] = p
  <2>1. /\ jobs' \in [Flows -> [JobIds -> JobStatuses]]
        /\ executions' \in [Flows -> 0..Rounds]
    BY DEF JobsInv, WorkflowTypeOK
  <2>. QED BY <1>1, <1>2, <2>1, OperationTyped DEF JobsInv
<1>. QED BY <1>3, QuietKeeps DEF Present

\* A process that begins to approve or to drain.
LEMMA BeginsKeeps ==
  ASSUME JobsInv, NEW a \in Actors, NEW w \in Flows, NEW todo \in SUBSET Present(w),
         NEW s \in ManifestStatuses, NEW ex \in BOOLEAN, NEW p \in {"approving", "cancelling"},
         Begin(a, w, todo, s, ex), Goto(a, p),
         UNCHANGED <<jobs, manifest, executions>>, left' \subseteq Flows
  PROVE  JobsInv'
<1>1. todo \subseteq JobIds
  BY DEF Present
<1>2. /\ task' \in [Actors -> Task \cup {NoTask}]
      /\ task'[a] = [flow |-> w, todo |-> todo, status |-> s, execute |-> ex]
      /\ task'[a] \in Task
      /\ \A b \in Actors : b # a => task'[b] = task[b]
  BY <1>1, BegunTyped DEF JobsInv
<1>3. p \in Phases
  BY DEF Phases
<1>4. WorkflowTypeOK' /\ Alone(a) /\ pc'[a] = p
  <2>1. /\ jobs' \in [Flows -> [JobIds -> JobStatuses]]
        /\ manifest' \in [Flows -> ManifestStatuses]
        /\ executions' \in [Flows -> 0..Rounds]
    BY DEF JobsInv, WorkflowTypeOK
  <2>. QED BY <1>2, <1>3, <2>1, OperationTyped DEF JobsInv
<1>5. task'[a].todo \subseteq Present(task'[a].flow)
  BY <1>2
<1>. QED BY <1>4, <1>5, QuietKeeps DEF Present

LEMMA SavesKeep ==
  ASSUME JobsInv, NEW a \in Actors, SaveManifest(a) \/ DrainSave(a)
  PROVE  JobsInv'
<1>1. task[a].flow \in Flows /\ task[a].status \in ManifestStatuses
  BY TaskTyped DEF SaveManifest, DrainSave, JobsInv
<1>2. PICK p \in {"idle", "budget", "advance"} : Goto(a, p)
  BY DEF SaveManifest, DrainSave, Resume
<1>3. manifest' \in [Flows -> ManifestStatuses]
  BY <1>1 DEF SaveManifest, DrainSave, JobsInv, WorkflowTypeOK, ManifestStatuses, Kept
<1>4. Drop(a) /\ UNCHANGED <<jobs, executions>> /\ left' \subseteq Flows
  BY DEF SaveManifest, DrainSave, JobsInv, WorkflowTypeOK
<1>. QED BY <1>2, <1>3, <1>4, IdleKeeps

LEMMA BlocksKeep ==
  ASSUME JobsInv, NEW c \in Actors, NEW w \in Flows, NEW force, PlanBlocks(c, w, force)
  PROVE  JobsInv'
<1>1. manifest' \in [Flows -> ManifestStatuses]
  BY DEF PlanBlocks, JobsInv, WorkflowTypeOK, ManifestStatuses, Kept
<1>2. Goto(c, "idle") /\ Drop(c) /\ UNCHANGED <<jobs, executions>> /\ left' \subseteq Flows
  BY DEF PlanBlocks, JobsInv, WorkflowTypeOK
<1>. QED BY <1>1, <1>2, IdleKeeps

LEMMA ApprovalsKeep ==
  ASSUME JobsInv, NEW c \in Actors,
         \/ \E w \in Flows, ex \in BOOLEAN : ApproveRead(c, w, ex)
         \/ ApproveSave(c)
  PROVE  JobsInv'
<1>1. ASSUME NEW w \in Flows, NEW ex \in BOOLEAN, ApproveRead(c, w, ex) PROVE JobsInv'
  <2>. DEFINE s == IF manifest[w] = "pending_approval" THEN "approved" ELSE Derived(w)
  <2>1. manifest[w] \in ManifestStatuses
    BY DEF JobsInv, WorkflowTypeOK
  <2>2. s \in ManifestStatuses
    BY <2>1, DerivedStatus DEF JobsInv, ManifestStatuses, Kept, Terminal
  <2>3. /\ Begin(c, w, {}, s, ex) /\ Goto(c, "approving")
        /\ UNCHANGED <<jobs, manifest, executions>> /\ left' \subseteq Flows
    BY <1>1 DEF ApproveRead, JobsInv, WorkflowTypeOK
  <2>. HIDE DEF s
  <2>4. {} \in SUBSET Present(w)
    OBVIOUS
  <2>. QED BY <2>2, <2>3, <2>4, BeginsKeeps
<1>2. CASE ApproveSave(c)
  <2>1. task[c] \in Task /\ task[c].flow \in Flows /\ task[c].status \in ManifestStatuses
    BY <1>2, TaskTyped DEF ApproveSave, JobsInv
  <2>2. manifest' \in [Flows -> ManifestStatuses]
    BY <1>2, <2>1 DEF ApproveSave, JobsInv, WorkflowTypeOK
  <2>3. UNCHANGED <<jobs, executions>> /\ left' \subseteq Flows
    BY <1>2 DEF ApproveSave, JobsInv, WorkflowTypeOK
  <2>4. CASE Goto(c, "idle") /\ Drop(c)
    BY <2>2, <2>3, <2>4, IdleKeeps
  <2>5. CASE Goto(c, "planning") /\ task' = task
    <3>1. "planning" \in Phases
      BY DEF Phases
    <3>2. WorkflowTypeOK' /\ Alone(c) /\ pc'[c] = "planning"
      <4>1. /\ jobs' \in [Flows -> [JobIds -> JobStatuses]]
            /\ executions' \in [Flows -> 0..Rounds]
            /\ task' \in [Actors -> Task \cup {NoTask}] /\ task'[c] \in Task
            /\ \A b \in Actors : b # c => task'[b] = task[b]
        BY <2>1, <2>3, <2>5 DEF JobsInv, WorkflowTypeOK
      <4>. QED BY <2>2, <2>3, <2>5, <3>1, <4>1, OperationTyped DEF JobsInv
    <3>. QED BY <2>3, <3>2, QuietKeeps DEF Present
  <2>. QED BY <1>2, <2>4, <2>5 DEF ApproveSave
<1>. QED BY <1>1, <1>2

LEMMA DrainsKeep ==
  ASSUME JobsInv, NEW a \in Actors, NEW w \in Flows, DrainRead(a, w), left' \subseteq Flows
  PROVE  JobsInv'
<1>. DEFINE todo == {x \in JobIds : jobs[w][x] = "queued"}
<1>1. todo \in SUBSET Present(w)
  BY DEF Present
<1>2. "draining" \in ManifestStatuses
  BY DEF ManifestStatuses, Kept
<1>3. /\ Begin(a, w, todo, "draining", FALSE) /\ Goto(a, "cancelling")
      /\ UNCHANGED <<jobs, manifest, executions>>
  BY DEF DrainRead
<1>. HIDE DEF todo
<1>. QED BY <1>1, <1>2, <1>3, BeginsKeeps

\* A job that is there gets another status.
LEMMA PresentKept ==
  ASSUME WorkflowTypeOK, NEW w \in Flows, NEW x \in JobIds, NEW s \in JobStatuses \ {"absent"},
         x \in Present(w), jobs' = [jobs EXCEPT ![w][x] = s]
  PROVE  /\ jobs' \in [Flows -> [JobIds -> JobStatuses]]
         /\ \A v \in Flows : Present(v)' = Present(v)
<1>1. jobs' \in [Flows -> [JobIds -> JobStatuses]]
  BY JobTyped
<1>2. \A v \in Flows : Present(v)' = Present(v)
  BY DEF Present, WorkflowTypeOK
<1>. QED BY <1>1, <1>2

LEMMA CancelsKeep ==
  ASSUME JobsInv, NEW a \in Actors, NEW x \in JobIds, CancelNext(a, x)
  PROVE  JobsInv'
<1>. DEFINE w == task[a].flow
<1>1. w \in Flows /\ task[a] \in Task
  BY TaskTyped DEF CancelNext, JobsInv
<1>2. /\ jobs' = [jobs EXCEPT ![w][x] = "cancelled"] /\ Done(a, x)
      /\ pc[a] = "cancelling" /\ x \in task[a].todo
      /\ UNCHANGED <<manifest, pc, left, executions>>
  BY DEF CancelNext
<1>3. task[a].todo \subseteq Present(w)
  BY <1>2 DEF JobsInv, TodoInv
<1>4. "cancelled" \in JobStatuses \ {"absent"}
  BY DEF JobStatuses
<1>5. /\ jobs' \in [Flows -> [JobIds -> JobStatuses]]
      /\ \A v \in Flows : Present(v)' = Present(v)
  BY <1>1, <1>2, <1>3, <1>4, PresentKept DEF JobsInv
<1>6. /\ task' \in [Actors -> Task \cup {NoTask}]
      /\ task'[a] = [task[a] EXCEPT !.todo = @ \ {x}]
      /\ task'[a] \in Task
      /\ \A b \in Actors : b # a => task'[b] = task[b]
  BY <1>1, <1>2, DoneTyped DEF JobsInv
<1>7. task'[a].flow = w /\ task'[a].todo = task[a].todo \ {x}
  BY <1>1, <1>6 DEF Task
<1>8. WorkflowTypeOK'
  BY <1>2, <1>5, <1>6 DEF JobsInv, WorkflowTypeOK
<1>9. Alone(a) /\ pc'[a] = "cancelling" /\ task'[a].todo \subseteq Present(task'[a].flow)
  BY <1>2, <1>3, <1>6, <1>7 DEF Alone
<1>. QED BY <1>2, <1>5, <1>8, <1>9, QuietKeeps

LEMMA QueueKeepsJobs == JobsInv /\ QueueStep => JobsInv'
<1>. SUFFICES ASSUME JobsInv,
                     NEW w \in Flows, NEW x \in JobIds,
                     JobStarts(w, x) \/ JobEnds(w, x) \/ JobRetried(w, x)
              PROVE  JobsInv'
  BY DEF QueueStep
<1>1. x \in Present(w)
  BY DEF JobStarts, JobEnds, JobRetried, Present
<1>2. PICK s \in JobStatuses \ {"absent"} : JobMoves(w, x, s)
  BY DEF JobStarts, JobEnds, JobRetried, JobStatuses
<1>3. /\ jobs' \in [Flows -> [JobIds -> JobStatuses]]
      /\ \A v \in Flows : Present(v)' = Present(v)
  BY <1>1, <1>2, PresentKept DEF JobMoves, JobsInv
<1>4. UNCHANGED <<manifest, pc, task, left, executions>>
  BY <1>2 DEF JobMoves
<1>5. WorkflowTypeOK'
  BY <1>3, <1>4 DEF JobsInv, WorkflowTypeOK
<1>6. ASSUME NEW a \in Actors PROVE TodoInv(a)'
  <2>1. pc[a] = "cancelling" => task[a].flow \in Flows
    BY TaskTyped DEF JobsInv
  <2>. QED BY <1>3, <1>4, <2>1 DEF JobsInv, TodoInv
<1>7. ASSUME NEW v \in Flows, NEW i \in 1..Chunks PROVE ChunkInv(v, i)'
  <2>1. ChunkJobs(v, i)' = ChunkJobs(v, i) /\ Creators(v, i)' = Creators(v, i)
    BY <1>3, <1>4 DEF ChunkJobs, Maps, Creators
  <2>. QED BY <1>4, <2>1 DEF JobsInv, ChunkInv, MapBudget
<1>. QED BY <1>5, <1>6, <1>7 DEF JobsInv

\* A process that begins to create children: map jobs for an execution that is
\* counted with it, or those of a media workflow that has none.
LEMMA CreationBegins ==
  ASSUME JobsInv, NEW a \in Actors, NEW w \in Flows,
         NEW todo \in SUBSET ({"split", "map", "reduce"} \X (1..Chunks)),
         pc[a] # "creating", Begin(a, w, todo, "queued", FALSE), Goto(a, "creating"),
         UNCHANGED <<jobs, manifest>>, left' \subseteq Flows,
         executions' \in [Flows -> 0..Rounds], \A v \in Flows : executions'[v] >= executions[v],
         \A i \in 1..Chunks : <<"map", i>> \in todo =>
           \/ Kind[w] # "media" /\ executions'[w] = executions[w] + 1
           \/ Kind[w] = "media" /\ a = Service /\ Maps(w) = {}
  PROVE  JobsInv'
<1>1. "queued" \in ManifestStatuses /\ "creating" \in Phases
  BY DEF ManifestStatuses, Phases
<1>2. /\ task' \in [Actors -> Task \cup {NoTask}]
      /\ task'[a] = [flow |-> w, todo |-> todo, status |-> "queued", execute |-> FALSE]
      /\ task'[a] \in Task
      /\ \A b \in Actors : b # a => task'[b] = task[b]
  BY <1>1, BegunTyped DEF JobsInv
<1>3. WorkflowTypeOK' /\ Alone(a) /\ pc'[a] = "creating"
  <2>1. /\ jobs' \in [Flows -> [JobIds -> JobStatuses]]
        /\ manifest' \in [Flows -> ManifestStatuses]
    BY DEF JobsInv, WorkflowTypeOK
  <2>. QED BY <1>1, <1>2, <2>1, OperationTyped DEF JobsInv
<1>4. task'[a].flow = w /\ task'[a].todo = todo
  BY <1>2
<1>5. ASSUME NEW b \in Actors PROVE TodoInv(b)'
  <2>1. CASE b = a
    BY <1>3, <1>4, <2>1 DEF TodoInv
  <2>2. CASE b # a
    BY <1>3, <2>2 DEF Alone, JobsInv, TodoInv, Present
  <2>. QED BY <2>1, <2>2
<1>6. ASSUME NEW v \in Flows, NEW i \in 1..Chunks PROVE ChunkInv(v, i)'
  <2>. DEFINE A == ChunkJobs(v, i)  B == Creators(v, i)
  <2>1. A' = A
    BY DEF ChunkJobs, Maps, Present
  <2>2. CASE v # w \/ <<"map", i>> \notin todo
    <3>1. B' \subseteq B
      BY <1>3, <1>4, <2>2 DEF Creators, Alone
    <3>. QED BY <1>3, <2>1, <3>1, ChunkShrinks DEF JobsInv
  <2>3. CASE v = w /\ <<"map", i>> \in todo
    <3>1. B' \subseteq B \cup {a} /\ a \notin B
      BY <1>3 DEF Creators, Alone
    <3>2. /\ IsFiniteSet(A) /\ IsFiniteSet(B) /\ Cardinality(A) + Cardinality(B) <= MapBudget(v)
          /\ Kind[v] = "media" => B \subseteq {Service}
      BY DEF JobsInv, ChunkInv
    <3>3. IsFiniteSet(B \cup {a}) /\ Cardinality(B \cup {a}) = Cardinality(B) + 1
      BY <3>1, <3>2, FS_AddElement
    <3>4. IsFiniteSet(B') /\ Cardinality(B') <= Cardinality(B \cup {a})
      BY <3>1, <3>3, FS_Subset
    <3>5. /\ Cardinality(A) \in Nat /\ Cardinality(B) \in Nat /\ Cardinality(B') \in Nat
          /\ executions[v] \in Nat
      BY <3>2, <3>4, FS_CardinalityType, FlowAssumption DEF JobsInv, WorkflowTypeOK
    <3>6. CASE Kind[w] # "media" /\ executions'[w] = executions[w] + 1
      <4>1. Cardinality(A) + Cardinality(B') <= executions[v] + 1
        <5>1. Cardinality(A) + Cardinality(B) <= executions[v]
          BY <2>3, <3>2, <3>6 DEF MapBudget
        <5>. QED BY <3>3, <3>4, <3>5, <5>1
      <4>2. MapBudget(v)' = executions[v] + 1
        BY <2>3, <3>6 DEF MapBudget
      <4>3. Cardinality(A') + Cardinality(B') <= MapBudget(v)'
        BY <2>1, <4>1, <4>2
      <4>. QED BY <2>1, <2>3, <3>2, <3>4, <3>6, <4>3 DEF ChunkInv
    <3>7. CASE Kind[w] = "media" /\ a = Service /\ Maps(w) = {}
      <4>1. A = {} /\ B = {}
        BY <2>3, <3>1, <3>2, <3>7 DEF ChunkJobs
      <4>2. Cardinality(A) = 0 /\ Cardinality(B) = 0
        BY <4>1, FS_EmptySet
      <4>3. B' \subseteq {Service}
        BY <3>1, <3>7, <4>1
      <4>4. Cardinality(A') + Cardinality(B') <= 1
        BY <2>1, <3>3, <3>4, <3>5, <4>2
      <4>5. MapBudget(v)' = 1
        BY <2>3, <3>7 DEF MapBudget
      <4>6. IsFiniteSet(A')
        BY <2>1, <3>2
      <4>7. Cardinality(A') + Cardinality(B') <= MapBudget(v)'
        BY <4>4, <4>5
      <4>. QED BY <3>4, <4>3, <4>6, <4>7 DEF ChunkInv
    <3>. QED BY <2>3, <3>6, <3>7
  <2>. QED BY <2>2, <2>3
<1>. QED BY <1>3, <1>5, <1>6 DEF JobsInv

LEMMA PassesKeep ==
  ASSUME JobsInv, NEW c \in Callers, NEW w \in Flows, NEW force, PlanPasses(c, w, force),
         pc[c] # "creating"
  PROVE  JobsInv'
<1>1. c \in Actors
  BY DEF Actors
<1>2. executions[w] \in 0..Rounds /\ Rounds \in Nat
  BY FlowAssumption DEF JobsInv, WorkflowTypeOK
<1>3. executions' = [executions EXCEPT ![w] = executions[w] + 1] /\ executions[w] + 1 \in 0..Rounds
  BY <1>2 DEF PlanPasses
<1>4. /\ executions' \in [Flows -> 0..Rounds] /\ executions'[w] = executions[w] + 1
      /\ \A v \in Flows : executions'[v] >= executions[v]
  <2>1. \A v \in Flows : executions[v] \in Nat
    BY FlowAssumption DEF JobsInv, WorkflowTypeOK
  <2>2. executions \in [Flows -> 0..Rounds]
    BY DEF JobsInv, WorkflowTypeOK
  <2>3. executions' \in [Flows -> 0..Rounds] /\ executions'[w] = executions[w] + 1
    BY <1>3, <2>2
  <2>4. \A v \in Flows : v # w => executions'[v] = executions[v]
    BY <1>3, <2>2
  <2>. QED BY <2>1, <2>3, <2>4
<1>5. FirstStage(w) \in SUBSET ({"split", "map", "reduce"} \X (1..Chunks))
  BY FirstStageTyped
<1>6. \A i \in 1..Chunks : <<"map", i>> \in FirstStage(w) => Kind[w] # "media"
  BY DEF FirstStage
<1>7. /\ Begin(c, w, FirstStage(w), "queued", FALSE) /\ Goto(c, "creating")
      /\ UNCHANGED <<jobs, manifest>> /\ left' \subseteq Flows
  BY DEF PlanPasses, JobsInv, WorkflowTypeOK
<1>. QED BY <1>1, <1>4, <1>5, <1>6, <1>7, CreationBegins

LEMMA AdvancesKeep ==
  ASSUME JobsInv, NEW w \in Flows, AdvanceWorkflow(w)
  PROVE  JobsInv'
<1>1. Service \in Actors /\ pc[Service] # "creating"
  BY DEF Actors, AdvanceWorkflow
<1>2. 1 \in 1..Chunks
  BY FlowAssumption
<1>3. PICK todo \in SUBSET ({"split", "map", "reduce"} \X (1..Chunks)) :
        /\ Begin(Service, w, todo, "queued", FALSE)
        /\ \A i \in 1..Chunks : <<"map", i>> \in todo => Kind[w] = "media" /\ Maps(w) = {}
  <2>1. /\ {<<"reduce", 1>>} \in SUBSET ({"split", "map", "reduce"} \X (1..Chunks))
        /\ \A i : <<"map", i>> \notin {<<"reduce", 1>>}
    BY <1>2
  <2>2. ASSUME NEW n \in 1..Chunks
        PROVE  {"map"} \X (1..n) \in SUBSET ({"split", "map", "reduce"} \X (1..Chunks))
    <3>1. 1..n \subseteq 1..Chunks
      BY FlowAssumption
    <3>. QED BY <3>1
  <2>. QED BY <2>1, <2>2 DEF AdvanceWorkflow, SegmentsToMap
<1>4. /\ Goto(Service, "creating") /\ UNCHANGED <<jobs, manifest>> /\ left' \subseteq Flows
      /\ executions' \in [Flows -> 0..Rounds] /\ \A v \in Flows : executions'[v] >= executions[v]
  <2>1. \A v \in Flows : executions[v] \in Nat
    BY FlowAssumption DEF JobsInv, WorkflowTypeOK
  <2>. QED BY <2>1 DEF AdvanceWorkflow, JobsInv, WorkflowTypeOK
<1>. QED BY <1>1, <1>3, <1>4, CreationBegins

\* A child that is created takes the place of the one that was to be.
LEMMA CreatesKeep ==
  ASSUME JobsInv, NEW a \in Actors, NEW x \in JobIds, CreateNext(a, x)
  PROVE  JobsInv'
<1>0. /\ task[a].flow \in Flows /\ task[a] \in Task
      /\ task[a].todo \subseteq {"split", "map", "reduce"} \X (1..Chunks)
  BY TaskTyped DEF CreateNext, JobsInv, TodoInv
<1>w. PICK w \in Flows : w = task[a].flow
  BY <1>0
<1>1. w \in Flows /\ task[a] \in Task /\ task[a].todo \subseteq {"split", "map", "reduce"} \X (1..Chunks)
  BY <1>0
<1>2. PICK t \in task[a].todo : x \in NewJob(w, t) /\ Done(a, t)
  BY <1>w DEF CreateNext
<1>3. /\ jobs' = [jobs EXCEPT ![w][x] = "queued"] /\ pc[a] = "creating"
      /\ UNCHANGED <<manifest, pc, left, executions>>
  BY <1>w DEF CreateNext
<1>4. /\ task' \in [Actors -> Task \cup {NoTask}]
      /\ task'[a] = [task[a] EXCEPT !.todo = @ \ {t}]
      /\ task'[a] \in Task
      /\ \A b \in Actors : b # a => task'[b] = task[b]
  BY <1>1, <1>2, DoneTyped DEF JobsInv
<1>5. task'[a].flow = w /\ task'[a].todo = task[a].todo \ {t}
  BY <1>w, <1>1, <1>4 DEF Task
<1>e. /\ \A b \in Actors : /\ pc'[b] = pc[b] /\ task'[b].flow = task[b].flow
                          /\ task'[b].todo \subseteq task[b].todo
      /\ t \notin task'[a].todo
  <2>1. task'[a].todo \subseteq task[a].todo /\ t \notin task'[a].todo
    BY <1>5
  <2>2. ASSUME NEW b \in Actors
        PROVE  task'[b].flow = task[b].flow /\ task'[b].todo \subseteq task[b].todo
    <3>1. CASE b = a
      BY <1>w, <1>5, <2>1, <3>1
    <3>2. CASE b # a
      BY <1>4, <3>2
    <3>. QED BY <3>1, <3>2
  <2>. QED BY <1>3, <2>1, <2>2
<1>6. "queued" \in JobStatuses \ {"absent"}
  BY DEF JobStatuses
<1>7. /\ jobs' \in [Flows -> [JobIds -> JobStatuses]]
      /\ Present(w)' = Present(w) \cup {x}
      /\ \A v \in Flows : v # w => Present(v)' = Present(v)
  BY <1>1, <1>3, <1>6 DEF JobsInv, WorkflowTypeOK, Present
<1>8. WorkflowTypeOK'
  BY <1>3, <1>4, <1>7 DEF JobsInv, WorkflowTypeOK
<1>9. ASSUME NEW b \in Actors PROVE TodoInv(b)'
  <2>1. CASE b = a
    BY <1>1, <1>3, <1>5, <2>1 DEF TodoInv
  <2>2. CASE b # a
    <3>1. pc[b] = "cancelling" => task[b].flow \in Flows
      BY TaskTyped DEF JobsInv
    <3>. QED BY <1>3, <1>4, <1>7, <2>2, <3>1 DEF JobsInv, TodoInv
  <2>. QED BY <2>1, <2>2
<1>10. ASSUME NEW v \in Flows, NEW i \in 1..Chunks PROVE ChunkInv(v, i)'
  <2>. DEFINE A == ChunkJobs(v, i)  B == Creators(v, i)
  <2>0. WorkflowTypeOK /\ ChunkInv(v, i) /\ executions'[v] >= executions[v]
    <3>1. executions[v] \in Nat /\ executions' = executions
      BY <1>3, FlowAssumption DEF JobsInv, WorkflowTypeOK
    <3>. QED BY <3>1 DEF JobsInv
  <2>1. B' \subseteq B
    BY <1>e DEF Creators
  <2>2. CASE v # w \/ t # <<"map", i>>
    <3>1. CASE v # w
      <4>1. A' = A
        BY <1>7, <3>1 DEF ChunkJobs, Maps
      <4>. QED BY <1>8, <2>0, <2>1, <4>1, ChunkShrinks
    <3>2. CASE v = w /\ t # <<"map", i>>
      <4>1. t = <<t[1], t[2]>> /\ t[1] \in {"split", "map", "reduce"}
        BY <1>1, <1>2
      <4>2. ~(x \in MapJobs /\ x[2] = i)
        BY <1>2, <3>2, <4>1 DEF NewJob, MapJobs
      <4>3. A' = A
        BY <1>7, <3>2, <4>2 DEF ChunkJobs, Maps
      <4>. QED BY <1>8, <2>0, <2>1, <4>3, ChunkShrinks
    <3>. QED BY <2>2, <3>1, <3>2
  <2>3. CASE v = w /\ t = <<"map", i>>
    <3>1. A' \subseteq A \cup {x}
      BY <1>7, <2>3 DEF ChunkJobs, Maps
    <3>2. a \in B /\ B' \subseteq B \ {a}
      <4>1. a \in B
        BY <1>w, <1>2, <1>3, <2>3 DEF Creators
      <4>2. a \notin B'
        BY <1>e, <2>3 DEF Creators
      <4>. QED BY <2>1, <4>1, <4>2
    <3>3. /\ IsFiniteSet(A) /\ IsFiniteSet(B) /\ Cardinality(A) + Cardinality(B) <= MapBudget(v)
          /\ Kind[v] = "media" => B \subseteq {Service}
      BY DEF JobsInv, ChunkInv
    <3>4. /\ IsFiniteSet(A \cup {x})
          /\ \/ Cardinality(A \cup {x}) = Cardinality(A)
             \/ Cardinality(A \cup {x}) = Cardinality(A) + 1
      BY <3>3, FS_AddElement
    <3>5. IsFiniteSet(A') /\ Cardinality(A') <= Cardinality(A \cup {x})
      BY <3>1, <3>4, FS_Subset
    <3>6. IsFiniteSet(B \ {a}) /\ Cardinality(B \ {a}) = Cardinality(B) - 1
      BY <3>2, <3>3, FS_RemoveElement
    <3>7. IsFiniteSet(B') /\ Cardinality(B') <= Cardinality(B \ {a})
      BY <3>2, <3>6, FS_Subset
    <3>8. /\ Cardinality(A) \in Nat /\ Cardinality(B) \in Nat /\ Cardinality(B') \in Nat
          /\ Cardinality(A') \in Nat /\ MapBudget(v) \in Nat /\ MapBudget(v)' = MapBudget(v)
      <4>1. executions[v] \in Nat
        BY FlowAssumption DEF JobsInv, WorkflowTypeOK
      <4>. QED BY <1>3, <3>3, <3>5, <3>7, <4>1, FS_CardinalityType DEF MapBudget
    <3>9. Cardinality(A') + Cardinality(B') <= MapBudget(v)'
      BY <3>3, <3>4, <3>5, <3>6, <3>7, <3>8
    <3>. QED BY <3>2, <3>3, <3>5, <3>7, <3>9 DEF ChunkInv
  <2>. QED BY <2>2, <2>3
<1>. QED BY <1>8, <1>9, <1>10 DEF JobsInv

LEMMA JobsInvInit == WorkflowInit => JobsInv
<1>. SUFFICES ASSUME WorkflowInit PROVE JobsInv
  OBVIOUS
<1>1. \A a \in Actors : TodoInv(a)
  BY DEF WorkflowInit, TodoInv
<1>2. ASSUME NEW w \in Flows, NEW i \in 1..Chunks PROVE ChunkInv(w, i)
  <2>1. ChunkJobs(w, i) = {} /\ Creators(w, i) = {}
    BY DEF WorkflowInit, ChunkJobs, Maps, Present, Creators
  <2>2. MapBudget(w) >= 0
    BY DEF WorkflowInit, MapBudget
  <2>. QED BY <2>1, <2>2, FS_EmptySet DEF ChunkInv
<1>. QED BY <1>1, <1>2, TypeInit DEF JobsInv

LEMMA JobsInvStep == JobsInv /\ [WorkflowNext]_vars => JobsInv'
<1>. SUFFICES ASSUME JobsInv, [WorkflowNext]_vars PROVE JobsInv'
  OBVIOUS
<1>s. Service \in Actors /\ \A c \in Callers : c \in Actors
  BY DEF Actors
<1>l. left \subseteq Flows /\ Listed \subseteq Flows /\ manifest \in [Flows -> ManifestStatuses]
  BY DEF JobsInv, WorkflowTypeOK, Listed
<1>1. CASE ServiceStep
  <2>1. CASE BeginPass \/ BudgetDone \/ EndPass
    <3>1. PICK p \in {"idle", "budget", "advance"} : Goto(Service, p)
      BY <2>1 DEF BeginPass, BudgetDone, EndPass
    <3>2. UNCHANGED <<jobs, manifest, task, executions>> /\ left' \subseteq Flows
      BY <1>l, <2>1 DEF BeginPass, BudgetDone, EndPass
    <3>. QED BY <1>s, <1>l, <3>1, <3>2, IdleKeeps
  <2>2. ASSUME NEW w \in Flows, BudgetDrains(w) PROVE JobsInv'
    BY <1>s, <1>l, <2>2, DrainsKeep DEF BudgetDrains
  <2>3. ASSUME NEW w \in Flows, AdvanceSkips(w) PROVE JobsInv'
    <3>1. WorkflowTypeOK' /\ Alone(Service) /\ pc'[Service] = "advance"
      BY <1>l, <2>3 DEF AdvanceSkips, JobsInv, WorkflowTypeOK, Alone
    <3>2. UNCHANGED <<jobs, executions>>
      BY <2>3 DEF AdvanceSkips
    <3>. QED BY <1>s, <3>1, <3>2, QuietKeeps DEF Present
  <2>4. ASSUME NEW w \in Flows, AdvanceWorkflow(w) PROVE JobsInv'
    BY <2>4, AdvancesKeep
  <2>5. ASSUME NEW x \in JobIds, CreateNext(Service, x) \/ CancelNext(Service, x) PROVE JobsInv'
    BY <1>s, <2>5, CreatesKeep, CancelsKeep
  <2>6. CASE SaveManifest(Service) \/ DrainSave(Service)
    BY <1>s, <2>6, SavesKeep
  <2>. QED BY <1>1, <2>1, <2>2, <2>3, <2>4, <2>5, <2>6 DEF ServiceStep
<1>2. ASSUME NEW c \in Callers, CallerStep(c) PROVE JobsInv'
  <2>1. ASSUME NEW w \in Flows, ExecuteWorkflow(c, w) PROVE JobsInv'
    BY <1>s, <2>1, BlocksKeep, PassesKeep DEF ExecuteWorkflow
  <2>2. ASSUME NEW w \in Flows, NEW ex \in BOOLEAN, ApproveRead(c, w, ex) PROVE JobsInv'
    BY <1>s, <2>2, ApprovalsKeep
  <2>3. ASSUME NEW w \in Flows, DrainWorkflow(c, w) PROVE JobsInv'
    BY <1>s, <1>l, <2>3, DrainsKeep DEF DrainWorkflow
  <2>4. CASE ApproveSave(c)
    BY <1>s, <2>4, ApprovalsKeep
  <2>5. CASE ExecuteApproved(c)
    <3>1. task[c].flow \in Flows
      BY <1>s, <2>5, TaskTyped DEF ExecuteApproved, JobsInv
    <3>. QED BY <1>s, <2>5, <3>1, BlocksKeep, PassesKeep DEF ExecuteApproved
  <2>6. ASSUME NEW x \in JobIds, CreateNext(c, x) \/ CancelNext(c, x) PROVE JobsInv'
    BY <1>s, <2>6, CreatesKeep, CancelsKeep
  <2>7. CASE SaveManifest(c) \/ DrainSave(c)
    BY <1>s, <2>7, SavesKeep
  <2>. QED BY <1>2, <2>1, <2>2, <2>3, <2>4, <2>5, <2>6, <2>7 DEF CallerStep
<1>3. CASE QueueStep
  BY <1>3, QueueKeepsJobs
<1>4. ASSUME NEW a \in Actors, Crash(a) PROVE JobsInv'
  <2>1. PICK p \in {"idle", "down"} : Goto(a, p)
    BY <1>4 DEF Crash
  <2>2. Drop(a) /\ UNCHANGED <<jobs, manifest, executions>> /\ left' \subseteq Flows
    BY <1>l, <1>4 DEF Crash
  <2>. QED BY <1>l, <2>1, <2>2, IdleKeeps
<1>5. CASE Restart
  <2>1. Goto(Service, "idle") /\ UNCHANGED <<jobs, manifest, task, executions>> /\ left' \subseteq Flows
    BY <1>l, <1>5 DEF Restart
  <2>. QED BY <1>s, <1>l, <2>1, IdleKeeps
<1>6. CASE UNCHANGED vars
  <2>. USE <1>6 DEF vars, JobsInv
  <2>1. WorkflowTypeOK' /\ \A a \in Actors : TodoInv(a)'
    BY DEF WorkflowTypeOK, TodoInv, Present
  <2>2. ASSUME NEW w \in Flows, NEW i \in 1..Chunks PROVE ChunkInv(w, i)'
    <3>1. ChunkJobs(w, i)' = ChunkJobs(w, i) /\ Creators(w, i)' = Creators(w, i)
      BY DEF ChunkJobs, Maps, Present, Creators
    <3>. QED BY <3>1 DEF ChunkInv, MapBudget
  <2>. QED BY <2>1, <2>2
<1>. QED BY <1>1, <1>2, <1>3, <1>4, <1>5, <1>6 DEF WorkflowNext

\* Jobs, manifests and the operations of all processes keep their types.
THEOREM WorkflowTyped == WorkflowSpec => []WorkflowTypeOK
<1>1. JobsInv => WorkflowTypeOK
  BY DEF JobsInv
<1>. QED BY <1>1, JobsInvInit, JobsInvStep, PTL DEF WorkflowSpec

\* No chunk is worked on twice, whoever executes, retries, drains or dies, and also
\* when an id is executed again: the jobs of a chunk, with those that a process still
\* has to create, are at most its executions, and one for a media workflow.
THEOREM ChunksMappedOnce == WorkflowSpec => []JobsPerChunk
<1>1. JobsInv => JobsPerChunk
  <2>. SUFFICES ASSUME JobsInv, NEW w \in Flows, NEW i \in 1..Chunks
                PROVE  Cardinality({x \in Maps(w) : x[2] = i})
                         <= (IF Kind[w] = "media" THEN 1 ELSE executions[w])
    BY DEF JobsPerChunk
  <2>1. /\ IsFiniteSet(ChunkJobs(w, i)) /\ IsFiniteSet(Creators(w, i))
        /\ Cardinality(ChunkJobs(w, i)) + Cardinality(Creators(w, i)) <= MapBudget(w)
    BY DEF JobsInv, ChunkInv
  <2>2. /\ Cardinality(ChunkJobs(w, i)) \in Nat /\ Cardinality(Creators(w, i)) \in Nat
        /\ MapBudget(w) \in Nat
    BY <2>1, FS_CardinalityType, FlowAssumption DEF JobsInv, WorkflowTypeOK, MapBudget
  <2>3. Cardinality(ChunkJobs(w, i)) <= MapBudget(w)
    BY <2>1, <2>2
  <2>. QED BY <2>3 DEF ChunkJobs, MapBudget
<1>. QED BY <1>1, JobsInvInit, JobsInvStep, PTL DEF WorkflowSpec

===============================================================================

--------------------------- MODULE WorkerQueueProof ---------------------------
(***************************************************************************)
(* Theorems of the queue and the worker service, for every set of jobs,    *)
(* providers, limits, workers and operators, every choice of operations    *)
(* and of processes that may die.                                          *)
(***************************************************************************)
EXTENDS WorkerQueueProps, SubmissionProof

-------------------------------------------------------------------------------
(* Type correctness *)

\* Moves and memory writes keep their types.
LEMMA MoveType ==
  ASSUME TypeOK, NEW a \in Actors
  PROVE  /\ \A phase \in WorkerPhases \cup {"saving"} :
              Goto(a, phase) => pc' \in [Actors -> WorkerPhases \cup {"saving"}]
         /\ Forget(a) => mem' \in [Actors -> [Jobs -> JobRecord]]
         /\ \A S, r : HoldToSave(a, S, r) /\ (\A j \in Jobs : j \in S => r[j] \in JobRecord)
                        => mem' \in [Actors -> [Jobs -> JobRecord]]
         /\ \A j \in Jobs, r \in JobRecord :
              Save(a, j, r) => /\ store' \in [Jobs -> JobRecord]
                               /\ mem' \in [Actors -> [Jobs -> JobRecord]]
<1>. USE DEF TypeOK, SubTypeOK
<1>1. ASSUME NEW phase \in WorkerPhases \cup {"saving"}, Goto(a, phase)
      PROVE  pc' \in [Actors -> WorkerPhases \cup {"saving"}]
  BY <1>1 DEF Goto
<1>2. ASSUME Forget(a) PROVE mem' \in [Actors -> [Jobs -> JobRecord]]
  BY <1>2, FreshType DEF Forget
<1>3. ASSUME NEW S, NEW r, HoldToSave(a, S, r), \A j \in Jobs : j \in S => r[j] \in JobRecord
      PROVE  mem' \in [Actors -> [Jobs -> JobRecord]]
  BY <1>3, FreshType DEF HoldToSave
<1>4. ASSUME NEW j \in Jobs, NEW r \in JobRecord, Save(a, j, r)
      PROVE  /\ store' \in [Jobs -> JobRecord]
             /\ mem' \in [Actors -> [Jobs -> JobRecord]]
  BY <1>4 DEF Save
<1>. QED BY <1>1, <1>2, <1>3, <1>4

\* A replan holds records with the provider routing answered.
LEMMA ReplanType ==
  ASSUME TypeOK, NEW a \in Actors, NEW route \in Routings, ReplanRead(a, route)
  PROVE  mem' \in [Actors -> [Jobs -> JobRecord]]
<1>. DEFINE r == [j \in Jobs |-> IF route[j] = NoProvider THEN store[j]
                                 ELSE [store[j] EXCEPT !.selected = route[j]]]
<1>1. ASSUME NEW j \in Jobs PROVE r[j] \in JobRecord
  <2>1. store[j] \in JobRecord /\ route[j] \in Providers \cup {NoProvider}
    BY DEF TypeOK, SubTypeOK, Routings
  <2>. QED BY <2>1, RecordType
<1>2. HoldToSave(a, Rewritten(route), r)
  BY DEF ReplanRead
<1>. HIDE DEF r
<1>. QED BY <1>1, <1>2, MoveType

\* A promotion holds records with the provider of their group.
LEMMA PromoteType ==
  ASSUME TypeOK, NEW a \in Actors, NEW plan \in Plans, PromoteRead(a, plan)
  PROVE  mem' \in [Actors -> [Jobs -> JobRecord]]
<1>. DEFINE r == [j \in Jobs |-> Promoted(store[j], plan[Group[j]])]
<1>1. ASSUME NEW j \in Jobs, j \in PromotedBy(plan) PROVE r[j] \in JobRecord
  <2>1. store[j] \in JobRecord /\ plan[Group[j]] \in Providers \cup {NoProvider}
    BY DEF TypeOK, SubTypeOK, Plans, Groups
  <2>2. plan[Group[j]] \in Providers
    BY <1>1, <2>1 DEF PromotedBy
  <2>. QED BY <2>1, <2>2, RecordType
<1>2. HoldToSave(a, PromotedBy(plan), r)
  BY DEF PromoteRead
<1>. HIDE DEF r
<1>. QED BY <1>1, <1>2, MoveType

\* A process holds the records of a read-then-write operation.
LEMMA DecideType ==
  ASSUME TypeOK, NEW a \in Actors, NEW S, NEW r, Decide(a, S, r),
         \A j \in Jobs : r[j] \in JobRecord
  PROVE  TypeOK'
<1>1. mem' \in [Actors -> [Jobs -> JobRecord]]
  BY MoveType DEF Decide
<1>2. pc' \in [Actors -> WorkerPhases \cup {"saving"}]
  BY MoveType DEF Decide
<1>. QED BY <1>1, <1>2 DEF TypeOK, SubTypeOK, Decide, queueVars

LEMMA SaveNextType ==
  ASSUME TypeOK, NEW a \in Actors, NEW j \in Jobs, SaveNext(a, j)
  PROVE  TypeOK'
<1>1. mem[a][j] \in JobRecord /\ mem[a] \in [Jobs -> JobRecord]
  BY DEF TypeOK, SubTypeOK
<1>2. store' \in [Jobs -> JobRecord] /\ mem' \in [Actors -> [Jobs -> JobRecord]]
  BY <1>1, FreshType DEF TypeOK, SubTypeOK, SaveNext
<1>3. pc' \in [Actors -> WorkerPhases \cup {"saving"}]
  BY DEF TypeOK, SaveNext, Goto, WorkerPhases
<1>. QED BY <1>2, <1>3 DEF TypeOK, SubTypeOK, SaveNext, queueVars

LEMMA EndPassType ==
  ASSUME TypeOK, NEW w \in Workers, EndPass(w) \/ Die(w)
  PROVE  /\ lock' \in Workers \cup {NoWorker}
         /\ pc' \in [Actors -> WorkerPhases \cup {"saving"}]
         /\ mem' \in [Actors -> [Jobs -> JobRecord]]
<1>1. w \in Actors /\ {"idle", "down"} \subseteq WorkerPhases
  BY DEF Actors, WorkerPhases
<1>. QED BY <1>1, MoveType DEF EndPass, Die, TypeOK

LEMMA WorkerStepType ==
  ASSUME TypeOK, NEW w \in Workers, WorkerStep(w)
  PROVE  TypeOK'
<1>. w \in Actors
  BY DEF Actors
<1>r. ASSUME NEW j \in Jobs PROVE store[j] \in JobRecord /\ mem[w][j] \in JobRecord
  BY DEF TypeOK, SubTypeOK
<1>1. ASSUME NEW S \in SUBSET Jobs, BeginPass(w, S) PROVE TypeOK'
  <2>1. mem' \in [Actors -> [Jobs -> JobRecord]]
    BY <1>1, <1>r, RecordType, MoveType DEF BeginPass
  <2>2. pc' \in [Actors -> WorkerPhases \cup {"saving"}]
    BY <1>1, MoveType DEF BeginPass, WorkerPhases
  <2>. QED BY <1>1, <2>1, <2>2 DEF BeginPass, TypeOK, SubTypeOK
<1>2. CASE PassDrained(w)
  BY <1>2, EndPassType DEF PassDrained, TypeOK, SubTypeOK
<1>3. CASE PassBlocked(w)
  BY <1>3, EndPassType DEF PassBlocked, TypeOK, SubTypeOK
<1>4. ASSUME NEW route \in Routings, PassReplans(w, route) PROVE TypeOK'
  <2>1. mem' \in [Actors -> [Jobs -> JobRecord]]
    BY <1>4, ReplanType DEF PassReplans
  <2>2. pc' \in [Actors -> WorkerPhases \cup {"saving"}]
    BY <1>4, MoveType DEF PassReplans, WorkerPhases
  <2>. QED BY <1>4, <2>1, <2>2 DEF PassReplans, TypeOK, SubTypeOK, queueVars
<1>12. ASSUME NEW plan \in Plans, PassPromotes(w, plan) PROVE TypeOK'
  <2>1. mem' \in [Actors -> [Jobs -> JobRecord]]
    BY <1>12, PromoteType DEF PassPromotes
  <2>2. pc' \in [Actors -> WorkerPhases \cup {"saving"}]
    BY <1>12, MoveType DEF PassPromotes, WorkerPhases
  <2>. QED BY <1>12, <2>1, <2>2 DEF PassPromotes, TypeOK, SubTypeOK, queueVars
<1>5. CASE PickNothing(w)
  BY <1>5, EndPassType DEF PickNothing, TypeOK, SubTypeOK
<1>6. ASSUME NEW j \in Jobs, SaveNext(w, j) PROVE TypeOK'
  BY <1>6, SaveNextType
<1>7. ASSUME NEW j \in Jobs, NEW p \in Providers, Pick(w, j, p) PROVE TypeOK'
  <2>1. [store[j] EXCEPT !.selected = p] \in JobRecord
    BY <1>r, RecordType
  <2>2. mem' \in [Actors -> [Jobs -> JobRecord]]
    BY <1>7, <2>1 DEF Pick, TypeOK, SubTypeOK
  <2>3. pc' \in [Actors -> WorkerPhases \cup {"saving"}]
    BY <1>7, MoveType DEF Pick, WorkerPhases
  <2>. QED BY <1>7, <2>2, <2>3 DEF Pick, TypeOK, SubTypeOK, queueVars
<1>8. ASSUME NEW j \in Jobs, PickRaises(w, j) PROVE TypeOK'
  BY <1>8, EndPassType DEF PickRaises, TypeOK, SubTypeOK
<1>9. ASSUME NEW j \in Jobs, MarkStarting(w, j) PROVE TypeOK'
  <2>1. [mem[w][j] EXCEPT !.status = "starting"] \in JobRecord
    BY <1>r, RecordType DEF Statuses
  <2>2. store' \in [Jobs -> JobRecord] /\ mem' \in [Actors -> [Jobs -> JobRecord]]
    BY <1>9, <2>1, MoveType DEF MarkStarting
  <2>3. pc' \in [Actors -> WorkerPhases \cup {"saving"}]
    BY <1>9, MoveType DEF MarkStarting, WorkerPhases, Pipeline
  <2>4. late' \in 0..MaxLate
    BY <1>9, QueueAssumption DEF MarkStarting, TypeOK
  <2>. QED BY <1>9, <2>2, <2>3, <2>4 DEF MarkStarting, TypeOK, SubTypeOK
<1>10. ASSUME NEW j \in Jobs, Settle(w, j) PROVE TypeOK'
  <2>1. Remediated(mem[w][j]) \in JobRecord
    BY <1>r, RecordType
  <2>2. store' \in [Jobs -> JobRecord]
    BY <1>10, <2>1 DEF Settle, TypeOK, SubTypeOK
  <2>. QED BY <1>10, <2>2, EndPassType DEF Settle, TypeOK, SubTypeOK
<1>11. ASSUME SubmitStep(w), UNCHANGED queueVars PROVE TypeOK'
  <2>1. SubmitEffect(w)
    BY <1>11, SubmitStepEffect DEF TypeOK
  <2>2. pc' \in [Actors -> WorkerPhases \cup {"saving"}]
    BY <2>1, MoveType DEF SubmitEffect, WorkerPhases, Goto
  <2>3. store' \in [Jobs -> JobRecord] /\ mem' \in [Actors -> [Jobs -> JobRecord]]
    BY <2>1, MoveType DEF SubmitEffect, TypeOK, SubTypeOK
  <2>. QED BY <1>11, <2>1, <2>2, <2>3 DEF SubmitEffect, TypeOK, SubTypeOK, queueVars
<1>. QED
  BY <1>1, <1>2, <1>3, <1>4, <1>5, <1>6, <1>7, <1>8, <1>9, <1>10, <1>11, <1>12 DEF WorkerStep

LEMMA OperatorStepType ==
  ASSUME TypeOK, NEW o \in Operators, OperatorStep(o)
  PROVE  TypeOK'
<1>. o \in Actors
  BY DEF Actors
<1>r. ASSUME NEW j \in Jobs PROVE store[j] \in JobRecord
  BY DEF TypeOK, SubTypeOK
<1>1. ASSUME NEW j \in Jobs, EnqueueJob(o, j) PROVE TypeOK'
  BY <1>1, FreshType DEF EnqueueJob, TypeOK, SubTypeOK, queueVars
<1>2. ASSUME NEW j \in Jobs, CancelJob(o, j) PROVE TypeOK'
  BY <1>2, <1>r, RecordType, DecideType DEF CancelJob
<1>3. ASSUME NEW j \in Jobs, ForceCancelJob(o, j) PROVE TypeOK'
  BY <1>3, <1>r, RecordType, DecideType DEF ForceCancelJob
<1>4. ASSUME NEW j \in Jobs, RetryJob(o, j) PROVE TypeOK'
  BY <1>4, <1>r, RecordType, DecideType DEF RetryJob
<1>5. ASSUME NEW j \in Jobs, SaveNext(o, j) PROVE TypeOK'
  BY <1>5, SaveNextType
<1>6. ASSUME NEW G \in SUBSET Jobs, CancelGroup(o, G) PROVE TypeOK'
  BY <1>6, <1>r, RecordType, DecideType DEF CancelGroup
<1>7. ASSUME NEW route \in Routings, ReplanQueue(o, route) PROVE TypeOK'
  <2>1. mem' \in [Actors -> [Jobs -> JobRecord]]
    BY <1>7, ReplanType DEF ReplanQueue
  <2>2. pc' \in [Actors -> WorkerPhases \cup {"saving"}]
    BY <1>7, MoveType DEF ReplanQueue
  <2>. QED BY <1>7, <2>1, <2>2 DEF ReplanQueue, TypeOK, SubTypeOK, queueVars
<1>8. ASSUME NEW j \in Jobs, IntakeJob(o, j) PROVE TypeOK'
  BY <1>8, FreshType, DecideType DEF IntakeJob
<1>9. ASSUME NEW plan \in Plans, PlanIntake(o, plan) PROVE TypeOK'
  <2>1. mem' \in [Actors -> [Jobs -> JobRecord]]
    BY <1>9, PromoteType DEF PlanIntake
  <2>2. pc' \in [Actors -> WorkerPhases \cup {"saving"}]
    BY <1>9, MoveType DEF PlanIntake
  <2>. QED BY <1>9, <2>1, <2>2 DEF PlanIntake, TypeOK, SubTypeOK, queueVars
<1>. QED
  BY <1>1, <1>2, <1>3, <1>4, <1>5, <1>6, <1>7, <1>8, <1>9 DEF OperatorStep

LEMMA CrashType ==
  ASSUME TypeOK, NEW a \in Actors, WorkerCrash(a) \/ OperatorCrash(a)
  PROVE  TypeOK'
<1>1. /\ pc' \in [Actors -> WorkerPhases \cup {"saving"}]
      /\ mem' \in [Actors -> [Jobs -> JobRecord]]
  BY MoveType DEF WorkerCrash, OperatorCrash, Die, WorkerPhases
<1>2. lock' \in Workers \cup {NoWorker} /\ UNCHANGED <<store, wal, draining, late>>
  BY DEF WorkerCrash, OperatorCrash, Die, TypeOK, queueVars
<1>. QED BY <1>1, <1>2 DEF TypeOK, SubTypeOK

LEMMA RestartType ==
  ASSUME TypeOK, NEW w \in Workers, Restart(w)
  PROVE  TypeOK'
<1>1. pc' \in [Actors -> WorkerPhases \cup {"saving"}]
  BY MoveType DEF Restart, WorkerPhases, Actors
<1>. QED BY <1>1 DEF Restart, TypeOK, SubTypeOK, queueVars

LEMMA InitType == Init => TypeOK
<1>. SUFFICES ASSUME Init PROVE TypeOK
  OBVIOUS
<1>1. SubTypeOK
  BY FreshType DEF Init, SubInit, SubTypeOK, WalEntry
<1>2. pc \in [Actors -> WorkerPhases \cup {"saving"}]
  BY DEF Init, SubInit, WorkerPhases
<1>3. lock \in Workers \cup {NoWorker} /\ late \in 0..MaxLate
  BY QueueAssumption DEF Init
<1>4. draining \in BOOLEAN
  BY Zenon DEF Init
<1>. QED BY <1>1, <1>2, <1>3, <1>4 DEF TypeOK

LEMMA StepType == TypeOK /\ [Next]_vars => TypeOK'
<1>. SUFFICES ASSUME TypeOK, [Next]_vars PROVE TypeOK'
  OBVIOUS
<1>1. CASE \E w \in Workers : WorkerStep(w)
  BY <1>1, WorkerStepType
<1>2. CASE \E o \in Operators : OperatorStep(o)
  BY <1>2, OperatorStepType
<1>3. CASE StartDrain \/ ClearDrain
  <2>1. draining' \in BOOLEAN
    BY <1>3 DEF StartDrain, ClearDrain
  <2>2. late' \in 0..MaxLate
    BY <1>3, QueueAssumption DEF StartDrain, ClearDrain, TypeOK
  <2>3. UNCHANGED <<store, wal, pc, mem, lock>>
    BY <1>3 DEF StartDrain, ClearDrain
  <2>. QED BY <2>1, <2>2, <2>3 DEF TypeOK, SubTypeOK
<1>4. CASE \E w \in Workers : WorkerCrash(w) \/ Restart(w)
  BY <1>4, CrashType, RestartType DEF Actors
<1>5. CASE \E o \in Operators : OperatorCrash(o)
  BY <1>5, CrashType DEF Actors
<1>6. CASE UNCHANGED vars
  BY <1>6 DEF vars, TypeOK, SubTypeOK
<1>. QED BY <1>1, <1>2, <1>3, <1>4, <1>5, <1>6 DEF Next

\* TypeOK holds from the start and every step keeps it.
THEOREM TypeCorrect == Spec => []TypeOK
BY InitType, StepType, PTL DEF Spec

-------------------------------------------------------------------------------
(* Who may write what *)

\* The worker holds a job it dispatched, from the pick to the result.
Reserving == {"picked"} \cup Pipeline

\* What a bulk write of an operator or of the worker saves.
SavedStatus == {"absent", "buffered", "queued", "failed", "cancelled"}

\* Worker w has the lock while it is at work, and holds either records to save,
\* none of them active, or the one job it dispatched, to a provider.
WorkerOK(w) ==
  /\ pc[w] \in WorkerPhases
  /\ pc[w] \notin {"idle", "down"} => lock = w
  /\ pc[w] \in Saving => \A j \in Jobs : mem[w][j].status \in SavedStatus
  /\ pc[w] \in Reserving =>
       \A i, j \in Jobs : Holds(w, i) => /\ mem[w][i].selected \in Providers
                                         /\ Holds(w, j) => i = j

\* Operator o holds records to save, none of them active.
OperatorOK(o) ==
  /\ pc[o] \in {"idle", "saving"}
  /\ pc[o] = "saving" => \A j \in Jobs : mem[o][j].status \in SavedStatus

Discipline ==
  /\ \A w \in Workers : WorkerOK(w)
  /\ \A o \in Operators : OperatorOK(o)

\* A dispatched job has a free place on its slot, its own record left out:
\* what the worker counted before the save still holds at the save.
Room ==
  \A w \in Workers, j \in Jobs, s \in Slots :
    pc[w] \in Reserving /\ Holds(w, j) /\ s = Slot(mem[w][j].selected, j)
      => Cardinality(ActiveOn(s) \ {j}) < Limit[s]

\* A drain that has seen a dispatch finds no worker between its check and the
\* next dispatch.
DrainSeen ==
  /\ ~draining => late = 0
  /\ late <= 1
  /\ late = 1 => \A w \in Workers : pc[w] \notin {"replanning", "promoting", "picked"}

IInv == TypeOK /\ Discipline /\ CapacityRespected /\ Room /\ DrainSeen

\* What does not depend on how many jobs are active.
CoreInv == TypeOK /\ Discipline /\ DrainSeen

-------------------------------------------------------------------------------
(* The effect of a step of one process *)

\* The other processes are where they were, with what they held.
Local(a) == \A b \in Actors : b # a => pc'[b] = pc[b] /\ mem'[b] = mem[b]

\* A step writes a record that is not active, or one the worker dispatched.
Inactive(j) == \E r \in JobRecord : r.status \notin Active /\ store' = [store EXCEPT ![j] = r]

OwnSave(w, j) ==
  /\ pc[w] \in Reserving /\ Holds(w, j)
  /\ \E r \in JobRecord : /\ r.selected = mem[w][j].selected
                          /\ store' = [store EXCEPT ![j] = r]

StoreEffect(w) ==
  \/ store' = store
  \/ \E j \in Jobs : Inactive(j) \/ OwnSave(w, j)

\* The jobs a worker is dispatching are those it was, or the one it picks.
HeldEffect(w) ==
  \A j \in Jobs :
    pc'[w] \in Reserving /\ Holds(w, j)' =>
      \/ /\ pc[w] \in Reserving /\ Holds(w, j)
         /\ mem'[w][j].selected = mem[w][j].selected
      \/ /\ store' = store /\ store[j].status \notin Active
         /\ ~Saturated(mem'[w][j].selected, j)

WorkerEffect(w) ==
  /\ WorkerOK(w)'
  /\ Local(w)
  /\ lock' = lock \/ lock \in {w, NoWorker}
  /\ StoreEffect(w)
  /\ HeldEffect(w)

OperatorEffect(o) ==
  /\ OperatorOK(o)'
  /\ Local(o)
  /\ lock' = lock
  /\ store' = store \/ \E j \in Jobs : Inactive(j)

\* What a worker or an operator holds of a bulk write.
LEMMA HoldToSaveEffect ==
  ASSUME TypeOK, NEW a \in Actors, NEW S, NEW r, HoldToSave(a, S, r),
         \A j \in Jobs : j \in S => r[j].status \in SavedStatus
  PROVE  \A j \in Jobs : mem'[a][j].status \in SavedStatus
<1>1. mem'[a] = [j \in Jobs |-> IF j \in S THEN r[j] ELSE NoRecord]
  BY DEF HoldToSave, TypeOK, SubTypeOK
<1>. QED BY <1>1, FreshType DEF SavedStatus

LEMMA ReplanEffect ==
  ASSUME TypeOK, NEW a \in Actors, NEW route, ReplanRead(a, route)
  PROVE  \A j \in Jobs : mem'[a][j].status \in SavedStatus
<1>. DEFINE r == [j \in Jobs |-> IF route[j] = NoProvider THEN store[j]
                                 ELSE [store[j] EXCEPT !.selected = route[j]]]
<1>1. ASSUME NEW j \in Jobs, j \in Rewritten(route) PROVE r[j].status \in SavedStatus
  <2>1. store[j].status = "queued" /\ store[j] \in JobRecord
    BY <1>1 DEF Rewritten, TypeOK, SubTypeOK
  <2>2. r[j].status = store[j].status
    BY <2>1 DEF JobRecord
  <2>. QED BY <2>1, <2>2 DEF SavedStatus
<1>2. HoldToSave(a, Rewritten(route), r)
  BY DEF ReplanRead
<1>. HIDE DEF r
<1>. QED BY <1>1, <1>2, HoldToSaveEffect

LEMMA PromoteEffect ==
  ASSUME TypeOK, NEW a \in Actors, NEW plan, PromoteRead(a, plan)
  PROVE  \A j \in Jobs : mem'[a][j].status \in SavedStatus
<1>. DEFINE r == [j \in Jobs |-> Promoted(store[j], plan[Group[j]])]
<1>1. ASSUME NEW j \in Jobs PROVE r[j].status \in SavedStatus
  <2>1. store[j] \in JobRecord
    BY DEF TypeOK, SubTypeOK
  <2>. QED BY <2>1 DEF SavedStatus, Promoted, JobRecord
<1>2. HoldToSave(a, PromotedBy(plan), r)
  BY DEF PromoteRead
<1>. HIDE DEF r
<1>. QED BY <1>1, <1>2, HoldToSaveEffect

\* A step that only moves a process and changes its own memory.
LEMMA LocalMove ==
  ASSUME TypeOK, NEW a \in Actors
  PROVE  /\ \A phase, m : Goto(a, phase) /\ mem' = [mem EXCEPT ![a] = m]
                            => Local(a) /\ pc'[a] = phase /\ mem'[a] = m
         /\ \A phase : Goto(a, phase) /\ mem' = mem => Local(a) /\ pc'[a] = phase
BY DEF Goto, Local, TypeOK, SubTypeOK

LEMMA SaveNextEffect ==
  ASSUME TypeOK, NEW a \in Actors, NEW j \in Jobs, SaveNext(a, j),
         \A i \in Jobs : mem[a][i].status \in SavedStatus
  PROVE  /\ Local(a) /\ lock' = lock
         /\ pc'[a] = pc[a] \/ (pc[a] = "saving" /\ pc'[a] = "idle")
         /\ \A i \in Jobs : mem'[a][i].status \in SavedStatus
         /\ Inactive(j)
<1>1. mem[a] \in [Jobs -> JobRecord] /\ mem[a][j] \in JobRecord
  BY DEF TypeOK, SubTypeOK
<1>2. mem'[a] = [mem[a] EXCEPT ![j] = NoRecord]
  BY DEF SaveNext, TypeOK, SubTypeOK
<1>3. \A i \in Jobs : mem'[a][i].status \in SavedStatus
  BY <1>1, <1>2, FreshType DEF SavedStatus
<1>4. Inactive(j)
  BY <1>1 DEF Inactive, SaveNext, SavedStatus, Active
<1>5. Local(a)
  BY DEF Local, SaveNext, Goto, TypeOK, SubTypeOK
<1>6. pc'[a] = pc[a] \/ (pc[a] = "saving" /\ pc'[a] = "idle")
  BY DEF SaveNext, Goto, TypeOK
<1>. QED BY <1>3, <1>4, <1>5, <1>6 DEF SaveNext, queueVars

LEMMA EndPassEffect ==
  ASSUME TypeOK, NEW w \in Workers, EndPass(w) \/ Die(w)
  PROVE  /\ WorkerOK(w)' /\ Local(w)
         /\ HeldEffect(w)
<1>1. w \in Actors
  BY DEF Actors
<1>2. pc'[w] \in {"idle", "down"} /\ Local(w)
  BY <1>1 DEF EndPass, Die, Forget, Goto, Local, TypeOK, SubTypeOK
<1>. QED BY <1>2 DEF WorkerOK, HeldEffect, Reserving, Saving, WorkerPhases, Pipeline

LEMMA WorkerStepEffect ==
  ASSUME TypeOK, NEW w \in Workers, WorkerOK(w), WorkerStep(w)
  PROVE  WorkerEffect(w)
<1>. w \in Actors
  BY DEF Actors
<1>r. ASSUME NEW j \in Jobs PROVE store[j] \in JobRecord /\ mem[w][j] \in JobRecord
  BY DEF TypeOK, SubTypeOK
<1>a. {"idle", "recovering", "replanning", "promoting"} \cap Reserving = {}
  BY DEF Reserving, Pipeline
<1>b. \A phase \in Reserving : phase \notin Saving \cup {"idle", "down"} /\ phase \in WorkerPhases
  BY DEF Reserving, Pipeline, Saving, WorkerPhases
\* Passes that end write nothing.
<1>e. ASSUME EndPass(w) \/ Die(w), store' = store, pc[w] \notin {"idle", "down"}
      PROVE  WorkerEffect(w)
  BY <1>e, EndPassEffect DEF WorkerEffect, StoreEffect, EndPass, Die, WorkerOK
<1>1. ASSUME NEW S \in SUBSET Jobs, BeginPass(w, S) PROVE WorkerEffect(w)
  <2>1. \A j \in Jobs : mem'[w][j].status \in SavedStatus
    <3>1. \A j \in Jobs : [i \in Jobs |-> TimedOut(store[i])][j].status \in SavedStatus
      BY <1>r, RecordInactive DEF SavedStatus
    <3>. QED BY <1>1, <3>1, HoldToSaveEffect DEF BeginPass
  <2>2. Local(w) /\ pc'[w] = "recovering"
    BY <1>1, LocalMove DEF BeginPass, HoldToSave
  <2>3. WorkerOK(w)' /\ HeldEffect(w)
    BY <1>1, <1>a, <2>1, <2>2 DEF WorkerOK, HeldEffect, BeginPass, WorkerPhases
  <2>. QED BY <1>1, <2>2, <2>3 DEF WorkerEffect, StoreEffect, BeginPass
<1>2. CASE PassDrained(w)
  BY <1>2, <1>e DEF PassDrained, Recovered
<1>3. CASE PassBlocked(w)
  BY <1>3, <1>e DEF PassBlocked, Recovered
<1>4. ASSUME NEW route \in Routings, PassReplans(w, route) PROVE WorkerEffect(w)
  <2>1. \A j \in Jobs : mem'[w][j].status \in SavedStatus
    BY <1>4, ReplanEffect DEF PassReplans
  <2>2. Local(w) /\ pc'[w] = "replanning"
    BY <1>4, LocalMove DEF PassReplans, ReplanRead, HoldToSave
  <2>3. WorkerOK(w)' /\ HeldEffect(w)
    BY <1>4, <1>a, <2>1, <2>2 DEF WorkerOK, HeldEffect, PassReplans, Recovered, WorkerPhases, queueVars
  <2>. QED BY <1>4, <2>2, <2>3 DEF WorkerEffect, StoreEffect, PassReplans, queueVars
<1>12. ASSUME NEW plan \in Plans, PassPromotes(w, plan) PROVE WorkerEffect(w)
  <2>1. \A j \in Jobs : mem'[w][j].status \in SavedStatus
    BY <1>12, PromoteEffect DEF PassPromotes
  <2>2. Local(w) /\ pc'[w] = "promoting"
    BY <1>12, LocalMove DEF PassPromotes, PromoteRead, HoldToSave
  <2>3. WorkerOK(w)' /\ HeldEffect(w)
    BY <1>12, <1>a, <2>1, <2>2 DEF WorkerOK, HeldEffect, PassPromotes, WorkerPhases, queueVars
  <2>. QED BY <1>12, <2>2, <2>3 DEF WorkerEffect, StoreEffect, PassPromotes, queueVars
<1>5. CASE PickNothing(w)
  BY <1>5, <1>e DEF PickNothing
<1>6. ASSUME NEW j \in Jobs, SaveNext(w, j) PROVE WorkerEffect(w)
  <2>1. pc[w] \in Saving /\ pc[w] # "saving"
    BY <1>6 DEF SaveNext, WorkerOK, WorkerPhases, Pipeline
  <2>2. \A i \in Jobs : mem[w][i].status \in SavedStatus
    BY <2>1 DEF WorkerOK
  <2>3. /\ Local(w) /\ lock' = lock /\ pc'[w] = pc[w] /\ Inactive(j)
        /\ \A i \in Jobs : mem'[w][i].status \in SavedStatus
    BY <1>6, <2>1, <2>2, SaveNextEffect
  <2>4. WorkerOK(w)' /\ HeldEffect(w)
    BY <1>b, <2>1, <2>3 DEF WorkerOK, HeldEffect
  <2>. QED BY <2>3, <2>4 DEF WorkerEffect, StoreEffect
<1>7. ASSUME NEW j \in Jobs, NEW p \in Providers, Pick(w, j, p) PROVE WorkerEffect(w)
  <2>. DEFINE r == [store[j] EXCEPT !.selected = p]
  <2>1. r.selected = p
    BY <1>r DEF JobRecord
  <2>. HIDE DEF r
  <2>2. Local(w) /\ pc'[w] = "picked" /\ mem'[w] = [mem[w] EXCEPT ![j] = r]
    BY <1>7, LocalMove DEF Pick, r
  <2>3. \A i \in Jobs : Holds(w, i)' => i = j
    BY <1>7, <2>2 DEF Pick, Reaches, HoldsNone, Holds, TypeOK, SubTypeOK
  <2>4. mem'[w][j].selected = p
    BY <2>1, <2>2 DEF TypeOK, SubTypeOK
  <2>5. WorkerOK(w)'
    BY <1>7, <1>b, <2>2, <2>3, <2>4 DEF WorkerOK, Reserving, Pick, Reaches, queueVars
  <2>6. HeldEffect(w)
    BY <1>7, <2>3, <2>4 DEF HeldEffect, Pick, Reaches, Active
  <2>. QED BY <1>7, <2>2, <2>5, <2>6 DEF WorkerEffect, StoreEffect, Pick, queueVars
<1>8. ASSUME NEW j \in Jobs, PickRaises(w, j) PROVE WorkerEffect(w)
  BY <1>8, <1>e DEF PickRaises, Reaches
\* The worker saves a job it dispatched, with the provider it selected.
<1>s. ASSUME NEW phase \in Reserving, NEW j \in Jobs, NEW r \in JobRecord, pc[w] \in Reserving,
             Holds(w, j), r.selected = mem[w][j].selected, Save(w, j, r), Goto(w, phase),
             lock' = lock
      PROVE  WorkerEffect(w)
  <2>1. Local(w) /\ pc'[w] = phase /\ mem'[w] = [mem[w] EXCEPT ![j] = r]
    BY <1>s, LocalMove DEF Save
  <2>2. \A i \in Jobs : Holds(w, i)' => Holds(w, i) /\ mem'[w][i].selected = mem[w][i].selected
    BY <1>s, <2>1 DEF Holds, TypeOK, SubTypeOK
  <2>3. WorkerOK(w)'
    BY <1>s, <1>b, <2>1, <2>2 DEF WorkerOK
  <2>4. HeldEffect(w)
    BY <1>s, <2>2 DEF HeldEffect
  <2>5. OwnSave(w, j)
    BY <1>s DEF OwnSave, Save
  <2>. QED BY <1>s, <2>1, <2>3, <2>4, <2>5 DEF WorkerEffect, StoreEffect
<1>9. ASSUME NEW j \in Jobs, MarkStarting(w, j) PROVE WorkerEffect(w)
  <2>. DEFINE r == [mem[w][j] EXCEPT !.status = "starting"]
  <2>1. r \in JobRecord /\ r.selected = mem[w][j].selected
    BY <1>r, RecordType, RecordSelection DEF Statuses
  <2>. HIDE DEF r
  <2>2. Save(w, j, r) /\ Goto(w, "gates") /\ lock' = lock /\ pc[w] = "picked" /\ Holds(w, j)
    BY <1>9 DEF MarkStarting, r
  <2>. QED BY <1>s, <2>1, <2>2 DEF Reserving, Pipeline
<1>10. ASSUME NEW j \in Jobs, Settle(w, j) PROVE WorkerEffect(w)
  <2>1. Remediated(mem[w][j]) \in JobRecord /\ Remediated(mem[w][j]).status \notin Active
    BY <1>r, RecordType, RecordInactive DEF Active
  <2>2. StoreEffect(w)
    BY <1>10, <2>1 DEF StoreEffect, Inactive, Settle
  <2>3. EndPass(w) /\ lock = w
    BY <1>10 DEF Settle, WorkerOK
  <2>. QED BY <2>2, <2>3, EndPassEffect DEF WorkerEffect
<1>11. ASSUME SubmitStep(w), UNCHANGED queueVars PROVE WorkerEffect(w)
  <2>1. SubmitEffect(w) /\ lock' = lock
    BY <1>11, SubmitStepEffect DEF TypeOK, queueVars
  <2>2. PICK phase \in Pipeline : Goto(w, phase)
    BY <2>1 DEF SubmitEffect, Goto
  <2>3. pc[w] \in Reserving /\ phase \in Reserving
    BY <2>1 DEF SubmitEffect, Reserving
  <2>4. CASE UNCHANGED <<store, mem>>
    <3>1. Local(w) /\ pc'[w] = phase
      BY <2>2, <2>4, LocalMove
    <3>2. WorkerOK(w)'
      BY <1>b, <2>1, <2>3, <2>4, <3>1 DEF WorkerOK, Holds
    <3>3. HeldEffect(w)
      BY <2>3, <2>4 DEF HeldEffect, Holds
    <3>. QED BY <2>1, <2>4, <3>1, <3>2, <3>3 DEF WorkerEffect, StoreEffect
  <2>5. CASE \E j \in Jobs, r \in JobRecord :
               Holds(w, j) /\ r.status # "absent" /\ r.selected = mem[w][j].selected /\ Save(w, j, r)
    BY <1>s, <2>1, <2>2, <2>3, <2>5
  <2>. QED BY <2>1, <2>4, <2>5 DEF SubmitEffect
<1>. QED
  BY <1>1, <1>2, <1>3, <1>4, <1>5, <1>6, <1>7, <1>8, <1>9, <1>10, <1>11, <1>12 DEF WorkerStep

LEMMA OperatorStepEffect ==
  ASSUME TypeOK, NEW o \in Operators, OperatorOK(o), OperatorStep(o)
  PROVE  OperatorEffect(o)
<1>. o \in Actors
  BY DEF Actors
<1>r. ASSUME NEW j \in Jobs PROVE store[j] \in JobRecord
  BY DEF TypeOK, SubTypeOK
<1>d. ASSUME NEW S, NEW r, Decide(o, S, r), \A j \in Jobs : j \in S => r[j].status \in SavedStatus
      PROVE  OperatorEffect(o)
  <2>1. \A j \in Jobs : mem'[o][j].status \in SavedStatus
    BY <1>d, HoldToSaveEffect DEF Decide
  <2>2. Local(o) /\ pc'[o] = "saving"
    BY <1>d, LocalMove DEF Decide, HoldToSave
  <2>. QED BY <1>d, <2>1, <2>2 DEF OperatorEffect, OperatorOK, Decide, queueVars
<1>1. ASSUME NEW j \in Jobs, EnqueueJob(o, j) PROVE OperatorEffect(o)
  <2>1. Inactive(j)
    BY <1>1, FreshType DEF Inactive, EnqueueJob, Active
  <2>. QED BY <1>1, <2>1 DEF OperatorEffect, OperatorOK, Local, EnqueueJob, queueVars
<1>2. ASSUME NEW j \in Jobs, CancelJob(o, j) PROVE OperatorEffect(o)
  BY <1>2, <1>d, <1>r, RecordInactive DEF CancelJob, SavedStatus
<1>3. ASSUME NEW j \in Jobs, ForceCancelJob(o, j) PROVE OperatorEffect(o)
  BY <1>3, <1>d, <1>r, RecordInactive DEF ForceCancelJob, SavedStatus
<1>4. ASSUME NEW j \in Jobs, RetryJob(o, j) PROVE OperatorEffect(o)
  BY <1>4, <1>d, <1>r, RecordInactive DEF RetryJob, SavedStatus
<1>5. ASSUME NEW j \in Jobs, SaveNext(o, j) PROVE OperatorEffect(o)
  <2>1. pc[o] = "saving" /\ \A i \in Jobs : mem[o][i].status \in SavedStatus
    BY <1>5 DEF SaveNext, OperatorOK, Saving
  <2>. QED BY <1>5, <2>1, SaveNextEffect DEF OperatorEffect, OperatorOK
<1>6. ASSUME NEW G \in SUBSET Jobs, CancelGroup(o, G) PROVE OperatorEffect(o)
  BY <1>6, <1>d, <1>r, RecordInactive DEF CancelGroup, SavedStatus
<1>7. ASSUME NEW route \in Routings, ReplanQueue(o, route) PROVE OperatorEffect(o)
  <2>1. \A j \in Jobs : mem'[o][j].status \in SavedStatus
    BY <1>7, ReplanEffect DEF ReplanQueue
  <2>2. Local(o) /\ pc'[o] = "saving"
    BY <1>7, LocalMove DEF ReplanQueue, ReplanRead, HoldToSave
  <2>. QED BY <1>7, <2>1, <2>2 DEF OperatorEffect, OperatorOK, ReplanQueue, queueVars
<1>8. ASSUME NEW j \in Jobs, IntakeJob(o, j) PROVE OperatorEffect(o)
  <2>1. \A i \in Jobs : [k \in Jobs |-> Buffered][i].status \in SavedStatus
    BY FreshType DEF SavedStatus
  <2>. QED BY <1>8, <1>d, <2>1 DEF IntakeJob
<1>9. ASSUME NEW plan \in Plans, PlanIntake(o, plan) PROVE OperatorEffect(o)
  <2>1. \A j \in Jobs : mem'[o][j].status \in SavedStatus
    BY <1>9, PromoteEffect DEF PlanIntake
  <2>2. Local(o) /\ pc'[o] = "saving"
    BY <1>9, LocalMove DEF PlanIntake, PromoteRead, HoldToSave
  <2>. QED BY <1>9, <2>1, <2>2 DEF OperatorEffect, OperatorOK, PlanIntake, queueVars
<1>. QED
  BY <1>1, <1>2, <1>3, <1>4, <1>5, <1>6, <1>7, <1>8, <1>9 DEF OperatorStep

-------------------------------------------------------------------------------
(* Counting the active jobs of a slot *)

\* A record that is not active takes no place on any slot.
LEMMA InactiveShrinks ==
  ASSUME TypeOK, NEW j \in Jobs, Inactive(j), NEW s
  PROVE  ActiveOn(s)' \subseteq ActiveOn(s)
BY DEF Inactive, ActiveOn, TypeOK, SubTypeOK

\* A worker's save of its own job takes at most that job's place, on its slot.
LEMMA OwnSaveShrinks ==
  ASSUME TypeOK, NEW w \in Workers, WorkerOK(w), NEW j \in Jobs, OwnSave(w, j), NEW s
  PROVE  /\ ActiveOn(s)' \ {j} \subseteq ActiveOn(s) \ {j}
         /\ s # Slot(mem[w][j].selected, j) => ActiveOn(s)' \subseteq ActiveOn(s)
<1>1. PICK r \in JobRecord : r.selected = mem[w][j].selected /\ store' = [store EXCEPT ![j] = r]
  BY DEF OwnSave
<1>2. r.selected # NoProvider
  BY <1>1, ProviderAssumption DEF OwnSave, WorkerOK
<1>3. ProviderOf(r, j) = mem[w][j].selected
  BY <1>1, <1>2 DEF ProviderOf
<1>4. store'[j] = r /\ \A i \in Jobs : i # j => store'[i] = store[i]
  BY <1>1 DEF TypeOK, SubTypeOK
<1>. QED BY <1>3, <1>4 DEF ActiveOn

\* The step of one worker keeps every slot within its limit and every
\* dispatched job's place free.
LEMMA WorkerCapacity ==
  ASSUME TypeOK, Discipline, CapacityRespected, Room, NEW w \in Workers, WorkerEffect(w)
  PROVE  CapacityRespected' /\ Room'
<1>. w \in Actors
  BY DEF Actors
<1>w. WorkerOK(w)
  BY DEF Discipline
<1>l. \A s \in Slots : Limit[s] \in Nat
  BY LimitAssumption
\* Another worker is at work only while this one is idle, and then writes nothing.
<1>o. ASSUME NEW v \in Workers, v # w, pc'[v] \in Reserving, store' # store
      PROVE  \E j \in Jobs : Inactive(j)
  <2>1. pc[v] \in Reserving
    BY <1>o DEF WorkerEffect, Local, Actors
  <2>2. lock = v
    BY <2>1 DEF Discipline, WorkerOK, Reserving, Pipeline
  <2>3. pc[w] \in {"idle", "down"}
    BY <1>w, <1>o, <2>2 DEF WorkerOK
  <2>. QED BY <1>o, <2>3 DEF WorkerEffect, StoreEffect, OwnSave, Reserving, Pipeline
\* The part of Room that is about the jobs a worker already held.
<1>h. ASSUME NEW v \in Workers, NEW j \in Jobs, NEW s \in Slots, pc'[v] \in Reserving, Holds(v, j)',
             s = Slot(mem'[v][j].selected, j)
      PROVE  Cardinality((ActiveOn(s) \ {j})) < Limit[s]
  <2>1. CASE /\ pc[v] \in Reserving /\ Holds(v, j)
             /\ mem'[v][j].selected = mem[v][j].selected
    BY <1>h, <2>1 DEF Room
  <2>2. CASE /\ v = w /\ ~Saturated(mem'[v][j].selected, j)
    <3>1. Cardinality(ActiveOn(s)) < Limit[s]
      BY <1>h, <1>l, <2>2, ActiveFinite DEF Saturated
    <3>2. Cardinality(ActiveOn(s) \ {j}) <= Cardinality(ActiveOn(s)) /\ IsFiniteSet(ActiveOn(s) \ {j})
      BY ActiveFinite, Smaller
    <3>3. Cardinality(ActiveOn(s) \ {j}) \in Nat
      BY <3>2, FS_CardinalityType
    <3>. QED BY <1>l, <3>1, <3>2, <3>3, ActiveFinite
  <2>3. v # w => pc'[v] = pc[v] /\ mem'[v] = mem[v]
    BY DEF WorkerEffect, Local, Actors
  <2>. QED BY <1>h, <2>1, <2>2, <2>3 DEF WorkerEffect, HeldEffect, Holds
\* It is enough that the jobs of a slot, other than a dispatched one, grow no more.
<1>g. ASSUME NEW v \in Workers, NEW j \in Jobs, NEW s \in Slots, pc'[v] \in Reserving, Holds(v, j)',
             s = Slot(mem'[v][j].selected, j), ActiveOn(s)' \ {j} \subseteq ActiveOn(s) \ {j}
      PROVE  Cardinality(ActiveOn(s)' \ {j}) < Limit[s]
  <2>1. IsFiniteSet(ActiveOn(s) \ {j})
    BY ActiveFinite, Smaller
  <2>2. /\ Cardinality(ActiveOn(s)' \ {j}) <= Cardinality(ActiveOn(s) \ {j})
        /\ IsFiniteSet(ActiveOn(s)' \ {j})
    BY <1>g, <2>1, Smaller
  <2>3. Cardinality(ActiveOn(s)' \ {j}) \in Nat /\ Cardinality(ActiveOn(s) \ {j}) \in Nat
    BY <2>1, <2>2, FS_CardinalityType
  <2>. QED BY <1>g, <1>h, <1>l, <2>2, <2>3
<1>c. ASSUME NEW s \in Slots, ActiveOn(s)' \subseteq ActiveOn(s)
      PROVE  Cardinality(ActiveOn(s)') <= Limit[s]
  <2>1. /\ Cardinality(ActiveOn(s)') <= Cardinality(ActiveOn(s))
        /\ IsFiniteSet(ActiveOn(s)')
    BY <1>c, ActiveFinite, Smaller
  <2>2. Cardinality(ActiveOn(s)') \in Nat
    BY <2>1, FS_CardinalityType
  <2>. QED BY <1>l, <2>1, <2>2, ActiveFinite DEF CapacityRespected
<1>1. CASE \A s \in Slots : ActiveOn(s)' \subseteq ActiveOn(s)
  BY <1>1, <1>c, <1>g DEF CapacityRespected, Room
<1>2. ASSUME NEW j \in Jobs, OwnSave(w, j), store' # store, ~\E i \in Jobs : Inactive(i)
      PROVE  CapacityRespected' /\ Room'
  <2>1. \A s \in Slots : ActiveOn(s)' \ {j} \subseteq ActiveOn(s) \ {j}
    BY <1>2, <1>w, OwnSaveShrinks
  <2>2. ASSUME NEW s \in Slots, s # Slot(mem[w][j].selected, j)
        PROVE  Cardinality(ActiveOn(s)') <= Limit[s]
    BY <1>2, <1>c, <1>w, <2>2, OwnSaveShrinks
  <2>3. ASSUME NEW s0 \in Slots, s0 = Slot(mem[w][j].selected, j)
        PROVE  Cardinality(ActiveOn(s0)') <= Limit[s0]
    <3>. DEFINE A == ActiveOn(s0)' \ {j}
    <3>1. Cardinality(ActiveOn(s0) \ {j}) < Limit[s0]
      BY <1>2, <2>3 DEF OwnSave, Room
    <3>2. IsFiniteSet(ActiveOn(s0) \ {j})
      BY ActiveFinite, Smaller
    <3>3. IsFiniteSet(A) /\ Cardinality(A) <= Cardinality(ActiveOn(s0) \ {j})
      BY <2>1, <2>3, <3>2, Smaller
    <3>4. IsFiniteSet(A \cup {j}) /\ Cardinality(A \cup {j}) = Cardinality(A) + 1
      BY <3>3, FS_AddElement
    <3>5. ActiveOn(s0)' \subseteq A \cup {j}
      OBVIOUS
    <3>6. IsFiniteSet(ActiveOn(s0)') /\ Cardinality(ActiveOn(s0)') <= Cardinality(A \cup {j})
      BY <3>4, <3>5, Smaller
    <3>7. /\ Cardinality(ActiveOn(s0)') \in Nat /\ Cardinality(A) \in Nat
          /\ Cardinality(ActiveOn(s0) \ {j}) \in Nat
      BY <3>2, <3>3, <3>6, FS_CardinalityType
    <3>. HIDE DEF A
    <3>. QED BY <1>l, <2>3, <3>1, <3>3, <3>4, <3>6, <3>7
  <2>4. ASSUME NEW v \in Workers, NEW i \in Jobs, NEW s \in Slots, pc'[v] \in Reserving, Holds(v, i)',
               s = Slot(mem'[v][i].selected, i)
        PROVE  Cardinality(ActiveOn(s)' \ {i}) < Limit[s]
    <3>1. v = w
      BY <1>2, <1>o, <2>4
    <3>2. Holds(w, i) /\ pc[w] \in Reserving
      BY <1>2, <2>4, <3>1 DEF WorkerEffect, HeldEffect
    <3>3. i = j
      BY <1>2, <1>w, <3>2 DEF WorkerOK, OwnSave
    <3>. QED BY <1>g, <2>1, <2>4, <3>3
  <2>5. CapacityRespected'
    BY <2>2, <2>3 DEF CapacityRespected
  <2>6. Room'
    BY <2>4 DEF Room
  <2>. QED BY <2>5, <2>6
<1>3. CASE store' = store
  BY <1>1, <1>3 DEF ActiveOn
<1>4. CASE \E i \in Jobs : Inactive(i)
  BY <1>1, <1>4, InactiveShrinks
<1>. QED
  BY <1>2, <1>3, <1>4 DEF WorkerEffect, StoreEffect

\* So does a step of an operator, or of nobody, that takes no place.
LEMMA OtherCapacity ==
  ASSUME TypeOK, CapacityRespected, Room,
         store' = store \/ \E j \in Jobs : Inactive(j),
         \A w \in Workers, j \in Jobs :
           pc'[w] \in Reserving /\ Holds(w, j)' =>
             pc[w] \in Reserving /\ Holds(w, j) /\ mem'[w][j] = mem[w][j]
  PROVE  CapacityRespected' /\ Room'
<1>1. ASSUME NEW s \in Slots PROVE ActiveOn(s)' \subseteq ActiveOn(s)
  <2>1. CASE store' = store
    BY <2>1 DEF ActiveOn
  <2>. QED BY <2>1, InactiveShrinks
<1>2. ASSUME NEW A, NEW B, A \subseteq B, IsFiniteSet(B), NEW n \in Nat
      PROVE  /\ Cardinality(B) <= n => Cardinality(A) <= n
             /\ Cardinality(B) < n => Cardinality(A) < n
  <2>1. /\ Cardinality(A) <= Cardinality(B)
        /\ Cardinality(A) \in Nat /\ Cardinality(B) \in Nat
    BY <1>2, Smaller, FS_CardinalityType
  <2>. QED BY <2>1
<1>l. ASSUME NEW s \in Slots PROVE Limit[s] \in Nat
  BY LimitAssumption
<1>3. ASSUME NEW s \in Slots PROVE Cardinality(ActiveOn(s)') <= Limit[s]
  <2>1. Cardinality(ActiveOn(s)) <= Limit[s]
    BY DEF CapacityRespected
  <2>. QED BY <1>1, <1>2, <1>l, <2>1, ActiveFinite
<1>4. ASSUME NEW w \in Workers, NEW j \in Jobs, NEW s \in Slots, pc'[w] \in Reserving, Holds(w, j)',
             s = Slot(mem'[w][j].selected, j)
      PROVE  Cardinality(ActiveOn(s)' \ {j}) < Limit[s]
  <2>1. Cardinality(ActiveOn(s) \ {j}) < Limit[s]
    BY <1>4 DEF Room
  <2>2. IsFiniteSet(ActiveOn(s) \ {j}) /\ ActiveOn(s)' \ {j} \subseteq ActiveOn(s) \ {j}
    BY <1>1, ActiveFinite, Smaller
  <2>. QED BY <1>2, <1>l, <2>1, <2>2
<1>. QED BY <1>3, <1>4 DEF CapacityRespected, Room

\* What a worker step does to the count of dispatches since the drain began.
LEMMA WorkerDrain ==
  ASSUME TypeOK, Discipline, DrainSeen, NEW w \in Workers, WorkerStep(w), WorkerEffect(w)
  PROVE  DrainSeen'
<1>. w \in Actors
  BY DEF Actors
<1>l. late \in 0..1 /\ draining \in BOOLEAN
  BY DEF TypeOK, DrainSeen
<1>s. ASSUME UNCHANGED <<draining, late>>,
             pc'[w] \in {"replanning", "promoting", "picked"} => late = 0
      PROVE  DrainSeen'
  <2>1. \A v \in Workers : v # w => pc'[v] = pc[v]
    BY DEF WorkerEffect, Local, Actors
  <2>. QED BY <1>s, <2>1 DEF DrainSeen
<1>e. ASSUME EndPass(w) \/ Die(w), UNCHANGED <<draining, late>> PROVE DrainSeen'
  <2>1. pc'[w] \in {"idle", "down"}
    BY <1>e DEF EndPass, Die, Goto, TypeOK
  <2>. QED BY <1>e, <1>s, <2>1
<1>1. ASSUME NEW S \in SUBSET Jobs, BeginPass(w, S) PROVE DrainSeen'
  <2>1. pc'[w] = "recovering"
    BY <1>1 DEF BeginPass, Goto, TypeOK
  <2>. QED BY <1>1, <1>s, <2>1 DEF BeginPass
<1>2. CASE PassDrained(w) \/ PassBlocked(w) \/ PickNothing(w)
  BY <1>2, <1>e DEF PassDrained, PassBlocked, PickNothing
<1>3. ASSUME NEW route \in Routings, PassReplans(w, route) PROVE DrainSeen'
  <2>1. late = 0
    BY <1>3 DEF PassReplans, DrainSeen
  <2>. QED BY <1>3, <1>s, <2>1 DEF PassReplans, queueVars
<1>10. ASSUME NEW plan \in Plans, PassPromotes(w, plan) PROVE DrainSeen'
  <2>1. late = 0
    BY <1>10, <1>l DEF PassPromotes, DrainSeen
  <2>. QED BY <1>10, <1>s, <2>1 DEF PassPromotes, queueVars
<1>4. ASSUME NEW j \in Jobs, SaveNext(w, j) PROVE DrainSeen'
  <2>1. pc[w] # "saving"
    BY DEF Discipline, WorkerOK, WorkerPhases, Pipeline
  <2>2. pc'[w] = pc[w]
    BY <1>4, <2>1 DEF SaveNext, Goto, TypeOK
  <2>3. pc[w] \in {"replanning", "promoting", "picked"} => late = 0
    BY <1>l DEF DrainSeen
  <2>. QED BY <1>4, <1>s, <2>2, <2>3 DEF SaveNext, queueVars
<1>5. ASSUME NEW j \in Jobs, NEW p \in Providers, Pick(w, j, p) PROVE DrainSeen'
  <2>1. late = 0
    BY <1>5, <1>l DEF Pick, Reaches, DrainSeen
  <2>. QED BY <1>5, <1>s, <2>1 DEF Pick, queueVars
<1>6. ASSUME NEW j \in Jobs, PickRaises(w, j) PROVE DrainSeen'
  BY <1>6, <1>e DEF PickRaises
<1>7. ASSUME NEW j \in Jobs, MarkStarting(w, j) PROVE DrainSeen'
  <2>1. late = 0 /\ lock = w
    BY <1>7, <1>l DEF MarkStarting, DrainSeen, Discipline, WorkerOK
  <2>2. pc'[w] = "gates" /\ UNCHANGED draining
    BY <1>7 DEF MarkStarting, Goto, TypeOK
  <2>3. ASSUME NEW v \in Workers, v # w PROVE pc'[v] \in {"idle", "down"}
    BY <2>1, <2>3 DEF Discipline, WorkerOK, WorkerEffect, Local, Actors
  <2>4. late' \in {0, 1} /\ (~draining => late' = 0)
    BY <1>7, <2>1 DEF MarkStarting
  <2>. QED BY <2>2, <2>3, <2>4 DEF DrainSeen
<1>8. ASSUME NEW j \in Jobs, Settle(w, j) PROVE DrainSeen'
  BY <1>8, <1>e DEF Settle
<1>9. ASSUME SubmitStep(w), UNCHANGED queueVars PROVE DrainSeen'
  <2>1. SubmitEffect(w)
    BY <1>9, SubmitStepEffect DEF TypeOK
  <2>2. pc'[w] \in Pipeline
    BY <2>1 DEF SubmitEffect, TypeOK
  <2>. QED BY <1>9, <1>s, <2>2 DEF Pipeline, queueVars
<1>. QED
  BY <1>1, <1>2, <1>3, <1>4, <1>5, <1>6, <1>7, <1>8, <1>9, <1>10 DEF WorkerStep

-------------------------------------------------------------------------------
(* The inductive invariant *)

LEMMA IInvInit == Init => IInv
<1>. SUFFICES ASSUME Init PROVE IInv
  OBVIOUS
<1>1. TypeOK
  BY InitType
<1>2. Discipline
  BY DEF Init, SubInit, Discipline, WorkerOK, OperatorOK, WorkerPhases, Saving, Reserving, Pipeline, Actors
<1>3. ASSUME NEW s PROVE ActiveOn(s) = {}
  BY FreshType DEF Init, SubInit, ActiveOn, Active
<1>4. CapacityRespected
  BY <1>3, FS_EmptySet, LimitAssumption DEF CapacityRespected
<1>5. Room
  BY DEF Init, SubInit, Room, Reserving, Pipeline, Actors
<1>6. DrainSeen
  BY DEF Init, DrainSeen
<1>. QED BY <1>1, <1>2, <1>4, <1>5, <1>6 DEF IInv

\* An actor stops in the middle of its work, or a stopped worker starts again.
StopOrStart(a) ==
  \/ a \in Workers /\ (WorkerCrash(a) \/ Restart(a))
  \/ a \in Operators /\ OperatorCrash(a)

LEMMA CoreStep == CoreInv /\ [Next]_vars => CoreInv'
<1>. SUFFICES ASSUME CoreInv, [Next]_vars PROVE CoreInv'
  OBVIOUS
<1>. USE DEF CoreInv
<1>t. TypeOK'
  BY StepType
<1>. Workers \subseteq Actors /\ Operators \subseteq Actors
  BY DEF Actors
<1>1. ASSUME NEW w \in Workers, WorkerStep(w) PROVE CoreInv'
  <2>1. WorkerEffect(w)
    BY <1>1, WorkerStepEffect DEF Discipline
  <2>2. ASSUME NEW v \in Workers PROVE WorkerOK(v)'
    <3>1. CASE v = w
      BY <2>1, <3>1 DEF WorkerEffect
    <3>2. CASE v # w
      <4>1. pc'[v] = pc[v] /\ mem'[v] = mem[v] /\ WorkerOK(v)
        BY <2>1, <3>2 DEF WorkerEffect, Local, Discipline
      <4>2. lock' = lock \/ lock # v
        BY <2>1, <3>2, QueueAssumption DEF WorkerEffect
      <4>. QED BY <4>1, <4>2 DEF WorkerOK, Holds
    <3>. QED BY <3>1, <3>2
  <2>3. ASSUME NEW o \in Operators PROVE OperatorOK(o)'
    <3>1. pc'[o] = pc[o] /\ mem'[o] = mem[o] /\ OperatorOK(o)
      BY <2>1, ActorAssumption DEF WorkerEffect, Local, Discipline
    <3>. QED BY <3>1 DEF OperatorOK
  <2>4. DrainSeen'
    BY <1>1, <2>1, WorkerDrain
  <2>. QED BY <1>t, <2>2, <2>3, <2>4 DEF Discipline
<1>2. ASSUME NEW o \in Operators, OperatorStep(o) PROVE CoreInv'
  <2>1. OperatorEffect(o)
    BY <1>2, OperatorStepEffect DEF Discipline
  <2>2. ASSUME NEW v \in Workers PROVE pc'[v] = pc[v] /\ mem'[v] = mem[v]
    BY <2>1, ActorAssumption DEF OperatorEffect, Local
  <2>3. ASSUME NEW v \in Workers PROVE WorkerOK(v)'
    <3>1. lock' = lock /\ WorkerOK(v)
      BY <2>1 DEF OperatorEffect, Discipline
    <3>. QED BY <2>2, <3>1 DEF WorkerOK, Holds
  <2>4. ASSUME NEW q \in Operators PROVE OperatorOK(q)'
    <3>1. CASE q = o
      BY <2>1, <3>1 DEF OperatorEffect
    <3>2. CASE q # o
      <4>1. pc'[q] = pc[q] /\ mem'[q] = mem[q] /\ OperatorOK(q)
        BY <2>1, <3>2 DEF OperatorEffect, Local, Discipline
      <4>. QED BY <4>1 DEF OperatorOK
    <3>. QED BY <3>1, <3>2
  <2>5. UNCHANGED <<draining, late>>
    BY <1>2 DEF OperatorStep, EnqueueJob, CancelJob, ForceCancelJob, RetryJob, CancelGroup,
                IntakeJob, PlanIntake, ReplanQueue, Decide, SaveNext, queueVars
  <2>6. DrainSeen'
    BY <2>2, <2>5 DEF DrainSeen
  <2>. QED BY <1>t, <2>3, <2>4, <2>6 DEF Discipline
<1>3. CASE StartDrain \/ ClearDrain
  <2>1. UNCHANGED <<store, wal, pc, mem, lock>>
    BY <1>3 DEF StartDrain, ClearDrain
  <2>2. Discipline'
    BY <2>1 DEF Discipline, WorkerOK, OperatorOK, Holds
  <2>3. DrainSeen'
    BY <1>3, <2>1 DEF StartDrain, ClearDrain, DrainSeen
  <2>. QED BY <1>t, <2>2, <2>3
<1>4. ASSUME NEW a \in Actors, StopOrStart(a) PROVE CoreInv'
  <2>1. /\ pc'[a] \in {"idle", "down"} /\ (a \in Operators => pc'[a] = "idle")
        /\ store' = store /\ UNCHANGED <<draining, late>>
        /\ \A b \in Actors : b # a => pc'[b] = pc[b] /\ mem'[b] = mem[b] /\ (lock = b => lock' = b)
    BY <1>4, ActorAssumption DEF StopOrStart, WorkerCrash, Restart, OperatorCrash, Die, Goto,
                                 Forget, TypeOK, SubTypeOK, queueVars
  <2>2. ASSUME NEW v \in Workers PROVE WorkerOK(v)'
    <3>1. CASE v = a
      BY <2>1, <3>1 DEF WorkerOK, WorkerPhases, Saving, Reserving, Pipeline
    <3>2. CASE v # a
      BY <2>1, <3>2 DEF WorkerOK, Holds, Discipline
    <3>. QED BY <3>1, <3>2
  <2>3. ASSUME NEW o \in Operators PROVE OperatorOK(o)'
    <3>1. CASE o = a
      BY <2>1, <3>1 DEF OperatorOK
    <3>2. CASE o # a
      BY <2>1, <3>2 DEF OperatorOK, Discipline
    <3>. QED BY <3>1, <3>2
  <2>4. DrainSeen'
    BY <2>1 DEF DrainSeen
  <2>. QED BY <1>t, <2>2, <2>3, <2>4 DEF Discipline
<1>5. CASE UNCHANGED vars
  <2>1. UNCHANGED <<store, wal, pc, mem, lock, draining, late>>
    BY <1>5 DEF vars
  <2>2. Discipline'
    BY <2>1 DEF Discipline, WorkerOK, OperatorOK, Holds
  <2>. QED BY <1>t, <2>1, <2>2 DEF DrainSeen
<1>. QED BY <1>1, <1>2, <1>3, <1>4, <1>5 DEF Next, StopOrStart

LEMMA IInvStep == IInv /\ [Next]_vars => IInv'
<1>. SUFFICES ASSUME IInv, [Next]_vars PROVE CapacityRespected' /\ Room'
  BY CoreStep DEF IInv, CoreInv
<1>. USE DEF IInv
<1>. Workers \subseteq Actors /\ Operators \subseteq Actors
  BY DEF Actors
\* Who is not a worker takes no place, and no worker comes to dispatch by it.
<1>o. ASSUME store' = store \/ \E j \in Jobs : Inactive(j),
             \A w \in Workers : \/ pc'[w] = pc[w] /\ mem'[w] = mem[w]
                                \/ pc'[w] \in {"idle", "down"}
      PROVE  CapacityRespected' /\ Room'
  <2>1. \A w \in Workers, j \in Jobs :
          pc'[w] \in Reserving /\ Holds(w, j)' =>
            pc[w] \in Reserving /\ Holds(w, j) /\ mem'[w][j] = mem[w][j]
    BY <1>o DEF Holds, Reserving, Pipeline
  <2>. QED BY <1>o, <2>1, OtherCapacity
<1>1. ASSUME NEW w \in Workers, WorkerStep(w) PROVE CapacityRespected' /\ Room'
  <2>1. WorkerEffect(w)
    BY <1>1, WorkerStepEffect DEF Discipline
  <2>. QED BY <2>1, WorkerCapacity
<1>2. ASSUME NEW o \in Operators, OperatorStep(o) PROVE CapacityRespected' /\ Room'
  <2>1. OperatorEffect(o)
    BY <1>2, OperatorStepEffect DEF Discipline
  <2>2. \A w \in Workers : pc'[w] = pc[w] /\ mem'[w] = mem[w]
    BY <2>1, ActorAssumption DEF OperatorEffect, Local
  <2>. QED BY <1>o, <2>1, <2>2 DEF OperatorEffect
<1>3. CASE StartDrain \/ ClearDrain \/ UNCHANGED vars
  BY <1>o, <1>3 DEF StartDrain, ClearDrain, vars
<1>4. ASSUME NEW a \in Actors, StopOrStart(a) PROVE CapacityRespected' /\ Room'
  <2>1. /\ store' = store /\ pc'[a] \in {"idle", "down"}
        /\ \A b \in Actors : b # a => pc'[b] = pc[b] /\ mem'[b] = mem[b]
    BY <1>4 DEF StopOrStart, WorkerCrash, Restart, OperatorCrash, Die, Goto,
                Forget, TypeOK, SubTypeOK
  <2>. QED BY <1>o, <2>1
<1>. QED BY <1>1, <1>2, <1>3, <1>4 DEF Next, StopOrStart

\* However operators cancel, retry, replan and enqueue jobs, and whoever dies when,
\* the stored records never show more active jobs on a slot than its limit.
THEOREM WorkerCapacityRespected == Spec => []CapacityRespected
<1>1. IInv => CapacityRespected
  BY DEF IInv
<1>. QED BY <1>1, IInvInit, IInvStep, PTL DEF Spec

\* However many workers poll, at most one job is dispatched once a drain began.
THEOREM DrainBounded == Spec => []DrainBound
<1>1. IInv => DrainBound
  BY DEF IInv, DrainSeen, DrainBound
<1>. QED BY <1>1, IInvInit, IInvStep, PTL DEF Spec

-------------------------------------------------------------------------------
(* What a pass writes back *)

Passing == {"recovering", "replanning", "promoting"}

\* A job the worker is about to put back in the queue is not at a provider: only
\* the holder of the lock dispatches.
Spared(w) ==
  pc[w] \in Passing => \A j \in Jobs : mem[w][j].status = "queued" => store[j].status \notin Active

\* Kept by a step that takes no new record and makes no job active.
LEMMA SparedKept ==
  ASSUME TypeOK, NEW w \in Workers, Spared(w),
         store' = store \/ \E j \in Jobs : Inactive(j),
         pc'[w] \in Passing =>
           pc[w] \in Passing /\ \A j \in Jobs : mem'[w][j].status = "queued" => mem[w][j].status = "queued"
  PROVE  Spared(w)'
<1>1. ASSUME NEW j \in Jobs, store[j].status \notin Active PROVE store'[j].status \notin Active
  BY <1>1 DEF Inactive, TypeOK, SubTypeOK
<1>. QED BY <1>1 DEF Spared

LEMMA SparedOwnStep ==
  ASSUME TypeOK, NEW w \in Workers, WorkerOK(w), Spared(w), WorkerStep(w)
  PROVE  Spared(w)'
<1>. w \in Actors
  BY DEF Actors
<1>r. ASSUME NEW j \in Jobs PROVE store[j] \in JobRecord
  BY DEF TypeOK, SubTypeOK
<1>o. ASSUME pc'[w] \notin Passing PROVE Spared(w)'
  BY <1>o DEF Spared
<1>1. ASSUME NEW S \in SUBSET Jobs, BeginPass(w, S) PROVE Spared(w)'
  <2>1. \A j \in Jobs : mem'[w][j].status \in {"failed", "absent"}
    BY <1>1, <1>r, RecordInactive, FreshType DEF BeginPass, HoldToSave, TypeOK, SubTypeOK
  <2>. QED BY <2>1 DEF Spared
<1>2. ASSUME NEW route \in Routings, PassReplans(w, route) PROVE Spared(w)'
  <2>1. ASSUME NEW j \in Jobs, mem'[w][j].status = "queued" PROVE store[j].status = "queued"
    <3>1. j \in Rewritten(route)
      BY <1>2, <2>1, FreshType DEF PassReplans, ReplanRead, HoldToSave, TypeOK, SubTypeOK
    <3>. QED BY <3>1 DEF Rewritten
  <2>. QED BY <1>2, <2>1 DEF Spared, PassReplans, Active
<1>3. ASSUME NEW plan \in Plans, PassPromotes(w, plan) PROVE Spared(w)'
  <2>1. ASSUME NEW j \in Jobs, mem'[w][j].status = "queued" PROVE store[j].status = "buffered"
    <3>1. j \in PromotedBy(plan)
      BY <1>3, <2>1, FreshType DEF PassPromotes, PromoteRead, HoldToSave, TypeOK, SubTypeOK
    <3>. QED BY <3>1 DEF PromotedBy
  <2>. QED BY <1>3, <2>1 DEF Spared, PassPromotes, Active
<1>4. ASSUME NEW j \in Jobs, SaveNext(w, j) PROVE Spared(w)'
  <2>1. pc[w] \in Passing /\ \A i \in Jobs : mem[w][i].status \in SavedStatus
    BY <1>4 DEF SaveNext, WorkerOK, WorkerPhases, Saving, Pipeline, Passing
  <2>2. mem'[w] = [mem[w] EXCEPT ![j] = NoRecord] /\ mem[w] \in [Jobs -> JobRecord]
    BY <1>4 DEF SaveNext, TypeOK, SubTypeOK
  <2>3. \A i \in Jobs : mem'[w][i].status = "queued" => mem[w][i].status = "queued"
    BY <2>2, FreshType
  <2>4. Inactive(j)
    BY <1>4, <2>1, SaveNextEffect
  <2>. QED BY <2>1, <2>3, <2>4, SparedKept
<1>5. ASSUME EndPass(w) \/ Die(w) PROVE Spared(w)'
  <2>1. pc'[w] \in {"idle", "down"}
    BY <1>5 DEF EndPass, Die, Goto, TypeOK
  <2>. QED BY <1>o, <2>1 DEF Passing
<1>6. CASE PassDrained(w) \/ PassBlocked(w) \/ PickNothing(w)
  BY <1>5, <1>6 DEF PassDrained, PassBlocked, PickNothing
<1>7. ASSUME NEW j \in Jobs, PickRaises(w, j) \/ Settle(w, j) PROVE Spared(w)'
  BY <1>5, <1>7 DEF PickRaises, Settle
<1>8. ASSUME NEW j \in Jobs, NEW p \in Providers, Pick(w, j, p) PROVE Spared(w)'
  BY <1>8, <1>o DEF Pick, Goto, TypeOK, Passing
<1>9. ASSUME NEW j \in Jobs, MarkStarting(w, j) PROVE Spared(w)'
  BY <1>9, <1>o DEF MarkStarting, Goto, TypeOK, Passing
<1>10. ASSUME SubmitStep(w) PROVE Spared(w)'
  <2>1. pc'[w] \in Pipeline
    BY <1>10, SubmitStepEffect DEF SubmitEffect, TypeOK
  <2>. QED BY <1>o, <2>1 DEF Passing, Pipeline
<1>. QED
  BY <1>1, <1>2, <1>3, <1>4, <1>6, <1>7, <1>8, <1>9, <1>10 DEF WorkerStep

LEMMA SparedStep ==
  IInv /\ (\A w \in Workers : Spared(w)) /\ [Next]_vars => (\A w \in Workers : Spared(w))'
<1>. SUFFICES ASSUME IInv, \A w \in Workers : Spared(w), [Next]_vars, NEW w \in Workers
              PROVE  Spared(w)'
  OBVIOUS
<1>. USE DEF IInv
<1>. Workers \subseteq Actors /\ Operators \subseteq Actors
  BY DEF Actors
<1>1. ASSUME NEW v \in Workers, WorkerStep(v) PROVE Spared(w)'
  <2>1. CASE v = w
    BY <1>1, <2>1, SparedOwnStep DEF Discipline
  <2>2. CASE v # w /\ pc[w] \in Passing
    <3>1. WorkerEffect(v)
      BY <1>1, WorkerStepEffect DEF Discipline
    <3>2. lock = w
      BY <2>2 DEF Discipline, WorkerOK, Passing
    <3>3. pc[v] \in {"idle", "down"}
      BY <2>2, <3>2 DEF Discipline, WorkerOK
    <3>4. store' = store \/ \E j \in Jobs : Inactive(j)
      BY <3>1, <3>3 DEF WorkerEffect, StoreEffect, OwnSave, Reserving, Pipeline
    <3>5. pc'[w] = pc[w] /\ mem'[w] = mem[w]
      BY <2>2, <3>1 DEF WorkerEffect, Local
    <3>. QED BY <2>2, <3>4, <3>5, SparedKept
  <2>3. CASE v # w /\ pc[w] \notin Passing
    <3>1. pc'[w] = pc[w]
      BY <1>1, <2>3, WorkerStepEffect DEF Discipline, WorkerEffect, Local
    <3>. QED BY <2>3, <3>1 DEF Spared
  <2>. QED BY <2>1, <2>2, <2>3
<1>2. ASSUME NEW o \in Operators, OperatorStep(o) PROVE Spared(w)'
  <2>1. OperatorEffect(o)
    BY <1>2, OperatorStepEffect DEF Discipline
  <2>2. pc'[w] = pc[w] /\ mem'[w] = mem[w]
    BY <2>1, ActorAssumption DEF OperatorEffect, Local
  <2>. QED BY <2>1, <2>2, SparedKept DEF OperatorEffect
<1>3. CASE StartDrain \/ ClearDrain
  BY <1>3, SparedKept DEF StartDrain, ClearDrain
<1>4. ASSUME NEW a \in Actors, StopOrStart(a) PROVE Spared(w)'
  <2>1. /\ store' = store
        /\ a = w => pc'[w] \in {"idle", "down"}
        /\ a # w => pc'[w] = pc[w] /\ mem'[w] = mem[w]
    BY <1>4, ActorAssumption DEF StopOrStart, WorkerCrash, Restart, OperatorCrash, Die, Goto,
                                 Forget, TypeOK, SubTypeOK, queueVars
  <2>. QED BY <2>1, SparedKept DEF Passing
<1>5. CASE UNCHANGED vars
  BY <1>5, SparedKept DEF vars
<1>. QED BY <1>1, <1>2, <1>3, <1>4, <1>5 DEF Next, StopOrStart

\* However stale the list a worker's replan or promotion works from, it never
\* puts a job that is at a provider back in the queue.
THEOREM WorkerPlansAreSafe == Spec => WorkerSparesCommitted
<1>1. Init => \A w \in Workers : Spared(w)
  BY DEF Init, SubInit, Spared, Passing, Actors
<1>2. ASSUME IInv, \A w \in Workers : Spared(w),
             NEW w \in Workers, NEW j \in Jobs, SaveNext(w, j), store'[j].status = "queued"
      PROVE  store[j].status \notin Active
  <2>1. pc[w] \in Passing
    BY <1>2 DEF IInv, Discipline, SaveNext, WorkerOK, WorkerPhases, Saving, Pipeline, Passing
  <2>2. mem[w][j].status = "queued"
    BY <1>2 DEF IInv, SaveNext, TypeOK, SubTypeOK
  <2>. QED BY <1>2, <2>1, <2>2 DEF Spared
<1>3. IInv /\ (\A w \in Workers : Spared(w)) =>
        [\A w \in Workers, j \in Jobs :
           SaveNext(w, j) /\ store'[j].status = "queued" => store[j].status \notin Active]_vars
  BY <1>2
<1>. QED BY <1>1, <1>3, IInvInit, IInvStep, SparedStep, PTL DEF Spec, WorkerSparesCommitted

-------------------------------------------------------------------------------
(* The worker and the operators implement the slot pool *)

\* The stored record of a dispatched job, once active, is on the slot the worker
\* selected for it.
Placed ==
  \A w \in Workers, j \in Jobs :
    pc[w] \in Reserving /\ Holds(w, j) /\ store[j].status \in Active
      => store[j].selected = mem[w][j].selected

\* What any step of the system does to the store: nothing, a record that is not
\* active, or a save by a worker of the job it dispatched.
StoreMoves ==
  store' = store \/ \E j \in Jobs : Inactive(j) \/ \E w \in Workers : OwnSave(w, j)

\* Only the holder of the lock dispatches, and no other job than its own.
LEMMA OneOwner ==
  ASSUME Discipline, NEW v \in Workers, NEW w \in Workers, NEW i \in Jobs, NEW j \in Jobs,
         pc[v] \in Reserving, Holds(v, i), pc[w] \in Reserving, Holds(w, j)
  PROVE  v = w /\ i = j
<1>1. lock = v /\ lock = w
  BY DEF Discipline, WorkerOK, Reserving, Pipeline
<1>. QED BY <1>1 DEF Discipline, WorkerOK

LEMMA PlacedKept ==
  ASSUME TypeOK, Discipline, Placed, StoreMoves,
         \A w \in Workers, j \in Jobs :
           pc'[w] \in Reserving /\ Holds(w, j)' =>
             \/ /\ pc[w] \in Reserving /\ Holds(w, j)
                /\ mem'[w][j].selected = mem[w][j].selected
             \/ store' = store /\ store[j].status \notin Active
  PROVE  Placed'
<1>. SUFFICES ASSUME NEW w \in Workers, NEW j \in Jobs,
                     pc'[w] \in Reserving, Holds(w, j)', store'[j].status \in Active
              PROVE  store'[j].selected = mem'[w][j].selected
  BY DEF Placed
<1>1. /\ pc[w] \in Reserving /\ Holds(w, j)
      /\ mem'[w][j].selected = mem[w][j].selected
  OBVIOUS
<1>2. CASE store'[j] = store[j]
  BY <1>1, <1>2 DEF Placed
<1>3. ASSUME NEW i \in Jobs, Inactive(i) PROVE store'[j] = store[j]
  BY <1>3 DEF Inactive, TypeOK, SubTypeOK
<1>4. ASSUME NEW i \in Jobs, NEW v \in Workers, OwnSave(v, i)
      PROVE  store'[j].selected = mem'[w][j].selected
  <2>1. v = w /\ i = j
    BY <1>1, <1>4, OneOwner DEF OwnSave
  <2>. QED BY <1>1, <1>4, <2>1 DEF OwnSave, TypeOK, SubTypeOK
<1>. QED BY <1>2, <1>3, <1>4 DEF StoreMoves

\* The parts of a step that Placed and the pool look at.
LEMMA StepMoves ==
  ASSUME IInv, [Next]_vars
  PROVE  /\ StoreMoves
         /\ \A w \in Workers, j \in Jobs :
              pc'[w] \in Reserving /\ Holds(w, j)' =>
                \/ /\ pc[w] \in Reserving /\ Holds(w, j)
                   /\ mem'[w][j].selected = mem[w][j].selected
                \/ store' = store /\ store[j].status \notin Active
<1>. USE DEF IInv
<1>. Workers \subseteq Actors /\ Operators \subseteq Actors
  BY DEF Actors
<1>. DEFINE Kept(w) == pc'[w] = pc[w] /\ mem'[w] = mem[w]
<1>k. ASSUME NEW w \in Workers, NEW j \in Jobs, Kept(w), pc'[w] \in Reserving, Holds(w, j)'
      PROVE  pc[w] \in Reserving /\ Holds(w, j) /\ mem'[w][j].selected = mem[w][j].selected
  BY <1>k DEF Holds
<1>1. ASSUME NEW v \in Workers, WorkerStep(v)
      PROVE  /\ StoreMoves
             /\ \A w \in Workers, j \in Jobs :
                  pc'[w] \in Reserving /\ Holds(w, j)' =>
                    \/ /\ pc[w] \in Reserving /\ Holds(w, j)
                       /\ mem'[w][j].selected = mem[w][j].selected
                    \/ store' = store /\ store[j].status \notin Active
  <2>1. WorkerEffect(v)
    BY <1>1, WorkerStepEffect DEF Discipline
  <2>2. \A w \in Workers : w # v => Kept(w)
    BY <2>1 DEF WorkerEffect, Local
  <2>. QED BY <1>k, <2>1, <2>2 DEF WorkerEffect, StoreEffect, StoreMoves, HeldEffect
<1>2. ASSUME NEW o \in Operators, OperatorStep(o)
      PROVE  StoreMoves /\ \A w \in Workers : Kept(w)
  <2>1. OperatorEffect(o)
    BY <1>2, OperatorStepEffect DEF Discipline
  <2>. QED BY <2>1, ActorAssumption DEF OperatorEffect, Local, StoreMoves
<1>3. CASE StartDrain \/ ClearDrain \/ UNCHANGED vars
  <2>1. StoreMoves /\ \A w \in Workers : Kept(w)
    BY <1>3 DEF StartDrain, ClearDrain, vars, StoreMoves
  <2>. QED BY <1>k, <2>1
<1>4. ASSUME NEW a \in Actors, StopOrStart(a)
      PROVE  StoreMoves /\ \A w \in Workers : Kept(w) \/ pc'[w] \notin Reserving
  <2>1. /\ store' = store
        /\ a \in Workers => pc'[a] \in {"idle", "down"}
        /\ \A w \in Workers : w # a => Kept(w)
    BY <1>4, ActorAssumption DEF StopOrStart, WorkerCrash, Restart, OperatorCrash, Die, Goto,
                                 Forget, TypeOK, SubTypeOK, queueVars
  <2>. QED BY <2>1 DEF StoreMoves, Reserving, Pipeline
<1>. QED BY <1>k, <1>1, <1>2, <1>3, <1>4 DEF Next, StopOrStart

LEMMA PlacedStep == IInv /\ Placed /\ [Next]_vars => Placed'
BY StepMoves, PlacedKept DEF IInv

\* Each step of the queue takes or gives back at most one slot.
LEMMA PoolStep ==
  ASSUME IInv, Placed, [Next]_vars
  PROVE  [Pool!Next]_([s \in Slots |-> ActiveOn(s)])
<1>. USE DEF IInv
<1>1. CASE store' = store
  <2>1. [s \in Slots |-> ActiveOn(s)]' = [s \in Slots |-> ActiveOn(s)]
    BY <1>1 DEF ActiveOn
  <2>. QED BY <2>1
<1>2. ASSUME NEW j \in Jobs, Inactive(j) PROVE [Pool!Next]_([s \in Slots |-> ActiveOn(s)])
  BY <1>2, PoolMoves DEF Inactive, TypeOK
<1>3. ASSUME NEW j \in Jobs, NEW w \in Workers, OwnSave(w, j)
      PROVE  [Pool!Next]_([s \in Slots |-> ActiveOn(s)])
  <2>1. PICK r \in JobRecord : r.selected = mem[w][j].selected /\ store' = [store EXCEPT ![j] = r]
    BY <1>3 DEF OwnSave
  <2>2. r.selected \in Providers
    BY <1>3, <2>1 DEF OwnSave, Discipline, WorkerOK
  <2>3. store[j].status \in Active => r.selected = store[j].selected
    BY <1>3, <2>1 DEF Placed, OwnSave
  <2>4. ASSUME store[j].status \notin Active
        PROVE  Cardinality(ActiveOn(Slot(r.selected, j))) < Limit[Slot(r.selected, j)]
    <3>. DEFINE s == Slot(r.selected, j)
    <3>1. s \in Slots
      BY <2>2, ProviderAssumption DEF Slots, Slot
    <3>2. Cardinality(ActiveOn(s) \ {j}) < Limit[s]
      BY <1>3, <2>1, <3>1 DEF Room, OwnSave
    <3>3. ActiveOn(s) \ {j} = ActiveOn(s)
      BY <2>4 DEF ActiveOn
    <3>. QED BY <3>2, <3>3
  <2>. QED BY <2>1, <2>2, <2>3, <2>4, PoolMoves DEF TypeOK
<1>. QED BY <1>1, <1>2, <1>3, StepMoves DEF StoreMoves

\* The stored records of the worker's queue are the abstract pool: a job enters a
\* slot only while fewer jobs than its limit are in it, one job at a time.
THEOREM WorkerImplementsPool == Spec => PoolSpec
<1>1. Init => Placed /\ Pool!Init
  <2>. SUFFICES ASSUME Init PROVE Placed /\ Pool!Init
    OBVIOUS
  <2>1. \A s : ActiveOn(s) = {}
    BY FreshType DEF Init, SubInit, ActiveOn, Active
  <2>2. Placed
    BY DEF Init, SubInit, Placed, Reserving, Pipeline, Actors
  <2>. QED BY <2>1, <2>2 DEF Pool!Init
<1>2. IInv /\ Placed /\ [Next]_vars => [Pool!Next]_([s \in Slots |-> ActiveOn(s)])
  BY PoolStep
<1>. QED BY <1>1, <1>2, IInvInit, IInvStep, PlacedStep, PTL DEF Spec, PoolSpec, Pool!Spec

-------------------------------------------------------------------------------
(* A stranded submission blocks dispatch *)

\* From its check of the log to the dispatch a worker sees no job at a provider whose
\* submission the log has open.
Checked(w) ==
  pc[w] \in {"replanning", "promoting", "picked"} =>
    \A j \in Jobs : store[j].status \in Active /\ wal[j].submit => wal[j].final

\* Kept by a step that leaves the log, makes no job active and brings nobody there.
LEMMA CheckedKept ==
  ASSUME TypeOK, NEW w \in Workers, Checked(w), UNCHANGED wal,
         store' = store \/ \E j \in Jobs : Inactive(j),
         pc'[w] \in {"replanning", "promoting", "picked"} =>
           pc[w] \in {"replanning", "promoting", "picked"}
  PROVE  Checked(w)'
<1>1. ASSUME NEW j \in Jobs, store[j].status \notin Active PROVE store'[j].status \notin Active
  BY <1>1 DEF Inactive, TypeOK, SubTypeOK
<1>. QED BY <1>1 DEF Checked

\* The worker's own steps: the check itself, the lists it saves and the pick.
LEMMA CheckedOwnStep ==
  ASSUME TypeOK, NEW w \in Workers, WorkerOK(w), Checked(w), WorkerStep(w)
  PROVE  Checked(w)'
<1>. w \in Actors
  BY DEF Actors
<1>o. ASSUME pc'[w] \notin {"replanning", "promoting", "picked"} PROVE Checked(w)'
  BY <1>o DEF Checked
<1>1. ASSUME NEW S \in SUBSET Jobs, BeginPass(w, S) PROVE Checked(w)'
  BY <1>1, <1>o DEF BeginPass, Goto, TypeOK
<1>2. ASSUME NEW route \in Routings, PassReplans(w, route) PROVE Checked(w)'
  BY <1>2 DEF PassReplans, Ambiguous, Checked, Active, Terminal
<1>3. ASSUME NEW plan \in Plans, PassPromotes(w, plan) PROVE Checked(w)'
  BY <1>3 DEF PassPromotes, Checked
<1>4. ASSUME NEW j \in Jobs, SaveNext(w, j) PROVE Checked(w)'
  <2>1. pc[w] \in Passing /\ \A i \in Jobs : mem[w][i].status \in SavedStatus
    BY <1>4 DEF SaveNext, WorkerOK, WorkerPhases, Saving, Pipeline, Passing
  <2>2. Inactive(j)
    BY <1>4, <2>1, SaveNextEffect
  <2>3. pc'[w] = pc[w] /\ UNCHANGED wal
    BY <1>4, <2>1 DEF SaveNext, Goto, TypeOK, Passing
  <2>. QED BY <2>2, <2>3, CheckedKept
<1>5. ASSUME EndPass(w) \/ Die(w) PROVE Checked(w)'
  <2>1. pc'[w] \in {"idle", "down"}
    BY <1>5 DEF EndPass, Die, Goto, TypeOK
  <2>. QED BY <1>o, <2>1
<1>6. CASE PassDrained(w) \/ PassBlocked(w) \/ PickNothing(w)
  BY <1>5, <1>6 DEF PassDrained, PassBlocked, PickNothing
<1>7. ASSUME NEW j \in Jobs, PickRaises(w, j) \/ Settle(w, j) PROVE Checked(w)'
  BY <1>5, <1>7 DEF PickRaises, Settle
<1>8. ASSUME NEW j \in Jobs, NEW p \in Providers, Pick(w, j, p) PROVE Checked(w)'
  BY <1>8 DEF Pick, Reaches, Checked
<1>9. ASSUME NEW j \in Jobs, MarkStarting(w, j) PROVE Checked(w)'
  BY <1>9, <1>o DEF MarkStarting, Goto, TypeOK
<1>10. ASSUME SubmitStep(w) PROVE Checked(w)'
  <2>1. pc'[w] \in Pipeline
    BY <1>10, SubmitStepEffect DEF SubmitEffect, TypeOK
  <2>. QED BY <1>o, <2>1 DEF Pipeline
<1>. QED
  BY <1>1, <1>2, <1>3, <1>4, <1>6, <1>7, <1>8, <1>9, <1>10 DEF WorkerStep

\* A worker that rests does nothing while another holds the lock.
LEMMA RestingWaits ==
  ASSUME TypeOK, NEW v \in Workers, pc[v] \in {"idle", "down"}, lock # NoWorker
  PROVE  ~WorkerStep(v)
<1>1. ~SubmitStep(v)
  BY DEF SubmitStep, GatesPass, GateBlocks, LogSubmit, ProviderStarts, ProviderSucceeds,
         ProviderFails, ProviderRaises, PostChecks, VerifyArtifacts,
         NoteTerminal, RecordExecution, LogFinal
<1>. QED
  BY <1>1 DEF WorkerStep, BeginPass, PassDrained, PassBlocked, Recovered, PassReplans, PassPromotes,
              PickNothing, SaveNext, Saving, Pick, PickRaises, Reaches, MarkStarting, Settle

LEMMA CheckedStep ==
  CoreInv /\ (\A w \in Workers : Checked(w)) /\ [Next]_vars => (\A w \in Workers : Checked(w))'
<1>. SUFFICES ASSUME CoreInv, \A w \in Workers : Checked(w), [Next]_vars, NEW w \in Workers
              PROVE  Checked(w)'
  OBVIOUS
<1>. USE DEF CoreInv
<1>. Workers \subseteq Actors /\ Operators \subseteq Actors
  BY DEF Actors
<1>1. ASSUME NEW v \in Workers, WorkerStep(v) PROVE Checked(w)'
  <2>1. CASE v = w
    BY <1>1, <2>1, CheckedOwnStep DEF Discipline
  <2>2. CASE v # w
    <3>1. pc'[w] = pc[w]
      BY <1>1, <2>2, WorkerStepEffect DEF Discipline, WorkerEffect, Local
    <3>2. CASE pc[w] \in {"replanning", "promoting", "picked"}
      <4>1. lock = w /\ lock # NoWorker
        BY <3>2, QueueAssumption DEF Discipline, WorkerOK
      <4>2. pc[v] \in {"idle", "down"}
        BY <2>2, <4>1 DEF Discipline, WorkerOK
      <4>. QED BY <1>1, <4>1, <4>2, RestingWaits
    <3>. QED BY <3>1, <3>2 DEF Checked
  <2>. QED BY <2>1, <2>2
<1>2. ASSUME NEW o \in Operators, OperatorStep(o) PROVE Checked(w)'
  <2>1. OperatorEffect(o)
    BY <1>2, OperatorStepEffect DEF Discipline
  <2>2. pc'[w] = pc[w]
    BY <2>1, ActorAssumption DEF OperatorEffect, Local
  <2>3. UNCHANGED wal
    BY <1>2 DEF OperatorStep, EnqueueJob, CancelJob, ForceCancelJob, RetryJob, CancelGroup,
                IntakeJob, PlanIntake, ReplanQueue, Decide, SaveNext
  <2>. QED BY <2>1, <2>2, <2>3, CheckedKept DEF OperatorEffect
<1>3. CASE StartDrain \/ ClearDrain \/ UNCHANGED vars
  BY <1>3, CheckedKept DEF StartDrain, ClearDrain, vars
<1>4. ASSUME NEW a \in Actors, StopOrStart(a) PROVE Checked(w)'
  <2>1. /\ UNCHANGED <<store, wal>>
        /\ a = w => pc'[w] \in {"idle", "down"}
        /\ a # w => pc'[w] = pc[w]
    BY <1>4, ActorAssumption DEF StopOrStart, WorkerCrash, Restart, OperatorCrash, Die, Goto,
                                 TypeOK, queueVars
  <2>. QED BY <2>1, CheckedKept
<1>. QED BY <1>1, <1>2, <1>3, <1>4 DEF Next, StopOrStart

\* Whatever is retried, cancelled, enqueued again or replanned in between, no job is
\* dispatched over one that a dead process left at its provider in its first attempt.
THEOREM StrandedBlocks == Spec => StrandedBlocksDispatch
<1>1. Init => \A w \in Workers : Checked(w)
  BY DEF Init, SubInit, Checked, Actors
<1>2. ASSUME CoreInv, \A w \in Workers : Checked(w),
             NEW w \in Workers, NEW j \in Jobs, MarkStarting(w, j)
      PROVE  ~\E i \in Jobs : Stranded(i)
  BY <1>2 DEF Checked, MarkStarting, Stranded
<1>3. CoreInv /\ (\A w \in Workers : Checked(w)) =>
        (\A w \in Workers, j \in Jobs : MarkStarting(w, j) => ~\E i \in Jobs : Stranded(i))
  BY <1>2
<1>4. Init => CoreInv
  BY IInvInit DEF IInv, CoreInv
<1>. QED BY <1>1, <1>3, <1>4, CheckedStep, CoreStep, PTL DEF Spec, StrandedBlocksDispatch

===============================================================================

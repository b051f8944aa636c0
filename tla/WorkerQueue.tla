----------------------------- MODULE WorkerQueue -----------------------------
(***************************************************************************)
(* The queue and the worker service.  A worker pass (work_once) holds the  *)
(* worker lock from its first read to its last write, submission included. *)
(* Operators (API threads and CLI processes) enqueue, cancel, retry and    *)
(* replan jobs without any lock: each reads records, decides, and writes   *)
(* the whole records back later.  Any process may die between two steps;   *)
(* its lock is freed, its Job objects are gone, the store and the log stay;*)
(* a worker is down until its supervisor starts it again.                  *)
(***************************************************************************)
EXTENDS Submission

CONSTANTS
  Routes,      \* what route_job may answer for a job; NoProvider: it raises
  Operations,  \* the operations operators use
  Group,       \* the intake group of each job (intake_group_key)
  Key,         \* the idempotency key of each job
  Mortal,      \* the processes that may die
  NoWorker,    \* nobody holds the worker lock
  MaxLate      \* how far the history variable late counts

ASSUME QueueAssumption ==
  /\ Routes \in [Jobs -> SUBSET (Providers \cup {NoProvider})]
  /\ \A j \in Jobs : Routes[j] # {}
  /\ Mortal \subseteq Actors
  /\ NoWorker \notin Actors
  /\ MaxLate \in Nat

VARIABLES
  lock,      \* the holder of locks/worker.lock
  draining,  \* drain.json is there
  late       \* history: jobs dispatched since the drain began, up to MaxLate

queueVars == <<lock, draining, late>>
vars == <<store, wal, pc, mem, lock, draining, late>>

Saving == {"recovering", "replanning", "promoting", "saving"}

WorkerPhases ==
  {"idle", "down", "recovering", "replanning", "promoting", "picked"} \cup Pipeline

TypeOK ==
  /\ SubTypeOK
  /\ pc \in [Actors -> WorkerPhases \cup {"saving"}]
  /\ lock \in Workers \cup {NoWorker}
  /\ draining \in BOOLEAN
  /\ late \in 0..MaxLate

Init ==
  /\ SubInit
  /\ lock = NoWorker
  /\ draining = FALSE
  /\ late = 0

-------------------------------------------------------------------------------
(* Bulk writes *)

\* a holds the records of S, to be saved one by one.
HoldToSave(a, S, r) ==
  mem' = [mem EXCEPT ![a] = [j \in Jobs |-> IF j \in S THEN r[j] ELSE NoRecord]]

\* The next save of a bulk write, of a record read when the operation began.
SaveNext(a, j) ==
  /\ pc[a] \in Saving /\ Holds(a, j)
  /\ store' = [store EXCEPT ![j] = mem[a][j]]
  /\ mem' = [mem EXCEPT ![a] = [@ EXCEPT ![j] = NoRecord]]
  /\ Goto(a, IF pc[a] = "saving" /\ \A i \in Jobs \ {j} : ~Holds(a, i)
             THEN "idle" ELSE pc[a])
  /\ UNCHANGED <<wal, queueVars>>

\* What route_job may answer for all the jobs a replan asks it about.
Routings == {route \in [Jobs -> Providers \cup {NoProvider}] : \A j \in Jobs : route[j] \in Routes[j]}

\* replan_queued_jobs routes the queued auto jobs; it rewrites those whose
\* provider changes and those for which routing raised.
Rewritten(route) ==
  {j \in Jobs : /\ store[j].status = "queued"
                /\ Requested[j] = AutoProvider
                /\ route[j] = NoProvider \/ route[j] # store[j].selected}

ReplanRead(a, route) ==
  HoldToSave(a, Rewritten(route),
             [j \in Jobs |-> IF route[j] = NoProvider THEN store[j]
                             ELSE [store[j] EXCEPT !.selected = route[j]]])

Groups == {Group[j] : j \in Jobs}

\* The first of the buffered jobs of its group, the one its group is routed as.
Leads(j) ==
  /\ store[j].status = "buffered"
  /\ \A i \in Jobs : store[i].status = "buffered" /\ Group[i] = Group[j] => j <= i

\* The provider plan_intake_groups promotes each group to; NoProvider for a
\* group it leaves: empty, held for the burst to show, or routing raised.
Plans ==
  {plan \in [Groups -> Providers \cup {NoProvider}] :
     \A g \in Groups : \/ plan[g] = NoProvider
                      \/ \E j \in Jobs : Group[j] = g /\ Leads(j) /\ plan[g] \in Routes[j]}

PromotedBy(plan) == {j \in Jobs : store[j].status = "buffered" /\ plan[Group[j]] # NoProvider}

PromoteRead(a, plan) ==
  HoldToSave(a, PromotedBy(plan), [j \in Jobs |-> Promoted(store[j], plan[Group[j]])])

-------------------------------------------------------------------------------
(* A worker pass: work_once *)

\* Recovery looks at running jobs only.
BeginPassRunningOnly(w, S) ==
  /\ pc[w] = "idle" /\ lock = NoWorker
  /\ S \subseteq {j \in Jobs : store[j].status = "running"}
  /\ lock' = w
  /\ HoldToSave(w, S, [j \in Jobs |-> TimedOut(store[j])])
  /\ Goto(w, "recovering")
  /\ UNCHANGED <<store, wal, draining, late>>

\* A pass that does not wait for the lock.
BeginPassUnlocked(w, S) ==
  /\ pc[w] = "idle"
  /\ S \subseteq {j \in Jobs : store[j].status \in Active}
  /\ lock' = w
  /\ HoldToSave(w, S, [j \in Jobs |-> TimedOut(store[j])])
  /\ Goto(w, "recovering")
  /\ UNCHANGED <<store, wal, draining, late>>

\* A drained worker recovers nothing.
BeginPassUnlessDrained(w, S) ==
  /\ pc[w] = "idle" /\ lock = NoWorker
  /\ S \subseteq {j \in Jobs : ~draining /\ store[j].status \in Active}
  /\ lock' = w
  /\ HoldToSave(w, S, [j \in Jobs |-> TimedOut(store[j])])
  /\ Goto(w, "recovering")
  /\ UNCHANGED <<store, wal, draining, late>>

\* Take the lock; recover_stale_jobs finds the active jobs in S past their
\* threshold.  Any active job may be: time passes between any two steps.
BeginPass(w, S) ==
  /\ pc[w] = "idle" /\ lock = NoWorker
  /\ S \subseteq {j \in Jobs : store[j].status \in Active}
  /\ lock' = w
  /\ HoldToSave(w, S, [j \in Jobs |-> TimedOut(store[j])])
  /\ Goto(w, "recovering")
  /\ UNCHANGED <<store, wal, draining, late>>

EndPass(w) ==
  /\ lock' = NoWorker
  /\ Goto(w, "idle")
  /\ Forget(w)

Die(w) ==
  /\ lock' = IF lock = w THEN NoWorker ELSE lock
  /\ Goto(w, "down")
  /\ Forget(w)

Recovered(w) == pc[w] = "recovering" /\ HoldsNone(w)

PassDrained(w) ==
  /\ Recovered(w) /\ draining
  /\ EndPass(w)
  /\ UNCHANGED <<store, wal, draining, late>>

PassBlocked(w) ==
  /\ Recovered(w) /\ ~draining
  /\ \E j \in Jobs : Ambiguous(j)
  /\ EndPass(w)
  /\ UNCHANGED <<store, wal, draining, late>>

\* Dispatch goes on while drained.
PassReplansDrained(w, route) ==
  /\ Recovered(w)
  /\ ~\E j \in Jobs : Ambiguous(j)
  /\ ReplanRead(w, route)
  /\ Goto(w, "replanning")
  /\ UNCHANGED <<store, wal, queueVars>>

PassReplans(w, route) ==
  /\ Recovered(w) /\ ~draining
  /\ ~\E j \in Jobs : Ambiguous(j)
  /\ ReplanRead(w, route)
  /\ Goto(w, "replanning")
  /\ UNCHANGED <<store, wal, queueVars>>

PassPromotes(w, plan) ==
  /\ pc[w] = "replanning" /\ HoldsNone(w)
  /\ PromoteRead(w, plan)
  /\ Goto(w, "promoting")
  /\ UNCHANGED <<store, wal, queueVars>>

-------------------------------------------------------------------------------
(* Dispatch: next_runnable_job *)

\* _requested_or_selected_provider; NoProvider when it routes and routing raises.
DispatchChoices(j) ==
  IF store[j].selected # NoProvider THEN {store[j].selected}
  ELSE IF Requested[j] = AutoProvider THEN Routes[j]
  ELSE {Requested[j]}

\* One job too many; running jobs only.
SaturatedOffByOne(p, j) == Cardinality(ActiveOn(Slot(p, j))) > Limit[Slot(p, j)]

SaturatedByRunning(p, j) ==
  Cardinality({i \in ActiveOn(Slot(p, j)) : store[i].status = "running"}) >= Limit[Slot(p, j)]

Saturated(p, j) == Cardinality(ActiveOn(Slot(p, j))) >= Limit[Slot(p, j)]

\* A queued job is passed over while its retry_after lies ahead or its slot is full.
PassedOver(j) ==
  \/ store[j].backoff
  \/ \E p \in DispatchChoices(j) \ {NoProvider} : Saturated(p, j)

\* The scan in (created_at, job_id) order gets to j.
Reaches(w, j) ==
  /\ pc[w] = "promoting" /\ HoldsNone(w)
  /\ store[j].status = "queued"
  /\ \A i \in Jobs : i < j /\ store[i].status = "queued" => PassedOver(i)

Pick(w, j, p) ==
  /\ Reaches(w, j)
  /\ p \in DispatchChoices(j) \ {NoProvider}
  /\ ~Saturated(p, j)
  /\ mem' = [mem EXCEPT ![w] = [@ EXCEPT ![j] = [store[j] EXCEPT !.selected = p]]]
  /\ Goto(w, "picked")
  /\ UNCHANGED <<store, wal, queueVars>>

PickNothing(w) ==
  /\ pc[w] = "promoting" /\ HoldsNone(w)
  /\ \A j \in Jobs : store[j].status = "queued" => PassedOver(j)
  /\ EndPass(w)
  /\ UNCHANGED <<store, wal, draining, late>>

\* route_job raises through work_once and work_loop: the worker process exits.
PickRaises(w, j) ==
  /\ Reaches(w, j)
  /\ NoProvider \in DispatchChoices(j)
  /\ Die(w)
  /\ UNCHANGED <<store, wal, draining, late>>

MarkStarting(w, j) ==
  /\ pc[w] = "picked" /\ Holds(w, j)
  /\ Save(w, j, [mem[w][j] EXCEPT !.status = "starting"])
  /\ Goto(w, "gates")
  /\ late' = IF draining /\ late < MaxLate THEN late + 1 ELSE late
  /\ UNCHANGED <<wal, lock, draining>>

\* The result of submit_job: nothing more for a succeeded job, else remediation.
Settle(w, j) ==
  /\ pc[w] = "result" /\ Holds(w, j)
  /\ store' = IF mem[w][j].status = "succeeded" THEN store
              ELSE [store EXCEPT ![j] = Remediated(mem[w][j])]
  /\ EndPass(w)
  /\ UNCHANGED <<wal, draining, late>>

WorkerStep(w) ==
  \/ \E S \in SUBSET Jobs : BeginPass(w, S)
  \/ PassDrained(w)
  \/ PassBlocked(w)
  \/ \E route \in Routings : PassReplans(w, route)
  \/ \E plan \in Plans : PassPromotes(w, plan)
  \/ PickNothing(w)
  \/ \E j \in Jobs :
       \/ SaveNext(w, j)
       \/ \E p \in Providers : Pick(w, j, p)
       \/ PickRaises(w, j)
       \/ MarkStarting(w, j)
       \/ Settle(w, j)
  \/ SubmitStep(w) /\ UNCHANGED queueVars

-------------------------------------------------------------------------------
(* Operators *)

\* enqueue_job overwrites whatever record the job id had: a repeated POST of
\* the same payload ("enqueue_again") starts the job over.  It keeps its place
\* in the scan here, though its created_at may be new.
EnqueueJob(o, j) ==
  /\ "enqueue" \in Operations
  /\ pc[o] = "idle"
  /\ store[j].status = "absent" \/ "enqueue_again" \in Operations
  /\ store' = [store EXCEPT ![j] = Enqueued]
  /\ UNCHANGED <<wal, pc, mem, queueVars>>

\* A read-then-write operation o has decided to save r[j] for the jobs of S.
Decide(o, S, r) ==
  /\ pc[o] = "idle" /\ S # {}
  /\ HoldToSave(o, S, r)
  /\ Goto(o, "saving")
  /\ UNCHANGED <<store, wal, queueVars>>

\* find_duplicate: a job of the same key that may still run or has succeeded.
Duplicated(j) ==
  \E i \in Jobs \ {j} : Key[i] = Key[j] /\ store[i].status \notin {"absent", "failed", "cancelled"}

\* intake_job; a duplicate is answered with the job there is.
IntakeJob(o, j) ==
  /\ "intake" \in Operations
  /\ store[j].status = "absent" /\ ~Duplicated(j)
  /\ Decide(o, {j}, [i \in Jobs |-> Buffered])

CancelJob(o, j) ==
  /\ "cancel" \in Operations
  /\ store[j].status \in Cancellable
  /\ Decide(o, {j}, [i \in Jobs |-> Cancelled(store[i])])

\* Allowed once the job's max_runtime_seconds has passed, as it may have.
ForceCancelJob(o, j) ==
  /\ "force_cancel" \in Operations
  /\ store[j].status \in Active
  /\ Decide(o, {j}, [i \in Jobs |-> TimedOut(store[i])])

\* The jobs of G are those the group filter matches.
CancelGroup(o, G) ==
  /\ "cancel_group" \in Operations
  /\ Decide(o, {j \in G : store[j].status \in Cancellable}, [i \in Jobs |-> Cancelled(store[i])])

RetryJob(o, j) ==
  /\ "retry" \in Operations
  /\ store[j].status \in {"failed", "cancelled"}
  /\ Decide(o, {j}, [i \in Jobs |-> Retried(store[i])])

ReplanQueue(o, route) ==
  /\ "replan" \in Operations
  /\ pc[o] = "idle" /\ Rewritten(route) # {}
  /\ ReplanRead(o, route)
  /\ Goto(o, "saving")
  /\ UNCHANGED <<store, wal, queueVars>>

\* plan_intake_groups asked for by a caller, without the worker lock.
PlanIntake(o, plan) ==
  /\ "plan_intake" \in Operations
  /\ pc[o] = "idle" /\ PromotedBy(plan) # {}
  /\ PromoteRead(o, plan)
  /\ Goto(o, "saving")
  /\ UNCHANGED <<store, wal, queueVars>>

\* start_drain while drained rewrites drain.json with the same answer: no step.
StartDrain ==
  /\ "drain" \in Operations
  /\ ~draining /\ draining' = TRUE
  /\ UNCHANGED <<store, wal, pc, mem, lock, late>>

ClearDrain ==
  /\ draining /\ draining' = FALSE
  /\ late' = 0
  /\ UNCHANGED <<store, wal, pc, mem, lock>>

OperatorStep(o) ==
  \/ \E j \in Jobs :
       \/ EnqueueJob(o, j)
       \/ IntakeJob(o, j)
       \/ CancelJob(o, j)
       \/ ForceCancelJob(o, j)
       \/ RetryJob(o, j)
       \/ SaveNext(o, j)
  \/ \E G \in SUBSET Jobs : CancelGroup(o, G)
  \/ \E route \in Routings : ReplanQueue(o, route)
  \/ \E plan \in Plans : PlanIntake(o, plan)

-------------------------------------------------------------------------------
(* The whole *)

WorkerCrash(w) ==
  /\ w \in Mortal /\ pc[w] \notin {"idle", "down"}
  /\ Die(w)
  /\ UNCHANGED <<store, wal, draining, late>>

\* The supervisor starts the worker service again.
Restart(w) ==
  /\ pc[w] = "down"
  /\ Goto(w, "idle")
  /\ UNCHANGED <<store, wal, mem, queueVars>>

\* The API thread or the command dies between two saves.
OperatorCrash(o) ==
  /\ o \in Mortal /\ pc[o] # "idle"
  /\ Goto(o, "idle")
  /\ Forget(o)
  /\ UNCHANGED <<store, wal, queueVars>>

Next ==
  \/ \E w \in Workers : WorkerStep(w)
  \/ \E o \in Operators : OperatorStep(o)
  \/ StartDrain \/ ClearDrain
  \/ \E w \in Workers : WorkerCrash(w) \/ Restart(w)
  \/ \E o \in Operators : OperatorCrash(o)

Spec == Init /\ [][Next]_vars

===============================================================================

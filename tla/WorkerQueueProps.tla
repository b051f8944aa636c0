--------------------------- MODULE WorkerQueueProps ---------------------------
(***************************************************************************)
(* What the queue and the worker service promise.                          *)
(***************************************************************************)
EXTENDS WorkerQueue

\* The stored records never have more active jobs on a provider and profile
\* than its limit, whatever operators do to queued and active jobs while the
\* worker counts, picks, saves and runs, and across crashes (next_runnable_job
\* counts, work_once saves later).
CapacityRespected == \A s \in Slots : Cardinality(ActiveOn(s)) <= Limit[s]

\* Once a drain has begun at most one more job is dispatched until it is
\* cleared: the one of the pass under way, however many workers poll.
DrainBound == late <= 1

\* A job recorded as running or succeeded has its provider_submit in the log:
\* a crash never leaves provider work the log does not know of.
RunningIsLogged ==
  \A j \in Jobs : store[j].status \in {"running", "succeeded"} => wal[j].submit

\* Automatic retries stay within the budget of some class, also when a record
\* is written back by an operation that read it earlier.
RetryBudget ==
  \A j \in Jobs : store[j].attempts > 0 =>
    \E c \in RetryableClasses : store[j].attempts <= MaxAttempts[c]

\* A submission whose last log record is provider_submit, of a job no process
\* is submitting, that is not terminal: its process died at the provider.
Unfinished(j) ==
  /\ wal[j].open
  /\ store[j].status \notin Terminal
  /\ \A a \in Actors : ~Submits(a, j)

\* wal_recovery_plan answers an unfinished provider submission with
\* block_new_dispatch: while there is one no job is dispatched.
UnfinishedBlocksDispatch ==
  [][\A w \in Workers, j \in Jobs : MarkStarting(w, j) => ~\E i \in Jobs : Unfinished(i)]_vars

\* The log holds a provider_submit of j and no final record of any attempt, its
\* record is at the provider still, and no process submits it.
Stranded(j) ==
  /\ wal[j].submit /\ ~wal[j].final
  /\ store[j].status \in Active
  /\ ~\E a \in Actors : Submits(a, j)

\* The same block where jobs are retried and records written back while a pass goes
\* from its check of the log to its dispatch (work_once): a job stranded in its first
\* attempt stops every dispatch.  A stored status that is not active may be a retry's,
\* made after the check; an attempt after a finished one the log's fold forgets.
StrandedBlocksDispatch ==
  [][\A w \in Workers, j \in Jobs : MarkStarting(w, j) => ~\E i \in Jobs : Stranded(i)]_vars

\* The worker's own replans and promotions never put a job that is starting or
\* running, committed to its provider, back in the queue, however old the lists they
\* work from: whatever operators write meanwhile and however many workers poll, only
\* the holder of the lock commits (queue.replan_queued_jobs, intake.py promotion).
WorkerSparesCommitted ==
  [][\A w \in Workers, j \in Jobs :
       SaveNext(w, j) /\ store'[j].status = "queued" => store[j].status \notin Active]_vars

-------------------------------------------------------------------------------
(* Liveness *)

\* A worker service that is down is started again; one that is up keeps polling
\* and finishes its pass (the lock is flock: some waiter gets it); a record left
\* active grows stale; retry_after passes, so a queued job the scan may take is
\* taken in the end; hold_seconds pass and routing answers, so a group is promoted
\* in the end.  Nothing is assumed of operators, save that an operation
\* begun is carried out.
Fairness ==
  /\ \A w \in Workers : WF_vars(WorkerStep(w)) /\ WF_vars(Restart(w))
  /\ \A w \in Workers, j \in Jobs :
       /\ SF_vars(\E S \in SUBSET Jobs : j \in S /\ BeginPass(w, S))
       /\ SF_vars(\E plan \in Plans : plan[Group[j]] # NoProvider /\ PassPromotes(w, plan))
       /\ SF_vars(\E p \in Providers : Pick(w, j, p))
  /\ \A o \in Operators, j \in Jobs : WF_vars(SaveNext(o, j))

FairSpec == Spec /\ Fairness

\* In the end the drain is cleared for good and the workers stop dying.
ServiceStays == <>[](~draining /\ \A w \in Workers : pc[w] # "down")

\* A buffered or queued job ends succeeded, failed or cancelled: no job waits for
\* ever for a promotion a crash cut short, behind a saturated slot, a retry of
\* another job, a crashed submission or an ambiguous log.
WaitingSettles ==
  ServiceStays =>
    \A j \in Jobs : store[j].status \in {"buffered", "queued"} ~> store[j].status \in Terminal

===============================================================================

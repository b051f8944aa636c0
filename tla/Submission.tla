------------------------------ MODULE Submission ------------------------------
(***************************************************************************)
(* The state shared by every process, and submit_job: the pipeline that    *)
(* takes one job from its gates to its final write-ahead-log record.  The  *)
(* worker runs it for a job it dispatched, an API thread or a CLI process  *)
(* for a direct submission.                                                *)
(*                                                                         *)
(* A process works on its own copy of a record (mem) and JobStore.save     *)
(* replaces the whole stored record by that copy, whatever was stored.     *)
(***************************************************************************)
EXTENDS JobRecords

CONSTANTS
  Workers,    \* worker processes: the worker service, gpu-job worker
  Operators,  \* API threads and CLI processes that manage jobs
  Clients     \* API threads and CLI processes that submit directly

Actors == Workers \cup Operators \cup Clients

ASSUME ActorAssumption ==
  /\ Workers \cap Operators = {}
  /\ Workers \cap Clients = {}
  /\ Operators \cap Clients = {}

VARIABLES
  store,  \* jobs/*.json
  wal,    \* what logs/wal.jsonl says of each job
  pc,     \* where each process is
  mem     \* the Job objects each process holds, NoRecord where it holds none

subVars == <<store, wal, pc, mem>>

\* wal_recovery_status folds the log into the last provider_submit of a job and
\* the set of jobs that have a provider_submit_final anywhere.  open keeps what
\* that fold forgets: the last of these two records is a provider_submit.
WalEntry == [submit : BOOLEAN, final : BOOLEAN, open : BOOLEAN]

Pipeline == {"gates", "reserve", "reserved", "log", "call", "running",
             "returned", "verify", "terminal", "recorded", "final", "result"}

SubTypeOK ==
  /\ store \in [Jobs -> JobRecord]
  /\ wal \in [Jobs -> WalEntry]
  /\ mem \in [Actors -> [Jobs -> JobRecord]]

SubInit ==
  /\ store = [j \in Jobs |-> NoRecord]
  /\ wal = [j \in Jobs |-> [submit |-> FALSE, final |-> FALSE, open |-> FALSE]]
  /\ pc = [a \in Actors |-> "idle"]
  /\ mem = [a \in Actors |-> [j \in Jobs |-> NoRecord]]

-------------------------------------------------------------------------------
(* Reading the state *)

Holds(a, j) == mem[a][j].status # "absent"

HoldsNone(a) == \A j \in Jobs : ~Holds(a, j)

\* Actor a is between the dispatch or reservation of j and its result.
Submits(a, j) == pc[a] \in Pipeline /\ Holds(a, j)

ActiveOn(s) ==
  {j \in Jobs : store[j].status \in Active /\ Slot(ProviderOf(store[j], j), j) = s}

\* A recovery that asks only about jobs a provider had started.
AmbiguousOnceRunning(j) ==
  wal[j].submit /\ ~wal[j].final /\ store[j].status = "running"

\* A submission the log has open for a job whose stored status is not terminal.
Ambiguous(j) ==
  wal[j].submit /\ ~wal[j].final /\ store[j].status \notin Terminal

-------------------------------------------------------------------------------
(* Moving on *)

Forget(a) == mem' = [mem EXCEPT ![a] = [j \in Jobs |-> NoRecord]]

Goto(a, phase) == pc' = [pc EXCEPT ![a] = phase]

\* JobStore.save of a's copy of j, changed to r.
Save(a, j, r) ==
  /\ store' = [store EXCEPT ![j] = r]
  /\ mem' = [mem EXCEPT ![a] = [@ EXCEPT ![j] = r]]

-------------------------------------------------------------------------------
(* submit_job *)

\* A gate refuses the job.  No gate text is of a retryable class, and no WAL
\* record is written.
GateBlocks(a, j, c) ==
  /\ pc[a] = "gates" /\ Holds(a, j)
  /\ c \in ErrorClasses \ RetryableClasses
  /\ Save(a, j, FailedWith(mem[a][j], c))
  /\ Goto(a, "result")
  /\ UNCHANGED wal

\* The gates pass; only a direct submission then reserves a slot
\* (enforce_capacity).
GatesPass(a) ==
  /\ pc[a] = "gates"
  /\ Goto(a, IF a \in Clients THEN "reserve" ELSE "log")
  /\ UNCHANGED <<store, wal, mem>>

\* The call goes out without its log record.
LogSubmitLost(a, j) ==
  /\ pc[a] = "log" /\ Holds(a, j)
  /\ Goto(a, "call")
  /\ UNCHANGED <<store, wal, mem>>

LogSubmit(a, j) ==
  /\ pc[a] = "log" /\ Holds(a, j)
  /\ wal' = [wal EXCEPT ![j] = [@ EXCEPT !.submit = TRUE, !.open = TRUE]]
  /\ Goto(a, "call")
  /\ UNCHANGED <<store, mem>>

\* provider.submit marks the job running, then does the work.
ProviderStarts(a, j) ==
  /\ pc[a] = "call" /\ Holds(a, j)
  /\ Save(a, j, [mem[a][j] EXCEPT !.status = "running"])
  /\ Goto(a, "running")
  /\ UNCHANGED wal

ProviderSucceeds(a, j) ==
  /\ pc[a] = "running" /\ Holds(a, j)
  /\ Save(a, j, [mem[a][j] EXCEPT !.status = "succeeded"])
  /\ Goto(a, "returned")
  /\ UNCHANGED wal

\* provider.submit returns a failed job; artifacts that fail verification leave
\* no error text.
ProviderFails(a, j, c) ==
  /\ pc[a] \in {"call", "running"} /\ Holds(a, j)
  /\ Save(a, j, FailedByProvider(mem[a][j], c))
  /\ Goto(a, "returned")
  /\ UNCHANGED wal

\* provider.submit raises; submit_job classifies the exception.
ProviderRaises(a, j, c) ==
  /\ pc[a] \in {"call", "running"} /\ Holds(a, j)
  /\ Save(a, j, FailedWith(mem[a][j], c))
  /\ Goto(a, "returned")
  /\ UNCHANGED wal

\* A record that comes back as a plan fails, and so may one without an error by the
\* post-submit cost guard, and any by the runtime limit, whose text is of a
\* retryable class.  No provider of the registry returns a plan when it is to
\* execute.
PostChecks(a, j, r) ==
  /\ pc[a] = "returned" /\ Holds(a, j)
  /\ \/ mem[a][j].status # "planned" /\ r = mem[a][j]
     \/ /\ mem[a][j].error = NoError
        /\ \E c \in ErrorClasses \ RetryableClasses : r = FailedWith(mem[a][j], c)
     \/ \E c \in RetryableClasses : r = FailedWith(mem[a][j], c)
  /\ Save(a, j, r)
  /\ Goto(a, "verify")
  /\ UNCHANGED wal

\* Final artifact verification can still fail a succeeded job.  Where there are no
\* artifacts nothing is saved, which is a save nobody came between.
VerifyArtifacts(a, j, r) ==
  /\ pc[a] = "verify" /\ Holds(a, j)
  /\ \/ r = mem[a][j]
     \/ /\ mem[a][j].status = "succeeded"
        /\ \E c \in ErrorClasses \ RetryableClasses : r = FailedWith(mem[a][j], c)
  /\ Save(a, j, r)
  /\ Goto(a, "terminal")
  /\ UNCHANGED wal

\* The terminal phase is noted in the record.
NoteTerminal(a, j) ==
  /\ pc[a] = "terminal" /\ Holds(a, j)
  /\ Save(a, j, mem[a][j])
  /\ Goto(a, "recorded")
  /\ UNCHANGED wal

\* The execution record is written beside the store; only when that fails does the
\* job's record say so.
RecordExecution(a, j) ==
  /\ pc[a] = "recorded" /\ Holds(a, j)
  /\ UNCHANGED <<store, mem>> \/ Save(a, j, mem[a][j])
  /\ Goto(a, "final")
  /\ UNCHANGED wal

LogFinal(a, j) ==
  /\ pc[a] = "final" /\ Holds(a, j)
  /\ wal' = [wal EXCEPT ![j] = [@ EXCEPT !.final = TRUE, !.open = FALSE]]
  /\ Goto(a, "result")
  /\ UNCHANGED <<store, mem>>

\* One step of a submission by actor a.
SubmitStep(a) ==
  \/ GatesPass(a)
  \/ \E j \in Jobs :
       \/ \E c \in ErrorClasses : GateBlocks(a, j, c)
       \/ LogSubmit(a, j)
       \/ ProviderStarts(a, j)
       \/ ProviderSucceeds(a, j)
       \/ \E c \in ErrorClasses \cup {NoError} : ProviderFails(a, j, c)
       \/ \E c \in ErrorClasses : ProviderRaises(a, j, c)
       \/ \E r \in {mem[a][j]} \cup {FailedWith(mem[a][j], c) : c \in ErrorClasses} :
            PostChecks(a, j, r) \/ VerifyArtifacts(a, j, r)
       \/ NoteTerminal(a, j)
       \/ RecordExecution(a, j)
       \/ LogFinal(a, j)

-------------------------------------------------------------------------------
(* What the actors promise together *)

Pool == INSTANCE SlotPool WITH occupants <- [s \in Slots |-> ActiveOn(s)]

\* The slots are an abstract pool: each step takes or gives back one slot
\* (queue.next_runnable_job, capacity.reserve_direct_execution_slot).
PoolSpec == Pool!Spec

===============================================================================

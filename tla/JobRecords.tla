------------------------------ MODULE JobRecords ------------------------------
(***************************************************************************)
(* The job record every process of gpu-job-control reads from and writes   *)
(* to the store, and what each operation turns a record into.  A record    *)
(* keeps the fields the control plane decides on; an error text is         *)
(* abstracted to the class classify_error gives it, and a time to whether  *)
(* it is set.                                                              *)
(***************************************************************************)
EXTENDS Integers, FiniteSets

CONSTANTS
  Jobs,             \* job ids, numbered in the order (created_at, job_id)
  Providers,        \* provider names
  Profiles,         \* GPU profiles
  Profile,          \* the gpu_profile of each job
  Requested,        \* the provider a caller names for a job, or AutoProvider
  AutoProvider,     \* the provider name "auto"
  NoProvider,       \* selected_provider not in the metadata
  ErrorClasses,     \* classes of classify_error
  RetryableClasses, \* those whose "retryable" is true
  NoError,          \* an empty error, or no error_class in the metadata
  MaxAttempts,      \* retry budget of each retryable class
  Limit             \* provider_limits of the execution policy, per slot

ASSUME JobsAssumption == Jobs \subseteq Nat /\ IsFiniteSet(Jobs)

ASSUME ProviderAssumption ==
  /\ Profile \in [Jobs -> Profiles]
  /\ Requested \in [Jobs -> Providers \cup {AutoProvider}]
  /\ AutoProvider \notin Providers
  /\ NoProvider \notin Providers \cup {AutoProvider}

ASSUME ErrorAssumption ==
  /\ RetryableClasses \subseteq ErrorClasses
  /\ NoError \notin ErrorClasses
  /\ MaxAttempts \in [RetryableClasses -> Nat]

\* A concurrency slot is a provider and a GPU profile (provider_profile_key).
Slots == Providers \X Profiles

ASSUME LimitAssumption == Limit \in [Slots -> Nat]

-------------------------------------------------------------------------------
(* Records *)

Statuses == {"created", "buffered", "planned", "queued", "starting", "running",
             "succeeded", "failed", "cancelled"}

Active      == {"starting", "running"}
Cancellable == {"created", "buffered", "planned", "queued"}
Terminal    == {"succeeded", "failed", "cancelled"}

\* Status "absent" stands for a job with no file in the store.
JobRecord ==
  [status     : Statuses \cup {"absent"},
   selected   : Providers \cup {NoProvider},  \* metadata.selected_provider
   attempts   : Nat,                          \* metadata.retry_attempts
   error      : ErrorClasses \cup {NoError},  \* class of job.error
   errorClass : ErrorClasses \cup {NoError},  \* metadata.error_class
   backoff    : BOOLEAN,                      \* metadata.retry_after is set
   deadLetter : BOOLEAN]                      \* metadata.dead_letter is set

Fresh(s) == [status |-> s, selected |-> NoProvider, attempts |-> 0,
             error |-> NoError, errorClass |-> NoError,
             backoff |-> FALSE, deadLetter |-> FALSE]

NoRecord == Fresh("absent")

\* The slot a record of job j occupies or waits for on provider p.
Slot(p, j) == <<p, Profile[j]>>

\* selected_provider, else requested_provider: the provider a record counts on.
ProviderOf(r, j) == IF r.selected # NoProvider THEN r.selected ELSE Requested[j]

-------------------------------------------------------------------------------
(* What the operations make of a record *)

Enqueued == Fresh("queued")

Buffered == Fresh("buffered")

\* A job of an intake group, promoted with the provider its group is routed to.
Promoted(r, p) == [r EXCEPT !.status = "queued", !.selected = p]

\* A misspelt status.
CanceledMisspelt(r) == [r EXCEPT !.status = "canceled"]

Cancelled(r) == [r EXCEPT !.status = "cancelled"]

\* cancel_job(force) and recover_stale_jobs: the text they leave in job.error
\* is cleared by retry_job before anything classifies it.
TimedOut(r) == [r EXCEPT !.status = "failed", !.error = NoError]

Retried(r) == [r EXCEPT !.status = "queued", !.error = NoError, !.backoff = FALSE]

\* A gate, an exception or a check of submit_job: error text and error_class.
FailedWith(r, c) == [r EXCEPT !.status = "failed", !.error = c, !.errorClass = c]

\* A provider that returns a failed job writes job.error but no error_class.
FailedByProvider(r, c) == [r EXCEPT !.status = "failed", !.error = c]

\* The class remediation_decision judges: the error_class already in the
\* metadata when there is one, else the class of the error text.
DecisionClass(r) == IF r.errorClass # NoError THEN r.errorClass ELSE r.error

\* One retry too many.
RetryOneMore(r) ==
  /\ DecisionClass(r) \in RetryableClasses
  /\ r.attempts <= MaxAttempts[DecisionClass(r)]

RetryLater(r) ==
  /\ DecisionClass(r) \in RetryableClasses
  /\ r.attempts < MaxAttempts[DecisionClass(r)]

Requeued(r) == [r EXCEPT !.status = "queued", !.error = NoError,
                         !.attempts = @ + 1, !.backoff = TRUE]

\* The reason dead_letter leaves in job.error is of no class.
DeadLettered(r) == [r EXCEPT !.status = "failed", !.error = NoError, !.deadLetter = TRUE]

Remediated(r) == IF RetryLater(r) THEN Requeued(r) ELSE DeadLettered(r)

===============================================================================

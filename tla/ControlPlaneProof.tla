--------------------------- MODULE ControlPlaneProof ---------------------------
(***************************************************************************)
(* What every record says, stored or held by a process: its retries are    *)
(* within a budget, and work a provider did is in the log.  Both hold of   *)
(* each copy of a record, so no stale copy that is saved can break them,   *)
(* be it a worker's, an operator's or a direct submission's.               *)
(***************************************************************************)
EXTENDS WorkerQueueProof, ControlPlane

\* The retries of a record are within the budget of some class.
Within(r) ==
  r.attempts > 0 => \E c \in RetryableClasses : r.attempts <= MaxAttempts[c]

\* r is a sound record of a job whose provider_submit is in the log if logged.
Sound(r, logged) == Within(r) /\ (r.status \in {"running", "succeeded"} => logged)

\* A process that calls the provider for a job has logged it.
Calling(a) ==
  pc[a] \in {"call", "running"} => \A j \in Jobs : Holds(a, j) => wal[j].submit

RecordInv ==
  /\ \A j \in Jobs : Sound(store[j], wal[j].submit)
  /\ \A a \in Actors, j \in Jobs : Sound(mem[a][j], wal[j].submit)
  /\ \A a \in Actors : Calling(a)

-------------------------------------------------------------------------------
(* Records *)

LEMMA FreshSound ==
  ASSUME NEW l
  PROVE  Sound(NoRecord, l) /\ Sound(Enqueued, l) /\ Sound(Buffered, l)
BY DEF Sound, Within, NoRecord, Enqueued, Buffered, Fresh

\* An automatic retry is decided on the budget of the class it is counted for.
LEMMA RemediatedWithin ==
  ASSUME NEW r \in JobRecord, Within(r)
  PROVE  Within(Remediated(r))
<1>1. CASE RetryLater(r)
  <2>. DEFINE c == DecisionClass(r)
  <2>1. c \in RetryableClasses /\ r.attempts < MaxAttempts[c]
    BY <1>1 DEF RetryLater
  <2>2. r.attempts \in Nat /\ MaxAttempts[c] \in Nat
    BY <2>1, ErrorAssumption DEF JobRecord
  <2>3. r.attempts + 1 <= MaxAttempts[c]
    BY <2>1, <2>2
  <2>4. Remediated(r).attempts = r.attempts + 1
    BY <1>1 DEF Remediated, Requeued, JobRecord
  <2>. HIDE DEF c
  <2>. QED BY <2>1, <2>3, <2>4 DEF Within
<1>2. CASE ~RetryLater(r)
  <2>1. Remediated(r).attempts = r.attempts
    BY <1>2 DEF Remediated, DeadLettered, JobRecord
  <2>. QED BY <2>1 DEF Within
<1>. QED BY <1>1, <1>2

\* No operation on a record but the provider's makes it running or succeeded.
LEMMA RecordSound ==
  ASSUME NEW r \in JobRecord, NEW l, Sound(r, l), NEW c
  PROVE  /\ Sound(Cancelled(r), l)
         /\ Sound(TimedOut(r), l)
         /\ Sound(Retried(r), l)
         /\ Sound(FailedWith(r, c), l)
         /\ Sound(FailedByProvider(r, c), l)
         /\ Sound(Promoted(r, c), l)
         /\ Sound([r EXCEPT !.selected = c], l)
         /\ Sound([r EXCEPT !.status = "starting"], l)
         /\ Sound(Remediated(r), l)
<1>1. Sound(Cancelled(r), l) /\ Sound(TimedOut(r), l) /\ Sound(Retried(r), l)
  BY DEF Sound, Within, Cancelled, TimedOut, Retried, JobRecord
<1>2. Sound(FailedWith(r, c), l) /\ Sound(FailedByProvider(r, c), l)
  BY DEF Sound, Within, FailedWith, FailedByProvider, JobRecord
<1>3. Sound(Promoted(r, c), l)
  BY DEF Sound, Within, Promoted, JobRecord
<1>4. Sound([r EXCEPT !.selected = c], l) /\ Sound([r EXCEPT !.status = "starting"], l)
  BY DEF Sound, Within, JobRecord
<1>5. Sound(Remediated(r), l)
  BY RemediatedWithin, RecordInactive DEF Sound
<1>. QED BY <1>1, <1>2, <1>3, <1>4, <1>5

LEMMA ProviderSound ==
  ASSUME NEW r \in JobRecord, NEW l, Sound(r, l), l = TRUE,
         NEW s \in {"running", "succeeded"}
  PROVE  Sound([r EXCEPT !.status = s], l)
BY DEF Sound, Within, JobRecord

-------------------------------------------------------------------------------
(* Kinds of steps *)

\* a takes up sound records it will save.
LEMMA HoldSound ==
  ASSUME TypeOK, RecordInv, NEW a \in Actors, NEW S, NEW r, HoldToSave(a, S, r),
         \A j \in Jobs : j \in S => Sound(r[j], wal[j].submit),
         NEW phase, phase \notin {"call", "running"}, Goto(a, phase), UNCHANGED <<store, wal>>
  PROVE  RecordInv'
<1>1. mem' = [mem EXCEPT ![a] = [j \in Jobs |-> IF j \in S THEN r[j] ELSE NoRecord]]
  BY DEF HoldToSave
<1>2. ASSUME NEW b \in Actors, NEW j \in Jobs PROVE Sound(mem'[b][j], wal[j].submit)
  BY <1>1, FreshSound DEF TypeOK, SubTypeOK, RecordInv
<1>3. ASSUME NEW b \in Actors PROVE Calling(b)'
  <2>1. CASE b = a
    BY <2>1 DEF Calling, Goto, TypeOK
  <2>2. CASE b # a
    BY <2>2, <1>1 DEF Calling, Goto, Holds, TypeOK, SubTypeOK, RecordInv
  <2>. QED BY <2>1, <2>2
<1>. QED BY <1>2, <1>3 DEF RecordInv

\* a lets go of what it held.
LEMMA ForgetSound ==
  ASSUME TypeOK, RecordInv, NEW a \in Actors, Forget(a), Goto(a, "idle") \/ Goto(a, "down"),
         UNCHANGED wal, \A j \in Jobs : Sound(store'[j], wal[j].submit)
  PROVE  RecordInv'
<1>1. ASSUME NEW b \in Actors, NEW j \in Jobs PROVE Sound(mem'[b][j], wal[j].submit)
  BY FreshSound DEF Forget, TypeOK, SubTypeOK, RecordInv
<1>2. ASSUME NEW b \in Actors PROVE Calling(b)'
  BY DEF Calling, Goto, Forget, Holds, TypeOK, SubTypeOK, RecordInv
<1>. QED BY <1>1, <1>2 DEF RecordInv

\* a changes its copy of one job, and may save it.
LEMMA CopySound ==
  ASSUME TypeOK, RecordInv, NEW a \in Actors, NEW j \in Jobs, NEW r,
         mem' = [mem EXCEPT ![a] = [@ EXCEPT ![j] = r]], Sound(r, wal[j].submit),
         store' \in {store, [store EXCEPT ![j] = r], [store EXCEPT ![j] = mem[a][j]]},
         UNCHANGED wal,
         NEW phase, Goto(a, phase),
         phase \in {"call", "running"} => pc[a] \in {"call", "running"} /\ Holds(a, j)
  PROVE  RecordInv'
<1>1. ASSUME NEW b \in Actors, NEW i \in Jobs PROVE Sound(mem'[b][i], wal[i].submit)
  BY <1>1 DEF TypeOK, SubTypeOK, RecordInv
<1>2. ASSUME NEW i \in Jobs PROVE Sound(store'[i], wal[i].submit)
  BY <1>2 DEF TypeOK, SubTypeOK, RecordInv
<1>3. ASSUME NEW b \in Actors PROVE Calling(b)'
  <2>1. CASE b = a
    BY <2>1 DEF Calling, Goto, Holds, TypeOK, SubTypeOK, RecordInv
  <2>2. CASE b # a
    BY <2>2 DEF Calling, Goto, Holds, TypeOK, SubTypeOK, RecordInv
  <2>. QED BY <2>1, <2>2
<1>. QED BY <1>1, <1>2, <1>3 DEF RecordInv

\* a moves on, and may log a job it holds; it holds no other.
LEMMA LogSound ==
  ASSUME TypeOK, RecordInv, NEW a \in Actors, NEW j \in Jobs, NEW e \in WalEntry,
         wal[j].submit => e.submit, wal' = [wal EXCEPT ![j] = e], UNCHANGED <<store, mem>>,
         NEW phase, Goto(a, phase),
         phase \in {"call", "running"} => e.submit /\ \A i \in Jobs : Holds(a, i) => i = j
  PROVE  RecordInv'
<1>1. \A i \in Jobs : wal[i].submit => wal'[i].submit
  BY DEF TypeOK, SubTypeOK
<1>2. ASSUME NEW b \in Actors PROVE Calling(b)'
  <2>1. CASE b = a
    BY <2>1, <1>1 DEF Calling, Goto, Holds, TypeOK, SubTypeOK, RecordInv
  <2>2. CASE b # a
    BY <2>2, <1>1 DEF Calling, Goto, Holds, TypeOK, SubTypeOK, RecordInv
  <2>. QED BY <2>1, <2>2
<1>. QED BY <1>1, <1>2 DEF RecordInv, Sound

-------------------------------------------------------------------------------
(* submit_job *)

LEMMA SubmitSound ==
  ASSUME TypeOK, RecordInv, NEW a \in Actors, SubmitStep(a), UNCHANGED queueVars,
         \A i, j \in Jobs : Holds(a, i) /\ Holds(a, j) => i = j
  PROVE  RecordInv'
<1>m. ASSUME NEW j \in Jobs
      PROVE  mem[a][j] \in JobRecord /\ Sound(mem[a][j], wal[j].submit) /\ wal[j] \in WalEntry
  BY DEF TypeOK, SubTypeOK, RecordInv
<1>s. ASSUME NEW j \in Jobs, NEW r, Save(a, j, r), Sound(r, wal[j].submit), UNCHANGED wal,
             NEW phase, Goto(a, phase),
             phase \in {"call", "running"} => pc[a] \in {"call", "running"} /\ Holds(a, j)
      PROVE  RecordInv'
  BY <1>s, CopySound DEF Save
<1>f. ASSUME NEW j \in Jobs, NEW c
      PROVE  /\ Sound(FailedWith(mem[a][j], c), wal[j].submit)
             /\ Sound(FailedByProvider(mem[a][j], c), wal[j].submit)
  BY <1>m, RecordSound
<1>1. CASE GatesPass(a)
  <2>1. ASSUME NEW b \in Actors PROVE Calling(b)'
    BY <1>1 DEF GatesPass, Calling, Goto, Holds, TypeOK, RecordInv
  <2>. QED BY <1>1, <2>1 DEF GatesPass, RecordInv
<1>2. ASSUME NEW j \in Jobs, NEW c \in ErrorClasses, GateBlocks(a, j, c) PROVE RecordInv'
  BY <1>2, <1>s, <1>f DEF GateBlocks
<1>3. ASSUME NEW j \in Jobs, LogSubmit(a, j) PROVE RecordInv'
  <2>. DEFINE e == [wal[j] EXCEPT !.submit = TRUE, !.open = TRUE]
  <2>1. e \in WalEntry /\ e.submit
    BY <1>m DEF WalEntry
  <2>2. wal' = [wal EXCEPT ![j] = e]
    BY <1>3 DEF LogSubmit
  <2>3. Goto(a, "call") /\ Holds(a, j) /\ UNCHANGED <<store, mem>>
    BY <1>3 DEF LogSubmit
  <2>. HIDE DEF e
  <2>. QED BY <2>1, <2>2, <2>3, LogSound
<1>4. ASSUME NEW j \in Jobs, ProviderStarts(a, j) PROVE RecordInv'
  <2>1. wal[j].submit
    BY <1>4 DEF ProviderStarts, RecordInv, Calling
  <2>2. Sound([mem[a][j] EXCEPT !.status = "running"], wal[j].submit)
    BY <2>1, <1>m, ProviderSound DEF WalEntry
  <2>. QED BY <1>4, <1>s, <2>2 DEF ProviderStarts
<1>5. ASSUME NEW j \in Jobs, ProviderSucceeds(a, j) PROVE RecordInv'
  <2>1. wal[j].submit
    BY <1>5 DEF ProviderSucceeds, RecordInv, Calling
  <2>2. Sound([mem[a][j] EXCEPT !.status = "succeeded"], wal[j].submit)
    BY <2>1, <1>m, ProviderSound DEF WalEntry
  <2>. QED BY <1>5, <1>s, <2>2 DEF ProviderSucceeds
<1>6. ASSUME NEW j \in Jobs, NEW c \in ErrorClasses \cup {NoError}, ProviderFails(a, j, c)
      PROVE  RecordInv'
  BY <1>6, <1>s, <1>f DEF ProviderFails
<1>7. ASSUME NEW j \in Jobs, NEW c \in ErrorClasses, ProviderRaises(a, j, c) PROVE RecordInv'
  BY <1>7, <1>s, <1>f DEF ProviderRaises
<1>8. ASSUME NEW j \in Jobs, NEW r, PostChecks(a, j, r) PROVE RecordInv'
  <2>1. Sound(r, wal[j].submit)
    BY <1>8, <1>m, <1>f DEF PostChecks
  <2>. QED BY <1>8, <1>s, <2>1 DEF PostChecks
<1>9. ASSUME NEW j \in Jobs, NEW r, VerifyArtifacts(a, j, r) PROVE RecordInv'
  <2>1. Sound(r, wal[j].submit)
    BY <1>9, <1>m, <1>f DEF VerifyArtifacts
  <2>. QED BY <1>9, <1>s, <2>1 DEF VerifyArtifacts
<1>10. ASSUME NEW j \in Jobs, LogFinal(a, j) PROVE RecordInv'
  <2>. DEFINE e == [wal[j] EXCEPT !.final = TRUE, !.open = FALSE]
  <2>1. e \in WalEntry /\ e.submit = wal[j].submit
    BY <1>m DEF WalEntry
  <2>2. wal' = [wal EXCEPT ![j] = e]
    BY <1>10 DEF LogFinal
  <2>3. Goto(a, "result") /\ UNCHANGED <<store, mem>>
    BY <1>10 DEF LogFinal
  <2>. HIDE DEF e
  <2>. QED BY <2>1, <2>2, <2>3, LogSound
<1>11. ASSUME NEW j \in Jobs, NoteTerminal(a, j) \/ RecordExecution(a, j) PROVE RecordInv'
  <2>1. UNCHANGED wal /\ (Goto(a, "recorded") \/ Goto(a, "final"))
    BY <1>11 DEF NoteTerminal, RecordExecution
  <2>2. UNCHANGED <<store, mem>> \/ Save(a, j, mem[a][j])
    BY <1>11 DEF NoteTerminal, RecordExecution
  <2>3. mem' = [mem EXCEPT ![a] = [@ EXCEPT ![j] = mem[a][j]]]
    BY <2>2 DEF Save, TypeOK, SubTypeOK
  <2>4. store' \in {store, [store EXCEPT ![j] = mem[a][j]]}
    BY <2>2 DEF Save
  <2>. QED BY <1>m, <2>1, <2>3, <2>4, CopySound
<1>. QED
  BY <1>1, <1>2, <1>3, <1>4, <1>5, <1>6, <1>7, <1>8, <1>9, <1>10, <1>11 DEF SubmitStep

-------------------------------------------------------------------------------
(* Bulk writes *)

LEMMA SaveNextSound ==
  ASSUME TypeOK, RecordInv, NEW a \in Actors, NEW j \in Jobs, SaveNext(a, j)
  PROVE  RecordInv'
<1>1. PICK phase : Goto(a, phase) /\ phase \notin {"call", "running"}
  BY DEF SaveNext, Saving
<1>. QED BY <1>1, CopySound, FreshSound DEF SaveNext

LEMMA ReplanSound ==
  ASSUME TypeOK, RecordInv, NEW a \in Actors, NEW route, ReplanRead(a, route),
         NEW phase, phase \notin {"call", "running"}, Goto(a, phase), UNCHANGED <<store, wal>>
  PROVE  RecordInv'
<1>. DEFINE r == [j \in Jobs |-> IF route[j] = NoProvider THEN store[j]
                                 ELSE [store[j] EXCEPT !.selected = route[j]]]
<1>1. ASSUME NEW j \in Jobs PROVE Sound(r[j], wal[j].submit)
  <2>1. store[j] \in JobRecord /\ Sound(store[j], wal[j].submit)
    BY DEF TypeOK, SubTypeOK, RecordInv
  <2>. QED BY <2>1, RecordSound
<1>2. HoldToSave(a, Rewritten(route), r)
  BY DEF ReplanRead
<1>. HIDE DEF r
<1>. QED BY <1>1, <1>2, HoldSound

LEMMA PromoteSound ==
  ASSUME TypeOK, RecordInv, NEW a \in Actors, NEW plan, PromoteRead(a, plan),
         NEW phase, phase \notin {"call", "running"}, Goto(a, phase), UNCHANGED <<store, wal>>
  PROVE  RecordInv'
<1>. DEFINE r == [j \in Jobs |-> Promoted(store[j], plan[Group[j]])]
<1>1. ASSUME NEW j \in Jobs PROVE Sound(r[j], wal[j].submit)
  <2>1. store[j] \in JobRecord /\ Sound(store[j], wal[j].submit)
    BY DEF TypeOK, SubTypeOK, RecordInv
  <2>. QED BY <2>1, RecordSound
<1>2. HoldToSave(a, PromotedBy(plan), r)
  BY DEF PromoteRead
<1>. HIDE DEF r
<1>. QED BY <1>1, <1>2, HoldSound

-------------------------------------------------------------------------------
(* The steps of the system *)

LEMMA WorkerSound ==
  ASSUME TypeOK, RecordInv, NEW w \in Workers, WorkerOK(w), WorkerStep(w)
  PROVE  RecordInv'
<1>. w \in Actors
  BY DEF Actors
<1>r. ASSUME NEW j \in Jobs
      PROVE  /\ store[j] \in JobRecord /\ Sound(store[j], wal[j].submit)
             /\ mem[w][j] \in JobRecord /\ Sound(mem[w][j], wal[j].submit)
  BY DEF TypeOK, SubTypeOK, RecordInv
<1>1. ASSUME NEW S \in SUBSET Jobs, BeginPass(w, S) PROVE RecordInv'
  <2>. DEFINE r == [j \in Jobs |-> TimedOut(store[j])]
  <2>1. ASSUME NEW j \in Jobs PROVE Sound(r[j], wal[j].submit)
    BY <1>r, RecordSound
  <2>2. HoldToSave(w, S, r) /\ Goto(w, "recovering") /\ UNCHANGED <<store, wal>>
    BY <1>1 DEF BeginPass
  <2>. HIDE DEF r
  <2>. QED BY <2>1, <2>2, HoldSound
<1>2. ASSUME NEW route \in Routings, PassReplans(w, route) PROVE RecordInv'
  BY <1>2, ReplanSound DEF PassReplans
<1>3. ASSUME NEW plan \in Plans, PassPromotes(w, plan) PROVE RecordInv'
  BY <1>3, PromoteSound DEF PassPromotes
<1>4. ASSUME NEW j \in Jobs, SaveNext(w, j) PROVE RecordInv'
  BY <1>4, SaveNextSound
<1>5. ASSUME EndPass(w) \/ Die(w), UNCHANGED <<store, wal>> PROVE RecordInv'
  BY <1>5, ForgetSound DEF EndPass, Die, RecordInv
<1>6. CASE PassDrained(w) \/ PassBlocked(w) \/ PickNothing(w)
  BY <1>5, <1>6 DEF PassDrained, PassBlocked, PickNothing
<1>7. ASSUME NEW j \in Jobs, PickRaises(w, j) PROVE RecordInv'
  BY <1>5, <1>7 DEF PickRaises
<1>8. ASSUME NEW j \in Jobs, NEW p \in Providers, Pick(w, j, p) PROVE RecordInv'
  <2>1. Sound([store[j] EXCEPT !.selected = p], wal[j].submit)
    BY <1>r, RecordSound
  <2>. QED BY <1>8, <2>1, CopySound DEF Pick
<1>9. ASSUME NEW j \in Jobs, MarkStarting(w, j) PROVE RecordInv'
  <2>1. Sound([mem[w][j] EXCEPT !.status = "starting"], wal[j].submit)
    BY <1>r, RecordSound
  <2>. QED BY <1>9, <2>1, CopySound DEF MarkStarting, Save
<1>10. ASSUME NEW j \in Jobs, Settle(w, j) PROVE RecordInv'
  <2>1. Sound(Remediated(mem[w][j]), wal[j].submit)
    BY <1>r, RecordSound
  <2>2. \A i \in Jobs : Sound(store'[i], wal[i].submit)
    BY <1>10, <1>r, <2>1 DEF Settle, TypeOK, SubTypeOK
  <2>. QED BY <1>10, <2>2, ForgetSound DEF Settle, EndPass
<1>11. ASSUME SubmitStep(w), UNCHANGED queueVars PROVE RecordInv'
  <2>1. pc[w] \in Pipeline
    BY <1>11, SubmitStepEffect DEF SubmitEffect, TypeOK
  <2>2. \A i, j \in Jobs : Holds(w, i) /\ Holds(w, j) => i = j
    BY <2>1 DEF WorkerOK, Reserving
  <2>. QED BY <1>11, <2>2, SubmitSound
<1>. QED
  BY <1>1, <1>2, <1>3, <1>4, <1>6, <1>7, <1>8, <1>9, <1>10, <1>11 DEF WorkerStep

LEMMA OperatorSound ==
  ASSUME TypeOK, RecordInv, NEW o \in Operators, OperatorStep(o)
  PROVE  RecordInv'
<1>. o \in Actors
  BY DEF Actors
<1>r. ASSUME NEW j \in Jobs PROVE store[j] \in JobRecord /\ Sound(store[j], wal[j].submit)
  BY DEF TypeOK, SubTypeOK, RecordInv
<1>d. ASSUME NEW S, NEW r, Decide(o, S, r), \A j \in Jobs : Sound(r[j], wal[j].submit)
      PROVE  RecordInv'
  BY <1>d, HoldSound DEF Decide
<1>. DEFINE cancelled == [i \in Jobs |-> Cancelled(store[i])]
            timedOut  == [i \in Jobs |-> TimedOut(store[i])]
            retried   == [i \in Jobs |-> Retried(store[i])]
<1>w. \A r \in {cancelled, timedOut, retried}, j \in Jobs : Sound(r[j], wal[j].submit)
  BY <1>r, RecordSound
<1>0. ASSUME NEW S, NEW r \in {cancelled, timedOut, retried}, Decide(o, S, r) PROVE RecordInv'
  BY <1>0, <1>d, <1>w
<1>1. ASSUME NEW j \in Jobs, EnqueueJob(o, j) PROVE RecordInv'
  <2>1. \A i \in Jobs : Sound(store'[i], wal[i].submit)
    BY <1>1, <1>r, FreshSound DEF EnqueueJob, TypeOK, SubTypeOK
  <2>. QED BY <1>1, <2>1 DEF EnqueueJob, RecordInv, Calling, Holds
<1>2. ASSUME NEW j \in Jobs, IntakeJob(o, j) PROVE RecordInv'
  BY <1>2, <1>d, FreshSound DEF IntakeJob
<1>3. ASSUME NEW j \in Jobs, CancelJob(o, j) PROVE RecordInv'
  BY <1>3, <1>0 DEF CancelJob
<1>4. ASSUME NEW j \in Jobs, ForceCancelJob(o, j) PROVE RecordInv'
  BY <1>4, <1>0 DEF ForceCancelJob
<1>5. ASSUME NEW j \in Jobs, RetryJob(o, j) PROVE RecordInv'
  BY <1>5, <1>0 DEF RetryJob
<1>6. ASSUME NEW G \in SUBSET Jobs, CancelGroup(o, G) PROVE RecordInv'
  BY <1>6, <1>0 DEF CancelGroup
<1>7. ASSUME NEW route \in Routings, ReplanQueue(o, route) PROVE RecordInv'
  BY <1>7, ReplanSound DEF ReplanQueue
<1>8. ASSUME NEW plan \in Plans, PlanIntake(o, plan) PROVE RecordInv'
  BY <1>8, PromoteSound DEF PlanIntake
<1>9. ASSUME NEW j \in Jobs, SaveNext(o, j) PROVE RecordInv'
  BY <1>9, SaveNextSound
<1>. QED
  BY <1>1, <1>2, <1>3, <1>4, <1>5, <1>6, <1>7, <1>8, <1>9 DEF OperatorStep

LEMMA RecordInvInit == Init => RecordInv
BY FreshSound DEF Init, SubInit, RecordInv, Calling

LEMMA RecordInvStep == CoreInv /\ RecordInv /\ [Next]_vars => RecordInv'
<1>. SUFFICES ASSUME CoreInv, RecordInv, [Next]_vars PROVE RecordInv'
  OBVIOUS
<1>. USE DEF CoreInv
<1>. Workers \subseteq Actors /\ Operators \subseteq Actors
  BY DEF Actors
<1>1. ASSUME NEW w \in Workers, WorkerStep(w) PROVE RecordInv'
  BY <1>1, WorkerSound DEF Discipline
<1>2. ASSUME NEW o \in Operators, OperatorStep(o) PROVE RecordInv'
  BY <1>2, OperatorSound
<1>3. CASE StartDrain \/ ClearDrain
  BY <1>3 DEF StartDrain, ClearDrain, RecordInv, Calling, Holds
<1>4. ASSUME NEW w \in Workers, WorkerCrash(w) PROVE RecordInv'
  BY <1>4, ForgetSound DEF WorkerCrash, Die, RecordInv
<1>5. ASSUME NEW w \in Workers, Restart(w) PROVE RecordInv'
  BY <1>5 DEF Restart, Goto, RecordInv, Calling, Holds, TypeOK
<1>6. ASSUME NEW o \in Operators, OperatorCrash(o) PROVE RecordInv'
  BY <1>6, ForgetSound DEF OperatorCrash, RecordInv
<1>7. CASE UNCHANGED vars
  BY <1>7 DEF vars, RecordInv, Calling, Holds
<1>. QED BY <1>1, <1>2, <1>3, <1>4, <1>5, <1>6, <1>7 DEF Next

LEMMA CoreInit == Init => CoreInv
BY IInvInit DEF IInv, CoreInv

\* However often jobs are retried by hand, cancelled, promoted and written back,
\* no stored record counts more automatic retries than a class allows.
THEOREM RetriesBounded == Spec => []RetryBudget
<1>1. RecordInv => RetryBudget
  BY DEF RecordInv, Sound, Within, RetryBudget
<1>. QED BY <1>1, CoreInit, CoreStep, RecordInvInit, RecordInvStep, PTL DEF Spec

\* However stale the copies that are saved and whoever dies when, a stored record
\* is running or succeeded only if its provider_submit is in the log.
THEOREM RunningLogged == Spec => []RunningIsLogged
<1>1. RecordInv => RunningIsLogged
  BY DEF RecordInv, Sound, RunningIsLogged
<1>. QED BY <1>1, CoreInit, CoreStep, RecordInvInit, RecordInvStep, PTL DEF Spec

-------------------------------------------------------------------------------
(* Direct submissions next to the worker *)

\* A client holds the one job it submits, and none between requests.
OneJob(c) ==
  /\ pc[c] = "idle" => HoldsNone(c)
  /\ \A i, j \in Jobs : Holds(c, i) /\ Holds(c, j) => i = j

ControlInv ==
  /\ CoreInv /\ DirectTypeOK /\ RecordInv
  /\ \A c \in Clients : OneJob(c)

\* Where a step of one client leaves the worker, the operators and the others.
ClientLocal(c) ==
  /\ TypeOK' /\ UNCHANGED queueVars
  /\ Local(c)
  /\ pc'[c] \in DirectPhases /\ OneJob(c)'
  /\ capLock' \in [Slots -> Clients \cup {NoClient}]

\* The worker and the operators never touch what a direct submission has.
LEMMA NextSparesClients ==
  ASSUME CoreInv, Next, NEW c \in Clients
  PROVE  pc'[c] = pc[c] /\ mem'[c] = mem[c]
<1>. USE DEF CoreInv
<1>. c \in Actors /\ c \notin Workers /\ c \notin Operators
  BY ActorAssumption DEF Actors
<1>1. ASSUME NEW w \in Workers, WorkerStep(w) PROVE pc'[c] = pc[c] /\ mem'[c] = mem[c]
  BY <1>1, WorkerStepEffect DEF Discipline, WorkerEffect, Local
<1>2. ASSUME NEW o \in Operators, OperatorStep(o) PROVE pc'[c] = pc[c] /\ mem'[c] = mem[c]
  BY <1>2, OperatorStepEffect DEF Discipline, OperatorEffect, Local
<1>3. CASE StartDrain \/ ClearDrain
  BY <1>3 DEF StartDrain, ClearDrain
<1>4. ASSUME NEW a \in Workers \cup Operators, WorkerCrash(a) \/ Restart(a) \/ OperatorCrash(a)
      PROVE  pc'[c] = pc[c] /\ mem'[c] = mem[c]
  BY <1>4 DEF WorkerCrash, Restart, OperatorCrash, Die, Goto, Forget, TypeOK, SubTypeOK
<1>. QED BY <1>1, <1>2, <1>3, <1>4 DEF Next

\* A client that moves on with the one job it holds, changed or not.
LEMMA ClientMoves ==
  ASSUME ControlInv, NEW c \in Clients, NEW phase \in Pipeline, Goto(c, phase),
         UNCHANGED queueVars, wal' \in [Jobs -> WalEntry],
         \/ UNCHANGED <<store, mem>>
         \/ \E j \in Jobs, r \in JobRecord :
              /\ Holds(c, j) \/ HoldsNone(c)
              /\ mem' = [mem EXCEPT ![c] = [@ EXCEPT ![j] = r]]
              /\ store' \in {store, [store EXCEPT ![j] = r]},
         capLock' \in [Slots -> Clients \cup {NoClient}]
  PROVE  ClientLocal(c)
<1>. USE DEF ControlInv, CoreInv, TypeOK, SubTypeOK
<1>. c \in Actors
  BY DEF Actors
<1>1. /\ pc' \in [Actors -> WorkerPhases \cup {"saving"}]
      /\ pc'[c] = phase /\ \A b \in Actors : b # c => pc'[b] = pc[b]
  BY DEF Goto, WorkerPhases
<1>2. phase # "idle" /\ phase \in DirectPhases
  BY DEF Pipeline, DirectPhases
<1>3. CASE UNCHANGED <<store, mem>>
  <2>1. OneJob(c)'
    BY <1>1, <1>2, <1>3 DEF OneJob, Holds
  <2>. QED BY <1>1, <1>2, <1>3, <2>1 DEF ClientLocal, Local, queueVars
<1>4. ASSUME NEW j \in Jobs, NEW r \in JobRecord, Holds(c, j) \/ HoldsNone(c),
             mem' = [mem EXCEPT ![c] = [@ EXCEPT ![j] = r]],
             store' \in {store, [store EXCEPT ![j] = r]}
      PROVE  ClientLocal(c)
  <2>1. /\ mem' \in [Actors -> [Jobs -> JobRecord]] /\ store' \in [Jobs -> JobRecord]
        /\ \A b \in Actors : b # c => mem'[b] = mem[b]
        /\ \A i \in Jobs : i # j => mem'[c][i] = mem[c][i]
    BY <1>4
  <2>2. \A i \in Jobs : Holds(c, i)' => i = j
    BY <1>4, <2>1 DEF OneJob, Holds, HoldsNone
  <2>3. OneJob(c)'
    BY <1>1, <1>2, <2>2 DEF OneJob
  <2>. QED BY <1>1, <1>2, <2>1, <2>3 DEF ClientLocal, Local, queueVars
<1>. QED BY <1>3, <1>4

LEMMA ClientForgets ==
  ASSUME ControlInv, NEW c \in Clients, Goto(c, "idle"), Forget(c), UNCHANGED <<store, wal>>,
         UNCHANGED queueVars, capLock' \in [Slots -> Clients \cup {NoClient}]
  PROVE  ClientLocal(c) /\ RecordInv'
<1>. USE DEF ControlInv, CoreInv, TypeOK, SubTypeOK
<1>. c \in Actors
  BY DEF Actors
<1>1. /\ pc' \in [Actors -> WorkerPhases \cup {"saving"}]
      /\ pc'[c] = "idle" /\ \A b \in Actors : b # c => pc'[b] = pc[b]
  BY DEF Goto, WorkerPhases
<1>2. /\ mem' \in [Actors -> [Jobs -> JobRecord]]
      /\ \A b \in Actors : b # c => mem'[b] = mem[b]
      /\ \A j \in Jobs : mem'[c][j] = NoRecord
  BY FreshType DEF Forget
<1>3. \A j \in Jobs : ~Holds(c, j)'
  BY <1>2, FreshType DEF Holds
<1>4. OneJob(c)'
  BY <1>3 DEF OneJob, HoldsNone
<1>5. RecordInv'
  BY ForgetSound DEF RecordInv
<1>. QED BY <1>1, <1>2, <1>4, <1>5 DEF ClientLocal, Local, queueVars, DirectPhases

LEMMA ClientStepKeeps ==
  ASSUME ControlInv, NEW c \in Clients, ClientStep(c) \/ ClientCrash(c), UNCHANGED queueVars
  PROVE  ClientLocal(c) /\ RecordInv'
<1>. USE DEF ControlInv, CoreInv
<1>. c \in Actors
  BY DEF Actors
<1>l. /\ capLock \in [Slots -> Clients \cup {NoClient}]
      /\ \A s : [capLock EXCEPT ![s] = c] \in [Slots -> Clients \cup {NoClient}]
      /\ \A s : [capLock EXCEPT ![s] = NoClient] \in [Slots -> Clients \cup {NoClient}]
  BY DEF DirectTypeOK
<1>m. ASSUME NEW j \in Jobs PROVE mem[c][j] \in JobRecord /\ Sound(mem[c][j], wal[j].submit)
  BY DEF TypeOK, SubTypeOK, RecordInv
<1>w. wal \in [Jobs -> WalEntry]
  BY DEF TypeOK, SubTypeOK
<1>1. ASSUME NEW j \in Jobs, NEW p \in Providers, SubmitPublicJob(c, j, p)
      PROVE  ClientLocal(c) /\ RecordInv'
  <2>. DEFINE r == [Fresh("created") EXCEPT !.selected = p]
  <2>1. r \in JobRecord
    BY DEF Fresh, JobRecord, Statuses
  <2>2. Sound(r, wal[j].submit)
    BY DEF Sound, Within, Fresh
  <2>3. /\ mem' = [mem EXCEPT ![c] = [@ EXCEPT ![j] = r]] /\ Goto(c, "gates")
        /\ UNCHANGED <<store, wal, capLock>> /\ HoldsNone(c)
    BY <1>1 DEF SubmitPublicJob, OneJob
  <2>. HIDE DEF r
  <2>4. RecordInv'
    BY <2>2, <2>3, CopySound
  <2>. QED BY <1>l, <1>w, <2>1, <2>3, <2>4, ClientMoves DEF Pipeline
\* A client saves the job it holds.
<1>s. ASSUME NEW j \in Jobs, NEW r \in JobRecord, NEW phase \in {"result", "log"}, Holds(c, j),
             Save(c, j, r), Sound(r, wal[j].submit), Goto(c, phase), UNCHANGED wal,
             capLock' \in [Slots -> Clients \cup {NoClient}]
      PROVE  ClientLocal(c) /\ RecordInv'
  <2>1. RecordInv'
    BY <1>s, CopySound DEF Save
  <2>. QED BY <1>s, <1>w, <2>1, ClientMoves DEF Pipeline, Save
<1>2. ASSUME NEW j \in Jobs, NEW k \in RetryableClasses, ReserveRejected(c, j, k)
      PROVE  ClientLocal(c) /\ RecordInv'
  <2>1. FailedWith(mem[c][j], k) \in JobRecord
    BY <1>m, RecordType, ErrorAssumption
  <2>2. Sound(FailedWith(mem[c][j], k), wal[j].submit)
    BY <1>m, RecordSound
  <2>. QED BY <1>2, <1>l, <1>s, <2>1, <2>2 DEF ReserveRejected
<1>3. ASSUME NEW j \in Jobs, ReserveCounts(c, j) PROVE ClientLocal(c) /\ RecordInv'
  <2>1. Goto(c, "reserved") /\ UNCHANGED <<store, wal, mem>>
    BY <1>3 DEF ReserveCounts
  <2>2. RecordInv'
    BY <2>1 DEF RecordInv, Calling, Goto, Holds, TypeOK
  <2>. QED BY <1>3, <1>l, <1>w, <2>1, <2>2, ClientMoves DEF ReserveCounts, Pipeline
<1>4. ASSUME NEW j \in Jobs, ReserveSaves(c, j) PROVE ClientLocal(c) /\ RecordInv'
  <2>. DEFINE r == [mem[c][j] EXCEPT !.status = "starting"]
  <2>1. r \in JobRecord
    BY <1>m, RecordType DEF Statuses
  <2>2. Sound(r, wal[j].submit)
    BY <1>m, RecordSound
  <2>3. Holds(c, j) /\ Save(c, j, r) /\ Goto(c, "log") /\ UNCHANGED wal
    BY <1>4 DEF ReserveSaves
  <2>. HIDE DEF r
  <2>. QED BY <1>4, <1>l, <1>s, <2>1, <2>2, <2>3 DEF ReserveSaves
<1>5. CASE Answer(c)
  BY <1>5, <1>l, ClientForgets DEF Answer
<1>6. CASE ClientCrash(c)
  <2>1. capLock' \in [Slots -> Clients \cup {NoClient}]
    BY <1>6, <1>l DEF ClientCrash
  <2>. QED BY <1>6, <2>1, ClientForgets DEF ClientCrash
<1>7. CASE SubmitStep(c) /\ UNCHANGED capLock
  <2>1. SubmitEffect(c)
    BY <1>7, SubmitStepEffect DEF TypeOK
  <2>2. PICK phase \in Pipeline : Goto(c, phase)
    BY <2>1 DEF SubmitEffect, Goto
  <2>3. \/ UNCHANGED <<store, mem>>
        \/ \E j \in Jobs, r \in JobRecord :
             /\ Holds(c, j) \/ HoldsNone(c)
             /\ mem' = [mem EXCEPT ![c] = [@ EXCEPT ![j] = r]]
             /\ store' \in {store, [store EXCEPT ![j] = r]}
    BY <2>1 DEF SubmitEffect, Save
  <2>4. ClientLocal(c)
    BY <1>7, <1>l, <2>1, <2>2, <2>3, ClientMoves DEF SubmitEffect
  <2>5. RecordInv'
    BY <1>7, SubmitSound DEF OneJob
  <2>. QED BY <2>4, <2>5
<1>. QED BY <1>1, <1>2, <1>3, <1>4, <1>5, <1>6, <1>7 DEF ClientStep

LEMMA ControlInvInit == ControlInit => ControlInv
<1>. SUFFICES ASSUME ControlInit PROVE ControlInv
  OBVIOUS
<1>1. CoreInv /\ RecordInv
  BY CoreInit, RecordInvInit DEF ControlInit
<1>2. DirectTypeOK
  BY <1>1 DEF ControlInit, DirectTypeOK, CoreInv, TypeOK, Init, SubInit, DirectPhases, Actors
<1>3. ASSUME NEW c \in Clients PROVE OneJob(c)
  BY FreshType DEF ControlInit, Init, SubInit, OneJob, HoldsNone, Holds, Actors
<1>. QED BY <1>1, <1>2, <1>3 DEF ControlInv

LEMMA ControlInvStep == ControlInv /\ [ControlNext]_controlVars => ControlInv'
<1>. SUFFICES ASSUME ControlInv, [ControlNext]_controlVars PROVE ControlInv'
  OBVIOUS
<1>. USE DEF ControlInv
<1>. Clients \subseteq Actors /\ Workers \subseteq Actors /\ Operators \subseteq Actors
  BY DEF Actors
<1>1. CASE Next /\ UNCHANGED capLock
  <2>1. CoreInv' /\ RecordInv'
    BY <1>1, CoreStep, RecordInvStep
  <2>2. ASSUME NEW c \in Clients PROVE pc'[c] = pc[c] /\ mem'[c] = mem[c]
    BY <1>1, NextSparesClients
  <2>3. DirectTypeOK'
    BY <1>1, <2>1, <2>2 DEF DirectTypeOK, CoreInv, TypeOK
  <2>4. ASSUME NEW c \in Clients PROVE OneJob(c)'
    BY <2>2 DEF OneJob, HoldsNone, Holds
  <2>. QED BY <2>1, <2>3, <2>4
<1>2. ASSUME NEW c \in Clients, ClientStep(c) \/ ClientCrash(c), UNCHANGED queueVars
      PROVE  ControlInv'
  <2>1. ClientLocal(c) /\ RecordInv'
    BY <1>2, ClientStepKeeps
  <2>2. \A b \in Actors : b # c => pc'[b] = pc[b] /\ mem'[b] = mem[b]
    BY <2>1 DEF ClientLocal, Local
  <2>3. \A b \in Workers \cup Operators : pc'[b] = pc[b] /\ mem'[b] = mem[b]
    BY <2>2, ActorAssumption
  <2>4. lock' = lock /\ draining' = draining /\ late' = late
    BY <1>2 DEF queueVars
  <2>5. Discipline'
    BY <2>3, <2>4 DEF CoreInv, Discipline, WorkerOK, OperatorOK, Holds
  <2>6. DrainSeen'
    BY <2>3, <2>4 DEF CoreInv, DrainSeen
  <2>7. ASSUME NEW d \in Clients PROVE pc'[d] \in DirectPhases /\ OneJob(d)'
    <3>1. CASE d = c
      BY <2>1, <3>1 DEF ClientLocal
    <3>2. CASE d # c
      BY <2>2, <3>2 DEF OneJob, HoldsNone, Holds, DirectTypeOK
    <3>. QED BY <3>1, <3>2
  <2>8. DirectTypeOK'
    BY <2>1, <2>7 DEF ClientLocal, DirectTypeOK, TypeOK
  <2>. QED BY <2>1, <2>5, <2>6, <2>7, <2>8 DEF ClientLocal, CoreInv
<1>3. CASE UNCHANGED controlVars
  <2>1. UNCHANGED vars /\ capLock' = capLock
    BY <1>3 DEF controlVars, vars
  <2>2. CoreInv' /\ RecordInv'
    BY <2>1, CoreStep, RecordInvStep
  <2>3. DirectTypeOK' /\ \A c \in Clients : OneJob(c)'
    BY <2>1 DEF vars, DirectTypeOK, SubTypeOK, OneJob, HoldsNone, Holds
  <2>. QED BY <2>2, <2>3
<1>. QED BY <1>1, <1>2, <1>3 DEF ControlNext, DirectNext

\* With direct submissions beside the worker every record, held or stored, keeps
\* the shape the code reads, and each process keeps to its own phases.
THEOREM ControlTypesKept == ControlSpec => []ControlTypeOK
<1>1. ControlInv => ControlTypeOK
  BY DEF ControlInv, CoreInv, ControlTypeOK
<1>. QED BY <1>1, ControlInvInit, ControlInvStep, PTL DEF ControlSpec

\* Whoever did the work, the worker or a direct submission, and whoever
\* overwrites whose records: a job recorded as running or succeeded is in the log.
THEOREM ControlRunningLogged == ControlSpec => []RunningIsLogged
<1>1. ControlInv => RunningIsLogged
  BY DEF ControlInv, RecordInv, Sound, RunningIsLogged
<1>. QED BY <1>1, ControlInvInit, ControlInvStep, PTL DEF ControlSpec

\* A worker that finds a direct submission stale, or a direct submission that
\* overwrites the worker's record, never adds a retry beyond the budget.
THEOREM ControlRetriesBounded == ControlSpec => []RetryBudget
<1>1. ControlInv => RetryBudget
  BY DEF ControlInv, RecordInv, Sound, Within, RetryBudget
<1>. QED BY <1>1, ControlInvInit, ControlInvStep, PTL DEF ControlSpec

\* The drain holds the worker to one more dispatch whatever is submitted directly.
THEOREM ControlDrainBounded == ControlSpec => []DrainBound
<1>1. ControlInv => DrainBound
  BY DEF ControlInv, CoreInv, DrainSeen, DrainBound
<1>. QED BY <1>1, ControlInvInit, ControlInvStep, PTL DEF ControlSpec

===============================================================================

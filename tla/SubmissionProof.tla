---------------------------- MODULE SubmissionProof ----------------------------
(***************************************************************************)
(* Lemmas about job records, submit_job and the slots, which the worker    *)
(* and direct submission share.                                            *)
(***************************************************************************)
EXTENDS Submission, TLAPS, FiniteSetTheorems

-------------------------------------------------------------------------------
(* Records *)

\* Every operation makes a record of a record.
LEMMA RecordType ==
  ASSUME NEW r \in JobRecord, NEW c \in ErrorClasses \cup {NoError}
  PROVE  /\ Cancelled(r) \in JobRecord
         /\ TimedOut(r) \in JobRecord
         /\ Retried(r) \in JobRecord
         /\ FailedWith(r, c) \in JobRecord
         /\ FailedByProvider(r, c) \in JobRecord
         /\ Remediated(r) \in JobRecord
         /\ \A s \in Statuses : [r EXCEPT !.status = s] \in JobRecord
         /\ \A p \in Providers : [r EXCEPT !.selected = p] \in JobRecord
         /\ \A p \in Providers : Promoted(r, p) \in JobRecord
<1>. USE DEF JobRecord, Statuses
<1>1. Cancelled(r) \in JobRecord
  BY DEF Cancelled
<1>2. TimedOut(r) \in JobRecord
  BY DEF TimedOut
<1>3. Retried(r) \in JobRecord
  BY DEF Retried
<1>4. FailedWith(r, c) \in JobRecord /\ FailedByProvider(r, c) \in JobRecord
  BY DEF FailedWith, FailedByProvider
<1>5. Requeued(r) \in JobRecord
  <2>1. r.attempts + 1 \in Nat
    OBVIOUS
  <2>. DEFINE n == r.attempts + 1
  <2>. HIDE DEF n
  <2>2. [r EXCEPT !.status = "queued", !.error = NoError, !.attempts = n, !.backoff = TRUE]
          \in JobRecord
    BY <2>1 DEF n
  <2>. QED BY <2>2 DEF Requeued, n
<1>5a. DeadLettered(r) \in JobRecord
  BY DEF DeadLettered
<1>6. Remediated(r) \in JobRecord
  BY <1>5, <1>5a DEF Remediated
<1>7. ASSUME NEW s \in Statuses PROVE [r EXCEPT !.status = s] \in JobRecord
  OBVIOUS
<1>8. ASSUME NEW p \in Providers PROVE [r EXCEPT !.selected = p] \in JobRecord
  OBVIOUS
<1>9. ASSUME NEW p \in Providers PROVE Promoted(r, p) \in JobRecord
  BY DEF Promoted
<1>. QED
  BY <1>1, <1>2, <1>3, <1>4, <1>6, <1>7, <1>8, <1>9

LEMMA FreshType ==
  /\ NoRecord \in JobRecord /\ NoRecord.status = "absent"
  /\ Enqueued \in JobRecord /\ Enqueued.status = "queued"
  /\ Buffered \in JobRecord /\ Buffered.status = "buffered"
BY DEF NoRecord, Enqueued, Buffered, Fresh, JobRecord, Statuses

\* The record a phase of submit_job saves is one of the same provider.
LEMMA RecordSelection ==
  ASSUME NEW r \in JobRecord, NEW c
  PROVE  /\ FailedWith(r, c).selected = r.selected /\ FailedWith(r, c).status = "failed"
         /\ FailedByProvider(r, c).selected = r.selected /\ FailedByProvider(r, c).status = "failed"
         /\ \A s : [r EXCEPT !.status = s].selected = r.selected
         /\ \A s : [r EXCEPT !.status = s].status = s
BY DEF JobRecord, FailedWith, FailedByProvider

\* No operation but a dispatch makes a record active.
LEMMA RecordInactive ==
  ASSUME NEW r \in JobRecord
  PROVE  /\ Cancelled(r).status = "cancelled"
         /\ TimedOut(r).status = "failed"
         /\ Retried(r).status = "queued"
         /\ Remediated(r).status \in {"queued", "failed"}
BY DEF JobRecord, Cancelled, TimedOut, Retried, Remediated, Requeued, DeadLettered

-------------------------------------------------------------------------------
(* What a step of submit_job does to the shared state *)

SubmitEffect(a) ==
  /\ pc[a] \in Pipeline
  /\ \E phase \in Pipeline : pc' = [pc EXCEPT ![a] = phase]
  /\ wal' \in [Jobs -> WalEntry]
  /\ \/ UNCHANGED <<store, mem>>
     \/ \E j \in Jobs, r \in JobRecord :
          /\ Holds(a, j) /\ r.status # "absent" /\ r.selected = mem[a][j].selected
          /\ Save(a, j, r)

LEMMA SubmitStepEffect ==
  ASSUME SubTypeOK, NEW a \in Actors, SubmitStep(a)
  PROVE  SubmitEffect(a)
<1>. USE DEF SubTypeOK
<1>. DEFINE Saves(j, r) == /\ Holds(a, j) /\ r.status # "absent"
                           /\ r.selected = mem[a][j].selected /\ Save(a, j, r)
<1>m. ASSUME NEW j \in Jobs PROVE mem[a][j] \in JobRecord
  OBVIOUS
<1>1. CASE GatesPass(a)
  BY <1>1 DEF GatesPass, Goto, SubmitEffect, Pipeline
<1>2. ASSUME NEW j \in Jobs, LogSubmit(a, j) PROVE SubmitEffect(a)
  BY <1>2 DEF LogSubmit, Goto, SubmitEffect, Pipeline, WalEntry
<1>3. ASSUME NEW j \in Jobs, LogFinal(a, j) PROVE SubmitEffect(a)
  BY <1>3 DEF LogFinal, Goto, SubmitEffect, Pipeline, WalEntry
<1>4. ASSUME NEW j \in Jobs, NEW r \in JobRecord, NEW phase \in Pipeline, pc[a] \in Pipeline,
             Saves(j, r), Goto(a, phase), UNCHANGED wal
      PROVE  SubmitEffect(a)
  BY <1>4 DEF SubmitEffect, Goto
<1>5. ASSUME NEW j \in Jobs, NEW c \in ErrorClasses, GateBlocks(a, j, c) PROVE SubmitEffect(a)
  <2>1. FailedWith(mem[a][j], c) \in JobRecord
    BY <1>m, RecordType
  <2>2. Saves(j, FailedWith(mem[a][j], c))
    BY <1>5, <1>m, RecordSelection DEF GateBlocks
  <2>. QED BY <1>4, <1>5, <2>1, <2>2 DEF GateBlocks, Pipeline
<1>6. ASSUME NEW j \in Jobs, ProviderStarts(a, j) PROVE SubmitEffect(a)
  <2>. DEFINE r == [mem[a][j] EXCEPT !.status = "running"]
  <2>1. r \in JobRecord
    BY <1>m, RecordType DEF Statuses
  <2>2. Saves(j, r)
    BY <1>6, <1>m, RecordSelection DEF ProviderStarts
  <2>. QED BY <1>4, <1>6, <2>1, <2>2 DEF ProviderStarts, Pipeline
<1>7. ASSUME NEW j \in Jobs, ProviderSucceeds(a, j) PROVE SubmitEffect(a)
  <2>. DEFINE r == [mem[a][j] EXCEPT !.status = "succeeded"]
  <2>1. r \in JobRecord
    BY <1>m, RecordType DEF Statuses
  <2>2. Saves(j, r)
    BY <1>7, <1>m, RecordSelection DEF ProviderSucceeds
  <2>. QED BY <1>4, <1>7, <2>1, <2>2 DEF ProviderSucceeds, Pipeline
<1>8. ASSUME NEW j \in Jobs, NEW c \in ErrorClasses \cup {NoError}, ProviderFails(a, j, c)
      PROVE  SubmitEffect(a)
  <2>1. FailedByProvider(mem[a][j], c) \in JobRecord
    BY <1>m, RecordType
  <2>2. Saves(j, FailedByProvider(mem[a][j], c))
    BY <1>8, <1>m, RecordSelection DEF ProviderFails
  <2>. QED BY <1>4, <1>8, <2>1, <2>2 DEF ProviderFails, Pipeline
<1>9. ASSUME NEW j \in Jobs, NEW c \in ErrorClasses, ProviderRaises(a, j, c)
      PROVE  SubmitEffect(a)
  <2>1. FailedWith(mem[a][j], c) \in JobRecord
    BY <1>m, RecordType
  <2>2. Saves(j, FailedWith(mem[a][j], c))
    BY <1>9, <1>m, RecordSelection DEF ProviderRaises
  <2>. QED BY <1>4, <1>9, <2>1, <2>2 DEF ProviderRaises, Pipeline
<1>10. ASSUME NEW j \in Jobs,
              NEW r \in {mem[a][j]} \cup {FailedWith(mem[a][j], c) : c \in ErrorClasses},
              PostChecks(a, j, r) \/ VerifyArtifacts(a, j, r)
       PROVE  SubmitEffect(a)
  <2>1. r \in JobRecord
    BY <1>m, RecordType
  <2>2. r.status # "absent" /\ r.selected = mem[a][j].selected
    BY <1>10, <1>m, RecordSelection DEF PostChecks, VerifyArtifacts, Holds
  <2>3. Saves(j, r) /\ pc[a] \in Pipeline /\ UNCHANGED wal
    BY <1>10, <2>2 DEF PostChecks, VerifyArtifacts, Pipeline
  <2>4. Goto(a, "verify") \/ Goto(a, "terminal")
    BY <1>10 DEF PostChecks, VerifyArtifacts
  <2>. QED BY <1>4, <2>1, <2>3, <2>4 DEF Pipeline
<1>11. ASSUME NEW j \in Jobs, NoteTerminal(a, j) \/ RecordExecution(a, j) PROVE SubmitEffect(a)
  <2>1. Goto(a, "recorded") \/ Goto(a, "final")
    BY <1>11 DEF NoteTerminal, RecordExecution
  <2>2. pc[a] \in Pipeline /\ UNCHANGED wal
    BY <1>11 DEF NoteTerminal, RecordExecution, Pipeline
  <2>3. UNCHANGED <<store, mem>> \/ Saves(j, mem[a][j])
    BY <1>11 DEF NoteTerminal, RecordExecution, Holds
  <2>4. CASE UNCHANGED <<store, mem>>
    BY <2>1, <2>2, <2>4 DEF SubmitEffect, Goto, Pipeline
  <2>5. CASE Saves(j, mem[a][j])
    BY <1>4, <1>m, <2>1, <2>2, <2>5 DEF Pipeline
  <2>. QED BY <2>3, <2>4, <2>5
<1>. QED
  BY <1>1, <1>2, <1>3, <1>5, <1>6, <1>7, <1>8, <1>9, <1>10, <1>11 DEF SubmitStep

-------------------------------------------------------------------------------
(* Counting the active jobs of a slot *)

LEMMA ActiveFinite ==
  ASSUME NEW s PROVE IsFiniteSet(ActiveOn(s)) /\ Cardinality(ActiveOn(s)) \in Nat
<1>1. ActiveOn(s) \subseteq Jobs
  BY DEF ActiveOn
<1>. QED BY <1>1, JobsAssumption, FS_Subset, FS_CardinalityType

LEMMA Smaller ==
  ASSUME NEW A, NEW B, IsFiniteSet(B), A \subseteq B
  PROVE  IsFiniteSet(A) /\ Cardinality(A) <= Cardinality(B)
BY FS_Subset

\* The place of one record is taken, kept or given back: a record that is not active
\* leaves its slot; one that stays active stays on it; one that becomes active needs room.
LEMMA PoolMoves ==
  ASSUME SubTypeOK, NEW j \in Jobs, NEW r \in JobRecord, store' = [store EXCEPT ![j] = r],
         \/ r.status \notin Active
         \/ store[j].status \in Active /\ r.selected = store[j].selected
         \/ /\ store[j].status \notin Active /\ r.selected \in Providers
            /\ Cardinality(ActiveOn(Slot(r.selected, j))) < Limit[Slot(r.selected, j)]
  PROVE  [Pool!Next]_([s \in Slots |-> ActiveOn(s)])
<1>. DEFINE held == [s \in Slots |-> ActiveOn(s)]
<1>1. store'[j] = r /\ \A i \in Jobs : i # j => store'[i] = store[i]
  BY DEF SubTypeOK
<1>2. ASSUME NEW s, store'[j].status \in Active <=> store[j].status \in Active,
             store[j].status \in Active => store'[j].selected = store[j].selected
      PROVE  ActiveOn(s)' = ActiveOn(s)
  BY <1>1, <1>2 DEF ActiveOn, ProviderOf
<1>3. CASE \/ store[j].status \in Active /\ r.status \in Active /\ r.selected = store[j].selected
           \/ store[j].status \notin Active /\ r.status \notin Active
  <2>1. \A s \in Slots : ActiveOn(s)' = ActiveOn(s)
    BY <1>1, <1>2, <1>3
  <2>2. held' = held
    BY <2>1
  <2>. QED BY <2>2
<1>4. CASE store[j].status \in Active /\ r.status \notin Active
  <2>. DEFINE s0 == Slot(ProviderOf(store[j], j), j)
  <2>1. \A s : ActiveOn(s)' = IF s = s0 THEN ActiveOn(s) \ {j} ELSE ActiveOn(s)
    BY <1>1, <1>4 DEF ActiveOn
  <2>2. CASE s0 \in Slots
    <3>1. j \in held[s0]
      BY <1>4, <2>2 DEF ActiveOn
    <3>2. held' = [held EXCEPT ![s0] = @ \ {j}]
      BY <2>1, <2>2
    <3>. QED BY <2>2, <3>1, <3>2 DEF Pool!Next, Pool!Leave
  <2>3. CASE s0 \notin Slots
    <3>1. held' = held
      BY <2>1, <2>3
    <3>. QED BY <3>1
  <2>. QED BY <2>2, <2>3
<1>5. CASE /\ store[j].status \notin Active /\ r.status \in Active /\ r.selected \in Providers
           /\ Cardinality(ActiveOn(Slot(r.selected, j))) < Limit[Slot(r.selected, j)]
  <2>. DEFINE s0 == Slot(r.selected, j)
  <2>1. s0 \in Slots
    BY <1>5, ProviderAssumption DEF Slots, Slot
  <2>2. ProviderOf(r, j) = r.selected
    BY <1>5, ProviderAssumption DEF ProviderOf
  <2>3. \A s : ActiveOn(s)' = IF s = s0 THEN ActiveOn(s) \cup {j} ELSE ActiveOn(s)
    BY <1>1, <1>5, <2>2 DEF ActiveOn
  <2>4. held' = [held EXCEPT ![s0] = @ \cup {j}]
    BY <2>1, <2>3
  <2>5. j \notin held[s0] /\ Cardinality(held[s0]) < Limit[s0]
    BY <1>5, <2>1 DEF ActiveOn
  <2>6. Pool!Cardinality(held[s0]) = Cardinality(held[s0])
    BY DEF Pool!Cardinality, Cardinality
  <2>. QED BY <2>1, <2>4, <2>5, <2>6 DEF Pool!Next, Pool!Enter
<1>. QED BY <1>3, <1>4, <1>5

===============================================================================

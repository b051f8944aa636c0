------------------------- MODULE DirectSubmissionProof -------------------------
(***************************************************************************)
(* Theorems of direct submission, for every set of jobs, providers, limits *)
(* and clients, and every choice of clients that may die.                  *)
(***************************************************************************)
EXTENDS DirectSubmission, SubmissionProof

\* Before its reservation a job is not in the store.
Unsaved == {"gates", "reserve", "reserved"}

\* From its reservation to the provider's answer a job is active.
Placed == {"log", "call", "running"}

\* A client holds the one job it submits, with its provider.  What it holds of
\* the job is what is stored, once it has saved it.
ClientOK(c) ==
  /\ pc[c] = "idle" => HoldsNone(c)
  /\ \A i, j \in Jobs : Holds(c, i) => /\ mem[c][i].selected \in Providers
                                       /\ Holds(c, j) => i = j
  /\ \A j \in Jobs : Holds(c, j) =>
       /\ pc[c] \in Unsaved => store[j].status = "absent"
       /\ pc[c] \notin Unsaved => store[j] = mem[c][j]
       /\ pc[c] \in Placed => store[j].status \in Active

\* No two clients submit the same job.
Own == \A c, d \in Clients, j \in Jobs : Holds(c, j) /\ Holds(d, j) => c = d

\* Between the count and the save a client has the lock of the slot, and the
\* slot still has the room it counted.
Locked(c) ==
  \A j \in Jobs : pc[c] = "reserved" /\ Holds(c, j) =>
    /\ capLock[ReservedSlot(c, j)] = c
    /\ ~Full(ReservedSlot(c, j))

DirectInv ==
  /\ DirectTypeOK /\ pc \in [Actors -> DirectPhases]
  /\ \A c \in Clients : ClientOK(c)
  /\ Own
  /\ \A c \in Clients : Locked(c)
  /\ DirectCapacityRespected

-------------------------------------------------------------------------------
(* The effect of a step of one client *)

\* A client writes the record of the job it submits: one that is not active, one
\* as active as the stored one, or, from its reservation, one that becomes active.
ClientSave(c, j) ==
  /\ Holds(c, j)
  /\ \E r \in JobRecord :
       /\ store' = [store EXCEPT ![j] = r]
       /\ r.selected = mem[c][j].selected
       /\ \/ r.status \notin Active
          \/ store[j].status \in Active
          \/ pc[c] = "reserved" /\ store[j].status \notin Active

\* It takes the lock of a slot that is not full, and frees no lock but its own.
LockEffect(c) ==
  /\ capLock' \in [Slots -> Clients \cup {NoClient}]
  /\ \A s \in Slots : capLock[s] \in Clients \ {c} => capLock'[s] = capLock[s]
  /\ pc'[c] = "reserved" =>
       /\ store' = store
       /\ \A j \in Jobs : Holds(c, j)' => /\ capLock'[ReservedSlot(c, j)'] = c
                                         /\ ~Full(ReservedSlot(c, j))'

ClientEffect(c) ==
  /\ SubTypeOK' /\ pc' \in [Actors -> DirectPhases]
  /\ \A b \in Actors : b # c => pc'[b] = pc[b] /\ mem'[b] = mem[b]
  /\ ClientOK(c)'
  /\ store' = store \/ \E j \in Jobs : ClientSave(c, j)
  /\ \A j \in Jobs : Holds(c, j)' => Holds(c, j) \/ \A a \in Actors : ~Holds(a, j)
  /\ LockEffect(c)

\* A step that saves the client's job moves it to a phase after the reservation.
LEMMA ClientSaves ==
  ASSUME DirectInv, NEW c \in Clients, NEW j \in Jobs, NEW r \in JobRecord,
         NEW phase \in Pipeline \ Unsaved,
         Holds(c, j), r.status # "absent", r.selected = mem[c][j].selected,
         Save(c, j, r), Goto(c, phase), wal' \in [Jobs -> WalEntry],
         phase \in Placed => r.status \in Active,
         \/ r.status \notin Active
         \/ store[j].status \in Active
         \/ pc[c] = "reserved" /\ store[j].status \notin Active,
         capLock' \in [Slots -> Clients \cup {NoClient}],
         \A s \in Slots : capLock[s] \in Clients \ {c} => capLock'[s] = capLock[s]
  PROVE  ClientEffect(c)
<1>. c \in Actors
  BY DEF Actors
<1>. USE DEF DirectInv, DirectTypeOK, SubTypeOK
<1>1. /\ pc'[c] = phase /\ pc' \in [Actors -> DirectPhases]
      /\ \A b \in Actors : b # c => pc'[b] = pc[b]
  BY DEF Goto, DirectPhases
<1>2. /\ mem' \in [Actors -> [Jobs -> JobRecord]] /\ store' \in [Jobs -> JobRecord]
      /\ mem'[c][j] = r /\ store'[j] = r
      /\ \A i \in Jobs : i # j => mem'[c][i] = mem[c][i] /\ store'[i] = store[i]
      /\ \A b \in Actors : b # c => mem'[b] = mem[b]
  BY DEF Save
<1>3. \A i \in Jobs : Holds(c, i)' <=> i = j
  BY <1>2 DEF ClientOK, Holds
<1>4. phase # "idle" /\ phase \notin Unsaved /\ mem[c][j].selected \in Providers
  BY DEF Pipeline, ClientOK
<1>5. ClientOK(c)'
  BY <1>1, <1>2, <1>3, <1>4 DEF ClientOK
<1>6. ClientSave(c, j)
  BY DEF ClientSave, Save
<1>7. LockEffect(c)
  BY <1>1 DEF LockEffect, Unsaved
<1>. QED BY <1>1, <1>2, <1>3, <1>5, <1>6, <1>7 DEF ClientEffect

\* A step that keeps the records moves the client on.
LEMMA ClientMoves ==
  ASSUME DirectInv, NEW c \in Clients, NEW phase \in Pipeline, Goto(c, phase),
         UNCHANGED <<store, mem>>, wal' \in [Jobs -> WalEntry],
         phase # "reserved", pc[c] # "idle",
         pc[c] \in Unsaved <=> phase \in Unsaved,
         phase \in Placed => pc[c] \in Placed,
         capLock' = capLock
  PROVE  ClientEffect(c)
<1>. c \in Actors
  BY DEF Actors
<1>. USE DEF DirectInv, DirectTypeOK, SubTypeOK
<1>1. /\ pc'[c] = phase /\ pc' \in [Actors -> DirectPhases]
      /\ \A b \in Actors : b # c => pc'[b] = pc[b]
  BY DEF Goto, DirectPhases
<1>2. ClientOK(c)'
  BY <1>1 DEF ClientOK, Holds, HoldsNone, Pipeline
<1>3. LockEffect(c)
  BY <1>1 DEF LockEffect
<1>. QED BY <1>1, <1>2, <1>3 DEF ClientEffect, Holds

\* A request that ends, or whose process dies, forgets its job.
LEMMA ClientEnds ==
  ASSUME DirectInv, NEW c \in Clients, Goto(c, "idle"), Forget(c), UNCHANGED <<store, wal>>,
         capLock' = capLock \/ capLock' = [s \in Slots |-> IF capLock[s] = c THEN NoClient ELSE capLock[s]]
  PROVE  ClientEffect(c)
<1>. c \in Actors
  BY DEF Actors
<1>. USE DEF DirectInv, DirectTypeOK, SubTypeOK
<1>1. /\ pc'[c] = "idle" /\ pc' \in [Actors -> DirectPhases]
      /\ \A b \in Actors : b # c => pc'[b] = pc[b] /\ mem'[b] = mem[b]
      /\ mem' \in [Actors -> [Jobs -> JobRecord]]
      /\ \A j \in Jobs : mem'[c][j] = NoRecord
  BY FreshType DEF Goto, Forget, DirectPhases
<1>2. \A j \in Jobs : ~Holds(c, j)'
  BY <1>1, FreshType DEF Holds
<1>3. ClientOK(c)'
  BY <1>1, <1>2 DEF ClientOK, HoldsNone
<1>4. LockEffect(c)
  BY <1>1, DirectAssumption DEF LockEffect
<1>. QED BY <1>1, <1>2, <1>3, <1>4 DEF ClientEffect

LEMMA ClientSubmits ==
  ASSUME DirectInv, NEW c \in Clients, SubmitStep(c), capLock' = capLock
  PROVE  ClientEffect(c)
<1>. c \in Actors
  BY DEF Actors
<1>. USE DEF DirectInv, DirectTypeOK, SubTypeOK
<1>m. ASSUME NEW j \in Jobs PROVE mem[c][j] \in JobRecord /\ store[j] \in JobRecord
  OBVIOUS
<1>w. ASSUME UNCHANGED wal PROVE wal' \in [Jobs -> WalEntry]
  BY <1>w
\* A save of a record that is not active, or of the job a provider has.
<1>s. ASSUME NEW j \in Jobs, NEW r \in JobRecord, NEW phase \in Pipeline \ Unsaved, Holds(c, j),
             r.status # "absent", r.selected = mem[c][j].selected, Save(c, j, r), Goto(c, phase),
             UNCHANGED wal, phase \in Placed => r.status \in Active,
             r.status \notin Active \/ store[j].status \in Active
      PROVE  ClientEffect(c)
  BY <1>s, <1>w, ClientSaves
<1>1. CASE GatesPass(c)
  BY <1>1, <1>w, ClientMoves DEF GatesPass, Pipeline, Unsaved, Placed
<1>2. ASSUME NEW j \in Jobs, LogSubmit(c, j) PROVE ClientEffect(c)
  <2>1. wal' \in [Jobs -> WalEntry]
    BY <1>2 DEF LogSubmit, WalEntry
  <2>. QED BY <1>2, <2>1, ClientMoves DEF LogSubmit, Pipeline, Unsaved, Placed
<1>3. ASSUME NEW j \in Jobs, LogFinal(c, j) PROVE ClientEffect(c)
  <2>1. wal' \in [Jobs -> WalEntry]
    BY <1>3 DEF LogFinal, WalEntry
  <2>. QED BY <1>3, <2>1, ClientMoves DEF LogFinal, Pipeline, Unsaved, Placed
<1>4. ASSUME NEW j \in Jobs, NEW k \in ErrorClasses, GateBlocks(c, j, k) \/ ProviderRaises(c, j, k)
      PROVE  ClientEffect(c)
  <2>1. FailedWith(mem[c][j], k) \in JobRecord
    BY <1>m, RecordType
  <2>2. /\ FailedWith(mem[c][j], k).status = "failed"
        /\ FailedWith(mem[c][j], k).selected = mem[c][j].selected
    BY <1>m, RecordSelection
  <2>. QED BY <1>4, <1>s, <2>1, <2>2 DEF GateBlocks, ProviderRaises, Pipeline, Unsaved, Placed, Active
<1>5. ASSUME NEW j \in Jobs, NEW k \in ErrorClasses \cup {NoError}, ProviderFails(c, j, k)
      PROVE  ClientEffect(c)
  <2>1. FailedByProvider(mem[c][j], k) \in JobRecord
    BY <1>m, RecordType
  <2>2. /\ FailedByProvider(mem[c][j], k).status = "failed"
        /\ FailedByProvider(mem[c][j], k).selected = mem[c][j].selected
    BY <1>m, RecordSelection
  <2>. QED BY <1>5, <1>s, <2>1, <2>2 DEF ProviderFails, Pipeline, Unsaved, Placed, Active
<1>6. ASSUME NEW j \in Jobs, ProviderStarts(c, j) PROVE ClientEffect(c)
  <2>. DEFINE r == [mem[c][j] EXCEPT !.status = "running"]
  <2>1. r \in JobRecord /\ r.status = "running" /\ r.selected = mem[c][j].selected
    BY <1>m, RecordType, RecordSelection DEF Statuses
  <2>2. store[j].status \in Active
    BY <1>6 DEF ProviderStarts, ClientOK, Placed
  <2>3. Save(c, j, r)
    BY <1>6 DEF ProviderStarts
  <2>. HIDE DEF r
  <2>. QED BY <1>6, <1>s, <2>1, <2>2, <2>3 DEF ProviderStarts, Pipeline, Unsaved, Active
<1>7. ASSUME NEW j \in Jobs, ProviderSucceeds(c, j) PROVE ClientEffect(c)
  <2>. DEFINE r == [mem[c][j] EXCEPT !.status = "succeeded"]
  <2>1. r \in JobRecord /\ r.status = "succeeded" /\ r.selected = mem[c][j].selected
    BY <1>m, RecordType, RecordSelection DEF Statuses
  <2>2. Save(c, j, r)
    BY <1>7 DEF ProviderSucceeds
  <2>. HIDE DEF r
  <2>. QED BY <1>7, <1>s, <2>1, <2>2 DEF ProviderSucceeds, Pipeline, Unsaved, Placed, Active
<1>8. ASSUME NEW j \in Jobs,
             NEW r \in {mem[c][j]} \cup {FailedWith(mem[c][j], k) : k \in ErrorClasses},
             PostChecks(c, j, r) \/ VerifyArtifacts(c, j, r)
      PROVE  ClientEffect(c)
  <2>1. r \in JobRecord
    BY <1>m, RecordType
  <2>2. r.status # "absent" /\ r.selected = mem[c][j].selected
    BY <1>8, <1>m, RecordSelection DEF PostChecks, VerifyArtifacts, Holds
  <2>3. Holds(c, j) /\ pc[c] \notin Unsaved /\ Save(c, j, r) /\ UNCHANGED wal
    BY <1>8 DEF PostChecks, VerifyArtifacts, Unsaved
  <2>4. store[j] = mem[c][j]
    BY <2>3 DEF ClientOK
  <2>5. r = store[j] \/ r.status = "failed"
    BY <1>8, <1>m, <2>4, RecordSelection
  <2>6. Goto(c, "verify") \/ Goto(c, "terminal")
    BY <1>8 DEF PostChecks, VerifyArtifacts
  <2>7. \A phase \in {"verify", "terminal"} : phase \in Pipeline \ Unsaved /\ phase \notin Placed
    BY DEF Pipeline, Unsaved, Placed
  <2>8. r.status \notin Active \/ store[j].status \in Active
    BY <2>5 DEF Active
  <2>. QED BY <1>s, <2>1, <2>2, <2>3, <2>6, <2>7, <2>8
<1>9. ASSUME NEW j \in Jobs, NoteTerminal(c, j) \/ RecordExecution(c, j) PROVE ClientEffect(c)
  <2>1. \E phase \in Pipeline \ Unsaved : Goto(c, phase) /\ phase \notin Placed
    BY <1>9 DEF NoteTerminal, RecordExecution, Pipeline, Unsaved, Placed
  <2>2. Holds(c, j) /\ pc[c] \notin Unsaved /\ UNCHANGED wal
    BY <1>9 DEF NoteTerminal, RecordExecution, Unsaved
  <2>3. store[j] = mem[c][j]
    BY <2>2 DEF ClientOK
  <2>4. UNCHANGED <<store, mem>> \/ Save(c, j, mem[c][j])
    BY <1>9 DEF NoteTerminal, RecordExecution
  <2>5. Save(c, j, mem[c][j])
    BY <1>m, <2>3, <2>4 DEF Save
  <2>. QED BY <1>s, <1>m, <2>1, <2>2, <2>3, <2>5 DEF Holds
<1>. QED
  BY <1>1, <1>2, <1>3, <1>4, <1>5, <1>6, <1>7, <1>8, <1>9 DEF SubmitStep

LEMMA ClientReserves ==
  ASSUME DirectInv, NEW c \in Clients, NEW j \in Jobs,
         \/ \E p \in Providers : SubmitPublicJob(c, j, p)
         \/ \E k \in RetryableClasses : ReserveRejected(c, j, k)
         \/ ReserveCounts(c, j)
         \/ ReserveSaves(c, j)
  PROVE  ClientEffect(c)
<1>. c \in Actors
  BY DEF Actors
<1>. USE DEF DirectInv, DirectTypeOK, SubTypeOK
<1>m. mem[c][j] \in JobRecord
  OBVIOUS
<1>t. Slot(mem[c][j].selected, j) \in Slots \/ mem[c][j].selected \notin Providers
  BY ProviderAssumption DEF Slots, Slot
<1>1. ASSUME NEW p \in Providers, SubmitPublicJob(c, j, p) PROVE ClientEffect(c)
  <2>. DEFINE r == [Fresh("created") EXCEPT !.selected = p]
  <2>1. r \in JobRecord /\ r.selected = p /\ r.status = "created"
    BY DEF Fresh, JobRecord, Statuses
  <2>2. mem' = [mem EXCEPT ![c] = [@ EXCEPT ![j] = r]]
    BY <1>1 DEF SubmitPublicJob
  <2>. HIDE DEF r
  <2>3. /\ mem' \in [Actors -> [Jobs -> JobRecord]] /\ mem'[c][j] = r
        /\ \A i \in Jobs : i # j => mem'[c][i] = mem[c][i]
        /\ \A b \in Actors : b # c => mem'[b] = mem[b]
    BY <2>1, <2>2
  <2>4. /\ pc'[c] = "gates" /\ pc' \in [Actors -> DirectPhases]
        /\ \A b \in Actors : b # c => pc'[b] = pc[b]
    BY <1>1 DEF SubmitPublicJob, Goto, DirectPhases, Pipeline
  <2>5. \A i \in Jobs : Holds(c, i)' => i = j
    BY <1>1, <2>3 DEF SubmitPublicJob, ClientOK, HoldsNone, Holds
  <2>6. ClientOK(c)'
    BY <1>1, <2>1, <2>3, <2>4, <2>5 DEF ClientOK, SubmitPublicJob, Unsaved, Placed
  <2>7. LockEffect(c)
    BY <1>1, <2>4 DEF LockEffect, SubmitPublicJob
  <2>. QED BY <1>1, <2>3, <2>4, <2>5, <2>6, <2>7 DEF ClientEffect, SubmitPublicJob
<1>2. ASSUME NEW k \in RetryableClasses, ReserveRejected(c, j, k) PROVE ClientEffect(c)
  <2>1. FailedWith(mem[c][j], k) \in JobRecord
    BY <1>m, RecordType, ErrorAssumption
  <2>2. /\ FailedWith(mem[c][j], k).status = "failed"
        /\ FailedWith(mem[c][j], k).selected = mem[c][j].selected
    BY <1>m, RecordSelection
  <2>3. wal' \in [Jobs -> WalEntry]
    BY <1>2 DEF ReserveRejected
  <2>. QED
    BY <1>2, <2>1, <2>2, <2>3, ClientSaves
       DEF ReserveRejected, Pipeline, Unsaved, Placed, Active
<1>3. CASE ReserveCounts(c, j)
  <2>1. PICK s0 \in Slots : s0 = ReservedSlot(c, j)
    BY <1>3, <1>t DEF ReserveCounts, ReservedSlot, ClientOK
  <2>2. /\ pc'[c] = "reserved" /\ pc' \in [Actors -> DirectPhases]
        /\ \A b \in Actors : b # c => pc'[b] = pc[b]
    BY <1>3 DEF ReserveCounts, Goto, DirectPhases, Pipeline
  <2>3. ClientOK(c)'
    BY <1>3, <2>2 DEF ReserveCounts, ClientOK, Unsaved, Placed, Holds
  <2>4. \A i \in Jobs : Holds(c, i)' => i = j
    BY <1>3 DEF ReserveCounts, ClientOK, Holds
  <2>5. capLock' = [capLock EXCEPT ![s0] = c] /\ capLock[s0] = NoClient /\ store' = store
    BY <1>3, <2>1 DEF ReserveCounts
  <2>6. ReservedSlot(c, j)' = s0 /\ ~Full(ReservedSlot(c, j))'
    BY <1>3, <2>1 DEF ReserveCounts, ReservedSlot, Full, ActiveOn
  <2>7. capLock'[ReservedSlot(c, j)'] = c
    BY <2>5, <2>6
  <2>8. LockEffect(c)
    BY <2>4, <2>5, <2>6, <2>7, DirectAssumption DEF LockEffect
  <2>. QED BY <1>3, <2>2, <2>3, <2>8 DEF ClientEffect, ReserveCounts, Holds
<1>4. CASE ReserveSaves(c, j)
  <2>. DEFINE r == [mem[c][j] EXCEPT !.status = "starting"]
              s0 == ReservedSlot(c, j)
  <2>1. r \in JobRecord /\ r.status = "starting" /\ r.selected = mem[c][j].selected
    BY <1>m, RecordType, RecordSelection DEF Statuses
  <2>2. Save(c, j, r) /\ Holds(c, j) /\ pc[c] = "reserved"
    BY <1>4 DEF ReserveSaves
  <2>3. s0 \in Slots
    BY <1>4, <1>t DEF ReserveSaves, ReservedSlot, ClientOK
  <2>4. capLock' = [capLock EXCEPT ![s0] = NoClient] /\ capLock[s0] = c
    BY <1>4 DEF ReserveSaves, Locked
  <2>5. store[j].status \notin Active
    BY <2>2 DEF ClientOK, Unsaved, Active
  <2>. HIDE DEF r, s0
  <2>6. /\ capLock' \in [Slots -> Clients \cup {NoClient}]
        /\ \A s \in Slots : capLock[s] \in Clients \ {c} => capLock'[s] = capLock[s]
    BY <2>3, <2>4
  <2>7. wal' \in [Jobs -> WalEntry] /\ Goto(c, "log")
    BY <1>4 DEF ReserveSaves
  <2>. QED
    BY <2>1, <2>2, <2>5, <2>6, <2>7, ClientSaves DEF Pipeline, Unsaved, Active
<1>. QED BY <1>1, <1>2, <1>3, <1>4

LEMMA ClientStepEffect ==
  ASSUME DirectInv, NEW c \in Clients, ClientStep(c) \/ ClientCrash(c)
  PROVE  ClientEffect(c)
<1>1. CASE Answer(c)
  BY <1>1, ClientEnds DEF Answer
<1>2. CASE ClientCrash(c)
  BY <1>2, ClientEnds DEF ClientCrash
<1>. QED BY <1>1, <1>2, ClientReserves, ClientSubmits DEF ClientStep

-------------------------------------------------------------------------------
(* Counting the active jobs of a slot *)

\* A client adds a job to a slot only between its count and its save.
LEMMA SlotGrows ==
  ASSUME DirectInv, NEW c \in Clients, ClientEffect(c), NEW s
  PROVE  \/ ActiveOn(s)' \subseteq ActiveOn(s)
         \/ \E j \in Jobs : /\ pc[c] = "reserved" /\ Holds(c, j) /\ s = ReservedSlot(c, j)
                          /\ ActiveOn(s)' \subseteq ActiveOn(s) \cup {j}
<1>. USE DEF DirectInv, DirectTypeOK, SubTypeOK
<1>1. CASE store' = store
  BY <1>1 DEF ActiveOn
<1>2. ASSUME NEW j \in Jobs, ClientSave(c, j)
      PROVE  \/ ActiveOn(s)' \subseteq ActiveOn(s)
             \/ /\ pc[c] = "reserved" /\ s = ReservedSlot(c, j)
                /\ ActiveOn(s)' \subseteq ActiveOn(s) \cup {j}
  <2>1. PICK r \in JobRecord :
          /\ store' = [store EXCEPT ![j] = r] /\ r.selected = mem[c][j].selected
          /\ \/ r.status \notin Active
             \/ store[j].status \in Active
             \/ pc[c] = "reserved" /\ store[j].status \notin Active
    BY <1>2 DEF ClientSave
  <2>2. store'[j] = r /\ \A i \in Jobs : i # j => store'[i] = store[i]
    BY <2>1
  <2>3. r.selected \in Providers /\ ProviderOf(r, j) = r.selected
    BY <1>2, <2>1, ProviderAssumption DEF ClientSave, ClientOK, ProviderOf
  <2>4. CASE r.status \notin Active
    BY <2>2, <2>4 DEF ActiveOn
  <2>5. CASE store[j].status \in Active
    <3>1. store[j].selected = r.selected
      BY <1>2, <2>1, <2>5 DEF ClientSave, ClientOK, Active
    <3>. QED BY <2>2, <2>5, <3>1 DEF ActiveOn, ProviderOf
  <2>6. CASE pc[c] = "reserved" /\ s = ReservedSlot(c, j)
    BY <2>2, <2>6 DEF ActiveOn
  <2>7. CASE s # ReservedSlot(c, j)
    BY <2>1, <2>2, <2>3, <2>7 DEF ActiveOn, ReservedSlot
  <2>. QED BY <2>1, <2>4, <2>5, <2>6, <2>7
<1>. QED BY <1>1, <1>2 DEF ClientEffect, ClientSave

LEMMA FewerIsNotFull ==
  ASSUME NEW s \in Slots, ActiveOn(s)' \subseteq ActiveOn(s)
  PROVE  /\ ~Full(s) => ~Full(s)'
         /\ Cardinality(ActiveOn(s)) <= Limit[s] => Cardinality(ActiveOn(s)') <= Limit[s]
<1>1. IsFiniteSet(ActiveOn(s)') /\ Cardinality(ActiveOn(s)') <= Cardinality(ActiveOn(s))
  BY ActiveFinite, Smaller
<1>2. Cardinality(ActiveOn(s)') \in Nat /\ Cardinality(ActiveOn(s)) \in Nat /\ Limit[s] \in Nat
  BY <1>1, ActiveFinite, FS_CardinalityType, LimitAssumption
<1>. QED BY <1>1, <1>2 DEF Full

LEMMA OneMoreFits ==
  ASSUME NEW s \in Slots, NEW j, ActiveOn(s)' \subseteq ActiveOn(s) \cup {j}, ~Full(s), Limit[s] > 0
  PROVE  Cardinality(ActiveOn(s)') <= Limit[s]
<1>0. IsFiniteSet(ActiveOn(s)) /\ Cardinality(ActiveOn(s)) \in Nat
  BY ActiveFinite
<1>1. /\ IsFiniteSet(ActiveOn(s) \cup {j})
      /\ Cardinality(ActiveOn(s) \cup {j}) <= Cardinality(ActiveOn(s)) + 1
      /\ Cardinality(ActiveOn(s) \cup {j}) \in Nat
  <2>1. /\ IsFiniteSet(ActiveOn(s) \cup {j})
        /\ \/ Cardinality(ActiveOn(s) \cup {j}) = Cardinality(ActiveOn(s))
           \/ Cardinality(ActiveOn(s) \cup {j}) = Cardinality(ActiveOn(s)) + 1
    BY <1>0, FS_AddElement
  <2>. QED BY <1>0, <2>1
<1>2. IsFiniteSet(ActiveOn(s)') /\ Cardinality(ActiveOn(s)') <= Cardinality(ActiveOn(s) \cup {j})
  BY <1>1, Smaller
<1>3. Cardinality(ActiveOn(s)') \in Nat /\ Cardinality(ActiveOn(s)) \in Nat /\ Limit[s] \in Nat
  BY <1>2, ActiveFinite, FS_CardinalityType, LimitAssumption
<1>. QED BY <1>1, <1>2, <1>3 DEF Full

-------------------------------------------------------------------------------
(* The inductive invariant *)

LEMMA DirectInvInit == DirectInit => DirectInv
<1>. SUFFICES ASSUME DirectInit PROVE DirectInv
  OBVIOUS
<1>. USE DEF DirectInit, SubInit
<1>. Clients \subseteq Actors
  BY DEF Actors
<1>1. DirectTypeOK /\ pc \in [Actors -> DirectPhases]
  BY FreshType DEF DirectTypeOK, SubTypeOK, DirectPhases, WalEntry
<1>2. \A c \in Clients, j \in Jobs : ~Holds(c, j) /\ pc[c] = "idle"
  BY FreshType DEF Holds
<1>3. \A c \in Clients : ClientOK(c) /\ Locked(c)
  BY <1>2 DEF ClientOK, HoldsNone, Locked
<1>4. Own
  BY <1>2 DEF Own
<1>5. \A s : ActiveOn(s) = {}
  BY FreshType DEF ActiveOn, Active
<1>6. DirectCapacityRespected
  <2>1. \A s \in Slots : Cardinality(ActiveOn(s)) = 0
    BY <1>5, FS_EmptySet
  <2>. QED BY <2>1, LimitAssumption DEF DirectCapacityRespected
<1>. QED BY <1>1, <1>3, <1>4, <1>6 DEF DirectInv

LEMMA ClientInv ==
  ASSUME DirectInv, NEW c \in Clients, ClientEffect(c)
  PROVE  DirectInv'
<1>. USE DEF DirectInv
<1>. Clients \subseteq Actors
  BY DEF Actors
<1>1. DirectTypeOK' /\ (pc \in [Actors -> DirectPhases])'
  BY DEF ClientEffect, DirectTypeOK, LockEffect
<1>o. ASSUME NEW d \in Clients, d # c
      PROVE  /\ pc'[d] = pc[d] /\ mem'[d] = mem[d]
             /\ \A j \in Jobs : Holds(d, j)' <=> Holds(d, j)
             /\ \A j \in Jobs : Holds(d, j) => store'[j] = store[j]
  <2>1. pc'[d] = pc[d] /\ mem'[d] = mem[d]
    BY <1>o DEF ClientEffect
  <2>2. ASSUME NEW j \in Jobs, Holds(d, j) PROVE store'[j] = store[j]
    <3>1. ~Holds(c, j)
      BY <1>o, <2>2 DEF Own
    <3>. QED BY <3>1 DEF ClientEffect, ClientSave, DirectTypeOK, SubTypeOK
  <2>. QED BY <2>1, <2>2 DEF Holds
<1>2. ASSUME NEW d \in Clients PROVE ClientOK(d)'
  <2>1. CASE d = c
    BY <2>1 DEF ClientEffect
  <2>2. CASE d # c
    BY <1>o, <2>2 DEF ClientOK, HoldsNone
  <2>. QED BY <2>1, <2>2
<1>3. Own'
  BY <1>o DEF Own, ClientEffect
<1>4. ASSUME NEW d \in Clients PROVE Locked(d)'
  <2>1. CASE d = c
    BY <2>1 DEF ClientEffect, LockEffect, Locked
  <2>2. ASSUME NEW j \in Jobs, d # c, pc'[d] = "reserved", Holds(d, j)'
        PROVE  capLock'[ReservedSlot(d, j)'] = d /\ ~Full(ReservedSlot(d, j))'
    <3>1. PICK s \in Slots : s = ReservedSlot(d, j)
      BY <1>o, <2>2, ProviderAssumption DEF ClientOK, ReservedSlot, Slots, Slot
    <3>2. ReservedSlot(d, j)' = s /\ capLock[s] = d /\ ~Full(s)
      BY <1>o, <2>2, <3>1 DEF Locked, ReservedSlot
    <3>3. capLock'[s] = d
      BY <2>2, <3>2 DEF ClientEffect, LockEffect
    <3>4. ActiveOn(s)' \subseteq ActiveOn(s)
      <4>1. \A i \in Jobs : pc[c] = "reserved" /\ Holds(c, i) => s # ReservedSlot(c, i)
        BY <2>2, <3>2 DEF Locked
      <4>. QED BY <4>1, SlotGrows
    <3>5. ~Full(s)'
      BY <3>2, <3>4, FewerIsNotFull
    <3>. QED BY <3>2, <3>3, <3>5 DEF Full
  <2>. QED BY <2>1, <2>2 DEF Locked
<1>5. ASSUME NEW s \in Slots, Limit[s] > 0 PROVE Cardinality(ActiveOn(s)') <= Limit[s]
  <2>1. CASE ActiveOn(s)' \subseteq ActiveOn(s)
    BY <1>5, <2>1, FewerIsNotFull DEF DirectCapacityRespected
  <2>2. ASSUME NEW j \in Jobs, pc[c] = "reserved", Holds(c, j), s = ReservedSlot(c, j),
               ActiveOn(s)' \subseteq ActiveOn(s) \cup {j}
        PROVE  Cardinality(ActiveOn(s)') <= Limit[s]
    BY <1>5, <2>2, OneMoreFits DEF Locked
  <2>. QED BY <2>1, <2>2, SlotGrows
<1>. QED BY <1>1, <1>2, <1>3, <1>4, <1>5 DEF DirectCapacityRespected

LEMMA DirectInvStep == DirectInv /\ [DirectNext]_directVars => DirectInv'
<1>. SUFFICES ASSUME DirectInv, [DirectNext]_directVars PROVE DirectInv'
  OBVIOUS
<1>1. CASE UNCHANGED directVars
  <2>. USE <1>1 DEF directVars, DirectInv
  <2>1. DirectTypeOK' /\ (pc \in [Actors -> DirectPhases])'
    BY DEF DirectTypeOK, SubTypeOK
  <2>2. (\A c \in Clients : ClientOK(c))' /\ Own'
    BY DEF ClientOK, HoldsNone, Holds, Own
  <2>3. (\A c \in Clients : Locked(c))'
    BY DEF Locked, Holds, ReservedSlot, Full, ActiveOn
  <2>4. DirectCapacityRespected'
    BY DEF DirectCapacityRespected, ActiveOn
  <2>. QED BY <2>1, <2>2, <2>3, <2>4
<1>. QED BY <1>1, ClientStepEffect, ClientInv DEF DirectNext

\* Every variable keeps its type: no step of a request leaves a record, a log
\* entry or a lock the system does not know.
THEOREM DirectTypesKept == DirectSpec => []DirectTypeOK
<1>1. DirectInv => DirectTypeOK
  BY DEF DirectInv
<1>. QED BY <1>1, DirectInvInit, DirectInvStep, PTL DEF DirectSpec

\* However many requests count and save at once, and whoever dies when, direct
\* submissions never have more active jobs on a limited slot than its limit.
THEOREM DirectWithinLimits == DirectSpec => []DirectCapacityRespected
<1>1. DirectInv => DirectCapacityRespected
  BY DEF DirectInv
<1>. QED BY <1>1, DirectInvInit, DirectInvStep, PTL DEF DirectSpec

\* No job is logged, called or running at a provider but from a slot its stored
\* record is active on.
THEOREM SubmittedFromASlot == DirectSpec => []SubmittedHoldsSlot
<1>1. DirectInv => SubmittedHoldsSlot
  <2>. SUFFICES ASSUME DirectInv, NEW c \in Clients, NEW j \in Jobs,
                       pc[c] \in {"log", "call", "running"}, Holds(c, j)
                PROVE  j \in ActiveOn(ReservedSlot(c, j))
    BY DEF SubmittedHoldsSlot
  <2>1. store[j] = mem[c][j] /\ store[j].status \in Active /\ mem[c][j].selected \in Providers
    BY DEF DirectInv, ClientOK, Unsaved, Placed
  <2>. QED BY <2>1, ProviderAssumption DEF ActiveOn, ReservedSlot, ProviderOf
<1>. QED BY <1>1, DirectInvInit, DirectInvStep, PTL DEF DirectSpec

-------------------------------------------------------------------------------
(* Direct submissions implement the slot pool *)

\* A limit of 0 refuses nobody here (Full), so the pool is
\* implemented where every limit is positive.
LEMMA DirectPoolStep ==
  ASSUME \A s \in Slots : Limit[s] > 0, DirectInv, [DirectNext]_directVars
  PROVE  [Pool!Next]_([s \in Slots |-> ActiveOn(s)])
<1>. USE DEF DirectInv
<1>1. CASE store' = store
  <2>1. [s \in Slots |-> ActiveOn(s)]' = [s \in Slots |-> ActiveOn(s)]
    BY <1>1 DEF ActiveOn
  <2>. QED BY <2>1
<1>2. ASSUME NEW c \in Clients, NEW j \in Jobs, ClientSave(c, j)
      PROVE  [Pool!Next]_([s \in Slots |-> ActiveOn(s)])
  <2>1. PICK r \in JobRecord :
          /\ store' = [store EXCEPT ![j] = r] /\ r.selected = mem[c][j].selected
          /\ \/ r.status \notin Active
             \/ store[j].status \in Active
             \/ pc[c] = "reserved" /\ store[j].status \notin Active
    BY <1>2 DEF ClientSave
  <2>2. r.selected \in Providers
    BY <1>2, <2>1 DEF ClientSave, ClientOK
  <2>3. store[j].status \in Active => store[j].selected = r.selected
    BY <1>2, <2>1 DEF ClientSave, ClientOK, Active
  <2>4. ASSUME pc[c] = "reserved"
        PROVE  Cardinality(ActiveOn(Slot(r.selected, j))) < Limit[Slot(r.selected, j)]
    <3>. DEFINE s == Slot(r.selected, j)
    <3>1. s \in Slots /\ Limit[s] \in Nat /\ Limit[s] > 0 /\ Cardinality(ActiveOn(s)) \in Nat
      BY <2>2, ProviderAssumption, LimitAssumption, ActiveFinite DEF Slots, Slot
    <3>2. ~Full(s)
      BY <1>2, <2>1, <2>4 DEF ClientSave, Locked, ReservedSlot
    <3>. HIDE DEF s
    <3>3. Cardinality(ActiveOn(s)) < Limit[s]
      BY <3>1, <3>2 DEF Full
    <3>. QED BY <3>3 DEF s
  <2>. QED BY <2>1, <2>2, <2>3, <2>4, PoolMoves DEF DirectTypeOK
<1>3. store' = store \/ \E c \in Clients, j \in Jobs : ClientSave(c, j)
  BY ClientStepEffect DEF DirectNext, ClientEffect, directVars
<1>. QED BY <1>1, <1>2, <1>3

\* Where every slot has a positive limit, direct submissions are the abstract pool:
\* a job enters a slot only while fewer jobs than the limit are in it, and the step
\* that gives a place back gives back the one that was taken.
THEOREM DirectImplementsPool ==
  ASSUME \A s \in Slots : Limit[s] > 0
  PROVE  DirectSpec => PoolSpec
<1>1. DirectInit => Pool!Init
  <2>. SUFFICES ASSUME DirectInit PROVE Pool!Init
    OBVIOUS
  <2>1. \A s : ActiveOn(s) = {}
    BY FreshType DEF DirectInit, SubInit, ActiveOn, Active
  <2>. QED BY <2>1 DEF Pool!Init
<1>2. DirectInv /\ [DirectNext]_directVars => [Pool!Next]_([s \in Slots |-> ActiveOn(s)])
  BY DirectPoolStep
<1>. QED
  BY <1>1, <1>2, DirectInvInit, DirectInvStep, PTL DEF DirectSpec, PoolSpec, Pool!Spec

===============================================================================

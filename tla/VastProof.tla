------------------------------ MODULE VastProof -------------------------------
(***************************************************************************)
(* Theorems about the Vast.ai account, for any jobs, processes, instance   *)
(* ids, probes and bounds on faults and retries.                           *)
(***************************************************************************)
EXTENDS VastLeaseProps, VastServerless, WellFoundedInduction, TLAPS

\* A process with a job knows at most MaxStartups startups; only its cleanup finds
\* out whether the listing answered; a job that carries an error has not succeeded;
\* once past the guard, the copy is that of a submission that has begun.
ProcessInv(c) ==
  LET p == run[c] IN
  /\ p.pc = "idle" => p = Idle
  /\ p.pc # "idle" => p.job \in Jobs
  /\ p.pc # "cleanup" => p.tried < MaxStartups
  /\ p.swept => p.pc \in {"destroy", "postguard"}
  /\ p.pc = "postguard" /\ p.copy.error => p.copy.status # "succeeded"
  /\ p.pc \notin {"idle", "guard"} => p.copy.status \notin {"new", "queued"}

\* What a process has created and what is still there carries the label of its job.
\* After a listing that answered, what is still there is among those to destroy, or
\* a destroy was not confirmed.
MadeInv(c) ==
  LET p == run[c] IN
  /\ \A i \in p.made : inst[i].state # "unused" /\ (Live(i) => inst[i].label = p.job)
  /\ p.swept /\ p.tidy => p.made \cap Alive \subseteq p.todo
  /\ p.pc = "postguard" /\ p.swept /\ p.tidy => p.made \cap Alive = {}

\* The first attempt of a job is the business of one process, and the record knows no
\* end of a cleanup before this process has come to its end.
AttemptInv(c) ==
  LET p == run[c] IN
  p.pc # "idle" /\ retries[p.job] = 0 =>
    /\ \A d \in Callers : run[d].job = p.job => d = c
    /\ rec[p.job].status # "queued"
    /\ rec[p.job].status = "new" => c \in Clients
    /\ p.pc # "postguard" => p.copy.cleanup # "exited" /\ rec[p.job].cleanup # "exited"
    /\ p.pc = "postguard" => p.copy.cleanup = rec[p.job].cleanup

\* A job that nobody has taken has no cleanup behind it.
FreshInv(j) ==
  retries[j] = 0 /\ rec[j].status \in {"new", "queued"} => rec[j].cleanup = "none"

\* The instance the reaper has planned, as long as it is there, is that of a job whose
\* first attempt has ended or which was retried.
ReaperInv ==
  reaper.pc # "idle" =>
    /\ reaper.id \in Ids /\ inst[reaper.id].state # "unused"
    /\ Live(reaper.id) =>
         LET j == inst[reaper.id].label IN
         /\ j \in Jobs
         /\ retries[j] = 0 => rec[j].cleanup = "exited"

LeaseInv ==
  /\ LeaseTypeOK
  /\ \A c \in Callers : ProcessInv(c) /\ MadeInv(c) /\ AttemptInv(c)
  /\ \A j \in Jobs : FreshInv(j)
  /\ ReaperInv

\* A probe that does not work with the operator's deployment knows no ids but its own.
\* What a probe still has in the account it knows and will delete, or something of it
\* was lost; past a delete nothing of a tidy probe is there; what a listing has not
\* shown does not appear later.
ProbeInv(p) ==
  LET r == probe[p] IN
  /\ r.pc = "idle" => r = NewProbe
  /\ r.pc \in {"idle", "endpoint"} => endpoint[p] = "none"
  /\ r.pc \in {"idle", "endpoint", "group"} => group[p] = "none"
  /\ r.existing => endpoint[p] = "none" /\ group[p] = "none"
  /\ ~r.existing => r.endpoint \subseteq {p} /\ r.group \subseteq {p}
  /\ r.tidy /\ endpoint[p] = "there" =>
       /\ p \in r.endpoint
       /\ r.pc \in {"group", "ask", "logs", "ungroup", "unendpoint"}
  /\ r.tidy /\ group[p] = "there" =>
       /\ p \in r.group
       /\ r.pc \in {"ask", "logs", "ungroup"}
  /\ r.pc = "endpoint" => ~r.existing
  /\ r.pc = "group" => ~r.existing
  /\ r.empty => r.pc \in {"groups", "postguard"} /\ endpoint[p] # "there"
  /\ r.nogroup => r.pc = "postguard" /\ group[p] # "there"
  /\ r.verdict = "ok" => r.pc = "done" /\ endpoint[p] # "there" /\ group[p] # "there"

\* A job that was let through a guard that saw the account found no deployment.
TaskInv(j) ==
  LET t == task[j] IN
  /\ t.pc # "guard" /\ t.status # "failed" /\ ~t.blind => endpoint[Known] # "there"
  /\ t.status = "succeeded" => t.blind
  /\ t.pc = "guard" => t.status = "new"

ServerlessInv ==
  /\ ServerlessTypeOK
  /\ \A p \in Probes : ProbeInv(p)
  /\ \A j \in PyworkerJobs : TaskInv(j)

VastInv == LeaseInv /\ ServerlessInv

-------------------------------------------------------------------------------
(* Types *)

\* sorted(ids)[0] is one of the ids.
LEMMA FirstIn ==
  ASSUME NEW S \in SUBSET Ids, S # {}
  PROVE  First(S) \in S /\ First(S) \in Ids
<1>1. S \subseteq Nat
  BY LeaseAssumption
<1>2. PICK m \in S : \A k \in S : <<k, m>> \notin OpToRel(<, Nat)
  BY <1>1, NatLessThanWellFounded, WFMin
<1>3. \A k \in S : ~(k < m)
  <2>1. ASSUME NEW k \in S, k < m PROVE FALSE
    <3>1. <<k, m>> \in Nat \X Nat
      BY <1>1
    <3>2. <<k, m>>[1] < <<k, m>>[2]
      BY <2>1
    <3>3. <<k, m>> \in OpToRel(<, Nat)
      BY <3>1, <3>2, Zenon DEF OpToRel
    <3>. QED BY <1>2, <3>3
  <2>. QED BY <2>1
<1>4. \A k \in S : m <= k
  BY <1>1, <1>3
<1>. QED BY <1>4 DEF First

\* What a failure makes of a record
LEMMA FailedType ==
  ASSUME NEW r \in Record
  PROVE  Failed(r) \in Record /\ Failed(r).status = "failed" /\ Failed(r).cleanup = r.cleanup
BY DEF Record, Failed

LEMMA AliveIds == \A b \in BOOLEAN : Alive \subseteq Ids /\ Listed(b) \subseteq Ids
BY DEF Alive, Listed

LEMMA IdleType == Idle \in Process
BY LeaseAssumption DEF Idle, Process, Phases, Record, NoId

LEMMA ConstantFacts ==
  /\ Ids \subseteq Nat \ {0} /\ MaxStartups \in Nat \ {0} /\ MaxFaults \in Nat
  /\ NoJob \notin Jobs /\ Workers \cap Clients = {} /\ Known \notin Probes
BY LeaseAssumption, ServerlessAssumption

LEMMA CountedType ==
  ASSUME LeaseTypeOK, NEW b, Counted(b)
  PROVE  faults' \in 0..MaxFaults
BY ConstantFacts DEF LeaseTypeOK, Counted

LEMMA SavedType ==
  ASSUME LeaseTypeOK, NEW c \in Callers, NEW r \in Record, Save(c, r)
  PROVE  rec' \in [Jobs -> Record]
BY DEF LeaseTypeOK, Save

LEMMA BecomesType ==
  ASSUME LeaseTypeOK, NEW c \in Callers, NEW p \in Process, Becomes(c, p)
  PROVE  run' \in [Callers -> Process] /\ run' = [run EXCEPT ![c] = p] /\ run'[c] = p
BY DEF LeaseTypeOK, Becomes

LEMMA SaveAndBecomeType ==
  ASSUME LeaseTypeOK, NEW c \in Callers, NEW r \in Record, NEW p \in Process,
         SaveAndBecome(c, r, p)
  PROVE  /\ rec' \in [Jobs -> Record] /\ run' \in [Callers -> Process]
         /\ Save(c, r) /\ run' = [run EXCEPT ![c] = [p EXCEPT !.copy = r]]
         /\ [p EXCEPT !.copy = r] \in Process
         /\ run'[c] = [p EXCEPT !.copy = r]
<1>1. [p EXCEPT !.copy = r] \in Process
  BY DEF Process
<1>. QED BY <1>1, SavedType, BecomesType DEF SaveAndBecome

\* The records a process makes of its copy
LEMMA CopyType ==
  ASSUME NEW r \in Record
  PROVE  /\ \A i \in Ids \cup {NoId} : [r EXCEPT !.pid = i] \in Record
         /\ \A s \in {"new", "queued", "starting", "running", "succeeded", "failed"} :
              [r EXCEPT !.status = s] \in Record
         /\ [r EXCEPT !.error = TRUE] \in Record
         /\ [r EXCEPT !.pid = NoId, !.status = "starting"] \in Record
         /\ [r EXCEPT !.status = "queued", !.error = FALSE] \in Record
         /\ [r EXCEPT !.cleanup = IF @ = "none" THEN "entered" ELSE @] \in Record
         /\ \A s \in {"succeeded", "failed"}, e \in BOOLEAN :
              [r EXCEPT !.error = e, !.cleanup = "exited", !.status = s] \in Record
BY DEF Record

LEMMA WithoutType ==
  ASSUME LeaseTypeOK, NEW i \in Ids
  PROVE  Without(i) \in [Ids -> Instance]
BY DEF LeaseTypeOK, Without, Instance

-------------------------------------------------------------------------------
(* What the step of a process does *)

\* An instance that was created stays created; one that is there was there before,
\* with the same label, unless it is new.
InstEffect ==
  /\ inst' \in [Ids -> Instance]
  /\ \A i \in Ids : inst[i].state # "unused" =>
       /\ inst'[i].state # "unused"
       /\ Live(i)' => Live(i) /\ inst'[i].label = inst[i].label

\* A process saves its copy, as it leaves it, as that of a job that has begun; only one
\* that has come to its end has an end of its cleanup to save.
SaveEffect(p, q) ==
  \/ /\ rec' = rec
     /\ q.pc # "idle" => /\ p.pc # "postguard" /\ q.pc # "postguard"
                         /\ q.copy.cleanup = p.copy.cleanup
  \/ \E r \in Record :
       /\ rec' = [rec EXCEPT ![p.job] = r]
       /\ r.status \notin {"new", "queued"}
       /\ q.pc # "idle" => q.copy = r /\ p.pc # "postguard"
       /\ \/ r.cleanup = p.copy.cleanup
          \/ p.pc # "postguard" /\ (r.cleanup = "entered" \/ q.pc = "postguard")

\* The process alone moves: it goes on with its job or is done with it.
CallerEffect(c) ==
  LET p == run[c]
      q == run'[c]
  IN
  /\ run' \in [Callers -> Process] /\ run' = [run EXCEPT ![c] = q]
  /\ p.pc # "idle"
  /\ q = Idle \/ (q.job = p.job /\ q.pc # "idle")
  /\ SaveEffect(p, q)
  /\ InstEffect
  /\ rec' \in [Jobs -> Record]
  /\ wal' \in [Jobs -> {"none", "submitted", "final"}]
  /\ faults' \in 0..MaxFaults
  /\ UNCHANGED <<reaper, retries>>
  /\ ProcessInv(c)' /\ MadeInv(c)'

\* It is enough to know the process's next memory and what becomes of its record.
LEMMA EffectFrom ==
  ASSUME LeaseTypeOK, NEW c \in Callers, NEW q \in Process, Becomes(c, q),
         run[c].pc # "idle", q = Idle \/ (q.job = run[c].job /\ q.pc # "idle"),
         SaveEffect(run[c], q), InstEffect,
         wal' \in [Jobs -> {"none", "submitted", "final"}],
         faults' \in 0..MaxFaults, UNCHANGED <<reaper, retries>>,
         ProcessInv(c)', MadeInv(c)'
  PROVE  CallerEffect(c)
<1>1. run' \in [Callers -> Process] /\ run' = [run EXCEPT ![c] = q] /\ run'[c] = q
  BY BecomesType
<1>2. rec' \in [Jobs -> Record]
  BY DEF SaveEffect, LeaseTypeOK
<1>. QED BY <1>1, <1>2 DEF CallerEffect

LEMMA InstSame ==
  ASSUME LeaseTypeOK, UNCHANGED inst
  PROVE  InstEffect
BY DEF InstEffect, LeaseTypeOK, Live

LEMMA InstWithout ==
  ASSUME LeaseTypeOK, NEW i \in Ids, inst' = Without(i)
  PROVE  InstEffect /\ ~Live(i)'
BY DEF InstEffect, LeaseTypeOK, Live, Without, Instance

LEMMA InstNew ==
  ASSUME LeaseTypeOK, NEW i \in Ids, NEW x \in Instance, x.state # "unused",
         inst[i].state = "unused", inst' = [inst EXCEPT ![i] = x]
  PROVE  InstEffect
BY DEF InstEffect, LeaseTypeOK, Live, Instance

\* What the others created, and what this one has, is not touched by what others do.
LEMMA MadeStable ==
  ASSUME LeaseTypeOK, NEW c \in Callers, MadeInv(c), InstEffect, run'[c] = run[c]
  PROVE  MadeInv(c)'
<1>1. run[c].made \subseteq Ids
  BY DEF LeaseTypeOK, Process
<1>2. \A i \in run[c].made : i \in Alive' => i \in Alive
  BY <1>1 DEF MadeInv, InstEffect, Alive
<1>. QED BY <1>1, <1>2 DEF MadeInv, InstEffect

\* A step before the cleanup that creates nothing: what the process made is as before.
LEMMA MadeKept ==
  ASSUME LeaseTypeOK, NEW c \in Callers, MadeInv(c), InstEffect,
         run'[c].made = run[c].made, run'[c].job = run[c].job, ~run'[c].swept
  PROVE  MadeInv(c)'
<1>1. run[c].made \subseteq Ids
  BY DEF LeaseTypeOK, Process
<1>. QED BY <1>1 DEF MadeInv, InstEffect

\* A step that saves nothing and leaves the account alone
LEMMA EffectOfMove ==
  ASSUME LeaseTypeOK, NEW c \in Callers, ProcessInv(c), MadeInv(c),
         NEW q \in Process, Becomes(c, q),
         UNCHANGED <<rec, wal, reaper, retries>>, faults' \in 0..MaxFaults, InstEffect,
         q.job = run[c].job, q.made = run[c].made, ~q.swept,
         q.copy.cleanup = run[c].copy.cleanup, q.copy.status = run[c].copy.status,
         run[c].pc \notin {"idle", "guard", "postguard"},
         q.pc \notin {"idle", "guard", "postguard"},
         q.pc # "cleanup" => q.tried < MaxStartups
  PROVE  CallerEffect(c)
<1>1. run'[c] = q
  BY BecomesType
<1>2. MadeInv(c)'
  BY <1>1, MadeKept
<1>3. ProcessInv(c)'
  BY <1>1 DEF ProcessInv
<1>. QED BY <1>2, <1>3, EffectFrom DEF SaveEffect, LeaseTypeOK

\* A step that saves the copy and leaves the account alone
LEMMA EffectOfSave ==
  ASSUME LeaseTypeOK, NEW c \in Callers, ProcessInv(c), MadeInv(c),
         NEW r \in Record, NEW p \in Process, SaveAndBecome(c, r, p),
         UNCHANGED <<wal, reaper, retries>>, faults' \in 0..MaxFaults, InstEffect,
         p.job = run[c].job,
         MadeInv(c)',
         r.status \notin {"new", "queued"}, p.pc \notin {"idle", "guard"},
         p.swept => p.pc \in {"destroy", "postguard"},
         p.pc = "postguard" => r.status # "succeeded" \/ ~r.error,
         run[c].pc \notin {"idle", "postguard"},
         p.pc # "postguard" => r.cleanup = run[c].copy.cleanup \/ r.cleanup = "entered",
         p.pc # "cleanup" => p.tried < MaxStartups
  PROVE  CallerEffect(c)
<1>. DEFINE q == [p EXCEPT !.copy = r]
<1>1. /\ q \in Process /\ run'[c] = q /\ Save(c, r) /\ Becomes(c, q)
      /\ rec' \in [Jobs -> Record]
  BY SaveAndBecomeType DEF Becomes
<1>2. /\ q.pc = p.pc /\ q.job = p.job /\ q.tried = p.tried /\ q.swept = p.swept /\ q.copy = r
  BY DEF Process
<1>. HIDE DEF q
<1>3. ProcessInv(c)'
  BY <1>1, <1>2 DEF ProcessInv
<1>4. SaveEffect(run[c], q)
  BY <1>1, <1>2 DEF SaveEffect, Save
<1>. QED BY <1>1, <1>2, <1>3, <1>4, EffectFrom DEF LeaseTypeOK

\* submit_job around the provider
LEMMA RunnerEffect ==
  ASSUME LeaseTypeOK, NEW c \in Callers, ProcessInv(c), MadeInv(c), NEW b \in BOOLEAN,
         NEW e \in BOOLEAN,
         GuardRefuses(c, b) \/ GuardPasses(c, b) \/ PostGuard(c, b, e)
  PROVE  CallerEffect(c)
<1>. USE DEF Holds
<1>1. run[c] \in Process /\ run[c].copy \in Record
  BY DEF LeaseTypeOK, Process
<1>i. ASSUME Becomes(c, Idle) PROVE run'[c] = Idle /\ ProcessInv(c)' /\ MadeInv(c)'
  BY <1>i, IdleType, BecomesType, ConstantFacts DEF ProcessInv, MadeInv, Idle
<1>d. Idle.pc = "idle"
  BY DEF Idle
<1>2. CASE GuardRefuses(c, b)
  <2>1. Failed(run[c].copy) \in Record /\ Failed(run[c].copy).status = "failed"
        /\ Failed(run[c].copy).cleanup = run[c].copy.cleanup
    BY <1>1, FailedType
  <2>2. SaveEffect(run[c], Idle)
    BY <1>2, <1>d, <2>1 DEF GuardRefuses, SaveEffect, Save
  <2>3. /\ run[c].pc # "idle" /\ Becomes(c, Idle) /\ InstEffect /\ UNCHANGED <<reaper, retries>>
        /\ wal' \in [Jobs -> {"none", "submitted", "final"}] /\ faults' \in 0..MaxFaults
    BY <1>2, InstSame, CountedType DEF GuardRefuses, Steps, LeaseTypeOK
  <2>4. ProcessInv(c)' /\ MadeInv(c)'
    BY <1>i, <2>3
  <2>. QED BY <2>2, <2>3, <2>4, IdleType, EffectFrom
<1>3. CASE GuardPasses(c, b)
  <2>. DEFINE r == [run[c].copy EXCEPT !.status = "starting"]
              q == [run[c] EXCEPT !.pc = "submit", !.copy = r]
  <2>1. r \in Record /\ r.status = "starting" /\ r.cleanup = run[c].copy.cleanup
    BY <1>1 DEF Record
  <2>. HIDE DEF r
  <2>2. q \in Process
    BY <1>1, <2>1 DEF Process, Phases
  <2>3. q.job = run[c].job /\ q.pc = "submit" /\ q.copy = r /\ q.made = run[c].made
        /\ q.tried = run[c].tried /\ q.swept = run[c].swept
    BY <1>1 DEF Process
  <2>. HIDE DEF q
  <2>4. run'[c] = q /\ Becomes(c, q)
    BY <1>3, <2>2, BecomesType DEF GuardPasses, r, q
  <2>5. SaveEffect(run[c], q)
    BY <1>3, <2>1, <2>3 DEF GuardPasses, SaveEffect, r, q
  <2>6. ProcessInv(c)' /\ InstEffect /\ MadeInv(c)'
    BY <1>3, <2>1, <2>3, <2>4, InstSame, MadeKept DEF GuardPasses, ProcessInv
  <2>7. faults' \in 0..MaxFaults /\ UNCHANGED <<reaper, retries>>
        /\ wal' \in [Jobs -> {"none", "submitted", "final"}]
    BY <1>3, CountedType DEF GuardPasses, Steps, LeaseTypeOK
  <2>8. run[c].pc # "idle"
    BY <1>3 DEF GuardPasses
  <2>. QED BY <2>2, <2>3, <2>4, <2>5, <2>6, <2>7, <2>8, EffectFrom
<1>4. CASE PostGuard(c, b, e)
  <2>. DEFINE old == run[c].copy
              r == IF GuardBlocks(b, e) /\ ~old.error THEN Failed(old) ELSE old
  <2>1. r \in Record /\ r.status \notin {"new", "queued"} /\ r.cleanup = run[c].copy.cleanup
    BY <1>1, <1>4, FailedType DEF ProcessInv, PostGuard
  <2>2. SaveEffect(run[c], Idle)
    <3>1. rec' = [rec EXCEPT ![run[c].job] = r]
      BY <1>4 DEF PostGuard, Save
    <3>2. r \in Record /\ r.status \notin {"new", "queued"} /\ r.cleanup = run[c].copy.cleanup
      BY <2>1
    <3>. HIDE DEF r, old
    <3>. QED BY <1>d, <3>1, <3>2 DEF SaveEffect
  <2>7. faults' \in 0..MaxFaults /\ UNCHANGED <<reaper, retries>>
        /\ wal' \in [Jobs -> {"none", "submitted", "final"}]
    BY <1>4, CountedType DEF PostGuard, Steps, LeaseTypeOK
  <2>8. run[c].pc # "idle" /\ Becomes(c, Idle) /\ InstEffect
    BY <1>4, InstSame DEF PostGuard
  <2>9. ProcessInv(c)' /\ MadeInv(c)'
    BY <1>i, <2>8
  <2>. QED BY <2>2, <2>7, <2>8, <2>9, IdleType, EffectFrom
<1>. QED BY <1>2, <1>3, <1>4

\* An exception is kept as the error of the copy, and leads into the cleanup.
LEMMA RaiseEffect ==
  ASSUME LeaseTypeOK, NEW c \in Callers, ProcessInv(c), MadeInv(c), Raise(c),
         run[c].pc \notin {"idle", "guard", "postguard"}, ~run[c].swept
  PROVE  CallerEffect(c)
<1>1. run[c] \in Process /\ run[c].copy \in Record
  BY DEF LeaseTypeOK, Process
<1>. DEFINE r == [run[c].copy EXCEPT !.error = TRUE]
            p == [run[c] EXCEPT !.pc = "cleanup", !.before = {}]
<1>2. r \in Record /\ r.status = run[c].copy.status /\ r.cleanup = run[c].copy.cleanup
  BY <1>1 DEF Record
<1>3. p \in Process /\ p.job = run[c].job /\ p.pc = "cleanup" /\ p.made = run[c].made
      /\ p.swept = run[c].swept
  BY <1>1 DEF Process, Phases
<1>4. SaveAndBecome(c, r, p) /\ UNCHANGED <<wal, reaper, retries>> /\ faults' \in 0..MaxFaults
      /\ InstEffect
  BY InstSame DEF Raise, Settled, LeaseTypeOK
<1>. HIDE DEF r, p
<1>5. run'[c] = [p EXCEPT !.copy = r]
  BY <1>2, <1>3, <1>4, SaveAndBecomeType
<1>6. run'[c].job = run[c].job /\ run'[c].made = run[c].made /\ ~run'[c].swept
  BY <1>3, <1>5 DEF Process
<1>7. MadeInv(c)'
  BY <1>4, <1>6, MadeKept
<1>8. r.status \notin {"new", "queued"}
  BY <1>2 DEF ProcessInv
<1>. QED BY <1>2, <1>3, <1>4, <1>7, <1>8, EffectOfSave

\* A failed startup is undone, or raised, with what the process has come to know.
LEMMA FailureEffect ==
  ASSUME LeaseTypeOK, NEW c \in Callers, ProcessInv(c), MadeInv(c), NEW p \in Process,
         FailsKnowing(c, p), UNCHANGED <<wal, reaper, retries>>, faults' \in 0..MaxFaults,
         InstEffect, p.job = run[c].job, p.copy = run[c].copy, p.tried = run[c].tried, ~p.swept,
         run[c].pc \notin {"idle", "guard", "postguard", "cleanup"},
         run'[c].job = run[c].job /\ run'[c].made = p.made /\ ~run'[c].swept => MadeInv(c)'
  PROVE  CallerEffect(c)
<1>1. p.copy \in Record /\ p.tried < MaxStartups
  BY DEF ProcessInv, Process
<1>2. CASE p.job \in Staged
  <2>. DEFINE q == [p EXCEPT !.pc = "undo", !.todo = @ \cup p.batch, !.before = {}]
  <2>1. /\ q \in Process /\ q.job = run[c].job /\ q.pc = "undo" /\ q.made = p.made
        /\ ~q.swept /\ q.copy = run[c].copy /\ q.tried = run[c].tried
    BY DEF Process, Phases
  <2>2. Becomes(c, q) /\ UNCHANGED rec
    BY <1>2 DEF FailsKnowing
  <2>. HIDE DEF q
  <2>3. run'[c] = q
    BY <2>1, <2>2, BecomesType
  <2>4. ProcessInv(c)' /\ SaveEffect(run[c], q)
    BY <1>1, <2>1, <2>2, <2>3 DEF ProcessInv, SaveEffect
  <2>5. MadeInv(c)'
    BY <2>1, <2>3
  <2>. QED BY <2>1, <2>2, <2>4, <2>5, EffectFrom DEF LeaseTypeOK
<1>3. CASE p.job \notin Staged
  <2>. DEFINE r == [p.copy EXCEPT !.error = TRUE]
              q == [p EXCEPT !.pc = "cleanup", !.before = {}]
  <2>1. r \in Record /\ r.status = run[c].copy.status /\ r.cleanup = run[c].copy.cleanup
    BY <1>1 DEF Record
  <2>2. q \in Process /\ q.job = run[c].job /\ q.pc = "cleanup" /\ q.made = p.made /\ ~q.swept
    BY DEF Process, Phases
  <2>3. SaveAndBecome(c, r, q)
    BY <1>3 DEF FailsKnowing
  <2>. HIDE DEF r, q
  <2>4. run'[c] = [q EXCEPT !.copy = r]
    BY <2>1, <2>2, <2>3, SaveAndBecomeType
  <2>5. run'[c].job = run[c].job /\ run'[c].made = p.made /\ ~run'[c].swept
    BY <2>2, <2>4 DEF Process
  <2>6. MadeInv(c)' /\ r.status \notin {"new", "queued"}
    BY <2>1, <2>5 DEF ProcessInv
  <2>. QED BY <2>1, <2>2, <2>3, <2>6, EffectOfSave
<1>. QED BY <1>2, <1>3

LEMMA StartupFailsEffect ==
  ASSUME LeaseTypeOK, NEW c \in Callers, ProcessInv(c), MadeInv(c), StartupFails(c),
         run[c].pc \notin {"idle", "guard", "postguard", "cleanup"}, ~run[c].swept
  PROVE  CallerEffect(c)
<1>1. run[c] \in Process
  BY DEF LeaseTypeOK
<1>2. FailsKnowing(c, run[c]) /\ UNCHANGED <<wal, reaper, retries>> /\ faults' \in 0..MaxFaults
      /\ InstEffect
  BY InstSame DEF StartupFails, Settled, LeaseTypeOK
<1>3. ASSUME run'[c].job = run[c].job, run'[c].made = run[c].made, ~run'[c].swept
      PROVE  MadeInv(c)'
  BY <1>2, <1>3, MadeKept
<1>. QED BY <1>1, <1>2, <1>3, FailureEffect

\* A listing that raises, after another that may have shown something
LEMMA DetectRaisesEffect ==
  ASSUME LeaseTypeOK, NEW c \in Callers, ProcessInv(c), MadeInv(c),
         NEW b \in BOOLEAN, DetectRaises(c, b)
  PROVE  CallerEffect(c)
<1>. DEFINE seen == Labelled(run[c].job, b)
            known == IF run[c].job \in Staged THEN run[c].found ELSE run[c].found \cup seen
            p == [run[c] EXCEPT !.batch = @ \cup seen, !.found = known]
<1>1. run[c] \in Process /\ run[c].pc = "detect" /\ ~run[c].swept
  BY DEF LeaseTypeOK, DetectRaises, Holds, ProcessInv
<1>2. seen \subseteq Ids
  BY AliveIds DEF Labelled
<1>3. known \subseteq Ids
  BY <1>1, <1>2 DEF Process
<1>4. FailsKnowing(c, p) /\ UNCHANGED <<wal, reaper, retries>> /\ faults' \in 0..MaxFaults
      /\ InstEffect
  BY <1>1, InstSame, CountedType DEF DetectRaises, Steps, Process
<1>. HIDE DEF seen, known
<1>5. /\ p \in Process /\ p.job = run[c].job /\ p.copy = run[c].copy /\ p.made = run[c].made
      /\ p.tried = run[c].tried /\ ~p.swept
  BY <1>1, <1>2, <1>3 DEF Process
<1>. HIDE DEF p
<1>6. ASSUME run'[c].job = run[c].job, run'[c].made = p.made, ~run'[c].swept
      PROVE  MadeInv(c)'
  BY <1>4, <1>5, <1>6, MadeKept
<1>. QED BY <1>1, <1>4, <1>5, <1>6, FailureEffect

\* A destroy of one of several instances
LEMMA DestroyEffect ==
  ASSUME LeaseTypeOK, NEW c \in Callers, ProcessInv(c), MadeInv(c),
         NEW e \in BOOLEAN, NEW k \in BOOLEAN, DestroyNext(c, e, k),
         Holds(c, "undo") \/ Holds(c, "destroy")
  PROVE  CallerEffect(c)
<1>1. run[c] \in Process /\ run[c].made \subseteq Ids /\ run[c].todo \subseteq Ids
  BY DEF LeaseTypeOK, Process
<1>2. PICK i \in Ids : i = First(run[c].todo) /\ i \in run[c].todo
  BY <1>1, FirstIn DEF DestroyNext
<1>. DEFINE q == [run[c] EXCEPT !.todo = @ \ {i}, !.tidy = @ /\ (k \/ Holds(c, "undo"))]
<1>3. InstEffect /\ (e => ~Live(i)')
  <2>1. CASE e
    BY <1>2, <2>1, InstWithout DEF DestroyNext
  <2>2. CASE ~e
    BY <2>2, InstSame DEF DestroyNext
  <2>. QED BY <2>1, <2>2
<1>4. q \in Process
  BY <1>1 DEF Process, Phases
<1>5. /\ q.job = run[c].job /\ q.pc = run[c].pc /\ q.made = run[c].made
      /\ q.swept = run[c].swept /\ q.copy = run[c].copy /\ q.tried = run[c].tried
      /\ q.todo = run[c].todo \ {i} /\ q.tidy = (run[c].tidy /\ (k \/ Holds(c, "undo")))
  BY <1>1 DEF Process
<1>6. Becomes(c, q) /\ UNCHANGED <<rec, wal, reaper, retries>> /\ faults' \in 0..MaxFaults
  BY <1>2, CountedType DEF DestroyNext, Steps
<1>. HIDE DEF q
<1>7. run'[c] = q
  BY <1>4, <1>6, BecomesType
<1>8. ProcessInv(c)'
  BY <1>5, <1>7 DEF ProcessInv, Holds
<1>9. MadeInv(c)'
  <2>1. \A m \in run[c].made : inst'[m].state # "unused" /\ (Live(m)' => inst'[m].label = run[c].job)
    BY <1>1, <1>3 DEF MadeInv, InstEffect
  <2>2. ASSUME q.swept, q.tidy, NEW m \in run[c].made, m \in Alive' PROVE m \in q.todo
    <3>1. Holds(c, "destroy") /\ k
      BY <1>5, <2>2 DEF ProcessInv, Holds
    <3>2. e
      BY <3>1 DEF DestroyNext
    <3>3. Live(m) /\ Live(m)' /\ m \in Alive
      BY <1>1, <1>3, <2>2 DEF MadeInv, InstEffect, Alive
    <3>4. m # i
      BY <1>3, <3>2, <3>3 DEF Live
    <3>5. m \in run[c].todo
      BY <1>5, <2>2, <3>3 DEF MadeInv
    <3>. QED BY <1>5, <3>4, <3>5
  <2>3. q.pc # "postguard"
    BY <1>5 DEF Holds
  <2>. QED BY <1>5, <1>7, <2>1, <2>2, <2>3 DEF MadeInv
<1>10. SaveEffect(run[c], q) /\ run[c].pc # "idle" /\ q.pc # "idle"
  BY <1>5, <1>6 DEF SaveEffect, Holds
<1>. QED BY <1>3, <1>4, <1>5, <1>6, <1>8, <1>9, <1>10, EffectFrom DEF LeaseTypeOK

\* A startup: the offer, the create, what is found, the boot
LEMMA StartupEffect ==
  ASSUME LeaseTypeOK, NEW c \in Callers, ProcessInv(c), MadeInv(c),
         NEW b \in BOOLEAN, NEW e \in BOOLEAN,
         \/ Refuse(c) \/ Begin(c) \/ NoOffer(c) \/ ListBefore(c, b) \/ CreateRefused(c)
         \/ Detect(c, b, e) \/ DetectRaises(c, b) \/ NotDetected(c) \/ BootFails(c) \/ Boot(c)
  PROVE  CallerEffect(c)
<1>. USE DEF Holds
<1>0. 0 \in 0..MaxStartups
  BY ConstantFacts
<1>1. run[c] \in Process /\ run[c].copy \in Record
  BY DEF LeaseTypeOK, Process
<1>s. ASSUME NEW r \in Record, NEW p \in Process, SaveAndBecome(c, r, p),
             p.job = run[c].job, p.made = run[c].made, p.swept = run[c].swept, ~run[c].swept
      PROVE  run'[c].made = run[c].made /\ run'[c].job = run[c].job /\ ~run'[c].swept
  <2>1. run'[c] = [p EXCEPT !.copy = r]
    BY <1>s, SaveAndBecomeType
  <2>. QED BY <1>s, <2>1 DEF Process
<1>2. CASE Refuse(c)
  <2>. DEFINE r == Failed([run[c].copy EXCEPT !.pid = NoId])
              p == [run[c] EXCEPT !.pc = "postguard"]
  <2>1. r \in Record /\ r.status = "failed" /\ r.cleanup = run[c].copy.cleanup
    BY <1>1 DEF Record, Failed, NoId
  <2>2. p \in Process /\ p.job = run[c].job /\ p.pc = "postguard" /\ p.made = run[c].made
        /\ p.swept = run[c].swept /\ p.tried = run[c].tried
    BY <1>1 DEF Process, Phases
  <2>3. SaveAndBecome(c, r, p) /\ UNCHANGED <<wal, reaper, retries>> /\ faults' \in 0..MaxFaults
        /\ InstEffect /\ run[c].pc = "submit"
    BY <1>2, InstSame DEF Refuse, Settled, LeaseTypeOK
  <2>. HIDE DEF r, p
  <2>4. ~run[c].swept /\ p.tried < MaxStartups
    BY <2>2, <2>3 DEF ProcessInv
  <2>5. MadeInv(c)'
    BY <1>s, <2>1, <2>2, <2>3, <2>4, MadeKept
  <2>. QED BY <2>1, <2>2, <2>3, <2>4, <2>5, EffectOfSave
<1>3. CASE Begin(c)
  <2>. DEFINE r == [run[c].copy EXCEPT !.pid = NoId, !.status = "starting"]
              p == [run[c] EXCEPT !.pc = "reserve"]
  <2>1. r \in Record /\ r.status = "starting" /\ r.cleanup = run[c].copy.cleanup
    BY <1>1 DEF Record, NoId
  <2>2. p \in Process /\ p.job = run[c].job /\ p.pc = "reserve" /\ p.made = run[c].made
        /\ p.swept = run[c].swept /\ p.tried = run[c].tried
    BY <1>1 DEF Process, Phases
  <2>3. SaveAndBecome(c, r, p) /\ UNCHANGED <<wal, reaper, retries>> /\ faults' \in 0..MaxFaults
        /\ InstEffect /\ run[c].pc = "submit"
    BY <1>3, InstSame DEF Begin, Settled, LeaseTypeOK
  <2>. HIDE DEF r, p
  <2>4. ~run[c].swept /\ p.tried < MaxStartups
    BY <2>2, <2>3 DEF ProcessInv
  <2>5. MadeInv(c)'
    BY <1>s, <2>1, <2>2, <2>3, <2>4, MadeKept
  <2>. QED BY <2>1, <2>2, <2>3, <2>4, <2>5, EffectOfSave
<1>4. CASE NoOffer(c)
  BY <1>4, RaiseEffect DEF NoOffer, ProcessInv
<1>5. CASE ListBefore(c, b)
  <2>. DEFINE q == [run[c] EXCEPT !.pc = "create", !.before = Listed(b), !.batch = {}]
  <2>1. /\ q \in Process /\ q.job = run[c].job /\ q.pc = "create" /\ q.made = run[c].made
        /\ q.swept = run[c].swept /\ q.copy = run[c].copy /\ q.tried = run[c].tried
    BY <1>1, AliveIds DEF Process, Phases
  <2>2. Becomes(c, q) /\ UNCHANGED <<rec, wal, reaper, retries>> /\ faults' \in 0..MaxFaults
        /\ InstEffect /\ run[c].pc = "reserve"
    BY <1>5, InstSame, CountedType DEF ListBefore, Steps
  <2>. HIDE DEF q
  <2>3. ~run[c].swept /\ q.tried < MaxStartups
    BY <2>1, <2>2 DEF ProcessInv
  <2>. QED BY <2>1, <2>2, <2>3, EffectOfMove
<1>6. CASE CreateRefused(c)
  BY <1>6, StartupFailsEffect DEF CreateRefused, ProcessInv
<1>7. CASE Detect(c, b, e)
  <2>. DEFINE batch == run[c].batch \cup Labelled(run[c].job, b) \cup (Listed(e) \ run[c].before)
              r == [run[c].copy EXCEPT !.pid = First(batch)]
              p == [run[c] EXCEPT !.pc = "boot", !.batch = batch, !.before = {},
                                  !.found = @ \cup batch]
  <2>1. batch \subseteq Ids /\ batch # {}
    BY <1>1, <1>7, AliveIds DEF Detect, Labelled, Process
  <2>2. SaveAndBecome(c, r, p) /\ UNCHANGED <<wal, reaper, retries>> /\ faults' \in 0..MaxFaults
        /\ InstEffect /\ run[c].pc = "detect"
    BY <1>7, InstSame, CountedType DEF Detect, Steps
  <2>. HIDE DEF batch
  <2>3. First(batch) \in Ids
    BY <2>1, FirstIn
  <2>4. r \in Record /\ r.status = run[c].copy.status /\ r.cleanup = run[c].copy.cleanup
    BY <1>1, <2>3 DEF Record
  <2>5. p \in Process /\ p.job = run[c].job /\ p.pc = "boot" /\ p.made = run[c].made
        /\ p.swept = run[c].swept /\ p.tried = run[c].tried
    BY <1>1, <2>1 DEF Process, Phases
  <2>. HIDE DEF r, p
  <2>6. ~run[c].swept /\ p.tried < MaxStartups /\ r.status \notin {"new", "queued"}
    BY <2>2, <2>4, <2>5 DEF ProcessInv
  <2>7. MadeInv(c)'
    BY <1>s, <2>2, <2>4, <2>5, <2>6, MadeKept
  <2>. QED BY <2>2, <2>4, <2>5, <2>6, <2>7, EffectOfSave
<1>8. CASE NotDetected(c)
  BY <1>8, StartupFailsEffect DEF NotDetected, ProcessInv
<1>9. CASE BootFails(c)
  BY <1>9, StartupFailsEffect DEF BootFails, ProcessInv
<1>10. CASE Boot(c)
  <2>. DEFINE r == [run[c].copy EXCEPT !.status = "running"]
              p == [run[c] EXCEPT !.pc = "work", !.batch = {}, !.tried = 0]
  <2>1. r \in Record /\ r.status = "running" /\ r.cleanup = run[c].copy.cleanup
    BY <1>1 DEF Record
  <2>2. p \in Process /\ p.job = run[c].job /\ p.pc = "work" /\ p.made = run[c].made
        /\ p.swept = run[c].swept /\ p.tried = 0
    BY <1>1, <1>0 DEF Process, Phases
  <2>3. SaveAndBecome(c, r, p) /\ UNCHANGED <<wal, reaper, retries>> /\ faults' \in 0..MaxFaults
        /\ InstEffect /\ run[c].pc = "boot"
    BY <1>10, InstSame DEF Boot, Settled, LeaseTypeOK
  <2>. HIDE DEF r, p
  <2>4. ~run[c].swept /\ p.tried < MaxStartups
    BY <2>2, <2>3, ConstantFacts DEF ProcessInv
  <2>5. MadeInv(c)'
    BY <1>s, <2>1, <2>2, <2>3, <2>4, MadeKept
  <2>. QED BY <2>1, <2>2, <2>3, <2>4, <2>5, EffectOfSave
<1>11. CASE DetectRaises(c, b)
  BY <1>11, DetectRaisesEffect
<1>. QED BY <1>2, <1>3, <1>4, <1>5, <1>6, <1>7, <1>8, <1>9, <1>10, <1>11

\* A create: the instance is new, it carries the label, and the process has made it.
LEMMA CreateEffect ==
  ASSUME LeaseTypeOK, NEW c \in Callers, ProcessInv(c), MadeInv(c),
         NEW i \in Ids, NEW b \in BOOLEAN, Create(c, i, b) \/ CreateLost(c, i)
  PROVE  CallerEffect(c)
<1>. USE DEF Holds
<1>1. run[c] \in Process /\ run[c].copy \in Record /\ run[c].made \subseteq Ids
  BY DEF LeaseTypeOK, Process
<1>2. /\ run[c].pc = "create" /\ ~run[c].swept /\ run[c].tried < MaxStartups
      /\ run[c].copy.status \notin {"new", "queued"}
  BY DEF Create, CreateLost, ProcessInv
<1>. DEFINE x == [state |-> "provisioning", label |-> run[c].job]
<1>3. x \in Instance /\ x.state = "provisioning" /\ x.label = run[c].job
  BY <1>1 DEF Instance, Process
<1>4. /\ inst[i].state = "unused" /\ inst' = [inst EXCEPT ![i] = x]
      /\ UNCHANGED <<wal, reaper, retries>> /\ faults' \in 0..MaxFaults
  BY CountedType DEF Create, CreateLost, NextId, Steps
<1>. HIDE DEF x
<1>5. InstEffect
  BY <1>3, <1>4, InstNew
<1>m. ASSUME run'[c].job = run[c].job, run'[c].made = run[c].made \cup {i}, ~run'[c].swept
      PROVE  MadeInv(c)'
  <2>1. inst'[i].state # "unused" /\ inst'[i].label = run[c].job
    BY <1>3, <1>4 DEF LeaseTypeOK
  <2>2. \A m \in run[c].made : inst'[m].state # "unused" /\ (Live(m)' => inst'[m].label = run[c].job)
    BY <1>1, <1>5 DEF MadeInv, InstEffect
  <2>. QED BY <1>m, <2>1, <2>2 DEF MadeInv
<1>6. CASE Create(c, i, b)
  <2>. DEFINE known == IF b THEN {i} ELSE {}
              q == [run[c] EXCEPT !.pc = "detect", !.batch = known,
                                  !.found = @ \cup known, !.made = @ \cup {i}]
  <2>0. known \subseteq Ids
    OBVIOUS
  <2>1. Becomes(c, q) /\ UNCHANGED rec
    BY <1>6 DEF Create
  <2>. HIDE DEF known
  <2>2. /\ q \in Process /\ q.job = run[c].job /\ q.pc = "detect" /\ q.made = run[c].made \cup {i}
        /\ q.swept = run[c].swept /\ q.copy = run[c].copy /\ q.tried = run[c].tried
    BY <1>1, <2>0 DEF Process, Phases
  <2>. HIDE DEF q
  <2>3. run'[c] = q
    BY <2>1, <2>2, BecomesType
  <2>4. ProcessInv(c)' /\ SaveEffect(run[c], q)
    BY <1>2, <2>1, <2>2, <2>3 DEF ProcessInv, SaveEffect
  <2>5. MadeInv(c)'
    BY <1>2, <1>m, <2>2, <2>3
  <2>. QED BY <1>2, <1>4, <1>5, <2>1, <2>2, <2>4, <2>5, EffectFrom DEF LeaseTypeOK
<1>7. CASE CreateLost(c, i)
  <2>. DEFINE p == [run[c] EXCEPT !.made = @ \cup {i}]
  <2>1. /\ p \in Process /\ p.job = run[c].job /\ p.copy = run[c].copy
        /\ p.made = run[c].made \cup {i} /\ p.tried = run[c].tried /\ p.swept = run[c].swept
    BY <1>1 DEF Process
  <2>2. FailsKnowing(c, p)
    BY <1>7 DEF CreateLost
  <2>. HIDE DEF p
  <2>3. ASSUME run'[c].job = run[c].job, run'[c].made = p.made, ~run'[c].swept
        PROVE  MadeInv(c)'
    BY <1>m, <2>1, <2>3
  <2>. QED BY <1>2, <1>4, <1>5, <2>1, <2>2, <2>3, FailureEffect
<1>. QED BY <1>6, <1>7

\* The work, the undo and the cleanup
LEMMA CleanupEffect ==
  ASSUME LeaseTypeOK, NEW c \in Callers, ProcessInv(c), MadeInv(c),
         NEW b \in BOOLEAN, NEW e \in BOOLEAN,
         \/ WorkDone(c) \/ WorkFails(c) \/ UndoStartup(c, b) \/ NextStartup(c)
         \/ EnterCleanup(c) \/ Sweep(c, b) \/ SweepRaises(c) \/ CleanupDestroy(c, b, e)
         \/ Finish(c, b)
  PROVE  CallerEffect(c)
<1>. USE DEF Holds
<1>0. 0 \in 0..MaxStartups /\ 0 < MaxStartups
  BY ConstantFacts
<1>1. run[c] \in Process /\ run[c].copy \in Record /\ run[c].made \subseteq Ids
  BY DEF LeaseTypeOK, Process
<1>2. CASE WorkDone(c)
  <2>. DEFINE q == [run[c] EXCEPT !.pc = "cleanup"]
  <2>1. /\ q \in Process /\ q.job = run[c].job /\ q.pc = "cleanup" /\ q.made = run[c].made
        /\ q.swept = run[c].swept /\ q.copy = run[c].copy
    BY <1>1 DEF Process, Phases
  <2>2. Becomes(c, q) /\ UNCHANGED <<rec, wal, reaper, retries>> /\ faults' \in 0..MaxFaults
        /\ InstEffect /\ run[c].pc = "work"
    BY <1>2, InstSame DEF WorkDone, Settled, LeaseTypeOK
  <2>. HIDE DEF q
  <2>3. ~run[c].swept
    BY <2>2 DEF ProcessInv
  <2>. QED BY <2>1, <2>2, <2>3, EffectOfMove
<1>3. CASE WorkFails(c)
  BY <1>3, RaiseEffect DEF WorkFails, ProcessInv
<1>4. CASE UndoStartup(c, b)
  BY <1>4, DestroyEffect DEF UndoStartup
<1>5. CASE NextStartup(c)
  <2>. DEFINE p == [run[c] EXCEPT !.tried = @ + 1, !.batch = {}]
              q == IF p.tried < MaxStartups
                   THEN [p EXCEPT !.pc = "reserve"]
                   ELSE [p EXCEPT !.pc = "cleanup", !.copy.error = TRUE]
  <2>1. run[c].tried + 1 \in 0..MaxStartups /\ ~run[c].swept /\ run[c].pc = "undo"
    BY <1>1, <1>5, ConstantFacts DEF NextStartup, ProcessInv, Process
  <2>2. Becomes(c, q) /\ UNCHANGED <<rec, wal, reaper, retries>> /\ faults' \in 0..MaxFaults
        /\ InstEffect
    BY <1>5, InstSame DEF NextStartup, Settled, LeaseTypeOK
  <2>3. /\ p \in Process /\ p.job = run[c].job /\ p.made = run[c].made
        /\ p.swept = run[c].swept /\ p.copy = run[c].copy
    BY <1>1, <2>1 DEF Process
  <2>. HIDE DEF p
  <2>4. CASE p.tried < MaxStartups
    <3>1. /\ q \in Process /\ q.job = run[c].job /\ q.pc = "reserve" /\ q.made = run[c].made
          /\ q.swept = run[c].swept /\ q.copy = run[c].copy /\ q.tried = p.tried
      BY <2>3, <2>4 DEF Process, Phases
    <3>. HIDE DEF q
    <3>. QED BY <2>1, <2>2, <2>4, <3>1, EffectOfMove
  <2>5. CASE ~(p.tried < MaxStartups)
    <3>1. [p.copy EXCEPT !.error = TRUE] \in Record
      BY <1>1, <2>3 DEF Record
    <3>2. q = [p EXCEPT !.pc = "cleanup", !.copy = [p.copy EXCEPT !.error = TRUE]]
      BY <2>3, <2>5 DEF Process
    <3>3. /\ q \in Process /\ q.job = run[c].job /\ q.pc = "cleanup" /\ q.made = run[c].made
          /\ q.swept = run[c].swept /\ q.copy = [run[c].copy EXCEPT !.error = TRUE]
      BY <2>3, <3>1, <3>2 DEF Process, Phases
    <3>4. q.copy.status = run[c].copy.status /\ q.copy.cleanup = run[c].copy.cleanup
      BY <1>1, <3>3 DEF Record
    <3>. HIDE DEF q
    <3>. QED BY <2>1, <2>2, <3>3, <3>4, EffectOfMove
  <2>. QED BY <2>4, <2>5
<1>6. CASE EnterCleanup(c)
  <2>. DEFINE r == [run[c].copy EXCEPT !.cleanup = IF @ = "none" THEN "entered" ELSE @]
              p == [run[c] EXCEPT !.pc = "sweep", !.batch = {}, !.before = {}, !.tried = 0]
  <2>1. /\ r \in Record /\ r.status = run[c].copy.status
        /\ r.cleanup = run[c].copy.cleanup \/ r.cleanup = "entered"
    BY <1>1 DEF Record
  <2>2. p \in Process /\ p.job = run[c].job /\ p.pc = "sweep" /\ p.made = run[c].made
        /\ p.swept = run[c].swept /\ p.tried = 0
    BY <1>0, <1>1 DEF Process, Phases
  <2>3. SaveAndBecome(c, r, p) /\ UNCHANGED <<wal, reaper, retries>> /\ faults' \in 0..MaxFaults
        /\ InstEffect /\ run[c].pc = "cleanup"
    BY <1>6, InstSame DEF EnterCleanup, Settled, LeaseTypeOK
  <2>. HIDE DEF r, p
  <2>4. ~run[c].swept /\ r.status \notin {"new", "queued"}
    BY <2>1, <2>3 DEF ProcessInv
  <2>5. run'[c] = [p EXCEPT !.copy = r]
    BY <2>1, <2>2, <2>3, SaveAndBecomeType
  <2>6. MadeInv(c)'
    <3>1. run'[c].job = run[c].job /\ run'[c].made = run[c].made /\ ~run'[c].swept
      BY <2>2, <2>4, <2>5 DEF Process
    <3>. QED BY <2>3, <3>1, MadeKept
  <2>. QED BY <1>0, <2>1, <2>2, <2>3, <2>4, <2>6, EffectOfSave
<1>7. CASE Sweep(c, b)
  <2>. DEFINE all == run[c].found \cup Labelled(run[c].job, b)
              q == [run[c] EXCEPT !.pc = "destroy", !.found = all, !.todo = all, !.swept = b]
  <2>1. all \subseteq Ids
    BY <1>1, AliveIds DEF Labelled, Process
  <2>2. Becomes(c, q) /\ UNCHANGED <<inst, rec, wal, reaper, retries>> /\ faults' \in 0..MaxFaults
        /\ InstEffect /\ run[c].pc = "sweep"
    BY <1>7, InstSame, CountedType DEF Sweep, Steps
  <2>3. b => run[c].made \cap Alive \subseteq all
    BY DEF MadeInv, Labelled, Listed, Alive
  <2>. HIDE DEF all
  <2>4. /\ q \in Process /\ q.job = run[c].job /\ q.pc = "destroy" /\ q.made = run[c].made
        /\ q.swept = b /\ q.copy = run[c].copy /\ q.todo = all /\ q.tried = run[c].tried
    BY <1>1, <2>1 DEF Process, Phases
  <2>. HIDE DEF q
  <2>5. run'[c] = q
    BY <2>2, <2>4, BecomesType
  <2>6. ProcessInv(c)' /\ SaveEffect(run[c], q)
    BY <2>2, <2>4, <2>5 DEF ProcessInv, SaveEffect
  <2>7. MadeInv(c)'
    BY <1>1, <2>2, <2>3, <2>4, <2>5 DEF MadeInv, Alive, Live
  <2>. QED BY <2>2, <2>4, <2>6, <2>7, EffectFrom DEF LeaseTypeOK
<1>8. CASE SweepRaises(c)
  <2>. DEFINE r == Failed(run[c].copy)
              p == [run[c] EXCEPT !.pc = "postguard", !.found = {}]
  <2>1. r \in Record /\ r.status = "failed" /\ r.cleanup = run[c].copy.cleanup
    BY <1>1, FailedType
  <2>2. p \in Process /\ p.job = run[c].job /\ p.pc = "postguard" /\ p.made = run[c].made
        /\ p.swept = run[c].swept /\ p.tried = run[c].tried
    BY <1>1 DEF Process, Phases
  <2>3. SaveAndBecome(c, r, p) /\ UNCHANGED <<wal, reaper, retries>> /\ faults' \in 0..MaxFaults
        /\ InstEffect /\ run[c].pc = "sweep"
    BY <1>8, InstSame, CountedType DEF SweepRaises, Steps
  <2>. HIDE DEF r, p
  <2>4. ~run[c].swept /\ p.tried < MaxStartups
    BY <2>2, <2>3 DEF ProcessInv
  <2>5. run'[c] = [p EXCEPT !.copy = r]
    BY <2>1, <2>2, <2>3, SaveAndBecomeType
  <2>6. MadeInv(c)'
    <3>1. run'[c].job = run[c].job /\ run'[c].made = run[c].made /\ ~run'[c].swept
      BY <2>2, <2>4, <2>5 DEF Process
    <3>. QED BY <2>3, <3>1, MadeKept
  <2>. QED BY <2>1, <2>2, <2>3, <2>4, <2>6, EffectOfSave
<1>9. CASE CleanupDestroy(c, b, e)
  BY <1>9, DestroyEffect DEF CleanupDestroy
<1>10. CASE Finish(c, b)
  <2>. DEFINE error == run[c].copy.error \/ ~run[c].tidy
              status == IF b /\ ~error THEN "succeeded" ELSE "failed"
              r == [run[c].copy EXCEPT !.error = error, !.cleanup = "exited", !.status = status]
              p == [run[c] EXCEPT !.pc = "postguard", !.found = {}]
  <2>1. /\ r \in Record /\ r.status \in {"succeeded", "failed"}
        /\ r.status # "succeeded" \/ ~r.error
    <3>1. error \in BOOLEAN /\ status \in {"succeeded", "failed"} /\ (status = "succeeded" => ~error)
      OBVIOUS
    <3>. HIDE DEF error, status
    <3>2. r \in Record /\ r.status = status /\ r.error = error
      BY <1>1, <3>1 DEF Record
    <3>. QED BY <3>1, <3>2
  <2>2. SaveAndBecome(c, r, p) /\ UNCHANGED <<inst, wal, reaper, retries>> /\ faults' \in 0..MaxFaults
        /\ InstEffect /\ run[c].pc = "destroy" /\ run[c].todo = {}
    BY <1>10, InstSame DEF Finish, Settled, LeaseTypeOK
  <2>. HIDE DEF r, error, status
  <2>3. p \in Process /\ p.job = run[c].job /\ p.pc = "postguard" /\ p.made = run[c].made
        /\ p.swept = run[c].swept /\ p.tried = run[c].tried /\ p.tidy = run[c].tidy /\ p.todo = run[c].todo
    BY <1>1 DEF Process, Phases
  <2>. HIDE DEF p
  <2>4. run'[c] = [p EXCEPT !.copy = r]
    BY <2>1, <2>2, <2>3, SaveAndBecomeType
  <2>5. /\ run'[c].job = run[c].job /\ run'[c].made = run[c].made /\ run'[c].swept = run[c].swept
        /\ run'[c].tidy = run[c].tidy /\ run'[c].todo = {}
    BY <2>2, <2>3, <2>4 DEF Process
  <2>6. MadeInv(c)'
    BY <1>1, <2>2, <2>5 DEF MadeInv, Alive, Live
  <2>7. p.tried < MaxStartups
    BY <2>2, <2>3 DEF ProcessInv
  <2>. QED BY <2>1, <2>2, <2>3, <2>6, <2>7, EffectOfSave
<1>. QED BY <1>2, <1>3, <1>4, <1>5, <1>6, <1>7, <1>8, <1>9, <1>10

LEMMA CallerStepEffect ==
  ASSUME LeaseTypeOK, NEW c \in Callers, ProcessInv(c), MadeInv(c), CallerStep(c)
  PROVE  CallerEffect(c)
BY RunnerEffect, StartupEffect, CreateEffect, CleanupEffect DEF CallerStep

-------------------------------------------------------------------------------
(* The invariant of the leases *)

LEMMA LeaseInit == ASSUME Init PROVE LeaseInv
<1>. USE DEF Init
<1>1. LeaseTypeOK
  BY IdleType, ConstantFacts DEF LeaseTypeOK, Instance, Record, NewRecord, NoId
<1>2. ASSUME NEW c \in Callers PROVE ProcessInv(c) /\ MadeInv(c) /\ AttemptInv(c)
  <2>1. run[c] = Idle
    OBVIOUS
  <2>. QED BY <2>1, ConstantFacts DEF ProcessInv, MadeInv, AttemptInv, Idle
<1>3. ASSUME NEW j \in Jobs PROVE FreshInv(j)
  BY DEF FreshInv, NewRecord
<1>. QED BY <1>1, <1>2, <1>3 DEF LeaseInv, ReaperInv

\* A process moves: the others see another record of its job at most, which is why
\* the first attempt is its own.
LEMMA CallerKeepsLeaseInv ==
  ASSUME LeaseInv, NEW c \in Callers, CallerEffect(c)
  PROVE  LeaseInv'
<1>. DEFINE p == run[c]
            q == run'[c]
<1>1. /\ LeaseTypeOK /\ InstEffect /\ p \in Process /\ q \in Process
      /\ SaveEffect(p, q) /\ UNCHANGED <<reaper, retries>>
      /\ p.pc # "idle" /\ (q = Idle \/ (q.job = p.job /\ q.pc # "idle"))
      /\ \A d \in Callers : d # c => run'[d] = run[d]
  BY DEF LeaseInv, LeaseTypeOK, CallerEffect
<1>2. LeaseTypeOK'
  BY DEF CallerEffect, LeaseTypeOK, InstEffect, LeaseInv
<1>3. p.job \in Jobs /\ Idle.pc = "idle"
  BY <1>1 DEF LeaseInv, ProcessInv, Idle
<1>4. \A d \in Callers : ProcessInv(d)' /\ MadeInv(d)'
  <2>1. ASSUME NEW d \in Callers, d # c PROVE ProcessInv(d)' /\ MadeInv(d)'
    BY <1>1, <2>1, MadeStable DEF LeaseInv, ProcessInv
  <2>. QED BY <2>1 DEF CallerEffect
<1>5. ASSUME NEW k \in Jobs, k # p.job PROVE rec'[k] = rec[k]
  BY <1>1, <1>5 DEF SaveEffect, LeaseTypeOK
<1>6. \A d \in Callers : AttemptInv(d)'
  <2>1. ASSUME NEW d \in Callers, d # c PROVE AttemptInv(d)'
    <3>1. run'[d] = run[d] /\ AttemptInv(d)
      BY <1>1, <2>1 DEF LeaseInv
    <3>2. CASE run[d].pc = "idle" \/ retries[run[d].job] # 0
      BY <1>1, <3>1, <3>2 DEF AttemptInv
    <3>3. CASE run[d].pc # "idle" /\ retries[run[d].job] = 0
      <4>1. run[d].job \in Jobs /\ run[d].job # p.job
        BY <1>1, <2>1, <3>1, <3>3 DEF AttemptInv, LeaseInv, ProcessInv
      <4>2. rec'[run[d].job] = rec[run[d].job]
        BY <1>5, <4>1
      <4>3. q.job # run[d].job
        BY <1>1, <4>1, ConstantFacts DEF Idle
      <4>. QED BY <1>1, <3>1, <3>3, <4>1, <4>2, <4>3 DEF AttemptInv
    <3>. QED BY <3>2, <3>3
  <2>2. AttemptInv(c)'
    <3>1. AttemptInv(c)
      BY DEF LeaseInv
    <3>2. CASE q = Idle \/ retries[p.job] # 0
      BY <1>1, <1>3, <3>2 DEF AttemptInv
    <3>3. CASE q # Idle /\ retries[p.job] = 0
      <4>1. /\ q.job = p.job /\ q.pc # "idle"
            /\ \A d \in Callers : run'[d].job = p.job => d = c
        BY <1>1, <3>1, <3>3 DEF AttemptInv
      <4>2. CASE /\ rec' = rec /\ p.pc # "postguard" /\ q.pc # "postguard"
                 /\ q.copy.cleanup = p.copy.cleanup
        BY <1>1, <3>1, <3>3, <4>1, <4>2 DEF AttemptInv
      <4>3. ASSUME NEW r \in Record, rec' = [rec EXCEPT ![p.job] = r],
                   r.status \notin {"new", "queued"}, q.copy = r, p.pc # "postguard",
                   r.cleanup = p.copy.cleanup \/ r.cleanup = "entered" \/ q.pc = "postguard"
            PROVE  AttemptInv(c)'
        <5>1. rec'[p.job] = r
          BY <1>1, <1>3, <4>3 DEF LeaseTypeOK
        <5>. QED BY <1>1, <3>1, <3>3, <4>1, <4>3, <5>1 DEF AttemptInv
      <4>4. CASE ~(/\ rec' = rec /\ p.pc # "postguard" /\ q.pc # "postguard"
                   /\ q.copy.cleanup = p.copy.cleanup)
        <5>1. PICK r \in Record :
                /\ rec' = [rec EXCEPT ![p.job] = r]
                /\ r.status \notin {"new", "queued"}
                /\ q.copy = r /\ p.pc # "postguard"
                /\ r.cleanup = p.copy.cleanup \/ r.cleanup = "entered" \/ q.pc = "postguard"
          BY <1>1, <4>1, <4>4 DEF SaveEffect
        <5>. QED BY <4>3, <5>1
      <4>. QED BY <4>2, <4>4
    <3>. QED BY <3>2, <3>3
  <2>. QED BY <2>1, <2>2
<1>7. ASSUME NEW k \in Jobs PROVE FreshInv(k)'
  BY <1>1, <1>3, <1>5 DEF FreshInv, LeaseInv, SaveEffect, LeaseTypeOK
<1>8. ASSUME NEW k \in Jobs, retries[k] = 0, rec[k].cleanup = "exited"
      PROVE  rec'[k].cleanup = "exited"
  <2>1. CASE k # p.job
    BY <1>5, <1>8, <2>1
  <2>2. CASE k = p.job
    <3>1. p.pc = "postguard" /\ p.copy.cleanup = "exited"
      BY <1>1, <1>8, <2>2 DEF AttemptInv, LeaseInv
    <3>. QED BY <1>1, <1>3, <1>8, <2>2, <3>1 DEF SaveEffect, LeaseTypeOK
  <2>. QED BY <2>1, <2>2
<1>9. ReaperInv'
  BY <1>1, <1>8 DEF ReaperInv, LeaseInv, InstEffect
<1>. QED BY <1>2, <1>4, <1>6, <1>7, <1>9 DEF LeaseInv

\* A process dies, or takes a job: a queued one, or a new one nobody has.
LEMMA TakeKeepsLeaseInv ==
  ASSUME LeaseInv, NEW c \in Callers, NEW j \in Jobs,
         Dispatch(c, j) \/ SubmitDirectly(c, j)
  PROVE  LeaseInv'
<1>. USE DEF Holds
<1>0. LeaseTypeOK /\ c \in Callers /\ rec[j] \in Record
  BY DEF LeaseInv, LeaseTypeOK
<1>1. PICK r \in Record :
        /\ Takes(c, j, r) /\ rec' \in [Jobs -> Record]
        /\ r.cleanup = rec[j].cleanup /\ rec'[j].cleanup = rec[j].cleanup
        /\ \A k \in Jobs : k # j => rec'[k] = rec[k]
        /\ \/ rec[j].status = "queued" /\ rec'[j].status = "starting"
           \/ rec[j].status = "new" /\ rec'[j].status = "new" /\ c \in Clients
  <2>1. CASE Dispatch(c, j)
    <3>. DEFINE r == [rec[j] EXCEPT !.status = "starting"]
    <3>1. r \in Record /\ r.status = "starting" /\ r.cleanup = rec[j].cleanup
      BY <1>0 DEF Record
    <3>2. Takes(c, j, r) /\ rec' = [rec EXCEPT ![j] = r] /\ rec[j].status = "queued"
      BY <2>1 DEF Dispatch
    <3>. HIDE DEF r
    <3>. QED BY <1>0, <3>1, <3>2 DEF LeaseTypeOK
  <2>2. CASE SubmitDirectly(c, j)
    BY <1>0, <2>2 DEF SubmitDirectly, LeaseTypeOK
  <2>. QED BY <2>1, <2>2
<1>. DEFINE q == [Idle EXCEPT !.pc = "guard", !.job = j, !.copy = r]
<1>2. /\ q \in Process /\ q.pc = "guard" /\ q.job = j /\ q.copy = r
      /\ q.tried = 0 /\ q.made = {} /\ ~q.swept
  BY IdleType DEF Process, Phases, Idle
<1>3. Becomes(c, q) /\ UNCHANGED <<inst, wal, reaper, retries, faults>> /\ run[c].pc = "idle"
  BY <1>1 DEF Takes, Settled
<1>. HIDE DEF q
<1>4. run'[c] = q /\ run' \in [Callers -> Process] /\ \A d \in Callers : d # c => run'[d] = run[d]
  BY <1>0, <1>2, <1>3, BecomesType DEF LeaseTypeOK
<1>5. LeaseTypeOK'
  BY <1>0, <1>1, <1>3, <1>4 DEF LeaseTypeOK
<1>6. \A d \in Callers : ProcessInv(d)' /\ MadeInv(d)'
  <2>1. ASSUME NEW d \in Callers, d # c PROVE ProcessInv(d)' /\ MadeInv(d)'
    BY <1>0, <1>3, <1>4, <2>1, InstSame, MadeStable DEF LeaseInv, ProcessInv
  <2>2. ProcessInv(c)' /\ MadeInv(c)'
    BY <1>2, <1>4, ConstantFacts DEF ProcessInv, MadeInv
  <2>. QED BY <2>1, <2>2
<1>7. ASSUME retries[j] = 0, NEW d \in Callers, run[d].pc # "idle", run[d].job = j PROVE FALSE
  <2>1. AttemptInv(d) /\ d # c
    BY <1>3, <1>7 DEF LeaseInv
  <2>2. rec[j].status # "queued" /\ (rec[j].status = "new" => d \in Clients)
    BY <1>7, <2>1 DEF AttemptInv
  <2>. QED BY <1>7, <2>2 DEF Dispatch, SubmitDirectly
<1>8. ASSUME NEW d \in Callers, run[d].job = j PROVE run[d].pc # "idle"
  BY <1>8, ConstantFacts DEF LeaseInv, ProcessInv, Idle
<1>9. \A d \in Callers : AttemptInv(d)'
  <2>1. ASSUME NEW d \in Callers, d # c PROVE AttemptInv(d)'
    <3>1. run'[d] = run[d] /\ AttemptInv(d)
      BY <1>4, <2>1 DEF LeaseInv
    <3>2. CASE run[d].pc = "idle" \/ retries[run[d].job] # 0
      BY <1>3, <3>1, <3>2 DEF AttemptInv
    <3>3. CASE run[d].pc # "idle" /\ retries[run[d].job] = 0
      <4>1. run[d].job \in Jobs /\ run[d].job # j
        BY <1>7, <3>3 DEF LeaseInv, ProcessInv
      <4>. QED BY <1>1, <1>2, <1>3, <1>4, <3>1, <3>3, <4>1 DEF AttemptInv
    <3>. QED BY <3>2, <3>3
  <2>2. AttemptInv(c)'
    <3>1. CASE retries[j] = 0
      <4>1. rec[j].cleanup # "exited"
        BY <1>1, <3>1 DEF LeaseInv, FreshInv
      <4>2. \A d \in Callers : run'[d].job = j => d = c
        BY <1>4, <1>7, <1>8, <3>1
      <4>. QED BY <1>1, <1>2, <1>3, <1>4, <3>1, <4>1, <4>2 DEF AttemptInv
    <3>2. CASE retries[j] # 0
      BY <1>2, <1>3, <1>4, <3>2 DEF AttemptInv
    <3>. QED BY <3>1, <3>2
  <2>. QED BY <2>1, <2>2
<1>10. \A k \in Jobs : FreshInv(k)'
  BY <1>1, <1>3 DEF LeaseInv, FreshInv
<1>11. ReaperInv'
  BY <1>0, <1>1, <1>3 DEF LeaseInv, ReaperInv, Live, LeaseTypeOK, Instance
<1>. QED BY <1>5, <1>6, <1>9, <1>10, <1>11 DEF LeaseInv

LEMMA CrashKeepsLeaseInv ==
  ASSUME LeaseInv, NEW c \in Callers, Crash(c)
  PROVE  LeaseInv'
<1>1. LeaseTypeOK /\ UNCHANGED <<inst, rec, wal, reaper, retries>> /\ faults' \in 0..MaxFaults
  BY CountedType DEF LeaseInv, Crash, Steps
<1>2. /\ run'[c] = Idle /\ run' \in [Callers -> Process]
      /\ \A d \in Callers : d # c => run'[d] = run[d]
  BY <1>1, IdleType, BecomesType DEF Crash, LeaseTypeOK
<1>3. LeaseTypeOK'
  BY <1>1, <1>2 DEF LeaseTypeOK
<1>4. ASSUME NEW d \in Callers, d = c PROVE ProcessInv(d)' /\ MadeInv(d)' /\ AttemptInv(d)'
  BY <1>2, <1>4, ConstantFacts DEF ProcessInv, MadeInv, AttemptInv, Idle
<1>5. ASSUME NEW d \in Callers, d # c PROVE ProcessInv(d)' /\ MadeInv(d)' /\ AttemptInv(d)'
  <2>1. run'[d] = run[d] /\ ProcessInv(d) /\ MadeInv(d) /\ AttemptInv(d)
    BY <1>2, <1>5 DEF LeaseInv
  <2>2. ProcessInv(d)' /\ MadeInv(d)'
    BY <1>1, <2>1, InstSame, MadeStable DEF ProcessInv
  <2>3. AttemptInv(d)'
    BY <1>1, <1>2, <2>1, ConstantFacts DEF AttemptInv, Idle, LeaseInv, ProcessInv
  <2>. QED BY <2>2, <2>3
<1>6. \A k \in Jobs : FreshInv(k)'
  BY <1>1 DEF LeaseInv, FreshInv
<1>7. ReaperInv'
  BY <1>1 DEF LeaseInv, ReaperInv, Live
<1>. QED BY <1>3, <1>4, <1>5, <1>6, <1>7 DEF LeaseInv

\* What an operator or recover_stale_jobs does to a record
LEMMA StoreKeepsLeaseInv ==
  ASSUME LeaseInv, NEW j \in Jobs, RecoverStale(j) \/ Retry(j)
  PROVE  LeaseInv'
<1>1. /\ LeaseTypeOK /\ UNCHANGED <<inst, wal, run, reaper>> /\ faults' \in 0..MaxFaults
      /\ rec[j] \in Record
  BY CountedType DEF LeaseInv, RecoverStale, Retry, Steps, LeaseTypeOK
<1>2. /\ rec' \in [Jobs -> Record]
      /\ \A k \in Jobs : k # j => rec'[k] = rec[k] /\ retries'[k] = retries[k]
      /\ rec'[j].cleanup = rec[j].cleanup
      /\ retries' \in [Jobs -> Nat]
      /\ \/ retries'[j] # 0
         \/ retries'[j] = retries[j] /\ rec'[j].status = "failed"
  <2>1. CASE RecoverStale(j)
    <3>1. Failed(rec[j]) \in Record /\ Failed(rec[j]).status = "failed"
          /\ Failed(rec[j]).cleanup = rec[j].cleanup
      BY <1>1, FailedType
    <3>. QED BY <1>1, <2>1, <3>1 DEF RecoverStale, Steps, LeaseTypeOK
  <2>2. CASE Retry(j)
    <3>. DEFINE r == [rec[j] EXCEPT !.status = "queued", !.error = FALSE]
    <3>1. r \in Record /\ r.cleanup = rec[j].cleanup
      BY <1>1 DEF Record
    <3>2. rec' = [rec EXCEPT ![j] = r] /\ retries' = [retries EXCEPT ![j] = @ + 1]
      BY <2>2 DEF Retry
    <3>. HIDE DEF r
    <3>. QED BY <1>1, <3>1, <3>2 DEF LeaseTypeOK
  <2>. QED BY <2>1, <2>2
<1>3. LeaseTypeOK'
  BY <1>1, <1>2 DEF LeaseTypeOK
<1>4. ASSUME NEW d \in Callers PROVE ProcessInv(d)' /\ MadeInv(d)' /\ AttemptInv(d)'
  <2>1. run'[d] = run[d] /\ ProcessInv(d) /\ MadeInv(d) /\ AttemptInv(d)
    BY <1>1 DEF LeaseInv
  <2>2. ProcessInv(d)' /\ MadeInv(d)'
    BY <1>1, <2>1, InstSame, MadeStable DEF ProcessInv
  <2>3. AttemptInv(d)'
    BY <1>1, <1>2, <2>1 DEF AttemptInv, ProcessInv
  <2>. QED BY <2>2, <2>3
<1>5. \A k \in Jobs : FreshInv(k)'
  BY <1>2 DEF LeaseInv, FreshInv
<1>6. ReaperInv'
  BY <1>1, <1>2 DEF LeaseInv, ReaperInv, Live
<1>. QED BY <1>3, <1>4, <1>5, <1>6 DEF LeaseInv

\* What happens in the account without us
LEMMA AccountKeepsLeaseInv ==
  ASSUME LeaseInv, InstEffect, faults' \in 0..MaxFaults,
         UNCHANGED <<rec, wal, run, reaper, retries>>
  PROVE  LeaseInv'
<1>1. LeaseTypeOK'
  BY DEF LeaseInv, LeaseTypeOK, InstEffect
<1>2. ASSUME NEW d \in Callers PROVE ProcessInv(d)' /\ MadeInv(d)' /\ AttemptInv(d)'
  BY MadeStable DEF LeaseInv, ProcessInv, AttemptInv
<1>3. \A k \in Jobs : FreshInv(k)'
  BY DEF LeaseInv, FreshInv
<1>4. ReaperInv'
  BY DEF LeaseInv, ReaperInv, InstEffect
<1>. QED BY <1>1, <1>2, <1>3, <1>4 DEF LeaseInv

LEMMA ForeignEffect ==
  ASSUME LeaseTypeOK, NEW i \in Ids, ForeignInstance(i)
  PROVE  InstEffect /\ faults' \in 0..MaxFaults /\ UNCHANGED <<rec, wal, run, reaper, retries>>
<1>. DEFINE x == [state |-> "running", label |-> NoJob]
<1>1. x \in Instance /\ x.state # "unused" /\ inst[i].state = "unused"
      /\ inst' = [inst EXCEPT ![i] = x]
  BY DEF ForeignInstance, NextId, Instance
<1>. HIDE DEF x
<1>. QED BY <1>1, InstNew, CountedType DEF ForeignInstance, Steps

LEMMA RunningEffect ==
  ASSUME LeaseTypeOK, NEW i \in Ids, BecomesRunning(i)
  PROVE  InstEffect /\ faults' \in 0..MaxFaults /\ UNCHANGED <<rec, wal, run, reaper, retries>>
<1>. DEFINE x == [inst[i] EXCEPT !.state = "running"]
<1>1. inst[i] \in Instance /\ inst[i].state = "provisioning" /\ inst' = [inst EXCEPT ![i] = x]
  BY DEF BecomesRunning, LeaseTypeOK
<1>2. x \in Instance /\ x.state = "running" /\ x.label = inst[i].label
  BY <1>1 DEF Instance
<1>. HIDE DEF x
<1>3. InstEffect
  BY <1>1, <1>2 DEF InstEffect, LeaseTypeOK, Live
<1>. QED BY <1>3 DEF BecomesRunning, Settled, LeaseTypeOK

LEMMA ReaperKeepsLeaseInv ==
  ASSUME LeaseInv, ReaperStep
  PROVE  LeaseInv'
<1>1. LeaseTypeOK /\ ReaperInv
  BY DEF LeaseInv
<1>2. ASSUME InstEffect, UNCHANGED <<rec, wal, run, retries, faults>>, ReaperInv',
             reaper' \in [pc : {"idle", "planned", "fresh"}, id : Ids \cup {NoId}]
      PROVE  LeaseInv'
  <2>1. LeaseTypeOK'
    BY <1>1, <1>2 DEF LeaseTypeOK, InstEffect
  <2>2. ASSUME NEW d \in Callers PROVE ProcessInv(d)' /\ MadeInv(d)' /\ AttemptInv(d)'
    BY <1>1, <1>2, MadeStable DEF LeaseInv, ProcessInv, AttemptInv
  <2>3. \A k \in Jobs : FreshInv(k)'
    BY <1>2 DEF LeaseInv, FreshInv
  <2>. QED BY <1>2, <2>1, <2>2, <2>3 DEF LeaseInv
<1>3. ASSUME NEW i \in Ids, ReaperPlans(i) PROVE LeaseInv'
  <2>1. reaper' = [pc |-> "planned", id |-> i] /\ UNCHANGED <<inst, rec, wal, run, retries, faults>>
        /\ Live(i) /\ inst[i].label \in Jobs /\ rec[inst[i].label].cleanup = "exited"
    BY <1>3 DEF ReaperPlans, Eligible, Zombie
  <2>2. ReaperInv'
    BY <2>1 DEF ReaperInv, Live
  <2>. QED BY <1>1, <1>2, <2>1, <2>2, InstSame
<1>4. CASE ReaperConfirms
  <2>1. /\ reaper' = [reaper EXCEPT !.pc = "fresh"] /\ reaper.pc = "planned"
        /\ UNCHANGED <<inst, rec, wal, run, retries, faults>>
    BY <1>4 DEF ReaperConfirms
  <2>2. reaper'.pc = "fresh" /\ reaper'.id = reaper.id
        /\ reaper' \in [pc : {"idle", "planned", "fresh"}, id : Ids \cup {NoId}]
    BY <1>1, <2>1 DEF LeaseTypeOK
  <2>3. ReaperInv'
    BY <1>1, <2>1, <2>2 DEF ReaperInv, Live
  <2>. QED BY <1>1, <1>2, <2>1, <2>2, <2>3, InstSame
<1>5. CASE ReaperSkips
  <2>1. reaper' = [pc |-> "idle", id |-> NoId] /\ UNCHANGED <<inst, rec, wal, run, retries, faults>>
    BY <1>5 DEF ReaperSkips
  <2>2. ReaperInv'
    BY <2>1 DEF ReaperInv
  <2>. QED BY <1>1, <1>2, <2>1, <2>2, InstSame
<1>6. ASSUME NEW b \in BOOLEAN, ReaperDestroys(b) PROVE LeaseInv'
  <2>1. reaper' = [pc |-> "idle", id |-> NoId] /\ UNCHANGED <<rec, wal, run, retries, faults>>
        /\ reaper.id \in Ids
    BY <1>1, <1>6 DEF ReaperDestroys, ReaperInv
  <2>2. InstEffect
    <3>1. PICK i \in Ids : i = reaper.id
      BY <2>1
    <3>2. inst' = Without(i) \/ inst' = inst
      BY <1>6, <3>1 DEF ReaperDestroys
    <3>. QED BY <1>1, <3>2, InstSame, InstWithout
  <2>3. ReaperInv'
    BY <2>1 DEF ReaperInv
  <2>. QED BY <1>2, <2>1, <2>2, <2>3
<1>. QED BY <1>3, <1>4, <1>5, <1>6 DEF ReaperStep

LEMMA LeaseStep ==
  ASSUME LeaseInv, LeaseNext
  PROVE  LeaseInv'
<1>0. LeaseTypeOK /\ \A c \in Callers : ProcessInv(c) /\ MadeInv(c)
  BY DEF LeaseInv
<1>1. ASSUME NEW c \in Callers, CallerStep(c) PROVE LeaseInv'
  BY <1>0, <1>1, CallerStepEffect, CallerKeepsLeaseInv
<1>2. ASSUME NEW c \in Callers, Crash(c) PROVE LeaseInv'
  BY <1>2, CrashKeepsLeaseInv
<1>3. ASSUME NEW c \in Callers, NEW j \in Jobs, Dispatch(c, j) \/ SubmitDirectly(c, j)
      PROVE  LeaseInv'
  BY <1>3, TakeKeepsLeaseInv
<1>4. ASSUME NEW j \in Jobs, RecoverStale(j) \/ Retry(j) PROVE LeaseInv'
  BY <1>4, StoreKeepsLeaseInv
<1>5. ASSUME NEW i \in Ids, ForeignInstance(i) \/ BecomesRunning(i) PROVE LeaseInv'
  BY <1>0, <1>5, ForeignEffect, RunningEffect, AccountKeepsLeaseInv
<1>. QED BY <1>1, <1>2, <1>3, <1>4, <1>5, ReaperKeepsLeaseInv DEF LeaseNext

-------------------------------------------------------------------------------
(* The invariant of the serverless side *)

LEMMA ServerlessStart == ASSUME ServerlessInit PROVE ServerlessInv
<1>. USE DEF ServerlessInit
<1>1. /\ endpoint \in [Owners -> {"none", "there", "deleted"}] /\ group = endpoint
      /\ \A o \in Owners : o # Known => endpoint[o] = "none"
  OBVIOUS
<1>2. NewProbe \in ProbeRun /\ NewTask.pc = "guard" /\ NewTask.status = "new"
  BY DEF NewProbe, ProbeRun, ProbePhases, NewTask
<1>3. ServerlessTypeOK
  BY <1>1, <1>2 DEF ServerlessTypeOK, NewTask
<1>4. ASSUME NEW p \in Probes PROVE ProbeInv(p)
  <2>1. probe[p] = NewProbe /\ endpoint[p] = "none" /\ group[p] = "none"
    BY <1>1, ConstantFacts DEF Owners
  <2>. QED BY <2>1 DEF ProbeInv, NewProbe
<1>5. ASSUME NEW j \in PyworkerJobs PROVE TaskInv(j)
  BY <1>2 DEF TaskInv
<1>. QED BY <1>3, <1>4, <1>5 DEF ServerlessInv

LEMMA GuardFaults ==
  ASSUME LeaseTypeOK, NEW ok, NEW answered, AccountGuard(ok, answered)
  PROVE  faults' \in 0..MaxFaults
BY CountedType DEF AccountGuard

\* A probe moves, and touches nothing but an endpoint and a workergroup of its own.
ProbeEffect(p) ==
  /\ probe' \in [Probes -> ProbeRun] /\ \A o \in Probes : o # p => probe'[o] = probe[o]
  /\ endpoint' \in [Owners -> {"none", "there", "deleted"}]
  /\ group' \in [Owners -> {"none", "there", "deleted"}]
  /\ \A o \in Owners : o # p => endpoint'[o] = endpoint[o] /\ group'[o] = group[o]
  /\ faults' \in 0..MaxFaults
  /\ ProbeInv(p)'

\* It is enough to know the probe's next memory.
LEMMA ProbeEffectFrom ==
  ASSUME ServerlessTypeOK, NEW p \in Probes, NEW r \in ProbeRun, Goes(p, r),
         faults' \in 0..MaxFaults,
         \/ UNCHANGED endpoint
         \/ \E e \in {"none", "there", "deleted"} : endpoint' = [endpoint EXCEPT ![p] = e],
         \/ UNCHANGED group
         \/ \E e \in {"none", "there", "deleted"} : group' = [group EXCEPT ![p] = e],
         ProbeInv(p)'
  PROVE  ProbeEffect(p)
BY DEF ServerlessTypeOK, Goes, ProbeEffect

\* A delete of no more than p's own changes p's alone.
LEMMA DeletedOne ==
  ASSUME ServerlessTypeOK, NEW p \in Probes, NEW resources \in {endpoint, group},
         NEW ids, ids \subseteq {p}, NEW b \in BOOLEAN
  PROVE  \E e \in {resources[p], "deleted"} :
           /\ DeletedIn(resources, ids, b) = [resources EXCEPT ![p] = e]
           /\ p \in ids /\ b => e = "deleted"
           /\ p \notin ids => e = resources[p]
<1>1. resources \in [Owners -> {"none", "there", "deleted"}] /\ p \in Owners
  BY DEF ServerlessTypeOK, Owners
<1>2. CASE p \in ids /\ b
  BY <1>1, <1>2 DEF DeletedIn
<1>3. CASE ~(p \in ids /\ b)
  BY <1>1, <1>3 DEF DeletedIn
<1>. QED BY <1>2, <1>3

LEMMA ProbeStepEffect ==
  ASSUME LeaseTypeOK, ServerlessTypeOK, NEW p \in Probes, ProbeInv(p), ProbeStep(p)
  PROVE  ProbeEffect(p)
<1>. USE DEF ProbeAt, SameAccount
<1>0. probe[p] \in ProbeRun /\ p \in Owners /\ endpoint[p] \in {"none", "there", "deleted"}
      /\ group[p] \in {"none", "there", "deleted"}
  BY DEF ServerlessTypeOK, Owners
<1>g. ASSUME NEW r \in ProbeRun, Goes(p, r) PROVE probe'[p] = r
  BY <1>g DEF Goes, ServerlessTypeOK
<1>1. ASSUME NEW b \in BOOLEAN, NEW e \in BOOLEAN, ProbeNotAdmitted(p, b, e) PROVE ProbeEffect(p)
  <2>. DEFINE r == [probe[p] EXCEPT !.pc = "logs"]
  <2>1. r \in ProbeRun /\ Goes(p, r) /\ UNCHANGED <<endpoint, group>> /\ faults' \in 0..MaxFaults
    BY <1>0, <1>1, GuardFaults DEF ProbeNotAdmitted, ProbeRun, ProbePhases
  <2>2. ProbeInv(p)'
    BY <1>0, <1>1, <1>g, <2>1 DEF ProbeNotAdmitted, ProbeInv, ProbeRun, NewProbe
  <2>. QED BY <2>1, <2>2, ProbeEffectFrom
<1>2. ASSUME NEW b \in BOOLEAN, NEW e \in BOOLEAN, ProbeAdmitted(p, b, e) PROVE ProbeEffect(p)
  <2>. DEFINE named == IF b THEN {Known} ELSE {}
              r == [probe[p] EXCEPT !.pc = IF b THEN "ask" ELSE "endpoint",
                                    !.existing = b, !.endpoint = named, !.group = named]
  <2>0. Goes(p, r) /\ UNCHANGED <<endpoint, group>> /\ faults' \in 0..MaxFaults
    BY <1>2, GuardFaults DEF ProbeAdmitted
  <2>n. named \subseteq Owners /\ (~b => named = {})
    BY DEF Owners
  <2>. HIDE DEF named
  <2>1. r \in ProbeRun /\ Goes(p, r) /\ UNCHANGED <<endpoint, group>> /\ faults' \in 0..MaxFaults
    BY <1>0, <2>0, <2>n DEF ProbeRun, ProbePhases
  <2>2. /\ r.pc = IF b THEN "ask" ELSE "endpoint"
        /\ r.existing = b /\ r.endpoint = named /\ r.group = named
        /\ r.empty = probe[p].empty /\ r.nogroup = probe[p].nogroup
        /\ r.verdict = probe[p].verdict /\ r.tidy = probe[p].tidy
    BY <1>0 DEF ProbeRun
  <2>3. /\ probe[p].pc = "idle" /\ probe[p] = NewProbe
        /\ endpoint'[p] = "none" /\ group'[p] = "none"
    BY <1>2, <2>1 DEF ProbeAdmitted, ProbeInv
  <2>. HIDE DEF r
  <2>4. probe'[p] = r
    BY <1>g, <2>1
  <2>5. ~r.empty /\ ~r.nogroup /\ r.verdict = "none"
    BY <2>2, <2>3 DEF NewProbe
  <2>6. ProbeInv(p)'
    <3>1. CASE b
      BY <2>2, <2>3, <2>4, <2>5, <3>1 DEF ProbeInv
    <3>2. CASE ~b
      BY <2>2, <2>3, <2>4, <2>5, <2>n, <3>2 DEF ProbeInv
    <3>. QED BY <3>1, <3>2
  <2>. QED BY <2>1, <2>6, ProbeEffectFrom
<1>f. ASSUME NEW f \in BOOLEAN, ProbeRaises(p, f)
      PROVE  \E r \in ProbeRun :
               /\ Goes(p, r) /\ faults' \in 0..MaxFaults /\ r.pc = "logs"
               /\ r.existing = probe[p].existing /\ r.endpoint = probe[p].endpoint
               /\ r.group = probe[p].group /\ r.empty = probe[p].empty
               /\ r.nogroup = probe[p].nogroup /\ r.verdict = probe[p].verdict
               /\ r.tidy => probe[p].tidy /\ ~f
  <2>. DEFINE r == [probe[p] EXCEPT !.pc = "logs", !.ok = FALSE, !.tidy = @ /\ ~f]
  <2>1. Goes(p, r) /\ faults' \in 0..MaxFaults
    BY <1>f, CountedType DEF ProbeRaises
  <2>2. r \in ProbeRun
    BY <1>0 DEF ProbeRun, ProbePhases
  <2>3. /\ r.pc = "logs"
        /\ r.existing = probe[p].existing /\ r.endpoint = probe[p].endpoint
        /\ r.group = probe[p].group /\ r.empty = probe[p].empty
        /\ r.nogroup = probe[p].nogroup /\ r.verdict = probe[p].verdict
        /\ r.tidy => probe[p].tidy /\ ~f
    BY <1>0 DEF ProbeRun
  <2>. QED BY <2>1, <2>2, <2>3
<1>3. ASSUME NEW b \in BOOLEAN, ProbeCreatesEndpoint(p, b) PROVE ProbeEffect(p)
  <2>1. /\ probe[p].pc = "endpoint" /\ endpoint' = [endpoint EXCEPT ![p] = "there"] /\ UNCHANGED group
        /\ endpoint'[p] = "there" /\ group'[p] = "none" /\ ~probe[p].existing
    BY <1>0, <1>3 DEF ProbeCreatesEndpoint, ProbeInv, ServerlessTypeOK
  <2>2. /\ ~probe[p].empty /\ ~probe[p].nogroup /\ probe[p].verdict # "ok"
        /\ probe[p].endpoint \subseteq {p} /\ probe[p].group \subseteq {p}
    BY <2>1 DEF ProbeInv
  <2>3. CASE b
    <3>. DEFINE r == [probe[p] EXCEPT !.pc = "group", !.endpoint = {p}]
    <3>1. r \in ProbeRun /\ Goes(p, r) /\ faults' \in 0..MaxFaults
      BY <1>0, <1>3, <2>3, CountedType DEF ProbeCreatesEndpoint, ProbeRun, ProbePhases
    <3>2. /\ r.pc = "group" /\ r.endpoint = {p} /\ r.group = probe[p].group
          /\ r.existing = probe[p].existing /\ r.empty = probe[p].empty
          /\ r.nogroup = probe[p].nogroup /\ r.verdict = probe[p].verdict
      BY <1>0 DEF ProbeRun
    <3>. HIDE DEF r
    <3>3. probe'[p] = r
      BY <1>g, <3>1
    <3>4. ProbeInv(p)'
      BY <2>1, <2>2, <3>2, <3>3 DEF ProbeInv
    <3>. QED BY <2>1, <3>1, <3>4, ProbeEffectFrom
  <2>4. CASE ~b
    <3>1. ProbeRaises(p, TRUE)
      BY <1>3, <2>4 DEF ProbeCreatesEndpoint
    <3>2. PICK r \in ProbeRun :
            /\ Goes(p, r) /\ faults' \in 0..MaxFaults /\ r.pc = "logs"
            /\ r.endpoint = probe[p].endpoint /\ r.group = probe[p].group
            /\ r.existing = probe[p].existing /\ r.empty = probe[p].empty
            /\ r.nogroup = probe[p].nogroup /\ r.verdict = probe[p].verdict
            /\ ~r.tidy
      BY <1>f, <3>1
    <3>3. probe'[p] = r
      BY <1>g, <3>2
    <3>4. ProbeInv(p)'
      BY <2>1, <2>2, <3>2, <3>3 DEF ProbeInv
    <3>. QED BY <2>1, <3>2, <3>4, ProbeEffectFrom
  <2>. QED BY <2>3, <2>4
<1>4. ASSUME NEW b \in BOOLEAN, ProbeCreatesGroup(p, b) PROVE ProbeEffect(p)
  <2>1. /\ probe[p].pc = "group" /\ group' = [group EXCEPT ![p] = "there"] /\ UNCHANGED endpoint
        /\ group'[p] = "there" /\ ~probe[p].existing
    BY <1>0, <1>4 DEF ProbeCreatesGroup, ProbeInv, ServerlessTypeOK
  <2>2. /\ ~probe[p].empty /\ ~probe[p].nogroup /\ probe[p].verdict # "ok"
        /\ probe[p].endpoint \subseteq {p} /\ probe[p].group \subseteq {p}
        /\ (probe[p].tidy /\ endpoint[p] = "there" => p \in probe[p].endpoint)
    BY <2>1 DEF ProbeInv
  <2>3. CASE b
    <3>. DEFINE r == [probe[p] EXCEPT !.pc = "ask", !.group = {p}]
    <3>1. r \in ProbeRun /\ Goes(p, r) /\ faults' \in 0..MaxFaults
      BY <1>0, <1>4, <2>3, CountedType DEF ProbeCreatesGroup, ProbeRun, ProbePhases
    <3>2. /\ r.pc = "ask" /\ r.endpoint = probe[p].endpoint /\ r.group = {p}
          /\ r.existing = probe[p].existing /\ r.empty = probe[p].empty /\ r.tidy = probe[p].tidy
          /\ r.nogroup = probe[p].nogroup /\ r.verdict = probe[p].verdict
      BY <1>0 DEF ProbeRun
    <3>. HIDE DEF r
    <3>3. probe'[p] = r
      BY <1>g, <3>1
    <3>4. ProbeInv(p)'
      BY <2>1, <2>2, <3>2, <3>3 DEF ProbeInv
    <3>. QED BY <2>1, <3>1, <3>4, ProbeEffectFrom
  <2>4. CASE ~b
    <3>1. ProbeRaises(p, TRUE)
      BY <1>4, <2>4 DEF ProbeCreatesGroup
    <3>2. PICK r \in ProbeRun :
            /\ Goes(p, r) /\ faults' \in 0..MaxFaults /\ r.pc = "logs"
            /\ r.endpoint = probe[p].endpoint /\ r.group = probe[p].group
            /\ r.existing = probe[p].existing /\ r.empty = probe[p].empty
            /\ r.nogroup = probe[p].nogroup /\ r.verdict = probe[p].verdict
            /\ ~r.tidy
      BY <1>f, <3>1
    <3>3. probe'[p] = r
      BY <1>g, <3>2
    <3>4. ProbeInv(p)'
      BY <2>1, <2>2, <3>2, <3>3 DEF ProbeInv
    <3>. QED BY <2>1, <3>2, <3>4, ProbeEffectFrom
  <2>. QED BY <2>3, <2>4
<1>5. CASE ProbeStopsEarly(p)
  <2>1. probe[p].pc \in {"endpoint", "group", "ask"} /\ UNCHANGED <<endpoint, group>>
    BY <1>5 DEF ProbeStopsEarly
  <2>2. ProbeRaises(p, FALSE)
    BY <1>5 DEF ProbeStopsEarly
  <2>3. PICK r \in ProbeRun :
          /\ Goes(p, r) /\ faults' \in 0..MaxFaults /\ r.pc = "logs"
          /\ r.existing = probe[p].existing /\ r.endpoint = probe[p].endpoint
          /\ r.group = probe[p].group /\ r.empty = probe[p].empty
          /\ r.nogroup = probe[p].nogroup /\ r.verdict = probe[p].verdict
          /\ r.tidy => probe[p].tidy
    BY <1>f, <2>2
  <2>4. probe'[p] = r
    BY <1>g, <2>3
  <2>5. ProbeInv(p)'
    BY <2>1, <2>3, <2>4 DEF ProbeInv
  <2>. QED BY <2>1, <2>3, <2>5, ProbeEffectFrom
<1>6. ASSUME NEW b \in BOOLEAN, ProbeAsks(p, b) \/ ProbeReadsLogs(p, b) PROVE ProbeEffect(p)
  <2>1. PICK r \in ProbeRun :
          /\ Goes(p, r)
          /\ \/ probe[p].pc = "ask" /\ r.pc = "logs"
             \/ probe[p].pc = "logs" /\ r.pc = "ungroup"
          /\ r.existing = probe[p].existing /\ r.endpoint = probe[p].endpoint
          /\ r.group = probe[p].group /\ r.empty = probe[p].empty
          /\ r.nogroup = probe[p].nogroup /\ r.verdict = probe[p].verdict
          /\ r.tidy = probe[p].tidy
    <3>1. CASE ProbeAsks(p, b)
      <4>. DEFINE r == [probe[p] EXCEPT !.pc = "logs", !.asked = TRUE, !.ok = b]
      <4>1. r \in ProbeRun
        BY <1>0 DEF ProbeRun, ProbePhases
      <4>2. Goes(p, r) /\ probe[p].pc = "ask"
        BY <3>1 DEF ProbeAsks
      <4>3. /\ r.pc = "logs"
            /\ r.existing = probe[p].existing /\ r.endpoint = probe[p].endpoint
            /\ r.group = probe[p].group /\ r.empty = probe[p].empty
            /\ r.nogroup = probe[p].nogroup /\ r.verdict = probe[p].verdict
            /\ r.tidy = probe[p].tidy
        BY <1>0 DEF ProbeRun
      <4>. HIDE DEF r
      <4>. QED BY <4>1, <4>2, <4>3
    <3>2. CASE ProbeReadsLogs(p, b)
      <4>. DEFINE r == [probe[p] EXCEPT !.pc = "ungroup", !.ok = @ /\ b]
      <4>1. r \in ProbeRun
        BY <1>0 DEF ProbeRun, ProbePhases
      <4>2. Goes(p, r) /\ probe[p].pc = "logs"
        BY <3>2 DEF ProbeReadsLogs
      <4>3. /\ r.pc = "ungroup"
            /\ r.existing = probe[p].existing /\ r.endpoint = probe[p].endpoint
            /\ r.group = probe[p].group /\ r.empty = probe[p].empty
            /\ r.nogroup = probe[p].nogroup /\ r.verdict = probe[p].verdict
            /\ r.tidy = probe[p].tidy
        BY <1>0 DEF ProbeRun
      <4>. HIDE DEF r
      <4>. QED BY <4>1, <4>2, <4>3
    <3>. QED BY <1>6, <3>1, <3>2
  <2>2. UNCHANGED <<endpoint, group>> /\ faults' \in 0..MaxFaults
    BY <1>6, CountedType DEF ProbeAsks, ProbeReadsLogs
  <2>3. probe'[p] = r
    BY <1>g, <2>1
  <2>4. ProbeInv(p)'
    BY <2>1, <2>2, <2>3 DEF ProbeInv
  <2>. QED BY <2>1, <2>2, <2>4, ProbeEffectFrom
<1>7. ASSUME NEW b \in BOOLEAN, ProbeDeletesGroup(p, b) PROVE ProbeEffect(p)
  <2>. DEFINE r == [probe[p] EXCEPT !.pc = "unendpoint", !.tidy = @ /\ b]
  <2>1. r \in ProbeRun /\ Goes(p, r) /\ faults' \in 0..MaxFaults
    BY <1>0, <1>7, CountedType DEF ProbeDeletesGroup, ProbeRun, ProbePhases
  <2>2. /\ r.pc = "unendpoint"
        /\ r.existing = probe[p].existing /\ r.endpoint = probe[p].endpoint
        /\ r.group = probe[p].group
        /\ r.empty = probe[p].empty /\ r.nogroup = probe[p].nogroup
        /\ r.verdict = probe[p].verdict /\ r.tidy = (probe[p].tidy /\ b)
    BY <1>0 DEF ProbeRun
  <2>. HIDE DEF r
  <2>3. probe'[p] = r
    BY <1>g, <2>1
  <2>d. /\ Deletes(p, probe[p].group) \subseteq {p}
        /\ p \in Deletes(p, probe[p].group) <=> p \in probe[p].group /\ ~probe[p].existing
    BY DEF Deletes, ProbeInv
  <2>e. group' = DeletedIn(group, Deletes(p, probe[p].group), b)
    BY <1>7 DEF ProbeDeletesGroup
  <2>4. PICK e \in {group[p], "deleted"} :
          /\ group' = [group EXCEPT ![p] = e]
          /\ p \in probe[p].group /\ ~probe[p].existing /\ b => e = "deleted"
          /\ p \notin probe[p].group \/ probe[p].existing => e = group[p]
    BY <1>0, <2>d, <2>e, DeletedOne
  <2>5. group'[p] = e /\ probe[p].pc = "ungroup" /\ UNCHANGED endpoint
    BY <1>0, <1>7, <2>4 DEF ProbeDeletesGroup, ServerlessTypeOK
  <2>6. r.tidy => group'[p] # "there"
    BY <2>2, <2>4, <2>5 DEF ProbeInv
  <2>7. ProbeInv(p)'
    BY <1>0, <2>2, <2>3, <2>4, <2>5, <2>6 DEF ProbeInv
  <2>8. e \in {"none", "there", "deleted"}
    BY <1>0
  <2>. QED BY <2>1, <2>4, <2>5, <2>7, <2>8, ProbeEffectFrom
<1>8. ASSUME NEW b \in BOOLEAN, ProbeDeletesEndpoint(p, b) PROVE ProbeEffect(p)
  <2>. DEFINE r == [probe[p] EXCEPT !.pc = "endpoints", !.tidy = @ /\ b]
  <2>1. r \in ProbeRun /\ Goes(p, r) /\ faults' \in 0..MaxFaults
    BY <1>0, <1>8, CountedType DEF ProbeDeletesEndpoint, ProbeRun, ProbePhases
  <2>2. /\ r.pc = "endpoints"
        /\ r.existing = probe[p].existing /\ r.endpoint = probe[p].endpoint
        /\ r.group = probe[p].group
        /\ r.empty = probe[p].empty /\ r.nogroup = probe[p].nogroup
        /\ r.verdict = probe[p].verdict /\ r.tidy = (probe[p].tidy /\ b)
    BY <1>0 DEF ProbeRun
  <2>. HIDE DEF r
  <2>3. probe'[p] = r
    BY <1>g, <2>1
  <2>d. /\ Deletes(p, probe[p].endpoint) \subseteq {p}
        /\ p \in Deletes(p, probe[p].endpoint) <=> p \in probe[p].endpoint /\ ~probe[p].existing
    BY DEF Deletes, ProbeInv
  <2>e. endpoint' = DeletedIn(endpoint, Deletes(p, probe[p].endpoint), b)
    BY <1>8 DEF ProbeDeletesEndpoint
  <2>4. PICK e \in {endpoint[p], "deleted"} :
          /\ endpoint' = [endpoint EXCEPT ![p] = e]
          /\ p \in probe[p].endpoint /\ ~probe[p].existing /\ b => e = "deleted"
          /\ p \notin probe[p].endpoint \/ probe[p].existing => e = endpoint[p]
    BY <1>0, <2>d, <2>e, DeletedOne
  <2>5. endpoint'[p] = e /\ probe[p].pc = "unendpoint" /\ UNCHANGED group
    BY <1>0, <1>8, <2>4 DEF ProbeDeletesEndpoint, ServerlessTypeOK
  <2>6. /\ r.tidy => endpoint'[p] # "there"
        /\ r.tidy => group'[p] # "there"
    BY <2>2, <2>4, <2>5 DEF ProbeInv
  <2>7. ProbeInv(p)'
    BY <1>0, <2>2, <2>3, <2>4, <2>5, <2>6 DEF ProbeInv
  <2>8. e \in {"none", "there", "deleted"}
    BY <1>0
  <2>. QED BY <2>1, <2>4, <2>5, <2>7, <2>8, ProbeEffectFrom
<1>9. ASSUME NEW b \in BOOLEAN, ProbeListsEndpoints(p, b) PROVE ProbeEffect(p)
  <2>. DEFINE seen == b /\ Endpoints = {}
              r == [probe[p] EXCEPT !.pc = "groups", !.empty = seen, !.tidy = @ /\ b]
  <2>1. seen \in BOOLEAN /\ (seen => endpoint[p] # "there")
    BY <1>0 DEF Endpoints
  <2>2. Goes(p, r) /\ faults' \in 0..MaxFaults /\ UNCHANGED <<endpoint, group>>
        /\ probe[p].pc = "endpoints"
    BY <1>9, CountedType DEF ProbeListsEndpoints
  <2>. HIDE DEF seen
  <2>3. r \in ProbeRun
    BY <1>0, <2>1 DEF ProbeRun, ProbePhases
  <2>4. /\ r.pc = "groups" /\ r.existing = probe[p].existing
        /\ r.endpoint = probe[p].endpoint /\ r.group = probe[p].group
        /\ r.empty = seen /\ r.nogroup = probe[p].nogroup
        /\ r.verdict = probe[p].verdict /\ r.tidy = (probe[p].tidy /\ b)
    BY <1>0 DEF ProbeRun
  <2>. HIDE DEF r
  <2>5. probe'[p] = r
    BY <1>g, <2>2, <2>3
  <2>6. ProbeInv(p)'
    BY <2>1, <2>2, <2>4, <2>5 DEF ProbeInv
  <2>. QED BY <2>2, <2>3, <2>6, ProbeEffectFrom
<1>10. ASSUME NEW b \in BOOLEAN, ProbeListsGroups(p, b) PROVE ProbeEffect(p)
  <2>. DEFINE seen == b /\ Groups = {}
              r == [probe[p] EXCEPT !.pc = "postguard", !.nogroup = seen, !.tidy = @ /\ b]
  <2>1. seen \in BOOLEAN /\ (seen => group[p] # "there")
    BY <1>0 DEF Groups
  <2>2. Goes(p, r) /\ faults' \in 0..MaxFaults /\ UNCHANGED <<endpoint, group>>
        /\ probe[p].pc = "groups"
    BY <1>10, CountedType DEF ProbeListsGroups
  <2>. HIDE DEF seen
  <2>3. r \in ProbeRun
    BY <1>0, <2>1 DEF ProbeRun, ProbePhases
  <2>4. /\ r.pc = "postguard" /\ r.existing = probe[p].existing
        /\ r.endpoint = probe[p].endpoint /\ r.group = probe[p].group
        /\ r.empty = probe[p].empty /\ r.nogroup = seen
        /\ r.verdict = probe[p].verdict /\ r.tidy = (probe[p].tidy /\ b)
    BY <1>0 DEF ProbeRun
  <2>. HIDE DEF r
  <2>5. probe'[p] = r
    BY <1>g, <2>2, <2>3
  <2>6. ProbeInv(p)'
    BY <2>1, <2>2, <2>4, <2>5 DEF ProbeInv
  <2>. QED BY <2>2, <2>3, <2>6, ProbeEffectFrom
<1>11. ASSUME NEW b \in BOOLEAN, NEW e \in BOOLEAN, ProbeReports(p, b, e) PROVE ProbeEffect(p)
  <2>1. PICK verdict \in {"ok", "failed", "raised"} :
          /\ verdict = "ok" => probe[p].existing \/ (probe[p].empty /\ probe[p].nogroup)
          /\ Goes(p, [NewProbe EXCEPT !.pc = "done", !.existing = probe[p].existing,
                                      !.tidy = probe[p].tidy, !.verdict = verdict])
    BY <1>11 DEF ProbeReports, CleanupOk
  <2>. DEFINE r == [NewProbe EXCEPT !.pc = "done", !.existing = probe[p].existing,
                                    !.tidy = probe[p].tidy, !.verdict = verdict]
  <2>2. faults' \in 0..MaxFaults /\ UNCHANGED <<endpoint, group>> /\ probe[p].pc = "postguard"
    BY <1>11, GuardFaults DEF ProbeReports
  <2>3. r \in ProbeRun /\ Goes(p, r)
    BY <1>0, <2>1 DEF ProbeRun, ProbePhases, NewProbe
  <2>4. /\ r.pc = "done" /\ r.existing = probe[p].existing /\ ~r.empty /\ ~r.nogroup
        /\ r.endpoint = {} /\ r.group = {}
        /\ r.verdict = verdict /\ r.tidy = probe[p].tidy
    BY <1>0 DEF ProbeRun, NewProbe
  <2>. HIDE DEF r
  <2>5. probe'[p] = r
    BY <1>g, <2>3
  <2>6. verdict = "ok" => endpoint[p] # "there" /\ group[p] # "there"
    BY <2>1 DEF ProbeInv
  <2>7. ProbeInv(p)'
    BY <2>2, <2>4, <2>5, <2>6 DEF ProbeInv
  <2>. QED BY <2>2, <2>3, <2>7, ProbeEffectFrom
<1>12. CASE ProbeDies(p)
  <2>. DEFINE r == [NewProbe EXCEPT !.pc = "done", !.tidy = FALSE, !.verdict = "raised"]
  <2>1. r \in ProbeRun
    BY DEF ProbeRun, ProbePhases, NewProbe
  <2>2. Goes(p, r) /\ faults' \in 0..MaxFaults /\ UNCHANGED <<endpoint, group>>
    BY <1>12, CountedType DEF ProbeDies
  <2>3. /\ r.pc = "done" /\ ~r.existing /\ ~r.empty /\ ~r.nogroup
        /\ r.endpoint = {} /\ r.group = {} /\ r.verdict = "raised" /\ ~r.tidy
    BY DEF NewProbe
  <2>. HIDE DEF r
  <2>4. probe'[p] = r
    BY <1>g, <2>1, <2>2
  <2>5. ProbeInv(p)'
    BY <2>3, <2>4 DEF ProbeInv
  <2>. QED BY <2>1, <2>2, <2>5, ProbeEffectFrom
<1>. QED
  BY <1>1, <1>2, <1>3, <1>4, <1>5, <1>6, <1>7, <1>8, <1>9, <1>10, <1>11, <1>12 DEF ProbeStep

LEMMA ProbeKeepsServerlessInv ==
  ASSUME ServerlessInv, NEW p \in Probes, ProbeEffect(p), UNCHANGED task
  PROVE  ServerlessInv'
<1>1. ServerlessTypeOK'
  BY DEF ServerlessInv, ServerlessTypeOK, ProbeEffect
<1>2. ASSUME NEW o \in Probes PROVE ProbeInv(o)'
  <2>1. CASE o # p
    BY <2>1 DEF ServerlessInv, ProbeEffect, ProbeInv, Owners
  <2>. QED BY <2>1 DEF ProbeEffect
<1>3. endpoint'[Known] = endpoint[Known]
  BY ConstantFacts DEF ProbeEffect, Owners
<1>4. ASSUME NEW j \in PyworkerJobs PROVE TaskInv(j)'
  BY <1>3 DEF ServerlessInv, TaskInv
<1>. QED BY <1>1, <1>2, <1>4 DEF ServerlessInv

\* A job moves: the account stays as it is.
LEMMA TaskKeepsServerlessInv ==
  ASSUME LeaseTypeOK, ServerlessInv, NEW j \in PyworkerJobs, TaskStep(j), UNCHANGED probe
  PROVE  ServerlessInv' /\ faults' \in 0..MaxFaults
<1>. DEFINE TaskRun == [pc : {"guard", "ask", "postguard", "done"},
                        status : {"new", "starting", "running", "succeeded", "failed"},
                        blind : BOOLEAN]
<1>0. ServerlessTypeOK /\ TaskInv(j) /\ task[j] \in TaskRun
  BY DEF ServerlessInv, ServerlessTypeOK
<1>s. ASSUME NEW t \in TaskRun, TaskBecomes(j, t), faults' \in 0..MaxFaults,
             t.pc # "guard",
             t.status # "failed" /\ ~t.blind => endpoint[Known] # "there",
             t.status = "succeeded" => t.blind
      PROVE  ServerlessInv' /\ faults' \in 0..MaxFaults
  <2>1. UNCHANGED <<endpoint, group, probe>> /\ task' = [task EXCEPT ![j] = t]
    BY <1>s DEF TaskBecomes, SameAccount
  <2>2. task'[j] = t /\ \A k \in PyworkerJobs : k # j => task'[k] = task[k]
    BY <1>0, <2>1 DEF ServerlessTypeOK
  <2>3. ServerlessTypeOK'
    BY <1>0, <2>1 DEF ServerlessTypeOK
  <2>4. ASSUME NEW p \in Probes PROVE ProbeInv(p)'
    BY <2>1 DEF ProbeInv, ServerlessInv
  <2>5. ASSUME NEW k \in PyworkerJobs PROVE TaskInv(k)'
    BY <1>s, <2>1, <2>2 DEF TaskInv, ServerlessInv
  <2>. QED BY <1>s, <2>3, <2>4, <2>5 DEF ServerlessInv
<1>e. AccountEmpty => endpoint[Known] # "there"
  BY DEF AccountEmpty, Endpoints, Owners
<1>1. ASSUME NEW b \in BOOLEAN, NEW e \in BOOLEAN, TaskGuarded(j, b, e)
      PROVE  ServerlessInv' /\ faults' \in 0..MaxFaults
  <2>1. faults' \in 0..MaxFaults /\ (e => (b <=> AccountEmpty))
    BY <1>1, GuardFaults DEF TaskGuarded, AccountGuard
  <2>2. CASE b
    <3>1. TaskBecomes(j, [pc |-> "ask", status |-> "starting", blind |-> ~e])
      BY <1>1, <2>2 DEF TaskGuarded
    <3>. QED BY <1>e, <1>s, <2>1, <2>2, <3>1
  <2>3. CASE ~b
    <3>1. TaskBecomes(j, [pc |-> "done", status |-> "failed", blind |-> ~e])
      BY <1>1, <2>3 DEF TaskGuarded
    <3>. QED BY <1>s, <2>1, <3>1
  <2>. QED BY <2>2, <2>3
<1>2. CASE TaskRuns(j)
  <2>. DEFINE t == [task[j] EXCEPT !.status = "running"]
  <2>1. t \in TaskRun /\ t.pc = "ask" /\ t.status = "running" /\ t.blind = task[j].blind
        /\ TaskBecomes(j, t) /\ faults' \in 0..MaxFaults
        /\ task[j].pc = "ask" /\ task[j].status = "starting"
    BY <1>0, <1>2, CountedType DEF TaskRuns
  <2>. HIDE DEF t
  <2>. QED BY <1>0, <1>s, <2>1 DEF TaskInv
<1>3. ASSUME NEW b \in BOOLEAN, TaskAnswered(j, b) PROVE ServerlessInv' /\ faults' \in 0..MaxFaults
  <2>. DEFINE t == [task[j] EXCEPT !.pc = "postguard",
                                   !.status = IF b THEN "succeeded" ELSE "failed"]
  <2>1. t \in TaskRun /\ t.pc = "postguard" /\ t.blind = task[j].blind
        /\ t.status = IF b THEN "succeeded" ELSE "failed"
    BY <1>0
  <2>2. TaskBecomes(j, t) /\ faults' \in 0..MaxFaults
        /\ task[j].pc = "ask" /\ task[j].status = "running"
    BY <1>3, CountedType DEF TaskAnswered
  <2>3. b => endpoint[Known] = "there"
    BY <1>3 DEF TaskAnswered, Endpoints
  <2>. HIDE DEF t
  <2>4. b => t.blind
    BY <1>0, <2>1, <2>2, <2>3 DEF TaskInv
  <2>5. CASE b
    BY <1>s, <2>1, <2>2, <2>4, <2>5
  <2>6. CASE ~b
    BY <1>s, <2>1, <2>2, <2>6
  <2>. QED BY <2>5, <2>6
<1>4. ASSUME NEW b \in BOOLEAN, NEW e \in BOOLEAN, TaskAudited(j, b, e)
      PROVE  ServerlessInv' /\ faults' \in 0..MaxFaults
  <2>. DEFINE t == [task[j] EXCEPT !.pc = "done", !.status = IF b THEN @ ELSE "failed",
                                   !.blind = @ \/ ~e]
  <2>1. t \in TaskRun /\ t.pc = "done" /\ t.blind = (task[j].blind \/ ~e)
        /\ t.status = IF b THEN task[j].status ELSE "failed"
    BY <1>0
  <2>2. TaskBecomes(j, t) /\ faults' \in 0..MaxFaults /\ task[j].pc = "postguard"
    BY <1>4, GuardFaults DEF TaskAudited
  <2>. HIDE DEF t
  <2>3. t.status # "failed" /\ ~t.blind => endpoint[Known] # "there"
    BY <1>0, <2>1, <2>2 DEF TaskInv
  <2>4. t.status = "succeeded" => t.blind
    BY <1>0, <2>1 DEF TaskInv
  <2>. QED BY <1>s, <2>1, <2>2, <2>3, <2>4
<1>5. CASE TaskDies(j)
  <2>. DEFINE t == [task[j] EXCEPT !.pc = "done"]
  <2>1. t \in TaskRun /\ t.pc = "done" /\ t.blind = task[j].blind /\ t.status = task[j].status
    BY <1>0
  <2>2. TaskBecomes(j, t) /\ faults' \in 0..MaxFaults /\ task[j].pc # "guard"
    BY <1>5, CountedType DEF TaskDies
  <2>. HIDE DEF t
  <2>. QED BY <1>0, <1>s, <2>1, <2>2 DEF TaskInv
<1>. QED BY <1>1, <1>2, <1>3, <1>4, <1>5 DEF TaskStep

-------------------------------------------------------------------------------
(* The account as a whole *)

LEMMA VastStep ==
  ASSUME VastInv, [VastNext]_vastVars
  PROVE  VastInv'
<1>. USE DEF VastInv
<1>0. LeaseTypeOK /\ ServerlessTypeOK /\ \A p \in Probes : ProbeInv(p)
  BY DEF LeaseInv, ServerlessInv
<1>t. ASSUME UNCHANGED serverlessVars PROVE ServerlessInv'
  BY <1>t DEF serverlessVars, ServerlessInv, ServerlessTypeOK, ProbeInv, TaskInv
<1>a. ASSUME UNCHANGED <<inst, rec, wal, run, reaper, retries>>, faults' \in 0..MaxFaults
      PROVE  LeaseInv'
  BY <1>0, <1>a, InstSame, AccountKeepsLeaseInv
<1>1. CASE LeaseNext /\ UNCHANGED serverlessVars
  BY <1>1, <1>t, LeaseStep
<1>2. ASSUME NEW p \in Probes, ProbeStep(p), UNCHANGED task,
             UNCHANGED <<inst, rec, wal, run, reaper, retries>>
      PROVE  VastInv'
  <2>1. ProbeEffect(p)
    BY <1>0, <1>2, ProbeStepEffect
  <2>2. faults' \in 0..MaxFaults
    BY <2>1 DEF ProbeEffect
  <2>. QED BY <1>2, <1>a, <2>1, <2>2, ProbeKeepsServerlessInv
<1>3. ASSUME NEW j \in PyworkerJobs, TaskStep(j), UNCHANGED probe,
             UNCHANGED <<inst, rec, wal, run, reaper, retries>>
      PROVE  VastInv'
  BY <1>0, <1>3, <1>a, TaskKeepsServerlessInv
<1>4. ASSUME NEW i \in Ids, ForeignInstance(i), UNCHANGED serverlessVars PROVE VastInv'
  BY <1>0, <1>4, <1>t, ForeignEffect, AccountKeepsLeaseInv
<1>5. CASE UNCHANGED vastVars
  <2>1. UNCHANGED <<inst, rec, wal, run, reaper, retries, faults>> /\ UNCHANGED serverlessVars
    BY <1>5 DEF vastVars, serverlessVars
  <2>2. faults' \in 0..MaxFaults
    BY <1>0, <2>1 DEF LeaseTypeOK
  <2>. QED BY <1>a, <1>t, <2>1, <2>2
<1>. QED BY <1>1, <1>2, <1>3, <1>4, <1>5 DEF VastNext

\* What is known of the instances and of the serverless side holds throughout.
LEMMA VastInvariant == VastSpec => []VastInv
<1>1. VastInit => VastInv
  BY LeaseInit, ServerlessStart DEF VastInit, VastInv
<1>. QED BY <1>1, VastStep, PTL DEF VastSpec

-------------------------------------------------------------------------------
(* Theorems *)

\* Every variable of the Vast account has its type, whatever fails and however often
\* jobs are retried (vast.py, orphan_inventory.py, the serverless probe).
THEOREM VastTypesKept == VastSpec => []VastTypeOK
<1>1. VastInv => VastTypeOK
  BY DEF VastInv, LeaseInv, ServerlessInv, VastTypeOK
<1>. QED BY <1>1, VastInvariant, PTL

\* A cleanup whose label listing answered and whose destroys were all confirmed leaves
\* none of the instances the process created (vast.py:464-499, 772-822).
THEOREM SweptInstancesGone == VastSpec => []SweepLeavesNothing
<1>1. VastInv => SweepLeavesNothing
  BY DEF VastInv, LeaseInv, MadeInv, SweepLeavesNothing
<1>. QED BY <1>1, VastInvariant, PTL

\* A success that passed a cost guard which answered has left no instance of its own
\* (runner.py:310, 336-339).
THEOREM AuditedSuccessClean == VastSpec => AuditedSuccessLeavesNothing
<1>1. ASSUME VastInv, NEW c \in Callers, PostGuard(c, TRUE, TRUE), Alive # {}
      PROVE  rec'[run[c].job].status # "succeeded"
  <2>1. /\ ProcessInv(c) /\ run[c].pc = "postguard" /\ run[c].copy \in Record
        /\ rec \in [Jobs -> Record]
    BY <1>1 DEF VastInv, LeaseInv, LeaseTypeOK, Process, PostGuard, Holds
  <2>. DEFINE r == IF GuardBlocks(TRUE, TRUE) /\ ~run[c].copy.error THEN Failed(run[c].copy)
                   ELSE run[c].copy
  <2>2. GuardBlocks(TRUE, TRUE)
    BY <1>1 DEF GuardBlocks, Billable, Alive, Live
  <2>3. r.status # "succeeded"
    BY <2>1, <2>2, FailedType DEF ProcessInv
  <2>4. rec' = [rec EXCEPT ![run[c].job] = r] /\ run[c].job \in Jobs
    BY <1>1, <2>1 DEF PostGuard, Save, ProcessInv
  <2>. HIDE DEF r
  <2>. QED BY <2>1, <2>3, <2>4
<1>2. VastInv =>
        \A c \in Callers :
          PostGuard(c, TRUE, TRUE) /\ rec'[run[c].job].status = "succeeded" => run[c].made \cap Alive = {}
  BY <1>1
<1>. QED BY <1>2, VastInvariant, PTL DEF AuditedSuccessLeavesNothing

\* The reaper destroys no instance a process still uses in the first attempt of its job
\* (orphan_inventory.py:271-310).
THEOREM FirstAttemptSpared == VastSpec => ReaperSparesFirstAttempt
<1>1. ASSUME VastInv, NEW i \in Ids, Reaped(i), NEW c \in Callers, Uses(c, i)
      PROVE  retries[run[c].job] > 0
  <2>1. run[c].job \in Jobs /\ run[c].pc \in {"boot", "work"} /\ inst[i].label = run[c].job
    BY <1>1 DEF Uses, VastInv, LeaseInv, ProcessInv
  <2>2. retries[run[c].job] = 0 => rec[run[c].job].cleanup = "exited"
    BY <1>1, <2>1 DEF Reaped, VastInv, LeaseInv, ReaperInv
  <2>3. retries[run[c].job] # 0
    BY <1>1, <2>1, <2>2 DEF VastInv, LeaseInv, AttemptInv
  <2>. QED BY <1>1, <2>1, <2>3 DEF VastInv, LeaseInv, LeaseTypeOK
<1>2. VastInv =>
        \A i \in Ids : Reaped(i) => \A c \in Callers : Uses(c, i) => retries[run[c].job] > 0
  BY <1>1
<1>. QED BY <1>2, VastInvariant, PTL DEF ReaperSparesFirstAttempt

\* A probe of which nothing was lost leaves nothing of its own in the account
\* (scripts/vast-pyworker-serverless-contract-probe.py:184-203).
THEOREM TidyProbeClean == VastSpec => []TidyProbeLeavesNothing
<1>1. VastInv => TidyProbeLeavesNothing
  BY DEF VastInv, ServerlessInv, ProbeInv, TidyProbeLeavesNothing, ProbeAt, Endpoints, Groups
<1>. QED BY <1>1, VastInvariant, PTL

\* Nor does a probe that reports ok, although it looks at no delete
\* (_cleanup_ok, 574-590).
THEOREM ReportedOkClean == VastSpec => []ProbeOkLeavesNothing
<1>1. VastInv => ProbeOkLeavesNothing
  BY DEF VastInv, ServerlessInv, ProbeInv, ProbeOkLeavesNothing, Endpoints, Groups
<1>. QED BY <1>1, VastInvariant, PTL

\* Nothing deletes the deployment of an operator.
THEOREM OperatorDeploymentSpared == VastSpec => DeploymentSpared
<1>1. ASSUME VastInv, VastNext PROVE endpoint'[Known] = endpoint[Known] /\ group'[Known] = group[Known]
  <2>1. ASSUME NEW p \in Probes, ProbeStep(p)
        PROVE  endpoint'[Known] = endpoint[Known] /\ group'[Known] = group[Known]
    <3>1. ProbeEffect(p)
      BY <1>1, <2>1, ProbeStepEffect DEF VastInv, LeaseInv, ServerlessInv
    <3>. QED BY <3>1, ConstantFacts DEF ProbeEffect, Owners
  <2>2. ASSUME NEW j \in PyworkerJobs, TaskStep(j)
        PROVE  endpoint'[Known] = endpoint[Known] /\ group'[Known] = group[Known]
    BY <2>2 DEF TaskStep, TaskRuns, TaskDies, TaskAnswered, TaskGuarded, TaskAudited,
                TaskBecomes, SameAccount
  <2>. QED BY <1>1, <2>1, <2>2 DEF VastNext, serverlessVars
<1>2. VastInv /\ [VastNext]_vastVars =>
        [endpoint'[Known] = endpoint[Known] /\ group'[Known] = group[Known]]_vastVars
  BY <1>1
<1>. QED BY <1>2, VastInvariant, PTL DEF VastSpec, DeploymentSpared

\* A job that was sent to the deployment succeeds past a blind guard only
\* (runner.py:244-258, 336-339).
THEOREM DeploymentJobsFail == VastSpec => []DeploymentFailsItsJobs
<1>1. VastInv => DeploymentFailsItsJobs
  BY DEF VastInv, ServerlessInv, TaskInv, DeploymentFailsItsJobs
<1>. QED BY <1>1, VastInvariant, PTL
===============================================================================

--------------------------- MODULE DirectSubmission ---------------------------
(***************************************************************************)
(* Direct execution: POST /submit?execute=1 and gpu-job submit --execute.  *)
(* Each request runs submit_job in its own thread or process and reserves  *)
(* its slot under the lock of that slot (reserve_direct_execution_slot).   *)
(***************************************************************************)
EXTENDS Submission

CONSTANTS
  NoClient,       \* nobody holds the lock of a slot
  MortalClients   \* the clients whose process may die

ASSUME DirectAssumption ==
  /\ NoClient \notin Clients
  /\ MortalClients \subseteq Clients

VARIABLE capLock  \* the holder of locks/capacity-<provider>:<profile>.lock

directVars == <<store, wal, pc, mem, capLock>>

DirectPhases == {"idle"} \cup Pipeline

DirectTypeOK ==
  /\ SubTypeOK
  /\ \A c \in Clients : pc[c] \in DirectPhases
  /\ capLock \in [Slots -> Clients \cup {NoClient}]

DirectInit == SubInit /\ capLock = [s \in Slots |-> NoClient]

-------------------------------------------------------------------------------
(* Reservation *)

\* The slot of the job c submits.
ReservedSlot(c, j) == Slot(mem[c][j].selected, j)

\* submit_public_job builds a job with an id of its own and sends it to the
\* provider the caller names, or to the one route_job selects.
SubmitPublicJob(c, j, p) ==
  /\ pc[c] = "idle"
  /\ store[j].status = "absent" /\ \A a \in Actors : ~Holds(a, j)
  /\ Requested[j] \in {AutoProvider, p}
  /\ mem' = [mem EXCEPT ![c] = [@ EXCEPT ![j] = [Fresh("created") EXCEPT !.selected = p]]]
  /\ Goto(c, "gates")
  /\ UNCHANGED <<store, wal, capLock>>

\* One job too many.
FullOffByOne(s) == Limit[s] > 0 /\ Cardinality(ActiveOn(s)) > Limit[s]

\* Under the lock of the slot: as many active jobs as the limit allows.  A limit
\* of 0 refuses nobody here, while the worker dispatches nothing to such a slot.
Full(s) == Limit[s] > 0 /\ Cardinality(ActiveOn(s)) >= Limit[s]

\* A rejected job gets a status that is not one of VALID_STATUSES.
ReserveRejectedStatus(c, j, k) ==
  /\ pc[c] = "reserve" /\ Holds(c, j)
  /\ Full(ReservedSlot(c, j))
  /\ Save(c, j, [mem[c][j] EXCEPT !.status = "rejected"])
  /\ Goto(c, "result")
  /\ UNCHANGED <<wal, capLock>>

ReserveRejected(c, j, k) ==
  /\ pc[c] = "reserve" /\ Holds(c, j)
  /\ capLock[ReservedSlot(c, j)] = NoClient
  /\ Full(ReservedSlot(c, j))
  /\ k \in RetryableClasses                     \* class "backpressure", HTTP 429
  /\ Save(c, j, FailedWith(mem[c][j], k))
  /\ Goto(c, "result")
  /\ UNCHANGED <<wal, capLock>>

\* The count does not wait for the lock of the slot.
ReserveCountsUnlocked(c, j) ==
  /\ pc[c] = "reserve" /\ Holds(c, j)
  /\ ~Full(ReservedSlot(c, j))
  /\ capLock' = [capLock EXCEPT ![ReservedSlot(c, j)] = c]
  /\ Goto(c, "reserved")
  /\ UNCHANGED <<store, wal, mem>>

ReserveCounts(c, j) ==
  /\ pc[c] = "reserve" /\ Holds(c, j)
  /\ capLock[ReservedSlot(c, j)] = NoClient
  /\ ~Full(ReservedSlot(c, j))
  /\ capLock' = [capLock EXCEPT ![ReservedSlot(c, j)] = c]
  /\ Goto(c, "reserved")
  /\ UNCHANGED <<store, wal, mem>>

\* The lock is freed before the record is saved.
ReserveWithoutSave(c, j) ==
  /\ pc[c] = "reserved" /\ Holds(c, j)
  /\ capLock' = [capLock EXCEPT ![ReservedSlot(c, j)] = NoClient]
  /\ Goto(c, "log")
  /\ UNCHANGED <<store, wal, mem>>

ReserveSaves(c, j) ==
  /\ pc[c] = "reserved" /\ Holds(c, j)
  /\ Save(c, j, [mem[c][j] EXCEPT !.status = "starting"])
  /\ capLock' = [capLock EXCEPT ![ReservedSlot(c, j)] = NoClient]
  /\ Goto(c, "log")
  /\ UNCHANGED wal

\* The answer of the request; a failed direct job is not remediated.
Answer(c) ==
  /\ pc[c] = "result"
  /\ Goto(c, "idle")
  /\ Forget(c)
  /\ UNCHANGED <<store, wal, capLock>>

ClientCrash(c) ==
  /\ c \in MortalClients /\ pc[c] # "idle"
  /\ Goto(c, "idle")
  /\ Forget(c)
  /\ capLock' = [s \in Slots |-> IF capLock[s] = c THEN NoClient ELSE capLock[s]]
  /\ UNCHANGED <<store, wal>>

ClientStep(c) ==
  \/ \E j \in Jobs :
       \/ \E p \in Providers : SubmitPublicJob(c, j, p)
       \/ \E k \in RetryableClasses : ReserveRejected(c, j, k)
       \/ ReserveCounts(c, j)
       \/ ReserveSaves(c, j)
  \/ Answer(c)
  \/ SubmitStep(c) /\ UNCHANGED capLock

DirectNext == \E c \in Clients : ClientStep(c) \/ ClientCrash(c)

DirectSpec == DirectInit /\ [][DirectNext]_directVars

-------------------------------------------------------------------------------
(* Properties *)

\* Direct submissions by themselves never have more active jobs on a limited
\* slot than its limit: each counts and saves under the lock of the slot.
DirectCapacityRespected ==
  \A s \in Slots : Limit[s] > 0 => Cardinality(ActiveOn(s)) <= Limit[s]

\* A job is handed to a provider only from a slot it holds: its stored record
\* is active on that slot from the reservation to the provider's answer.
SubmittedHoldsSlot ==
  \A c \in Clients, j \in Jobs :
    pc[c] \in {"log", "call", "running"} /\ Holds(c, j) => j \in ActiveOn(ReservedSlot(c, j))

===============================================================================

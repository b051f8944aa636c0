--------------------------- MODULE SubmitGatesProof ---------------------------
(***************************************************************************)
(* What the gates promise, for every set of jobs, providers and limits.    *)
(***************************************************************************)
EXTENDS SubmitGatesProps, FiniteSetTheorems, SequenceTheorems, WellFoundedInduction, TLAPS

-------------------------------------------------------------------------------
(* What jobs cost together *)

\* A set of naturals that is not empty has a least element.
LEMMA LeastOf ==
  ASSUME NEW S, S \subseteq Nat, S # {}
  PROVE  \E x \in S : \A y \in S : x <= y
<1>1. PICK x \in S : \A y \in Nat : <<y, x>> \in OpToRel(<, Nat) => y \notin S
  BY WFMin, NatLessThanWellFounded, Zenon
<1>2. \A y \in S : ~(y < x)
  BY <1>1, Zenon DEF OpToRel
<1>. QED BY <1>2

Cost(j) == Request[j].cost.runtime

First(s) == CHOOSE j \in s : TRUE

\* g adds up the jobs of the subsets of S, one after the other.
Adds(g, S) ==
  g = [s \in SUBSET S |-> IF s = {} THEN 0 ELSE Cost(First(s)) + g[s \ {First(s)}]]

\* What the fold of the community modules computes.
LEMMA CostsUnfold ==
  ASSUME NEW S
  PROVE  RuntimeCosts(S) = (CHOOSE g : Adds(g, S))[S]
BY DEF RuntimeCosts, MapThenSumSet, MapThenFoldSet, Adds, Cost, First

LEMMA FirstIn ==
  ASSUME NEW S, S # {}
  PROVE  First(S) \in S
BY DEF First

\* Without one of its elements a set is smaller.
LEMMA Smaller ==
  ASSUME NEW S, IsFiniteSet(S), NEW j \in S
  PROVE  /\ IsFiniteSet(S \ {j}) /\ Cardinality(S) \in Nat
         /\ Cardinality(S \ {j}) \in Nat /\ Cardinality(S \ {j}) < Cardinality(S)
<1>1. IsFiniteSet(S \ {j}) /\ Cardinality(S \ {j}) = Cardinality(S) - 1
  BY FS_RemoveElement
<1>2. Cardinality(S) \in Nat /\ Cardinality(S \ {j}) \in Nat
  BY <1>1, FS_CardinalityType
<1>. QED BY <1>1, <1>2

\* A set of finite sets that is not empty has a smallest member.
LEMMA Smallest ==
  ASSUME NEW C, C # {}, \A S \in C : IsFiniteSet(S)
  PROVE  \E S \in C : \A T \in C : Cardinality(S) <= Cardinality(T)
<1>. DEFINE N == {Cardinality(S) : S \in C}
<1>1. N \subseteq Nat /\ N # {}
  BY FS_CardinalityType
<1>2. PICK n \in N : \A m \in N : n <= m
  BY <1>1, LeastOf
<1>. QED BY <1>2

\* There is at most one such function.
LEMMA AddsUnique ==
  ASSUME NEW S, IsFiniteSet(S), NEW g, NEW h, Adds(g, S), Adds(h, S)
  PROVE  g = h
<1>. DEFINE C == {s \in SUBSET S : g[s] # h[s]}
<1>1. ASSUME C # {} PROVE FALSE
  <2>1. \A s \in C : IsFiniteSet(s)
    BY FS_Subset
  <2>2. PICK s \in C : \A t \in C : Cardinality(s) <= Cardinality(t)
    BY <1>1, <2>1, Smallest
  <2>3. s # {}
    BY DEF Adds
  <2>4. PICK j \in s : j = First(s)
    BY <2>3, FirstIn
  <2>5. s \ {j} \notin C
    BY <2>1, <2>2, Smaller
  <2>6. g[s \ {j}] = h[s \ {j}]
    BY <2>5
  <2>7. g[s] = Cost(j) + g[s \ {j}] /\ h[s] = Cost(j) + h[s \ {j}]
    BY <2>3, <2>4 DEF Adds
  <2>. QED BY <2>6, <2>7
<1>2. \A s \in SUBSET S : g[s] = h[s]
  BY <1>1
<1>3. g = [s \in SUBSET S |-> g[s]] /\ h = [s \in SUBSET S |-> h[s]]
  BY DEF Adds
<1>. QED BY <1>2, <1>3

\* The jobs of a set up to a size can be added up; so can all.
LEMMA AddsExists ==
  ASSUME NEW S, IsFiniteSet(S), S \subseteq Asks
  PROVE  \E g \in [SUBSET S -> Nat] : Adds(g, S)
<1>. DEFINE Next(g) == [s \in SUBSET S |-> IF s = {} THEN 0 ELSE Cost(First(s)) + g[s \ {First(s)}]]
            UpTo(g, n) == \A s \in SUBSET S : Cardinality(s) <= n => g[s] = Next(g)[s]
            Bad == {n \in Nat : ~\E g \in [SUBSET S -> Nat] : UpTo(g, n)}
<1>c. \A j \in Asks : Cost(j) \in Nat
  BY QuotaAssumption DEF Cost
<1>f. \A s \in SUBSET S : IsFiniteSet(s) /\ Cardinality(s) \in Nat
  BY FS_Subset, FS_CardinalityType
<1>n. ASSUME NEW g \in [SUBSET S -> Nat] PROVE Next(g) \in [SUBSET S -> Nat]
  <2>1. ASSUME NEW s \in SUBSET S, s # {} PROVE Cost(First(s)) + g[s \ {First(s)}] \in Nat
    BY <1>c, <2>1, FirstIn
  <2>. QED BY <2>1
<1>1. ASSUME Bad # {} PROVE FALSE
  <2>1. PICK n \in Bad : \A m \in Bad : n <= m
    BY <1>1, LeastOf
  <2>2. n # 0
    <3>1. PICK g \in [SUBSET S -> Nat] : g = [s \in SUBSET S |-> 0]
      OBVIOUS
    <3>2. \A s \in SUBSET S : Cardinality(s) <= 0 => s = {}
      BY <1>f, FS_EmptySet
    <3>3. UpTo(g, 0)
      BY <3>1, <3>2
    <3>. QED BY <3>3
  <2>3. PICK g \in [SUBSET S -> Nat] : UpTo(g, n - 1)
    <3>1. n - 1 \in Nat /\ ~(n <= n - 1)
      BY <2>2
    <3>. QED BY <2>1, <3>1
  <2>4. PICK h \in [SUBSET S -> Nat] : h = Next(g)
    BY <1>n
  <2>5. ASSUME NEW s \in SUBSET S, Cardinality(s) <= n PROVE h[s] = Next(h)[s]
    <3>1. CASE s = {}
      BY <2>4, <3>1
    <3>2. CASE s # {}
      <4>1. PICK j \in s : j = First(s)
        BY <3>2, FirstIn
      <4>2. PICK t \in SUBSET S : t = s \ {j}
        OBVIOUS
      <4>3. Cardinality(t) <= n - 1
        BY <1>f, <2>5, <4>2, Smaller
      <4>4. g[t] = Next(g)[t]
        BY <2>3, <4>3
      <4>5. h[t] = g[t]
        BY <2>4, <4>4
      <4>6. h[s] = Cost(j) + g[t]
        BY <2>4, <3>2, <4>1, <4>2
      <4>7. Next(h)[s] = Cost(j) + h[t]
        BY <3>2, <4>1, <4>2
      <4>. QED BY <4>5, <4>6, <4>7
    <3>. QED BY <3>1, <3>2
  <2>6. UpTo(h, n)
    BY <2>5
  <2>. QED BY <2>1, <2>6
<1>2. Cardinality(S) \in Nat
  BY <1>f
<1>3. PICK g \in [SUBSET S -> Nat] : UpTo(g, Cardinality(S))
  BY <1>1, <1>2
<1>4. \A s \in SUBSET S : Cardinality(s) <= Cardinality(S)
  BY FS_Subset
<1>5. g = Next(g)
  <2>1. Next(g) \in [SUBSET S -> Nat]
    BY <1>n
  <2>2. \A s \in SUBSET S : g[s] = Next(g)[s]
    BY <1>3, <1>4
  <2>. HIDE DEF Next
  <2>. QED BY <2>1, <2>2
<1>. QED BY <1>5 DEF Adds

\* So the costs of a set of jobs are those of one of them and of the others.
LEMMA CostsStep ==
  ASSUME NEW S, S \subseteq Asks
  PROVE  /\ RuntimeCosts(S) \in Nat
         /\ S = {} => RuntimeCosts(S) = 0
         /\ S # {} => RuntimeCosts(S) = Cost(First(S)) + RuntimeCosts(S \ {First(S)})
<1>1. IsFiniteSet(S) /\ IsFiniteSet(S \ {First(S)})
  BY QuotaAssumption, FS_Subset
<1>2. PICK g \in [SUBSET S -> Nat] : Adds(g, S)
  BY <1>1, AddsExists
<1>3. RuntimeCosts(S) = g[S]
  <2>1. Adds(CHOOSE h : Adds(h, S), S)
    BY <1>2
  <2>2. g = CHOOSE h : Adds(h, S)
    BY <1>1, <1>2, <2>1, AddsUnique
  <2>. QED BY <2>2, CostsUnfold
<1>4. RuntimeCosts(S) \in Nat
  BY <1>2, <1>3
<1>5. CASE S = {}
  BY <1>2, <1>3, <1>4, <1>5 DEF Adds
<1>6. CASE S # {}
  <2>1. PICK j \in S : j = First(S)
    BY <1>6, FirstIn
  <2>2. PICK T \in SUBSET S : T = S \ {j}
    OBVIOUS
  <2>3. PICK h : h = [s \in SUBSET T |-> g[s]]
    OBVIOUS
  <2>4. Adds(h, T)
    <3>1. ASSUME NEW s \in SUBSET T, s # {}
          PROVE  h[s \ {First(s)}] = g[s \ {First(s)}]
      BY <2>3
    <3>2. \A s \in SUBSET T : h[s] = IF s = {} THEN 0 ELSE Cost(First(s)) + h[s \ {First(s)}]
      BY <1>2, <2>3, <3>1 DEF Adds
    <3>. QED BY <2>3, <3>2 DEF Adds
  <2>5. RuntimeCosts(T) = h[T]
    <3>1. Adds(CHOOSE f : Adds(f, T), T)
      BY <2>4
    <3>2. h = CHOOSE f : Adds(f, T)
      BY <1>1, <2>1, <2>2, <2>4, <3>1, AddsUnique
    <3>. QED BY <3>2, CostsUnfold
  <2>6. g[S] = Cost(j) + g[T]
    BY <1>2, <1>6, <2>1, <2>2 DEF Adds
  <2>. QED BY <1>3, <1>4, <1>6, <2>1, <2>2, <2>3, <2>5, <2>6
<1>. QED BY <1>4, <1>5, <1>6

\* Whichever of them it is.
LEMMA CostsWith ==
  ASSUME NEW S, S \subseteq Asks, NEW j \in S
  PROVE  RuntimeCosts(S) = Cost(j) + RuntimeCosts(S \ {j})
<1>. DEFINE Bad == {s \in SUBSET Asks : \E i \in s : RuntimeCosts(s) # Cost(i) + RuntimeCosts(s \ {i})}
<1>1. ASSUME Bad # {} PROVE FALSE
  <2>1. \A s \in Bad : IsFiniteSet(s)
    BY QuotaAssumption, FS_Subset
  <2>2. PICK s \in Bad : \A t \in Bad : Cardinality(s) <= Cardinality(t)
    BY <1>1, <2>1, Smallest
  <2>3. PICK i \in s : RuntimeCosts(s) # Cost(i) + RuntimeCosts(s \ {i})
    OBVIOUS
  <2>4. PICK k \in s : k = First(s)
    BY <2>3, FirstIn
  <2>5. RuntimeCosts(s) = Cost(k) + RuntimeCosts(s \ {k}) /\ i # k
    BY <2>3, <2>4, CostsStep
  <2>6. s \ {k} \notin Bad /\ s \ {i} \notin Bad
    <3>1. ASSUME NEW x \in s PROVE s \ {x} \notin Bad
      <4>1. /\ Cardinality(s) \in Nat /\ Cardinality(s \ {x}) \in Nat
            /\ Cardinality(s \ {x}) < Cardinality(s)
        BY <2>1, Smaller
      <4>. QED BY <2>2, <4>1
    <3>. QED BY <3>1
  <2>7. /\ RuntimeCosts(s \ {k}) = Cost(i) + RuntimeCosts((s \ {k}) \ {i})
        /\ RuntimeCosts(s \ {i}) = Cost(k) + RuntimeCosts((s \ {i}) \ {k})
    BY <2>5, <2>6
  <2>8. (s \ {k}) \ {i} = (s \ {i}) \ {k}
    OBVIOUS
  <2>9. /\ Cost(i) \in Nat /\ Cost(k) \in Nat
        /\ RuntimeCosts((s \ {i}) \ {k}) \in Nat
    BY QuotaAssumption, CostsStep DEF Cost
  <2>. QED BY <2>3, <2>5, <2>7, <2>8, <2>9
<1>. QED BY <1>1

\* The costs of some of the jobs of two sets are at most those of both.
LEMMA CostsWithin ==
  ASSUME NEW S, NEW T, NEW U, S \subseteq T \cup U, T \subseteq Asks, U \subseteq Asks
  PROVE  RuntimeCosts(S) <= RuntimeCosts(T) + RuntimeCosts(U)
<1>. DEFINE Bad == {s \in SUBSET Asks : \E t, u \in SUBSET Asks :
                      /\ s \subseteq t \cup u
                      /\ ~(RuntimeCosts(s) <= RuntimeCosts(t) + RuntimeCosts(u))}
<1>1. ASSUME Bad # {} PROVE FALSE
  <2>1. \A s \in Bad : IsFiniteSet(s)
    BY QuotaAssumption, FS_Subset
  <2>2. PICK s \in Bad : \A t \in Bad : Cardinality(s) <= Cardinality(t)
    BY <1>1, <2>1, Smallest
  <2>3. PICK t \in SUBSET Asks, u \in SUBSET Asks :
          s \subseteq t \cup u /\ ~(RuntimeCosts(s) <= RuntimeCosts(t) + RuntimeCosts(u))
    OBVIOUS
  <2>4. RuntimeCosts(t) \in Nat /\ RuntimeCosts(u) \in Nat
    BY CostsStep
  <2>5. s # {}
    <3>1. s = {} => RuntimeCosts(s) = 0
      BY CostsStep
    <3>. QED BY <2>3, <2>4, <3>1
  <2>6. PICK j \in s : TRUE
    BY <2>5
  <2>7. s \ {j} \notin Bad
    <3>1. /\ Cardinality(s) \in Nat /\ Cardinality(s \ {j}) \in Nat
          /\ Cardinality(s \ {j}) < Cardinality(s)
      BY <2>1, Smaller
    <3>. QED BY <2>2, <3>1
  <2>8. RuntimeCosts(s) = Cost(j) + RuntimeCosts(s \ {j})
    BY CostsWith
  <2>9. Cost(j) \in Nat /\ RuntimeCosts(s \ {j}) \in Nat
    BY QuotaAssumption, CostsStep DEF Cost
  <2>10. CASE j \in t
    <3>1. RuntimeCosts(s \ {j}) <= RuntimeCosts(t \ {j}) + RuntimeCosts(u \ {j})
      BY <2>3, <2>7
    <3>2. RuntimeCosts(t) = Cost(j) + RuntimeCosts(t \ {j}) /\ RuntimeCosts(t \ {j}) \in Nat
      BY <2>10, CostsWith, CostsStep
    <3>3. RuntimeCosts(u \ {j}) \in Nat /\ RuntimeCosts(u \ {j}) <= RuntimeCosts(u)
      <4>1. CASE j \in u
        <5>1. RuntimeCosts(u) = Cost(j) + RuntimeCosts(u \ {j})
          BY <4>1, CostsWith
        <5>2. RuntimeCosts(u \ {j}) \in Nat
          BY CostsStep
        <5>. QED BY <2>9, <5>1, <5>2
      <4>2. CASE j \notin u
        <5>1. u \ {j} = u
          BY <4>2
        <5>. QED BY <2>4, <5>1
      <4>. QED BY <4>1, <4>2
    <3>. QED BY <2>3, <2>4, <2>8, <2>9, <3>1, <3>2, <3>3
  <2>11. CASE j \in u /\ j \notin t
    <3>1. RuntimeCosts(s \ {j}) <= RuntimeCosts(t) + RuntimeCosts(u \ {j})
      BY <2>3, <2>7, <2>11
    <3>2. RuntimeCosts(u) = Cost(j) + RuntimeCosts(u \ {j}) /\ RuntimeCosts(u \ {j}) \in Nat
      BY <2>11, CostsWith, CostsStep
    <3>. QED BY <2>3, <2>4, <2>8, <2>9, <3>1, <3>2
  <2>. QED BY <2>3, <2>10, <2>11
<1>. QED BY <1>1

-------------------------------------------------------------------------------
(* Sequences *)

LEMMA MinIn ==
  ASSUME NEW S, S \subseteq Nat, S # {}
  PROVE  Min(S) \in S
BY LeastOf DEF Min

LEMMA RemovedTyped ==
  ASSUME NEW S, NEW s \in Seq(S), NEW e
  PROVE  RemoveFirst(s, e) \in Seq(S)
<1>1. CASE ~\E i \in 1..Len(s) : s[i] = e
  BY <1>1 DEF RemoveFirst
<1>2. CASE \E i \in 1..Len(s) : s[i] = e
  <2>. DEFINE I == {i \in 1..Len(s) : s[i] = e}
  <2>1. Len(s) \in Nat /\ I \subseteq Nat /\ I # {}
    BY <1>2
  <2>2. PICK k \in 1..Len(s) : k = Min(I)
    BY <2>1, MinIn
  <2>3. RemoveFirst(s, e) = RemoveAt(s, k)
    BY <1>2, <2>1, <2>2 DEF RemoveFirst, SelectInSeq
  <2>4. SubSeq(s, 1, k - 1) \in Seq(S) /\ SubSeq(s, k + 1, Len(s)) \in Seq(S)
    BY SubSeqProperties
  <2>. QED BY <2>3, <2>4, ConcatProperties DEF RemoveAt
<1>. QED BY <1>1, <1>2

\* A sequence of the elements of a finite set.
LEMMA ListTyped ==
  ASSUME NEW S, IsFiniteSet(S)
  PROVE  SetToSeq(S) \in Seq(S) /\ Len(SetToSeq(S)) = Cardinality(S)
<1>1. Cardinality(S) \in Nat /\ ExistsBijection(1..Cardinality(S), S)
  BY FS_CardinalityType
<1>2. \E f \in [1..Cardinality(S) -> S] : IsInjective(f)
  BY <1>1 DEF ExistsBijection, Bijection, Injection
<1>3. SetToSeq(S) \in [1..Cardinality(S) -> S]
  BY <1>2 DEF SetToSeq
<1>. QED BY <1>1, <1>3

-------------------------------------------------------------------------------
(* The invariant *)

Statuses == {"absent", "queued", "starting", "active", "succeeded", "failed", "cancelled"}

Stamps == [provider : Providers \cup {Nobody}, snapshot : 0..MaxProbes, proven : BOOLEAN]

Records ==
  [status : Statuses, provider : Providers \cup {Nobody}, circuitProbe : BOOLEAN,
   retried : BOOLEAN, mismatch : BOOLEAN, stamp : Stamps]

\* A thread in submit_job has a job nobody else touches: one the worker started, or
\* one that is on no record yet.
Alone ==
  \A j \in Asks :
    /\ rec[j].status \in {"queued", "starting"} => j \in Queued
    /\ phase[j] # "none" => rec[j].status = (IF j \in Queued THEN "starting" ELSE "absent")

\* What counts as charged counts for the quota.
Counted == \A j \in charged : rec[j].status \notin {"absent", "cancelled"}

\* The runtime was proven when the plan was made, and only a record may have changed that.
Shown(j) ==
  Request[j].backends # {} /\ ~Request[j].isProbe => Proven(rec[j].provider) \/ j \in overtaken

\* The jobs that were charged before j looked at the quota, and j.
Seen(j) == {i \in charged : Request[i].source = Request[j].source /\ i \notin beside[j]} \cup {j}

Spare(j) == Budget[Request[j].source] # 0 => RuntimeCosts(Seen(j)) <= Budget[Request[j].source]

GatesInv ==
  /\ GatesTypeOK
  /\ Alone
  /\ Counted
  /\ \A j \in Asks : phase[j] \in {"planned", "cleared"} => Shown(j)
  /\ \A i, j \in UnderWay : i # j => i \in beside[j]
  /\ \A j \in UnderWay : Spare(j)

LEMMA TypeRecords ==
  ASSUME GatesTypeOK
  PROVE  /\ rec \in [Asks -> Records] /\ recent \in Seq(Asks)
         /\ \A j \in Asks : /\ rec[j].provider \in Providers \cup {Nobody} /\ rec[j].stamp \in Stamps
                            /\ rec[j].status \in Statuses
BY DEF GatesTypeOK, Records, Statuses, Stamps

LEMMA RecordsTyped ==
  ASSUME rec \in [Asks -> Records], recent \in Seq(Asks), phase \in [Asks -> Phases],
         charged \subseteq Asks, beside \in [Asks -> SUBSET Asks], overtaken \subseteq Asks,
         up \subseteq Providers, snapshot \in 0..MaxProbes,
         probeLog \in Seq(Probed \X BOOLEAN), Len(probeLog) <= ProbeLog
  PROVE  GatesTypeOK
BY DEF GatesTypeOK, Records, Statuses, Stamps

\* The submissions under way are among those that are asked for.
LEMMA UnderWayTyped ==
  ASSUME GatesTypeOK
  PROVE  /\ UnderWay \subseteq Asks
         /\ \A j \in Asks : j \in UnderWay <=> phase[j] \in {"inQuota", "planned", "cleared"}
BY DEF GatesTypeOK, UnderWay

LEMMA CostsBelow ==
  ASSUME NEW S, NEW T, S \subseteq T, T \subseteq Asks
  PROVE  RuntimeCosts(S) <= RuntimeCosts(T) /\ RuntimeCosts(S) \in Nat /\ RuntimeCosts(T) \in Nat
<1>1. RuntimeCosts(S) <= RuntimeCosts(T) + RuntimeCosts({})
  BY CostsWithin
<1>2. RuntimeCosts({}) = 0 /\ RuntimeCosts(S) \in Nat /\ RuntimeCosts(T) \in Nat
  BY CostsStep
<1>. QED BY <1>1, <1>2

LEMMA CostsOfOne ==
  ASSUME NEW j \in Asks
  PROVE  RuntimeCosts({j}) = Request[j].cost.runtime
<1>1. RuntimeCosts({j}) = Cost(j) + RuntimeCosts({j} \ {j}) /\ {j} \ {j} = {}
  BY CostsWith
<1>2. RuntimeCosts({}) = 0
  BY CostsStep
<1>. QED BY <1>1, <1>2, QuotaAssumption DEF Cost

\* Who is charged less, or has met more, has as much to spare.
LEMMA SparesMore ==
  ASSUME GatesTypeOK, NEW j \in Asks, Spare(j), Seen(j)' \subseteq Seen(j)
  PROVE  Spare(j)'
<1>1. Seen(j) \subseteq Asks
  BY DEF Seen, GatesTypeOK
<1>2. CASE Budget[Request[j].source] # 0
  <2>. DEFINE B == Budget[Request[j].source]
  <2>1. RuntimeCosts(Seen(j)) <= B /\ B \in Nat
    BY <1>2, QuotaAssumption DEF Spare
  <2>2. PICK S : S = Seen(j)'
    OBVIOUS
  <2>3. RuntimeCosts(S) <= RuntimeCosts(Seen(j)) /\ RuntimeCosts(S) \in Nat /\ RuntimeCosts(Seen(j)) \in Nat
    BY <1>1, <2>2, CostsBelow
  <2>4. RuntimeCosts(S) <= B
    BY <2>1, <2>3
  <2>. QED BY <2>2, <2>4 DEF Spare
<1>3. CASE Budget[Request[j].source] = 0
  BY <1>3 DEF Spare
<1>. QED BY <1>2, <1>3

\* A step of one thread, or of an operator on its job.  The others' threads and records
\* stay; they have met the thread when it is charged.
LEMMA StepKeeps ==
  ASSUME GatesInv, NEW j \in Asks,
         rec' \in [Asks -> Records], \A i \in Asks : i # j => rec'[i] = rec[i],
         recent' \in Seq(Asks),
         phase' \in [Asks -> Phases], \A i \in Asks : i # j => phase'[i] = phase[i],
         rec'[j].status \in {"queued", "starting"} => j \in Queued,
         phase'[j] # "none" => rec'[j].status = (IF j \in Queued THEN "starting" ELSE "absent"),
         charged' \subseteq charged \cup {j},
         j \in charged' => rec'[j].status \notin {"absent", "cancelled"},
         j \in charged' => j \in charged \/ j \in UnderWay,
         beside' \in [Asks -> SUBSET Asks], \A i \in Asks : i # j => beside[i] \subseteq beside'[i],
         overtaken' \subseteq Asks, \A i \in Asks : i # j => (i \in overtaken => i \in overtaken'),
         phase'[j] \in {"planned", "cleared"} => Shown(j)',
         phase'[j] \in {"inQuota", "planned", "cleared"} =>
           Spare(j)' /\ \A i \in UnderWay : i # j => i \in beside'[j] /\ j \in beside'[i],
         UNCHANGED around
  PROVE  GatesInv'
<1>t. /\ GatesTypeOK /\ charged \subseteq Asks /\ beside \in [Asks -> SUBSET Asks]
      /\ UNCHANGED <<up, snapshot, probeLog>>
  BY DEF GatesInv, GatesTypeOK, around
<1>1. GatesTypeOK'
  <2>1. /\ charged' \subseteq Asks
        /\ up' \subseteq Providers /\ snapshot' \in 0..MaxProbes
        /\ probeLog' \in Seq(Probed \X BOOLEAN) /\ Len(probeLog') <= ProbeLog
    BY <1>t DEF GatesTypeOK
  <2>. QED BY <2>1 DEF GatesTypeOK, Records, Statuses, Stamps
<1>2. Alone'
  BY DEF GatesInv, Alone, Queued
<1>3. Counted'
  BY <1>t DEF GatesInv, Counted
<1>4. \A i \in Asks : phase'[i] \in {"planned", "cleared"} => Shown(i)'
  <2>1. ASSUME NEW i \in Asks, i # j, phase'[i] \in {"planned", "cleared"} PROVE Shown(i)'
    <3>1. Shown(i) /\ rec'[i] = rec[i]
      BY <2>1 DEF GatesInv
    <3>. QED BY <1>t, <2>1, <3>1 DEF Shown, Proven
  <2>. QED BY <2>1
<1>u. /\ UnderWay \subseteq Asks /\ UnderWay' \subseteq Asks
      /\ \A i \in Asks : i \in UnderWay <=> phase[i] \in {"inQuota", "planned", "cleared"}
      /\ \A i \in Asks : i \in UnderWay' <=> phase'[i] \in {"inQuota", "planned", "cleared"}
  BY <1>t DEF GatesTypeOK, UnderWay
<1>5. \A i, k \in UnderWay' : i # k => i \in beside'[k]
  <2>1. ASSUME NEW i \in UnderWay', NEW k \in UnderWay', i # k PROVE i \in beside'[k]
    <3>1. CASE i # j /\ k # j
      BY <1>t, <1>u, <2>1, <3>1 DEF GatesInv
    <3>2. CASE k = j
      BY <1>u, <2>1, <3>2
    <3>3. CASE i = j
      BY <1>u, <2>1, <3>3
    <3>. QED BY <3>1, <3>2, <3>3
  <2>. QED BY <2>1
<1>6. \A i \in UnderWay' : Spare(i)'
  <2>1. ASSUME NEW i \in UnderWay', i # j PROVE Spare(i)'
    <3>1. i \in UnderWay /\ i \in Asks /\ Spare(i)
      BY <1>u, <2>1 DEF GatesInv
    <3>2. j \in charged' /\ j \notin charged => j \in beside[i]
      BY <2>1, <3>1 DEF GatesInv
    <3>3. Seen(i)' \subseteq Seen(i)
      BY <1>t, <2>1, <3>1, <3>2 DEF Seen
    <3>. QED BY <1>t, <3>1, <3>3, SparesMore
  <2>. QED BY <1>u, <2>1
<1>. QED BY <1>1, <1>2, <1>3, <1>4, <1>5, <1>6 DEF GatesInv

-------------------------------------------------------------------------------
(* submit_job *)

LEMMA RequestTyped ==
  \A j \in Asks : /\ Request[j].asked \in Providers \cup {AnyProvider}
                  /\ Request[j].quoted \in Providers \cup {Nobody}
BY AskedAssumption

\* Only providers there are are chosen.
LEMMA RoutedTyped ==
  ASSUME NEW j \in Asks
  PROVE  Routes(j) \subseteq Providers
BY GatesAssumption DEF Routes, Names

LEMMA SelectedTyped ==
  ASSUME NEW j \in Asks, NEW p \in Providers \cup {AnyProvider, Nobody}
  PROVE  Selected(j, p) \subseteq Providers \cup {Nobody}
<1>1. Request[j].quoted \in Providers \cup {Nobody} /\ Routes(j) \subseteq Providers
  BY RoutedTyped, RequestTyped
<1>. QED BY <1>1 DEF Selected

LEMMA PlanTyped ==
  ASSUME GatesTypeOK, NEW j \in Asks, NEW p \in Providers \cup {Nobody}
  PROVE  Plan(j, p) \in Stamps /\ PlanFor(j, p) \in Stamps /\ Plan(j, p).provider = p
<1>1. (Request[j].isProbe \/ Proven(p)) \in BOOLEAN
  OBVIOUS
<1>2. snapshot \in 0..MaxProbes /\ rec[j].stamp \in Stamps
  BY TypeRecords DEF GatesTypeOK
<1>. QED BY <1>1, <1>2 DEF Plan, PlanFor, Stamps

\* What a refused job leaves behind.
LEMMA RefusesKeeps ==
  ASSUME GatesInv, NEW j \in Asks, NEW r \in Records, Refuses(j, r), UNCHANGED around
  PROVE  GatesInv' /\ \A i \in Asks : ~ReachesProvider(i)
<1>t. /\ GatesTypeOK /\ rec \in [Asks -> Records] /\ recent \in Seq(Asks)
      /\ phase \in [Asks -> Phases] /\ beside \in [Asks -> SUBSET Asks] /\ overtaken \subseteq Asks
  BY TypeRecords DEF GatesInv, GatesTypeOK
<1>f. [r EXCEPT !.status = "failed"] \in Records /\ [r EXCEPT !.status = "failed"].status = "failed"
  BY DEF Records, Statuses
<1>1. PICK f \in Records : f = [r EXCEPT !.status = "failed"] /\ f.status = "failed"
  BY <1>f
<1>2. /\ rec' \in [Asks -> Records] /\ \A i \in Asks : i # j => rec'[i] = rec[i]
      /\ rec'[j].status = "failed"
  BY <1>t, <1>1 DEF Refuses, Ends
<1>3. recent' \in Seq(Asks)
  BY <1>t, RemovedTyped, AppendProperties DEF Refuses, Ends
<1>4. /\ phase' \in [Asks -> Phases] /\ \A i \in Asks : i # j => phase'[i] = phase[i]
      /\ phase'[j] = "none"
  BY <1>t DEF Refuses, Leaves, Phases
<1>5. /\ beside' \in [Asks -> SUBSET Asks] /\ \A i \in Asks : i # j => beside[i] \subseteq beside'[i]
      /\ overtaken' = overtaken \ {j} /\ charged' = charged
  BY <1>t DEF Refuses, Leaves
<1>6. GatesInv'
  BY <1>t, <1>2, <1>3, <1>4, <1>5, StepKeeps
<1>. QED BY <1>2, <1>6 DEF ReachesProvider

\* A thread that goes on without being charged.
LEMMA GoesKeeps ==
  ASSUME GatesInv, NEW j \in Asks, NEW to \in Phases, NEW r \in Records, Goes(j, to, r),
         r.status = (IF j \in Queued THEN "starting" ELSE "absent"),
         beside' \in [Asks -> SUBSET Asks], \A i \in Asks : i # j => beside[i] \subseteq beside'[i],
         to \in {"planned", "cleared"} => Shown(j)',
         to \in {"inQuota", "planned", "cleared"} =>
           Spare(j)' /\ \A i \in UnderWay : i # j => i \in beside'[j] /\ j \in beside'[i],
         rec[j].status = r.status,
         UNCHANGED <<charged, overtaken, around>>
  PROVE  GatesInv' /\ \A i \in Asks : ~ReachesProvider(i)
<1>t. /\ GatesTypeOK /\ rec \in [Asks -> Records] /\ recent \in Seq(Asks)
      /\ phase \in [Asks -> Phases] /\ overtaken \subseteq Asks
  BY TypeRecords DEF GatesInv, GatesTypeOK
<1>1. /\ rec' \in [Asks -> Records] /\ \A i \in Asks : i # j => rec'[i] = rec[i]
      /\ rec'[j] = r /\ recent' \in Seq(Asks)
  BY <1>t DEF Goes
<1>2. /\ phase' \in [Asks -> Phases] /\ \A i \in Asks : i # j => phase'[i] = phase[i]
      /\ phase'[j] = to
  BY <1>t DEF Goes
<1>3. /\ rec'[j].status \in {"queued", "starting"} => j \in Queued
      /\ j \in charged' => rec'[j].status \notin {"absent", "cancelled"}
  BY <1>1 DEF GatesInv, Counted
<1>4. GatesInv'
  BY <1>t, <1>1, <1>2, <1>3, StepKeeps
<1>. QED BY <1>1, <1>4 DEF ReachesProvider

LEMMA GateKeeps ==
  ASSUME GatesInv, NEW j \in Asks, NEW p \in Providers \cup {AnyProvider, Nobody},
         rec[j].status = (IF j \in Queued THEN "starting" ELSE "absent"),
         Gate(j, p)
  PROVE  GatesInv' /\ \A i \in Asks : ~ReachesProvider(i)
<1>t. GatesTypeOK /\ rec[j] \in Records /\ beside \in [Asks -> SUBSET Asks] /\ UNCHANGED around
  BY TypeRecords DEF GatesInv, GatesTypeOK, Gate
<1>1. CASE Conflicts(j, p)
  <2>1. PICK r \in Records : r = [rec[j] EXCEPT !.provider = p, !.mismatch = TRUE]
    <3>1. p \in Providers \cup {Nobody}
      BY <1>1 DEF Conflicts
    <3>. QED BY <1>t, <3>1 DEF Records
  <2>. QED BY <1>t, <1>1, <2>1, RefusesKeeps DEF Gate
<1>2. CASE ~Conflicts(j, p)
  <2>1. PICK q \in Selected(j, p) : Goes(j, "selected", WithCircuit(j, q)) /\ UNCHANGED history
    BY <1>2 DEF Gate
  <2>2. q \in Providers \cup {Nobody}
    BY SelectedTyped
  <2>3. PICK r \in Records : r = WithCircuit(j, q) /\ r.status = rec[j].status
    <3>1. (rec[j].circuitProbe \/ Open(q)) \in BOOLEAN
      OBVIOUS
    <3>2. WithCircuit(j, q) \in Records /\ WithCircuit(j, q).status = rec[j].status
      BY <1>t, <2>2, <3>1 DEF WithCircuit, Records
    <3>. QED BY <3>2
  <2>4. "selected" \in Phases /\ UNCHANGED <<charged, beside, overtaken>>
    BY <2>1 DEF Phases, history
  <2>. QED BY <1>t, <2>1, <2>3, <2>4, GoesKeeps
<1>. QED BY <1>1, <1>2

\* Who passes the quota has what it costs left besides all that is charged; who is
\* under way, and may be charged later, meets it.
LEMMA CheckQuotaKeeps ==
  ASSUME GatesInv, NEW j \in Asks, CheckQuota(j)
  PROVE  GatesInv' /\ \A i \in Asks : ~ReachesProvider(i)
<1>t. /\ GatesTypeOK /\ rec[j] \in Records /\ beside \in [Asks -> SUBSET Asks] /\ charged \subseteq Asks
      /\ UNCHANGED <<charged, overtaken, around>>
      /\ rec[j].status = (IF j \in Queued THEN "starting" ELSE "absent")
      /\ UnderWay \subseteq Asks
      /\ "inQuota" \in Phases /\ "overQuota" \in Phases
  BY TypeRecords, UnderWayTyped DEF GatesInv, GatesTypeOK, CheckQuota, Alone, Phases
<1>1. CASE WithinQuota(j)
  <2>1. Goes(j, "inQuota", rec[j])
    BY <1>1 DEF CheckQuota
  <2>2. beside' = [i \in Asks |-> IF i = j THEN UnderWay
                                 ELSE IF i \in UnderWay THEN beside[i] \cup {j} ELSE beside[i]]
    BY <1>1 DEF CheckQuota
  <2>3. /\ beside' \in [Asks -> SUBSET Asks] /\ beside'[j] = UnderWay
        /\ \A i \in Asks : i # j => beside[i] \subseteq beside'[i]
        /\ \A i \in UnderWay : i # j => j \in beside'[i]
    BY <1>t, <2>2
  <2>4. Spare(j)'
    <3>. DEFINE s == Request[j].source
                A == {i \in Asks : Recorded(i) /\ rec[i].status # "cancelled" /\ Request[i].source = s}
    <3>1. CASE Budget[s] # 0
      <4>1. PICK S : S = Seen(j)'
        OBVIOUS
      <4>2. S \subseteq A \cup {j} /\ A \subseteq Asks /\ {j} \subseteq Asks
        BY <1>t, <2>3, <4>1 DEF Seen, GatesInv, Counted, Recorded
      <4>3. RuntimeCosts(A) + Request[j].cost.runtime <= Budget[s]
        BY <1>1, <3>1 DEF WithinQuota, Committed
      <4>. HIDE DEF A
      <4>4. RuntimeCosts(S) <= RuntimeCosts(A) + RuntimeCosts({j})
        BY <4>2, CostsWithin
      <4>5. RuntimeCosts({j}) = Request[j].cost.runtime
        BY CostsOfOne
      <4>6. RuntimeCosts(S) <= Budget[s]
        <5>1. /\ RuntimeCosts(S) \in Nat /\ RuntimeCosts(A) \in Nat
              /\ Request[j].cost.runtime \in Nat /\ Budget[s] \in Nat
          <6>1. S \subseteq Asks
            BY <4>2
          <6>. QED BY <4>2, <6>1, CostsStep, QuotaAssumption
        <5>. QED BY <4>3, <4>4, <4>5, <5>1
      <4>. QED BY <4>1, <4>6 DEF Spare
    <3>2. CASE Budget[s] = 0
      BY <3>2 DEF Spare
    <3>. QED BY <3>1, <3>2
  <2>. QED BY <1>t, <2>1, <2>3, <2>4, GoesKeeps
<1>2. CASE ~WithinQuota(j)
  <2>1. Goes(j, "overQuota", rec[j]) /\ beside' = beside
    BY <1>2 DEF CheckQuota
  <2>. QED BY <1>t, <2>1, GoesKeeps
<1>. QED BY <1>1, <1>2

\* The plan a job passes with is the current one, and so is its proof.
LEMMA PlanWorkspaceKeeps ==
  ASSUME GatesInv, NEW j \in Asks, PlanWorkspace(j)
  PROVE  GatesInv' /\ \A i \in Asks : ~ReachesProvider(i)
<1>t. /\ GatesTypeOK /\ rec[j] \in Records /\ rec \in [Asks -> Records]
      /\ beside \in [Asks -> SUBSET Asks] /\ UNCHANGED around
      /\ rec[j].status = (IF j \in Queued THEN "starting" ELSE "absent")
      /\ "planned" \in Phases
  BY TypeRecords DEF GatesInv, GatesTypeOK, PlanWorkspace, Alone, Phases
<1>1. PICK p \in Providers \cup {Nobody}, plan \in Stamps :
        /\ p = rec[j].provider /\ plan = PlanFor(j, p)
        /\ \/ /\ phase[j] = "inQuota" /\ plan = Plan(j, p) /\ ~NeedsAction(j, plan)
              /\ Goes(j, "planned", [rec[j] EXCEPT !.stamp = plan]) /\ UNCHANGED history
           \/ Refuses(j, [rec[j] EXCEPT !.stamp = plan])
  <2>1. PICK p \in Providers \cup {Nobody} : p = rec[j].provider
    BY <1>t, TypeRecords
  <2>2. PICK plan \in Stamps : plan = PlanFor(j, p)
    BY <1>t, PlanTyped
  <2>. QED BY <2>1, <2>2 DEF PlanWorkspace
<1>2. PICK r \in Records : /\ r = [rec[j] EXCEPT !.stamp = plan] /\ r.status = rec[j].status
                           /\ r.provider = p
  BY <1>t, <1>1 DEF Records
<1>3. CASE Refuses(j, r)
  BY <1>t, <1>2, <1>3, RefusesKeeps
<1>4. CASE /\ phase[j] = "inQuota" /\ plan = Plan(j, p) /\ ~NeedsAction(j, plan)
           /\ Goes(j, "planned", r) /\ UNCHANGED history
  <2>1. UNCHANGED <<charged, beside, overtaken, probeLog>> /\ rec'[j] = r
    BY <1>t, <1>4 DEF history, around, Goes
  <2>2. Shown(j)'
    <3>1. Plan(j, p).provider = p /\ (Plan(j, p).proven <=> (Request[j].isProbe \/ Proven(p)))
      BY DEF Plan
    <3>2. Request[j].backends # {} /\ ~Request[j].isProbe => Proven(p)
      BY <1>4, <3>1 DEF NeedsAction
    <3>. QED BY <1>2, <2>1, <3>2 DEF Shown, Proven
  <2>3. j \in UnderWay
    BY <1>t, <1>4, UnderWayTyped
  <2>4. Spare(j)' /\ \A i \in UnderWay : i # j => i \in beside'[j] /\ j \in beside'[i]
    <3>1. Spare(j) /\ \A i \in UnderWay : i # j => i \in beside[j] /\ j \in beside[i]
      BY <2>3 DEF GatesInv
    <3>2. Seen(j)' = Seen(j)
      BY <2>1 DEF Seen
    <3>3. Spare(j)'
      BY <1>t, <3>1, <3>2, SparesMore
    <3>. QED BY <2>1, <3>1, <3>3
  <2>. QED BY <1>t, <1>2, <1>4, <2>1, <2>2, <2>4, GoesKeeps
<1>. QED BY <1>1, <1>2, <1>3, <1>4

\* When a job reaches its provider, what is charged is what it had seen and what it met.
LEMMA ReachesKeeps ==
  ASSUME GatesInv, NEW j \in Asks, phase[j] \in {"planned", "cleared"}, Reaches(j), UNCHANGED around
  PROVE  /\ GatesInv'
         /\ \A i \in Asks : ReachesProvider(i) => i = j
         /\ rec'[j].provider = rec[j].provider
         /\ LET s == Request[j].source
            IN Budget[s] # 0 => Charged(s)' <= Budget[s] + Overlap(j, s)
<1>t. /\ GatesTypeOK /\ rec \in [Asks -> Records] /\ rec[j] \in Records /\ recent \in Seq(Asks)
      /\ phase \in [Asks -> Phases] /\ overtaken \subseteq Asks /\ charged \subseteq Asks
      /\ beside \in [Asks -> SUBSET Asks] /\ beside[j] \subseteq Asks
  BY TypeRecords DEF GatesInv, GatesTypeOK
<1>u. j \in UnderWay
  BY <1>t, UnderWayTyped
<1>a. /\ [rec[j] EXCEPT !.status = "active"] \in Records
      /\ [rec[j] EXCEPT !.status = "active"].status = "active"
      /\ [rec[j] EXCEPT !.status = "active"].provider = rec[j].provider
  BY <1>t DEF Records, Statuses
<1>1. PICK a \in Records : a = [rec[j] EXCEPT !.status = "active"] /\ a.status = "active" /\ a.provider = rec[j].provider
  BY <1>a
<1>2. /\ rec' \in [Asks -> Records] /\ \A i \in Asks : i # j => rec'[i] = rec[i]
      /\ rec'[j] = a /\ recent' \in Seq(Asks)
  BY <1>t, <1>1 DEF Reaches
<1>3. /\ phase' \in [Asks -> Phases] /\ \A i \in Asks : i # j => phase'[i] = phase[i]
      /\ phase'[j] = "none"
  BY <1>t DEF Reaches, Leaves, Phases
<1>4. /\ beside' \in [Asks -> SUBSET Asks] /\ \A i \in Asks : i # j => beside[i] \subseteq beside'[i]
      /\ overtaken' = overtaken \ {j} /\ charged' = charged \cup {j}
  BY <1>t DEF Reaches, Leaves
<1>5. GatesInv'
  BY <1>t, <1>u, <1>1, <1>2, <1>3, <1>4, StepKeeps
<1>6. ASSUME NEW s, s = Request[j].source, Budget[s] # 0
      PROVE  Charged(s)' <= Budget[s] + Overlap(j, s)
  <2>. DEFINE D == {i \in charged' : Request[i].source = s}
              M == {i \in beside[j] : Request[i].source = s}
  <2>1. Charged(s)' = RuntimeCosts(D) /\ Overlap(j, s) = RuntimeCosts(M)
    BY DEF Charged, Overlap
  <2>2. D \subseteq Seen(j) \cup M /\ Seen(j) \subseteq Asks /\ M \subseteq Asks
    BY <1>t, <1>4, <1>6 DEF Seen
  <2>3. RuntimeCosts(Seen(j)) <= Budget[s]
    BY <1>u, <1>6 DEF GatesInv, Spare
  <2>. HIDE DEF D, M
  <2>4. RuntimeCosts(D) <= RuntimeCosts(Seen(j)) + RuntimeCosts(M)
    BY <2>2, CostsWithin
  <2>5. /\ RuntimeCosts(Seen(j)) \in Nat /\ RuntimeCosts(M) \in Nat
        /\ Budget[s] \in Nat
    BY <1>6, <2>2, CostsStep, QuotaAssumption
  <2>6. D \subseteq Asks
    BY <2>2
  <2>7. RuntimeCosts(D) \in Nat
    BY <2>6, CostsStep
  <2>. QED BY <2>1, <2>3, <2>4, <2>5, <2>7
<1>. QED BY <1>1, <1>2, <1>5, <1>6 DEF ReachesProvider

\* What a step may do: it keeps the invariant, and a job reaches its provider by it only
\* on a proof that was lost meanwhile, and charges no more than it overlapped with.
Rightly ==
  /\ GatesInv'
  /\ \A j \in Asks : ReachesProvider(j) =>
       /\ Request[j].backends # {} /\ ~Request[j].isProbe => Proven(rec'[j].provider) \/ j \in overtaken
       /\ LET s == Request[j].source
          IN Budget[s] # 0 => Charged(s)' <= Budget[s] + Overlap(j, s)

LEMMA GuardAndReserve ==
  ASSUME GatesInv, NEW j \in Asks, CostGuard(j) \/ Reserve(j)
  PROVE  Rightly
<1>t. /\ GatesTypeOK /\ rec[j] \in Records /\ phase[j] \in {"planned", "cleared"} /\ UNCHANGED around
      /\ rec \in [Asks -> Records] /\ beside \in [Asks -> SUBSET Asks]
      /\ rec[j].status = (IF j \in Queued THEN "starting" ELSE "absent")
      /\ "cleared" \in Phases
  BY TypeRecords DEF GatesInv, GatesTypeOK, CostGuard, Reserve, Alone, Phases
<1>1. CASE Refuses(j, rec[j])
  BY <1>t, <1>1, RefusesKeeps DEF Rightly
<1>2. CASE Reaches(j)
  <2>1. Shown(j)
    BY <1>t DEF GatesInv
  <2>2. UNCHANGED probeLog
    BY <1>t DEF around
  <2>3. /\ GatesInv' /\ \A i \in Asks : ReachesProvider(i) => i = j
        /\ rec'[j].provider = rec[j].provider
        /\ LET s == Request[j].source
           IN Budget[s] # 0 => Charged(s)' <= Budget[s] + Overlap(j, s)
    BY <1>t, <1>2, ReachesKeeps
  <2>4. Request[j].backends # {} /\ ~Request[j].isProbe => Proven(rec'[j].provider) \/ j \in overtaken
    BY <2>1, <2>3 DEF Shown
  <2>. QED BY <2>3, <2>4 DEF Rightly
<1>3. CASE Goes(j, "cleared", rec[j]) /\ UNCHANGED history
  <2>1. UNCHANGED <<charged, beside, overtaken, probeLog>> /\ rec'[j] = rec[j]
    BY <1>t, <1>3 DEF history, around, Goes
  <2>2. Shown(j)'
    <3>1. Shown(j)
      BY <1>t DEF GatesInv
    <3>. QED BY <2>1, <3>1 DEF Shown, Proven
  <2>3. j \in UnderWay
    BY <1>t, UnderWayTyped
  <2>4. Spare(j)' /\ \A i \in UnderWay : i # j => i \in beside'[j] /\ j \in beside'[i]
    <3>1. Spare(j) /\ \A i \in UnderWay : i # j => i \in beside[j] /\ j \in beside[i]
      BY <2>3 DEF GatesInv
    <3>2. Seen(j)' = Seen(j)
      BY <2>1 DEF Seen
    <3>3. Spare(j)'
      BY <1>t, <3>1, <3>2, SparesMore
    <3>. QED BY <2>1, <3>1, <3>3
  <2>5. GatesInv' /\ \A i \in Asks : ~ReachesProvider(i)
    BY <1>t, <1>3, <2>1, <2>2, <2>4, GoesKeeps
  <2>. QED BY <2>5 DEF Rightly
<1>. QED BY <1>1, <1>2, <1>3 DEF CostGuard, Reserve

\* An answer, a job that is queued, a cancellation or a retry: no thread has the job.
LEMMA RestKeeps ==
  ASSUME GatesInv, NEW j \in Asks, Finish(j) \/ Enqueue(j) \/ Cancel(j) \/ Retry(j)
  PROVE  GatesInv' /\ \A i \in Asks : ~ReachesProvider(i)
<1>t. /\ GatesTypeOK /\ rec \in [Asks -> Records] /\ rec[j] \in Records /\ recent \in Seq(Asks)
      /\ phase \in [Asks -> Phases] /\ overtaken \subseteq Asks /\ charged \subseteq Asks
      /\ beside \in [Asks -> SUBSET Asks]
  BY TypeRecords DEF GatesInv, GatesTypeOK
<1>f. /\ UNCHANGED <<phase, beside, overtaken, around>>
      /\ charged' \subseteq charged
  BY DEF Finish, Enqueue, Cancel, Retry, history
<1>n. phase[j] = "none"
  BY DEF GatesInv, Alone, Finish, Enqueue, Cancel, Retry
<1>1. PICK t \in Records :
        /\ rec' = [rec EXCEPT ![j] = t]
        /\ t.status # "active"
        /\ t.status \in {"queued", "starting"} => j \in Queued
        /\ j \in charged' => t.status \notin {"absent", "cancelled"}
        /\ recent' \in Seq(Asks)
  <2>1. CASE Finish(j)
    <3>1. PICK t \in Records : t.status \in {"succeeded", "failed"} /\ Ends(j, t)
      <4>1. /\ [rec[j] EXCEPT !.status = "failed"] \in Records /\ [rec[j] EXCEPT !.status = "failed"].status = "failed"
            /\ [rec[j] EXCEPT !.status = "succeeded"] \in Records
            /\ [rec[j] EXCEPT !.status = "succeeded"].status = "succeeded"
        BY <1>t DEF Records, Statuses
      <4>. QED BY <2>1, <4>1 DEF Finish
    <3>2. recent' \in Seq(Asks) /\ rec' = [rec EXCEPT ![j] = t]
      BY <1>t, <3>1, RemovedTyped, AppendProperties DEF Ends
    <3>. QED BY <3>1, <3>2
  <2>2. CASE Enqueue(j)
    <3>1. PICK s \in Stamps : s = IF Request[j].planned THEN Plan(j, Request[j].quoted) ELSE NoStamp
      <4>1. Request[j].quoted \in Providers \cup {Nobody}
        BY RequestTyped
      <4>2. 0 \in 0..MaxProbes
        BY SubmitAssumption
      <4>3. NoStamp \in Stamps
        BY <4>2 DEF NoStamp, Stamps
      <4>. QED BY <1>t, <4>1, <4>3, PlanTyped
    <3>2. [rec[j] EXCEPT !.status = "queued", !.stamp = s] \in Records
          /\ [rec[j] EXCEPT !.status = "queued", !.stamp = s].status = "queued"
      BY <1>t DEF Records, Statuses
    <3>3. rec' = [rec EXCEPT ![j] = [rec[j] EXCEPT !.status = "queued", !.stamp = s]]
      BY <1>t, <2>2, <3>1 DEF Enqueue
    <3>. QED BY <1>t, <2>2, <3>2, <3>3 DEF Enqueue
  <2>3. CASE Cancel(j)
    <3>0. [rec[j] EXCEPT !.status = "cancelled"] \in Records /\ [rec[j] EXCEPT !.status = "cancelled"].status = "cancelled"
      BY <1>t DEF Records, Statuses
    <3>1. PICK t \in Records : t = [rec[j] EXCEPT !.status = "cancelled"] /\ t.status = "cancelled"
      BY <3>0
    <3>2. rec' = [rec EXCEPT ![j] = t] /\ j \notin charged' /\ recent' \in Seq(Asks)
      BY <1>t, <2>3, <3>1 DEF Cancel
    <3>. QED BY <3>1, <3>2
  <2>4. CASE Retry(j)
    <3>0. /\ [rec[j] EXCEPT !.status = "queued", !.retried = TRUE, !.mismatch = FALSE] \in Records
          /\ [rec[j] EXCEPT !.status = "queued", !.retried = TRUE, !.mismatch = FALSE].status = "queued"
      BY <1>t DEF Records, Statuses
    <3>1. PICK t \in Records :
            t = [rec[j] EXCEPT !.status = "queued", !.retried = TRUE, !.mismatch = FALSE] /\ t.status = "queued"
      BY <3>0
    <3>2. rec' = [rec EXCEPT ![j] = t] /\ recent' \in Seq(Asks)
      BY <1>t, <2>4, <3>1, RemovedTyped DEF Retry
    <3>3. j \in Queued
      BY <2>4, SubmitAssumption, Zenon DEF Retry, Queued
    <3>. QED BY <3>1, <3>2, <3>3
  <2>. QED BY <2>1, <2>2, <2>3, <2>4
<1>2. /\ rec' \in [Asks -> Records] /\ \A i \in Asks : i # j => rec'[i] = rec[i]
      /\ rec'[j] = t
  BY <1>t, <1>1
<1>3. GatesInv'
  BY <1>t, <1>f, <1>n, <1>1, <1>2, StepKeeps
<1>. QED BY <1>1, <1>2, <1>3 DEF ReachesProvider

-------------------------------------------------------------------------------
(* The worker's passes and what is around them *)

LEMMA ChoiceTyped ==
  ASSUME GatesTypeOK, NEW j \in Asks
  PROVE  Choice(j) \subseteq Providers \cup {Nobody}
<1>1. rec[j].provider \in Providers \cup {Nobody}
  BY TypeRecords
<1>2. Routes(j) \subseteq Providers /\ Request[j].asked \in Providers \cup {AnyProvider}
  BY RoutedTyped, RequestTyped
<1>. QED BY <1>1, <1>2 DEF Choice

LEMMA ReplannedTyped ==
  ASSUME GatesTypeOK, NEW j \in Asks
  PROVE  Replanned(j) \in Records /\ Replanned(j).status = rec[j].status
<1>1. rec[j] \in Records
  BY TypeRecords
<1>2. CASE Replanned(j) = rec[j]
  BY <1>1, <1>2
<1>3. CASE Replanned(j) # rec[j]
  <2>1. PICK p \in Routes(j) : Replanned(j) = [rec[j] EXCEPT !.provider = p]
    BY <1>3 DEF Replanned
  <2>2. p \in Providers
    BY RoutedTyped
  <2>. QED BY <1>1, <2>1, <2>2 DEF Records
<1>. QED BY <1>2, <1>3

\* A step that leaves alone the threads, their jobs and what they have met.
LEMMA QuietKeeps ==
  ASSUME GatesInv, rec' \in [Asks -> Records],
         \A i \in Asks : /\ phase[i] # "none" => rec'[i] = rec[i]
                         /\ rec'[i].status \in {"queued", "starting"} => rec[i].status \in {"queued", "starting"}
                         /\ rec'[i].status = "active" => rec[i].status = "active"
                         /\ rec'[i].status \in {"absent", "cancelled"} => rec'[i].status = rec[i].status,
         recent' \in Seq(Asks), up' \subseteq Providers, snapshot' \in 0..MaxProbes,
         probeLog' \in Seq(Probed \X BOOLEAN), Len(probeLog') <= ProbeLog,
         overtaken' \subseteq Asks, overtaken \subseteq overtaken',
         probeLog' = probeLog \/ \A i \in Asks : phase[i] \in {"planned", "cleared"} => i \in overtaken',
         UNCHANGED <<phase, charged, beside>>
  PROVE  Rightly
<1>t. GatesTypeOK /\ charged \subseteq Asks
  BY DEF GatesInv, GatesTypeOK
<1>1. GatesTypeOK'
  BY DEF GatesInv, GatesTypeOK, Records, Statuses, Stamps
<1>2. Alone' /\ Counted'
  BY <1>t DEF GatesInv, Alone, Counted, Queued
<1>3. ASSUME NEW i \in Asks, phase'[i] \in {"planned", "cleared"} PROVE Shown(i)'
  <2>1. Shown(i) /\ rec'[i] = rec[i]
    BY <1>3 DEF GatesInv
  <2>. QED BY <1>3, <2>1 DEF Shown, Proven
<1>4. UnderWay' = UnderWay /\ UnderWay \subseteq Asks
  BY <1>t, UnderWayTyped DEF UnderWay
<1>5. \A i \in UnderWay' : Spare(i)'
  <2>1. ASSUME NEW i \in UnderWay PROVE Spare(i)'
    <3>1. Spare(i) /\ Seen(i)' = Seen(i) /\ i \in Asks
      BY <1>4 DEF GatesInv, Seen
    <3>. QED BY <1>t, <3>1, SparesMore
  <2>. QED BY <1>4, <2>1
<1>6. GatesInv'
  BY <1>1, <1>2, <1>3, <1>4, <1>5 DEF GatesInv
<1>. QED BY <1>6 DEF Rightly, ReachesProvider

LEMMA PassesKeep ==
  ASSUME GatesInv, (\E j \in Asks : PassStarts(j)) \/ PassReplans
  PROVE  Rightly
<1>t. /\ GatesTypeOK /\ recent \in Seq(Asks) /\ up \subseteq Providers /\ snapshot \in 0..MaxProbes
      /\ probeLog \in Seq(Probed \X BOOLEAN) /\ Len(probeLog) <= ProbeLog /\ overtaken \subseteq Asks
      /\ \A i \in Asks : phase[i] # "none" => rec[i].status # "queued"
  BY DEF GatesInv, GatesTypeOK, Alone
<1>u. UNCHANGED <<phase, recent, up, snapshot, probeLog, charged, beside, overtaken>>
  BY DEF PassStarts, PassReplans, around, history
<1>1. ASSUME NEW j \in Asks, PassStarts(j) PROVE Rightly
  <2>1. PICK p \in Choice(j) :
          rec' = [i \in Asks |-> IF i = j THEN [rec[i] EXCEPT !.status = "starting", !.provider = p]
                                 ELSE Replanned(i)]
    BY <1>1 DEF PassStarts
  <2>2. p \in Providers \cup {Nobody} /\ rec[j] \in Records /\ rec[j].status = "queued"
    BY <1>t, <1>1, ChoiceTyped, TypeRecords DEF PassStarts, Runnable
  <2>r. /\ [rec[j] EXCEPT !.status = "starting", !.provider = p] \in Records
        /\ [rec[j] EXCEPT !.status = "starting", !.provider = p].status = "starting"
    BY <2>2 DEF Records, Statuses
  <2>3. PICK r \in Records : r = [rec[j] EXCEPT !.status = "starting", !.provider = p] /\ r.status = "starting"
    BY <2>r
  <2>4. rec' \in [Asks -> Records] /\ rec'[j] = r /\ \A i \in Asks : i # j => rec'[i] = Replanned(i)
    BY <1>t, <2>1, <2>3, ReplannedTyped
  <2>5. \A i \in Asks : /\ phase[i] # "none" => rec'[i] = rec[i]
                        /\ rec'[i].status \in {"queued", "starting"} => rec[i].status \in {"queued", "starting"}
                        /\ rec'[i].status = "active" => rec[i].status = "active"
                        /\ rec'[i].status \in {"absent", "cancelled"} => rec'[i].status = rec[i].status
    <3>1. ASSUME NEW i \in Asks 
          PROVE  Replanned(i).status = rec[i].status /\ (phase[i] # "none" => Replanned(i) = rec[i])
      BY <1>t, ReplannedTyped DEF Replanned
    <3>. QED BY <1>t, <2>2, <2>3, <2>4, <3>1
  <2>. QED BY <1>t, <1>u, <2>4, <2>5, QuietKeeps
<1>2. CASE PassReplans
  <2>1. rec' = [i \in Asks |-> Replanned(i)]
    BY <1>2 DEF PassReplans
  <2>2. /\ rec' \in [Asks -> Records]
        /\ \A i \in Asks : rec'[i].status = rec[i].status /\ (phase[i] # "none" => rec'[i] = rec[i])
    <3>1. ASSUME NEW i \in Asks 
          PROVE  Replanned(i).status = rec[i].status /\ (phase[i] # "none" => Replanned(i) = rec[i])
      BY <1>t, ReplannedTyped DEF Replanned
    <3>. QED BY <1>t, <2>1, <3>1, ReplannedTyped
  <2>. QED BY <1>t, <1>u, <2>2, QuietKeeps
<1>. QED BY <1>1, <1>2

LEMMA AroundKeeps ==
  ASSUME GatesInv,
         \/ Expire \/ ProviderProbe \/ \E p \in Providers : HealthFails(p) \/ HealthReturns(p)
         \/ \E p \in Probed, ok \in BOOLEAN : ContractProbe(p, ok)
  PROVE  Rightly
<1>t. /\ recent \in Seq(Asks) /\ up \subseteq Providers /\ snapshot \in 0..MaxProbes
      /\ probeLog \in Seq(Probed \X BOOLEAN) /\ Len(probeLog) <= ProbeLog
      /\ rec \in [Asks -> Records] /\ overtaken \subseteq Asks
  BY TypeRecords DEF GatesInv, GatesTypeOK
<1>u. UNCHANGED <<rec, phase, charged, beside>>
  BY DEF Expire, ProviderProbe, HealthFails, HealthReturns, ContractProbe, around, history
<1>1. recent' \in Seq(Asks)
  <2>1. CASE Expire
    BY <1>t, <2>1, HeadTailProperties DEF Expire
  <2>2. CASE ~Expire
    BY <1>t, <2>2 DEF ProviderProbe, HealthFails, HealthReturns, ContractProbe
  <2>. QED BY <2>1, <2>2
<1>2. up' \subseteq Providers
  BY <1>t DEF Expire, ProviderProbe, HealthFails, HealthReturns, ContractProbe, around
<1>3. snapshot' \in 0..MaxProbes
  <2>1. CASE ProviderProbe
    BY <1>t, <2>1, SubmitAssumption DEF ProviderProbe
  <2>2. CASE ~ProviderProbe
    BY <1>t, <2>2 DEF Expire, HealthFails, HealthReturns, ContractProbe, around
  <2>. QED BY <2>1, <2>2
<1>4. /\ probeLog' \in Seq(Probed \X BOOLEAN) /\ Len(probeLog') <= ProbeLog
      /\ overtaken' \subseteq Asks /\ overtaken \subseteq overtaken'
      /\ probeLog' = probeLog \/ \A i \in Asks : phase[i] \in {"planned", "cleared"} => i \in overtaken'
  <2>1. ASSUME NEW p \in Probed, NEW ok \in BOOLEAN, ContractProbe(p, ok)
        PROVE  /\ probeLog' \in Seq(Probed \X BOOLEAN) /\ Len(probeLog') <= ProbeLog
               /\ overtaken' = overtaken \cup {j \in Asks : phase[j] \in {"planned", "cleared"}}
    <3>1. PICK log : log = Append(probeLog, <<p, ok>>)
      OBVIOUS
    <3>2. log \in Seq(Probed \X BOOLEAN) /\ Len(log) = Len(probeLog) + 1 /\ log # <<>>
      BY <1>t, <3>1, AppendProperties
    <3>3. Tail(log) \in Seq(Probed \X BOOLEAN) /\ Len(Tail(log)) = Len(log) - 1
      BY <3>2, HeadTailProperties
    <3>4. probeLog' = IF Len(log) > ProbeLog THEN Tail(log) ELSE log
      BY <2>1, <3>1 DEF ContractProbe
    <3>5. Len(probeLog) \in Nat /\ ProbeLog \in Nat
      BY <1>t, SubmitAssumption
    <3>6. overtaken' = overtaken \cup {j \in Asks : phase[j] \in {"planned", "cleared"}}
      BY <2>1 DEF ContractProbe
    <3>. QED BY <1>t, <3>2, <3>3, <3>4, <3>5, <3>6
  <2>2. CASE ~\E p \in Probed, ok \in BOOLEAN : ContractProbe(p, ok)
    BY <1>t, <2>2 DEF Expire, ProviderProbe, HealthFails, HealthReturns, around, history
  <2>. QED BY <1>t, <2>1, <2>2
<1>5. \A i \in Asks : /\ phase[i] # "none" => rec'[i] = rec[i]
                      /\ rec'[i].status = rec[i].status
  BY <1>u
<1>. QED BY <1>t, <1>u, <1>1, <1>2, <1>3, <1>4, <1>5, QuietKeeps

-------------------------------------------------------------------------------
(* Theorems *)

LEMMA GatesInvInit == GatesInit => GatesInv
<1>. SUFFICES ASSUME GatesInit PROVE GatesInv
  OBVIOUS
<1>1. rec \in [Asks -> Records] /\ \A j \in Asks : rec[j].status = "absent"
  <2>1. 0 \in 0..MaxProbes
    BY SubmitAssumption
  <2>. QED BY <2>1 DEF GatesInit, Records, Statuses, Stamps, NoStamp
<1>2. probeLog \in Seq(Probed \X BOOLEAN) /\ Len(probeLog) <= ProbeLog
  <2>. DEFINE S == {<<p, TRUE>> : p \in Probed}
  <2>1. IsFiniteSet(Probed) /\ Cardinality(Probed) <= ProbeLog /\ ProbeLog \in Nat
    BY SubmitAssumption
  <2>2. IsFiniteSet(S) /\ Cardinality(S) <= Cardinality(Probed)
    <3>. DEFINE f == [p \in Probed |-> <<p, TRUE>>]
    <3>1. f \in Surjection(Probed, S)
      BY Zenon DEF Surjection
    <3>. QED BY <2>1, <3>1, FS_Surjection
  <2>3. Cardinality(S) \in Nat /\ Cardinality(Probed) \in Nat
    BY <2>1, <2>2, FS_CardinalityType
  <2>4. S \subseteq Probed \X BOOLEAN
    <3>1. PICK b \in BOOLEAN : b = TRUE
      OBVIOUS
    <3>2. \A p \in Probed : <<p, b>> \in Probed \X BOOLEAN
      OBVIOUS
    <3>3. \A p \in Probed : <<p, TRUE>> \in Probed \X BOOLEAN
      BY <3>1, <3>2, Zenon
    <3>. QED BY <3>3, Zenon
  <2>5. probeLog = SetToSeq(S)
    BY DEF GatesInit
  <2>. HIDE DEF S
  <2>6. probeLog \in Seq(S) /\ Len(probeLog) = Cardinality(S)
    BY <2>2, <2>5, ListTyped
  <2>. QED BY <2>1, <2>2, <2>3, <2>4, <2>6
<1>3. 0 \in 0..MaxProbes
  BY SubmitAssumption
<1>4. GatesTypeOK
  <2>1. /\ phase \in [Asks -> Phases] /\ recent \in Seq(Asks)
        /\ beside \in [Asks -> SUBSET Asks] /\ charged = {} /\ overtaken = {}
    BY DEF GatesInit, Phases
  <2>2. up = Providers /\ snapshot = 0
    BY DEF GatesInit
  <2>. QED BY <1>1, <1>2, <1>3, <2>1, <2>2, RecordsTyped
<1>5. \A j \in Asks : phase[j] = "none"
  BY DEF GatesInit
<1>6. UnderWay = {} /\ charged = {}
  BY <1>4, <1>5, UnderWayTyped DEF GatesInit
<1>. QED BY <1>1, <1>4, <1>5, <1>6 DEF GatesInv, Alone, Counted

LEMMA GatesInvStep ==
  ASSUME GatesInv, [GatesNext]_gateVars
  PROVE  Rightly
<1>1. ASSUME NEW j \in Asks, Submit(j) PROVE Rightly
  <2>1. rec[j].status = (IF j \in Queued THEN "starting" ELSE "absent")
    BY <1>1 DEF Submit
  <2>2. Request[j].asked \in Providers \cup {AnyProvider, Nobody}
    BY RequestTyped
  <2>. QED BY <1>1, <2>1, <2>2, GateKeeps DEF Submit, Rightly
<1>2. ASSUME NEW j \in Asks, PassSubmits(j) PROVE Rightly
  <2>1. rec[j].status = (IF j \in Queued THEN "starting" ELSE "absent")
    BY <1>2 DEF PassSubmits, GatesInv, Alone
  <2>2. rec[j].provider \in Providers \cup {AnyProvider, Nobody}
    BY TypeRecords DEF GatesInv
  <2>. QED BY <1>2, <2>1, <2>2, GateKeeps DEF PassSubmits, Rightly
<1>3. ASSUME NEW j \in Asks, CheckQuota(j) \/ PlanWorkspace(j) PROVE Rightly
  BY <1>3, CheckQuotaKeeps, PlanWorkspaceKeeps DEF Rightly
<1>4. ASSUME NEW j \in Asks, CostGuard(j) \/ Reserve(j) PROVE Rightly
  BY <1>4, GuardAndReserve
<1>5. ASSUME NEW j \in Asks, Finish(j) \/ Enqueue(j) \/ Cancel(j) \/ Retry(j) PROVE Rightly
  BY <1>5, RestKeeps DEF Rightly
<1>6. CASE (\E j \in Asks : PassStarts(j)) \/ PassReplans
  BY <1>6, PassesKeep
<1>7. CASE \/ Expire \/ ProviderProbe \/ \E p \in Providers : HealthFails(p) \/ HealthReturns(p)
           \/ \E p \in Probed, ok \in BOOLEAN : ContractProbe(p, ok)
  BY <1>7, AroundKeeps
<1>8. CASE UNCHANGED gateVars
  <2>1. UNCHANGED <<rec, phase, recent, up, snapshot, probeLog, charged, beside, overtaken>>
    BY <1>8 DEF gateVars, around, history
  <2>2. GatesTypeOK /\ rec \in [Asks -> Records] /\ recent \in Seq(Asks)
        /\ up \subseteq Providers /\ snapshot \in 0..MaxProbes /\ overtaken \subseteq Asks
        /\ probeLog \in Seq(Probed \X BOOLEAN) /\ Len(probeLog) <= ProbeLog
    BY TypeRecords DEF GatesInv, GatesTypeOK
  <2>. QED BY <2>1, <2>2, QuietKeeps
<1>. QED BY <1>1, <1>2, <1>3, <1>4, <1>5, <1>6, <1>7, <1>8 DEF GatesNext

\* The records, the circuit's window, the threads and the log of the contract probes
\* keep their types: what is read of the log never grows beyond ProbeLog.
THEOREM GatesTypesKept == GatesSpec => []GatesTypeOK
<1>1. GatesInv => GatesTypeOK
  BY DEF GatesInv
<1>2. GatesInv /\ [GatesNext]_gateVars => GatesInv'
  BY GatesInvStep DEF Rightly
<1>. QED BY <1>1, <1>2, GatesInvInit, PTL DEF GatesSpec

\* A job that needs a backend reaches a provider whose runtime is not proven only if a
\* contract probe was recorded between the plan of that submission and its reservation,
\* whatever was stamped on the job when it was created, and whatever is probed,
\* replanned, retried or submitted meanwhile.
THEOREM UnprovenOvertaken == GatesSpec => UnprovenOnlyIfOvertaken
<1>1. GatesInv /\ [GatesNext]_gateVars =>
        [\A j \in Asks : ReachesProvider(j) /\ Request[j].backends # {} /\ ~Request[j].isProbe =>
           Proven(rec'[j].provider) \/ j \in overtaken]_gateVars
  BY GatesInvStep DEF Rightly
<1>2. GatesInv /\ [GatesNext]_gateVars => GatesInv'
  BY GatesInvStep DEF Rightly
<1>. QED BY <1>1, <1>2, GatesInvInit, PTL DEF GatesSpec, UnprovenOnlyIfOvertaken

\* Whenever a job reaches its provider, what is charged to its source is within the
\* budget but for the submissions that overlapped with it between their quota_check and
\* their provider, for any number of jobs and threads, any costs and budgets, and
\* whatever is refused, replanned, cancelled or retried on the way.
THEOREM OverrunBounded == GatesSpec => OverrunByOverlap
<1>1. GatesInv /\ [GatesNext]_gateVars =>
        [\A j \in Asks : LET s == Request[j].source IN
           ReachesProvider(j) /\ Budget[s] # 0 => Charged(s)' <= Budget[s] + Overlap(j, s)]_gateVars
  BY GatesInvStep DEF Rightly
<1>2. GatesInv /\ [GatesNext]_gateVars => GatesInv'
  BY GatesInvStep DEF Rightly
<1>. QED BY <1>1, <1>2, GatesInvInit, PTL DEF GatesSpec, OverrunByOverlap

===============================================================================

------------------------------ MODULE ErpProofs ------------------------------
(***************************************************************************)
(* Proofs about the ERP crate's concurrent parts, each for any size:       *)
(*                                                                         *)
(* CircuitBreaker, for any callers, threshold, open duration and retry     *)
(* budget: the breaker is closed exactly while its counter is below the    *)
(* threshold, an open breaker admits nobody, it stays open for its time,   *)
(* and every retry loop keeps to its budget.                               *)
(*                                                                         *)
(* MetadataCache, for any number of lookups and keys, any time to live and *)
(* latency and any size of the pool.  What bounds the staleness of an      *)
(* answer is an order of two ages: the ERP read an operation at most       *)
(* Latency before its entry was stored, and both age together until the    *)
(* entry is too old to be served.                                          *)
(*                                                                         *)
(* ErpWrite, for any set of calls, either kind of ERP and any mix of       *)
(* server modes.  None of its safety properties is inductive: each speaks  *)
(* of a call that has an effect or a report, and follows from how it got   *)
(* there.  Stage says what is known of a call in each of its phases, Past  *)
(* what is known of it ever after.                                         *)
(***************************************************************************)
EXTENDS CircuitBreaker, MetadataCache, ErpWrite, FiniteSetTheorems, TLAPS

-----------------------------------------------------------------------------
(* CircuitBreaker.                                                         *)

\* A caller that sleeps has a transient error and budget left.
SleepersMayRetry == \A c \in Callers : loop[c] = "sleeping" => Retries(c)

\* A result waiting to be recorded is one an operation can have.
RecordersHaveResults ==
  \A c \in Callers : loop[c] = "recording" => result[c] \in {"ok", "transient", "permanent"}

BreakerInv ==
  /\ BreakerTypeOK
  /\ ClosedIffBelowThreshold
  /\ OpenAdmitsNobody
  /\ RetriesAreBounded
  /\ SleepersMayRetry
  /\ RecordersHaveResults

LEMMA InitBreaker == BreakerInit => BreakerInv
  BY BreakerAssumption
     DEF BreakerInit, BreakerInv, BreakerTypeOK, Results, Transient, ClosedIffBelowThreshold, OpenAdmitsNobody,
         RetriesAreBounded, SleepersMayRetry, RecordersHaveResults

\* What a recorded result does to the breaker, one outcome at a time.
LEMMA RecordCases ==
  ASSUME BreakerInv, NEW c \in Callers, Record(c)
  PROVE  \/ result[c] = "ok" /\ Closes
         \/ result[c] = "transient" /\ Counts
         \/ UNCHANGED <<state, failures, age, overtaken>>
<1>1. CASE result[c] = "ok"
  BY <1>1, Zenon DEF Record
<1>2. CASE result[c] = "transient"
  BY <1>2, Zenon DEF Record
<1>3. CASE result[c] = "permanent"
  BY <1>3, Zenon DEF Record
<1>4. loop[c] = "recording"
  BY Zenon DEF Record
<1> QED
  BY <1>1, <1>2, <1>3, <1>4 DEF BreakerInv, RecordersHaveResults

\* The steps that leave the breaker alone and move one caller's retry loop.
LEMMA LoopStep ==
  ASSUME BreakerInv, NEW c \in Callers,
         Begins(c) \/ BacksOff(c) \/ WakesUp(c) \/ GivesBack(c) \/ Reject(c) \/ ErpAnswers(c)
  PROVE  BreakerInv'
<1> USE BreakerAssumption
        DEF BreakerInv, BreakerTypeOK, Results, Transient, Retries, ClosedIffBelowThreshold,
            OpenAdmitsNobody, RetriesAreBounded, SleepersMayRetry, RecordersHaveResults
<1>1. CASE Begins(c)
  BY <1>1 DEF Begins
<1>2. CASE BacksOff(c)
  BY <1>2 DEF BacksOff
<1>3. CASE WakesUp(c)
  BY <1>3 DEF WakesUp, NextAttempt
<1>4. CASE GivesBack(c)
  BY <1>4 DEF GivesBack
<1>5. CASE Reject(c)
  BY <1>5 DEF Reject
<1>6. CASE ErpAnswers(c)
  BY <1>6 DEF ErpAnswers
<1> QED
  BY <1>1, <1>2, <1>3, <1>4, <1>5, <1>6

\* Recording a result, whatever state the breaker is in by then.
LEMMA RecordStep ==
  ASSUME BreakerInv, NEW c \in Callers, Record(c)
  PROVE  BreakerInv'
<1> USE BreakerAssumption
        DEF BreakerInv, BreakerTypeOK, Results, Transient, Retries, ClosedIffBelowThreshold,
            OpenAdmitsNobody, RetriesAreBounded, SleepersMayRetry, RecordersHaveResults
<1>1. /\ loop[c] = "recording"
      /\ loop' = [loop EXCEPT ![c] = "judging"]
      /\ UNCHANGED <<attempt, result, erpUp>>
  BY Zenon DEF Record
<1>2. CASE Closes
  BY <1>1, <1>2 DEF Closes
<1>3. CASE Counts
  <2> DEFINE n == IF failures < MaxFailures THEN failures + 1 ELSE failures
  <2>1. n \in 0..MaxFailures /\ n >= failures /\ (n < Threshold => failures < Threshold)
    OBVIOUS
  <2>2. failures' = n /\ IF n >= Threshold THEN Opens ELSE UNCHANGED <<state, age, overtaken>>
    BY <1>3 DEF Counts
  <2>3. CASE n >= Threshold
    <3>1. failures' = n /\ state' = "Open" /\ age' = 0 /\ overtaken' = [d \in Callers |-> TRUE]
      BY <2>2, <2>3 DEF Opens
    <3> HIDE DEF n
    <3> QED
      BY <1>1, <2>1, <2>3, <3>1
  <2>4. CASE n < Threshold
    BY <1>1, <2>1, <2>2, <2>4
  <2> QED
    BY <2>1, <2>3, <2>4
<1>4. CASE UNCHANGED <<state, failures, age, overtaken>>
  BY <1>1, <1>4
<1> QED
  BY <1>2, <1>3, <1>4, RecordCases

LEMMA StepBreaker == BreakerInv /\ [BreakerNext]_breakerVars => BreakerInv'
<1> SUFFICES ASSUME BreakerInv, [BreakerNext]_breakerVars PROVE BreakerInv'
  OBVIOUS
<1>1. CASE UNCHANGED breakerVars
  BY <1>1 DEF breakerVars, BreakerInv, BreakerTypeOK, ClosedIffBelowThreshold, OpenAdmitsNobody,
              RetriesAreBounded, SleepersMayRetry, RecordersHaveResults, Retries
<1>2. ASSUME NEW c \in Callers, Admit(c) PROVE BreakerInv'
  BY <1>2, BreakerAssumption
     DEF Admit, Admits, Ticked, BreakerInv, BreakerTypeOK, ClosedIffBelowThreshold, OpenAdmitsNobody,
         RetriesAreBounded, SleepersMayRetry, RecordersHaveResults, Retries
<1>3. ASSUME NEW c \in Callers,
             Begins(c) \/ BacksOff(c) \/ WakesUp(c) \/ GivesBack(c) \/ Reject(c) \/ ErpAnswers(c)
      PROVE  BreakerInv'
  BY <1>3, LoopStep
<1>4. ASSUME NEW c \in Callers, Record(c) PROVE BreakerInv'
  BY <1>4, RecordStep
<1>5. CASE Observe \/ Tick \/ ErpChanges
  <2> USE BreakerAssumption
          DEF BreakerInv, BreakerTypeOK, ClosedIffBelowThreshold, OpenAdmitsNobody, RetriesAreBounded,
              SleepersMayRetry, RecordersHaveResults, Retries
  <2>1. CASE Observe
    BY <2>1 DEF Observe, Ticked
  <2>2. CASE Tick
    BY <2>2 DEF Tick
  <2>3. CASE ErpChanges
    BY <2>3 DEF ErpChanges
  <2> QED
    BY <1>5, <2>1, <2>2, <2>3
<1> QED
  BY <1>1, <1>2, <1>3, <1>4, <1>5 DEF BreakerNext, CallerStep

LEMMA BreakerInvariant == BreakerSpec => []BreakerInv
  BY InitBreaker, StepBreaker, PTL DEF BreakerSpec

\* Every variable keeps its type and every counter its bound.
THEOREM BreakerTypes == BreakerSpec => []BreakerTypeOK
<1>1. BreakerInv => BreakerTypeOK
  BY DEF BreakerInv
<1> QED
  BY <1>1, BreakerInvariant, PTL

\* State and failure counter never disagree, in whatever order the results
\* of overlapping calls are recorded.
THEOREM ClosedExactlyBelowThreshold == BreakerSpec => []ClosedIffBelowThreshold
<1>1. BreakerInv => ClosedIffBelowThreshold
  BY DEF BreakerInv
<1> QED
  BY <1>1, BreakerInvariant, PTL

\* While the breaker is open, only operations admitted before it opened run.
THEOREM OpenIsClosedToCalls == BreakerSpec => []OpenAdmitsNobody
<1>1. BreakerInv => OpenAdmitsNobody
  BY DEF BreakerInv
<1> QED
  BY <1>1, BreakerInvariant, PTL

\* No retry loop exceeds max_attempts or retries what is not transient.
THEOREM RetriesKeepToTheirBudget == BreakerSpec => []RetriesAreBounded
<1>1. BreakerInv => RetriesAreBounded
  BY DEF BreakerInv
<1> QED
  BY <1>1, BreakerInvariant, PTL

\* The breaker leaves Open when its time is up or on a success, not before.
THEOREM OpenUntilDue == BreakerSpec => OpenLastsItsTime
<1> DEFINE A == state = "Open" /\ state' # "Open" =>
                  age >= OpenDuration \/ \E c \in Callers : loop[c] = "recording" /\ result[c] = "ok"
<1>1. BreakerInv /\ [BreakerNext]_breakerVars => [A]_breakerVars
  <2> SUFFICES ASSUME BreakerInv, BreakerNext, state = "Open", state' # "Open"
               PROVE  age >= OpenDuration \/ \E c \in Callers : loop[c] = "recording" /\ result[c] = "ok"
    OBVIOUS
  <2>1. ASSUME NEW c \in Callers, Admit(c) PROVE age >= OpenDuration
    BY <2>1 DEF Admit, Admits, Ticked
  <2>2. ASSUME NEW c \in Callers, Record(c) PROVE loop[c] = "recording" /\ result[c] = "ok"
    <3>1. loop[c] = "recording"
      BY <2>2, Zenon DEF Record
    <3> QED
      BY <2>2, <3>1, RecordCases DEF Counts, Opens
  <2>3. ASSUME NEW c \in Callers,
               Begins(c) \/ BacksOff(c) \/ WakesUp(c) \/ GivesBack(c) \/ Reject(c) \/ ErpAnswers(c)
        PROVE  FALSE
    BY <2>3 DEF Begins, BacksOff, WakesUp, GivesBack, Reject, ErpAnswers
  <2>4. CASE Observe \/ Tick \/ ErpChanges
    BY <2>4 DEF Observe, Tick, ErpChanges, Ticked
  <2> QED
    BY <2>1, <2>2, <2>3, <2>4 DEF BreakerNext, CallerStep
<1> QED
  BY <1>1, BreakerInvariant, PTL DEF BreakerSpec, OpenLastsItsTime

-----------------------------------------------------------------------------
(* MetadataCache.                                                          *)

Stages == {"idle", "reading", "queued", "fetching", "replying", "storing", "done", "failed"}

LookupsOK ==
  /\ stage \in [Lookups -> Stages]
  /\ asked \in [Lookups -> SUBSET Keys] /\ toFetch \in [Lookups -> SUBSET Keys]
  /\ fetched \in [Lookups -> SUBSET Metas] /\ got \in [Lookups -> SUBSET Metas]
  /\ missing \in [Lookups -> SUBSET Keys] /\ waited \in [Lookups -> 0..MaxWait]

EntriesOK ==
  /\ entries \subseteq Entries
  /\ \A e, f \in entries : e.meta.key = f.meta.key => e = f

StatsOK == stats \in [hits : Nat, misses : Nat, evictions : Nat]

PoolOK == IsFiniteSet(Holders) /\ Cardinality(Holders) <= PoolCap

\* A disabled cache holds nothing; an entry was stored at most the latency
\* after the ERP read the operation (the ages of one that expired are no longer
\* counted), and an answer not yet stored is younger.
EntriesAreRecent ==
  \A e \in entries : Ttl # 0 /\ (e.age <= Ttl => e.meta.age <= e.age + Latency)
FetchedAreRecent ==
  \A l \in Lookups : \A m \in fetched[l] : m.age <= Latency

AgesInv == EntriesAreRecent /\ FetchedAreRecent /\ StalenessIsBounded

CacheInv == LookupsOK /\ EntriesOK /\ StatsOK /\ PoolOK /\ AgesInv

-----------------------------------------------------------------------------
(* Finiteness: what the counters count.                                    *)

LEMMA MetasAreFinite == IsFiniteSet(Metas)
<1> DEFINE P == Keys \X (0..MaxAge)
           f == [p \in P |-> [key |-> p[1], age |-> p[2]]]
<1>1. MaxAge \in Int
  BY CacheAssumption DEF MaxAge
<1>2. IsFiniteSet(P)
  <2>1. IsFiniteSet(0..MaxAge) /\ IsFiniteSet(Keys)
    BY <1>1, FS_Interval, CacheAssumption
  <2> QED
    BY <2>1, FS_Product, Zenon
<1>3. f \in Surjection(P, Metas)
  <2>1. f \in [P -> Metas]
    BY DEF Metas
  <2>2. ASSUME NEW m \in Metas PROVE \E p \in P : f[p] = m
    <3>1. <<m.key, m.age>> \in P /\ m = [key |-> m.key, age |-> m.age]
      BY DEF Metas
    <3> QED
      BY <3>1
  <2> QED
    BY <2>1, <2>2 DEF Surjection
<1> QED
  BY <1>2, <1>3, FS_Surjection

LEMMA EntriesAreFinite == IsFiniteSet(Entries)
<1> DEFINE P == Metas \X (0..(Ttl + 1))
           f == [p \in P |-> [meta |-> p[1], age |-> p[2]]]
<1>1. Ttl + 1 \in Int
  BY CacheAssumption
<1>2. IsFiniteSet(P)
  <2>1. IsFiniteSet(0..(Ttl + 1))
    BY <1>1, FS_Interval
  <2> QED
    BY <2>1, MetasAreFinite, FS_Product, Zenon
<1>3. f \in Surjection(P, Entries)
  <2>1. f \in [P -> Entries]
    BY DEF Entries
  <2>2. ASSUME NEW e \in Entries PROVE \E p \in P : f[p] = e
    <3>1. <<e.meta, e.age>> \in P /\ e = [meta |-> e.meta, age |-> e.age]
      BY DEF Entries
    <3> QED
      BY <3>1
  <2> QED
    BY <2>1, <2>2 DEF Surjection
<1> QED
  BY <1>2, <1>3, FS_Surjection

-----------------------------------------------------------------------------
(* The invariant.                                                          *)

LEMMA InitCache == CacheInit => CacheInv
<1> SUFFICES ASSUME CacheInit PROVE CacheInv
  OBVIOUS
<1> USE DEF CacheInit
<1>1. LookupsOK /\ EntriesOK /\ StatsOK
  BY CacheAssumption DEF LookupsOK, EntriesOK, StatsOK, Stages
<1>2. PoolOK
  <2>1. Holders = {}
    BY DEF Holders
  <2> QED
    BY <2>1, FS_EmptySet, CacheAssumption DEF PoolOK
<1>3. AgesInv
  BY DEF AgesInv, EntriesAreRecent, FetchedAreRecent, StalenessIsBounded
<1> QED
  BY <1>1, <1>2, <1>3 DEF CacheInv

\* A step of one lookup to another phase takes at most one permit more, and
\* only Acquire takes one.
LEMMA PermitKept ==
  ASSUME PoolOK, Holders' \subseteq Holders
  PROVE  PoolOK'
<1>1. IsFiniteSet(Holders') /\ Cardinality(Holders') <= Cardinality(Holders)
  BY FS_Subset DEF PoolOK
<1>2. Cardinality(Holders') \in Nat /\ Cardinality(Holders) \in Nat
  BY <1>1, FS_CardinalityType DEF PoolOK
<1> QED
  BY <1>1, <1>2, CacheAssumption DEF PoolOK

LEMMA PermitTaken ==
  ASSUME PoolOK, NEW l, Cardinality(Holders) < PoolCap, Holders' = Holders \cup {l}
  PROVE  PoolOK'
<1>1. Cardinality(Holders) \in Nat
  BY FS_CardinalityType DEF PoolOK
<1>2. /\ IsFiniteSet(Holders')
      /\ Cardinality(Holders') = IF l \in Holders THEN Cardinality(Holders)
                                 ELSE Cardinality(Holders) + 1
  BY FS_AddElement DEF PoolOK
<1> QED
  BY <1>1, <1>2, CacheAssumption DEF PoolOK

LEMMA BeginInv ==
  ASSUME CacheInv, NEW l \in Lookups, Begin(l)
  PROVE  CacheInv'
<1> USE DEF CacheInv, Begin
<1>1. LookupsOK'
  BY DEF LookupsOK, Stages
<1>2. PoolOK'
  <2>1. Holders' \subseteq Holders
    BY DEF LookupsOK, Holders
  <2> QED
    BY <2>1, PermitKept
<1> QED
  BY <1>1, <1>2 DEF EntriesOK, StatsOK, AgesInv, EntriesAreRecent, FetchedAreRecent,
                    StalenessIsBounded

\* A hit is younger than the time to live, so what it says of the ERP is
\* younger than that and the latency.
LEMMA ReadKeyInv ==
  ASSUME CacheInv, NEW l \in Lookups, NEW k \in Keys, ReadKey(l, k)
  PROVE  CacheInv'
<1> USE DEF CacheInv
<1> DEFINE new == {e.meta : e \in Hits(k)}
<1>1. new \subseteq Metas
  BY DEF Hits, EntryOf, EntriesOK, Entries
<1>2. \A m \in new : m.age <= Ttl + Latency
  <2> SUFFICES ASSUME NEW e \in Hits(k) PROVE e.meta.age <= Ttl + Latency
    OBVIOUS
  <2>1. e \in entries /\ e \in Entries /\ e.age <= Ttl /\ e.meta.age <= e.age + Latency
    BY DEF Hits, EntryOf, Fresh, EntriesOK, AgesInv, EntriesAreRecent
  <2>2. e.age \in Nat /\ e.meta.age \in Nat
    BY <2>1 DEF Entries, Metas
  <2> QED
    BY <2>1, <2>2, CacheAssumption
<1>3. \/ toFetch' = [toFetch EXCEPT ![l] = @ \cup {k}] /\ got' = got
      \/ got' = [got EXCEPT ![l] = @ \cup new] /\ toFetch' = toFetch
  BY DEF ReadKey
<1>4. UNCHANGED <<entries, stats, stage, asked, fetched, missing, waited>>
  BY DEF ReadKey
<1> HIDE DEF new
<1>5. LookupsOK'
  BY <1>1, <1>3, <1>4 DEF LookupsOK
<1>6. StalenessIsBounded'
  <2>1. \A m \in new : m.age <= Ttl + Latency + waited[l]
    BY <1>1, <1>2, CacheAssumption DEF LookupsOK, Metas
  <2> QED
    BY <1>3, <1>4, <2>1 DEF LookupsOK, AgesInv, StalenessIsBounded
<1>7. PoolOK'
  <2>1. Holders' \subseteq Holders
    BY <1>4 DEF Holders
  <2> QED
    BY <2>1, PermitKept
<1> QED
  BY <1>4, <1>5, <1>6, <1>7 DEF EntriesOK, StatsOK, AgesInv, EntriesAreRecent, FetchedAreRecent

LEMMA CountInv ==
  ASSUME CacheInv, NEW l \in Lookups, Count(l)
  PROVE  CacheInv'
<1> USE DEF CacheInv
<1>1. Cardinality(got[l]) \in Nat
  BY MetasAreFinite, FS_Subset, FS_CardinalityType DEF LookupsOK
<1>2. Misses(l) \in Nat
  BY CacheAssumption, FS_Subset, FS_CardinalityType DEF LookupsOK, Misses
<1>3. StatsOK'
  <2> DEFINE h == Cardinality(got[l])
             n == Misses(l)
  <2>1. stats' = [stats EXCEPT !.hits = @ + h, !.misses = @ + n]
    BY DEF Count
  <2> HIDE DEF h, n
  <2>2. h \in Nat /\ n \in Nat
    BY <1>1, <1>2 DEF h, n
  <2>3. stats \in [hits : Nat, misses : Nat, evictions : Nat]
    BY DEF StatsOK
  <2>4. stats.hits + h \in Nat /\ stats.misses + n \in Nat
    BY <2>2, <2>3
  <2> QED
    BY <2>1, <2>3, <2>4 DEF StatsOK
<1>4. LookupsOK'
  BY DEF LookupsOK, Stages, Count
<1>5. PoolOK'
  <2>1. Holders' \subseteq Holders
    BY DEF LookupsOK, Holders, Count
  <2> QED
    BY <2>1, PermitKept
<1> QED
  BY <1>3, <1>4, <1>5 DEF EntriesOK, AgesInv, EntriesAreRecent, FetchedAreRecent,
                          StalenessIsBounded, Count

LEMMA AcquireInv ==
  ASSUME CacheInv, NEW l \in Lookups, Acquire(l)
  PROVE  CacheInv'
<1> USE DEF CacheInv
<1>1. LookupsOK'
  BY DEF LookupsOK, Stages, Acquire
<1>2. Holders' = Holders \cup {l}
  BY DEF LookupsOK, Holders, Acquire
<1>3. PoolOK'
  BY <1>2, PermitTaken DEF Acquire
<1> QED
  BY <1>1, <1>3 DEF EntriesOK, StatsOK, AgesInv, EntriesAreRecent, FetchedAreRecent,
                    StalenessIsBounded, Acquire

\* What the ERP has just read has no age.
LEMMA ErpReadsInv ==
  ASSUME CacheInv, NEW l \in Lookups, ErpReads(l)
  PROVE  CacheInv'
<1> USE DEF CacheInv
<1>1. PICK known \in SUBSET toFetch[l] :
        /\ fetched' = [fetched EXCEPT ![l] = {[key |-> k, age |-> 0] : k \in known}]
        /\ missing' = [missing EXCEPT ![l] = toFetch[l] \ known]
  BY DEF ErpReads
<1> DEFINE new == {[key |-> k, age |-> 0] : k \in known}
<1>2. new \subseteq Metas
  BY CacheAssumption DEF Metas, MaxAge, LookupsOK
<1>3. \A m \in new : m.age <= Latency
  BY CacheAssumption
<1>4. fetched' = [fetched EXCEPT ![l] = new]
  BY <1>1
<1> HIDE DEF new
<1>5. UNCHANGED <<entries, stats, asked, toFetch, got, waited>> /\ stage' = [stage EXCEPT ![l] = "replying"]
  BY DEF ErpReads
<1>6. LookupsOK'
  BY <1>1, <1>2, <1>4, <1>5 DEF LookupsOK, Stages
<1>7. FetchedAreRecent'
  BY <1>3, <1>4 DEF LookupsOK, AgesInv, FetchedAreRecent
<1>8. PoolOK'
  <2>1. Holders' \subseteq Holders
    BY <1>5 DEF LookupsOK, Holders, ErpReads
  <2> QED
    BY <2>1, PermitKept
<1> QED
  BY <1>5, <1>6, <1>7, <1>8 DEF EntriesOK, StatsOK, AgesInv, EntriesAreRecent, StalenessIsBounded

LEMMA ReceiveInv ==
  ASSUME CacheInv, NEW l \in Lookups, Receive(l)
  PROVE  CacheInv'
<1> USE DEF CacheInv
<1>1. got' = [got EXCEPT ![l] = @ \cup fetched[l]] /\ stage' = [stage EXCEPT ![l] = "storing"]
      /\ UNCHANGED <<entries, stats, asked, toFetch, fetched, missing, waited>>
  BY DEF Receive, Merged
<1>2. LookupsOK'
  BY <1>1 DEF LookupsOK, Stages
<1>3. \A m \in fetched[l] : m.age <= Ttl + Latency + waited[l]
  BY CacheAssumption DEF LookupsOK, Metas, AgesInv, FetchedAreRecent
<1>4. StalenessIsBounded'
  BY <1>1, <1>3 DEF LookupsOK, AgesInv, StalenessIsBounded
<1>5. PoolOK'
  <2>1. Holders' \subseteq Holders
    BY <1>1 DEF LookupsOK, Holders
  <2> QED
    BY <2>1, PermitKept
<1> QED
  BY <1>1, <1>2, <1>4, <1>5 DEF EntriesOK, StatsOK, AgesInv, EntriesAreRecent, FetchedAreRecent

LEMMA FetchFailsInv ==
  ASSUME CacheInv, NEW l \in Lookups, FetchFails(l)
  PROVE  CacheInv'
<1> USE DEF CacheInv, FetchFails
<1>1. LookupsOK'
  BY DEF LookupsOK, Stages
<1>2. FetchedAreRecent'
  BY DEF LookupsOK, AgesInv, FetchedAreRecent
<1>3. PoolOK'
  <2>1. Holders' \subseteq Holders
    BY DEF LookupsOK, Holders
  <2> QED
    BY <2>1, PermitKept
<1> QED
  BY <1>1, <1>2, <1>3 DEF EntriesOK, StatsOK, AgesInv, EntriesAreRecent, StalenessIsBounded

\* The entry stored replaces the one its key had, and is as recent as the
\* answer it holds.
LEMMA StoreInv ==
  ASSUME CacheInv, NEW l \in Lookups, NEW m \in fetched[l], Store(l, m)
  PROVE  CacheInv'
<1> USE DEF CacheInv
<1> DEFINE e0 == [meta |-> m, age |-> 0]
<1>1. m \in Metas /\ m.age <= Latency
  BY DEF LookupsOK, AgesInv, FetchedAreRecent
<1>2. e0 \in Entries /\ (Ttl # 0 => Ttl # 0 /\ e0.meta.age <= e0.age + Latency)
  BY <1>1, CacheAssumption DEF Entries, Metas
<1>3. UNCHANGED <<stats, stage, asked, toFetch, got, missing, waited>>
      /\ fetched' = [fetched EXCEPT ![l] = @ \ {m}]
  BY DEF Store
<1>4. LookupsOK' /\ FetchedAreRecent'
  BY <1>3 DEF LookupsOK, AgesInv, FetchedAreRecent
<1>5. EntriesOK' /\ EntriesAreRecent'
  <2>1. CASE Ttl = 0
    BY <2>1 DEF Store, EntriesOK, AgesInv, EntriesAreRecent
  <2>2. CASE Ttl # 0
    <3>1. entries' = (entries \ EntryOf(m.key)) \cup {e0}
      BY <2>2 DEF Store, Inserted
    <3>2. \A e \in entries \ EntryOf(m.key) : e \in Entries /\ e.meta.key # m.key
      BY DEF EntryOf, EntriesOK
    <3>3. EntriesOK'
      <4> SUFFICES ASSUME NEW e \in entries', NEW f \in entries', e.meta.key = f.meta.key
                   PROVE  e = f
        BY <1>2, <3>1, <3>2 DEF EntriesOK
      <4>1. e0.meta.key = m.key
        OBVIOUS
      <4> QED
        BY <3>1, <3>2, <4>1 DEF EntriesOK
    <3>4. EntriesAreRecent'
      BY <1>2, <2>2, <3>1 DEF AgesInv, EntriesAreRecent
    <3> QED
      BY <3>3, <3>4
  <2> QED
    BY <2>1, <2>2
<1>6. PoolOK'
  <2>1. Holders' \subseteq Holders
    BY <1>3 DEF Holders
  <2> QED
    BY <2>1, PermitKept
<1> QED
  BY <1>3, <1>4, <1>5, <1>6 DEF StatsOK, AgesInv, StalenessIsBounded

LEMMA ReturnInv ==
  ASSUME CacheInv, NEW l \in Lookups, Return(l)
  PROVE  CacheInv'
<1> USE DEF CacheInv, Return
<1>1. LookupsOK'
  BY DEF LookupsOK, Stages
<1>2. PoolOK'
  <2>1. Holders' \subseteq Holders
    BY DEF LookupsOK, Holders
  <2> QED
    BY <2>1, PermitKept
<1> QED
  BY <1>1, <1>2 DEF EntriesOK, StatsOK, AgesInv, EntriesAreRecent, FetchedAreRecent,
                    StalenessIsBounded

LEMMA InvalidateAllInv ==
  ASSUME CacheInv, InvalidateAll
  PROVE  CacheInv'
<1> USE DEF CacheInv, InvalidateAll
<1>1. Cardinality(entries) \in Nat
  BY EntriesAreFinite, FS_Subset, FS_CardinalityType DEF EntriesOK
<1>2. StatsOK'
  BY <1>1 DEF StatsOK
<1>3. PoolOK'
  <2>1. Holders' \subseteq Holders
    BY DEF Holders
  <2> QED
    BY <2>1, PermitKept
<1> QED
  BY <1>2, <1>3 DEF LookupsOK, EntriesOK, AgesInv, EntriesAreRecent, FetchedAreRecent,
                    StalenessIsBounded

LEMMA AgedOK ==
  ASSUME NEW m \in Metas
  PROVE  /\ Aged(m) \in Metas /\ Aged(m).key = m.key
         /\ Aged(m).age = IF m.age < MaxAge THEN m.age + 1 ELSE m.age
  BY CacheAssumption DEF Metas, Aged, Older, MaxAge

\* Both ages of an entry grow, and that of its answer stops growing no later
\* than its bound.
LEMMA TickInv ==
  ASSUME CacheInv, TimePasses
  PROVE  CacheInv'
<1> USE DEF CacheInv
<1> DEFINE Next1(e) == [meta |-> Aged(e.meta), age |-> Older(e.age, Ttl + 1)]
<1>1. UNCHANGED <<stats, stage, asked, toFetch, missing>>
  BY DEF TimePasses
<1>2. entries' = {Next1(e) : e \in entries}
  BY DEF TimePasses
<1>3. ASSUME NEW e \in entries
      PROVE  /\ Next1(e) \in Entries /\ Next1(e).meta.key = e.meta.key
             /\ Next1(e).age <= Ttl => Next1(e).meta.age <= Next1(e).age + Latency
  <2>1. /\ e.meta \in Metas /\ e.age \in 0..(Ttl + 1) /\ e.meta.age \in 0..MaxAge
        /\ e.age <= Ttl => e.meta.age <= e.age + Latency
    BY DEF EntriesOK, Entries, Metas, AgesInv, EntriesAreRecent
  <2>2. Older(e.age, Ttl + 1) \in 0..(Ttl + 1)
    BY <2>1, CacheAssumption DEF Older
  <2>3. Older(e.age, Ttl + 1) <= Ttl => Aged(e.meta).age <= Older(e.age, Ttl + 1) + Latency
    BY <2>1, AgedOK, CacheAssumption DEF Older, MaxAge
  <2> QED
    BY <2>1, <2>2, <2>3, AgedOK DEF Entries
<1>4. EntriesOK'
  <2>1. entries' \subseteq Entries
    BY <1>2, <1>3
  <2>2. ASSUME NEW e \in entries, NEW f \in entries, Next1(e).meta.key = Next1(f).meta.key
        PROVE  Next1(e) = Next1(f)
    <3>1. e.meta.key = f.meta.key
      BY <1>3, <2>2
    <3> QED
      BY <3>1 DEF EntriesOK
  <2> QED
    BY <1>2, <2>1, <2>2 DEF EntriesOK
<1>5. EntriesAreRecent'
  BY <1>2, <1>3 DEF AgesInv, EntriesAreRecent
<1>6. ASSUME NEW l \in Lookups, NEW m \in fetched[l]
      PROVE  Aged(m) \in Metas /\ Aged(m).age <= Latency
  <2>1. m \in Metas /\ m.age < Latency /\ m.age \in Nat
    BY DEF LookupsOK, TimePasses, Metas
  <2> QED
    BY <2>1, AgedOK, CacheAssumption
<1>7. fetched' = [l \in Lookups |-> {Aged(m) : m \in fetched[l]}]
  BY DEF TimePasses
<1>8. /\ got' = [l \in Lookups |-> IF l \in Pending THEN {Aged(m) : m \in got[l]} ELSE got[l]]
      /\ waited' = [l \in Lookups |-> IF l \in Pending THEN Older(waited[l], MaxWait)
                                      ELSE waited[l]]
  BY DEF TimePasses
<1>9. ASSUME NEW l \in Lookups
      PROVE  /\ got'[l] \subseteq Metas /\ waited'[l] \in 0..MaxWait
             /\ \A m \in got'[l] : m.age <= Ttl + Latency + waited'[l]
  <2>1. /\ got[l] \subseteq Metas /\ waited[l] \in 0..MaxWait
        /\ \A m \in got[l] : m.age <= Ttl + Latency + waited[l]
    BY DEF LookupsOK, AgesInv, StalenessIsBounded
  <2>2. CASE l \notin Pending
    BY <1>8, <2>1, <2>2
  <2>3. CASE l \in Pending
    <3>1. got'[l] = {Aged(m) : m \in got[l]} /\ waited'[l] = Older(waited[l], MaxWait)
      BY <1>8, <2>3
    <3>2. Older(waited[l], MaxWait) \in 0..MaxWait
      BY <2>1, CacheAssumption DEF Older
    <3>3. ASSUME NEW m \in got[l]
          PROVE  Aged(m) \in Metas /\ Aged(m).age <= Ttl + Latency + Older(waited[l], MaxWait)
      <4>1. m \in Metas /\ m.age \in 0..MaxAge /\ m.age <= Ttl + Latency + waited[l]
        BY <2>1 DEF Metas
      <4> QED
        BY <2>1, <4>1, AgedOK, CacheAssumption DEF Older, MaxAge
    <3> QED
      BY <3>1, <3>2, <3>3
  <2> QED
    BY <2>2, <2>3
<1>10. LookupsOK' /\ FetchedAreRecent' /\ StalenessIsBounded'
  <2>1. got' \in [Lookups -> SUBSET Metas] /\ waited' \in [Lookups -> 0..MaxWait]
    BY <1>8, <1>9
  <2> QED
    BY <1>1, <1>6, <1>7, <1>9, <2>1 DEF LookupsOK, FetchedAreRecent, StalenessIsBounded
<1>11. PoolOK'
  <2>1. Holders' \subseteq Holders
    BY <1>1 DEF Holders
  <2> QED
    BY <2>1, PermitKept
<1> QED
  BY <1>1, <1>4, <1>5, <1>10, <1>11 DEF StatsOK, AgesInv

LEMMA StutterInv ==
  ASSUME CacheInv, UNCHANGED cacheVars
  PROVE  CacheInv'
<1> USE DEF CacheInv, cacheVars
<1>1. PoolOK'
  <2>1. Holders' \subseteq Holders
    BY DEF Holders
  <2> QED
    BY <2>1, PermitKept
<1> QED
  BY <1>1 DEF LookupsOK, EntriesOK, StatsOK, AgesInv, EntriesAreRecent, FetchedAreRecent,
              StalenessIsBounded

LEMMA NextInv ==
  ASSUME CacheInv, [CacheNext]_cacheVars
  PROVE  CacheInv'
<1>1. ASSUME NEW l \in Lookups, Begin(l) PROVE CacheInv'
  BY <1>1, BeginInv
<1>2. ASSUME NEW l \in Lookups, LookupStep(l) PROVE CacheInv'
  BY <1>2, ReadKeyInv, CountInv, AcquireInv, ErpReadsInv, ReceiveInv, FetchFailsInv, StoreInv,
     ReturnInv DEF LookupStep
<1>3. CASE InvalidateAll
  BY <1>3, InvalidateAllInv
<1>4. CASE TimePasses
  BY <1>4, TickInv
<1>5. CASE UNCHANGED cacheVars
  BY <1>5, StutterInv
<1> QED
  BY <1>1, <1>2, <1>3, <1>4, <1>5 DEF CacheNext

LEMMA CacheInvariant == CacheSpec => []CacheInv
<1>1. CacheInv /\ [CacheNext]_cacheVars => CacheInv'
  BY NextInv
<1> QED
  BY <1>1, InitCache, PTL DEF CacheSpec

-----------------------------------------------------------------------------

\* No lookup holds or returns what the ERP said longer ago than the time to
\* live, the latency of a fetch and the time the lookup itself took, however
\* lookups, stores, invalidations and time interleave (get_fresh, store and
\* bulk_operation_metadata, which keeps its hits while it fetches the rest).
THEOREM Staleness == CacheSpec => []StalenessIsBounded
<1>1. CacheInv => StalenessIsBounded
  BY DEF CacheInv, AgesInv
<1> QED
  BY <1>1, CacheInvariant, PTL

\* The types; the map never holds two entries of one key, and no more inner
\* calls run at a time than the pool has permits (metadata_cache.rs, pool.rs).
THEOREM CacheTypes == CacheSpec => []CacheTypeOK
<1>1. CacheInv => CacheTypeOK
  <2> SUFFICES ASSUME CacheInv PROVE CacheTypeOK
    OBVIOUS
  <2>1. ASSUME NEW k \in Keys PROVE Cardinality(EntryOf(k)) <= 1
    <3>1. CASE EntryOf(k) = {}
      BY <3>1, FS_EmptySet
    <3>2. CASE EntryOf(k) # {}
      <4>1. PICK e \in EntryOf(k) : TRUE
        BY <3>2
      <4>2. EntryOf(k) = {e}
        BY <4>1 DEF EntryOf, CacheInv, EntriesOK
      <4> QED
        BY <4>2, FS_Singleton
    <3> QED
      BY <3>1, <3>2
  <2> QED
    BY <2>1 DEF CacheTypeOK, CacheInv, LookupsOK, Stages, EntriesOK, StatsOK, PoolOK
<1> QED
  BY <1>1, CacheInvariant, PTL

-----------------------------------------------------------------------------
(* ErpWrite.                                                               *)

Ended == {"auditing", "done", "lost"}

\* What a call's phase says of its change; one that another call may have
\* finished is in crossed.
Stage(w) ==
  /\ pc[w] \in {"idle", "gate", "calling"} => w \notin luw /\ w \notin db
  /\ pc[w] \notin Ended => report[w] = "none"
  /\ pc[w] \in {"auditing", "done"} => report[w] # "none"
  /\ pc[w] = "calling" /\ commit[w] => op[w] # "finisher"
  /\ pc[w] = "calling" /\ w \in ReadOnly => op[w] = "read"
  /\ pc[w] = "committing" =>
       /\ Deferred /\ commit[w] /\ business[w] = "ok"
       /\ w \notin crossed => w \notin db /\ (op[w] # "read" => w \in luw)
  /\ pc[w] = "rollingBack" => commit[w] /\ (Deferred /\ w \notin crossed => w \notin db)
  /\ pc[w] = "auditing" => commit[w]

\* What is known of a call that has ended, its change still open or not.
Past(w) ==
  /\ Deferred /\ commit[w] /\ pc[w] \in Ended /\ (w \in luw \/ w \in db) =>
       business[w] = "ok" \/ w \in crossed \/ LeavesOpen(w)
  /\ report[w] = "committed" /\ final[w] = "ok" /\ op[w] # "read" => w \in db \/ w \in crossed
  /\ report[w] = "rolledBack" /\ final[w] = "ok" =>
       (w \notin db /\ w \notin luw) \/ w \in crossed
  /\ report[w] = "denied" => w \notin db /\ w \notin luw
  /\ w \in ReadOnly => w \notin db /\ w \notin luw

IInv == TypeOK /\ (\A w \in Calls : Stage(w)) /\ (\A w \in Calls : Past(w))

\* Initially no call has started, so none has an effect or a report.
LEMMA InitInv == Init => IInv
  BY ErpAssumption DEF Init, IInv, TypeOK, Stage, Past, Ended, Phases, InFlight, Ops, Stacks,
     ReportKinds, Audited

\* A request to commit or to roll back finishes its own call's change and, at
\* most, changes that were open; whoever was between operation and finish
\* meanwhile is in crossed.
Finishing(w, takes) ==
  /\ luw' \subseteq luw /\ db \subseteq db' /\ db' \subseteq db \cup luw
  /\ crossed' = crossed \cup (Open \ {w})
  /\ takes => w \notin luw'
  /\ ~takes => luw' = luw /\ db' = db

LEMMA Committing ==
  ASSUME NEW w, NEW takes \in BOOLEAN, CommitRequest(w, takes)
  PROVE  Finishing(w, takes) /\ (takes /\ w \in luw => w \in db')
<1>1. CASE takes
  <2>1. PICK open \in Current(w) : Persist(open)
    BY <1>1 DEF CommitRequest
  <2> QED
    BY <1>1, <2>1 DEF CommitRequest, Current, Persist, Finishing, Crosses
<1>2. CASE ~takes
  BY <1>2 DEF CommitRequest, Finishing, Crosses
<1> QED
  BY <1>1, <1>2

LEMMA RollingBack ==
  ASSUME NEW w, NEW takes \in BOOLEAN, RollbackRequest(w, takes)
  PROVE  Finishing(w, takes) /\ db' = db
<1>1. CASE takes
  <2>1. PICK open \in Current(w) : Discard(open)
    BY <1>1 DEF RollbackRequest
  <2> QED
    BY <1>1, <2>1 DEF RollbackRequest, Current, Discard, Finishing, Crosses
<1>2. CASE ~takes
  BY <1>2 DEF RollbackRequest, Finishing, Crosses
<1> QED
  BY <1>1, <1>2

\* What a step of call w may do to the ERP: make its own change, or finish.
Changes(w) ==
  \/ luw' \subseteq luw \cup {w} /\ luw \subseteq luw' /\ db' \subseteq db \cup {w} /\ db \subseteq db'
     /\ crossed' = crossed
  \/ luw' = luw \ {w} /\ db' = db /\ crossed' = crossed
  \/ \E takes \in BOOLEAN : Finishing(w, takes)

LEMMA EffectChanges ==
  ASSUME NEW w, NEW takes, Effect(w, takes), crossed' = crossed
  PROVE  Changes(w)
  BY DEF Effect, Takes, Changes

LEMMA StepChanges ==
  ASSUME NEW w \in Calls,
         \/ Start(w) \/ GateRefuses(w) \/ GatePasses(w) \/ ClientRefuses(w)
         \/ PlainCall(w) \/ PlainFinisher(w)
         \/ BusinessReplies(w) \/ BusinessFails(w)
         \/ CommitReplies(w) \/ CommitFails(w) \/ RollbackReplies(w) \/ RollbackFails(w)
         \/ RecordAudit(w) \/ IsLost(w) \/ ErpExpires(w)
  PROVE  Changes(w)
<1>1. CASE UNCHANGED <<luw, db, crossed>>
  BY <1>1 DEF Changes
<1>2. CASE PlainCall(w) \/ BusinessReplies(w) \/ BusinessFails(w)
  <2>1. (\E takes \in BOOLEAN : Effect(w, takes)) /\ crossed' = crossed
    BY <1>2 DEF PlainCall, BusinessReplies, BusinessFails
  <2> QED
    BY <2>1, EffectChanges
<1>3. CASE PlainFinisher(w) \/ CommitReplies(w) \/ CommitFails(w) \/ RollbackReplies(w)
           \/ RollbackFails(w)
  <2>1. \E takes \in BOOLEAN : CommitRequest(w, takes) \/ RollbackRequest(w, takes)
    <3>1. \A takes \in BOOLEAN : (Deferred /\ takes) \in BOOLEAN
      BY Zenon
    <3> QED
      BY <1>3, <3>1, Zenon DEF PlainFinisher, CommitReplies, CommitFails, RollbackReplies,
         RollbackFails
  <2> QED
    BY <2>1, Committing, RollingBack DEF Changes
<1>4. CASE IsLost(w) /\ SentAnyway(w)
  <2>1. CASE Effect(w, TRUE) /\ UNCHANGED crossed
    <3>1. PICK takes \in BOOLEAN : takes = TRUE
      OBVIOUS
    <3>2. Effect(w, takes)
      BY <2>1, <3>1, Zenon
    <3> QED
      BY <2>1, <3>2, EffectChanges
  <2>2. CASE CommitRequest(w, Deferred) \/ RollbackRequest(w, Deferred)
    BY <2>2, ErpAssumption, Committing, RollingBack DEF Changes
  <2> QED
    BY <1>4, <2>1, <2>2, Zenon DEF SentAnyway
<1>5. CASE ErpExpires(w)
  BY <1>5 DEF ErpExpires, Changes
<1>6. Start(w) \/ GateRefuses(w) \/ GatePasses(w) \/ ClientRefuses(w) \/ RecordAudit(w)
      => UNCHANGED <<luw, db, crossed>>
  BY DEF Start, GateRefuses, GatePasses, ClientRefuses, RecordAudit
<1>7. IsLost(w) => SentAnyway(w) \/ UNCHANGED <<luw, db, crossed>>
  BY Zenon DEF IsLost
<1> QED
  BY <1>1, <1>2, <1>3, <1>4, <1>5, <1>6, <1>7

\* Every step keeps the variables' types.
LEMMA TypeStep == TypeOK /\ [Next]_vars => TypeOK'
<1> SUFFICES ASSUME TypeOK, [Next]_vars PROVE TypeOK'
  OBVIOUS
<1> USE DEF TypeOK, Phases, InFlight, Ops, Stacks, ReportKinds, Goto, Reports
<1>1. CASE UNCHANGED vars
  BY <1>1 DEF vars
<1>2. CASE Next
  <2>1. PICK w \in Calls :
         \/ Start(w) \/ GateRefuses(w) \/ GatePasses(w) \/ ClientRefuses(w)
         \/ PlainCall(w) \/ PlainFinisher(w)
         \/ BusinessReplies(w) \/ BusinessFails(w)
         \/ CommitReplies(w) \/ CommitFails(w) \/ RollbackReplies(w) \/ RollbackFails(w)
         \/ RecordAudit(w) \/ IsLost(w) \/ ErpExpires(w)
    BY <1>2 DEF Next
  <2>2. luw' \subseteq Calls /\ db' \subseteq Calls /\ crossed' \subseteq Calls
    BY <2>1, StepChanges DEF Changes, Finishing, Open
  <2>3. audit' \subseteq [call : Calls, outcome : Audited]
    <3>1. CASE RecordAudit(w)
      BY <3>1 DEF RecordAudit, Verdict, Audited
    <3>2. CASE ~RecordAudit(w)
      BY <2>1, <3>2, Zenon DEF Start, GateRefuses, GatePasses, ClientRefuses, PlainCall,
         PlainFinisher, BusinessReplies, BusinessFails, CommitReplies, CommitFails,
         RollbackReplies, RollbackFails, IsLost, ErpExpires
    <3> QED
      BY <3>1, <3>2
  <2>4. /\ pc' \in [Calls -> Phases] /\ commit' \in [Calls -> BOOLEAN] /\ op' \in [Calls -> Ops]
        /\ business' \in [Calls -> Stacks] /\ final' \in [Calls -> Stacks]
        /\ report' \in [Calls -> ReportKinds]
    <3>1. CASE Start(w)
      BY <3>1 DEF Start
    <3>2. CASE GateRefuses(w) \/ GatePasses(w) \/ ClientRefuses(w)
      BY <3>2 DEF GateRefuses, GatePasses, ClientRefuses
    <3>3. CASE PlainCall(w) \/ PlainFinisher(w) \/ BusinessFails(w)
      BY <3>3 DEF PlainCall, PlainFinisher, BusinessFails
    <3>4. CASE BusinessReplies(w)
      BY <3>4 DEF BusinessReplies, AfterBusiness
    <3>5. CASE CommitReplies(w) \/ CommitFails(w) \/ RollbackReplies(w) \/ RollbackFails(w)
      BY <3>5 DEF CommitReplies, CommitFails, RollbackReplies, RollbackFails
    <3>6. CASE RecordAudit(w) \/ IsLost(w) \/ ErpExpires(w)
      BY <3>6 DEF RecordAudit, IsLost, ErpExpires
    <3> QED
      BY <2>1, <3>1, <3>2, <3>3, <3>4, <3>5, <3>6
  <2> QED
    BY <2>2, <2>3, <2>4
<1> QED
  BY <1>1, <1>2

\* A step of one call leaves what another call knows as it was, and what it
\* does to the other's change either the other had left open, or is crossing.
LEMMA OthersUntouched ==
  ASSUME TypeOK, NEW w \in Calls, NEW v \in Calls, v # w, Stage(v), Past(v),
         \/ Start(w) \/ GateRefuses(w) \/ GatePasses(w) \/ ClientRefuses(w)
         \/ PlainCall(w) \/ PlainFinisher(w)
         \/ BusinessReplies(w) \/ BusinessFails(w)
         \/ CommitReplies(w) \/ CommitFails(w) \/ RollbackReplies(w) \/ RollbackFails(w)
         \/ RecordAudit(w) \/ IsLost(w) \/ ErpExpires(w)
  PROVE  Stage(v)' /\ Past(v)'
<1>1. /\ pc'[v] = pc[v] /\ commit'[v] = commit[v] /\ op'[v] = op[v]
      /\ business'[v] = business[v] /\ final'[v] = final[v] /\ report'[v] = report[v]
  BY DEF TypeOK, Start, GateRefuses, GatePasses, ClientRefuses, PlainCall, PlainFinisher,
     BusinessReplies, BusinessFails, CommitReplies, CommitFails, RollbackReplies, RollbackFails,
     RecordAudit, IsLost, ErpExpires, Goto, Reports
<1>2. /\ v \in luw' => v \in luw
      /\ v \in db => v \in db'
      /\ v \in db' => v \in db \/ v \in luw
      /\ v \in crossed => v \in crossed'
      /\ \/ (v \in luw' <=> v \in luw) /\ (v \in db' <=> v \in db)
         \/ pc[v] \in {"committing", "rollingBack"} => v \in crossed'
  BY StepChanges DEF Changes, Finishing, Open
<1>3. LeavesOpen(v)' <=> LeavesOpen(v)
  BY <1>1 DEF LeavesOpen
<1>4. pc[v] \in Phases
  BY DEF TypeOK
<1>5. Stage(v)'
  BY <1>1, <1>2 DEF Stage, Ended
<1>6. Past(v)'
  BY <1>1, <1>2, <1>3 DEF Past, Ended
<1> QED
  BY <1>5, <1>6

\* What is known of a call survives each of its own steps.
LEMMA OwnStep ==
  ASSUME TypeOK, NEW w \in Calls, Stage(w), Past(w),
         \/ Start(w) \/ GateRefuses(w) \/ GatePasses(w) \/ ClientRefuses(w)
         \/ PlainCall(w) \/ PlainFinisher(w)
         \/ BusinessReplies(w) \/ BusinessFails(w)
         \/ CommitReplies(w) \/ CommitFails(w) \/ RollbackReplies(w) \/ RollbackFails(w)
         \/ RecordAudit(w) \/ IsLost(w) \/ ErpExpires(w)
  PROVE  Stage(w)' /\ Past(w)'
<1> USE ErpAssumption DEF TypeOK, Goto, Reports, Ended
<1>1. CASE Start(w)
  BY <1>1 DEF Start, Stage, Past
<1>2. CASE GateRefuses(w)
  BY <1>2 DEF GateRefuses, Stage, Past
<1>3. CASE GatePasses(w)
  BY <1>3 DEF GatePasses, Callable, Stage, Past
<1>4. CASE ClientRefuses(w)
  BY <1>4 DEF ClientRefuses, Stage, Past
<1>5. CASE PlainCall(w)
  <2>1. w \notin luw /\ w \notin db /\ ~commit[w]
    BY <1>5 DEF PlainCall, Stage
  <2>2. w \in ReadOnly => w \notin db' /\ w \notin luw'
    BY <1>5, <2>1 DEF PlainCall, Effect, Takes, Stage
  <2>3. pc'[w] = "done" /\ report'[w] \in {"result", "error"} /\ commit'[w] = commit[w]
    BY <1>5 DEF PlainCall
  <2> QED
    BY <2>1, <2>2, <2>3 DEF Stage, Past
<1>6. CASE PlainFinisher(w)
  <2>1. w \notin luw /\ w \notin db /\ ~commit[w]
    BY <1>6 DEF PlainFinisher, Stage
  <2>2. \E takes \in BOOLEAN : Finishing(w, takes)
    <3>1. \E takes \in BOOLEAN : CommitRequest(w, takes) \/ RollbackRequest(w, takes)
      <4>1. \A takes \in BOOLEAN : (Deferred /\ takes) \in BOOLEAN
        BY Zenon
      <4> QED
        BY <1>6, <4>1, Zenon DEF PlainFinisher
    <3> QED
      BY <3>1, Committing, RollingBack
  <2>3. w \notin luw' /\ w \notin db'
    BY <2>1, <2>2 DEF Finishing
  <2>4. pc'[w] = "done" /\ report'[w] \in {"result", "error"} /\ commit'[w] = commit[w]
    BY <1>6 DEF PlainFinisher
  <2> QED
    BY <2>1, <2>3, <2>4 DEF Stage, Past
<1>7. CASE BusinessReplies(w)
  <2>0. PICK stack \in Stacks, takes \in BOOLEAN :
          /\ Reply(stack, takes) /\ Effect(w, takes)
          /\ business' = [business EXCEPT ![w] = stack] /\ Goto(w, AfterBusiness(stack))
    BY <1>7 DEF BusinessReplies
  <2>1. /\ w \notin luw /\ w \notin db /\ commit[w] /\ op[w] # "finisher"
        /\ report[w] = "none" /\ (w \in ReadOnly => op[w] = "read")
    BY <1>7 DEF BusinessReplies, Stage
  <2>2. /\ Deferred => w \notin db'
        /\ w \in ReadOnly => w \notin db' /\ w \notin luw'
        /\ Deferred /\ takes /\ op[w] # "read" => w \in luw'
    BY <2>0, <2>1 DEF Effect, Takes, Ops
  <2>3. /\ pc'[w] = AfterBusiness(stack) /\ business'[w] = stack
        /\ report'[w] = "none" /\ commit'[w] /\ op'[w] = op[w]
    BY <1>7, <2>0, <2>1 DEF BusinessReplies
  <2>4. stack = "ok" => Deferred /\ takes
    BY <2>0 DEF Reply
  <2> QED
    BY <2>2, <2>3, <2>4 DEF Stage, Past, AfterBusiness
<1>8. CASE BusinessFails(w)
  <2>1. /\ w \notin luw /\ w \notin db /\ commit[w] /\ (w \in ReadOnly => op[w] = "read")
    BY <1>8 DEF BusinessFails, Stage
  <2>2. w \in ReadOnly => w \notin db' /\ w \notin luw'
    BY <1>8, <2>1 DEF BusinessFails, Effect, Takes
  <2>3. pc'[w] = "auditing" /\ report'[w] = "error" /\ commit'[w]
    BY <1>8, <2>1 DEF BusinessFails
  <2> QED
    BY <2>2, <2>3 DEF Stage, Past, LeavesOpen
<1>9. CASE CommitReplies(w)
  <2>0. PICK stack \in Stacks, takes \in BOOLEAN :
          /\ FinisherReply(stack, takes) /\ CommitRequest(w, takes)
          /\ final' = [final EXCEPT ![w] = stack]
          /\ IF stack = "failure" THEN Goto(w, "rollingBack") /\ UNCHANGED report
             ELSE Goto(w, "auditing") /\ Reports(w, "committed")
    BY <1>9 DEF CommitReplies
  <2>1. /\ Deferred /\ commit[w] /\ business[w] = "ok" /\ report[w] = "none"
        /\ w \notin crossed => w \notin db /\ (op[w] # "read" => w \in luw)
    BY <1>9 DEF CommitReplies, Stage
  <2>2. Finishing(w, takes) /\ (takes /\ w \in luw => w \in db')
    BY <2>0, Committing
  <2>3. (stack = "ok" => takes) /\ (stack = "failure" => ~takes)
    BY <2>0, <2>1 DEF FinisherReply
  <2>4. /\ commit'[w] /\ business'[w] = "ok" /\ final'[w] = stack /\ op'[w] = op[w]
        /\ w \in crossed' <=> w \in crossed
    BY <1>9, <2>0, <2>1, <2>2 DEF CommitReplies, Finishing
  <2>5. w \in ReadOnly => w \notin db' /\ w \notin luw'
    BY <2>2 DEF Finishing, Past
  <2>6. CASE stack = "failure"
    <3>1. pc'[w] = "rollingBack" /\ report'[w] = "none" /\ luw' = luw /\ db' = db
      BY <2>0, <2>1, <2>2, <2>3, <2>6 DEF Finishing
    <3> QED
      BY <2>1, <2>4, <2>5, <3>1 DEF Stage, Past
  <2>7. CASE stack # "failure"
    <3>1. pc'[w] = "auditing" /\ report'[w] = "committed"
      BY <2>0, <2>7
    <3> QED
      BY <2>1, <2>2, <2>3, <2>4, <2>5, <3>1 DEF Stage, Past
  <2> QED
    BY <2>6, <2>7
<1>10. CASE CommitFails(w)
  <2>1. commit[w] /\ business[w] = "ok"
    BY <1>10 DEF CommitFails, Stage
  <2>2. \E takes \in BOOLEAN : Finishing(w, takes)
    <3>1. \A takes \in BOOLEAN : (Deferred /\ takes) \in BOOLEAN
      BY Zenon
    <3>2. \E takes \in BOOLEAN : CommitRequest(w, takes)
      BY <1>10, <3>1, Zenon DEF CommitFails
    <3> QED
      BY <3>2, Committing
  <2>3. pc'[w] = "auditing" /\ report'[w] = "error" /\ commit'[w]
    BY <1>10, <2>1 DEF CommitFails
  <2>4. w \in ReadOnly => w \notin db' /\ w \notin luw'
    BY <2>2 DEF Finishing, Past
  <2> QED
    BY <2>3, <2>4 DEF Stage, Past, LeavesOpen
<1>11. CASE RollbackReplies(w)
  <2>0. PICK stack \in Stacks, takes \in BOOLEAN :
          /\ FinisherReply(stack, takes) /\ RollbackRequest(w, takes)
          /\ final' = [final EXCEPT ![w] = stack]
          /\ Reports(w, IF stack = "failure" THEN "unfinished" ELSE "rolledBack")
    BY <1>11 DEF RollbackReplies
  <2>1. commit[w] /\ (Deferred /\ w \notin crossed => w \notin db)
    BY <1>11 DEF RollbackReplies, Stage
  <2>2. Finishing(w, takes) /\ db' = db
    BY <2>0, RollingBack
  <2>3. stack = "ok" => Deferred /\ takes
    BY <2>0 DEF FinisherReply
  <2>4. pc'[w] = "auditing" /\ commit'[w] /\ final'[w] = stack
        /\ report'[w] = (IF stack = "failure" THEN "unfinished" ELSE "rolledBack")
        /\ (w \in crossed' <=> w \in crossed)
    BY <1>11, <2>0, <2>1, <2>2 DEF RollbackReplies, Finishing
  <2>5. w \in ReadOnly => w \notin db' /\ w \notin luw'
    BY <2>2 DEF Finishing, Past
  <2>6. stack = "ok" => w \notin luw' /\ (w \notin crossed => w \notin db')
    BY <2>1, <2>2, <2>3 DEF Finishing
  <2> QED
    BY <2>4, <2>5, <2>6 DEF Stage, Past, LeavesOpen, Stacks
<1>12. CASE RollbackFails(w)
  <2>1. commit[w]
    BY <1>12 DEF RollbackFails, Stage
  <2>2. \E takes \in BOOLEAN : Finishing(w, takes)
    <3>1. \A takes \in BOOLEAN : (Deferred /\ takes) \in BOOLEAN
      BY Zenon
    <3>2. \E takes \in BOOLEAN : RollbackRequest(w, takes)
      BY <1>12, <3>1, Zenon DEF RollbackFails
    <3> QED
      BY <3>2, RollingBack
  <2>3. pc'[w] = "auditing" /\ report'[w] = "unfinished" /\ commit'[w]
    BY <1>12, <2>1 DEF RollbackFails
  <2>4. w \in ReadOnly => w \notin db' /\ w \notin luw'
    BY <2>2 DEF Finishing, Past
  <2> QED
    BY <2>3, <2>4 DEF Stage, Past, LeavesOpen
<1>13. CASE RecordAudit(w)
  BY <1>13 DEF RecordAudit, Stage, Past, LeavesOpen
<1>14. CASE IsLost(w)
  <2>1. /\ pc'[w] = "lost" /\ report'[w] = report[w] /\ final'[w] = final[w] /\ commit'[w] = commit[w]
        /\ op'[w] = op[w] /\ business'[w] = business[w]
    BY <1>14 DEF IsLost
  <2>2. pc[w] = "auditing" => UNCHANGED <<luw, db, crossed>>
    BY <1>14 DEF IsLost, SentAnyway
  <2>3. w \in ReadOnly => w \notin db' /\ w \notin luw'
    <3>1. CASE pc[w] = "calling" /\ Effect(w, TRUE)
      BY <3>1 DEF Effect, Stage, Past
    <3>2. CASE ~(pc[w] = "calling" /\ Effect(w, TRUE))
      <4>1. CASE CommitRequest(w, Deferred) \/ RollbackRequest(w, Deferred)
        BY <4>1, Committing, RollingBack DEF Finishing, Past
      <4>2. CASE UNCHANGED <<luw, db, crossed>>
        BY <4>2 DEF Past
      <4> QED
        BY <1>14, <3>2, <4>1, <4>2, Zenon DEF IsLost, SentAnyway
    <3> QED
      BY <3>1, <3>2
  <2>4. pc[w] \in InFlight /\ (pc[w] # "auditing" => report[w] = "none")
    BY <1>14 DEF IsLost, InFlight, Stage
  <2>5. LeavesOpen(w)'
    BY <2>1 DEF LeavesOpen
  <2> QED
    BY <2>1, <2>2, <2>3, <2>4, <2>5 DEF Stage, Past
<1>15. CASE ErpExpires(w)
  BY <1>15 DEF ErpExpires, Stage, Past, LeavesOpen
<1> QED
  BY <1>1, <1>2, <1>3, <1>4, <1>5, <1>6, <1>7, <1>8, <1>9, <1>10, <1>11, <1>12, <1>13, <1>14,
     <1>15

\* The invariant is inductive.
LEMMA StepInv == IInv /\ [Next]_vars => IInv'
<1> SUFFICES ASSUME IInv, [Next]_vars PROVE IInv'
  OBVIOUS
<1>1. TypeOK'
  BY TypeStep DEF IInv
<1>2. CASE UNCHANGED vars
  BY <1>1, <1>2 DEF vars, IInv, Stage, Past, LeavesOpen
<1>3. CASE Next
  <2>1. PICK w \in Calls :
         \/ Start(w) \/ GateRefuses(w) \/ GatePasses(w) \/ ClientRefuses(w)
         \/ PlainCall(w) \/ PlainFinisher(w)
         \/ BusinessReplies(w) \/ BusinessFails(w)
         \/ CommitReplies(w) \/ CommitFails(w) \/ RollbackReplies(w) \/ RollbackFails(w)
         \/ RecordAudit(w) \/ IsLost(w) \/ ErpExpires(w)
    BY <1>3 DEF Next
  <2>2. ASSUME NEW v \in Calls PROVE Stage(v)' /\ Past(v)'
    <3>1. CASE v = w
      BY <2>1, <3>1, OwnStep DEF IInv
    <3>2. CASE v # w
      BY <2>1, <3>2, OthersUntouched DEF IInv
    <3> QED
      BY <3>1, <3>2
  <2> QED
    BY <1>1, <2>2 DEF IInv
<1> QED
  BY <1>2, <1>3

LEMMA Inductive == Spec => []IInv
  BY InitInv, StepInv, PTL DEF Spec

\* The variables keep their types whatever the calls and the ERP do.
THEOREM TypeCorrect == Spec => []TypeOK
  BY Inductive, PTL DEF IInv

\* On an ERP that waits for the commit, for any number of concurrent calls that
\* share its current transaction: an unverified change is persisted only if
\* another call finished the transaction between the operation and its own
\* finish, or the call ended without a confirmed rollback (transaction.rs:4).
THEOREM UnverifiedOnlyIfLeftOpen == Spec => []PersistedOnlyIfVerified
<1>1. IInv => PersistedOnlyIfVerified
  <2> SUFFICES ASSUME IInv, Deferred, NEW w \in db, commit[w]
               PROVE  business[w] = "ok" \/ w \in crossed \/ LeavesOpen(w)
    BY DEF PersistedOnlyIfVerified
  <2>1. w \in Calls /\ Stage(w) /\ Past(w) /\ pc[w] \in Phases
    BY DEF IInv, TypeOK
  <2> QED
    BY <2>1 DEF Stage, Past, Phases, InFlight, Ended
<1> QED
  BY <1>1, Inductive, PTL

\* What the gate reports with the ERP's confirmation is true and stays true,
\* whatever the other calls do, unless one of them finished the transaction
\* in between.
THEOREM ConfirmedReportsTrue == Spec => []ConfirmedReportsAreTrue
<1>1. IInv => ConfirmedReportsAreTrue
  BY DEF IInv, Past, ConfirmedReportsAreTrue
<1> QED
  BY <1>1, Inductive, PTL

\* In read-only mode neither path of the tool changes the ERP.
THEOREM ReadOnlyIsSafe == Spec => []ReadOnlyNeverWrites
<1>1. IInv => ReadOnlyNeverWrites
  BY DEF IInv, TypeOK, Past, ReadOnlyNeverWrites
<1> QED
  BY <1>1, Inductive, PTL

\* The verdicts of a commit and of a denial are theirs alone.
LEMMA VerdictIsFaithful ==
  ASSUME NEW r
  PROVE  /\ Verdict(r) = "ok" <=> r = "committed"
         /\ Verdict(r) = "denied" <=> r = "denied"
<1>1. CASE r = "committed"
  BY <1>1, Zenon DEF Verdict
<1>2. CASE r = "denied"
  BY <1>2, Zenon DEF Verdict
<1>3. CASE r # "committed" /\ r # "denied"
  BY <1>3, Zenon DEF Verdict
<1> QED
  BY <1>1, <1>2, <1>3

(* What is known of the audit log: each entry belongs to a transactional   *)
(* call that returned and says what it reported, and each such call has it. *)
Entry(w) == [call |-> w, outcome |-> Verdict(report[w])]
AuditInv ==
  /\ \A e \in audit : pc[e.call] = "done" /\ commit[e.call] /\ e = Entry(e.call)
  /\ \A w \in Calls : pc[w] = "done" /\ commit[w] => Entry(w) \in audit

LEMMA AuditStep == IInv /\ AuditInv /\ [Next]_vars => AuditInv'
<1> SUFFICES ASSUME IInv, AuditInv, [Next]_vars PROVE AuditInv'
  OBVIOUS
<1> USE DEF IInv, TypeOK, AuditInv, Entry, Goto, Reports
<1>1. CASE UNCHANGED vars
  BY <1>1 DEF vars
<1>2. ASSUME NEW w \in Calls, Start(w) PROVE AuditInv'
  BY <1>2 DEF Start
<1>3. ASSUME NEW w \in Calls, GateRefuses(w) \/ GatePasses(w) \/ ClientRefuses(w)
      PROVE AuditInv'
  BY <1>3 DEF GateRefuses, GatePasses, ClientRefuses
<1>4. ASSUME NEW w \in Calls, PlainCall(w) \/ PlainFinisher(w) \/ BusinessFails(w)
      PROVE AuditInv'
  BY <1>4 DEF PlainCall, PlainFinisher, BusinessFails
<1>5. ASSUME NEW w \in Calls, BusinessReplies(w) PROVE AuditInv'
  BY <1>5 DEF BusinessReplies, AfterBusiness
<1>6. ASSUME NEW w \in Calls, CommitReplies(w) \/ CommitFails(w) PROVE AuditInv'
  BY <1>6 DEF CommitReplies, CommitFails
<1>7. ASSUME NEW w \in Calls, RollbackReplies(w) \/ RollbackFails(w) PROVE AuditInv'
  BY <1>7 DEF RollbackReplies, RollbackFails
<1>8. ASSUME NEW w \in Calls, RecordAudit(w) PROVE AuditInv'
  BY <1>8 DEF RecordAudit, Stage
<1>9. ASSUME NEW w \in Calls, IsLost(w) \/ ErpExpires(w) PROVE AuditInv'
  BY <1>9 DEF IsLost, ErpExpires, InFlight
<1> QED
  BY <1>1, <1>2, <1>3, <1>4, <1>5, <1>6, <1>7, <1>8, <1>9 DEF Next

\* The audit log agrees with what the callers of the transactional path were
\* told (tools.rs:794).
THEOREM AuditIsExact == Spec => []AuditTellsTheOutcome
<1>1. Init => AuditInv
  BY DEF Init, AuditInv
<1>2. IInv /\ AuditInv => AuditTellsTheOutcome
  <2> SUFFICES ASSUME IInv, AuditInv PROVE AuditTellsTheOutcome
    OBVIOUS
  <2>1. ASSUME NEW w \in Calls
        PROVE  (pc[w] = "done" /\ commit[w]) <=> \E e \in audit : e.call = w
    BY <2>1 DEF AuditInv, Entry
  <2>2. ASSUME NEW e \in audit
        PROVE  /\ e.outcome = "ok" <=> report[e.call] = "committed"
               /\ e.outcome = "denied" <=> report[e.call] = "denied"
    BY <2>2, VerdictIsFaithful DEF AuditInv, Entry
  <2> QED
    BY <2>1, <2>2 DEF AuditTellsTheOutcome
<1> QED
  BY <1>1, <1>2, Inductive, AuditStep, PTL DEF Spec
=============================================================================

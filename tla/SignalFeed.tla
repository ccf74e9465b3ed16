----------------------------- MODULE SignalFeed -----------------------------
(***************************************************************************)
(* The daily signal snapshot (src/src/signal_source.rs, signal.rs) and the *)
(* cycles that decide on it (main.rs, runtime.rs, pacing.rs).  A producer  *)
(* binds the order book it reads to the next decision boundary and puts it *)
(* in one file; the cycles of the recurring and of the live runtime each   *)
(* read that file and decide a day once, with the snapshot of its boundary *)
(* or, for good, without one.                                              *)
(*                                                                         *)
(* The only revision of a snapshot's book is the one that was read: its    *)
(* observation and publication are the venue's time, its fetch and first   *)
(* use the producer's.  The auxiliary input has no producer and decides    *)
(* nothing.                                                                *)
(***************************************************************************)
EXTENDS Calendar

CONSTANTS
  StaleAfter,  \* signal_snapshot_stale_after_seconds, in ticks
  Patience,    \* a producer is over this long after its boundary
  MaxLag,      \* bound: how far the venue's clock is behind, or ahead
  LastTime,    \* bound: when the clock stops
  Producers,   \* runs of --signal-snapshot
  Readers,     \* runtimes
  None         \* no snapshot, no revision, nobody

\* A revision of the book, and a snapshot, which has one or none.
Revisions == [date : Int, observed : Int, fetched : Int]
Snapshots ==
  [decision_at : Int, health : {"healthy", "stale", "future", "missing"},
   core : Revisions \cup {None}, eligible : BOOLEAN]

ASSUME SignalAssumption ==
  /\ StaleAfter \in Nat \ {0} /\ MaxLag \in Nat /\ LastTime \in Nat
  /\ Patience \in 0 .. DayLength - StaleAfter
  /\ None \notin Producers \cup Revisions \cup Snapshots

VARIABLES
  clock,
  snapshot,      \* the file at signal_snapshot_path
  snapshotLock,  \* who has the lock beside it
  producer,      \* producer[p]: what p is doing
  cycle,         \* cycle[r]: the cycle of runtime r
  decided,       \* decided[r]: its decisions, by date
  cited,         \* the snapshots decisions and metrics were made from
  published      \* the boundaries a snapshot was ever published for

signalVars == <<clock, snapshot, snapshotLock, producer, cycle, decided, cited, published>>

-----------------------------------------------------------------------------
(* signal.rs *)

\* Age(at, t): whole units from t to at, or nothing for a time to come.
IsPast(at, t) == t <= at

\* RevisionBook::select_exact: the latest revision of that date usable at that time.
Usable(book, date, at) == {r \in book : r.date = date /\ r.fetched <= at}
Selected(book, date, at) ==
  CHOOSE r \in Usable(book, date, at) : \A q \in Usable(book, date, at) :
    q.fetched < r.fetched \/ (q.fetched = r.fetched /\ q.observed <= r.observed)

\* The health of a selected revision, which may not be of the future.
HealthAt(r, at) == IF at - r.observed < StaleAfter THEN "healthy" ELSE "stale"

\* select_core
CoreHealth(book, at) ==
  LET date == DateOf(at) IN
  IF Usable(book, date, at) # {} /\ IsPast(at, Selected(book, date, at).observed)
  THEN HealthAt(Selected(book, date, at), at)
  ELSE IF \E r \in book : r.date = date THEN "future" ELSE "missing"

\* NormalizedSignalFeed::snapshot
SnapshotOf(book, at) ==
  LET health == CoreHealth(book, at) IN
  [decision_at |-> at, health |-> health,
   core |-> IF health \in {"healthy", "stale"} THEN Selected(book, DateOf(at), at) ELSE None,
   eligible |-> health = "healthy"]

\* validate_invariants: what is read from the file says of itself what its revision
\* and its boundary say.
Valid(s) ==
  /\ s # None
  /\ s.eligible = (s.health = "healthy")
  /\ IF s.core = None THEN s.health \in {"missing", "future"}
     ELSE /\ s.core.date = DateOf(s.decision_at)
          /\ IsPast(s.decision_at, s.core.fetched) /\ IsPast(s.decision_at, s.core.observed)
          /\ s.health = HealthAt(s.core, s.decision_at)

\* A file that parses and is not valid: somebody made an old revision look healthy.
Forged ==
  [decision_at |-> Boundary(0), health |-> "healthy", eligible |-> TRUE,
   core |-> [date |-> 0, observed |-> Boundary(0) - StaleAfter, fetched |-> Boundary(0)]]

-----------------------------------------------------------------------------
IdleProducer == [at |-> "idle", boundary |-> None, built |-> None]
IdleCycle == [at |-> "idle", signal |-> None, published |-> {}]

SignalInit ==
  /\ clock = 0
  /\ snapshot \in {None, Forged}
  /\ snapshotLock = None
  /\ producer = [p \in Producers |-> IdleProducer]
  /\ cycle = [r \in Readers |-> IdleCycle]
  /\ decided = [r \in Readers |-> <<>>]
  /\ cited = {} /\ published = {}

reading == <<cycle, decided>>
feed == <<snapshot, snapshotLock, producer, published>>

Turn(p, update) == producer' = [producer EXCEPT ![p] = update]

\* next_decision_boundary
NextBoundary(now) ==
  IF now <= Boundary(DateOf(now)) THEN Boundary(DateOf(now)) ELSE Boundary(DateOf(now) + 1)

\* plan_snapshot: never for a boundary at which the book read now would be stale.
PlanSnapshot(p) ==
  /\ producer[p].at = "idle"
  /\ NextBoundary(clock) - clock < StaleAfter
  /\ Turn(p, [at |-> "fetch", boundary |-> NextBoundary(clock), built |-> None])
  /\ UNCHANGED <<clock, snapshot, snapshotLock, published, cited, reading>>

\* As if a book fetched after the boundary were taken.
BuildFromLateFetch(p) ==
  \E lag \in -MaxLag .. MaxLag :
    LET revision == [date |-> DateOf(producer[p].boundary),
                     observed |-> clock - lag, fetched |-> clock]
        built == [decision_at |-> producer[p].boundary, health |-> "healthy",
                  core |-> revision, eligible |-> TRUE] IN
    /\ producer[p].at = "fetch"
    /\ Turn(p, [producer[p] EXCEPT !.at = "publish", !.built = built])
    /\ UNCHANGED <<clock, snapshot, snapshotLock, published, cited, reading>>

\* observe_top_of_book, then build_snapshot: a venue ahead of the producer, a fetch
\* after the boundary and a book that is stale at it end the run.
BuildSnapshot(p) ==
  \E lag \in -MaxLag .. MaxLag :
    LET at == producer[p].boundary
        built == SnapshotOf({[date |-> DateOf(at), observed |-> clock - lag,
                              fetched |-> clock]}, at) IN
    /\ producer[p].at = "fetch"
    /\ Turn(p, IF lag < 0 \/ clock > at \/ ~built.eligible THEN IdleProducer
               ELSE [producer[p] EXCEPT !.at = "publish", !.built = built])
    /\ UNCHANGED <<clock, snapshot, snapshotLock, published, cited, reading>>

\* As if the file were read and rewritten without its lock.
ReadUnlocked(p) ==
  /\ producer[p].at = "publish"
  /\ IF Valid(snapshot) /\ snapshot.decision_at = producer[p].boundary
     THEN Turn(p, IdleProducer) ELSE Turn(p, [producer[p] EXCEPT !.at = "write"])
  /\ UNCHANGED <<clock, snapshot, snapshotLock, published, cited, reading>>

\* publish_snapshot: under the lock, a valid snapshot of the same boundary stays;
LockSnapshot(p) ==
  /\ producer[p].at = "publish"
  /\ snapshotLock = None
  /\ IF Valid(snapshot) /\ snapshot.decision_at = producer[p].boundary
     THEN Turn(p, IdleProducer) /\ UNCHANGED snapshotLock
     ELSE Turn(p, [producer[p] EXCEPT !.at = "write"]) /\ snapshotLock' = p
  /\ UNCHANGED <<clock, snapshot, published, cited, reading>>

\* one of another boundary, or none that is valid, is replaced by a rename.
WriteSnapshot(p) ==
  /\ producer[p].at = "write"
  /\ snapshot' = producer[p].built
  /\ published' = published \cup {producer[p].boundary}
  /\ snapshotLock' = None
  /\ Turn(p, IdleProducer)
  /\ UNCHANGED <<clock, cited, reading>>

\* A producer ends without a snapshot wherever it is; its lock goes with it.
StopProducer(p) ==
  /\ producer[p].at # "idle"
  /\ snapshotLock' = IF snapshotLock = p THEN None ELSE snapshotLock
  /\ Turn(p, IdleProducer)
  /\ UNCHANGED <<clock, snapshot, published, cited, reading>>

-----------------------------------------------------------------------------
\* load_cycle_signal: what cannot be read as a snapshot counts as none.  The network
\* reads follow; the runtime's lock keeps other cycles of it out.
BeginCycle(r) ==
  /\ cycle[r].at = "idle"
  /\ cycle' = [cycle EXCEPT ![r] =
       [at |-> "observe", signal |-> IF Valid(snapshot) THEN snapshot ELSE None,
        published |-> published]]
  /\ UNCHANGED <<clock, feed, decided, cited>>

\* The filter of apply_cycle: only the snapshot of the scheduled boundary.
DecisionSignal(r, boundary) ==
  IF cycle[r].signal # None /\ cycle[r].signal.decision_at = boundary
  THEN cycle[r].signal ELSE None

\* apply_cycle, at the time read after the account: the first cycle at or after the
\* boundary decides its day; the metrics of later ones cite what they were given.
ApplyCycle(r) ==
  LET date == DateOf(clock)
      boundary == Boundary(date)
      signal == DecisionSignal(r, boundary) IN
  /\ cycle[r].at = "observe"
  /\ decided' = IF clock < boundary \/ date \in DOMAIN decided[r] THEN decided
                ELSE [decided EXCEPT ![r] = [d \in DOMAIN @ \cup {date} |->
                        IF d # date THEN @[d]
                        ELSE [signal |-> signal, known |-> boundary \in cycle[r].published]]]
  /\ cited' = IF clock >= boundary /\ signal # None THEN cited \cup {signal} ELSE cited
  /\ cycle' = [cycle EXCEPT ![r] = IdleCycle]
  /\ UNCHANGED <<clock, feed>>

\* A cycle fails or is killed before its commit.
StopCycle(r) ==
  /\ cycle[r].at # "idle"
  /\ cycle' = [cycle EXCEPT ![r] = IdleCycle]
  /\ UNCHANGED <<clock, feed, decided, cited>>

\* publish_metrics, out of cycle: the file, unless it is for a boundary to come.
PublishMetrics ==
  /\ Valid(snapshot) /\ snapshot.decision_at <= clock
  /\ cited' = cited \cup {snapshot}
  /\ UNCHANGED <<clock, feed, reading>>

Tick ==
  /\ clock < LastTime
  /\ \A p \in Producers :
       producer[p].at # "idle" => clock < producer[p].boundary + Patience
  /\ clock' = clock + 1
  /\ UNCHANGED <<feed, reading, cited>>

ProducerStep(p) ==
  \/ PlanSnapshot(p) \/ BuildSnapshot(p) \/ LockSnapshot(p) \/ WriteSnapshot(p)
  \/ StopProducer(p)

SignalNext ==
  \/ \E p \in Producers : ProducerStep(p)
  \/ \E r \in Readers : BeginCycle(r) \/ ApplyCycle(r) \/ StopCycle(r)
  \/ PublishMetrics
  \/ Tick

SignalSpec == SignalInit /\ [][SignalNext]_signalVars

-----------------------------------------------------------------------------
\* One signal for a boundary, whoever asks: every decision and every metric about it
\* was made from the same snapshot, the first published, fresh at the boundary and
\* fetched no later; and a day decided without it was decided by a cycle that had
\* looked before there was one.  (For the last, freshness must not reach back over
\* midnight: else the next day's snapshot may be there before this day is decided.)
OneSignal ==
  /\ \A s \in cited :
       /\ s.core.fetched <= s.decision_at
       /\ s.decision_at - s.core.observed \in 0 .. StaleAfter - 1
       /\ \A t \in cited : s.decision_at = t.decision_at => s = t
  /\ \A r \in Readers : \A d \in DOMAIN decided[r] :
       /\ decided[r][d].signal # None => decided[r][d].signal \in cited
       /\ decided[r][d].signal = None => ~decided[r][d].known
=============================================================================

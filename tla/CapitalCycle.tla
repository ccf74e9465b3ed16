---------------------------- MODULE CapitalCycle ----------------------------
(***************************************************************************)
(* The two books of the accumulator's capital and the cycle that keeps     *)
(* them: SignerFreeRuntime::apply_cycle and settle_live_decision           *)
(* (src/src/runtime.rs) over PacingState (Pacing) and the protected ledger *)
(* (CapitalLedger).  The recurring cycle and the scheduled live unit share *)
(* one runtime state under one lock, so their cycles interleave but never  *)
(* overlap; deposits, withdrawals and approvals happen at any time in      *)
(* between, and a scan may miss a movement the venue has not listed yet.   *)
(*                                                                         *)
(* A cycle either replaces both books and the scan cursor together or      *)
(* leaves all three alone (commit_state_change; how it survives a crash    *)
(* between its writes is not this module's subject).  Movements are USDC   *)
(* of recognised kinds; "odd" stands for a scan holding one of an unknown  *)
(* kind, "failed" for one the venue did not answer.                        *)
(***************************************************************************)
EXTENDS Pacing, CapitalLedger

CONSTANTS
  Backdated,    \* may an approval be dated before a withdrawal on record?
  Overlap,      \* how far a scan reaches back before the cursor
  Fees,         \* what the fee of a fill may be
  MaxTime,      \* bound on the clock
  Worlds        \* bound: the surroundings the cycles may run in, each with
                \*   modes     kinds of cycles that run
                \*   scans     how scans end
                \*   ceilings  max_admitted_usdc of an approval, or NoLimit
                \*   punctual  whether a cycle runs in every tick of the clock
                \*   lag       how long the venue may take to list a movement
                \*   when      the ticks at which each movement may happen
                \*   approveBy the last tick at which an approval is given

ASSUME CycleConstants ==
  /\ Backdated \in BOOLEAN
  /\ {Overlap, MaxTime} \subseteq Nat /\ Fees \subseteq Nat
  /\ \A w \in Worlds:
       /\ w.modes \subseteq {"dry", "observe", "live"}
       /\ w.scans \subseteq {"complete", "odd", "failed"}
       /\ w.ceilings \subseteq (Nat \ {0}) \cup {NoLimit}
       /\ w.punctual \in BOOLEAN /\ {w.lag, w.approveBy} \subseteq Nat
       /\ \A m \in Deposits \cup Withdrawals: w.when[m] \subseteq Nat

VARIABLES
  world,        \* the surroundings, which never change
  now,          \* the clock
  occurred,     \* venue: when each movement so far happened
  approvals,    \* the operator's admission artifact: d -> [at, max]
  pacing,       \* RuntimeState.pacing
  journal,      \* the protected ledger's capital events
  cursor,       \* RuntimeState.last_complete_scan_end_ms
  refused       \* why the last step was refused, "no" if it was not

vars == <<world, now, occurred, approvals, pacing, journal, cursor, refused>>
books == <<pacing, journal, cursor>>

Book == Replay(journal)

\* The venue's side: what has been moved in and not moved or spent again.
Debits == SumFunction([x \in DOMAIN pacing.dec |-> pacing.dec[x].debited])
Moved(S) == SumFunction(Restrict(Amount, S \cap Deposits))
              - SumFunction(Restrict(Amount, S \cap Withdrawals))
Cash == Moved(DOMAIN occurred) - Debits

\* Mutant: a scan starts where the last one ended.
ScanStartAtCursor == IF cursor = Never THEN 0 ELSE cursor
ScanStart == IF cursor = Never THEN 0 ELSE Minus(cursor, Overlap)

-----------------------------------------------------------------------------
(* What a cycle makes of its scan *)

\* An approval in the artifact counts; without one, what is recorded does.
DepositEvents(seen) ==
  [d \in (DOMAIN pacing.dep \cup seen) \cap Deposits |->
    [received |-> occurred[d],
     approved |-> IF d \in DOMAIN approvals THEN approvals[d].at
                  ELSE IF d \in DOMAIN pacing.dep THEN pacing.dep[d].approved
                  ELSE Never,
     max |-> IF d \in DOMAIN approvals THEN approvals[d].max
             ELSE IF d \in DOMAIN pacing.dep THEN pacing.dep[d].max
             ELSE NoLimit]]

\* A withdrawal first seen by a cycle that can still decide its boundary is
\* reconciled as of the boundary if it happened before it.
WithdrawalEvents(seen, safe, boundary) ==
  [w \in seen \cap Withdrawals |->
    [occurred |-> occurred[w],
     reconciled |-> IF w \in DOMAIN pacing.wd THEN pacing.wd[w].reconciled
                    ELSE IF safe /\ occurred[w] <= boundary THEN boundary
                    ELSE now]]

\* The batch as it was known at the boundary: later movements are dropped,
\* and approvals given later are not yet there.
AsOf(batch, at) ==
  LET early == {d \in DOMAIN batch.dep: batch.dep[d].received <= at} IN
  [dep |-> [d \in early |-> IF batch.dep[d].approved <= at THEN batch.dep[d]
                            ELSE [batch.dep[d] EXCEPT !.approved = Never,
                                                      !.max = NoLimit]],
   wd  |-> Restrict(batch.wd, {w \in DOMAIN batch.wd:
                                 batch.wd[w].occurred <= at})]

\* The cash there was at the boundary, from the balance read now and the
\* movements since: Never when the scan cannot tell.
BoundaryCash(seen, scan, boundary) ==
  LET since == {m \in seen: occurred[m] > boundary}
      then  == Cash - Moved(since)
  IN IF \/ scan # "complete" \/ ScanStart > boundary \/ then < 0
        \/ \E m \in seen: occurred[m] = now
     THEN Never ELSE then

-----------------------------------------------------------------------------
(* What it writes to the ledger *)

\* Mutant: what a transfer returned unadmitted is not written with it.
MovementsWithoutReturns(ids, p) ==
  {Deposited(d, occurred[d], Amount[d]): d \in ids \cap Deposits}
  \cup {Withdrawn(w, occurred[w], Amount[w], <<>>): w \in ids \cap Withdrawals}
Movements(ids, p) ==
  {Deposited(d, occurred[d], Amount[d]): d \in ids \cap Deposits}
  \cup {Withdrawn(w, occurred[w], Amount[w],
                  IF w \in DOMAIN p.wd THEN p.wd[w].frozen ELSE <<>>):
          w \in ids \cap Withdrawals}

\* What pacing p has admitted of each deposit beyond what a book had before,
\* at the time the deposit became usable.
Admissions(p, before) ==
  LET had(d) == IF d \in DOMAIN before THEN before[d].admitted ELSE 0 IN
  {Admission(d, UsableAt(p.dep[d]), p.dep[d].admitted - had(d),
             p.dep[d].admitted):
     d \in {x \in DOMAIN p.dep: p.dep[x].admitted # had(x)}}

KindOrder(e) == CASE e.id[1] = "deposit" -> 0
                  [] e.id[1] = "admission" -> 1
                  [] e.id[1] = "withdrawal" -> 2
Earlier(e, f) ==
  \/ e.at < f.at
  \/ e.at = f.at /\ KindOrder(e) < KindOrder(f)
  \/ e.at = f.at /\ KindOrder(e) = KindOrder(f) /\ e.id[2] < f.id[2]
Ordered(events) ==
  LET place(e) == 1 + Cardinality({f \in events: Earlier(f, e)}) IN
  [i \in 1 .. Cardinality(events) |-> CHOOSE e \in events: place(e) = i]

DecisionEvents(p, date) ==
  LET x == p.dec[date]  at == Boundary(date) IN
  IF x.planned = 0 THEN <<Skipped(date, at)>>
  ELSE <<Committed(date, at, x.committed), Decided(date, at, x.committed)>>
       \o (IF x.settled THEN <<Settled(date, at, x.debited)>> ELSE <<>>)

Stay(why) == [pacing |-> pacing, journal |-> journal, cursor |-> cursor,
              refused |-> why]

\* commit_state_change: the whole batch replays and the totals of the two
\* books agree, or nothing is written.
TotalsDiffer(p, b) ==
  LET sum(field) == SumFunction([d \in DOMAIN p.dep |-> p.dep[d][field]]) IN
  \/ sum("admitted") # b.admitted
  \/ sum("committed") # b.committed
  \/ sum("invested") # b.spent
Kept(p, events, through) ==
  [pacing |-> p, journal |-> Extended(journal, events),
   cursor |-> Most(cursor, through), refused |-> "no"]
Commit(p, events, through) ==
  LET b == Replay(Extended(journal, events))
  IN IF p.err # "none" THEN Stay(p.err)
     ELSE IF \E e \in ToSet(events): e.id[1] = "admission" /\ e.amount < 0
     THEN Stay("capital state mismatch")
     ELSE IF Collides(journal, events) THEN Stay("event collision")
     ELSE IF b.err # "none" THEN Stay(b.err)
     ELSE IF TotalsDiffer(p, b) THEN Stay("capital state mismatch")
     ELSE Kept(p, events, through)

-----------------------------------------------------------------------------
(* apply_cycle *)

\* The recurring cycle leaves a due decision to the live one.
\* Mutant: it goes on to what happened after the boundary.
DefersNever(mode, p, boundary) == FALSE
Defers(mode, p, boundary) == mode = "observe" /\ IsDecisionDue(p, boundary)

\* The cursor moves only over a range that was scanned completely.
Through(scan, t) == IF scan = "complete" THEN t ELSE Never

Early(seen, t) == {m \in seen: occurred[m] <= t}

\* The decision of the boundary; a dry run settles its plan at once, with
\* nothing bought.
Suppressed(mode, p, date) ==
  IF mode = "dry" /\ date \in DOMAIN p.dec /\ p.dec[date].planned # 0
  THEN Settle(p, date, 0, 0) ELSE p
DecideAt(mode, atB, boundary, cash, go) ==
  IF mode = "observe" THEN atB
  ELSE Suppressed(mode, Decide(atB, boundary, cash, go /\ cash # Never),
                  DateOf(boundary))

\* Capital as of the boundary, its decision and what came after it, together.
CommitDecided(scan, seen, boundary, atB, done, later) ==
  IF later.err # "none" THEN Stay(later.err)
  ELSE Commit(later,
         Ordered(Movements(Early(seen, boundary), atB)
                   \cup Admissions(atB, Book.dep))
         \o (IF DateOf(boundary) \in DOMAIN done.dec
             THEN DecisionEvents(done, DateOf(boundary)) ELSE <<>>)
         \o Ordered(Movements(seen \ Early(seen, boundary), later)
                      \cup Admissions(later, atB.dep)),
         Through(scan, now))

\* No boundary to decide: everything up to now.
CommitUpToNow(scan, seen, all) ==
  Commit(all, Ordered(Movements(seen, all) \cup Admissions(all, Book.dep)),
         Through(scan, now))

AfterDecision(scan, seen, batch, boundary, atB, done) ==
  CommitDecided(scan, seen, boundary, atB, done, Reconcile(done, batch, now))

AtBoundary(mode, scan, seen, go, batch, boundary, atB) ==
  IF atB.err # "none" THEN Stay(atB.err)
  ELSE IF Defers(mode, atB, boundary)
  THEN Commit(atB, Ordered(Movements(Early(seen, boundary), atB)
                             \cup Admissions(atB, Book.dep)),
              Through(scan, boundary))
  ELSE AfterDecision(scan, seen, batch, boundary, atB,
         DecideAt(mode, atB, boundary, BoundaryCash(seen, scan, boundary), go))

Reconciled(mode, scan, seen, go, safe, boundary, batch) ==
  IF Conflicts(pacing, [batch EXCEPT !.wd = <<>>])
  THEN Stay("invalid artifact")
  ELSE IF scan = "complete" /\ ~(DOMAIN approvals \subseteq DOMAIN batch.dep)
  THEN Stay("unknown approval")
  ELSE IF safe
  THEN AtBoundary(mode, scan, seen, go, batch, boundary,
                  Reconcile(pacing, AsOf(batch, boundary), boundary))
  ELSE CommitUpToNow(scan, seen, Reconcile(pacing, batch, now))

\* A boundary that has passed can still be decided while capital has not been
\* reconciled past it; a live cycle that finds it has been says so.
CycleResult(mode, scan, seen, go) ==
  LET boundary == Boundary(DateOf(now))
      decided  == DateOf(now) \in DOMAIN pacing.dec
      safe     == now >= boundary /\ ~decided /\ pacing.through <= boundary
  IN IF /\ mode = "live" /\ now >= boundary /\ ~safe /\ ~decided
        /\ IsDecisionDue(pacing, boundary)
     THEN Stay("slot closed")
     ELSE Reconciled(mode, scan, seen, go, safe, boundary,
            [dep |-> DepositEvents(seen),
             wd  |-> WithdrawalEvents(seen, safe, boundary)])

Becomes(r) ==
  /\ pacing' = r.pacing /\ journal' = r.journal /\ cursor' = r.cursor
  /\ refused' = r.refused
  /\ UNCHANGED <<world, now, occurred, approvals>>

Cycle(mode, scan, late, go) ==
  LET seen == IF scan = "failed" THEN {}
              ELSE {m \in DOMAIN occurred: occurred[m] >= ScanStart} \ late
  IN Becomes(CycleResult(mode, scan, seen, go))

-----------------------------------------------------------------------------
(* Everything else that happens *)

\* settle_live_decision: the terminal fill of a planned decision, settled in
\* both books together.
SettleLive(x, filled, debited) ==
  /\ ~pacing.dec[x].settled /\ pacing.dec[x].planned # 0
  /\ now >= Boundary(x) /\ debited <= Cash
  /\ Becomes(Commit(Settle(pacing, x, filled, debited),
                    <<Settled(x, now, debited)>>, Never))

Move(m) ==
  /\ m \notin DOMAIN occurred /\ now \in world.when[m]
  /\ m \in Withdrawals => Amount[m] <= Cash
  /\ occurred' = With(occurred, m, now)
  /\ refused' = "no" /\ UNCHANGED <<world, now, approvals, books>>

Approve(d, at, max) ==
  /\ d \in DOMAIN occurred \ DOMAIN approvals /\ now <= world.approveBy
  /\ at \in occurred[d] .. now /\ max <= Amount[d]
  /\ Backdated \/ (at = now /\ \A w \in DOMAIN pacing.wd: occurred[w] < at)
  /\ approvals' = With(approvals, d, [at |-> at, max |-> max])
  /\ refused' = "no" /\ UNCHANGED <<world, now, occurred, books>>

Tick ==
  /\ now < MaxTime /\ (world.punctual => pacing.through = now \/ refused # "no")
  /\ now' = now + 1
  /\ refused' = "no" /\ UNCHANGED <<world, occurred, approvals, books>>

Init ==
  /\ world \in Worlds /\ now = 0 /\ occurred = <<>> /\ approvals = <<>>
  /\ pacing = NewState /\ journal = <<>> /\ cursor = Never /\ refused = "no"

Next ==
  \/ Tick
  \/ \E m \in Deposits \cup Withdrawals: Move(m)
  \/ \E d \in Deposits, at \in 0 .. MaxTime, max \in world.ceilings: Approve(d, at, max)
  \/ \E mode \in world.modes, scan \in world.scans:
       \E late \in SUBSET {m \in DOMAIN occurred: scan # "failed"
                                                /\ occurred[m] > now - world.lag},
          go \in IF mode = "observe" THEN {FALSE} ELSE BOOLEAN:
         Cycle(mode, scan, late, go)
  \/ \E x \in DOMAIN pacing.dec:
       \E filled \in 0 .. pacing.dec[x].planned, fee \in Fees:
         SettleLive(x, filled, IF filled = 0 THEN 0 ELSE filled + fee)

Spec == Init /\ [][Next]_vars

-----------------------------------------------------------------------------
(* Properties *)

\* The two books say the same: per deposit what is admitted and what went
\* back unadmitted, in all what was withdrawn and what may still be spent, and
\* of every day its outcome and whether its commitment is open.  The code
\* compares three totals before it writes; this asks for every entry.
BooksAgree ==
  LET b == Book IN
  /\ DOMAIN b.dep = DOMAIN pacing.dep
  /\ \A d \in DOMAIN pacing.dep:
       /\ b.dep[d].admitted = pacing.dep[d].admitted
       /\ b.dep[d].returned = pacing.dep[d].returned
  /\ b.withdrawn = SumFunction([d \in DOMAIN pacing.dep |-> pacing.dep[d].withdrawn])
  /\ Deployable(b) = Free(pacing)
  /\ DOMAIN b.decided = DOMAIN pacing.dec
  /\ DOMAIN b.commit = {x \in DOMAIN pacing.dec: pacing.dec[x].planned # 0}
  /\ \A x \in DOMAIN b.commit: b.commit[x].settled = pacing.dec[x].settled

\* The cursor passes no movement by: whatever happened longer before it than
\* the venue takes to list is in the books, failed scans, late listings and
\* cycles that stopped at a boundary notwithstanding.  (What happens in the
\* tick of a scan may come after it.)
NothingMissed ==
  \A m \in DOMAIN occurred:
    cursor # Never /\ occurred[m] + Most(world.lag, 1) <= cursor
      => \/ m \in DOMAIN pacing.dep
         \/ m \in DOMAIN pacing.wd /\ pacing.wd[m].applied

\* Once anything has been committed, spent or withdrawn, what is left free is
\* never less than the fixed reserve, whatever is replayed, released or
\* withdrawn afterwards.
ReserveIntact ==
  (\E d \in DOMAIN pacing.dep: LET tr == pacing.dep[d] IN
     tr.committed + tr.invested + tr.withdrawn > 0)
  => Free(pacing) >= FixedReserve

\* A decision draws only on deposits that were approved and cooled down at
\* its boundary, however late the cycle that makes it runs.
BoundaryHonoured ==
  \A x \in DOMAIN pacing.dec: \A d \in DOMAIN pacing.dec[x].alloc:
    /\ approvals[d].at <= Boundary(x)
    /\ occurred[d] + Cooldown <= Boundary(x)

\* The two books never fall out with each other: what pacing accepts the
\* ledger accepts too, with every event it has recorded before, and no cycle
\* finds the artifact or the scan at odds with what is recorded.  (At no time
\* may more go out than had come in by then: there alone the ledger is
\* stricter, for a withdrawal it learns of late.)
NeverAtOdds ==
  refused \notin {"capital state mismatch", "event collision",
                  "conflicting event", "invalid artifact", "time regressed",
                  "bad admission", "admission exceeds deposit",
                  "return exceeds unadmitted funding", "commitment collision",
                  "decision date collision", "insufficient decision backing",
                  "no open commitment", "bad settlement"}

\* pacing.rs:1788 on CorruptState: "persisted pacing state violates an
\* invariant".
CorruptForCause == refused = "corrupt" => ~Valid(pacing)

\* On a scheduled weekday no cycle reconciles capital past a boundary that is
\* still undecided, so the live cycle never finds its slot closed: whichever of
\* the cycles runs first, and however often, it finds the boundary decided or
\* can still decide it.  (A final catch-up day off the weekdays is due only
\* while capital is left, which the two cycles judge at two times: there a
\* deposit that becomes usable in between does close the slot.)
ScheduledSlotKept ==
  LET boundary == Boundary(DateOf(now)) IN
  /\ now >= boundary /\ DateOf(now) % 7 \in Weekdays
  /\ DateOf(now) \notin DOMAIN pacing.dec
  => pacing.through <= boundary

=============================================================================

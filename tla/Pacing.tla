------------------------------- MODULE Pacing -------------------------------
(***************************************************************************)
(* The capital arithmetic of the accumulator (src/src/pacing.rs): which    *)
(* part of each deposit is admitted, what withdrawals take away, what a    *)
(* daily decision commits and what its settlement returns.                 *)
(*                                                                         *)
(* PacingState is a value and its methods are functions that either        *)
(* replace it or refuse and leave it alone, so the module is a set of      *)
(* operators on a record; CapitalCycle holds the record in a variable and  *)
(* gives its methods to the runtime.  Amounts are small naturals in the    *)
(* place of microunits (the code's sums are checked additions on u64: a    *)
(* model value never comes near their limit).  Deposits and withdrawals    *)
(* are named by numbers because the code breaks ties of time by their ids. *)
(* Confirmation and approval of a deposit come from one operator artifact  *)
(* and the later of them counts, so they are one time here.                *)
(***************************************************************************)
EXTENDS Calendar, Chronology, Sequences, FiniteSetsExt, SequencesExt, Functions, TLC

CONSTANTS
  Deposits, Withdrawals,        \* numbers naming the venue's movements
  Amount,                       \* the amount each of them moves
  Transfer,                     \* withdrawals that may return unadmitted funds
  YearLength,                   \* days per year
  Weekdays,                     \* weekdays, 0..6, with a scheduled decision
  FinalCatchUp,                 \* last days of the year when every day counts
  Cooldown,                     \* ticks between receipt and first use
  AutoCap, YearCap, TotalCap,   \* admission: per deposit, per year, in all
  MinOrder, MaxDaily,           \* least and largest plan of a day
  FixedReserve,                 \* capital that is never planned or withdrawn
  FeeBps                        \* fee and spread reserve in basis points

Bps == 10000

\* PacingLimits::validate, and what the names stand for.
ASSUME PacingLimits ==
  /\ Deposits \subseteq Nat /\ Withdrawals \subseteq Nat
  /\ Deposits \cap Withdrawals = {} /\ Transfer \subseteq Withdrawals
  /\ \A m \in Deposits \cup Withdrawals: Amount[m] \in Nat \ {0}
  /\ {YearLength, FinalCatchUp, Cooldown} \subseteq Nat \ {0}
  /\ Weekdays \subseteq 0 .. 6 /\ Weekdays # {}
  /\ {AutoCap, YearCap, TotalCap, MinOrder, MaxDaily} \subseteq Nat \ {0}
  /\ MinOrder <= MaxDaily /\ AutoCap <= YearCap /\ YearCap <= TotalCap
  /\ FixedReserve \in Nat /\ FixedReserve < AutoCap
  /\ FeeBps \in 0 .. Bps - 1

Never == -1            \* no approval, no reconciliation yet (None)
NoLimit == -1          \* no explicit admission limit (None)

YearOf(t) == DateOf(t) \div YearLength
Horizon(tr) == (YearOf(tr.received) + 1) * YearLength - 1

Least(a, b) == IF a <= b THEN a ELSE b
Most(a, b) == IF a >= b THEN a ELSE b
Minus(a, b) == IF a >= b THEN a - b ELSE 0     \* saturating_sub

\* The function f, and x mapped to v.
With(f, x, v) == [y \in DOMAIN f \cup {x} |-> IF y = x THEN v ELSE f[y]]

\* Pour(n, ids, room) takes n from the ids in order, from each as much as it
\* has room for: what each gives, and what is left over.
PourOne(acc, id, x) ==
  [left |-> acc.left - x, took |-> [acc.took EXCEPT ![id] = x]]
Pour(n, ids, room) ==
  FoldLeft(LAMBDA acc, id: PourOne(acc, id, Least(acc.left, room[id])),
           [left |-> n, took |-> [id \in DOMAIN room |-> 0]], ids)

Positive(f) == Restrict(f, {x \in DOMAIN f: f[x] > 0})

-----------------------------------------------------------------------------
(* Tranches *)

NewState == [err |-> "none", through |-> Never,
             dep |-> <<>>, wd |-> <<>>, dec |-> <<>>]

Refuse(s, why) == [s EXCEPT !.err = why]

NewTranche(d, received, approved, max) ==
  [amount |-> Amount[d], received |-> received, approved |-> approved,
   max |-> max, admitted |-> 0, invested |-> 0, committed |-> 0,
   withdrawn |-> 0, returned |-> 0]

AdmissionLimit(tr) == IF tr.max = NoLimit THEN AutoCap ELSE tr.max
Residual(tr) ==
  Minus(Minus(Minus(tr.admitted, tr.invested), tr.committed), tr.withdrawn)
Unadmitted(tr) == Minus(Minus(tr.amount, tr.admitted), tr.returned)
\* Mutant: the cooldown is not waited for.
UsableAtWithoutCooldown(tr) == Most(tr.received, tr.approved)
UsableAt(tr) == Most(tr.received + Cooldown, tr.approved)
UsableBy(tr, t) == tr.approved # Never /\ UsableAt(tr) <= t

Free(s) == SumFunction([d \in DOMAIN s.dep |-> Residual(s.dep[d])])
Admitted(s) == SumFunction([d \in DOMAIN s.dep |-> s.dep[d].admitted])
AdmittedIn(s, year) ==
  SumFunction([d \in {x \in DOMAIN s.dep: YearOf(s.dep[x].received) = year}
                 |-> s.dep[d].admitted])

WithinCaps(s) ==
  /\ Admitted(s) <= TotalCap
  /\ \A d \in DOMAIN s.dep:
       /\ s.dep[d].admitted <= AdmissionLimit(s.dep[d])
       /\ AdmittedIn(s, YearOf(s.dep[d].received)) <= YearCap

\* What applied withdrawals, settled and open decisions say of one tranche.
Taken(s, d, field) ==
  SumFunction(
    [w \in {v \in DOMAIN s.wd: s.wd[v].applied /\ d \in DOMAIN s.wd[v][field]}
       |-> s.wd[w][field][d]])
Attributed(s, d, settled, field) ==
  SumFunction(
    [x \in {y \in DOMAIN s.dec: s.dec[y].settled = settled
                                /\ d \in DOMAIN s.dec[y].alloc}
       |-> s.dec[x].alloc[d][field]])

\* validate_invariants and validate_for_limits: what a state must satisfy
\* before and after every operation.
Valid(s) ==
  /\ \A d \in DOMAIN s.dep: LET tr == s.dep[d] IN
       /\ tr.admitted + tr.returned <= tr.amount
       /\ tr.invested + tr.committed + tr.withdrawn <= tr.admitted
       /\ tr.admitted > 0 => UsableBy(tr, s.through)
       /\ tr.committed = Attributed(s, d, FALSE, "committed")
       /\ tr.invested = Attributed(s, d, TRUE, "debited")
       /\ tr.withdrawn = Taken(s, d, "alloc")
       /\ tr.returned = Taken(s, d, "frozen")
  /\ \A w \in DOMAIN s.wd: LET r == s.wd[w] IN
       /\ r.applied = (r.reconciled <= s.through)
       /\ SumFunction(r.alloc) + SumFunction(r.frozen)
            = IF r.applied THEN Amount[w] ELSE 0
       /\ \A d \in DOMAIN r.frozen: s.dep[d].received <= r.occurred
  /\ WithinCaps(s)
  /\ LET backing == SumFunction([d \in DOMAIN s.dep |->
                 s.dep[d].admitted - s.dep[d].invested - s.dep[d].committed])
     IN Free(s) >= Least(backing, FixedReserve)

Checked(s) == IF s.err # "none" \/ Valid(s) THEN s ELSE Refuse(s, "corrupt")

-----------------------------------------------------------------------------
(* Replay of everything that is ready *)

AdmitDeposit(s, d) ==
  LET tr == s.dep[d]
      room == Least(Minus(AdmissionLimit(tr), tr.admitted),
              Least(Minus(TotalCap, Admitted(s)),
                    Minus(YearCap, AdmittedIn(s, YearOf(tr.received)))))
  IN [s EXCEPT !.dep[d].admitted = @ + Least(Unadmitted(tr), room)]

\* Unadmitted funding returned by a transfer: chosen once, oldest deposit
\* first, and kept for every later replay.
ReturnsAfresh(s, w) ==
  LET older == {d \in DOMAIN s.dep: s.dep[d].received <= s.wd[w].occurred} IN
  Positive(Pour(Amount[w], InOrder([d \in older |-> <<s.dep[d].received, d>>]),
                [d \in older |-> Unadmitted(s.dep[d])]).took)
\* Mutant: they are chosen again at every replay.
ReturnsNotFrozen(s, w) ==
  IF w \in Transfer THEN ReturnsAfresh(s, w) ELSE <<>>
ReturnsOf(s, w) ==
  IF s.wd[w].isFrozen THEN s.wd[w].frozen
  ELSE IF w \in Transfer THEN ReturnsAfresh(s, w) ELSE <<>>

Returned(s, ret) ==
  [s EXCEPT !.dep = [d \in DOMAIN s.dep |->
     IF d \in DOMAIN ret THEN [s.dep[d] EXCEPT !.returned = @ + ret[d]]
                         ELSE s.dep[d]]]

\* Deposits of S by their horizons, the older first.
NearestFirst(s, S) ==
  InOrder([d \in S |-> <<Horizon(s.dep[d]), s.dep[d].received>>])

\* The rest comes out of admitted residual, nearest horizon first, above the
\* fixed reserve: took is what each tranche gives.
Withdraw(s, w, ret, took) ==
  [s EXCEPT
    !.dep = [d \in DOMAIN s.dep |-> [s.dep[d] EXCEPT !.withdrawn = @ + took[d]]],
    !.wd[w].applied = TRUE,
    !.wd[w].isFrozen = w \in Transfer,
    !.wd[w].frozen = ret,
    !.wd[w].alloc = Positive(took)]

WithdrawAdmitted(s, w, ret, target) ==
  IF target > Minus(Free(s), FixedReserve)
  THEN Refuse(s, "exceeds free capital")
  ELSE Withdraw(s, w, ret,
         Pour(target, NearestFirst(s, DOMAIN s.dep),
              [d \in DOMAIN s.dep |-> Residual(s.dep[d])]).took)

WithdrawReturning(s, w, ret) ==
  IF \E d \in DOMAIN ret: ret[d] > Unadmitted(s.dep[d])
  THEN Refuse(s, "corrupt")
  ELSE WithdrawAdmitted(Returned(s, ret), w, ret, Amount[w] - SumFunction(ret))

ApplyWithdrawal(s, w) == WithdrawReturning(s, w, ReturnsOf(s, w))

\* Every admission falls back to what durably backs it, or to its floor.
Reset(s, floor) ==
  [s EXCEPT
    !.dep = [d \in DOMAIN s.dep |-> [s.dep[d] EXCEPT
               !.admitted = Most(s.dep[d].invested + s.dep[d].committed,
                                 IF d \in DOMAIN floor THEN floor[d] ELSE 0),
               !.withdrawn = 0, !.returned = 0]],
    !.wd = [w \in DOMAIN s.wd |-> [s.wd[w] EXCEPT
              !.applied = FALSE, !.alloc = <<>>]]]

\* Deposits at their first usable time and withdrawals at the time they
\* happened, in that order; a deposit before a withdrawal of the same time.
Timeline(s, at) ==
  LET usable == {d \in DOMAIN s.dep: UsableBy(s.dep[d], at)}
      known  == {w \in DOMAIN s.wd: s.wd[w].reconciled <= at}
  IN InOrder([id \in usable \cup known |->
       IF id \in usable THEN <<UsableAt(s.dep[id]), 0>>
                        ELSE <<s.wd[id].occurred, 1>>])

ReplayOne(s, id) ==
  IF s.err # "none" THEN s
  ELSE IF id \in Deposits THEN AdmitDeposit(s, id)
  ELSE ApplyWithdrawal(s, id)

ReplayAll(s, ids) == FoldLeft(ReplayOne, s, ids)

ReplayReady(s, at, floor) ==
  LET base == Reset(s, floor) IN
  IF s.err # "none" THEN s
  ELSE IF \/ ~WithinCaps(base)
          \/ \E d \in DOMAIN base.dep: LET tr == base.dep[d] IN
               tr.admitted > 0 /\ (tr.admitted > tr.amount \/ ~UsableBy(tr, at))
  THEN Refuse(s, "corrupt")
  ELSE ReplayAll(base, Timeline(base, at))

-----------------------------------------------------------------------------
(* Reconciling capital events *)

\* A batch of capital events, dep: d -> [received, approved, max] and
\* wd: w -> [occurred, reconciled].  What a tranche or a withdrawal already
\* says of itself cannot be said differently later.
Conflicts(s, batch) ==
  \/ \E d \in DOMAIN batch.dep \cap DOMAIN s.dep:
       LET old == s.dep[d]  new == batch.dep[d] IN
       \/ old.received # new.received
       \/ old.approved # Never /\ (\/ old.approved # new.approved
                                   \/ old.max # new.max)
  \/ \E w \in DOMAIN batch.wd \cap DOMAIN s.wd:
       \/ s.wd[w].occurred # batch.wd[w].occurred
       \/ s.wd[w].reconciled # batch.wd[w].reconciled

Upsert(s, batch) ==
  [s EXCEPT
    !.dep = [d \in DOMAIN s.dep \cup DOMAIN batch.dep |->
      IF d \notin DOMAIN batch.dep THEN s.dep[d]
      ELSE LET e == batch.dep[d] IN
           IF d \in DOMAIN s.dep
           THEN [s.dep[d] EXCEPT !.approved = e.approved, !.max = e.max]
           ELSE NewTranche(d, e.received, e.approved, e.max)],
    !.wd = [w \in DOMAIN s.wd \cup DOMAIN batch.wd |->
      IF w \in DOMAIN s.wd THEN s.wd[w]
      ELSE [occurred |-> batch.wd[w].occurred, reconciled |-> batch.wd[w].reconciled,
            applied |-> FALSE, alloc |-> <<>>, isFrozen |-> FALSE, frozen |-> <<>>]]]

\* Mutant: a replay may take back what nothing was spent of yet.
FloorsBacked(s) ==
  [d \in DOMAIN s.dep |-> s.dep[d].invested + s.dep[d].committed]
\* What the state has admitted so far, which a replay may not take back.
Floors(s) == [d \in DOMAIN s.dep |-> s.dep[d].admitted]

\* reconcile_capital_preserving_admissions.  The state it starts from was
\* validated by the operation that made it and is not validated again here.
Reconcile(s, batch, at) ==
  IF s.err # "none" THEN s
  ELSE IF at < s.through THEN Refuse(s, "time regressed")
  ELSE IF Conflicts(s, batch) THEN Refuse(s, "conflicting event")
  ELSE LET t == ReplayReady(Upsert(s, batch), at, Floors(s))
       IN Checked([t EXCEPT !.through = at])

-----------------------------------------------------------------------------
(* The daily decision *)

\* Within the last FinalCatchUp days before the horizon, every day is one.
CatchUp(date, tr) == /\ date <= Horizon(tr)
                     /\ Horizon(tr) - date + 1 <= FinalCatchUp
IsDecisionDue(s, at) ==
  /\ at >= Boundary(DateOf(at))
  /\ \/ DateOf(at) % 7 \in Weekdays
     \/ \E d \in DOMAIN s.dep: /\ Residual(s.dep[d]) # 0
                               /\ CatchUp(DateOf(at), s.dep[d])

EligibleDays(date, tr) ==
  Cardinality({x \in date .. Horizon(tr): CatchUp(x, tr) \/ x % 7 \in Weekdays})

DivCeil(n, k) == (n + k - 1) \div k
ApplyReserve(v) == (v * (Bps - FeeBps)) \div Bps
GrossUp(v) == DivCeil(v * Bps, Bps - FeeBps)
\* Mutant: the fixed reserve is planned like the rest.
SpendableWithReserve(active, aggregate) == ApplyReserve(Least(active, aggregate))
Spendable(active, aggregate) ==
  ApplyReserve(Least(active, Minus(aggregate, FixedReserve)))

\* The tranches a decision of this date draws on.
DueRows(s, date) == {d \in DOMAIN s.dep: Residual(s.dep[d]) > 0
                                        /\ EligibleDays(date, s.dep[d]) > 0}
Required(s, date, d) ==
  DivCeil(Residual(s.dep[d]), EligibleDays(date, s.dep[d]))

\* What is planned: zero is a recorded skip, whatever its reason.
Planned(s, date, observed, go) ==
  LET rows == DueRows(s, date)
      active == SumFunction([d \in rows |-> Residual(s.dep[d])])
      budget == Spendable(active, Free(s))
      seen == Spendable(observed, observed)
      desired == Most(SumFunction([d \in rows |-> Required(s, date, d)]), MinOrder)
      plan == Least(Least(desired, MaxDaily), Least(budget, seen))
      open == \E x \in DOMAIN s.dec:
                x < date /\ s.dec[x].planned # 0 /\ ~s.dec[x].settled
  IN IF open \/ ~go \/ active < MinOrder \/ plan < MinOrder THEN 0 ELSE plan

\* commit_plan: the required part of each row first, then any residual, then
\* the fee reserve on what residual is left.
Allocate(s, date, plan) ==
  LET rows  == DueRows(s, date)
      ids   == NearestFirst(s, rows)
      room  == [d \in rows |-> Residual(s.dep[d])]
      first == Pour(plan, ids, [d \in rows |-> Least(Required(s, date, d), room[d])])
      more  == Pour(first.left, ids, [d \in rows |-> room[d] - first.took[d]])
      amount == [d \in rows |-> first.took[d] + more.took[d]]
      fee   == Pour(GrossUp(plan) - plan, ids, [d \in rows |-> room[d] - amount[d]])
  IN [exact |-> more.left = 0 /\ fee.left = 0,
      alloc |-> [d \in {x \in rows: amount[x] + fee.took[x] > 0} |->
        [planned |-> amount[d], committed |-> amount[d] + fee.took[d],
         filled |-> 0, debited |-> 0]]]

\* The decision of plan, drawn as how says; zero is a skip.
WithDecision(s, date, plan, how) ==
  IF ~how.exact THEN Refuse(s, "corrupt")
  ELSE Checked([s EXCEPT
    !.dec = With(@, date,
      [planned |-> plan, filled |-> 0, debited |-> 0, settled |-> FALSE,
       committed |-> SumFunction([d \in DOMAIN how.alloc |-> how.alloc[d].committed]),
       alloc |-> how.alloc]),
    !.dep = [d \in DOMAIN s.dep |->
      IF d \in DOMAIN how.alloc
      THEN [s.dep[d] EXCEPT !.committed = @ + how.alloc[d].committed]
      ELSE s.dep[d]]])

BuildDecision(s, date, plan) ==
  WithDecision(s, date, plan, IF plan = 0 THEN [exact |-> TRUE, alloc |-> <<>>]
                              ELSE Allocate(s, date, plan))

\* decide_bound, on capital that has been replayed up to the boundary: a date
\* that has its decision keeps it, a date on which none is due gets none.
DecideReplayed(s, at, observed, go) ==
  IF s.err # "none" \/ DateOf(at) \in DOMAIN s.dec \/ ~IsDecisionDue(s, at)
  THEN s
  ELSE BuildDecision(s, DateOf(at), Planned(s, DateOf(at), observed, go))

Decide(s, at, observed, go) ==
  DecideReplayed(Reconcile(s, [dep |-> <<>>, wd |-> <<>>], at), at, observed, go)

\* settle_decision: fills and then the rest of the debit are spread over the
\* allocations in order; what was committed and not debited is released.
Settle(s, date, filled, debited) ==
  LET old  == s.dec[date]
      rows == NearestFirst(s, DOMAIN old.alloc)
      fill == Pour(filled, rows, [d \in DOMAIN old.alloc |-> old.alloc[d].planned])
      rest == Pour(debited - filled, rows,
                   [d \in DOMAIN old.alloc |-> old.alloc[d].committed - fill.took[d]])
      paid(d) == fill.took[d] + rest.took[d]
  IN IF s.err # "none" THEN s
     ELSE IF old.planned = 0 THEN Refuse(s, "not economic")
     ELSE IF old.settled
     THEN IF old.filled = filled /\ old.debited = debited THEN s
          ELSE Refuse(s, "conflicting settlement")
     ELSE IF filled > old.planned \/ debited < filled \/ debited > old.committed
     THEN Refuse(s, "bad debit")
     ELSE IF fill.left # 0 \/ rest.left # 0 THEN Refuse(s, "corrupt")
     ELSE Checked([s EXCEPT
       !.dec[date] = [@ EXCEPT
         !.filled = filled, !.debited = debited, !.settled = TRUE,
         !.alloc = [d \in DOMAIN old.alloc |-> [old.alloc[d] EXCEPT
                      !.filled = fill.took[d], !.debited = paid(d)]]],
       !.dep = [d \in DOMAIN s.dep |->
         IF d \in DOMAIN old.alloc
         THEN [s.dep[d] EXCEPT !.committed = @ - old.alloc[d].committed,
                               !.invested = @ + paid(d)]
         ELSE s.dep[d]]])

=============================================================================

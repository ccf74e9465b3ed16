------------------------------ MODULE Holdings ------------------------------
(***************************************************************************)
(* The HYPE of the execution account: what the decisions' orders buy, what  *)
(* the owner moves in, to the staking custodian and elsewhere by hand, and  *)
(* the two checks that compare what the program remembers with what the     *)
(* account holds.  A runtime cycle judges its movement ledger against the   *)
(* balance (main.rs, monitor.rs) before it commits; preparing an order      *)
(* replays the finished workflows against it (live_decision.rs).            *)
(*                                                                         *)
(* Commands on one decision are modelled call by call where another         *)
(* command or the owner can come between; LiveDay has the crashes.  In the  *)
(* "library" world the workflow of one decision receives any call with any  *)
(* evidence instead.                                                        *)
(***************************************************************************)
EXTENDS HypeHistory, HypeStatus

CONSTANTS
  Terms,       \* the worlds: see Init
  Calls,       \* the calls of a library world
  Taken,       \* venue orders and fills other workflows own
  Quantities,  \* authorized quantities of an order
  Outcomes,    \* what the venue may match of an order and credit for it
  Routes,      \* the ways HYPE moves: direction and other party
  Amounts,     \* amounts of a movement
  Target,      \* the configured residual
  Overlap,     \* how far a scan reaches back behind the last complete one
  MaxDays, MaxMoves, MaxTime   \* bounds

ASSUME HoldingsAssumption ==
  /\ Quantities \subseteq Nat \ {0} /\ Amounts \subseteq Nat \ {0}
  /\ \A v \in Outcomes : v.matched \in Nat /\ v.credited \in 1..v.matched
  /\ Target \in Nat /\ Overlap \in Nat
  /\ MaxDays \in Nat /\ MaxMoves \in Nat /\ MaxTime \in Nat
  /\ Routes \subseteq {<<"in", "other">>, <<"out", "other">>, <<"out", "custodian">>,
                       <<"sale", "other">>}
  /\ Calls \subseteq Recordings /\ Taken \subseteq STRING
  /\ \A t \in Terms :
       /\ t.world \in {"account", "library"}
       /\ t.foreign \in Nat /\ t.legacy \in Nat
       /\ t.evidence \in BOOLEAN /\ t.naming \in BOOLEAN
       /\ {t.binding.decided, t.binding.deficit} \subseteq Nat /\ t.binding.staking \in BOOLEAN

VARIABLES
  terms,     \* rigid: the world
  now,       \* the clock, one tick per purchase, movement or recording
  moves,     \* every movement of HYPE, sales by hand (never scanned) included
  days,      \* the decisions: binding, workflow, what the venue did, settlement
  recorded,  \* the runtime's movement ledger
  cursor,    \* the end of its last complete scan
  naming,    \* whether the connector names a transfer's other party
  cyc,       \* the command that holds the runtime's lock
  offer      \* what the last status lets the owner send to the custodian, once it
             \* counts everything sent before

vars == <<terms, now, moves, days, recorded, cursor, naming, cyc, offer>>

Idle == [phase |-> "idle", asked |-> 0]

Far == 1000   \* an expiry no purchase of the account world reaches

Binding(quantity, unconsumed) ==
  [decided |-> now, signed |-> Far, effective |-> Far, quantity |-> quantity,
   planned |-> quantity, committed |-> quantity, maxAge |-> Far, staking |-> FALSE,
   deficit |-> Deficit(Target, unconsumed)]

\* A day at its start; "bought" is what the venue matched and credited, and when.
NewDay(b, w) ==
  [b |-> b, w |-> w, bought |-> <<>>, settled |-> FALSE, row |-> <<>>]

\* A purchase settled by a build that recorded no acquisition row.
LegacyDay(quantity) ==
  LET b == Binding(quantity, 0)
      w == [NewWorkflow(b) EXCEPT
              !.stage = "complete", !.order = "order1", !.accepted = quantity,
              !.matched = quantity, !.credited = quantity, !.filled = quantity,
              !.debited = quantity, !.residual = Lesser(quantity, b.deficit),
              !.eligible = Monus(quantity, b.deficit), !.basis = <<[kind |-> "attested", exact |-> TRUE]>>]
  IN [NewDay(b, w) EXCEPT !.bought = <<[matched |-> quantity, credited |-> quantity, at |-> 0]>>,
                          !.settled = TRUE]

Init ==
  /\ terms \in Terms
  /\ now = 0
  /\ moves = {} /\ recorded = {} /\ cursor = Never
  /\ naming = terms.naming
  /\ cyc = Idle /\ offer = 0
  /\ days = IF terms.world = "library" THEN <<NewDay(terms.binding, NewWorkflow(terms.binding))>>
            ELSE IF terms.legacy > 0 THEN <<LegacyDay(terms.legacy)>>
            ELSE <<>>

-----------------------------------------------------------------------------
(* What is true of the account *)

BoughtBy(t) ==
  SumFunction([i \in {j \in DOMAIN days : days[j].bought # <<>> /\ days[j].bought[1].at <= t}
                 |-> days[i].bought[1].credited])

MovedBy(dir, t) == SumOf({m \in moves : m.at <= t}, dir)

Spot(t) == terms.foreign + BoughtBy(t) + MovedBy("in", t) - MovedBy("out", t) - MovedBy("sale", t)

Flows == [i \in DOMAIN days |-> days[i].w]

Credited ==
  SumFunction([i \in {j \in DOMAIN days : days[j].row # <<>>} |-> days[i].row[1]])

\* A settled purchase without its acquisition row.
Missing(i) == days[i].settled /\ days[i].w.filled > 0 /\ days[i].row = <<>>

Complete == \A i \in DOMAIN days : ~Missing(i)

\* What the venue's movement history shows of a range; sales are trades.
Scan(from, to) ==
  {[m EXCEPT !.to = IF naming THEN @ ELSE None] :
     m \in {v \in moves : v.dir # "sale" /\ v.at \in from..to}}

ScanStart == IF cursor = Never THEN 0 ELSE Monus(cursor, Overlap)

-----------------------------------------------------------------------------
(* The owner and the venue *)

Account == terms.world = "account"

\* The owner deposits HYPE, sends it to the custodian or elsewhere, or sells it;
\* he may keep to what the status offers (live-probe-recovery.md:594) or not.
Move ==
  /\ Account
  /\ Cardinality(moves) < MaxMoves
  /\ now' = now + 1
  /\ \E route \in Routes, amount \in Amounts :
       /\ route[1] # "in" => amount <= Spot(now)
       /\ moves' = moves \cup {[id |-> now', dir |-> route[1], amount |-> amount, at |-> now',
                                to |-> route[2],
                                offered |-> route[2] = "custodian" /\ amount <= offer]}
       /\ offer' = IF route[1] = "out" THEN 0 ELSE offer
  /\ UNCHANGED <<terms, days, recorded, cursor, naming, cyc>>

\* The connector is upgraded to one that names the other party.
StartNaming ==
  /\ Account /\ ~naming
  /\ naming' = TRUE
  /\ UNCHANGED <<terms, now, moves, days, recorded, cursor, cyc, offer>>

\* The venue fills all or a part of a prepared order, less a fee in HYPE.
Execute(i) ==
  /\ Account
  /\ days[i].w.pending = "submit" /\ days[i].bought = <<>>
  /\ now' = now + 1
  /\ \E v \in Outcomes :
       /\ v.matched <= days[i].b.quantity
       /\ days' = [days EXCEPT ![i].bought =
                     <<[matched |-> v.matched, credited |-> v.credited, at |-> now']>>]
  /\ UNCHANGED <<terms, moves, recorded, cursor, naming, cyc, offer>>

-----------------------------------------------------------------------------
(* Reconciling one decision *)

Told(day, c, at) == [day EXCEPT !.w = Call(@, day.b, c, at, Taken).w]

\* The order's submission, its fill and its end, from one look at the venue.
Reconcile(i) ==
  /\ Account
  /\ days[i].bought # <<>> /\ days[i].w.stage = "decided"
  /\ now' = now + 1
  /\ LET d == days[i]
         v == d.bought[1]
         submitted == [type |-> "submitted", exact |-> TRUE, order |-> "order1",
                       accepted |-> d.b.quantity, acceptedAt |-> v.at]
         fill == [type |-> "fill", obs |-> "fill1", matched |-> v.matched,
                  credited |-> v.credited, filled |-> v.matched, debited |-> v.matched,
                  full |-> v.matched = d.b.quantity]
         final == [type |-> "final", matched |-> v.matched, credited |-> v.credited,
                   filled |-> v.matched, debited |-> v.matched,
                   finality |-> IF v.matched = d.b.quantity THEN "filled" ELSE "canceled"]
     IN days' = [days EXCEPT ![i] = Told(Told(Told(d, submitted, now'), fill, now'), final, now')]
  /\ UNCHANGED <<terms, moves, recorded, cursor, naming, cyc, offer>>

Attested == [kind |-> "attested", exact |-> TRUE]

\* Signer evidence of a day: its fill, and what movements took of its residual.
Evidence(day, moved) ==
  [kind |-> "bound", exact |-> TRUE, fillsOf |-> None,
   fillsThrough |-> now, movesThrough |-> now,
   fills |-> <<[at |-> day.bought[1].at, matched |-> day.bought[1].matched,
                credited |-> day.bought[1].credited, notional |-> day.bought[1].matched,
                timely |-> TRUE]>>,
   moves |-> moved]

\* What a transfer to the custodian may have taken of a day's residual.
Parts(day) ==
  UNION {{[id |-> m.id, at |-> m.at, amount |-> a] : a \in 1..m.amount} :
           m \in {v \in CustodianOutflows(moves) : v.at > day.bought[1].at}}

BasesOf(day) ==
  IF ~terms.evidence THEN {Attested}
  ELSE {ev \in {Evidence(day, moved) : moved \in SeqOf(Parts(day), MaxMoves)} :
          BoundEvidenceOk(day.w, day.b, ev, now)}

\* The split is recorded and the workflow completed.
Resolve(i) ==
  /\ Account
  /\ days[i].w.stage = "order_finalized"
  /\ \E basis \in BasesOf(days[i]) :
       days' = [days EXCEPT ![i] =
                  Told(Told(days[i], [type |-> "eligible", basis |-> basis], now),
                       [type |-> "complete"], now)]
  /\ UNCHANGED <<terms, now, moves, recorded, cursor, naming, cyc, offer>>

\* What a journal proves to have been credited: only a finished order's, and cash
\* and HYPE either both moved or neither.
Acquired(w) == {h \in {w.credited} : w.stage \in OrderFinal}
Rows(w) == {<<h>> : h \in {a \in Acquired(w) : (a = 0) <=> (w.filled = 0)}}

\* The capital side is settled and the purchase becomes inventory.
Settle(i) ==
  /\ Account
  /\ cyc.phase = "idle"
  /\ ~days[i].settled
  /\ \E row \in Rows(days[i].w) :
       days' = [days EXCEPT ![i].settled = TRUE, ![i].row = row]
  /\ UNCHANGED <<terms, now, moves, recorded, cursor, naming, cyc, offer>>

\* A settled purchase gets its row once; another one would be refused.
WithRow(day) ==
  {[day EXCEPT !.row = row] :
     row \in {r \in Rows(day.w) : /\ day.settled /\ day.w.filled > 0
                                   /\ day.row \in {<<>>, r}}}

\* One decision's row, from the journal it declared, frozen meanwhile.
BackfillOne(i) == \E day \in WithRow(days[i]) : days' = [days EXCEPT ![i] = day]

\* The settled purchases without a row get theirs, one after the other.
Backfill(i) ==
  /\ cyc.phase = "idle"
  /\ Missing(i)
  /\ BackfillOne(i)
  /\ UNCHANGED <<terms, now, moves, recorded, cursor, naming, cyc, offer>>

-----------------------------------------------------------------------------
(* Runtime cycles *)

\* A command takes the runtime's lock and asks for the balance, which the venue
\* reads at once.
StartCycle ==
  /\ Account
  /\ cyc.phase = "idle"
  /\ cyc' = [phase |-> "asked", asked |-> now]
  /\ UNCHANGED <<terms, now, moves, days, recorded, cursor, naming, offer>>

Claim(seen, asOf) == Attributed(Netted(recorded, seen, asOf), Credited, Complete)

Observed(seen, asOf, staked) ==
  Status(Spot(cyc.asked), staked, Attribution(Claim(seen, asOf), Target))

\* The bot's HYPE by the ledger is more than the account held: nothing is
\* claimed while a purchase lacks its row.  (The custodian's read, which may as
\* well have failed, says nothing of it.)
Exceeds(seen, asOf) == AttributionExceedsHoldings(Observed(seen, asOf, <<>>))

\* The status of a cycle, as the owner reads it who waits until his last
\* transfers are counted in it (live-probe-recovery.md:606).
Publish(seen, asOf) ==
  LET figures == Observed(seen, asOf, <<>>).figures
      counted == {m.id : m \in Netted(recorded, seen, asOf)}
  IN offer' = IF figures # <<>> /\ \A m \in moves : m.dir = "out" => m.id \in counted
              THEN figures[1].eligible ELSE 0

\* The cycle ends without a commit; only a recurring one publishes its status.
Halt(seen, asOf) ==
  /\ Exceeds(seen, asOf)
  /\ Publish(seen, asOf) \/ UNCHANGED offer
  /\ cyc' = Idle
  /\ UNCHANGED <<recorded, cursor>>

\* After the commit a recurring cycle ends; a live one may go on to prepare
\* the next decision's order, unless the scan failed.
Onward(complete) ==
  {Idle} \cup IF complete /\ Len(days) < MaxDays THEN {[Idle EXCEPT !.phase = "committed"]} ELSE {}

\* The scanned movements are recorded; the cursor moves after a complete scan only.
Commit(seen, asOf, complete) ==
  /\ ~Exceeds(seen, asOf)
  /\ Publish(seen, asOf)
  /\ recorded' = Record(recorded, seen)
  /\ cursor' = IF complete THEN now ELSE cursor
  /\ cyc' \in Onward(complete)

\* The balance's answer came in between, and its time is the balance's time for
\* the program; then the movement scan, which may fail, and the judgement.
FinishCycle ==
  /\ cyc.phase = "asked"
  /\ \E asOf \in cyc.asked..now, complete \in BOOLEAN :
       LET seen == IF complete THEN Scan(ScanStart, now) ELSE {}
       IN Halt(seen, asOf) \/ Commit(seen, asOf, complete)
  /\ UNCHANGED <<terms, now, moves, days, naming>>

Books == Attributed(recorded, Credited, Complete)

\* Incomplete books explain no transfer.
Replayed == IF Complete THEN CustodianOutflows(recorded) ELSE {}

History == Aggregate(Flows, Spot(now), Replayed, CustodianCredit(Books))

Prepared(b) ==
  Told(NewDay(b, NewWorkflow(b)), [type |-> "prepare", obs |-> "submit"], now)

\* The live command reads the balance again and binds the decision to what
\* history left of the residual, or fails and leaves the decision to a retry.
PrepareDecision ==
  /\ cyc.phase = "committed"
  /\ days' \in IF History.answer # "ok" THEN {days}
               ELSE {Append(days, Prepared(Binding(q, History.residual))) : q \in Quantities}
  /\ cyc' = Idle
  /\ UNCHANGED <<terms, now, moves, recorded, cursor, naming, offer>>

-----------------------------------------------------------------------------
(* The library world *)

\* Time matters until the workflow is finished or in review.
Tick ==
  /\ ~Account
  /\ now < MaxTime
  /\ days[1].w.stage \notin {"complete", "manual_review"}
  /\ now' = now + 1
  /\ UNCHANGED <<terms, moves, days, recorded, cursor, naming, cyc, offer>>

LibraryCall ==
  /\ ~Account
  /\ \E c \in Calls :
       LET called == Call(days[1].w, days[1].b, c, now, Taken)
       IN /\ called.w # days[1].w
          /\ days' = [days EXCEPT ![1].w = called.w]
  /\ UNCHANGED <<terms, now, moves, recorded, cursor, naming, cyc, offer>>

Next ==
  \/ Move \/ StartNaming
  \/ \E i \in DOMAIN days :
       Execute(i) \/ Reconcile(i) \/ Resolve(i) \/ Settle(i) \/ Backfill(i)
  \/ StartCycle \/ FinishCycle \/ PrepareDecision
  \/ Tick \/ LibraryCall

Spec == Init /\ [][Next]_vars

-----------------------------------------------------------------------------
(* Properties *)

\* The split of a purchase conserves it, whatever else is reported: the
\* residual is what the decision reserved, what movements took of it is no
\* more than that, and only the eligible rest is ever deposited or delegated.
SplitConserved ==
  \A i \in DOMAIN days :
    LET d == days[i]
        w == d.w
        recordedSplit == w.basis # <<>>
    IN /\ recordedSplit => /\ w.residual + w.eligible = w.credited
                           /\ w.residual = Residual(w, d.b)
                           /\ Consumed(w) <= w.residual
       /\ w.target \in {0, w.eligible}
       /\ w.confirmed \in {0, w.target}
       /\ w.delegated \in {0, w.confirmed}
       /\ ~d.b.staking => w.target = 0

\* What was recorded once may be reported again, at once or later, as a caller
\* that lost the answer does: nothing changes, and no action is handed out twice.
RetryHarmless ==
  terms.world = "library" =>
    \A c \in days[1].w.log : \A at \in {now, MaxTime} :
      LET again == Call(days[1].w, days[1].b, c, at, Taken)
      IN again.w = days[1].w /\ again.answer # "ready"

\* Everything there is to know of the account's HYPE is in the books.
Settled ==
  /\ Account
  /\ recorded = {m \in moves : m.dir # "sale"}
  /\ \A i \in DOMAIN days : days[i].w.stage = "complete" /\ days[i].row # <<>>

\* Every transfer to the custodian had lots enough in the books at its time.
Covered ==
  \A o \in CustodianOutflows(moves) :
    SumOf({m \in CustodianOutflows(moves) : m.at <= o.at}, "out")
      <= SumFunction([i \in {j \in DOMAIN days : Lot(days[j].w).from <= o.at} |-> days[i].w.credited])

\* HYPE that left other than to the custodian.
Strayed == SumOf(moves, "sale") + Books.outflow - Books.custodian

\* What the account held beside the bot's, as far as the custodian did not get it.
Foreign == terms.foreign + Monus(Books.inflow, Books.custodian)

\* What evidence bound of a transfer is within what the bot's HYPE may explain,
\* the transfers before it counted first.
BoundWithinCap ==
  \A o \in CustodianOutflows(moves) :
    BoundOf(Flows, o.id) > 0 =>
      SumOf({m \in CustodianOutflows(moves) : m.at < o.at}, "out") + BoundOf(Flows, o.id)
        <= CustodianCredit(Books)

\* With the books complete, preparing an order stops for a gap exactly when
\* more HYPE strayed than the account held of other origin: transfers to the
\* custodian are neither missed nor can they hide a sale.
HistoryExact ==
  /\ Settled /\ Covered /\ BoundWithinCap
  /\ Monus(Books.outflow, Books.inflow) <= Credited
  => (History.answer = "gap" <=> Strayed > Foreign)

\* A cycle whose balance and whose ledger speak of the same time halts exactly
\* when HYPE was sold that neither other holdings, purchases not yet settled
\* nor deposits still in the account explain: the first cycle that sees a
\* transfer does not halt on it, and no transfer hides a sale.
JudgementExact ==
  LET t == cyc.asked
      deposits == MovedBy("in", t)
      withdrawals == MovedBy("out", t)
  IN cyc.phase = "asked" /\ Complete /\ Monus(withdrawals, deposits) <= Credited
     => \A asOf \in t..now :
          (\A m \in moves : m.at \notin (t + 1)..asOf)
          => (Exceeds(Scan(ScanStart, now), asOf) <=>
                MovedBy("sale", t) > terms.foreign + (BoughtBy(t) - Credited)
                                       + Monus(deposits, withdrawals))

\* The residual the decisions hold: what the finished ones still have by the
\* replay, and what the ones under way reserved.
Reserved ==
  Expectation(Finished(Flows), Replayed, CustodianCredit(Books)).residual
    + SumFunction([i \in {j \in DOMAIN days : days[j].w.stage # "complete"} |-> days[i].b.deficit])

\* While nobody deposits HYPE or sends it elsewhere, the decisions together
\* reserve no more than the residual target, whatever goes to the custodian and
\* whenever the program learns of it.
BufferKept ==
  /\ Account
  /\ \A m \in moves : m.dir # "in" /\ (m.dir = "out" => m.to = "custodian")
  => Reserved <= Target

\* What the HYPE that left was by the program's account: of other origin as far
\* as it came in, then the bot's.  Each way to tell which movement took the bot's.
Splits(out, bots) ==
  {f \in [out -> 0..bots] :
     /\ \A m \in out : f[m] <= m.amount
     /\ SumFunction(f) = bots}

\* Whoever sends the custodian no more than the status offers, and waits until
\* it is counted before he reads the next offer, leaves the residual buffer.
BufferLeft ==
  Complete /\ (\A m \in moves : m.dir = "in" \/ m.offered)
  => Held(Attributed(moves, Credited, TRUE)) >= Lesser(Target, Credited)

\* No order is refused for it either, as long as nothing was deposited.
NoGapLeft == Settled /\ (\A m \in moves : m.offered) => History.answer # "gap"

\* A shortfall is reported only of HYPE that the custodian got and does not have
\* in staking, whatever else left the account and whichever HYPE that was.
ShortfallReal ==
  cyc.phase = "asked" =>
    \A asOf \in cyc.asked..now, complete \in BOOLEAN :
      LET seen == IF complete THEN Scan(ScanStart, now) ELSE {}
          counted == {m \in moves : \E r \in Netted(recorded, seen, asOf) : r.id = m.id}
          out == {m \in counted : m.dir = "out"}
          bots == TransferredOut(Attributed(counted, Credited, TRUE))
      IN \A f \in Splits(out, bots) :
           LET staked == SumFunction([m \in CustodianOutflows(out) |-> f[m]])
           IN ~StakingShortfall(Observed(seen, asOf, <<staked>>))

\* What the runbook promises of the owner's transfers (live-probe-recovery.md:579).
TransfersSound == BufferLeft /\ NoGapLeft /\ ShortfallReal

\* The comment on the replay says that an outflow larger than what history
\* expects in spot at its time "only drops the excess, which was never part of
\* that expectation" (workflow.rs:3454).  So an owner who only sends what the
\* status offered is never refused an order, whatever he deposited.
OfferedNeverGaps ==
  Settled /\ (\A m \in moves : m.dir = "in" \/ m.offered) => History.answer # "gap"
=============================================================================

----------------------------- MODULE BufferProofs -----------------------------
(***************************************************************************)
(* What the owner may take from the account and what the decisions keep of  *)
(* it, for any calls, quantities, amounts, terms and delays of a scan.      *)
(*                                                                         *)
(* The first part relates what the status offers to what may leave          *)
(* (OfferOK), and shows that the runbook's promise of the owner's transfers *)
(* is kept.  The second shows that what history leaves in spot covers what  *)
(* the decisions reserve of it (BaseOK), from the order in which the ledger *)
(* learns of the transfers.                                                 *)
(***************************************************************************)
EXTENDS HoldingsProofs

-----------------------------------------------------------------------------
(* What the status offers *)

\* A workflow that was told of no fill was credited nothing.
NoFill(w) == w.lastFill = 0 => w.matched = 0 /\ w.credited = 0

\* A purchase of an older build is over from the start.
DayFilled(d) ==
  /\ NoFill(d.w) \/ (d.w.stage = "complete" /\ d.w.last = 0)
  /\ d.bought # <<>> => d.bought[1].matched > 0

FillsKnown == Account => \A i \in DOMAIN days : DayFilled(days[i])

LEMMA CallFills ==
  ASSUME NEW w, NEW b, NEW c, CallOK(c), NEW at \in Nat, FlowOK(w, b), NoFill(w),
         c.type \in {"fill", "final"} => at > 0 /\ c.matched > 0,
         NEW taken, NEW v, v = Call(w, b, c, at, taken).w
  PROVE  NoFill(v)
<1>1. CASE v = w
  BY <1>1
<1>2. ASSUME NEW why, v = ToReview(w, why, at) PROVE NoFill(v)
  <2>1. CASE w.stage = "manual_review"
    BY <1>2, <2>1 DEF ToReview
  <2>2. CASE w.stage # "manual_review"
    <3>1. v = [w EXCEPT !.pending = None, !.stage = "manual_review", !.last = Greater(at, w.last),
                        !.log = @ \cup {[type |-> "review", obs |-> why]}]
      BY <1>2, <2>2 DEF ToReview
    <3>2. v.lastFill = w.lastFill /\ v.matched = w.matched /\ v.credited = w.credited
      BY <3>1 DEF FlowOK, Shaped
    <3> QED BY <3>2 DEF NoFill
  <2> QED BY <2>1, <2>2
<1>3. CASE v = Written(w, b, c, at)
  <2>1. /\ v.lastFill \in {w.lastFill, at}
        /\ c.type \notin {"fill", "final"} =>
             v.lastFill = w.lastFill /\ v.matched = w.matched /\ v.credited = w.credited
        /\ c.type \in {"fill", "final"} =>
             v.matched = c.matched /\ (c.matched > w.matched => v.lastFill = at)
    BY <1>3, WrittenTimes DEF CallOK, FlowOK
  <2>2. CASE c.type \notin {"fill", "final"}
    BY <2>1, <2>2 DEF NoFill
  <2>3. CASE c.type \in {"fill", "final"}
    BY <2>1, <2>3 DEF NoFill
  <2> QED BY <2>2, <2>3
<1> QED BY <1>1, <1>2, <1>3, CallLeaves

LEMMA ToldFills ==
  ASSUME NEW d, DayOK(d), NoFill(d.w), NEW c, CallOK(c), NEW at \in Nat,
         c.type \in {"fill", "final"} => at > 0 /\ c.matched > 0,
         NEW e, e = Told(d, c, at)
  PROVE  NoFill(e.w)
<1>1. PICK v : v = Call(d.w, d.b, c, at, Taken).w
  OBVIOUS
<1>2. e = [d EXCEPT !.w = v]
  BY <1>1 DEF Told
<1>3. e.w = v
  BY <1>2 DEF DayOK, DayShape
<1> QED BY <1>1, <1>3, CallFills DEF DayOK

\* A row, and the time of the fill behind it, stay.
KeepsRow(e, d) ==
  d.row # <<>> => e.row # <<>> /\ e.row[1] = d.row[1] /\ e.w.lastFill = d.w.lastFill

LEMMA ToldRow ==
  ASSUME NEW d, DayOK(d), d.w.last \in Int, NEW c, CallOK(c), c.type \notin {"absent", "fill", "final"},
         NEW at \in Int, NEW e, e = Told(d, c, at)
  PROVE  KeepsRow(e, d)
<1>1. PICK v : v = Call(d.w, d.b, c, at, Taken).w
  OBVIOUS
<1>2. e = [d EXCEPT !.w = v]
  BY <1>1 DEF Told
<1>3. e.w = v /\ e.row = d.row
  BY <1>2 DEF DayOK, DayShape
<1>4. Follows(v, d.w, c, at)
  BY <1>1, CallFollows DEF DayOK
<1>5. v.lastFill = d.w.lastFill
  BY <1>4 DEF Follows
<1> QED BY <1>3, <1>5 DEF KeepsRow

\* What a step on one decision keeps.
OneKept(i) ==
  \E e : days' = [days EXCEPT ![i] = e] /\ DayFilled(e) /\ KeepsRow(e, days[i])

LEMMA ExecuteFills ==
  ASSUME HoldingsInv, FillsKnown, NEW i \in DOMAIN days, Execute(i)
  PROVE  OneKept(i)
<1>1. PICK v \in Outcomes :
        days' = [days EXCEPT ![i].bought = <<[matched |-> v.matched, credited |-> v.credited, at |-> now']>>]
  BY DEF Execute
<1>2. PICK d : d = days[i] /\ DayOK(d) /\ DayFilled(d)
  BY DEF HoldingsInv, DaysOK, FillsKnown, Execute
<1>3. PICK e : e = [d EXCEPT !.bought = <<[matched |-> v.matched, credited |-> v.credited, at |-> now']>>]
  OBVIOUS
<1>4. days' = [days EXCEPT ![i] = e]
  BY <1>1, <1>2, <1>3
<1>5. /\ e.w = d.w /\ e.row = d.row
      /\ e.bought = <<[matched |-> v.matched, credited |-> v.credited, at |-> now']>>
  BY <1>2, <1>3 DEF DayOK, DayShape
<1>6. v.matched > 0
  BY HoldingsAssumption
<1>7. DayFilled(e) /\ KeepsRow(e, d)
  BY <1>2, <1>5, <1>6 DEF DayFilled, KeepsRow
<1> QED BY <1>2, <1>4, <1>7 DEF OneKept

LEMMA ReconcileFills ==
  ASSUME HoldingsInv, Chronicle, FillsKnown, NEW i \in DOMAIN days, Reconcile(i)
  PROVE  OneKept(i)
<1>0. /\ now \in Nat /\ now' = now + 1 /\ Account /\ days[i].w.stage = "decided"
  BY DEF HoldingsInv, Reconcile
<1>1. PICK d : d = days[i] /\ DayOK(d) /\ d.bought # <<>> /\ Dated(d, i, now, moves) /\ DayFilled(d)
  BY <1>0 DEF HoldingsInv, DaysOK, Reconcile, Chronicle, FillsKnown
<1>2. PICK v : v = d.bought[1] /\ v.credited \in Nat
  BY <1>1 DEF DayOK, DayAmounts
<1>3. PICK submitted : submitted = [type |-> "submitted", exact |-> TRUE, order |-> "order1",
                                    accepted |-> d.b.quantity, acceptedAt |-> v.at]
  OBVIOUS
<1>4. PICK fill : fill = [type |-> "fill", obs |-> "fill1", matched |-> v.matched,
                          credited |-> v.credited, filled |-> v.matched, debited |-> v.matched,
                          full |-> v.matched = d.b.quantity]
  OBVIOUS
<1>5. PICK final : final = [type |-> "final", matched |-> v.matched, credited |-> v.credited,
                            filled |-> v.matched, debited |-> v.matched,
                            finality |-> IF v.matched = d.b.quantity THEN "filled" ELSE "canceled"]
  OBVIOUS
<1>6. CallOK(submitted) /\ CallOK(fill) /\ CallOK(final)
  BY <1>2, <1>3, <1>4, <1>5 DEF CallOK, Kinds
<1>7. PICK e : e = Told(d, submitted, now')
  OBVIOUS
<1>8. PICK f : f = Told(e, fill, now')
  OBVIOUS
<1>9. PICK g : g = Told(f, final, now')
  OBVIOUS
<1>10. DayOK(e) /\ e.bought = d.bought
  BY <1>1, <1>6, <1>7, ToldOK
<1>11. DayOK(f) /\ f.bought = d.bought
  BY <1>1, <1>6, <1>8, <1>10, ToldOK
<1>20. g.bought = d.bought
  BY SMTT(60), <1>1, <1>6, <1>9, <1>11, ToldOK
<1>12. days' = [days EXCEPT ![i] = g]
  BY <1>1, <1>2, <1>3, <1>4, <1>5, <1>7, <1>8, <1>9 DEF Reconcile
<1>13. now' \in Nat /\ now' > 0
  BY <1>0
<1>14. v.matched > 0
  BY <1>1, <1>2 DEF DayFilled
<1>15. NoFill(d.w)
  BY <1>0, <1>1 DEF DayFilled
<1>16. NoFill(e.w)
  <2>1. submitted.type = "submitted"
    BY <1>3
  <2> QED BY <1>1, <1>6, <1>7, <1>13, <1>15, <2>1, ToldFills
<1>17. NoFill(f.w)
  <2>1. fill.matched = v.matched
    BY <1>4
  <2> QED BY <1>6, <1>8, <1>10, <1>13, <1>14, <1>16, <2>1, ToldFills
<1>18. NoFill(g.w)
  <2>1. final.matched = v.matched
    BY <1>5
  <2> QED BY <1>6, <1>9, <1>11, <1>13, <1>14, <1>17, <2>1, ToldFills
<1>19. KeepsRow(g, d)
  BY <1>0, <1>1 DEF Dated, KeepsRow, OrderFinal
<1>21. DayFilled(g)
  BY <1>1, <1>18, <1>20 DEF DayFilled
<1> QED BY <1>1, <1>12, <1>19, <1>21 DEF OneKept

LEMMA ResolveFills ==
  ASSUME HoldingsInv, Chronicle, FillsKnown, NEW i \in DOMAIN days, Resolve(i)
  PROVE  OneKept(i)
<1>0. now \in Nat /\ Account /\ days[i].w.stage = "order_finalized"
  BY DEF HoldingsInv, Resolve
<1>1. PICK d : d = days[i] /\ DayOK(d) /\ d.bought # <<>> /\ Dated(d, i, now, moves) /\ DayFilled(d)
  BY <1>0 DEF HoldingsInv, DaysOK, DayOK, DayBought, Resolve, Chronicle, FillsKnown
<1>2. PICK basis \in BasesOf(d) :
        days' = [days EXCEPT ![i] = Told(Told(d, [type |-> "eligible", basis |-> basis], now),
                                         [type |-> "complete"], now)]
  BY <1>1 DEF Resolve
<1>3. PICK c, o : c = [type |-> "eligible", basis |-> basis] /\ o = [type |-> "complete"]
  OBVIOUS
<1>4. CallOK(c) /\ CallOK(o) /\ c.type = "eligible" /\ o.type = "complete"
  <2>1. basis.kind = "bound" => basis.fills \in Seq(BoundFill) /\ basis.moves \in Seq(BoundMove)
    BY <1>1, BasesTyped
  <2> QED BY <1>3, <2>1 DEF CallOK, Kinds
<1>5. PICK e : e = Told(d, c, now)
  OBVIOUS
<1>6. PICK f : f = Told(e, o, now)
  OBVIOUS
<1>7. DayOK(e) /\ e.bought = d.bought
  BY <1>1, <1>4, <1>5, ToldOK
<1>8. f.bought = d.bought
  BY <1>1, <1>4, <1>6, <1>7, ToldOK
<1>9. days' = [days EXCEPT ![i] = f]
  BY <1>2, <1>3, <1>5, <1>6
<1>10. NoFill(d.w)
  BY <1>0, <1>1 DEF DayFilled
<1>11. NoFill(e.w)
  BY <1>0, <1>1, <1>4, <1>5, <1>10, ToldFills
<1>12. NoFill(f.w)
  BY <1>0, <1>4, <1>6, <1>7, <1>11, ToldFills
<1>13. DayFilled(f)
  BY <1>1, <1>8, <1>12 DEF DayFilled
<1>14. d.w.last \in Int /\ now \in Int
  BY <1>0, <1>1 DEF Dated
<1>15. KeepsRow(e, d)
  BY <1>1, <1>4, <1>5, <1>14, ToldRow
<1>16. e.w.last \in Int
  <2>1. PICK v : v = Call(d.w, d.b, c, now, Taken).w
    OBVIOUS
  <2>2. e = [d EXCEPT !.w = v]
    BY <1>5, <2>1 DEF Told
  <2>3. e.w = v
    BY <1>1, <2>2 DEF DayOK, DayShape
  <2>4. Follows(v, d.w, c, now)
    BY <1>1, <1>4, <1>14, <2>1, CallFollows DEF DayOK
  <2> QED BY <1>14, <2>3, <2>4 DEF Follows
<1>17. KeepsRow(f, e)
  BY <1>4, <1>6, <1>7, <1>14, <1>16, ToldRow
<1>18. KeepsRow(f, d)
  BY <1>15, <1>17 DEF KeepsRow
<1> QED BY <1>1, <1>9, <1>13, <1>18 DEF OneKept

\* A row that is written again is the same.
LEMMA RowAgain ==
  ASSUME NEW d, NEW i, NEW t, NEW ms, Dated(d, i, t, ms), NEW row \in Rows(d.w), DayFilled(d),
         NEW e, e.w = d.w, e.bought = d.bought, e.row = row
  PROVE  DayFilled(e) /\ KeepsRow(e, d)
<1>1. row = <<d.w.credited>>
  BY DEF Rows, Acquired
<1>2. e.row # <<>> /\ e.row[1] = d.w.credited
  BY <1>1
<1> QED BY <1>2 DEF Dated, DayFilled, KeepsRow

LEMMA SettleFills ==
  ASSUME HoldingsInv, Chronicle, FillsKnown, NEW i \in DOMAIN days, Settle(i)
  PROVE  OneKept(i)
<1>1. PICK d : d = days[i] /\ DayOK(d) /\ Dated(d, i, now, moves) /\ DayFilled(d)
  BY DEF HoldingsInv, DaysOK, Chronicle, FillsKnown, Settle
<1>2. PICK row \in Rows(d.w) : days' = [days EXCEPT ![i].settled = TRUE, ![i].row = row]
  BY Zenon, <1>1 DEF Settle
<1>3. PICK e : e = [d EXCEPT !.settled = TRUE, !.row = row]
  OBVIOUS
<1>4. days' = [days EXCEPT ![i] = e]
  BY <1>1, <1>2, <1>3
<1>5. e.w = d.w /\ e.bought = d.bought /\ e.row = row
  BY <1>1, <1>3 DEF DayOK, DayShape
<1>6. DayFilled(e) /\ KeepsRow(e, d)
  BY <1>1, <1>5, RowAgain
<1> QED BY <1>1, <1>4, <1>6 DEF OneKept

LEMMA BackfillFills ==
  ASSUME HoldingsInv, Chronicle, FillsKnown, Account, NEW i \in DOMAIN days, Backfill(i)
  PROVE  OneKept(i)
<1>1. PICK d : d = days[i] /\ DayOK(d) /\ Dated(d, i, now, moves) /\ DayFilled(d)
  BY DEF HoldingsInv, DaysOK, Chronicle, FillsKnown
<1>2. PICK e \in WithRow(d) : days' = [days EXCEPT ![i] = e]
  BY <1>1 DEF Backfill, BackfillOne
<1>3. PICK row \in Rows(d.w) : e = [d EXCEPT !.row = row]
  BY DEF WithRow
<1>4. e.w = d.w /\ e.bought = d.bought /\ e.row = row
  BY <1>1, <1>3 DEF DayOK, DayShape
<1>5. DayFilled(e) /\ KeepsRow(e, d)
  BY <1>1, <1>4, RowAgain
<1> QED BY <1>1, <1>2, <1>5 DEF OneKept

RowsStay(ds, es) == \A j \in DOMAIN ds : j \in DOMAIN es /\ KeepsRow(es[j], ds[j])

LEMMA OneKeptAll ==
  ASSUME HoldingsInv, FillsKnown, Account, terms' = terms, NEW i \in DOMAIN days, OneKept(i)
  PROVE  FillsKnown' /\ RowsStay(days, days')
<1>1. PICK n \in Nat : days = [j \in 1..n |-> days[j]] /\ DOMAIN days = 1..n
  BY DEF HoldingsInv, DaysOK
<1>2. PICK e : days' = [days EXCEPT ![i] = e] /\ DayFilled(e) /\ KeepsRow(e, days[i])
  BY DEF OneKept
<1>3. days' = [j \in 1..n |-> IF j = i THEN e ELSE days[j]] /\ DOMAIN days' = 1..n
  BY <1>1, <1>2
<1>4. ASSUME NEW j \in 1..n PROVE DayFilled(days'[j]) /\ KeepsRow(days'[j], days[j])
  <2>1. CASE j = i
    BY <1>2, <1>3, <2>1
  <2>2. CASE j # i
    <3>1. days'[j] = days[j] /\ DayFilled(days[j])
      BY <1>1, <1>3, <2>2 DEF FillsKnown
    <3> QED BY <3>1 DEF KeepsRow
  <2> QED BY <2>1, <2>2
<1>5. FillsKnown'
  BY <1>3, <1>4 DEF FillsKnown
<1> QED BY <1>1, <1>3, <1>4, <1>5 DEF RowsStay

LEMMA PreparedFills ==
  ASSUME HoldingsInv, NEW q, NEW e, e = Prepared(Binding(q, History.residual))
  PROVE  DayFilled(e)
<1>1. PICK b : b = Binding(q, History.residual)
  OBVIOUS
<1>2. PICK n : n = NewDay(b, NewWorkflow(b)) /\ DayOK(n)
  <2>1. History.residual \in Int /\ Target \in Int
    BY HistoryType, HoldingsAssumption
  <2>2. b.deficit = Monus(Target, History.residual) /\ b.staking = FALSE
    BY <1>1 DEF Binding, Deficit
  <2>3. b.deficit \in Nat
    BY <2>1, <2>2, MonusType
  <2>4. b.staking \in BOOLEAN
    BY <2>2, Zenon
  <2>5. BindingOK(b)
    BY <2>3, <2>4, Zenon DEF BindingOK
  <2> QED BY <2>5, NewDayOK
<1>3. PICK c : c = [type |-> "prepare", obs |-> "submit"]
  OBVIOUS
<1>4. CallOK(c) /\ c.type = "prepare"
  BY <1>3 DEF CallOK, Kinds
<1>5. e = Told(n, c, now)
  BY <1>1, <1>2, <1>3 DEF Prepared
<1>6. now \in Nat
  BY DEF HoldingsInv
<1>7. n.w = NewWorkflow(b) /\ n.bought = <<>>
  BY <1>2 DEF NewDay
<1>8. n.w.matched = 0 /\ n.w.credited = 0
  BY <1>7 DEF NewWorkflow
<1>9. NoFill(n.w)
  BY <1>8 DEF NoFill
<1>10. NoFill(e.w)
  BY <1>2, <1>4, <1>5, <1>6, <1>9, ToldFills
<1>11. e.bought = <<>>
  BY <1>2, <1>4, <1>5, <1>7, ToldOK
<1> QED BY <1>10, <1>11 DEF DayFilled

LEMMA PrepareFills ==
  ASSUME HoldingsInv, FillsKnown, Account, PrepareDecision
  PROVE  FillsKnown' /\ RowsStay(days, days')
<1>1. CASE days' = days
  BY <1>1 DEF FillsKnown, RowsStay, KeepsRow
<1>2. ASSUME NEW q \in Quantities, days' = Append(days, Prepared(Binding(q, History.residual)))
      PROVE  FillsKnown' /\ RowsStay(days, days')
  <2>1. PICK n \in Nat : n = Len(days) /\ days = [j \in 1..n |-> days[j]] /\ DOMAIN days = 1..n
    BY DEF HoldingsInv, DaysOK
  <2>2. PICK e : e = Prepared(Binding(q, History.residual))
    OBVIOUS
  <2>3. PICK S : S = {days[j] : j \in 1..n} \cup {e}
    OBVIOUS
  <2>4. days \in Seq(S) /\ e \in S
    <3>1. days \in [1..n -> S]
      BY <2>1, <2>3
    <3> QED BY <2>3, <3>1
  <2>5. days' = [j \in 1..(n + 1) |-> IF j = n + 1 THEN e ELSE days[j]]
    BY <1>2, <2>1, <2>2, <2>4, AppendProperties
  <2>6. DayFilled(e)
    BY <2>2, PreparedFills
  <2>7. ASSUME NEW j \in 1..(n + 1) PROVE DayFilled(days'[j])
    <3>1. CASE j = n + 1
      BY <2>5, <2>6, <3>1
    <3>2. CASE j # n + 1
      <4>1. j \in 1..n /\ days'[j] = days[j]
        BY <2>5, <3>2
      <4> QED BY <2>1, <4>1 DEF FillsKnown
    <3> QED BY <3>1, <3>2
  <2>8. ASSUME NEW j \in 1..n PROVE j \in 1..(n + 1) /\ KeepsRow(days'[j], days[j])
    <3>1. j \in 1..(n + 1) /\ j # n + 1
      BY <2>8
    <3>2. days'[j] = days[j]
      BY <2>5, <3>1
    <3> QED BY <3>1, <3>2 DEF KeepsRow
  <2>9. DOMAIN days' = 1..(n + 1)
    BY <2>5
  <2> QED BY <2>1, <2>7, <2>8, <2>9 DEF FillsKnown, RowsStay
<1>3. \/ days' = days
      \/ \E q \in Quantities : days' = Append(days, Prepared(Binding(q, History.residual)))
  BY DEF PrepareDecision
<1> QED BY <1>1, <1>2, <1>3

LEMMA DaysStep ==
  ASSUME HoldingsInv, Chronicle, FillsKnown, Account, [Next]_vars
  PROVE  FillsKnown' /\ RowsStay(days, days')
<1>1. ASSUME NEW i \in DOMAIN days, Execute(i) \/ Reconcile(i) \/ Resolve(i) \/ Settle(i) \/ Backfill(i)
      PROVE  FillsKnown' /\ RowsStay(days, days')
  <2>1. OneKept(i)
    BY <1>1, ExecuteFills, ReconcileFills, ResolveFills, SettleFills, BackfillFills
  <2>2. terms' = terms
    BY Zenon, <1>1 DEF Execute, Reconcile, Resolve, Settle, Backfill
  <2> QED BY <2>1, <2>2, OneKeptAll
<1>2. CASE Move \/ StartNaming \/ StartCycle \/ FinishCycle \/ UNCHANGED vars
  <2>1. terms' = terms /\ days' = days
    BY <1>2 DEF Move, StartNaming, StartCycle, FinishCycle, vars
  <2> QED BY <2>1 DEF FillsKnown, RowsStay, KeepsRow, Account
<1>3. CASE PrepareDecision
  BY <1>3, PrepareFills
<1>4. CASE Tick \/ LibraryCall
  BY <1>4 DEF Tick, LibraryCall
<1> QED BY <1>1, <1>2, <1>3, <1>4 DEF Next

LEMMA FillsStart == ASSUME Init PROVE FillsKnown
<1>1. SUFFICES ASSUME Account PROVE \A i \in DOMAIN days : DayFilled(days[i])
  BY DEF FillsKnown
<1>2. CASE terms.legacy > 0
  <2>1. PICK q, b : q = terms.legacy /\ b = Binding(q, 0)
    OBVIOUS
  <2>2. PICK w : w = [NewWorkflow(b) EXCEPT
              !.stage = "complete", !.order = "order1", !.accepted = q,
              !.matched = q, !.credited = q, !.filled = q,
              !.debited = q, !.residual = Lesser(q, b.deficit),
              !.eligible = Monus(q, b.deficit), !.basis = <<[kind |-> "attested", exact |-> TRUE]>>]
    OBVIOUS
  <2>3. PICK d : d = [NewDay(b, w) EXCEPT !.bought = <<[matched |-> q, credited |-> q, at |-> 0]>>,
                                          !.settled = TRUE]
    OBVIOUS
  <2>4. d = LegacyDay(q)
    BY <2>1, <2>2, <2>3 DEF LegacyDay
  <2>5. days = <<d>>
    BY <1>1, <1>2, <2>1, <2>4 DEF Init, Account
  <2>6. b.decided = 0
    BY <1>1, <2>1 DEF Init, Binding
  <2>7. w.stage = "complete" /\ w.last = 0
    BY <2>2, <2>6 DEF NewWorkflow
  <2>8. d.w = w /\ d.bought = <<[matched |-> q, credited |-> q, at |-> 0]>>
    BY <2>3 DEF NewDay
  <2>9. q > 0
    BY <1>2, <2>1
  <2>10. DayFilled(d)
    BY <2>7, <2>8, <2>9 DEF DayFilled
  <2>11. DOMAIN days = {1} /\ days[1] = d
    BY <2>5
  <2> QED BY <2>10, <2>11
<1>3. CASE ~(terms.legacy > 0)
  <2>1. days = <<>>
    BY <1>1, <1>3 DEF Init, Account
  <2> QED BY <2>1
<1> QED BY <1>2, <1>3

-----------------------------------------------------------------------------
(* Offers and transfers *)

Rowed(ds) == {j \in DOMAIN ds : ds[j].row # <<>>}
RowedBy(ds, t) == {j \in Rowed(ds) : ds[j].w.lastFill <= t}
CreditsOf(ds, S) == SumFunction([i \in S |-> ds[i].row[1]])

ListOK(ds) == \E n \in Nat : DOMAIN ds = 1..n /\ \A j \in Rowed(ds) : ds[j].row[1] \in Nat

LEMMA CreditsGrow ==
  ASSUME NEW ds, ListOK(ds), NEW es, ListOK(es), RowsStay(ds, es),
         NEW S, S \subseteq Rowed(ds), NEW T, T \subseteq Rowed(es), S \subseteq T
  PROVE  /\ CreditsOf(ds, S) \in Nat /\ CreditsOf(es, T) \in Nat
         /\ CreditsOf(ds, S) <= CreditsOf(es, T)
<1>1. PICK f, h : f = [i \in T |-> es[i].row[1]] /\ h = [i \in S |-> ds[i].row[1]]
  OBVIOUS
<1>2. IsFiniteSet(T) /\ IsFiniteSet(S)
  <2>1. PICK n \in Nat : DOMAIN es = 1..n
    BY DEF ListOK
  <2>2. T \subseteq 1..n /\ S \subseteq 1..n
    BY <2>1 DEF Rowed
  <2>3. IsFiniteSet(1..n)
    BY <2>1, FS_Interval
  <2>4. IsFiniteSet(T)
    BY <2>2, <2>3, FS_Subset
  <2>5. IsFiniteSet(S)
    BY <2>2, <2>3, FS_Subset
  <2> QED BY <2>4, <2>5
<1>3. f \in [T -> Nat] /\ h \in [S -> Nat]
  BY <1>1 DEF ListOK
<1>4. ASSUME NEW x \in S PROVE h[x] = f[x]
  <2>1. x \in DOMAIN ds /\ ds[x].row # <<>> /\ x \in T
    BY DEF Rowed
  <2>2. es[x].row[1] = ds[x].row[1]
    BY <2>1 DEF RowsStay, KeepsRow
  <2> QED BY <1>1, <2>1, <2>2
<1>5. SumFunction(h) <= SumFunction(f)
  BY <1>2, <1>3, <1>4, SumPart
<1>6. SumFunction(h) \in Nat /\ SumFunction(f) \in Nat
  BY <1>2, <1>3, SumNat
<1> QED BY <1>1, <1>5, <1>6 DEF CreditsOf

LEMMA RowedStays ==
  ASSUME NEW ds, NEW es, RowsStay(ds, es), NEW t
  PROVE  Rowed(ds) \subseteq Rowed(es) /\ RowedBy(ds, t) \subseteq RowedBy(es, t)
BY DEF Rowed, RowedBy, RowsStay, KeepsRow

LEMMA DaysListed == ASSUME DaysOK PROVE ListOK(days) /\ Credited = CreditsOf(days, Rowed(days))
<1>1. PICK n \in Nat : DOMAIN days = 1..n
  BY DEF DaysOK
<1>2. \A j \in Rowed(days) : days[j].row[1] \in Nat
  BY DEF DaysOK, DayOK, DayAmounts, Rowed
<1> QED BY <1>1, <1>2 DEF ListOK, Credited, CreditsOf, Rowed

\* One more movement.
LEMMA MovesAdd ==
  ASSUME NEW V, IsFiniteSet(V), \A v \in V : v.amount \in Nat, NEW m, m \notin V, m.amount \in Nat,
         NEW W, W = V \cup {m}, NEW dir
  PROVE  /\ SumOf(V, dir) \in Nat
         /\ SumOf(W, dir) = SumOf(V, dir) + (IF m.dir = dir THEN m.amount ELSE 0)
<1>1. PICK D, E : D = {v \in W : v.dir = dir} /\ E = {v \in V : v.dir = dir}
  OBVIOUS
<1>2. PICK f, h : f = [v \in D |-> v.amount] /\ h = [v \in E |-> v.amount]
  OBVIOUS
<1>3. SumOf(W, dir) = SumFunction(f) /\ SumOf(V, dir) = SumFunction(h)
  BY <1>1, <1>2 DEF SumOf
<1>4. IsFiniteSet(E) /\ IsFiniteSet(D)
  <2>1. IsFiniteSet(W)
    BY FS_AddElement
  <2> QED BY <1>1, <2>1, FS_Subset
<1>5. f \in [D -> Int] /\ h \in [E -> Int] /\ h \in [E -> Nat] /\ \A v \in E : v \in D /\ h[v] = f[v]
  BY <1>1, <1>2
<1>6. SumFunction(h) \in Nat
  BY <1>4, <1>5, SumNat
<1>7. CASE m.dir = dir
  <2>1. m \in D /\ f[m] = m.amount
    BY <1>1, <1>2, <1>7
  <2>2. Without(E, D, m)
    BY <1>1, <1>7 DEF Without
  <2>3. SumFunction(f) = f[m] + SumFunction(h)
    BY <1>4, <1>5, <2>1, <2>2, SumSplit
  <2> QED BY <1>3, <1>6, <1>7, <2>1, <2>3
<1>8. CASE m.dir # dir
  <2>1. D = E
    BY <1>1, <1>8
  <2>2. f = h
    BY <1>2, <2>1
  <2> QED BY <1>3, <1>6, <1>8, <2>2
<1> QED BY <1>7, <1>8

In == SumOf(moves, "in")
Out == SumOf(moves, "out")

\* What may have left, and may still leave by the offer, is above the target.
Keeps ==
  (\A m \in moves : m.dir = "in" \/ m.offered) =>
    /\ offer > 0 => Monus(Out, In) + offer + Target <= Credited
    /\ Out > In => Out - In + Target <= Credited

\* What left by a time had its rows' fills before it.
Booked ==
  (\A m \in moves : m.offered) =>
    \A o \in moves : SumOf({m \in moves : m.at <= o.at}, "out") <= CreditsOf(days, RowedBy(days, o.at))

OfferOK ==
  /\ offer \in Nat
  /\ \A m \in moves : m.offered => ToCustodian(m)
  /\ ~Account => moves = {} /\ offer = 0 /\ cyc.phase = "idle"
  /\ Keeps /\ Booked

\* The rows a balance is judged against show movements, each once.
LEMMA NettedRows ==
  ASSUME HoldingsInv, NEW seen, RowsOK(seen), NEW asOf, NEW R, R = Netted(recorded, seen, asOf),
         NEW A, A = {m \in moves : Lists(R, m.id)}
  PROVE  RowsOK(R) /\ \A x : Lists(R, x) <=> Lists(A, x)
<1>1. PICK S : S = {m \in seen : m.at <= asOf \/ \E r \in recorded : r.id = m.id}
  OBVIOUS
<1>2. R = Record(recorded, S) /\ RowsOK(S)
  BY <1>1, RowsPart DEF Netted
<1>3. RowsOK(R)
  BY <1>2, RecordOK DEF HoldingsInv, LedgerOK
<1>4. ASSUME NEW r \in R PROVE Lists(A, r.id)
  <2>1. PICK m \in moves : Shows(r, m)
    BY <1>3 DEF RowsOK
  <2>2. r.id = m.id
    BY <2>1, ShownAlike DEF HoldingsInv, MovesOK
  <2> QED BY <2>1, <2>2 DEF Lists
<1>5. ASSUME NEW x PROVE Lists(R, x) <=> Lists(A, x)
  <2>1. Lists(R, x) => Lists(A, x)
    BY <1>4 DEF Lists
  <2>2. Lists(A, x) => Lists(R, x)
    BY DEF Lists
  <2> QED BY <2>1, <2>2
<1> QED BY <1>3, <1>5

\* What a status says may be sent.
LEMMA StatusOffers ==
  ASSUME NEW seen, NEW asOf, NEW a, a = Claim(seen, asOf),
         NEW figures, figures = Observed(seen, asOf, <<>>).figures, figures # <<>>
  PROVE  figures[1].eligible \in {0, Monus(Held(a), Target)}
<1>1. PICK at : at = Attribution(a, Target)
  OBVIOUS
<1>2. PICK spot : spot = Spot(cyc.asked)
  OBVIOUS
<1>3. PICK held, out, sent, eligible :
        /\ held = Held(a) /\ out = TransferredOut(a) /\ sent = TransferredToCustodian(a)
        /\ eligible = EligibleForTransfer(a, Target)
  OBVIOUS
<1>4. PICK st : st = Status(spot, <<>>, at)
  OBVIOUS
<1>5. figures = st.figures
  BY <1>1, <1>2, <1>4 DEF Observed
<1>6. st.figures = IF at = <<>> THEN <<>> ELSE <<Claimed(spot, at[1])>>
  BY <1>4 DEF Status
<1>7. CASE at = <<>>
  BY <1>5, <1>6, <1>7
<1>8. CASE at # <<>>
  <2>1. at = <<[hype |-> held, out |-> out, sent |-> sent, eligible |-> eligible]>>
    BY <1>1, <1>3, <1>8 DEF Attribution
  <2>2. PICK e : e = at[1]
    OBVIOUS
  <2>3. e = [hype |-> held, out |-> out, sent |-> sent, eligible |-> eligible]
    BY <2>1, <2>2
  <2>4. Claimed(spot, e).eligible \in {0, eligible}
    BY <2>3 DEF Claimed
  <2>5. figures[1] = Claimed(spot, e)
    BY <1>5, <1>6, <1>8, <2>2
  <2> QED BY <1>3, <2>4, <2>5 DEF EligibleForTransfer
<1> QED BY <1>7, <1>8

\* The claim in numbers.
LEMMA ClaimIs ==
  ASSUME HoldingsInv, NEW seen, RowsOK(seen), NEW asOf, NEW a, a = Claim(seen, asOf),
         NEW R, R = Netted(recorded, seen, asOf)
  PROVE  /\ a.credited = Credited /\ a.credited \in Nat
         /\ a.inflow = SumOf(R, "in") /\ a.inflow \in Nat
         /\ a.outflow = SumOf(R, "out") /\ a.outflow \in Nat
         /\ a.custodian = SumOf(CustodianOutflows(R), "out") /\ a.custodian \in Nat
         /\ a.complete = Complete
<1>1. PICK in, out, custodian, credited, ok :
        /\ in = SumOf(R, "in") /\ out = SumOf(R, "out")
        /\ custodian = SumOf(CustodianOutflows(R), "out") /\ credited = Credited /\ ok = Complete
  OBVIOUS
<1>2. a = [credited |-> credited, complete |-> ok, inflow |-> in, outflow |-> out,
           custodian |-> custodian]
  BY <1>1 DEF Claim, Attributed
<1>3. RowsOK(R) /\ MovesOK /\ DaysOK
  BY NettedRows DEF HoldingsInv
<1>4. in \in Nat /\ out \in Nat /\ custodian \in Nat /\ credited \in Nat
  BY <1>1, <1>3, SumsOfRows, CustodianPart, SumsOfDays
<1> QED BY <1>1, <1>2, <1>4

LEMMA PublishKeeps ==
  ASSUME HoldingsInv, NEW seen, RowsOK(seen), NEW asOf, Publish(seen, asOf)
  PROVE  offer' \in Nat /\ (offer' > 0 => Monus(Out, In) + offer' + Target <= Credited)
<1>1. PICK R : R = Netted(recorded, seen, asOf)
  OBVIOUS
<1>2. PICK A : A = {m \in moves : Lists(R, m.id)}
  OBVIOUS
<1>3. RowsOK(R) /\ (\A x : Lists(R, x) <=> Lists(A, x)) /\ MovesOK /\ A \in SUBSET moves
  BY <1>1, <1>2, NettedRows DEF HoldingsInv
<1>4. \A dir : SumOf(R, dir) = SumOf(A, dir)
  BY <1>3, RowsSum
<1>5. PICK a : a = Claim(seen, asOf)
  OBVIOUS
<1>6. /\ a.credited = Credited /\ a.credited \in Nat
      /\ a.inflow = SumOf(R, "in") /\ a.inflow \in Nat
      /\ a.outflow = SumOf(R, "out") /\ a.outflow \in Nat /\ a.custodian \in Nat
  BY <1>1, <1>5, ClaimIs
<1>7. PICK figures : figures = Observed(seen, asOf, <<>>).figures
  OBVIOUS
<1>8. PICK counted : counted = {m.id : m \in R}
  OBVIOUS
<1>9. offer' = IF figures # <<>> /\ \A m \in moves : m.dir = "out" => m.id \in counted
               THEN figures[1].eligible ELSE 0
  BY <1>1, <1>7, <1>8 DEF Publish
<1>10. Target \in Nat /\ Held(a) \in Nat
  BY <1>6, AttributedType, HoldingsAssumption
<1>11. Monus(Held(a), Target) \in Nat
  BY <1>10 DEF Monus
<1>12. CASE ~(figures # <<>> /\ \A m \in moves : m.dir = "out" => m.id \in counted)
  BY <1>9, <1>12
<1>13. CASE figures # <<>> /\ \A m \in moves : m.dir = "out" => m.id \in counted
  <2>1. offer' = figures[1].eligible
    BY <1>9, <1>13
  <2>2. offer' \in {0, Monus(Held(a), Target)}
    BY <1>5, <1>7, <1>13, <2>1, StatusOffers
  <2>3. SumOf(A, "out") = Out
    <3>1. \A m \in moves : m.dir = "out" => m \in A
      BY <1>2, <1>8, <1>13 DEF Lists
    <3>2. {v \in A : v.dir = "out"} = {v \in moves : v.dir = "out"}
      BY <1>3, <3>1
    <3> QED BY <3>2 DEF SumOf, Out
  <2>4. SumOf(A, "in") <= In /\ In \in Nat /\ Out \in Nat
    <3>1. PICK D, E : D = {v \in moves : v.dir = "in"} /\ E = {v \in A : v.dir = "in"}
      OBVIOUS
    <3>2. PICK f, h : f = [m \in D |-> m.amount] /\ h = [m \in E |-> m.amount]
      OBVIOUS
    <3>3. IsFiniteSet(D) /\ E \in SUBSET D
      BY <1>3, <3>1, FS_Subset DEF MovesOK
    <3>4. f \in [D -> Nat] /\ h \in [E -> Nat] /\ \A x \in E : h[x] = f[x]
      BY <1>3, <3>1, <3>2, <3>3 DEF MovesOK, MoveOK
    <3>5. SumFunction(h) <= SumFunction(f) /\ SumFunction(f) \in Nat
      BY <3>3, <3>4, SumPart, SumNat
    <3>6. SumOf(A, "in") = SumFunction(h) /\ In = SumFunction(f)
      BY <3>1, <3>2 DEF SumOf, In
    <3>7. Out \in Nat
      BY <1>4, <1>6, <2>3
    <3> QED BY <3>5, <3>6, <3>7
  <2>5. PICK o, i, in, credit, t, held :
          /\ o = Out /\ i = SumOf(A, "in") /\ in = In /\ credit = Credited /\ t = Target /\ held = Held(a)
    OBVIOUS
  <2>6. i \in Nat /\ i <= in /\ in \in Nat /\ o \in Nat /\ credit \in Nat /\ t \in Nat
    BY <1>4, <1>6, <1>10, <2>4, <2>5
  <2>7. held = credit - Lesser(Monus(o, i), credit)
    <3>1. held = a.credited - TransferredOut(a)
      BY <1>6, <2>5, AttributedType
    <3>2. TransferredOut(a) = Lesser(Monus(o, i), credit)
      BY <1>4, <1>6, <2>3, <2>5 DEF TransferredOut
    <3> QED BY <1>6, <2>5, <3>1, <3>2
  <2>8. Monus(held, t) > 0 => Monus(o, in) + Monus(held, t) + t <= credit
    BY <2>6, <2>7 DEF Monus, Lesser
  <2>9. offer' > 0 => Monus(o, in) + offer' + t <= credit
    BY <2>2, <2>5, <2>8
  <2> QED BY <1>11, <2>2, <2>5, <2>9
<1> QED BY <1>12, <1>13

LEMMA SumNone ==
  ASSUME NEW V, NEW dir, \A v \in V : v.dir # dir
  PROVE  SumOf(V, dir) = 0
<1>1. PICK D : D = {v \in V : v.dir = dir}
  OBVIOUS
<1>2. D = {}
  BY <1>1
<1>3. PICK f : f = [v \in D |-> v.amount]
  OBVIOUS
<1>4. SumFunction(f) = 0
  BY <1>2, <1>3, SumEmpty
<1> QED BY <1>1, <1>3, <1>4 DEF SumOf

LEMMA SumsTyped == ASSUME HoldingsInv PROVE In \in Nat /\ Out \in Nat /\ Credited \in Nat
<1>1. {m \in moves : m.at <= now} = moves
  BY DEF HoldingsInv, MovesOK
<1>2. In = MovedBy("in", now) /\ Out = MovedBy("out", now)
  BY <1>1 DEF MovedBy, In, Out
<1> QED BY <1>2, SumsOfMoves, SumsOfDays DEF HoldingsInv

LEMMA MoveOffers == ASSUME HoldingsInv, Chronicle, OfferOK, Move PROVE OfferOK'
<1>1. PICK route \in Routes, amount \in Amounts :
        /\ moves' = moves \cup {[id |-> now', dir |-> route[1], amount |-> amount, at |-> now',
                              to |-> route[2],
                              offered |-> route[2] = "custodian" /\ amount <= offer]}
        /\ offer' = IF route[1] = "out" THEN 0 ELSE offer
  BY DEF Move
<1>2. PICK m : /\ m = [id |-> now', dir |-> route[1], amount |-> amount, at |-> now',
                       to |-> route[2],
                       offered |-> route[2] = "custodian" /\ amount <= offer]
               /\ moves' = moves \cup {m}
  BY <1>1
<1>3. now \in Nat /\ now' = now + 1 /\ terms' = terms /\ days' = days /\ Account
  BY DEF HoldingsInv, Move
<1>4. amount \in Nat /\ amount > 0
  BY HoldingsAssumption
<1>5. /\ m.at = now + 1 /\ m.amount = amount /\ m.dir = route[1]
      /\ m.offered => m.to = "custodian" /\ amount <= offer
      /\ m.to = route[2]
  BY <1>2, <1>3
<1>6. m.to = "custodian" => m.dir = "out"
  <2>1. route \in {<<"in", "other">>, <<"out", "other">>, <<"out", "custodian">>, <<"sale", "other">>}
    BY HoldingsAssumption
  <2>2. route[2] = "custodian" => route[1] = "out"
    BY <2>1
  <2> QED BY <1>5, <2>2
<1>7. \A v \in moves : v.at \in 1..now /\ v.amount \in Nat
  BY DEF HoldingsInv, MovesOK, MoveOK
<1>8. m \notin moves /\ IsFiniteSet(moves)
  BY <1>3, <1>5, <1>7 DEF HoldingsInv, MovesOK
<1>9. ASSUME NEW dir
      PROVE  SumOf(moves', dir) = SumOf(moves, dir) + (IF m.dir = dir THEN amount ELSE 0)
  BY <1>2, <1>4, <1>5, <1>7, <1>8, MovesAdd
<1>10. PICK in, out, in2, out2, credit, t :
         /\ in = In /\ out = Out /\ in2 = SumOf(moves', "in") /\ out2 = SumOf(moves', "out")
         /\ credit = Credited /\ t = Target
  OBVIOUS
<1>11. in \in Nat /\ out \in Nat /\ credit \in Nat /\ t \in Nat /\ offer \in Nat
  BY <1>10, SumsTyped, HoldingsAssumption DEF OfferOK
<1>12. /\ in2 = in + (IF m.dir = "in" THEN amount ELSE 0)
       /\ out2 = out + (IF m.dir = "out" THEN amount ELSE 0)
  BY <1>9, <1>10 DEF In, Out
<1>13. offer' = IF m.dir = "out" THEN 0 ELSE offer
  BY <1>1, <1>5
<1>14. offer' \in Nat
  BY <1>11, <1>13
<1>15. \A v \in moves' : v.offered => ToCustodian(v)
  BY <1>2, <1>5, <1>6 DEF OfferOK, ToCustodian
<1>16. ASSUME \A v \in moves' : v.dir = "in" \/ v.offered
       PROVE  /\ offer' > 0 => Monus(out2, in2) + offer' + t <= credit
              /\ out2 > in2 => out2 - in2 + t <= credit
  <2>1. \A v \in moves : v.dir = "in" \/ v.offered
    BY <1>2, <1>16
  <2>2. /\ offer > 0 => Monus(out, in) + offer + t <= credit
        /\ out > in => out - in + t <= credit
    BY <1>10, <2>1 DEF OfferOK, Keeps
  <2>3. CASE m.dir = "in"
    <3>1. in2 = in + amount /\ out2 = out /\ offer' = offer
      BY <1>11, <1>12, <1>13, <2>3
    <3> QED BY <1>4, <1>11, <2>2, <3>1 DEF Monus
  <2>4. CASE m.dir # "in"
    <3>1. m.offered
      BY <1>2, <1>16, <2>4
    <3>2. m.dir = "out" /\ amount <= offer
      BY <1>5, <1>6, <3>1
    <3>3. in2 = in /\ out2 = out + amount /\ offer' = 0
      BY <1>11, <1>12, <1>13, <3>2
    <3> QED BY <1>4, <1>11, <2>2, <3>2, <3>3 DEF Monus
  <2> QED BY <2>3, <2>4
<1>17. Keeps'
  <2>1. Credited' = credit
    BY <1>3, <1>10 DEF Credited
  <2>2. Out' = out2 /\ In' = in2
    BY <1>10 DEF Out, In
  <2>3. Target = t
    BY <1>10
  <2> QED BY <1>16, <2>1, <2>2, <2>3 DEF Keeps
<1>18. ASSUME \A v \in moves' : v.offered, NEW o \in moves'
       PROVE  SumOf({v \in moves' : v.at <= o.at}, "out") <= CreditsOf(days, RowedBy(days, o.at))
  <2>1. CASE o \in moves
    <3>1. {v \in moves' : v.at <= o.at} = {v \in moves : v.at <= o.at}
      BY <1>2, <1>3, <1>5, <1>7, <2>1
    <3>2. \A v \in moves : v.offered
      BY <1>2, <1>18
    <3> QED BY <2>1, <3>1, <3>2 DEF OfferOK, Booked
  <2>2. CASE o = m
    <3>1. {v \in moves' : v.at <= o.at} = moves'
      BY <1>2, <1>3, <1>5, <1>7, <2>2
    <3>2. \A v \in moves' : v.dir = "out"
      BY <1>15, <1>18 DEF ToCustodian
    <3>3. in = 0
      <4>1. \A v \in moves : v.dir # "in"
        BY <1>2, <3>2
      <4> QED BY <1>10, <4>1, SumNone DEF In
    <3>4. m.dir = "out" /\ amount <= offer
      BY <1>2, <1>5, <1>18, <3>2
    <3>5. out2 = out + amount
      BY <1>11, <1>12, <3>4
    <3>6. offer > 0 => Monus(out, in) + offer + t <= credit
      BY <1>2, <1>10, <1>18 DEF OfferOK, Keeps
    <3>7. out2 <= credit
      BY <1>4, <1>11, <3>3, <3>4, <3>5, <3>6 DEF Monus
    <3>8. RowedBy(days, o.at) = Rowed(days)
      <4>1. \A j \in DOMAIN days : days[j].w.lastFill <= now + 1
        <5>1. SUFFICES ASSUME NEW j \in DOMAIN days PROVE days[j].w.lastFill <= now + 1
          OBVIOUS
        <5>2. PICK d : d = days[j] /\ Dated(d, j, now, moves)
          BY <1>3 DEF Chronicle
        <5>3. d.b.decided \in Nat /\ d.w.last \in d.b.decided..now /\ d.w.lastFill \in 0..d.w.last
          BY <1>3, <5>2 DEF Dated
        <5> QED BY <1>3, <5>2, <5>3
      <4>2. o.at = now + 1
        BY <1>5, <2>2
      <4> QED BY <4>1, <4>2 DEF RowedBy, Rowed
    <3>9. CreditsOf(days, RowedBy(days, o.at)) = credit
      BY <1>10, <3>8, DaysListed DEF HoldingsInv
    <3> QED BY <1>10, <3>1, <3>7, <3>9
  <2> QED BY <1>2, <2>1, <2>2
<1>19. Booked'
  BY <1>3, <1>18 DEF Booked
<1>20. Account'
  BY <1>3 DEF Account
<1> QED BY <1>14, <1>15, <1>17, <1>19, <1>20 DEF OfferOK

\* Of a step that moves no HYPE, with what it offers.
OfferFits == offer' \in Nat /\ (offer' > 0 => Monus(Out, In) + offer' + Target <= Credited)

LEMMA StillOffers ==
  ASSUME HoldingsInv, DaysOK', OfferOK, Account, terms' = terms, moves' = moves, RowsStay(days, days'),
         OfferFits \/ offer' = offer
  PROVE  OfferOK'
<1>1. PICK credit, credit2 : credit = Credited /\ credit2 = Credited'
  OBVIOUS
<1>2. ListOK(days) /\ ListOK(days') /\ credit = CreditsOf(days, Rowed(days)) /\ credit2 = CreditsOf(days', Rowed(days'))
  <2>1. ListOK(days) /\ credit = CreditsOf(days, Rowed(days))
    BY <1>1, DaysListed DEF HoldingsInv
  <2>2. PICK n \in Nat : DOMAIN days' = 1..n
    BY DEF DaysOK
  <2>3. \A j \in Rowed(days') : days'[j].row[1] \in Nat
    BY DEF DaysOK, DayOK, DayAmounts, Rowed
  <2>4. ListOK(days')
    BY <2>2, <2>3 DEF ListOK
  <2>5. credit2 = CreditsOf(days', Rowed(days'))
    BY <1>1 DEF Credited, CreditsOf, Rowed
  <2> QED BY <2>1, <2>4, <2>5
<1>3. credit <= credit2 /\ credit \in Nat /\ credit2 \in Nat
  <2>1. Rowed(days) \subseteq Rowed(days')
    BY RowedStays
  <2> QED BY <1>2, <2>1, CreditsGrow
<1>4. PICK in, out, t : in = In /\ out = Out /\ t = Target /\ In' = in /\ Out' = out
  BY DEF In, Out
<1>5. in \in Nat /\ out \in Nat /\ t \in Nat
  BY <1>4, SumsTyped, HoldingsAssumption
<1>6. offer' \in Nat
  BY DEF OfferOK, OfferFits
<1>7. Keeps'
  <2>1. SUFFICES ASSUME \A v \in moves : v.dir = "in" \/ v.offered
                 PROVE  /\ offer' > 0 => Monus(out, in) + offer' + t <= credit2
                        /\ out > in => out - in + t <= credit2
    BY <1>1, <1>4 DEF Keeps
  <2>2. /\ offer > 0 => Monus(out, in) + offer + t <= credit
        /\ out > in => out - in + t <= credit
    BY <1>1, <1>4, <2>1 DEF OfferOK, Keeps
  <2>3. offer' > 0 => Monus(out, in) + offer' + t <= credit
    BY <1>1, <1>4, <2>2 DEF OfferFits
  <2>4. Monus(out, in) \in Nat
    BY <1>5 DEF Monus
  <2> QED BY <1>3, <1>5, <1>6, <2>2, <2>3, <2>4
<1>8. Booked'
  <2>1. SUFFICES ASSUME \A v \in moves : v.offered, NEW o \in moves
                 PROVE  SumOf({v \in moves : v.at <= o.at}, "out") <= CreditsOf(days', RowedBy(days', o.at))
    BY DEF Booked
  <2>2. PICK S, T : S = RowedBy(days, o.at) /\ T = RowedBy(days', o.at)
    OBVIOUS
  <2>3. S \subseteq T /\ S \subseteq Rowed(days) /\ T \subseteq Rowed(days')
    BY <2>2, RowedStays DEF RowedBy
  <2>4. CreditsOf(days, S) <= CreditsOf(days', T) /\ CreditsOf(days, S) \in Nat /\ CreditsOf(days', T) \in Nat
    BY <1>2, <2>3, CreditsGrow
  <2>5. PICK s : s = SumOf({v \in moves : v.at <= o.at}, "out")
    OBVIOUS
  <2>6. s <= CreditsOf(days, S)
    BY <2>1, <2>2, <2>5 DEF OfferOK, Booked
  <2>7. s \in Nat
    BY <2>5, SumsOfMoves DEF MovedBy, HoldingsInv
  <2> QED BY <2>2, <2>4, <2>5, <2>6, <2>7
<1> QED BY <1>6, <1>7, <1>8 DEF OfferOK, Account

LEMMA FinishOffers ==
  ASSUME HoldingsInv, FinishCycle
  PROVE  OfferFits \/ offer' = offer
<1>1. PICK asOf \in cyc.asked..now, complete \in BOOLEAN :
        \/ Halt(IF complete THEN Scan(ScanStart, now) ELSE {}, asOf)
        \/ Commit(IF complete THEN Scan(ScanStart, now) ELSE {}, asOf, complete)
  BY DEF FinishCycle
<1>2. PICK seen : seen = IF complete THEN Scan(ScanStart, now) ELSE {}
  OBVIOUS
<1>3. RowsOK(seen)
  <2>1. CASE complete
    BY <1>2, <2>1, ScanOK DEF HoldingsInv
  <2>2. CASE ~complete
    BY <1>2, <2>2, FS_EmptySet DEF RowsOK
  <2> QED BY <2>1, <2>2
<1>4. Publish(seen, asOf) \/ offer' = offer
  BY <1>1, <1>2 DEF Halt, Commit
<1> QED BY <1>3, <1>4, PublishKeeps DEF OfferFits

LEMMA OffersStart == ASSUME Init PROVE OfferOK
<1>1. moves = {} /\ offer = 0 /\ cyc.phase = "idle"
  BY DEF Init, Idle
<1>2. In = 0 /\ Out = 0
  BY <1>1, SumNone DEF In, Out
<1> QED BY <1>1, <1>2 DEF OfferOK, Keeps, Booked

LEMMA OfferStep ==
  ASSUME HoldingsInv, Chronicle, FillsKnown, OfferOK, [Next]_vars
  PROVE  FillsKnown' /\ OfferOK'
<1>0. HoldingsInv'
  BY StepKeeps
<1>1. CASE Account
  <2>1. FillsKnown' /\ RowsStay(days, days')
    BY <1>1, DaysStep
  <2>2. CASE Move
    BY <2>1, <2>2, MoveOffers
  <2>3. CASE FinishCycle
    <3>1. terms' = terms /\ moves' = moves
      BY <2>3 DEF FinishCycle
    <3> QED BY <1>0, <1>1, <2>1, <2>3, <3>1, FinishOffers, StillOffers DEF HoldingsInv
  <2>4. CASE ~Move /\ ~FinishCycle
    <3>1. terms' = terms /\ moves' = moves /\ offer' = offer
      BY ZenonT(60), <2>4 DEF Next, vars, StartNaming, Execute, Reconcile, Resolve, Settle, Backfill, StartCycle,
                  PrepareDecision, Tick, LibraryCall
    <3> QED BY Zenon, <1>0, <1>1, <2>1, <3>1, StillOffers DEF HoldingsInv
  <2> QED BY <2>1, <2>2, <2>3, <2>4
<1>2. CASE ~Account
  <2>1. moves = {} /\ offer = 0 /\ cyc.phase = "idle"
    BY <1>2 DEF OfferOK
  <2>2. terms' = terms /\ moves' = moves /\ offer' = offer /\ cyc' = cyc
    BY Zenon, <1>2, <2>1 DEF Next, vars, Move, StartNaming, Execute, Reconcile, Resolve, Settle, Backfill,
                      StartCycle, FinishCycle, PrepareDecision, Tick, LibraryCall
  <2>3. In' = 0 /\ Out' = 0
    BY <2>1, <2>2, SumNone DEF In, Out
  <2>4. ~Account'
    BY <1>2, <2>2 DEF Account
  <2> QED BY <2>1, <2>2, <2>3, <2>4 DEF OfferOK, Keeps, Booked, FillsKnown
<1> QED BY <1>1, <1>2

\* Every status offers no more than may leave above the target, every movement
\* made on an offer goes to the custodian, and what left by a time had rows'
\* credits before it; a decision that heard of no fill was credited nothing.
THEOREM OfferKept == Spec => [](FillsKnown /\ OfferOK)
<1>1. Init => FillsKnown /\ OfferOK
  BY FillsStart, OffersStart
<1>2. HoldingsInv /\ Chronicle /\ (FillsKnown /\ OfferOK) /\ [Next]_vars => (FillsKnown /\ OfferOK)'
  BY OfferStep
<1> QED BY <1>1, <1>2, HoldingsSound, ChronicleKept, PTL DEF Spec

\* The buffer stays.
LEMMA LeavesBuffer == ASSUME HoldingsInv, OfferOK PROVE BufferLeft
<1>1. SUFFICES ASSUME Complete, \A m \in moves : m.dir = "in" \/ m.offered
               PROVE  Held(Attributed(moves, Credited, TRUE)) >= Lesser(Target, Credited)
  BY DEF BufferLeft
<1>2. PICK in, out, cust, credit, t, a, yes :
        /\ in = In /\ out = Out /\ cust = SumOf(CustodianOutflows(moves), "out")
        /\ credit = Credited /\ t = Target /\ yes = TRUE /\ a = Attributed(moves, credit, TRUE)
  BY Zenon
<1>3. in \in Nat /\ out \in Nat /\ credit \in Nat /\ t \in Nat
  BY <1>2, SumsTyped, HoldingsAssumption
<1>4. a = [credited |-> credit, complete |-> yes, inflow |-> in, outflow |-> out, custodian |-> cust]
  BY <1>2 DEF Attributed, In, Out
<1>5. out > in => out - in + t <= credit
  BY <1>1, <1>2 DEF OfferOK, Keeps
<1>6. TransferredOut(a) = Lesser(Monus(out, in), credit)
  BY <1>4 DEF TransferredOut
<1>7. Held(a) = Monus(credit, Lesser(Monus(out, in), credit))
  BY <1>4, <1>6 DEF Held
<1>8. Monus(credit, Lesser(Monus(out, in), credit)) >= Lesser(t, credit)
  BY <1>3, <1>5 DEF Monus, Lesser
<1> QED BY <1>2, <1>7, <1>8

\* A sum with zeros added.
Padded(f, D, h, E) ==
  /\ E \subseteq D /\ f \in [D -> Int] /\ h \in [E -> Int]
  /\ \A x \in E : f[x] = h[x]
  /\ \A x \in D \ E : f[x] = 0

LEMMA SumPadded ==
  ASSUME NEW D, IsFiniteSet(D), NEW E, NEW f, NEW h, Padded(f, D, h, E)
  PROVE  SumFunction(f) = SumFunction(h)
<1>1. E \in SUBSET D
  BY DEF Padded
<1> QED BY <1>1, SumPad DEF Padded

\* With the books complete, what rows credit by a time is in lots by then.
LEMMA BookedCovers ==
  ASSUME HoldingsInv, Chronicle, FillsKnown, Settled, NEW t \in Nat
  PROVE  CreditsOf(days, RowedBy(days, t))
           <= SumFunction([i \in {j \in DOMAIN days : Lot(days[j].w).from <= t} |-> days[i].w.credited])
<1>1. PICK n \in Nat : DOMAIN days = 1..n
  BY DEF HoldingsInv, DaysOK
<1>2. PICK D, E : D = {j \in DOMAIN days : Lot(days[j].w).from <= t} /\ E = RowedBy(days, t)
  OBVIOUS
<1>3. PICK f, h : /\ f = [i \in D |-> days[i].w.credited] /\ h = [i \in E |-> days[i].row[1]]
  OBVIOUS
<1>4. PICK p, q : /\ p = [i \in 1..n |-> IF i \in D THEN days[i].w.credited ELSE 0]
                  /\ q = [i \in 1..n |-> IF i \in E THEN days[i].row[1] ELSE 0]
  OBVIOUS
<1>5. ASSUME NEW i \in 1..n
      PROVE  /\ days[i].w.credited \in Nat
             /\ i \in E => days[i].row[1] = days[i].w.credited /\ (i \in D \/ days[i].w.credited = 0)
  <2>1. PICK d : d = days[i] /\ DayOK(d) /\ Dated(d, i, now, moves) /\ DayFilled(d)
                 /\ d.w.stage = "complete" /\ d.row # <<>>
    BY <1>1 DEF HoldingsInv, DaysOK, Chronicle, FillsKnown, Settled
  <2>2. PICK lot : lot = Lot(d.w)
    OBVIOUS
  <2>3. d.w.credited \in Nat
    <3>1. i \in Nat /\ now \in Nat
      BY DEF HoldingsInv
    <3> QED BY <2>1, <2>2, <3>1, DayStory
  <2>4. d.row[1] = d.w.credited
    BY <2>1 DEF Dated
  <2>5. lot.from = IF d.w.lastFill > 0 THEN d.w.lastFill ELSE d.w.last
    BY <2>2 DEF Lot
  <2>6. d.w.lastFill \in Nat
    <3>1. now \in Nat
      BY DEF HoldingsInv
    <3>2. d.w.last \in Nat /\ d.w.lastFill \in 0..d.w.last
      BY <2>1, <3>1 DEF Dated
    <3> QED BY <3>2
  <2>7. d.w.lastFill = 0 => d.w.credited = 0 \/ d.w.last = 0
    BY <2>1 DEF DayFilled, NoFill
  <2>8. i \in E => d.w.lastFill <= t
    BY <1>2, <2>1 DEF RowedBy
  <2>9. i \in E => lot.from <= t \/ d.w.credited = 0
    BY <2>5, <2>6, <2>7, <2>8
  <2> QED BY <1>1, <1>2, <2>1, <2>2, <2>3, <2>4, <2>9
<1>6. IsFiniteSet(1..n) /\ D \subseteq 1..n /\ E \subseteq 1..n
  <2>1. IsFiniteSet(1..n)
    BY FS_Interval
  <2>2. D \subseteq 1..n /\ E \subseteq 1..n
    BY <1>1, <1>2 DEF RowedBy, Rowed
  <2> QED BY <2>1, <2>2
<1>7. ASSUME NEW i \in 1..n
      PROVE  /\ p[i] \in Int /\ q[i] \in Int /\ q[i] <= p[i]
             /\ i \in D => f[i] \in Int /\ p[i] = f[i]
             /\ i \in E => h[i] \in Int /\ q[i] = h[i]
             /\ i \notin D => p[i] = 0
             /\ i \notin E => q[i] = 0
  <2>1. /\ p[i] = IF i \in D THEN days[i].w.credited ELSE 0
        /\ q[i] = IF i \in E THEN days[i].row[1] ELSE 0
    BY <1>4
  <2>2. i \in D => f[i] = days[i].w.credited
    BY <1>3
  <2>3. i \in E => h[i] = days[i].row[1]
    BY <1>3
  <2> QED BY <1>5, <2>1, <2>2, <2>3
<1>8. SumFunction(p) = SumFunction(f)
  <2>1. p \in [1..n -> Int] /\ f \in [D -> Int]
    BY <1>3, <1>4, <1>6, <1>7
  <2>2. Padded(p, 1..n, f, D)
    BY <1>6, <1>7, <2>1 DEF Padded
  <2> QED BY <1>6, <2>2, SumPadded
<1>9. SumFunction(q) = SumFunction(h)
  <2>1. q \in [1..n -> Int] /\ h \in [E -> Int]
    BY <1>3, <1>4, <1>6, <1>7
  <2>2. Padded(q, 1..n, h, E)
    BY <1>6, <1>7, <2>1 DEF Padded
  <2> QED BY <1>6, <2>2, SumPadded
<1>10. SumFunction(q) <= SumFunction(p)
  <2>1. p \in [1..n -> Int] /\ q \in [1..n -> Int] /\ \A i \in 1..n : q[i] <= p[i]
    BY <1>4, <1>7
  <2> QED BY <1>6, <2>1, SumMonotone
<1> QED BY <1>2, <1>3, <1>8, <1>9, <1>10 DEF CreditsOf

\* A part of a transfer that evidence bound is no more than the transfer.
LEMMA BoundOfIs ==
  ASSUME HoldingsInv, Chronicle, Settled, NEW o \in CustodianOutflows(moves)
  PROVE  BoundOf(Flows, o.id) \in Nat /\ BoundOf(Flows, o.id) <= o.amount
<1>1. PICK C : C = CustodianOutflows(recorded)
  OBVIOUS
<1>2. OutOK(C) /\ C = CustodianOutflows(moves)
  BY <1>1, SettledOut
<1>3. PICK outflow : outflow = ById(C)
  OBVIOUS
<1>4. /\ SentOK(outflow)
      /\ o.id \in DOMAIN outflow /\ outflow[o.id] = o
  BY <1>2, <1>3, ByIdOK
<1>5. PICK n \in Nat : n = Len(days) /\ DOMAIN days = 1..n
  BY DEF HoldingsInv, DaysOK
<1>14. PICK flows : flows = Flows
  OBVIOUS
<1>15. flows = [i \in 1..n |-> days[i].w]
  BY <1>5, <1>14 DEF Flows
<1>13. flows = Flows /\ DOMAIN flows = 1..n /\ \A i \in 1..n : flows[i] = days[i].w
  BY <1>14, <1>15
<1>6. PICK lots, g, credited, start, last :
        /\ lots = [i \in 1..n |-> Lot(days[i].w)] /\ g = [i \in 1..n |-> days[i].w.bound]
        /\ credited = [i \in 1..n |-> days[i].w.credited]
        /\ start = [i \in 1..n |-> days[i].b.decided] /\ last = [i \in 1..n |-> days[i].w.last]
  OBVIOUS
<1>7. StoryOK(n, lots, g, credited, start, last, outflow)
  BY <1>1, <1>3, <1>5, <1>6, SettledStory
<1>8. PICK bound : bound = [x \in DOMAIN outflow |-> Across(g, 1..n, x)]
  OBVIOUS
<1>9. OutflowsOK(outflow, bound)
  BY <1>4, <1>7, <1>8, BoundByOne
<1>10. bound[o.id] \in 0..o.amount
  BY <1>4, <1>9 DEF OutflowsOK
<1>11. bound[o.id] = BoundOf(Flows, o.id)
  <2>1. PICK x : x = o.id /\ x \in DOMAIN outflow
    BY <1>4
  <2>3. PICK D, E : D = {j \in 1..n : x \in DOMAIN g[j]} /\ E = {j \in DOMAIN flows : x \in DOMAIN flows[j].bound}
    OBVIOUS
  <2>4. D = E /\ \A i \in D : g[i][x] = flows[i].bound[x]
    BY <1>6, <1>13, <2>3
  <2>5. [i \in D |-> g[i][x]] = [i \in E |-> flows[i].bound[x]]
    BY <2>4
  <2> QED BY <1>8, <1>13, <2>1, <2>3, <2>5 DEF Across, BoundOf
<1>12. o.amount \in Nat
  BY <1>2 DEF OutOK, MoveOK
<1> QED BY <1>10, <1>11, <1>12

\* No order is refused for what the status offered.
LEMMA LeavesNoGap ==
  ASSUME HoldingsInv, Chronicle, FillsKnown, OfferOK, HistoryExact
  PROVE  NoGapLeft
<1>1. SUFFICES ASSUME Settled, \A m \in moves : m.offered PROVE History.answer # "gap"
  BY DEF NoGapLeft
<1>2. PICK C : C = CustodianOutflows(moves)
  OBVIOUS
<1>3. C = moves /\ \A m \in moves : m.dir = "out"
  BY <1>1, <1>2 DEF OfferOK, ToCustodian, CustodianOutflows
<1>4. recorded = moves
  BY <1>1, <1>3 DEF Settled
<1>5. Account /\ now \in Nat
  BY <1>1 DEF Settled, HoldingsInv
<1>6. PICK out, credit, t : out = Out /\ credit = Credited /\ t = Target
  OBVIOUS
<1>7. out \in Nat /\ credit \in Nat /\ t \in Nat
  BY <1>6, SumsTyped, HoldingsAssumption
<1>8. In = 0 /\ SumOf(moves, "sale") = 0
  <2>1. \A v \in moves : v.dir # "in" /\ v.dir # "sale"
    BY <1>3
  <2> QED BY <2>1, SumNone DEF In
<1>9. out > 0 => out + t <= credit
  <2>1. Out > In => Out - In + Target <= Credited
    BY <1>1 DEF OfferOK, Keeps
  <2> QED BY <1>6, <1>7, <1>8, <2>1
<1>10. PICK ok : ok = Complete /\ ok \in BOOLEAN
  BY DEF Complete
<1>11. PICK books : books = Books
  OBVIOUS
<1>12. books = [credited |-> credit, complete |-> ok, inflow |-> 0, outflow |-> out, custodian |-> out]
  <2>1. SumOf(recorded, "in") = 0 /\ SumOf(recorded, "out") = out
        /\ SumOf(CustodianOutflows(recorded), "out") = out
    BY <1>2, <1>3, <1>4, <1>6, <1>8 DEF In, Out
  <2> QED BY <1>6, <1>10, <1>11, <2>1 DEF Books, Attributed
<1>13. ok = TRUE
  BY <1>1, <1>10, SettledBought
<1>14. CustodianCredit(books) = out
  <2>1. TransferredOut(books) = Lesser(Monus(out, 0), credit)
    BY <1>12 DEF TransferredOut
  <2>2. TransferredOut(books) = out
    BY <1>7, <1>9, <2>1 DEF Lesser, Monus
  <2>3. TransferredToCustodian(books) = Monus(out, Monus(out, out))
    BY <1>12, <2>2 DEF TransferredToCustodian
  <2>4. Monus(out, Monus(out, out)) = out
    BY <1>7 DEF Monus
  <2>5. books.complete = TRUE
    BY <1>12, <1>13
  <2> QED BY <2>3, <2>4, <2>5 DEF CustodianCredit
<1>15. ASSUME NEW o \in C
       PROVE  SumOf({m \in C : m.at <= o.at}, "out")
                <= SumFunction([i \in {j \in DOMAIN days : Lot(days[j].w).from <= o.at} |-> days[i].w.credited])
  <2>1. o.at \in Nat
    BY <1>3, <1>5 DEF HoldingsInv, MovesOK
  <2>2. PICK s, c, l :
          /\ s = SumOf({m \in moves : m.at <= o.at}, "out")
          /\ c = CreditsOf(days, RowedBy(days, o.at))
          /\ l = SumFunction([i \in {j \in DOMAIN days : Lot(days[j].w).from <= o.at} |-> days[i].w.credited])
    OBVIOUS
  <2>3. s <= c
    BY <1>1, <1>3, <2>2 DEF OfferOK, Booked
  <2>4. c <= l
    BY <1>1, <2>1, <2>2, BookedCovers
  <2>5. s \in Nat
    BY <2>2, SumsOfMoves DEF MovedBy, HoldingsInv
  <2>6. c \in Nat /\ l \in Int
    <3>1. c \in Nat
      <4>1. RowsStay(days, days)
        BY DEF RowsStay, KeepsRow
      <4>2. ListOK(days) /\ RowedBy(days, o.at) \subseteq Rowed(days)
        BY DaysListed DEF HoldingsInv, RowedBy
      <4> QED BY <2>2, <4>1, <4>2, CreditsGrow
    <3>2. PICK D, f : /\ D = {j \in DOMAIN days : Lot(days[j].w).from <= o.at}
                      /\ f = [i \in D |-> days[i].w.credited]
      OBVIOUS
    <3>3. IsFiniteSet(D)
      <4>1. PICK n \in Nat : DOMAIN days = 1..n
        BY DEF HoldingsInv, DaysOK
      <4>2. IsFiniteSet(1..n)
        BY FS_Interval
      <4> QED BY <3>2, <4>1, <4>2, FS_Subset
    <3>4. ASSUME NEW i \in D PROVE days[i].w.credited \in Int
      <4>1. PICK d : d = days[i] /\ DayOK(d) /\ Dated(d, i, now, moves) /\ d.w.stage = "complete" /\ i \in Nat
        <5>1. i \in DOMAIN days /\ i \in Nat
          BY <3>2 DEF HoldingsInv, DaysOK
        <5> QED BY <1>1, <1>5, <5>1 DEF HoldingsInv, DaysOK, Chronicle, Settled
      <4>2. PICK lot : lot = Lot(d.w)
        OBVIOUS
      <4> QED BY <1>5, <4>1, <4>2, DayStory
    <3>5. f \in [D -> Int]
      BY <3>2, <3>4
    <3> QED BY <2>2, <3>1, <3>2, <3>3, <3>5, SumType
  <2> QED BY <1>2, <1>3, <2>2, <2>3, <2>4, <2>5, <2>6
<1>16. Covered
  BY <1>2, <1>15 DEF Covered
<1>17. ASSUME NEW o \in C
       PROVE  SumOf({m \in C : m.at < o.at}, "out") + BoundOf(Flows, o.id) <= out
  <2>1. PICK b : b = BoundOf(Flows, o.id) /\ b \in Nat /\ b <= o.amount
    BY <1>1, <1>2, BoundOfIs
  <2>2. PICK V, W : V = {m \in C : m.at < o.at} /\ W = V \cup {o}
    OBVIOUS
  <2>3. IsFiniteSet(V) /\ (\A v \in V : v.amount \in Nat) /\ o.amount \in Nat /\ o \notin V /\ o.dir = "out"
    <3>1. \A v \in moves : v.amount \in Nat /\ v.at \in Int
      BY <1>5 DEF HoldingsInv, MovesOK, MoveOK
    <3>2. V \subseteq moves /\ IsFiniteSet(moves)
      BY <1>3, <2>2 DEF HoldingsInv, MovesOK
    <3>3. IsFiniteSet(V)
      BY <3>2, FS_Subset
    <3> QED BY <1>3, <2>2, <3>1, <3>2, <3>3
  <2>4. SumOf(W, "out") = SumOf(V, "out") + o.amount /\ SumOf(V, "out") \in Nat
    <3>1. PICK dir : dir = "out"
      OBVIOUS
    <3>2. /\ SumOf(V, dir) \in Nat
          /\ SumOf(W, dir) = SumOf(V, dir) + (IF o.dir = dir THEN o.amount ELSE 0)
      BY <2>2, <2>3, MovesAdd
    <3> QED BY <2>3, <3>1, <3>2
  <2>5. SumOf(W, "out") <= Out
    <3>1. PICK D, E : D = {v \in moves : v.dir = "out"} /\ E = {v \in W : v.dir = "out"}
      OBVIOUS
    <3>2. PICK f, h : f = [m \in D |-> m.amount] /\ h = [m \in E |-> m.amount]
      OBVIOUS
    <3>3. W \subseteq moves
      BY <1>3, <2>2
    <3>4. IsFiniteSet(D) /\ E \in SUBSET D
      BY <3>1, <3>3, FS_Subset DEF HoldingsInv, MovesOK
    <3>5. f \in [D -> Nat] /\ h \in [E -> Nat] /\ \A x \in E : h[x] = f[x]
      BY <3>1, <3>2, <3>4 DEF HoldingsInv, MovesOK, MoveOK
    <3>6. SumFunction(h) <= SumFunction(f)
      BY <3>4, <3>5, SumPart
    <3> QED BY <3>1, <3>2, <3>6 DEF SumOf, Out
  <2> QED BY <1>6, <1>7, <2>1, <2>2, <2>3, <2>4, <2>5
<1>18. BoundWithinCap
  BY <1>2, <1>11, <1>14, <1>17 DEF BoundWithinCap
<1>19. books.inflow = 0 /\ books.outflow = out /\ books.custodian = out
  BY <1>12
<1>20. Monus(books.outflow, books.inflow) <= Credited
  BY <1>6, <1>7, <1>9, <1>19 DEF Monus
<1>21. History.answer = "gap" <=> Strayed > Foreign
  BY <1>1, <1>11, <1>16, <1>18, <1>20 DEF HistoryExact
<1>22. Strayed = 0
  BY <1>7, <1>8, <1>11, <1>19 DEF Strayed
<1>23. Foreign \in Nat
  <2>1. terms.foreign \in Nat
    BY HoldingsAssumption DEF HoldingsInv
  <2> QED BY <1>7, <1>11, <1>19, <2>1 DEF Foreign, Monus
<1> QED BY <1>21, <1>22, <1>23

\* What a reported shortfall says.
LEMMA ShortfallSays ==
  ASSUME NEW seen, NEW asOf, NEW a, a = Claim(seen, asOf), NEW k,
         StakingShortfall(Observed(seen, asOf, <<k>>))
  PROVE  TransferredToCustodian(a) > k
<1>1. PICK at : at = Attribution(a, Target)
  OBVIOUS
<1>2. PICK spot : spot = Spot(cyc.asked)
  OBVIOUS
<1>3. PICK held, out, sent, eligible :
        /\ held = Held(a) /\ out = TransferredOut(a) /\ sent = TransferredToCustodian(a)
        /\ eligible = EligibleForTransfer(a, Target)
  OBVIOUS
<1>4. PICK h, s : h = HoldingsReasons(spot, at) /\ s = StakingReasons(<<k>>, at)
  OBVIOUS
<1>5. PICK st : st = Status(spot, <<k>>, at)
  OBVIOUS
<1>6. st.reasons = h \cup s
  BY <1>4, <1>5 DEF Status
<1>7. "staking shortfall" \in st.reasons
  BY Zenon, <1>1, <1>2, <1>5 DEF StakingShortfall, Observed
<1>8. "staking shortfall" \notin h
  BY Zenon, <1>4 DEF HoldingsReasons
<1>9. "staking shortfall" \in s
  BY Zenon, <1>6, <1>7, <1>8
<1>10. at # <<>> /\ at[1].sent > k
  BY Zenon, <1>4, <1>9 DEF StakingReasons
<1>11. at = <<[hype |-> held, out |-> out, sent |-> sent, eligible |-> eligible]>>
  BY <1>1, <1>3, <1>10 DEF Attribution
<1>12. at[1].sent = sent
  BY <1>11
<1> QED BY <1>3, <1>10, <1>12

\* A sum over two parts.
SumParts(f, D, a, E, b, F) ==
  /\ E \subseteq D /\ F = D \ E
  /\ f \in [D -> Int] /\ a = [x \in E |-> f[x]] /\ b = [x \in F |-> f[x]]

LEMMA SumBoth ==
  ASSUME NEW D, IsFiniteSet(D), NEW f, NEW a, NEW E, NEW b, NEW F, SumParts(f, D, a, E, b, F)
  PROVE  /\ SumFunction(f) = SumFunction(a) + SumFunction(b)
         /\ SumFunction(a) \in Int /\ SumFunction(b) \in Int
<1>1. E \in SUBSET D /\ F \in SUBSET D /\ F = D \ E
  BY DEF SumParts
<1>2. a \in [E -> Int] /\ b \in [F -> Int] /\ f \in [D -> Int]
  BY DEF SumParts
<1>3. PICK p, q : p = [x \in D |-> IF x \in E THEN f[x] ELSE 0] /\ q = [x \in D |-> IF x \in F THEN f[x] ELSE 0]
  OBVIOUS
<1>4. p \in [D -> Int] /\ q \in [D -> Int] /\ \A x \in D : f[x] = p[x] + q[x]
  BY <1>1, <1>2, <1>3
<1>5. SumFunction(f) = SumFunction(p) + SumFunction(q)
  BY <1>2, <1>4, SumPlus
<1>7. Padded(p, D, a, E)
  BY <1>2, <1>3, <1>4 DEF Padded, SumParts
<1>8. Padded(q, D, b, F)
  BY <1>1, <1>2, <1>3, <1>4 DEF Padded, SumParts
<1>9. SumFunction(p) = SumFunction(a) /\ SumFunction(q) = SumFunction(b)
  BY <1>7, <1>8, SumPadded
<1>10. IsFiniteSet(E) /\ IsFiniteSet(F)
  BY <1>1, FS_Subset
<1>11. SumFunction(a) \in Int /\ SumFunction(b) \in Int
  BY <1>2, <1>10, SumType
<1> QED BY <1>5, <1>9, <1>11

\* The rows that name the custodian are transfers to it.
LEMMA RowsToCustodian ==
  ASSUME MovesOK, NEW R, RowsOK(R), NEW A, A = {m \in moves : Lists(R, m.id)}
  PROVE  CustodianOutflows(R) \subseteq CustodianOutflows(A)
<1>1. ASSUME NEW r \in R, ToCustodian(r) PROVE r \in A
  <2>1. PICK m \in moves : Shows(r, m)
    BY DEF RowsOK
  <2>2. MoveOK(m)
    BY DEF MovesOK
  <2>3. r.to = "custodian"
    BY <1>1 DEF ToCustodian
  <2>4. r = m
    <3>1. "to" \in DOMAIN m
      BY <2>2 DEF MoveOK
    <3>2. [m EXCEPT !.to = None].to = None
      BY <3>1, <2>2 DEF MoveOK
    <3>3. None # "custodian"
      BY DEF None
    <3> QED BY <2>1, <2>3, <3>2, <3>3 DEF Shows
  <2> QED BY <2>4 DEF Lists
<1> QED BY <1>1 DEF CustodianOutflows

\* A way to tell which movements took the bot's, and what the custodian got of it.
SplitOf(A, out, bots, f, k) ==
  /\ out = {m \in A : m.dir = "out"} /\ f \in Splits(out, bots)
  /\ k = SumFunction([m \in CustodianOutflows(out) |-> f[m]])

\* What a split gives the custodian is no less than what its other part leaves.
LEMMA SplitLeaves ==
  ASSUME MovesOK, NEW A, A \subseteq moves, NEW out, NEW bots \in Nat, NEW f, NEW k,
         SplitOf(A, out, bots, f, k)
  PROVE  /\ k \in Nat
         /\ bots <= k + (SumOf(A, "out") - SumOf(CustodianOutflows(A), "out"))
<1>1. PICK C, F : C = CustodianOutflows(out) /\ F = out \ C
  OBVIOUS
<1>2. IsFiniteSet(out) /\ C \in SUBSET out /\ IsFiniteSet(C) /\ IsFiniteSet(F)
  <2>1. out \subseteq moves /\ IsFiniteSet(moves)
    BY DEF MovesOK, SplitOf
  <2>2. IsFiniteSet(out)
    BY <2>1, FS_Subset
  <2>3. C \in SUBSET out /\ F \in SUBSET out
    BY <1>1 DEF CustodianOutflows
  <2> QED BY <2>2, <2>3, FS_Subset
<1>3. \A m \in out : m.amount \in Nat
  BY DEF MovesOK, MoveOK, SplitOf
<1>4. f \in [out -> Nat] /\ (\A m \in out : f[m] <= m.amount) /\ SumFunction(f) = bots
  BY DEF Splits, SplitOf
<1>5. PICK amt : amt = [m \in out |-> m.amount]
  OBVIOUS
<1>6. PICK g, h : g = [m \in F |-> f[m]] /\ h = [m \in F |-> amt[m]]
  OBVIOUS
<1>7. PICK c, d : c = [m \in C |-> f[m]] /\ d = [m \in C |-> amt[m]]
  OBVIOUS
<1>8. f \in [out -> Int] /\ amt \in [out -> Int]
  BY <1>3, <1>4, <1>5
<1>9. /\ SumFunction(f) = SumFunction(c) + SumFunction(g)
      /\ SumFunction(c) \in Int /\ SumFunction(g) \in Int
  <2>1. SumParts(f, out, c, C, g, F)
    BY <1>1, <1>2, <1>6, <1>7, <1>8 DEF SumParts
  <2> QED BY <1>2, <2>1, SumBoth
<1>10. /\ SumFunction(amt) = SumFunction(d) + SumFunction(h)
       /\ SumFunction(d) \in Int /\ SumFunction(h) \in Int
  <2>1. SumParts(amt, out, d, C, h, F)
    BY <1>1, <1>2, <1>6, <1>7, <1>8 DEF SumParts
  <2> QED BY <1>2, <2>1, SumBoth
<1>11. SumFunction(g) <= SumFunction(h)
  <2>1. g \in [F -> Int] /\ h \in [F -> Int] /\ \A m \in F : g[m] <= h[m]
    BY <1>1, <1>3, <1>4, <1>5, <1>6
  <2> QED BY <1>2, <2>1, SumMonotone
<1>12. SumFunction(c) \in Nat
  <2>1. c \in [C -> Nat]
    BY <1>2, <1>4, <1>7
  <2> QED BY <1>2, <2>1, SumNat
<1>13. SumOf(A, "out") = SumFunction(amt)
  BY <1>5 DEF SumOf, SplitOf
<1>14. SumOf(CustodianOutflows(A), "out") = SumFunction(d)
  <2>1. {v \in CustodianOutflows(A) : v.dir = "out"} = C
    BY <1>1 DEF CustodianOutflows, ToCustodian, SplitOf
  <2>2. [m \in C |-> m.amount] = d
    BY <1>2, <1>5, <1>7
  <2> QED BY <2>1, <2>2 DEF SumOf
<1>15. k = SumFunction(c)
  BY <1>1, <1>7 DEF SplitOf
<1> QED BY <1>4, <1>9, <1>10, <1>11, <1>12, <1>13, <1>14, <1>15

\* A shortfall is real.
LEMMA ShortfallIsReal == ASSUME HoldingsInv PROVE ShortfallReal
<1>1. SUFFICES ASSUME NEW asOf, NEW complete \in BOOLEAN,
                      NEW seen, seen = IF complete THEN Scan(ScanStart, now) ELSE {},
                      NEW counted, counted = {m \in moves : \E r \in Netted(recorded, seen, asOf) : r.id = m.id},
                      NEW out, out = {m \in counted : m.dir = "out"},
                      NEW bots, bots = TransferredOut(Attributed(counted, Credited, TRUE)),
                      NEW f \in Splits(out, bots), NEW k,
                      k = SumFunction([m \in CustodianOutflows(out) |-> f[m]]),
                      StakingShortfall(Observed(seen, asOf, <<k>>))
               PROVE  FALSE
  BY ZenonT(60) DEF ShortfallReal
<1>2. RowsOK(seen)
  <2>1. CASE complete
    BY <1>1, <2>1, ScanOK DEF HoldingsInv
  <2>2. CASE ~complete
    BY <1>1, <2>2, FS_EmptySet DEF RowsOK
  <2> QED BY <2>1, <2>2
<1>3. PICK R : R = Netted(recorded, seen, asOf)
  OBVIOUS
<1>4. counted = {m \in moves : Lists(R, m.id)}
  BY <1>1, <1>3 DEF Lists
<1>5. RowsOK(R) /\ (\A x : Lists(R, x) <=> Lists(counted, x)) /\ MovesOK /\ counted \in SUBSET moves
  BY <1>2, <1>3, <1>4, NettedRows DEF HoldingsInv
<1>6. \A dir : SumOf(R, dir) = SumOf(counted, dir)
  BY <1>5, RowsSum
<1>7. PICK a : a = Claim(seen, asOf)
  OBVIOUS
<1>8. PICK i, o, c, credit, cust :
        /\ i = SumOf(R, "in") /\ o = SumOf(R, "out") /\ c = SumOf(CustodianOutflows(R), "out")
        /\ credit = Credited /\ cust = SumOf(CustodianOutflows(counted), "out")
  OBVIOUS
<1>9. /\ a.credited = credit /\ a.inflow = i /\ a.outflow = o /\ a.custodian = c
      /\ credit \in Nat /\ i \in Nat /\ o \in Nat /\ c \in Nat
  BY <1>2, <1>3, <1>7, <1>8, ClaimIs
<1>10. c <= cust /\ cust \in Nat
  <2>1. PICK D, E : /\ D = {v \in CustodianOutflows(counted) : v.dir = "out"}
                    /\ E = {v \in CustodianOutflows(R) : v.dir = "out"}
    OBVIOUS
  <2>2. PICK p, q : p = [m \in D |-> m.amount] /\ q = [m \in E |-> m.amount]
    OBVIOUS
  <2>3. E \in SUBSET D
    <3>1. CustodianOutflows(R) \subseteq CustodianOutflows(counted)
      BY <1>4, <1>5, RowsToCustodian
    <3> QED BY <2>1, <3>1
  <2>4. D \subseteq moves
    BY <1>5, <2>1 DEF CustodianOutflows
  <2>5. IsFiniteSet(D)
    BY <1>5, <2>4, FS_Subset DEF MovesOK
  <2>6. p \in [D -> Nat] /\ q \in [E -> Nat] /\ \A x \in E : q[x] = p[x]
    BY <1>5, <2>2, <2>3, <2>4 DEF MovesOK, MoveOK
  <2>7. SumFunction(q) <= SumFunction(p) /\ SumFunction(p) \in Nat
    BY <2>3, <2>5, <2>6, SumPart, SumNat
  <2> QED BY <1>8, <2>1, <2>2, <2>7 DEF SumOf
<1>11. TransferredOut(a) = Lesser(Monus(o, i), credit)
  BY <1>9 DEF TransferredOut
<1>12. bots = Lesser(Monus(o, i), credit)
  <2>1. PICK b, yes : b = Attributed(counted, Credited, TRUE) /\ yes = TRUE
    OBVIOUS
  <2>2. b = [credited |-> credit, complete |-> yes, inflow |-> i, outflow |-> o, custodian |-> cust]
    BY <1>6, <1>8, <2>1 DEF Attributed
  <2>3. bots = TransferredOut(b)
    BY <1>1, <2>1
  <2> QED BY <2>2, <2>3 DEF TransferredOut
<1>13. bots \in Nat
  BY <1>9, <1>12 DEF Lesser, Monus
<1>14. k \in Nat /\ bots <= k + (o - cust)
  <2>1. SplitOf(counted, out, bots, f, k)
    BY <1>1 DEF SplitOf
  <2>2. k \in Nat /\ bots <= k + (SumOf(counted, "out") - SumOf(CustodianOutflows(counted), "out"))
    BY <1>5, <1>13, <2>1, SplitLeaves
  <2>3. SumOf(counted, "out") = o /\ SumOf(CustodianOutflows(counted), "out") = cust
    BY <1>6, <1>8
  <2> QED BY <2>2, <2>3
<1>15. TransferredToCustodian(a) > k
  BY <1>1, <1>7, ShortfallSays
<1>16. TransferredToCustodian(a) = Monus(bots, Monus(o, c))
  BY <1>9, <1>11, <1>12 DEF TransferredToCustodian
<1>17. Monus(bots, Monus(o, c)) > k
  BY <1>15, <1>16
<1> QED BY <1>9, <1>10, <1>13, <1>14, <1>17 DEF Monus

\* While the residual buffer is what the status offers to leave, an owner who
\* sends the custodian no more than that, and waits for it to be counted, leaves
\* the buffer; no order is refused for it while nothing was deposited; and a
\* shortfall is reported only of HYPE that the custodian got and does not have
\* in staking.
THEOREM TransfersHold == Spec => []TransfersSound
<1>1. ASSUME HoldingsInv, Chronicle, FillsKnown, OfferOK, HistoryExact PROVE TransfersSound
  BY <1>1, LeavesBuffer, LeavesNoGap, ShortfallIsReal DEF TransfersSound
<1> QED BY <1>1, HoldingsSound, ChronicleKept, OfferKept, HistoryHolds, PTL

-----------------------------------------------------------------------------
(* What the decisions reserve *)

\* What transfers took is within what the lots in spot hold.
InBounds(t, in) ==
  /\ t.cap \in Nat /\ t.unstaked \in Nat /\ t.residual \in Nat
  /\ in.unstaked \in Nat /\ in.residual \in Nat
  /\ t.unstaked <= in.unstaked /\ t.residual <= in.residual

\* t is followed by u when o is replayed, which sends a, y of it bound.
Replays(u, t, lots, bound, o, in, a, y) ==
  /\ in = LotsBy(lots, o.at) /\ a = o.amount /\ y = bound[o.id]
  /\ a \in Nat /\ y \in Nat /\ InBounds(t, in)
  /\ u = ReplayOutflow(lots, bound, t, o)

\* What a transfer of a, of which y is bound, credits within cap.
CreditOf(cap, a, y) == Lesser(Monus(a, y), Monus(cap, y))

\* What one transfer takes, in one formula each.
LEMMA OneTakes ==
  ASSUME NEW lots, NEW bound, NEW o, NEW in, NEW a, NEW y,
         NEW t, NEW u, Replays(u, t, lots, bound, o, in, a, y), NEW c, c = CreditOf(t.cap, a, y)
  PROVE  /\ y \in Nat /\ a \in Nat /\ c \in Nat /\ u.cap = Monus(t.cap, a)
         /\ u.unstaked = Lesser(t.unstaked + c, in.unstaked)
         /\ u.residual = Lesser(t.residual + Monus(t.unstaked + c, in.unstaked), in.residual)
<1>0. /\ y \in Nat /\ a \in Nat /\ InBounds(t, in) /\ in = LotsBy(lots, o.at)
      /\ a = o.amount /\ y = bound[o.id] /\ u = ReplayOutflow(lots, bound, t, o)
  BY DEF Replays
<1>1. PICK already : already = Lesser(y, a)
  OBVIOUS
<1>2. PICK capLeft : capLeft = t.cap - Lesser(already, t.cap)
  OBVIOUS
<1>3. PICK credit : credit = Lesser(a - already, capLeft)
  OBVIOUS
<1>4. PICK fromUnstaked : fromUnstaked = Lesser(credit, in.unstaked - t.unstaked)
  OBVIOUS
<1>5. u = [cap |-> capLeft - credit, unstaked |-> t.unstaked + fromUnstaked,
           residual |-> t.residual + Lesser(credit - fromUnstaked, in.residual - t.residual)]
  BY <1>0, <1>1, <1>2, <1>3, <1>4 DEF ReplayOutflow, LotsBy
<1>6. PICK k, v, r, iu, ir : /\ k = t.cap /\ v = t.unstaked /\ r = t.residual
                             /\ iu = in.unstaked /\ ir = in.residual
  OBVIOUS
<1>7. k \in Nat /\ v \in Nat /\ r \in Nat /\ iu \in Nat /\ ir \in Nat /\ v <= iu /\ r <= ir
  BY <1>0, <1>6 DEF InBounds
<1>8. already \in Nat /\ already <= a /\ (y <= a => already = y) /\ (a <= y => already = a)
  BY <1>0, <1>1 DEF Lesser
<1>9. capLeft \in Nat /\ (already <= k => capLeft = k - already) /\ (k <= already => capLeft = 0)
  BY <1>0, <1>2, <1>6, <1>7, <1>8 DEF Lesser
<1>10. /\ credit \in Nat /\ (a - already <= capLeft => credit = a - already)
       /\ (capLeft <= a - already => credit = capLeft)
  BY <1>0, <1>3, <1>8, <1>9 DEF Lesser
<1>11. credit = c
  <2>1. c = Lesser(Monus(a, y), Monus(k, y))
    BY <1>6 DEF CreditOf
  <2> QED BY <1>0, <1>7, <1>8, <1>9, <1>10, <2>1 DEF Lesser, Monus
<1>12. capLeft - credit = Monus(k, a)
  BY <1>0, <1>7, <1>8, <1>9, <1>10 DEF Monus
<1>13. v + fromUnstaked = Lesser(v + c, iu) /\ (credit - fromUnstaked = Monus(v + c, iu))
  BY <1>4, <1>6, <1>7, <1>10, <1>11 DEF Lesser, Monus
<1>14. PICK x : x = Monus(v + c, iu) /\ x \in Nat
  BY <1>7, <1>10, <1>11 DEF Monus
<1>15. r + Lesser(x, ir - r) = Lesser(r + x, ir)
  BY <1>7, <1>14 DEF Lesser
<1> QED BY <1>0, <1>5, <1>6, <1>10, <1>11, <1>12, <1>13, <1>14, <1>15

\* t2 took at least what t took, within a cap that is no smaller.
Ahead(t2, t) == t.cap <= t2.cap /\ t.unstaked <= t2.unstaked /\ t.residual <= t2.residual

\* A transfer takes nothing back.
LEMMA TakesNoLess ==
  ASSUME NEW lots, NEW bound, NEW o, NEW in, NEW a, NEW y,
         NEW t, NEW u, Replays(u, t, lots, bound, o, in, a, y)
  PROVE  InBounds(u, in) /\ t.residual <= u.residual
<1>1. PICK c : c = CreditOf(t.cap, a, y)
  OBVIOUS
<1>2. /\ a \in Nat /\ y \in Nat /\ c \in Nat /\ u.cap = Monus(t.cap, a)
      /\ u.unstaked = Lesser(t.unstaked + c, in.unstaked)
      /\ u.residual = Lesser(t.residual + Monus(t.unstaked + c, in.unstaked), in.residual)
  BY <1>1, OneTakes
<1>3. PICK k, v, r, iu, ir : /\ k = t.cap /\ v = t.unstaked /\ r = t.residual
                             /\ iu = in.unstaked /\ ir = in.residual
  OBVIOUS
<1>4. k \in Nat /\ v \in Nat /\ r \in Nat /\ iu \in Nat /\ ir \in Nat /\ v <= iu /\ r <= ir
  BY <1>3 DEF InBounds, Replays
<1>5. Monus(k, a) \in Nat
  BY <1>2, <1>4 DEF Monus
<1>6. Lesser(v + c, iu) \in Nat /\ Lesser(v + c, iu) <= iu
  BY <1>2, <1>4 DEF Lesser
<1>7. PICK x : x = Monus(v + c, iu) /\ x \in Nat
  BY <1>2, <1>4 DEF Monus
<1>8. Lesser(r + x, ir) \in Nat /\ Lesser(r + x, ir) <= ir /\ r <= Lesser(r + x, ir)
  BY <1>4, <1>7 DEF Lesser
<1> QED BY <1>2, <1>3, <1>4, <1>5, <1>6, <1>7, <1>8 DEF InBounds

\* Who is ahead stays so when both replay the same transfer from the same lots.
LEMMA StaysAhead ==
  ASSUME NEW lots, NEW lots2, NEW bound, NEW bound2, NEW o, NEW in, NEW a, NEW y,
         NEW t, NEW u, Replays(u, t, lots, bound, o, in, a, y),
         NEW t2, NEW u2, Replays(u2, t2, lots2, bound2, o, in, a, y),
         Ahead(t2, t)
  PROVE  Ahead(u2, u)
<1>0. PICK c, c2 : c = CreditOf(t.cap, a, y) /\ c2 = CreditOf(t2.cap, a, y)
  OBVIOUS
<1>2. /\ a \in Nat /\ y \in Nat /\ c \in Nat /\ u.cap = Monus(t.cap, a)
      /\ u.unstaked = Lesser(t.unstaked + c, in.unstaked)
      /\ u.residual = Lesser(t.residual + Monus(t.unstaked + c, in.unstaked), in.residual)
  BY <1>0, OneTakes
<1>3. /\ c2 \in Nat /\ u2.cap = Monus(t2.cap, a)
      /\ u2.unstaked = Lesser(t2.unstaked + c2, in.unstaked)
      /\ u2.residual = Lesser(t2.residual + Monus(t2.unstaked + c2, in.unstaked), in.residual)
  BY <1>0, OneTakes
<1>4. PICK k, v, r, k2, v2, r2, iu, ir :
        /\ k = t.cap /\ v = t.unstaked /\ r = t.residual
        /\ k2 = t2.cap /\ v2 = t2.unstaked /\ r2 = t2.residual
        /\ iu = in.unstaked /\ ir = in.residual
  OBVIOUS
<1>5. /\ k \in Nat /\ v \in Nat /\ r \in Nat /\ iu \in Nat /\ ir \in Nat
      /\ k2 \in Nat /\ v2 \in Nat /\ r2 \in Nat /\ k <= k2 /\ v <= v2 /\ r <= r2
  BY <1>4 DEF InBounds, Ahead, Replays
<1>6. c <= c2
  <2>1. c = Lesser(Monus(a, y), Monus(k, y)) /\ c2 = Lesser(Monus(a, y), Monus(k2, y))
    BY <1>0, <1>4 DEF CreditOf
  <2> QED BY <1>2, <1>5, <2>1 DEF Lesser, Monus
<1>7. Monus(k, a) <= Monus(k2, a)
  BY <1>2, <1>5 DEF Monus
<1>8. Lesser(v + c, iu) <= Lesser(v2 + c2, iu)
  BY <1>2, <1>3, <1>5, <1>6 DEF Lesser
<1>9. PICK x, x2 : x = Monus(v + c, iu) /\ x2 = Monus(v2 + c2, iu)
  OBVIOUS
<1>10. x \in Nat /\ x2 \in Nat /\ x <= x2
  BY <1>2, <1>3, <1>5, <1>6, <1>9 DEF Monus
<1>11. Lesser(r + x, ir) <= Lesser(r2 + x2, ir)
  BY <1>5, <1>10 DEF Lesser
<1> QED BY <1>2, <1>3, <1>4, <1>7, <1>8, <1>9, <1>11 DEF Ahead

ReplayOK(lots, outflow, bound, cap) ==
  /\ LotsOK(lots) /\ \A i \in DOMAIN lots : lots[i].from \in Int
  /\ SentOK(outflow) /\ \A x \in DOMAIN outflow : bound[x] \in Nat
  /\ cap \in Nat

\* What the transfers P took is still in the lots of every later one.
TakenIn(t, lots, outflow, P) ==
  /\ t.cap \in Nat /\ t.unstaked \in Nat /\ t.residual \in Nat
  /\ \A x \in DOMAIN outflow :
       (\A z \in P : z <= x) =>
         t.unstaked <= LotsBy(lots, x).unstaked /\ t.residual <= LotsBy(lots, x).residual

\* A replay of the transfers in the order of time, step by step.
RunOK(st, lots, outflow, bound, cap, ids, n) ==
  /\ ReplayOK(lots, outflow, bound, cap)
  /\ n \in Nat /\ ByTime(outflow, ids, n) /\ TakingRun(st, lots, outflow, bound, cap, ids, n)

LEMMA RunExists ==
  ASSUME NEW lots, NEW outflow, NEW bound, NEW cap, ReplayOK(lots, outflow, bound, cap),
         NEW key, key = [x \in DOMAIN outflow |-> <<outflow[x].at, 0>>]
  PROVE  \E st, n : RunOK(st, lots, outflow, bound, cap, InOrder(key), n)
<1>1. PICK none : none = [x \in DOMAIN outflow |-> 0]
  OBVIOUS
<1>2. OutflowsOK(outflow, none)
  BY <1>1 DEF ReplayOK, SentOK, OutflowsOK
<1>3. PICK ids : ids = InOrder(key)
  OBVIOUS
<1>4. PICK n \in Nat : ByTime(outflow, ids, n)
  BY <1>2, <1>3, InTime
<1>5. DOMAIN ids = 1..n
  BY <1>4 DEF ByTime
<1>6. PICK st : TakingRun(st, lots, outflow, bound, cap, ids, n)
  BY <1>5, TakingSteps
<1>7. RunOK(st, lots, outflow, bound, cap, ids, n)
  BY <1>4, <1>6 DEF RunOK
<1> QED BY <1>3, <1>7

\* The next transfer of a replay.
LEMMA RunStep ==
  ASSUME NEW st, NEW lots, NEW outflow, NEW bound, NEW cap, NEW ids, NEW n,
         RunOK(st, lots, outflow, bound, cap, ids, n),
         NEW k \in 0..n, NEW m \in 1..n, m = k + 1,
         TakenIn(st[k], lots, outflow, FirstOf(ids, k)), NEW x, x = ids[m]
  PROVE  /\ x \in DOMAIN outflow
         /\ Replays(st[m], st[k], lots, bound, outflow[x],
                    LotsBy(lots, x), outflow[x].amount, bound[x])
         /\ TakenIn(st[m], lots, outflow, FirstOf(ids, m))
         /\ st[k].residual <= st[m].residual
<1>1. /\ ReplayOK(lots, outflow, bound, cap) /\ n \in Nat
      /\ ByTime(outflow, ids, n) /\ TakingRun(st, lots, outflow, bound, cap, ids, n)
  BY DEF RunOK
<1>2. /\ x \in DOMAIN outflow
      /\ FirstOf(ids, k) = Earlier(outflow, x) /\ FirstOf(ids, m) = Until(outflow, x)
  BY <1>1 DEF ByTime
<1>3. x \in Nat /\ outflow[x].id = x /\ outflow[x].at = x /\ outflow[x].amount \in Nat /\ bound[x] \in Nat
  BY <1>1, <1>2 DEF ReplayOK, SentOK
<1>4. PICK t, u, o, in, a, y : /\ t = st[k] /\ u = st[m] /\ o = outflow[x]
                               /\ in = LotsBy(lots, x) /\ a = outflow[x].amount /\ y = bound[x]
  OBVIOUS
<1>5. in.unstaked \in Nat /\ in.residual \in Nat
  <2>1. x \in Int /\ x <= x
    BY <1>3
  <2> QED BY <1>1, <1>4, <2>1, LotsGrow DEF ReplayOK
<1>6. InBounds(t, in)
  <2>1. \A z \in FirstOf(ids, k) : z <= x
    BY <1>2, <1>3, <1>1 DEF Earlier, ReplayOK, SentOK
  <2>2. t.unstaked <= in.unstaked /\ t.residual <= in.residual
    BY <1>2, <1>4, <2>1 DEF TakenIn
  <2> QED BY <1>4, <1>5, <2>2 DEF TakenIn, InBounds
<1>7. u = ReplayOutflow(lots, bound, t, o)
  <2>1. k \in 0..n /\ m \in 0..n
    BY <1>1
  <2> QED BY <1>1, <1>4, <2>1 DEF TakingRun
<1>8. Replays(u, t, lots, bound, o, in, a, y)
  BY <1>3, <1>4, <1>6, <1>7 DEF Replays
<1>9. InBounds(u, in) /\ t.residual <= u.residual
  BY <1>8, TakesNoLess
<1>10. TakenIn(u, lots, outflow, FirstOf(ids, m))
  <2>1. ASSUME NEW z \in DOMAIN outflow, \A v \in FirstOf(ids, m) : v <= z
        PROVE  u.unstaked <= LotsBy(lots, z).unstaked /\ u.residual <= LotsBy(lots, z).residual
    <3>1. z \in Int /\ x \in Int /\ x <= z
      BY <1>1, <1>2, <1>3, <2>1 DEF Until, ReplayOK, SentOK
    <3>2. /\ LotsBy(lots, z).unstaked \in Nat /\ LotsBy(lots, z).residual \in Nat
          /\ in.unstaked <= LotsBy(lots, z).unstaked /\ in.residual <= LotsBy(lots, z).residual
      BY <1>1, <1>4, <3>1, LotsGrow DEF ReplayOK
    <3> QED BY <1>9, <3>2 DEF InBounds
  <2> QED BY <1>9, <2>1 DEF TakenIn, InBounds
<1> QED BY <1>2, <1>4, <1>8, <1>9, <1>10

LEMMA RunStart ==
  ASSUME NEW st, NEW lots, NEW outflow, NEW bound, NEW cap, NEW ids, NEW n,
         RunOK(st, lots, outflow, bound, cap, ids, n)
  PROVE  /\ st[0] = Untaken(cap) /\ FirstOf(ids, 0) = {}
         /\ TakenIn(st[0], lots, outflow, FirstOf(ids, 0))
<1>1. /\ ReplayOK(lots, outflow, bound, cap) /\ TakingRun(st, lots, outflow, bound, cap, ids, n)
  BY DEF RunOK
<1>2. st[0] = [cap |-> cap, unstaked |-> 0, residual |-> 0] /\ cap \in Nat
  BY <1>1 DEF TakingRun, Untaken, ReplayOK
<1>3. FirstOf(ids, 0) = {}
  <2>1. 1..0 = {}
    OBVIOUS
  <2> QED BY <2>1 DEF FirstOf
<1>4. \A x \in DOMAIN outflow : LotsBy(lots, x).unstaked \in Nat /\ LotsBy(lots, x).residual \in Nat
  <2>1. SUFFICES ASSUME NEW x \in DOMAIN outflow
                 PROVE  LotsBy(lots, x).unstaked \in Nat /\ LotsBy(lots, x).residual \in Nat
    OBVIOUS
  <2>2. x \in Int /\ x <= x
    BY <1>1 DEF ReplayOK, SentOK
  <2> QED BY <1>1, <2>2, LotsGrow DEF ReplayOK
<1> QED BY <1>2, <1>3, <1>4 DEF TakenIn, Untaken

\* All along what was taken is in the lots, and nothing is taken back.
LEMMA RunWithin ==
  ASSUME NEW st, NEW lots, NEW outflow, NEW bound, NEW cap, NEW ids, NEW n,
         RunOK(st, lots, outflow, bound, cap, ids, n)
  PROVE  /\ \A k \in 0..n : TakenIn(st[k], lots, outflow, FirstOf(ids, k))
         /\ \A k \in 0..n : st[k].residual <= st[n].residual
<1>0. n \in Nat
  BY DEF RunOK
<1> DEFINE T == {k \in Nat : k <= n => TakenIn(st[k], lots, outflow, FirstOf(ids, k))}
<1>1. 0 \in T
  BY RunStart
<1>2. ASSUME NEW k \in Nat, NEW m \in Nat, k \in T, m = k + 1 PROVE m \in T
  <2>1. SUFFICES ASSUME m <= n PROVE TakenIn(st[m], lots, outflow, FirstOf(ids, m))
    OBVIOUS
  <2>2. k \in 0..n /\ m \in 1..n /\ TakenIn(st[k], lots, outflow, FirstOf(ids, k))
    BY <1>0, <1>2, <2>1
  <2> HIDE DEF T
  <2> QED BY <1>2, <2>2, RunStep
<1>3. Nat \subseteq T
  <2> HIDE DEF T
  <2> QED BY <1>1, <1>2, Inductive
<1>4. \A k \in 0..n : TakenIn(st[k], lots, outflow, FirstOf(ids, k))
  BY <1>0, <1>3
<1> HIDE DEF T
<1>5. ASSUME NEW k \in 0..n PROVE st[k].residual <= st[n].residual
  <2> DEFINE R == {j \in Nat : k + j <= n => st[k].residual <= st[k + j].residual}
  <2>0. k \in Nat /\ \A j \in 0..n : st[j].residual \in Nat
    BY <1>0, <1>4 DEF TakenIn
  <2>1. 0 \in R
    BY <1>0, <2>0
  <2>2. ASSUME NEW i \in Nat, NEW j \in Nat, i \in R, j = i + 1 PROVE j \in R
    <3>1. SUFFICES ASSUME k + j <= n PROVE st[k].residual <= st[k + j].residual
      OBVIOUS
    <3>2. PICK p, q : p = k + i /\ q = k + j
      OBVIOUS
    <3>3. /\ p \in 0..n /\ q \in 1..n /\ q = p + 1 /\ st[k].residual <= st[p].residual
      BY <1>0, <2>0, <2>2, <3>1, <3>2
    <3>4. TakenIn(st[p], lots, outflow, FirstOf(ids, p))
      BY <1>4, <3>3
    <3>5. st[p].residual <= st[q].residual
      BY <3>3, <3>4, RunStep
    <3>6. p \in 0..n /\ q \in 0..n
      BY <1>0, <3>3
    <3>7. st[k].residual \in Nat /\ st[p].residual \in Nat /\ st[q].residual \in Nat
      BY <2>0, <3>6
    <3> QED BY <3>2, <3>3, <3>5, <3>7
  <2>3. Nat \subseteq R
    <3> HIDE DEF R
    <3> QED BY <2>1, <2>2, Inductive
  <2>4. PICK j \in Nat : k + j = n
    <3>1. n - k \in Nat /\ k + (n - k) = n
      BY <1>0, <2>0
    <3> QED BY <3>1
  <2>5. j \in R
    BY <2>3
  <2> QED BY <1>0, <2>4, <2>5
<1> QED BY <1>4, <1>5

\* One replay goes on where another ends: the transfers of the first come first
\* and find the same lots.
GoesOn(lots, outflow, bound, lots2, outflow2, bound2) ==
  /\ DOMAIN outflow \subseteq DOMAIN outflow2
  /\ \A x \in DOMAIN outflow :
       /\ outflow2[x] = outflow[x] /\ bound2[x] = bound[x] /\ LotsBy(lots2, x) = LotsBy(lots, x)
       /\ \A z \in DOMAIN outflow2 : z \notin DOMAIN outflow => x < z

\* The transfer after the ones replayed so far is the same in both.
LEMMA NextAlike ==
  ASSUME NEW outflow, NEW outflow2, SentOK(outflow), SentOK(outflow2),
         DOMAIN outflow \subseteq DOMAIN outflow2,
         \A x \in DOMAIN outflow : \A z \in DOMAIN outflow2 : z \notin DOMAIN outflow => x < z,
         NEW ids, NEW n \in Nat, ByTime(outflow, ids, n),
         NEW ids2, NEW n2 \in Nat, ByTime(outflow2, ids2, n2),
         NEW k \in Nat, NEW m \in Nat, m = k + 1, m <= n, k <= n2,
         FirstOf(ids, k) = FirstOf(ids2, k)
  PROVE  m <= n2 /\ ids2[m] = ids[m] /\ FirstOf(ids, m) = FirstOf(ids2, m)
<1>0. k \in 0..n /\ m \in 1..n /\ k \in 0..n2
  OBVIOUS
<1>1. PICK x : x = ids[m] /\ x \in DOMAIN outflow
  BY <1>0 DEF ByTime
<1>2. FirstOf(ids, k) = Earlier(outflow, x) /\ x \in Nat /\ x \in DOMAIN outflow2
  BY <1>0, <1>1 DEF ByTime, SentOK
<1>3. x \notin FirstOf(ids2, k)
  BY <1>2 DEF Earlier
<1>4. PICK j \in 1..n2 : ids2[j] = x
  BY <1>2 DEF ByTime, FirstOf
<1>5. m <= n2
  <2>1. ~(j \in 1..k)
    BY <1>3, <1>4 DEF FirstOf
  <2> QED BY <1>0, <1>4, <2>1
<1>6. m \in 1..n2
  BY <1>0, <1>5
<1>7. PICK y : y = ids2[m] /\ y \in DOMAIN outflow2
  BY <1>6 DEF ByTime
<1>8. FirstOf(ids2, k) = Earlier(outflow2, y) /\ y \in Nat
  BY <1>0, <1>6, <1>7 DEF ByTime, SentOK
<1>9. y <= x
  <2>1. x \notin Earlier(outflow2, y)
    BY <1>3, <1>8
  <2>2. ~(x < y)
    BY <1>2, <2>1 DEF Earlier
  <2> QED BY <1>2, <1>8, <2>2
<1>10. y \in DOMAIN outflow
  BY <1>1, <1>2, <1>7, <1>8, <1>9
<1>11. x <= y
  <2>1. y \notin FirstOf(ids, k)
    BY <1>8 DEF Earlier
  <2> QED BY <1>2, <1>8, <1>10, <2>1 DEF Earlier
<1>12. x = y
  BY <1>2, <1>8, <1>9, <1>11
<1>13. FirstOf(ids, m) = FirstOf(ids2, m)
  <2>1. \A i \in 1..m : i = m \/ i \in 1..k
    OBVIOUS
  <2>2. (\A i \in 1..k : i \in 1..m) /\ m \in 1..m
    OBVIOUS
  <2>3. FirstOf(ids, m) = FirstOf(ids, k) \cup {x}
    BY <1>1, <2>1, <2>2 DEF FirstOf
  <2>4. FirstOf(ids2, m) = FirstOf(ids2, k) \cup {x}
    BY <1>7, <1>12, <2>1, <2>2 DEF FirstOf
  <2> QED BY <2>3, <2>4
<1> QED BY <1>1, <1>5, <1>7, <1>12, <1>13

\* As long as both replay the same transfers, the one with more cap takes no less.
LEMMA Lockstep ==
  ASSUME NEW st, NEW lots, NEW outflow, NEW bound, NEW cap, NEW ids, NEW n,
         RunOK(st, lots, outflow, bound, cap, ids, n),
         NEW st2, NEW lots2, NEW outflow2, NEW bound2, NEW cap2, NEW ids2, NEW n2,
         RunOK(st2, lots2, outflow2, bound2, cap2, ids2, n2),
         GoesOn(lots, outflow, bound, lots2, outflow2, bound2), cap <= cap2
  PROVE  \A k \in 0..n : k <= n2 /\ Ahead(st2[k], st[k])
<1>1. /\ n \in Nat /\ n2 \in Nat /\ ByTime(outflow, ids, n) /\ ByTime(outflow2, ids2, n2)
      /\ SentOK(outflow) /\ SentOK(outflow2) /\ cap \in Nat /\ cap2 \in Nat
  BY DEF RunOK, ReplayOK
<1>2. /\ DOMAIN outflow \subseteq DOMAIN outflow2
      /\ \A x \in DOMAIN outflow : \A z \in DOMAIN outflow2 : z \notin DOMAIN outflow => x < z
  BY DEF GoesOn
<1>3. /\ \A k \in 0..n : TakenIn(st[k], lots, outflow, FirstOf(ids, k))
      /\ \A k \in 0..n2 : TakenIn(st2[k], lots2, outflow2, FirstOf(ids2, k))
  BY RunWithin
<1> DEFINE T == {k \in Nat : k <= n => k <= n2 /\ FirstOf(ids, k) = FirstOf(ids2, k)
                                        /\ Ahead(st2[k], st[k])}
<1>4. 0 \in T
  <2>1. st[0] = Untaken(cap) /\ st2[0] = Untaken(cap2) /\ FirstOf(ids, 0) = FirstOf(ids2, 0)
    BY RunStart
  <2>2. Ahead(st2[0], st[0])
    BY <2>1 DEF Ahead, Untaken
  <2> QED BY <1>1, <2>1, <2>2
<1>5. ASSUME NEW k \in Nat, NEW m \in Nat, k \in T, m = k + 1 PROVE m \in T
  <2>1. SUFFICES ASSUME m <= n
                 PROVE  m <= n2 /\ FirstOf(ids, m) = FirstOf(ids2, m) /\ Ahead(st2[m], st[m])
    OBVIOUS
  <2>2. k <= n2 /\ FirstOf(ids, k) = FirstOf(ids2, k) /\ Ahead(st2[k], st[k])
    BY <1>1, <1>5, <2>1
  <2>3. m <= n2 /\ ids2[m] = ids[m] /\ FirstOf(ids, m) = FirstOf(ids2, m)
    BY <1>1, <1>2, <1>5, <2>1, <2>2, NextAlike
  <2>4. k \in 0..n /\ m \in 1..n /\ k \in 0..n2 /\ m \in 1..n2
    BY <1>1, <1>5, <2>1, <2>3
  <2>5. PICK x : x = ids[m]
    OBVIOUS
  <2>6. PICK o, in, a, y : /\ o = outflow[x] /\ in = LotsBy(lots, x)
                           /\ a = outflow[x].amount /\ y = bound[x]
    OBVIOUS
  <2>7. x \in DOMAIN outflow /\ Replays(st[m], st[k], lots, bound, o, in, a, y)
    <3>1. TakenIn(st[k], lots, outflow, FirstOf(ids, k))
      BY <1>3, <2>4
    <3> QED BY <1>5, <2>4, <2>5, <2>6, <3>1, RunStep
  <2>8. /\ x \in DOMAIN outflow2
        /\ Replays(st2[m], st2[k], lots2, bound2, outflow2[x],
                   LotsBy(lots2, x), outflow2[x].amount, bound2[x])
    <3>1. TakenIn(st2[k], lots2, outflow2, FirstOf(ids2, k)) /\ x = ids2[m]
      BY <1>3, <2>3, <2>4, <2>5
    <3> QED BY <1>5, <2>4, <3>1, RunStep
  <2>9. outflow2[x] = o /\ LotsBy(lots2, x) = in /\ outflow2[x].amount = a /\ bound2[x] = y
    BY <2>6, <2>7 DEF GoesOn
  <2>10. Replays(st2[m], st2[k], lots2, bound2, o, in, a, y)
    BY <2>8, <2>9
  <2> HIDE DEF T
  <2>11. Ahead(st2[m], st[m])
    BY <2>2, <2>7, <2>10, StaysAhead
  <2> QED BY <2>3, <2>11
<1>6. Nat \subseteq T
  <2> HIDE DEF T
  <2> QED BY <1>4, <1>5, Inductive
<1>7. \A k \in 0..n : k \in T
  BY <1>1, <1>6
<1> QED BY <1>1, <1>7

\* More transfers, later ones, and more cap take no less of the residual.
LEMMA MoreTaken ==
  ASSUME NEW lots, NEW outflow, NEW bound, NEW cap, ReplayOK(lots, outflow, bound, cap),
         NEW lots2, NEW outflow2, NEW bound2, NEW cap2, ReplayOK(lots2, outflow2, bound2, cap2),
         GoesOn(lots, outflow, bound, lots2, outflow2, bound2), cap <= cap2,
         NEW key, key = [x \in DOMAIN outflow |-> <<outflow[x].at, 0>>],
         NEW key2, key2 = [x \in DOMAIN outflow2 |-> <<outflow2[x].at, 0>>],
         NEW t, t = TakenBy(lots, outflow, bound, cap, InOrder(key)),
         NEW t2, t2 = TakenBy(lots2, outflow2, bound2, cap2, InOrder(key2))
  PROVE  t.residual \in Nat /\ t2.residual \in Nat /\ t.residual <= t2.residual
<1>1. PICK st, n : RunOK(st, lots, outflow, bound, cap, InOrder(key), n)
  BY RunExists
<1>2. PICK st2, n2 : RunOK(st2, lots2, outflow2, bound2, cap2, InOrder(key2), n2)
  BY RunExists
<1>3. n \in Nat /\ n2 \in Nat /\ t = st[n] /\ t2 = st2[n2]
  BY <1>1, <1>2 DEF RunOK, TakingRun
<1>4. n \in 0..n /\ n2 \in 0..n2
  BY <1>3
<1>5. t.residual \in Nat
  <2>1. TakenIn(st[n], lots, outflow, FirstOf(InOrder(key), n))
    BY <1>1, <1>4, RunWithin
  <2> QED BY <1>3, <2>1 DEF TakenIn
<1>6. t2.residual \in Nat
  <2>1. TakenIn(st2[n2], lots2, outflow2, FirstOf(InOrder(key2), n2))
    BY <1>2, <1>4, RunWithin
  <2> QED BY <1>3, <2>1 DEF TakenIn
<1>7. n <= n2 /\ Ahead(st2[n], st[n])
  BY <1>1, <1>2, <1>4, Lockstep
<1>8. n \in 0..n2
  BY <1>3, <1>7
<1>9. st2[n].residual <= st2[n2].residual
  BY <1>2, <1>8, RunWithin
<1>10. st2[n].residual \in Nat
  <2>1. TakenIn(st2[n], lots2, outflow2, FirstOf(InOrder(key2), n))
    BY <1>2, <1>8, RunWithin
  <2> QED BY <2>1 DEF TakenIn
<1>11. st[n].residual <= st2[n].residual
  BY <1>7 DEF Ahead
<1> QED BY <1>3, <1>5, <1>6, <1>9, <1>10, <1>11

\* Finished workflows: their lots are numbers and so is what their evidence bound.
FlowsOK(flows) ==
  /\ IsFiniteSet(DOMAIN flows)
  /\ \A i \in DOMAIN flows :
       /\ Lot(flows[i]).residual \in Nat /\ Lot(flows[i]).unstaked \in Nat
       /\ Lot(flows[i]).from \in Nat
       /\ flows[i].bound \in [DOMAIN flows[i].bound -> Nat]

LotsOf(flows) == [i \in DOMAIN flows |-> Lot(flows[i])]
BoundsOf(flows, C) == [id \in {o.id : o \in C} |-> BoundOf(flows, id)]

LEMMA ExpectationIs ==
  ASSUME NEW flows, NEW C, NEW cap
  PROVE  Expectation(flows, C, cap) = Replay(LotsOf(flows), ById(C), BoundsOf(flows, C), cap)
BY DEF Expectation, LotsOf, ById, BoundsOf, OfId

LEMMA BoundIsNat ==
  ASSUME NEW flows, FlowsOK(flows), NEW id
  PROVE  BoundOf(flows, id) \in Nat
<1>1. PICK D : D = {j \in DOMAIN flows : id \in DOMAIN flows[j].bound}
  OBVIOUS
<1>2. PICK f : f = [i \in D |-> flows[i].bound[id]]
  OBVIOUS
<1>3. \A i \in D : f[i] \in Nat
  <2>1. SUFFICES ASSUME NEW i \in D PROVE f[i] \in Nat
    OBVIOUS
  <2>2. i \in DOMAIN flows /\ id \in DOMAIN flows[i].bound
    BY <1>1
  <2>3. flows[i].bound \in [DOMAIN flows[i].bound -> Nat]
    BY <2>2 DEF FlowsOK
  <2> QED BY <1>2, <2>2, <2>3
<1>4. f \in [D -> Nat]
  BY <1>2, <1>3
<1>5. IsFiniteSet(D)
  <2>1. D \in SUBSET (DOMAIN flows)
    BY <1>1
  <2> QED BY <2>1, FS_Subset DEF FlowsOK
<1>6. BoundOf(flows, id) = SumFunction(f)
  BY <1>1, <1>2 DEF BoundOf
<1> QED BY <1>4, <1>5, <1>6, SumNat

LEMMA ReplayFits ==
  ASSUME NEW flows, FlowsOK(flows), NEW C, OutOK(C), NEW cap \in Nat
  PROVE  ReplayOK(LotsOf(flows), ById(C), BoundsOf(flows, C), cap)
<1>1. PICK lots, outflow, bound : /\ lots = LotsOf(flows) /\ outflow = ById(C)
                                  /\ bound = BoundsOf(flows, C)
  OBVIOUS
<1>2. SentOK(outflow)
  BY <1>1, ByIdOK
<1>3. DOMAIN outflow = {o.id : o \in C}
  BY <1>1 DEF ById
<1>4. \A x \in DOMAIN outflow : bound[x] = BoundOf(flows, x)
  BY <1>1, <1>3 DEF BoundsOf
<1>5. \A x \in DOMAIN outflow : bound[x] \in Nat
  BY <1>4, BoundIsNat
<1>6. DOMAIN lots = DOMAIN flows /\ \A i \in DOMAIN flows : lots[i] = Lot(flows[i])
  BY <1>1 DEF LotsOf
<1>7. LotsOK(lots) /\ \A i \in DOMAIN lots : lots[i].from \in Int
  BY <1>6 DEF LotsOK, FlowsOK
<1> QED BY <1>1, <1>2, <1>5, <1>7 DEF ReplayOK

\* More history: f2 has later lots besides f, and C2 later transfers besides C.
MoreHistory(f, C, f2, C2) ==
  /\ C \subseteq C2 /\ \A c \in C : \A d \in C2 : d \notin C => c.at < d.at
  /\ DOMAIN f \subseteq DOMAIN f2 /\ \A i \in DOMAIN f : f2[i] = f[i]
  /\ \A i \in DOMAIN f2 : i \notin DOMAIN f =>
       \A c \in C : c.at < Lot(f2[i]).from /\ c.id \notin DOMAIN f2[i].bound

LEMMA HistoryGoesOn ==
  ASSUME NEW f, FlowsOK(f), NEW f2, FlowsOK(f2), NEW C, OutOK(C), NEW C2, OutOK(C2),
         MoreHistory(f, C, f2, C2)
  PROVE  GoesOn(LotsOf(f), ById(C), BoundsOf(f, C), LotsOf(f2), ById(C2), BoundsOf(f2, C2))
<1>1. PICK lots, outflow, bound : /\ lots = LotsOf(f) /\ outflow = ById(C)
                                  /\ bound = BoundsOf(f, C)
  OBVIOUS
<1>2. PICK lots2, outflow2, bound2 : /\ lots2 = LotsOf(f2) /\ outflow2 = ById(C2)
                                     /\ bound2 = BoundsOf(f2, C2)
  OBVIOUS
<1>3. /\ C \subseteq C2 /\ \A c \in C : \A d \in C2 : d \notin C => c.at < d.at
      /\ DOMAIN f \subseteq DOMAIN f2 /\ \A i \in DOMAIN f : f2[i] = f[i]
      /\ \A i \in DOMAIN f2 : i \notin DOMAIN f =>
           \A c \in C : c.at < Lot(f2[i]).from /\ c.id \notin DOMAIN f2[i].bound
  BY DEF MoreHistory
<1>4. /\ \A o \in C : o.id \in DOMAIN outflow /\ outflow[o.id] = o
      /\ \A x \in DOMAIN outflow : outflow[x] \in C /\ outflow[x].id = x
  BY <1>1, ByIdOK
<1>5. /\ \A o \in C2 : o.id \in DOMAIN outflow2 /\ outflow2[o.id] = o
      /\ \A x \in DOMAIN outflow2 : outflow2[x] \in C2 /\ outflow2[x].id = x
  BY <1>2, ByIdOK
<1>6. DOMAIN outflow \subseteq DOMAIN outflow2 /\ \A x \in DOMAIN outflow : outflow2[x] = outflow[x]
  BY <1>3, <1>4, <1>5
<1>7. ASSUME NEW x \in DOMAIN outflow, NEW z \in DOMAIN outflow2, z \notin DOMAIN outflow PROVE x < z
  <2>1. PICK c, d : c = outflow[x] /\ d = outflow2[z] /\ c \in C /\ d \in C2 /\ c.id = x /\ d.id = z
    BY <1>4, <1>5
  <2>2. d \notin C
    BY <1>4, <1>7, <2>1
  <2>3. c.at < d.at
    BY <1>3, <2>1, <2>2
  <2>4. c.at = x /\ d.at = z
    BY <2>1 DEF OutOK, MoveOK
  <2> QED BY <2>3, <2>4
<1>8. /\ DOMAIN lots = DOMAIN f /\ \A i \in DOMAIN f : lots[i] = Lot(f[i])
      /\ DOMAIN lots2 = DOMAIN f2 /\ \A i \in DOMAIN f2 : lots2[i] = Lot(f2[i])
  BY <1>1, <1>2 DEF LotsOf
<1>9. ASSUME NEW x \in DOMAIN outflow PROVE LotsBy(lots2, x) = LotsBy(lots, x)
  <2>1. PICK c : c \in C /\ c.id = x /\ c.at = x /\ x \in Nat
    <3>1. PICK c : c = outflow[x] /\ c \in C /\ c.id = x
      BY <1>4
    <3>2. c.at = x /\ x \in Nat
      BY <3>1 DEF OutOK, MoveOK
    <3> QED BY <3>1, <3>2
  <2>2. PICK S, R : S = {i \in DOMAIN lots : lots[i].from <= x} /\ R = {i \in DOMAIN lots2 : lots2[i].from <= x}
    OBVIOUS
  <2>3. ASSUME NEW i \in DOMAIN f2, i \notin DOMAIN f PROVE ~(lots2[i].from <= x)
    <3>1. x < Lot(f2[i]).from /\ Lot(f2[i]).from \in Nat
      BY <1>3, <2>1, <2>3 DEF FlowsOK
    <3> QED BY <1>8, <2>1, <3>1
  <2>4. S = R /\ \A i \in S : lots2[i] = lots[i]
    BY <1>3, <1>8, <2>2, <2>3
  <2>5. /\ [i \in S |-> lots[i].residual] = [i \in R |-> lots2[i].residual]
        /\ [i \in S |-> lots[i].unstaked] = [i \in R |-> lots2[i].unstaked]
    BY <2>4
  <2>6. LotsSum(lots, S) = LotsSum(lots2, R)
    BY <2>5 DEF LotsSum
  <2> QED BY <2>2, <2>6 DEF LotsBy
<1>10. ASSUME NEW x \in DOMAIN outflow PROVE bound2[x] = bound[x]
  <2>1. PICK c : c \in C /\ c.id = x
    BY <1>4
  <2>2. bound[x] = BoundOf(f, x) /\ bound2[x] = BoundOf(f2, x)
    <3>1. x \in {o.id : o \in C} /\ x \in {o.id : o \in C2}
      BY <1>3, <2>1
    <3> QED BY <1>1, <1>2, <3>1 DEF BoundsOf
  <2>3. PICK S, R : /\ S = {j \in DOMAIN f : x \in DOMAIN f[j].bound}
                    /\ R = {j \in DOMAIN f2 : x \in DOMAIN f2[j].bound}
    OBVIOUS
  <2>4. S = R /\ \A i \in S : f2[i] = f[i]
    BY <1>3, <2>1, <2>3
  <2>5. [i \in S |-> f[i].bound[x]] = [i \in R |-> f2[i].bound[x]]
    BY <2>4
  <2>6. BoundOf(f, x) = BoundOf(f2, x)
    BY <2>3, <2>5 DEF BoundOf
  <2> QED BY <2>2, <2>6
<1>11. GoesOn(lots, outflow, bound, lots2, outflow2, bound2)
  BY <1>6, <1>7, <1>9, <1>10 DEF GoesOn
<1> QED BY <1>1, <1>2, <1>11

\* With more of history and no less cap, the residual grows by the new lots at most.
LEMMA MoreReplayed ==
  ASSUME NEW f, FlowsOK(f), NEW f2, FlowsOK(f2), NEW C, OutOK(C), NEW C2, OutOK(C2),
         MoreHistory(f, C, f2, C2), NEW cap \in Nat, NEW cap2 \in Nat, cap <= cap2,
         NEW New, New = DOMAIN f2 \ DOMAIN f,
         NEW r, r = Expectation(f, C, cap).residual,
         NEW r2, r2 = Expectation(f2, C2, cap2).residual
  PROVE  r \in Int /\ r2 \in Int /\ r2 <= r + SumFunction([i \in New |-> Lot(f2[i]).residual])
<1>1. PICK lots, outflow, bound : /\ lots = LotsOf(f) /\ outflow = ById(C)
                                  /\ bound = BoundsOf(f, C)
  OBVIOUS
<1>2. PICK lots2, outflow2, bound2 : /\ lots2 = LotsOf(f2) /\ outflow2 = ById(C2)
                                     /\ bound2 = BoundsOf(f2, C2)
  OBVIOUS
<1>3. ReplayOK(lots, outflow, bound, cap)
  BY <1>1, ReplayFits
<1>4. ReplayOK(lots2, outflow2, bound2, cap2)
  BY <1>2, ReplayFits
<1>5. GoesOn(lots, outflow, bound, lots2, outflow2, bound2)
  BY <1>1, <1>2, HistoryGoesOn
<1>6. PICK key, key2 : /\ key = [x \in DOMAIN outflow |-> <<outflow[x].at, 0>>]
                       /\ key2 = [x \in DOMAIN outflow2 |-> <<outflow2[x].at, 0>>]
  OBVIOUS
<1>7. PICK t, t2 : /\ t = TakenBy(lots, outflow, bound, cap, InOrder(key))
                   /\ t2 = TakenBy(lots2, outflow2, bound2, cap2, InOrder(key2))
  OBVIOUS
<1>8. t.residual \in Nat /\ t2.residual \in Nat /\ t.residual <= t2.residual
  BY <1>3, <1>4, <1>5, <1>6, <1>7, MoreTaken
<1>9. r = LotsSum(lots, DOMAIN lots).residual - t.residual
  <2>1. Expectation(f, C, cap) = Replay(lots, outflow, bound, cap)
    BY <1>1, ExpectationIs
  <2> QED BY <1>6, <1>7, <2>1 DEF Replay
<1>10. r2 = LotsSum(lots2, DOMAIN lots2).residual - t2.residual
  <2>1. Expectation(f2, C2, cap2) = Replay(lots2, outflow2, bound2, cap2)
    BY <1>2, ExpectationIs
  <2> QED BY <1>6, <1>7, <2>1 DEF Replay
<1>11. PICK a, b, h : /\ a = [i \in DOMAIN f |-> Lot(f2[i]).residual]
                      /\ b = [i \in New |-> Lot(f2[i]).residual]
                      /\ h = [i \in DOMAIN f2 |-> Lot(f2[i]).residual]
  OBVIOUS
<1>12. SumParts(h, DOMAIN f2, a, DOMAIN f, b, New)
  <2>1. DOMAIN f \subseteq DOMAIN f2
    BY DEF MoreHistory
  <2>2. h \in [DOMAIN f2 -> Int]
    BY <1>11 DEF FlowsOK
  <2> QED BY <1>11, <2>1, <2>2 DEF SumParts
<1>13. /\ SumFunction(h) = SumFunction(a) + SumFunction(b)
       /\ SumFunction(a) \in Int /\ SumFunction(b) \in Int
  <2>1. IsFiniteSet(DOMAIN f2)
    BY DEF FlowsOK
  <2> QED BY <1>12, <2>1, SumBoth
<1>14. LotsSum(lots2, DOMAIN lots2).residual = SumFunction(h)
  <2>1. DOMAIN lots2 = DOMAIN f2 /\ \A i \in DOMAIN f2 : lots2[i] = Lot(f2[i])
    BY <1>2 DEF LotsOf
  <2>2. [i \in DOMAIN lots2 |-> lots2[i].residual] = h
    BY <1>11, <2>1
  <2> QED BY <2>2 DEF LotsSum
<1>15. LotsSum(lots, DOMAIN lots).residual = SumFunction(a)
  <2>1. DOMAIN lots = DOMAIN f /\ \A i \in DOMAIN f : lots[i] = Lot(f[i])
    BY <1>1 DEF LotsOf
  <2>2. [i \in DOMAIN lots |-> lots[i].residual] = a
    BY <1>11, <2>1 DEF MoreHistory
  <2> QED BY <2>2 DEF LotsSum
<1> QED BY <1>8, <1>9, <1>10, <1>11, <1>13, <1>14, <1>15

-----------------------------------------------------------------------------
(* The ledger learns of the transfers in the order of time *)

\* What the ledger says of the other party: a named row is younger than every
\* unnamed one, which no scan reaches any more.
NamesInOrder(R, start) ==
  \A r, s \in R : r.to # None /\ s.to = None => s.at < r.at /\ s.at < start

NamingOK ==
  /\ \A m \in moves : m.to # None
  /\ \A r \in recorded : r.at <= cursor /\ (r.to # None => naming)
  /\ NamesInOrder(recorded, ScanStart)

LEMMA StartType ==
  ASSUME HoldingsInv, NEW t \in {Never} \cup 0..now
  PROVE  /\ t \in Int /\ (IF t = Never THEN 0 ELSE Monus(t, Overlap)) \in Nat
         /\ t # Never => (IF t = Never THEN 0 ELSE Monus(t, Overlap)) <= t
<1>1. now \in Nat /\ Overlap \in Nat
  BY HoldingsAssumption DEF HoldingsInv
<1>2. CASE t = Never
  BY <1>2 DEF Never
<1>3. CASE t # Never
  <2>1. t \in Nat
    BY <1>1, <1>3
  <2>2. Monus(t, Overlap) \in Nat /\ Monus(t, Overlap) <= t
    BY <1>1, <2>1 DEF Monus
  <2> QED BY <1>3, <2>1, <2>2
<1> QED BY <1>2, <1>3

LEMMA StartGrows ==
  ASSUME HoldingsInv, ScanStart' = Monus(now, Overlap)
  PROVE  ScanStart \in Nat /\ ScanStart' \in Nat /\ ScanStart <= ScanStart'
<1>1. now \in Nat /\ Overlap \in Nat /\ cursor \in {Never} \cup 0..now
  BY HoldingsAssumption DEF HoldingsInv, LedgerOK
<1>2. PICK x : x = Monus(now, Overlap)
  OBVIOUS
<1>3. x \in Nat
  BY <1>1, <1>2 DEF Monus
<1>4. CASE cursor = Never
  BY <1>2, <1>3, <1>4 DEF ScanStart
<1>5. CASE cursor # Never
  <2>1. cursor \in Nat /\ cursor <= now
    BY <1>1, <1>5
  <2>2. Monus(cursor, Overlap) \in Nat /\ Monus(cursor, Overlap) <= x
    BY <1>1, <1>2, <2>1 DEF Monus
  <2> QED BY <1>2, <1>3, <1>5, <2>2 DEF ScanStart
<1> QED BY <1>4, <1>5

\* The rows of a scan.
LEMMA ScanNames ==
  ASSUME HoldingsInv, NamingOK, NEW R, R = Scan(ScanStart, now), NEW r \in R
  PROVE  /\ r.at \in ScanStart..now
         /\ (r.to # None) <=> naming
         /\ \E m \in moves : r.id = m.id /\ r.at = m.at /\ r.dir = m.dir /\ m.dir # "sale"
                             /\ r.to = (IF naming THEN m.to ELSE None)
<1>1. PICK m \in moves : m.dir # "sale" /\ m.at \in ScanStart..now /\ r = AsSeen(m)
  BY DEF Scan, AsSeen
<1>2. MoveOK(m) /\ m.to # None
  BY DEF HoldingsInv, MovesOK, NamingOK
<1>3. r.id = m.id /\ r.at = m.at /\ r.dir = m.dir /\ r.to = (IF naming THEN m.to ELSE None)
  BY <1>1, <1>2 DEF AsSeen, MoveOK
<1> QED BY <1>1, <1>2, <1>3

\* A complete scan is recorded.
LEMMA RecordNames ==
  ASSUME HoldingsInv, NamingOK, NEW seen, seen = Scan(ScanStart, now),
         NEW after, after = Record(recorded, seen), NEW start \in Nat, ScanStart <= start,
         ScanStart \in Nat
  PROVE  /\ \A r \in after : r.at <= now /\ (r.to # None => naming)
         /\ NamesInOrder(after, start)
<1>1. PICK A, B : /\ A = {Filled(r, seen) : r \in recorded} /\ B = {m \in seen : ~Lists(recorded, m.id)}
                  /\ after = A \cup B
  BY RecordIs
<1>2. \A t \in after : t \in seen \/ (t \in recorded /\ (t.to = None => ~Lists(seen, t.id)))
  <2>1. ASSUME NEW t \in A PROVE t \in seen \/ (t \in recorded /\ (t.to = None => ~Lists(seen, t.id)))
    <3>1. PICK r \in recorded : t = Filled(r, seen)
      BY <1>1
    <3>2. CASE r.to = None /\ Lists(seen, r.id)
      <4>1. \E v \in seen : v.id = r.id
        BY <3>2 DEF Lists
      <4>2. OfId(seen, r.id) \in seen
        BY <4>1, OfIdIs
      <4> QED BY <3>1, <3>2, <4>2 DEF Filled
    <3>3. CASE ~(r.to = None /\ Lists(seen, r.id))
      BY <3>1, <3>3 DEF Filled
    <3> QED BY <3>2, <3>3
  <2> QED BY <1>1, <2>1
<1>3. now \in Nat /\ cursor \in Int /\ cursor <= now
  BY StartType DEF HoldingsInv, LedgerOK, Never
<1>4. \A r \in recorded : MoveOK(r) /\ r.dir # "sale" /\ r.at \in 1..now
  BY RowsTyped DEF HoldingsInv, LedgerOK
<1>5. ASSUME NEW t \in after PROVE t.at <= now /\ (t.to # None => naming)
  <2>1. CASE t \in seen
    <3>1. t.at \in ScanStart..now /\ (t.to # None <=> naming)
      BY <2>1, ScanNames
    <3> QED BY <1>3, <3>1
  <2>2. CASE t \in recorded
    BY <1>4, <2>2 DEF NamingOK
  <2> QED BY <1>2, <2>1, <2>2
<1>6. ASSUME NEW r \in after, NEW s \in after, r.to # None, s.to = None
      PROVE  s.at < r.at /\ s.at < start
  <2>1. naming
    BY <1>5, <1>6
  <2>2. s \notin seen
    BY <1>6, <2>1, ScanNames
  <2>3. s \in recorded /\ ~Lists(seen, s.id)
    BY <1>2, <1>6, <2>2
  <2>4. PICK m \in moves : Shows(s, m)
    BY <2>3 DEF HoldingsInv, LedgerOK, RowsOK
  <2>5. s.id = m.id /\ s.at = m.at /\ m.dir # "sale"
    BY <2>4, ShownAlike DEF HoldingsInv, MovesOK, Shows
  <2>6. ~(m.at \in ScanStart..now)
    BY <2>3, <2>5, ScanOK DEF HoldingsInv
  <2>7. s.at \in Nat /\ s.at <= now
    BY <1>4, <2>3
  <2>8. s.at < ScanStart
    BY <1>3, <2>5, <2>6, <2>7
  <2>9. s.at < r.at
    <3>1. CASE r \in seen
      <4>1. r.at \in ScanStart..now
        BY <3>1, ScanNames
      <4> QED BY <1>3, <2>7, <2>8, <4>1
    <3>2. CASE r \in recorded
      BY <1>6, <2>3, <3>2 DEF NamingOK, NamesInOrder
    <3> QED BY <1>2, <3>1, <3>2
  <2> QED BY <2>7, <2>8, <2>9
<1> QED BY <1>5, <1>6 DEF NamesInOrder

LEMMA FinishNames == ASSUME HoldingsInv, NamingOK, FinishCycle PROVE NamingOK'
<1>1. moves' = moves /\ naming' = naming
  BY DEF FinishCycle
<1>2. PICK asOf \in cyc.asked..now, complete \in BOOLEAN :
        \/ Halt(IF complete THEN Scan(ScanStart, now) ELSE {}, asOf)
        \/ Commit(IF complete THEN Scan(ScanStart, now) ELSE {}, asOf, complete)
  BY DEF FinishCycle
<1>3. CASE recorded' = recorded /\ cursor' = cursor
  BY <1>1, <1>3 DEF NamingOK, NamesInOrder, ScanStart
<1>4. CASE complete /\ recorded' = Record(recorded, Scan(ScanStart, now)) /\ cursor' = now
  <2>0. now \in Nat /\ now # Never
    BY DEF HoldingsInv, Never
  <2>1. ScanStart' = Monus(now, Overlap)
    BY <1>4, <2>0 DEF ScanStart
  <2>2. ScanStart \in Nat /\ ScanStart' \in Nat /\ ScanStart <= ScanStart'
    BY <2>1, StartGrows
  <2>3. PICK after, start : after = recorded' /\ start = ScanStart'
    OBVIOUS
  <2>4. /\ \A r \in after : r.at <= now /\ (r.to # None => naming)
        /\ NamesInOrder(after, start)
    BY <1>4, <2>2, <2>3, RecordNames
  <2>5. NamesInOrder(recorded', ScanStart')
    BY <2>3, <2>4
  <2> QED BY <1>1, <1>4, <2>3, <2>4, <2>5 DEF NamingOK, NamesInOrder
<1>5. CASE Halt(IF complete THEN Scan(ScanStart, now) ELSE {}, asOf)
  BY <1>3, <1>5 DEF Halt
<1>6. CASE Commit(IF complete THEN Scan(ScanStart, now) ELSE {}, asOf, complete)
  <2>1. CASE complete
    BY <1>4, <1>6, <2>1 DEF Commit
  <2>2. CASE ~complete
    <3>1. recorded' = Record(recorded, {}) /\ cursor' = cursor
      BY <1>6, <2>2 DEF Commit
    <3>2. Record(recorded, {}) = recorded
      <4>1. Record(recorded, {}) = {Filled(r, {}) : r \in recorded} \cup {m \in {} : ~Lists(recorded, m.id)}
        BY RecordIs
      <4>2. \A r \in recorded : Filled(r, {}) = r
        BY DEF Filled, Lists
      <4> QED BY <4>1, <4>2
    <3> QED BY <1>3, <3>1, <3>2
  <2> QED BY <2>1, <2>2
<1> QED BY <1>2, <1>5, <1>6

LEMMA NamesStep == ASSUME HoldingsInv, NamingOK, [Next]_vars PROVE NamingOK'
<1>1. CASE FinishCycle
  BY <1>1, FinishNames
<1>2. CASE Move
  <2>1. recorded' = recorded /\ cursor' = cursor /\ naming' = naming
    BY <1>2 DEF Move
  <2>2. PICK route \in Routes, amount \in Amounts :
          moves' = moves \cup {[id |-> now', dir |-> route[1], amount |-> amount, at |-> now',
                                to |-> route[2],
                                offered |-> route[2] = "custodian" /\ amount <= offer]}
    BY <1>2 DEF Move
  <2>3. route[2] # None
    BY HoldingsAssumption DEF None
  <2>4. \A m \in moves' : m.to # None
    BY <2>2, <2>3 DEF NamingOK
  <2> QED BY <2>1, <2>4 DEF NamingOK, NamesInOrder, ScanStart
<1>3. CASE ~Move /\ ~FinishCycle
  <2>1. moves' = moves /\ recorded' = recorded /\ cursor' = cursor
    BY ZenonT(60), <1>3 DEF Next, vars, StartNaming, Execute, Reconcile, Resolve, Settle, Backfill, StartCycle,
                PrepareDecision, Tick, LibraryCall
  <2>2. naming' = naming \/ naming' = TRUE
    BY Zenon, <1>3 DEF Next, vars, StartNaming, Execute, Reconcile, Resolve, Settle, Backfill, StartCycle,
                PrepareDecision, Tick, LibraryCall
  <2> QED BY SMTT(60), <2>1, <2>2 DEF NamingOK, NamesInOrder, ScanStart
<1> QED BY <1>1, <1>2, <1>3

LEMMA NamesStart == ASSUME Init PROVE NamingOK
BY DEF Init, NamingOK, NamesInOrder

\* No HYPE comes in or goes anywhere but to the custodian.
OnlyStaked == \A m \in moves : m.dir # "in" /\ (m.dir = "out" => m.to = "custodian")

Cap == CustodianCredit(Books)

LEMMA CapIs ==
  ASSUME HoldingsInv, OnlyStaked,
         NEW out, out = SumOf(recorded, "out"), NEW cust, cust = SumOf(CustodianOutflows(recorded), "out")
  PROVE  /\ out \in Nat /\ cust \in Nat /\ Credited \in Nat /\ Cap \in Nat
         /\ Cap = IF Complete THEN Monus(Lesser(out, Credited), Monus(out, cust)) ELSE 0
<1>1. MovesOK /\ RowsOK(recorded) /\ RowsOK(CustodianOutflows(recorded))
  BY RowsPart DEF HoldingsInv, LedgerOK, CustodianOutflows
<1>2. out \in Nat /\ cust \in Nat /\ Credited \in Nat
  BY <1>1, SumsOfRows, SumsOfDays DEF HoldingsInv
<1>3. SumOf(recorded, "in") = 0
  <2>1. \A r \in recorded : r.dir # "in"
    <3>1. SUFFICES ASSUME NEW r \in recorded PROVE r.dir # "in"
      OBVIOUS
    <3>2. PICK m \in moves : Shows(r, m)
      BY <1>1 DEF RowsOK
    <3>3. r.dir = m.dir
      BY <1>1, <3>2, ShownAlike DEF MovesOK
    <3> QED BY <3>3 DEF OnlyStaked
  <2>2. PICK D, f : D = {v \in recorded : v.dir = "in"} /\ f = [m \in D |-> m.amount]
    OBVIOUS
  <2>3. D = {}
    BY <2>1, <2>2
  <2>4. SumFunction(f) = 0
    BY <2>2, <2>3, SumEmpty
  <2> QED BY <2>2, <2>4 DEF SumOf
<1>4. PICK cr, a, all : cr = Credited /\ all = Complete /\ a = Books
  OBVIOUS
<1>5. a = [credited |-> cr, complete |-> all, inflow |-> 0, outflow |-> out, custodian |-> cust]
  BY <1>3, <1>4 DEF Books, Attributed
<1>6. Monus(out, 0) = out
  BY <1>2 DEF Monus
<1>7. TransferredToCustodian(a) = Monus(Lesser(out, cr), Monus(out, cust))
  BY <1>5, <1>6 DEF TransferredToCustodian, TransferredOut
<1>8. Cap = IF all THEN TransferredToCustodian(a) ELSE 0
  BY <1>4, <1>5 DEF Cap, CustodianCredit
<1>9. Monus(Lesser(out, cr), Monus(out, cust)) \in Nat
  BY <1>2, <1>4 DEF Monus, Lesser
<1>10. Cap = IF Complete THEN Monus(Lesser(out, Credited), Monus(out, cust)) ELSE 0
  BY <1>4, <1>7, <1>8
<1>11. Cap \in Nat
  BY <1>4, <1>9, <1>10
<1> QED BY <1>2, <1>10, <1>11

\* The sum over rows and over more rows.
LEMMA SumOfMore ==
  ASSUME NEW A, IsFiniteSet(A), NEW B, IsFiniteSet(B), \A r \in A \cup B : r.amount \in Nat,
         \A r \in A : r \notin B, NEW dir, NEW T, T = A \cup B
  PROVE  /\ SumOf(A, dir) \in Nat /\ SumOf(B, dir) \in Nat
         /\ SumOf(T, dir) = SumOf(A, dir) + SumOf(B, dir)
<1>1. PICK D, E, F : /\ D = {v \in T : v.dir = dir} /\ E = {v \in A : v.dir = dir}
                     /\ F = {v \in B : v.dir = dir}
  OBVIOUS
<1>2. PICK f, a, b : /\ f = [m \in D |-> m.amount] /\ a = [m \in E |-> m.amount]
                     /\ b = [m \in F |-> m.amount]
  OBVIOUS
<1>3. E \subseteq D /\ F = D \ E
  BY <1>1
<1>4. f \in [D -> Nat] /\ a \in [E -> Nat] /\ b \in [F -> Nat]
  BY <1>1, <1>2
<1>5. IsFiniteSet(D) /\ IsFiniteSet(E) /\ IsFiniteSet(F)
  <2>1. IsFiniteSet(T)
    BY FS_Union
  <2>2. IsFiniteSet(D)
    BY <1>1, <2>1, FS_Subset
  <2> QED BY <1>3, <2>2, FS_Subset
<1>6. SumParts(f, D, a, E, b, F)
  BY <1>2, <1>3, <1>4 DEF SumParts
<1>7. SumFunction(f) = SumFunction(a) + SumFunction(b)
  BY <1>5, <1>6, SumBoth
<1>8. SumFunction(a) \in Nat /\ SumFunction(b) \in Nat
  BY <1>4, <1>5, SumNat
<1> QED BY <1>1, <1>2, <1>7, <1>8 DEF SumOf

LEMMA StartNat == ASSUME HoldingsInv PROVE ScanStart \in Nat /\ now \in Nat
<1>1. cursor \in {Never} \cup 0..now /\ now \in Nat
  BY DEF HoldingsInv, LedgerOK
<1> QED BY <1>1, StartType DEF ScanStart

\* A ledger that grew: what is replayed of it goes on where it ended.
Later(C, C2) == C \subseteq C2 /\ \A c \in C : \A d \in C2 : d \notin C => c.at < d.at

\* What a complete scan adds once rows are named is named and younger.
LEMMA RecordAdds ==
  ASSUME HoldingsInv, NamingOK, OnlyStaked, NEW seen, seen = Scan(ScanStart, now),
         NEW after, after = Record(recorded, seen), NEW one \in recorded, one.to # None
  PROVE  \E B : /\ after = recorded \cup B /\ IsFiniteSet(B)
                /\ \A b \in B : b \notin recorded /\ b.amount \in Nat /\ (b.dir = "out" => ToCustodian(b))
                /\ \A b \in B : \A r \in recorded : r.at < b.at
<1>1. PICK A, B : /\ A = {Filled(r, seen) : r \in recorded} /\ B = {m \in seen : ~Lists(recorded, m.id)}
                  /\ after = A \cup B
  BY RecordIs
<1>2. naming
  BY DEF NamingOK
<1>3. RowsOK(seen)
  BY ScanOK DEF HoldingsInv
<1>4. \A r \in recorded : MoveOK(r) /\ r.at \in 1..now
  BY RowsTyped DEF HoldingsInv, LedgerOK
<1>5. ASSUME NEW r \in recorded PROVE Filled(r, seen) = r
  <2>1. CASE r.to = None /\ Lists(seen, r.id)
    <3>1. r.at < ScanStart
      BY <2>1 DEF NamingOK, NamesInOrder
    <3>2. PICK s \in seen : s.id = r.id
      BY <2>1 DEF Lists
    <3>3. s.at \in ScanStart..now /\ MoveOK(s)
      BY <1>3, ScanNames, RowsTyped DEF HoldingsInv
    <3>4. s.at = s.id /\ r.at = r.id
      BY <1>4, <3>3 DEF MoveOK
    <3>5. r.at \in ScanStart..now
      BY <3>2, <3>3, <3>4
    <3> QED BY <3>1, <3>5, StartNat
  <2>2. CASE ~(r.to = None /\ Lists(seen, r.id))
    BY <2>2 DEF Filled
  <2> QED BY <2>1, <2>2
<1>6. A = recorded
  BY <1>1, <1>5
<1>7. IsFiniteSet(B)
  BY <1>1, <1>3, FS_Subset DEF RowsOK
<1>8. ASSUME NEW b \in B
      PROVE  /\ b \notin recorded /\ b.amount \in Nat /\ (b.dir = "out" => ToCustodian(b))
             /\ \A r \in recorded : r.at < b.at
  <2>1. b \in seen /\ ~Lists(recorded, b.id)
    BY <1>1
  <2>2. b \notin recorded
    BY <2>1 DEF Lists
  <2>3. MoveOK(b) /\ b.at \in 1..now
    BY <1>3, <2>1, RowsTyped DEF HoldingsInv
  <2>4. PICK m \in moves : b.id = m.id /\ b.at = m.at /\ b.dir = m.dir /\ m.dir # "sale" /\ b.to = m.to
    BY <1>2, <2>1, ScanNames
  <2>5. b.dir = "out" => ToCustodian(b)
    BY <2>4 DEF OnlyStaked, ToCustodian
  <2>6. ~(m.at <= cursor)
    BY <2>1, <2>4 DEF HoldingsInv, LedgerOK
  <2>7. cursor \in Int /\ b.at \in Int
    BY <2>3, StartType DEF HoldingsInv, LedgerOK
  <2>8. ASSUME NEW r \in recorded PROVE r.at < b.at
    <3>1. r.at <= cursor /\ r.at \in Int
      BY <1>4 DEF NamingOK
    <3> QED BY <2>4, <2>6, <2>7, <3>1
  <2> QED BY <2>2, <2>3, <2>5, <2>8 DEF MoveOK
<1> QED BY <1>1, <1>6, <1>7, <1>8

\* A settled purchase without a row is over.
SettledOver ==
  Account => \A i \in DOMAIN days :
               days[i].settled /\ days[i].row = <<>> => days[i].w.stage = "complete"

\* What a step on a decision leaves of it.
DayGoes(e, d) ==
  /\ e.b = d.b
  /\ d.w.stage = "complete" => e.w = d.w
  /\ e.settled /\ e.row = <<>> => d.settled /\ d.row = <<>> /\ e.w = d.w

OneGoes(i) == \E e : days' = [days EXCEPT ![i] = e] /\ DayGoes(e, days[i])

LEMMA ExecuteGoes ==
  ASSUME HoldingsInv, NEW i \in DOMAIN days, Execute(i)
  PROVE  OneGoes(i)
<1>1. PICK v \in Outcomes :
        days' = [days EXCEPT ![i].bought =
                   <<[matched |-> v.matched, credited |-> v.credited, at |-> now']>>]
  BY DEF Execute
<1>2. PICK d : d = days[i] /\ DayShape(d)
  BY DEF HoldingsInv, DaysOK, DayOK
<1>3. PICK e : e = [d EXCEPT !.bought = <<[matched |-> v.matched, credited |-> v.credited, at |-> now']>>]
  OBVIOUS
<1>4. days' = [days EXCEPT ![i] = e]
  BY <1>1, <1>2, <1>3
<1>5. e.b = d.b /\ e.w = d.w /\ e.settled = d.settled /\ e.row = d.row
  BY <1>2, <1>3 DEF DayShape
<1>6. DayGoes(e, d)
  BY <1>5 DEF DayGoes
<1> QED BY <1>2, <1>4, <1>6 DEF OneGoes

LEMMA ToldGoes ==
  ASSUME NEW d, DayShape(d), NEW c, NEW at, NEW e, e = Told(d, c, at)
  PROVE  DayShape(e) /\ e.b = d.b /\ e.settled = d.settled /\ e.row = d.row
BY DEF Told, DayShape

LEMMA TellGoes ==
  ASSUME SettledOver, Account, NEW i \in DOMAIN days, days[i].w.stage # "complete",
         NEW e, days' = [days EXCEPT ![i] = e],
         e.b = days[i].b, e.settled = days[i].settled, e.row = days[i].row
  PROVE  OneGoes(i)
BY DEF OneGoes, DayGoes, SettledOver

LEMMA ReconcileGoes ==
  ASSUME HoldingsInv, SettledOver, NEW i \in DOMAIN days, Reconcile(i)
  PROVE  OneGoes(i)
<1>1. PICK d : d = days[i] /\ DayShape(d) /\ d.w.stage = "decided"
  BY DEF HoldingsInv, DaysOK, DayOK, Reconcile
<1>2. PICK a, b, c : days' = [days EXCEPT ![i] = Told(Told(Told(d, a, now'), b, now'), c, now')]
  BY ZenonT(60), <1>1 DEF Reconcile
<1>3. PICK x : x = Told(d, a, now')
  OBVIOUS
<1>4. PICK y : y = Told(x, b, now')
  OBVIOUS
<1>5. PICK e : e = Told(y, c, now')
  OBVIOUS
<1>6. DayShape(x) /\ x.b = d.b /\ x.settled = d.settled /\ x.row = d.row
  BY <1>1, <1>3, ToldGoes
<1>7. DayShape(y) /\ y.b = x.b /\ y.settled = x.settled /\ y.row = x.row
  BY <1>4, <1>6, ToldGoes
<1>8. e.b = y.b /\ e.settled = y.settled /\ e.row = y.row
  BY <1>5, <1>7, ToldGoes
<1>9. days' = [days EXCEPT ![i] = e]
  BY <1>2, <1>3, <1>4, <1>5
<1>10. e.b = days[i].b /\ e.settled = days[i].settled /\ e.row = days[i].row /\ days[i].w.stage # "complete"
  BY <1>1, <1>6, <1>7, <1>8
<1> QED BY <1>9, <1>10, TellGoes DEF Reconcile

LEMMA ResolveGoes ==
  ASSUME HoldingsInv, SettledOver, NEW i \in DOMAIN days, Resolve(i)
  PROVE  OneGoes(i)
<1>1. PICK d : d = days[i] /\ DayShape(d) /\ d.w.stage = "order_finalized"
  BY DEF HoldingsInv, DaysOK, DayOK, Resolve
<1>2. PICK a, b : days' = [days EXCEPT ![i] = Told(Told(d, a, now), b, now)]
  BY <1>1 DEF Resolve
<1>3. PICK x : x = Told(d, a, now)
  OBVIOUS
<1>4. PICK e : e = Told(x, b, now)
  OBVIOUS
<1>5. DayShape(x) /\ x.b = d.b /\ x.settled = d.settled /\ x.row = d.row
  BY <1>1, <1>3, ToldGoes
<1>6. e.b = x.b /\ e.settled = x.settled /\ e.row = x.row
  BY <1>4, <1>5, ToldGoes
<1>7. days' = [days EXCEPT ![i] = e]
  BY <1>2, <1>3, <1>4
<1>8. e.b = days[i].b /\ e.settled = days[i].settled /\ e.row = days[i].row /\ days[i].w.stage # "complete"
  BY <1>1, <1>5, <1>6
<1> QED BY <1>7, <1>8, TellGoes DEF Resolve

LEMMA RowIsOne == ASSUME NEW w, NEW row \in Rows(w) PROVE row # <<>>
BY DEF Rows

LEMMA SettleGoes ==
  ASSUME HoldingsInv, NEW i \in DOMAIN days, Settle(i)
  PROVE  OneGoes(i)
<1>1. PICK d : d = days[i] /\ DayShape(d)
  BY DEF HoldingsInv, DaysOK, DayOK
<1>2. PICK row \in Rows(d.w) : days' = [days EXCEPT ![i].settled = TRUE, ![i].row = row]
  BY Zenon, <1>1 DEF Settle
<1>3. PICK e : e = [d EXCEPT !.settled = TRUE, !.row = row]
  OBVIOUS
<1>4. days' = [days EXCEPT ![i] = e]
  BY <1>1, <1>2, <1>3
<1>5. e.w = d.w /\ e.b = d.b /\ e.row = row
  BY <1>1, <1>3 DEF DayShape
<1>6. row # <<>>
  BY RowIsOne
<1>7. DayGoes(e, d)
  BY <1>5, <1>6 DEF DayGoes
<1> QED BY <1>1, <1>4, <1>7 DEF OneGoes

LEMMA BackfillGoes ==
  ASSUME HoldingsInv, NEW i \in DOMAIN days, Backfill(i)
  PROVE  OneGoes(i)
<1>1. PICK d : d = days[i] /\ DayShape(d)
  BY DEF HoldingsInv, DaysOK, DayOK
<1>2. PICK e \in WithRow(d) : days' = [days EXCEPT ![i] = e]
  BY <1>1 DEF Backfill, BackfillOne
<1>3. PICK row \in Rows(d.w) : e = [d EXCEPT !.row = row]
  BY DEF WithRow
<1>4. e.w = d.w /\ e.b = d.b /\ e.row = row
  BY <1>1, <1>3 DEF DayShape
<1>5. row # <<>>
  BY RowIsOne
<1>6. DayGoes(e, d)
  BY <1>4, <1>5 DEF DayGoes
<1> QED BY <1>1, <1>2, <1>6 DEF OneGoes

\* The decisions after a step: the old ones gone on, and perhaps one more.
DaysGo ==
  /\ \A j \in DOMAIN days : j \in DOMAIN days' /\ DayGoes(days'[j], days[j])
  /\ \A j \in DOMAIN days' : j \notin DOMAIN days => ~days'[j].settled

LEMMA OneGoesAll ==
  ASSUME HoldingsInv, NEW i \in DOMAIN days, OneGoes(i)
  PROVE  DaysGo /\ DOMAIN days' = DOMAIN days
<1>1. PICK n \in Nat : days = [j \in 1..n |-> days[j]] /\ DOMAIN days = 1..n
  BY DEF HoldingsInv, DaysOK
<1>2. PICK e : days' = [days EXCEPT ![i] = e] /\ DayGoes(e, days[i])
  BY DEF OneGoes
<1>3. days' = [j \in 1..n |-> IF j = i THEN e ELSE days[j]] /\ DOMAIN days' = 1..n
  BY <1>1, <1>2
<1>4. ASSUME NEW j \in 1..n PROVE DayGoes(days'[j], days[j])
  <2>1. CASE j = i
    BY <1>2, <1>3, <2>1
  <2>2. CASE j # i
    <3>1. days'[j] = days[j]
      BY <1>1, <1>3, <2>2
    <3> QED BY <3>1 DEF DayGoes
  <2> QED BY <2>1, <2>2
<1> QED BY <1>1, <1>3, <1>4 DEF DaysGo

LEMMA PreparedShape ==
  ASSUME NEW b, NEW e, e = Prepared(b)
  PROVE  DayShape(e) /\ e.b = b /\ e.settled = FALSE /\ e.row = <<>> /\ e.bought = <<>>
<1>1. PICK d, c : d = NewDay(b, NewWorkflow(b)) /\ e = Told(d, c, now)
  BY DEF Prepared
<1>2. DayShape(d) /\ d.b = b /\ d.settled = FALSE /\ d.row = <<>> /\ d.bought = <<>>
  BY <1>1 DEF NewDay, DayShape
<1>3. e.bought = d.bought
  BY <1>1, <1>2 DEF Told, DayShape
<1> QED BY <1>1, <1>2, <1>3, ToldGoes

LEMMA PrepareGoes ==
  ASSUME HoldingsInv, PrepareDecision
  PROVE  /\ DaysGo
         /\ \/ days' = days
            \/ \E q \in Quantities, n \in Nat : \E e :
                 /\ n = Len(days) /\ History.answer = "ok" /\ e = Prepared(Binding(q, History.residual))
                 /\ DOMAIN days = 1..n
                 /\ days' = [j \in 1..(n + 1) |-> IF j = n + 1 THEN e ELSE days[j]]
<1>1. CASE days' = days
  BY <1>1 DEF DaysGo, DayGoes
<1>2. ASSUME NEW q \in Quantities, days' = Append(days, Prepared(Binding(q, History.residual))),
             History.answer = "ok"
      PROVE  /\ DaysGo
             /\ \E n \in Nat : \E e :
                 /\ n = Len(days) /\ History.answer = "ok" /\ e = Prepared(Binding(q, History.residual))
                 /\ DOMAIN days = 1..n
                 /\ days' = [j \in 1..(n + 1) |-> IF j = n + 1 THEN e ELSE days[j]]
  <2>1. PICK n \in Nat : n = Len(days) /\ days = [j \in 1..n |-> days[j]] /\ DOMAIN days = 1..n
    BY DEF HoldingsInv, DaysOK
  <2>2. PICK e : e = Prepared(Binding(q, History.residual))
    OBVIOUS
  <2>3. PICK S : S = {days[j] : j \in 1..n} \cup {e}
    OBVIOUS
  <2>4. days \in Seq(S) /\ e \in S
    <3>1. days \in [1..n -> S]
      BY <2>1, <2>3
    <3> QED BY <2>3, <3>1
  <2>5. days' = [j \in 1..(n + 1) |-> IF j = n + 1 THEN e ELSE days[j]]
    BY <1>2, <2>1, <2>2, <2>4, AppendProperties
  <2>6. e.settled = FALSE
    BY <2>2, PreparedShape
  <2>7. ASSUME NEW j \in 1..(n + 1), j \notin 1..n PROVE days'[j].settled = FALSE
    BY <2>5, <2>6, <2>7
  <2>8. ASSUME NEW j \in 1..n PROVE j \in 1..(n + 1) /\ DayGoes(days'[j], days[j])
    <3>1. j \in 1..(n + 1) /\ j # n + 1
      BY <2>8
    <3>2. days'[j] = days[j]
      BY <2>5, <3>1
    <3> QED BY <3>1, <3>2 DEF DayGoes
  <2>9. DOMAIN days' = 1..(n + 1)
    BY <2>5
  <2>10. DaysGo
    BY <2>1, <2>7, <2>8, <2>9 DEF DaysGo
  <2>11. /\ n = Len(days) /\ History.answer = "ok" /\ e = Prepared(Binding(q, History.residual))
         /\ DOMAIN days = 1..n
         /\ days' = [j \in 1..(n + 1) |-> IF j = n + 1 THEN e ELSE days[j]]
    BY Zenon, <1>2, <2>1, <2>2, <2>5
  <2>12. \E m \in Nat : \E x :
           /\ m = Len(days) /\ History.answer = "ok" /\ x = Prepared(Binding(q, History.residual))
           /\ DOMAIN days = 1..m
           /\ days' = [j \in 1..(m + 1) |-> IF j = m + 1 THEN x ELSE days[j]]
    BY Zenon, <2>11
  <2> QED BY Zenon, <2>10, <2>12
<1>3. \/ days' = days
      \/ /\ History.answer = "ok"
         /\ \E q \in Quantities : days' = Append(days, Prepared(Binding(q, History.residual)))
  BY DEF PrepareDecision
<1> QED BY <1>1, <1>2, <1>3

\* Every step but a preparation leaves the number of decisions.
LEMMA StepGoes ==
  ASSUME HoldingsInv, SettledOver, Account, [Next]_vars
  PROVE  DaysGo /\ (~PrepareDecision => DOMAIN days' = DOMAIN days)
<1>1. ASSUME NEW i \in DOMAIN days, Execute(i) \/ Reconcile(i) \/ Resolve(i) \/ Settle(i) \/ Backfill(i)
      PROVE  DaysGo /\ DOMAIN days' = DOMAIN days
  <2>1. OneGoes(i)
    BY <1>1, ExecuteGoes, ReconcileGoes, ResolveGoes, SettleGoes, BackfillGoes
  <2> QED BY <2>1, OneGoesAll
<1>2. CASE Move \/ StartNaming \/ StartCycle \/ FinishCycle \/ UNCHANGED vars
  <2>1. days' = days
    BY <1>2 DEF Move, StartNaming, StartCycle, FinishCycle, vars
  <2> QED BY <2>1 DEF DaysGo, DayGoes
<1>3. CASE PrepareDecision
  BY <1>3, PrepareGoes
<1>4. CASE Tick \/ LibraryCall
  BY <1>4 DEF Tick, LibraryCall
<1> QED BY <1>1, <1>2, <1>3, <1>4 DEF Next

LEMMA SettledStays == ASSUME HoldingsInv, SettledOver, [Next]_vars PROVE SettledOver'
<1>1. SUFFICES ASSUME Account' PROVE SettledOver'
  BY DEF SettledOver
<1>2. Account
  BY ZenonT(60), <1>1 DEF Account, Next, vars, Move, StartNaming, Execute, Reconcile, Resolve, Settle, Backfill,
              StartCycle, FinishCycle, PrepareDecision, Tick, LibraryCall
<1>3. DaysGo
  BY <1>2, StepGoes
<1>4. ASSUME NEW j \in DOMAIN days', days'[j].settled /\ days'[j].row = <<>>
      PROVE  days'[j].w.stage = "complete"
  <2>1. j \in DOMAIN days
    BY <1>3, <1>4 DEF DaysGo
  <2>2. days[j].settled /\ days[j].row = <<>> /\ days'[j].w = days[j].w
    BY <1>3, <1>4, <2>1 DEF DaysGo, DayGoes
  <2> QED BY <1>2, <2>1, <2>2 DEF SettledOver
<1> QED BY <1>4 DEF SettledOver

LEMMA CompleteStays ==
  ASSUME HoldingsInv, SettledOver, Account, [Next]_vars, Complete
  PROVE  Complete'
<1>1. DaysGo
  BY StepGoes
<1>2. ASSUME NEW j \in DOMAIN days' PROVE ~Missing(j)'
  <2>1. CASE j \in DOMAIN days
    BY <1>1, <2>1 DEF DaysGo, DayGoes, Complete, Missing
  <2>2. CASE j \notin DOMAIN days
    BY <1>1, <2>2 DEF DaysGo, Missing
  <2> QED BY <2>1, <2>2
<1> QED BY <1>2 DEF Complete

LEMMA SettledStart == ASSUME Init PROVE SettledOver
<1>1. SUFFICES ASSUME Account PROVE SettledOver
  BY DEF SettledOver
<1>2. CASE terms.legacy > 0
  <2>1. days = <<LegacyDay(terms.legacy)>>
    BY <1>1, <1>2 DEF Init, Account
  <2>2. LegacyDay(terms.legacy).w.stage = "complete"
    BY Zenon DEF LegacyDay, NewDay, NewWorkflow
  <2>3. DOMAIN days = {1} /\ days[1] = LegacyDay(terms.legacy)
    BY <2>1
  <2> QED BY <2>2, <2>3 DEF SettledOver
<1>3. CASE ~(terms.legacy > 0)
  BY <1>1, <1>3 DEF Init, Account, SettledOver
<1> QED BY <1>2, <1>3

\* What the ledger has of the transfers until t.
KnownBy(t) == {o \in Replayed : o.at <= t}

LEMMA CapType == HoldingsInv /\ OnlyStaked => Cap \in Nat /\ Credited \in Nat
BY CapIs

LEMMA CapTypeNext == (HoldingsInv /\ OnlyStaked => Cap \in Nat /\ Credited \in Nat)'
BY CapType, PTL

CapOf(out, cust, credit) == Monus(Lesser(out, credit), Monus(out, cust))

LEMMA CapSum ==
  HoldingsInv /\ OnlyStaked =>
    /\ SumOf(recorded, "out") \in Nat /\ SumOf(CustodianOutflows(recorded), "out") \in Nat
    /\ Cap = IF Complete THEN CapOf(SumOf(recorded, "out"), SumOf(CustodianOutflows(recorded), "out"), Credited)
             ELSE 0
BY CapIs DEF CapOf

LEMMA CapSumNext ==
  (HoldingsInv /\ OnlyStaked =>
    /\ SumOf(recorded, "out") \in Nat /\ SumOf(CustodianOutflows(recorded), "out") \in Nat
    /\ Cap = IF Complete THEN CapOf(SumOf(recorded, "out"), SumOf(CustodianOutflows(recorded), "out"), Credited)
             ELSE 0)'
BY CapSum, PTL

LEMMA CapMore ==
  ASSUME NEW out \in Nat, NEW cust \in Nat, NEW credit \in Nat, NEW x \in Nat, NEW credit2 \in Nat,
         credit <= credit2
  PROVE  CapOf(out, cust, credit) <= CapOf(out + x, cust + x, credit2)
BY DEF CapOf, Monus, Lesser

LEMMA StillStaked == ASSUME OnlyStaked', moves \subseteq moves' PROVE OnlyStaked
BY SMTT(60) DEF OnlyStaked

LEMMA MovesStay == ASSUME [Next]_vars PROVE moves \subseteq moves'
BY ZenonT(60) DEF Next, vars, Move, StartNaming, Execute, Reconcile, Resolve, Settle, Backfill,
       StartCycle, FinishCycle, PrepareDecision, Tick, LibraryCall

LEMMA CreditedStays ==
  ASSUME HoldingsInv, Chronicle, FillsKnown, Account, [Next]_vars
  PROVE  Credited \in Nat /\ Credited' \in Nat /\ Credited <= Credited'
<1>1. PICK credit, credit2 : credit = Credited /\ credit2 = Credited'
  OBVIOUS
<1>2. RowsStay(days, days') /\ DaysOK'
  BY DaysStep, StepKeeps DEF HoldingsInv
<1>3. ListOK(days) /\ credit = CreditsOf(days, Rowed(days))
  BY <1>1, DaysListed DEF HoldingsInv
<1>4. ListOK(days') /\ credit2 = CreditsOf(days', Rowed(days'))
  <2>1. PICK n \in Nat : DOMAIN days' = 1..n
    BY <1>2 DEF DaysOK
  <2>2. \A j \in Rowed(days') : days'[j].row[1] \in Nat
    BY <1>2 DEF DaysOK, DayOK, DayAmounts, Rowed
  <2>3. ListOK(days')
    BY <2>1, <2>2 DEF ListOK
  <2>4. credit2 = CreditsOf(days', Rowed(days'))
    BY <1>1 DEF Credited, CreditsOf, Rowed
  <2> QED BY <2>3, <2>4
<1>5. Rowed(days) \subseteq Rowed(days')
  BY <1>2, RowedStays
<1> QED BY <1>1, <1>2, <1>3, <1>4, <1>5, CreditsGrow

\* What becomes of the ledger in a step.
Recording ==
  recorded' = recorded \/ recorded' = Record(recorded, Scan(ScanStart, now))

LEMMA StepRecords == ASSUME HoldingsInv, [Next]_vars PROVE Recording
<1>1. CASE FinishCycle
  <2>1. PICK asOf \in cyc.asked..now, complete \in BOOLEAN :
          \/ Halt(IF complete THEN Scan(ScanStart, now) ELSE {}, asOf)
          \/ Commit(IF complete THEN Scan(ScanStart, now) ELSE {}, asOf, complete)
    BY <1>1 DEF FinishCycle
  <2>2. CASE Halt(IF complete THEN Scan(ScanStart, now) ELSE {}, asOf)
    BY <2>2 DEF Halt, Recording
  <2>3. CASE Commit(IF complete THEN Scan(ScanStart, now) ELSE {}, asOf, complete)
    <3>1. CASE complete
      BY <2>3, <3>1 DEF Commit, Recording
    <3>2. CASE ~complete
      <4>1. recorded' = Record(recorded, {})
        BY <2>3, <3>2 DEF Commit
      <4>2. Record(recorded, {}) = {Filled(r, {}) : r \in recorded} \cup {m \in {} : ~Lists(recorded, m.id)}
        BY RecordIs
      <4>3. \A r \in recorded : Filled(r, {}) = r
        BY DEF Filled, Lists
      <4>4. recorded' = recorded
        BY Zenon, <4>1, <4>2, <4>3
      <4> QED BY <4>4 DEF Recording
    <3> QED BY <3>1, <3>2
  <2> QED BY <2>1, <2>2, <2>3
<1>2. CASE ~FinishCycle
  BY Zenon, <1>2 DEF Recording, Next, vars, Move, StartNaming, Execute, Reconcile, Resolve, Settle, Backfill,
         StartCycle, PrepareDecision, Tick, LibraryCall
<1> QED BY <1>1, <1>2

\* Whatever a step adds to the ledger, the custodian's part of it only goes on.
LEMMA LedgerGoes ==
  ASSUME HoldingsInv, NamingOK, OnlyStaked, Recording,
         NEW C, C = CustodianOutflows(recorded), NEW C2, C2 = CustodianOutflows(recorded')
  PROVE  \/ C = {}
         \/ /\ Later(C, C2)
            /\ \E x \in Nat : /\ SumOf(recorded', "out") = SumOf(recorded, "out") + x
                              /\ SumOf(C2, "out") = SumOf(C, "out") + x
<1>0. RowsOK(recorded) /\ RowsOK(C) /\ MovesOK
  BY RowsPart DEF HoldingsInv, LedgerOK, CustodianOutflows
<1>1. SumOf(recorded, "out") \in Nat /\ SumOf(C, "out") \in Nat
  BY <1>0, SumsOfRows
<1>2. CASE recorded' = recorded
  <2>1. C2 = C
    BY <1>2
  <2>2. Later(C, C2)
    BY <2>1 DEF Later
  <2>3. SumOf(recorded', "out") = SumOf(recorded, "out") + 0 /\ SumOf(C2, "out") = SumOf(C, "out") + 0
    BY <1>1, <1>2, <2>1
  <2> QED BY <2>2, <2>3
<1>3. CASE recorded' = Record(recorded, Scan(ScanStart, now))
  <2>1. SUFFICES ASSUME C # {} PROVE
           /\ Later(C, C2)
           /\ \E x \in Nat : /\ SumOf(recorded', "out") = SumOf(recorded, "out") + x
                             /\ SumOf(C2, "out") = SumOf(C, "out") + x
    OBVIOUS
  <2>2. PICK one \in C : TRUE
    BY <2>1
  <2>3. one \in recorded /\ one.to # None
    BY DEF CustodianOutflows, ToCustodian, None
  <2>4. PICK after : after = recorded'
    OBVIOUS
  <2>5. PICK B : /\ after = recorded \cup B /\ IsFiniteSet(B)
                 /\ \A b \in B : b \notin recorded /\ b.amount \in Nat /\ (b.dir = "out" => ToCustodian(b))
                 /\ \A b \in B : \A r \in recorded : r.at < b.at
    BY <1>3, <2>3, <2>4, RecordAdds
  <2>6. PICK D : D = CustodianOutflows(B)
    OBVIOUS
  <2>7. C2 = C \cup D
    BY <2>4, <2>5, <2>6 DEF CustodianOutflows
  <2>8. Later(C, C2)
    BY <2>5, <2>6, <2>7 DEF Later, CustodianOutflows
  <2>9. \A r \in recorded : r.amount \in Nat
    BY <1>0, RowsTyped DEF MoveOK
  <2>10. PICK x : x = SumOf(B, "out")
    OBVIOUS
  <2>11. x \in Nat /\ SumOf(after, "out") = SumOf(recorded, "out") + x
    <3>1. IsFiniteSet(recorded) /\ \A r \in recorded : r \notin B
      BY <1>0, <2>5 DEF RowsOK
    <3>2. \A r \in recorded \cup B : r.amount \in Nat
      BY <2>5, <2>9
    <3> QED BY <2>5, <2>10, <3>1, <3>2, SumOfMore
  <2>12. SumOf(C2, "out") = SumOf(C, "out") + SumOf(D, "out")
    <3>1. IsFiniteSet(C) /\ C \subseteq recorded
      BY <1>0 DEF RowsOK, CustodianOutflows
    <3>2. D \subseteq B
      BY <2>6 DEF CustodianOutflows
    <3>3. IsFiniteSet(D)
      BY <2>5, <3>2, FS_Subset
    <3>4. \A r \in C \cup D : r.amount \in Nat
      BY <2>5, <2>9, <3>1, <3>2
    <3>5. \A r \in C : r \notin D
      BY <2>5, <3>1, <3>2
    <3> QED BY <2>7, <3>1, <3>3, <3>4, <3>5, SumOfMore
  <2>13. SumOf(D, "out") = x
    <3>1. {v \in D : v.dir = "out"} = {v \in B : v.dir = "out"}
      BY <2>5, <2>6 DEF CustodianOutflows, ToCustodian
    <3> QED BY <2>10, <3>1 DEF SumOf
  <2> QED BY <2>4, <2>8, <2>11, <2>12, <2>13
<1> QED BY <1>2, <1>3 DEF Recording

\* In every step history may credit no less to the custodian, of what it knew
\* and of what it learns of a time.
LEMMA CapGrows ==
  ASSUME HoldingsInv, Chronicle, FillsKnown, SettledOver, NamingOK, Account, OnlyStaked', [Next]_vars,
         NEW t \in Nat
  PROVE  /\ OnlyStaked /\ Cap \in Nat /\ Cap' \in Nat /\ Cap <= Cap'
         /\ Later(KnownBy(t), {o \in Replayed' : o.at <= t})
<1>1. OnlyStaked /\ HoldingsInv'
  BY StillStaked, MovesStay, StepKeeps
<1>2. Cap \in Nat /\ Cap' \in Nat
  BY <1>1, CapType, CapTypeNext
<1>3. CASE ~Complete
  <2>1. Replayed = {} /\ Cap = 0
    BY <1>1, <1>3, CapSum DEF Replayed
  <2>2. KnownBy(t) = {}
    BY <2>1 DEF KnownBy
  <2>3. Later(KnownBy(t), {o \in Replayed' : o.at <= t})
    BY <2>2 DEF Later
  <2> QED BY <1>1, <1>2, <2>1, <2>3
<1>4. CASE Complete
  <2>1. Complete'
    BY <1>4, CompleteStays
  <2>2. PICK C, C2 : C = CustodianOutflows(recorded) /\ C2 = CustodianOutflows(recorded')
    OBVIOUS
  <2>3. KnownBy(t) = {o \in C : o.at <= t} /\ Replayed' = C2
    BY <1>4, <2>1, <2>2 DEF KnownBy, Replayed
  <2>4. PICK out, cust, credit, credit2, out2, cust2 :
          /\ out = SumOf(recorded, "out") /\ cust = SumOf(C, "out") /\ credit = Credited
          /\ out2 = SumOf(recorded', "out") /\ cust2 = SumOf(C2, "out") /\ credit2 = Credited'
    OBVIOUS
  <2>5. credit \in Nat /\ credit2 \in Nat /\ credit <= credit2
    BY <2>4, CreditedStays
  <2>6. out \in Nat /\ cust \in Nat /\ Cap = CapOf(out, cust, credit)
    BY <1>1, <1>4, <2>2, <2>4, CapSum
  <2>7. Cap' = CapOf(out2, cust2, credit2)
    BY <1>1, <2>1, <2>2, <2>4, CapSumNext
  <2>8. \/ C = {}
        \/ /\ Later(C, C2)
           /\ \E x \in Nat : out2 = out + x /\ cust2 = cust + x
    <3>1. Recording
      BY StepRecords
    <3> QED BY <1>1, <2>2, <2>4, <3>1, LedgerGoes
  <2>9. CASE C = {}
    <3>1. cust = 0
      <4>1. PICK D, f : D = {v \in C : v.dir = "out"} /\ f = [m \in D |-> m.amount]
        OBVIOUS
      <4>2. D = {}
        BY <2>9, <4>1
      <4>3. SumFunction(f) = 0
        BY <4>1, <4>2, SumEmpty
      <4> QED BY <2>4, <4>1, <4>3 DEF SumOf
    <3>2. CapOf(out, 0, credit) = 0
      BY <2>5, <2>6 DEF CapOf, Monus, Lesser
    <3>3. Cap = 0
      BY <2>6, <3>1, <3>2
    <3>4. Later(KnownBy(t), {o \in Replayed' : o.at <= t})
      BY <2>3, <2>9 DEF Later
    <3> QED BY <1>1, <1>2, <3>3, <3>4
  <2>10. CASE Later(C, C2) /\ \E x \in Nat : out2 = out + x /\ cust2 = cust + x
    <3>1. PICK x \in Nat : out2 = out + x /\ cust2 = cust + x
      BY <2>10
    <3>2. CapOf(out, cust, credit) <= CapOf(out2, cust2, credit2)
      BY <2>5, <2>6, <3>1, CapMore
    <3>3. Later(KnownBy(t), {o \in Replayed' : o.at <= t})
      BY <2>3, <2>10 DEF Later
    <3> QED BY <1>1, <1>2, <2>6, <2>7, <3>2, <3>3
  <2> QED BY <2>8, <2>9, <2>10
<1> QED BY <1>3, <1>4

-----------------------------------------------------------------------------
(* What history leaves and what is reserved of it *)

\* No replay takes more of the residual than there is in all.
LEMMA RunBelow ==
  ASSUME NEW st, NEW lots, NEW outflow, NEW bound, NEW cap, NEW ids, NEW n,
         RunOK(st, lots, outflow, bound, cap, ids, n),
         NEW all, all = LotsSum(lots, DOMAIN lots).residual
  PROVE  all \in Nat /\ st[n].residual \in Nat /\ st[n].residual <= all
<1>1. /\ n \in Nat /\ ByTime(outflow, ids, n) /\ LotsOK(lots) /\ TakingRun(st, lots, outflow, bound, cap, ids, n)
      /\ SentOK(outflow)
  BY DEF RunOK, ReplayOK
<1>2. n \in 0..n
  BY <1>1
<1>3. TakenIn(st[n], lots, outflow, FirstOf(ids, n))
  BY <1>2, RunWithin
<1>4. all \in Nat
  <2>1. DOMAIN lots \in SUBSET DOMAIN lots
    OBVIOUS
  <2> QED BY <1>1, <2>1, LotsType
<1>5. st[n].residual \in Nat
  BY <1>3 DEF TakenIn
<1>6. CASE n = 0
  BY <1>1, <1>4, <1>5, <1>6 DEF TakingRun, Untaken
<1>7. CASE n # 0
  <2>1. n \in 1..n
    BY <1>1, <1>7
  <2>2. PICK k \in 0..n : n = k + 1
    <3>1. n - 1 \in 0..n /\ n = (n - 1) + 1
      BY <1>1, <1>7
    <3> QED BY <3>1
  <2>3. PICK x : x = ids[n]
    OBVIOUS
  <2>4. x \in DOMAIN outflow /\ FirstOf(ids, n) = Until(outflow, x)
    BY <1>1, <2>1, <2>2, <2>3 DEF ByTime
  <2>5. \A z \in FirstOf(ids, n) : z <= x
    BY <2>4 DEF Until
  <2>6. st[n].residual <= LotsBy(lots, x).residual
    BY <1>3, <2>4, <2>5 DEF TakenIn
  <2>7. PICK S : S = {i \in DOMAIN lots : lots[i].from <= x}
    OBVIOUS
  <2>8. PICK f, h : f = [i \in DOMAIN lots |-> lots[i].residual] /\ h = [i \in S |-> lots[i].residual]
    OBVIOUS
  <2>9. S \in SUBSET DOMAIN lots
    BY <2>7
  <2>10. f \in [DOMAIN lots -> Nat] /\ h \in [S -> Nat] /\ \A i \in S : h[i] = f[i]
    BY <1>1, <2>8, <2>9 DEF LotsOK
  <2>11. IsFiniteSet(DOMAIN lots)
    BY <1>1 DEF LotsOK
  <2>12. SumFunction(h) <= SumFunction(f)
    BY <2>9, <2>10, <2>11, SumPart
  <2>13. IsFiniteSet(S)
    BY <2>9, <2>11, FS_Subset
  <2>14. SumFunction(h) \in Nat
    BY <2>10, <2>13, SumNat
  <2>15. LotsBy(lots, x).residual = SumFunction(h)
    BY <2>7, <2>8 DEF LotsBy, LotsSum
  <2>16. all = SumFunction(f)
    BY <2>8 DEF LotsSum
  <2> QED BY <1>4, <1>5, <2>6, <2>12, <2>14, <2>15, <2>16
<1> QED BY <1>4, <1>5, <1>6, <1>7

LEMMA ExpectationBounds ==
  ASSUME NEW flows, FlowsOK(flows), NEW C, OutOK(C), NEW cap \in Nat,
         NEW r, r = Expectation(flows, C, cap).residual,
         NEW all, all = SumFunction([i \in DOMAIN flows |-> Lot(flows[i]).residual])
  PROVE  all \in Nat /\ r \in Nat /\ r <= all
<1>1. PICK lots, outflow, bound : /\ lots = LotsOf(flows) /\ outflow = ById(C)
                                  /\ bound = BoundsOf(flows, C)
  OBVIOUS
<1>2. ReplayOK(lots, outflow, bound, cap)
  BY <1>1, ReplayFits
<1>3. PICK key : key = [x \in DOMAIN outflow |-> <<outflow[x].at, 0>>]
  OBVIOUS
<1>4. PICK st, n : RunOK(st, lots, outflow, bound, cap, InOrder(key), n)
  BY <1>2, <1>3, RunExists
<1>5. PICK sum : sum = LotsSum(lots, DOMAIN lots).residual
  OBVIOUS
<1>6. sum \in Nat /\ st[n].residual \in Nat /\ st[n].residual <= sum
  BY <1>4, <1>5, RunBelow
<1>7. r = sum - TakenBy(lots, outflow, bound, cap, InOrder(key)).residual
  <2>1. Expectation(flows, C, cap) = Replay(lots, outflow, bound, cap)
    BY <1>1, ExpectationIs
  <2> QED BY <1>3, <1>5, <2>1 DEF Replay
<1>8. r = sum - st[n].residual
  BY <1>4, <1>7 DEF RunOK, TakingRun
<1>9. sum = all
  <2>1. DOMAIN lots = DOMAIN flows /\ \A i \in DOMAIN flows : lots[i] = Lot(flows[i])
    BY <1>1 DEF LotsOf
  <2>2. [i \in DOMAIN lots |-> lots[i].residual] = [i \in DOMAIN flows |-> Lot(flows[i]).residual]
    BY <2>1
  <2> QED BY <1>5, <2>2 DEF LotsSum
<1> QED BY <1>6, <1>8, <1>9

LEMMA NoFlows ==
  ASSUME NEW flows, DOMAIN flows = {}, NEW C, OutOK(C), NEW cap \in Nat
  PROVE  FlowsOK(flows) /\ Expectation(flows, C, cap).residual = 0
<1>1. FlowsOK(flows)
  BY FS_EmptySet DEF FlowsOK
<1>2. PICK r, h : r = Expectation(flows, C, cap).residual /\ h = [i \in DOMAIN flows |-> Lot(flows[i]).residual]
  OBVIOUS
<1>3. SumFunction(h) = 0
  <2>1. DOMAIN h = {}
    BY <1>2
  <2> QED BY <2>1, SumEmpty
<1>4. r \in Nat /\ r <= 0
  BY <1>1, <1>2, <1>3, ExpectationBounds
<1> QED BY <1>1, <1>2, <1>4

\* The transfers the ledger knows of.
LEMMA KnownOK ==
  HoldingsInv => OutOK(Replayed) /\ \A t : OutOK(KnownBy(t))
<1>1. SUFFICES ASSUME HoldingsInv, NEW C, C \subseteq Replayed PROVE OutOK(C)
  BY DEF KnownBy
<1>2. C \subseteq recorded /\ \A m \in C : m.dir = "out"
  BY <1>1 DEF Replayed, CustodianOutflows, ToCustodian
<1>3. RowsOK(recorded) /\ MovesOK
  BY <1>1 DEF HoldingsInv, LedgerOK
<1>4. RowsOK(C)
  BY <1>2, <1>3, RowsPart
<1>5. \A m \in C : MoveOK(m)
  BY <1>3, <1>4, RowsTyped
<1> QED BY <1>2, <1>4, <1>5 DEF OutOK, RowsOK

LEMMA KnownOKNext == (HoldingsInv => OutOK(Replayed) /\ \A t : OutOK(KnownBy(t)))'
BY KnownOK, PTL

\* The first n decisions.
FlowsTo(n) == [i \in 1..n |-> days[i].w]

\* Finished decisions are lots to a replay.
LEMMA FinishedOK ==
  ASSUME HoldingsInv, Chronicle, Account, NEW f, DOMAIN f \subseteq DOMAIN days,
         \A i \in DOMAIN f : f[i] = days[i].w /\ days[i].w.stage = "complete"
  PROVE  /\ FlowsOK(f)
         /\ \A i \in DOMAIN f : i > 1 => days[i].b.decided \in Nat /\ days[i].b.decided < Lot(f[i]).from
<1>1. PICK n \in Nat : n = Len(days) /\ DOMAIN days = 1..n
  BY DEF HoldingsInv, DaysOK
<1>2. IsFiniteSet(DOMAIN f)
  <2>1. IsFiniteSet(1..n)
    BY FS_Interval
  <2> QED BY <1>1, <2>1, FS_Subset
<1>3. ASSUME NEW i \in DOMAIN f
      PROVE  /\ Lot(f[i]).residual \in Nat /\ Lot(f[i]).unstaked \in Nat /\ Lot(f[i]).from \in Nat
             /\ f[i].bound \in [DOMAIN f[i].bound -> Nat]
             /\ i > 1 => days[i].b.decided \in Nat /\ days[i].b.decided < Lot(f[i]).from
  <2>1. PICK d, lot : d = days[i] /\ lot = Lot(d.w)
    OBVIOUS
  <2>2. i \in Nat /\ DayOK(d) /\ Dated(d, i, now, moves) /\ d.w.stage = "complete" /\ f[i] = d.w
    BY <1>1, <2>1 DEF HoldingsInv, DaysOK, Chronicle
  <2>3. now \in Nat
    BY DEF HoldingsInv
  <2>4. /\ lot.residual \in Nat /\ lot.unstaked \in Nat /\ lot.from \in Nat /\ d.b.decided \in Nat
        /\ i > 1 => d.b.decided < lot.from
        /\ d.w.bound \in [DOMAIN d.w.bound -> Nat]
    BY <2>1, <2>2, <2>3, DayStory
  <2> QED BY <2>1, <2>2, <2>4
<1> QED BY <1>2, <1>3 DEF FlowsOK

\* What history left to the last decision, of what the ledger knows by now of
\* the time it was made.
BaseOf == Expectation(FlowsTo(Len(days) - 1), KnownBy(days[Len(days)].b.decided), Cap).residual

BaseOK ==
  Account /\ OnlyStaked /\ Len(days) > 0 => BaseOf + days[Len(days)].b.deficit <= Target

LEMMA SumOne ==
  ASSUME NEW f, NEW x, DOMAIN f = {x}, f = [y \in {x} |-> f[y]], f[x] \in Int
  PROVE  SumFunction(f) = f[x]
<1>1. PICK D : D = {x}
  OBVIOUS
<1>2. PICK S : Without(S, D, x)
  BY DEF Without
<1>3. IsFiniteSet(D)
  BY <1>1, FS_Singleton
<1>4. f \in [D -> Int] /\ x \in D
  BY <1>1
<1>5. PICK h \in [S -> Int] : SumFunction(f) = f[x] + SumFunction(h)
  BY <1>2, <1>3, <1>4, SumCut
<1>6. DOMAIN h = {}
  BY <1>1, <1>2, <1>5 DEF Without
<1>7. SumFunction(h) = 0
  BY <1>6, SumEmpty
<1> QED BY <1>5, <1>7

\* A finished decision's lot is within what it reserved.
LEMMA LotWithin ==
  ASSUME NEW d, DayOK(d), NEW i \in Nat, NEW t \in Nat, NEW ms, Dated(d, i, t, ms), d.w.stage = "complete"
  PROVE  Lot(d.w).residual \in Nat /\ d.b.deficit \in Nat /\ Lot(d.w).residual <= d.b.deficit
<1>1. PICK w, b : w = d.w /\ b = d.b
  OBVIOUS
<1>2. w.basis # <<>>
  <2>1. "complete" \in OrderFinal \ {"order_finalized"}
    BY DEF OrderFinal
  <2> QED BY <1>1, <2>1 DEF Dated
<1>3. FlowOK(w, b) /\ b.deficit \in Nat
  BY <1>1 DEF DayOK, BindingOK
<1>4. w.credited \in Nat /\ w.residual \in Nat /\ w.residual = Residual(w, b)
  BY <1>2, <1>3 DEF FlowOK, SplitOK
<1>5. w.residual <= b.deficit
  BY <1>3, <1>4 DEF Residual, Lesser
<1>6. Consumed(w) \in Nat /\ Consumed(w) <= w.residual
  BY <1>2, <1>3 DEF FlowOK, BoundOK
<1>7. PICK s : s = [residual |-> Monus(w.residual, Consumed(w)), eligible |-> w.eligible]
  OBVIOUS
<1>8. TerminalSplit(w)[1] = s
  BY <1>1, <1>7 DEF TerminalSplit
<1>9. Lot(w).residual = Monus(w.residual, Consumed(w))
  BY <1>7, <1>8 DEF Lot
<1>10. Monus(w.residual, Consumed(w)) \in Nat /\ Monus(w.residual, Consumed(w)) <= w.residual
  BY <1>4, <1>6 DEF Monus
<1> QED BY <1>1, <1>3, <1>4, <1>5, <1>9, <1>10

\* The decisions before the last one, and what was known to it, go on in all of
\* the finished ones and what is known now.
LEMMA HistoryThen ==
  ASSUME HoldingsInv, Chronicle, Account, NEW n \in Nat, n = Len(days), n > 0,
         NEW C, C = (IF n = 1 THEN {} ELSE KnownBy(days[n].b.decided)),
         NEW f, f = FlowsTo(n - 1), NEW f2, f2 = Finished(Flows)
  PROVE  /\ FlowsOK(f) /\ FlowsOK(f2) /\ OutOK(C) /\ MoreHistory(f, C, f2, Replayed)
         /\ DOMAIN f2 \ DOMAIN f = {i \in {n} : days[n].w.stage = "complete"}
         /\ {j \in DOMAIN days : days[j].w.stage # "complete"} = {i \in {n} : days[n].w.stage # "complete"}
         /\ \A i \in DOMAIN f2 : f2[i] = days[i].w
<1>1. DOMAIN days = 1..n /\ DOMAIN f = 1..(n - 1)
  BY DEF HoldingsInv, DaysOK, FlowsTo
<1>2. DOMAIN f2 = {i \in 1..n : days[i].w.stage = "complete"} /\ \A i \in DOMAIN f2 : f2[i] = days[i].w
  <2>1. DOMAIN Flows = 1..n /\ \A i \in 1..n : Flows[i] = days[i].w
    BY <1>1 DEF Flows
  <2> QED BY <2>1 DEF Finished, Restrict
<1>3. \A i \in 1..(n - 1) : i \in 1..n /\ i # n /\ days[i].w.stage = "complete"
  BY <1>1 DEF Chronicle, OneByOne
<1>4. \A i \in DOMAIN f : f[i] = days[i].w
  BY <1>1 DEF FlowsTo
<1>5. FlowsOK(f)
  BY <1>1, <1>3, <1>4, FinishedOK
<1>6. FlowsOK(f2)
  BY <1>1, <1>2, FinishedOK
<1>7. OutOK(C) /\ OutOK(Replayed)
  <2>1. OutOK({})
    BY FS_EmptySet DEF OutOK
  <2> QED BY <2>1, KnownOK
<1>8. ASSUME n # 1, NEW c \in C PROVE c \in Replayed /\ c.at <= days[n].b.decided /\ c.at \in Nat /\ c.id = c.at
  <2>1. c \in Replayed /\ c.at <= days[n].b.decided
    BY <1>8 DEF KnownBy
  <2> QED BY <1>7, <2>1 DEF OutOK, MoveOK
<1>9. days[n].b.decided \in Nat
  <2>1. Dated(days[n], n, now, moves) /\ now \in Nat
    BY <1>1 DEF HoldingsInv, Chronicle
  <2> QED BY <2>1 DEF Dated
<1>10. C \subseteq Replayed
  BY <1>8
<1>11. ASSUME NEW c \in C, NEW o \in Replayed, o \notin C PROVE c.at < o.at
  <2>1. n # 1 /\ ~(o.at <= days[n].b.decided)
    BY <1>11 DEF KnownBy
  <2>2. c.at \in Nat /\ c.at <= days[n].b.decided
    BY <1>8, <2>1
  <2>3. o.at \in Nat
    BY <1>7 DEF OutOK, MoveOK
  <2> QED BY <1>9, <2>1, <2>2, <2>3
<1>12. DOMAIN f \subseteq DOMAIN f2 /\ \A i \in DOMAIN f : f2[i] = f[i]
  BY SMTT(60), <1>1, <1>2, <1>3, <1>4
<1>13. ASSUME NEW i \in DOMAIN f2, i \notin DOMAIN f PROVE i = n /\ days[n].w.stage = "complete"
  BY <1>1, <1>2, <1>13
<1>14. ASSUME NEW i \in DOMAIN f2, i \notin DOMAIN f, NEW c \in C
       PROVE  c.at < Lot(f2[i]).from /\ c.id \notin DOMAIN f2[i].bound
  <2>1. i = n /\ n # 1 /\ n > 1 /\ f2[i] = days[n].w /\ days[n].w.stage = "complete"
    BY <1>2, <1>13, <1>14
  <2>2. c.at \in Nat /\ c.at <= days[n].b.decided /\ c.id = c.at
    BY <1>8, <2>1
  <2>3. days[n].b.decided < Lot(f2[i]).from
    BY <1>1, <1>2, <1>14, <2>1, FinishedOK
  <2>4. Lot(f2[i]).from \in Nat
    BY <1>6, <1>14 DEF FlowsOK
  <2>5. BoundWithin(days[n], moves)
    BY <1>1 DEF Chronicle, Dated
  <2>6. ~(c.id \in DOMAIN days[n].w.bound)
    <3>1. ASSUME c.id \in DOMAIN days[n].w.bound PROVE FALSE
      <4>1. c.id \in days[n].b.decided + 1 .. days[n].w.last
        BY <2>5, <3>1 DEF BoundWithin
      <4> QED BY <1>9, <2>2, <4>1
    <3> QED BY <3>1
  <2> QED BY <1>9, <2>1, <2>2, <2>3, <2>4, <2>6
<1>15. MoreHistory(f, C, f2, Replayed)
  BY <1>10, <1>11, <1>12, <1>14 DEF MoreHistory
<1>16. DOMAIN f2 \ DOMAIN f = {i \in {n} : days[n].w.stage = "complete"}
  <2>1. n \in 1..n /\ n \notin 1..(n - 1)
    OBVIOUS
  <2>2. days[n].w.stage = "complete" => n \in DOMAIN f2 \ DOMAIN f
    BY <1>1, <1>2, <2>1
  <2> QED BY <1>13, <2>2
<1>17. {j \in DOMAIN days : days[j].w.stage # "complete"} = {i \in {n} : days[n].w.stage # "complete"}
  <2>1. n \in 1..n
    OBVIOUS
  <2>2. \A j \in 1..n : j # n => j \in 1..(n - 1)
    OBVIOUS
  <2> QED BY <1>1, <1>3, <2>1, <2>2
<1> QED BY <1>2, <1>5, <1>6, <1>7, <1>15, <1>16, <1>17

LEMMA StillReserved ==
  ASSUME HoldingsInv, Chronicle, Account, OnlyStaked, BaseOK
  PROVE  Reserved <= Target /\ Reserved \in Nat
<1>1. PICK n \in Nat : n = Len(days) /\ DOMAIN days = 1..n
  BY DEF HoldingsInv, DaysOK
<1>2. PICK r2, open : /\ r2 = Expectation(Finished(Flows), Replayed, Cap).residual
                      /\ open = [i \in {j \in DOMAIN days : days[j].w.stage # "complete"} |-> days[i].b.deficit]
  OBVIOUS
<1>3. Reserved = r2 + SumFunction(open)
  BY <1>2 DEF Reserved, Cap
<1>4. OutOK(Replayed) /\ Cap \in Nat /\ Target \in Nat
  BY KnownOK, CapType, HoldingsAssumption
<1>5. CASE n = 0
  <2>1. DOMAIN days = {}
    BY <1>1, <1>5
  <2>2. DOMAIN Finished(Flows) = {} /\ DOMAIN open = {}
    BY <1>2, <2>1 DEF Finished, Restrict, Flows
  <2>3. r2 = 0
    BY <1>2, <1>4, <2>2, NoFlows
  <2>4. SumFunction(open) = 0
    BY <2>2, SumEmpty
  <2> QED BY <1>3, <1>4, <2>3, <2>4
<1>6. CASE n > 0
  <2>1. PICK C, f, f2 : /\ C = (IF n = 1 THEN {} ELSE KnownBy(days[n].b.decided))
                        /\ f = FlowsTo(n - 1) /\ f2 = Finished(Flows)
    OBVIOUS
  <2>2. /\ FlowsOK(f) /\ FlowsOK(f2) /\ OutOK(C) /\ MoreHistory(f, C, f2, Replayed)
        /\ DOMAIN f2 \ DOMAIN f = {i \in {n} : days[n].w.stage = "complete"}
        /\ {j \in DOMAIN days : days[j].w.stage # "complete"} = {i \in {n} : days[n].w.stage # "complete"}
        /\ \A i \in DOMAIN f2 : f2[i] = days[i].w
    BY <1>1, <1>6, <2>1, HistoryThen
  <2>3. PICK d : d = days[n] /\ DayOK(d) /\ Dated(d, n, now, moves)
    BY <1>1, <1>6 DEF HoldingsInv, DaysOK, Chronicle
  <2>4. PICK base, deficit : base = Expectation(f, C, Cap).residual /\ deficit = d.b.deficit
    OBVIOUS
  <2>5. base = BaseOf
    <3>1. CASE n = 1
      <4>1. DOMAIN f = {}
        BY <2>1, <3>1 DEF FlowsTo
      <4>2. base = 0
        BY <1>4, <2>2, <2>4, <4>1, NoFlows
      <4>3. BaseOf = 0
        <5>1. OutOK(KnownBy(days[n].b.decided))
          BY KnownOK
        <5> QED BY <1>1, <1>4, <2>1, <4>1, <5>1, NoFlows DEF BaseOf
      <4> QED BY <4>2, <4>3
    <3>2. CASE n # 1
      BY <1>1, <2>1, <2>4, <3>2 DEF BaseOf
    <3> QED BY <3>1, <3>2
  <2>6. base + deficit <= Target
    BY <1>1, <1>6, <2>3, <2>4, <2>5 DEF BaseOK
  <2>7. deficit \in Nat
    BY <2>3, <2>4 DEF DayOK, BindingOK
  <2>8. PICK New, lots : /\ New = DOMAIN f2 \ DOMAIN f
                         /\ lots = [i \in New |-> Lot(f2[i]).residual]
    OBVIOUS
  <2>9. base \in Int /\ r2 \in Int /\ r2 <= base + SumFunction(lots)
    BY SMTT(60), <1>2, <1>4, <2>1, <2>2, <2>4, <2>8, MoreReplayed
  <2>10. r2 \in Nat
    BY <1>2, <1>4, <2>1, <2>2, ExpectationBounds
  <2>11. CASE d.w.stage = "complete"
    <3>1. New = {n} /\ DOMAIN open = {}
      BY <1>2, <2>2, <2>3, <2>8, <2>11
    <3>2. Lot(d.w).residual \in Nat /\ Lot(d.w).residual <= deficit
      <4>1. now \in Nat
        BY DEF HoldingsInv
      <4> QED BY <2>3, <2>4, <2>11, <4>1, LotWithin
    <3>3. n \in DOMAIN f2 /\ lots[n] = Lot(d.w).residual
      BY <2>2, <2>3, <2>8, <3>1
    <3>4. SumFunction(lots) = Lot(d.w).residual
      <4>1. DOMAIN lots = {n} /\ lots = [y \in {n} |-> lots[y]] /\ lots[n] \in Int
        BY <2>8, <3>1, <3>2, <3>3
      <4> QED BY <3>3, <4>1, SumOne
    <3>5. SumFunction(open) = 0
      BY <3>1, SumEmpty
    <3> QED BY <1>3, <1>4, <2>6, <2>7, <2>9, <2>10, <3>2, <3>4, <3>5
  <2>12. CASE d.w.stage # "complete"
    <3>1. New = {} /\ DOMAIN open = {n}
      BY <1>2, <2>2, <2>3, <2>8, <2>12
    <3>2. SumFunction(lots) = 0
      <4>1. DOMAIN lots = {}
        BY <2>8, <3>1
      <4> QED BY <4>1, SumEmpty
    <3>3. SumFunction(open) = deficit
      <4>1. open = [y \in {n} |-> open[y]] /\ open[n] = deficit
        BY <1>2, <2>3, <2>4, <3>1
      <4> QED BY <2>7, <3>1, <4>1, SumOne
    <3> QED BY <1>3, <1>4, <2>6, <2>7, <2>9, <2>10, <3>2, <3>3
  <2> QED BY <2>11, <2>12
<1> QED BY <1>5, <1>6

\* As long as no decision comes, the last one's history only goes on.
LEMMA BaseStays ==
  ASSUME HoldingsInv, Chronicle, FillsKnown, SettledOver, NamingOK, BaseOK, Account, OnlyStaked',
         [Next]_vars, DaysGo, DOMAIN days' = DOMAIN days, Len(days') > 0
  PROVE  BaseOf' + days'[Len(days')].b.deficit <= Target
<1>1. PICK n \in Nat : n = Len(days) /\ DOMAIN days = 1..n
  BY DEF HoldingsInv, DaysOK
<1>2. HoldingsInv'
  BY StepKeeps
<1>3. Len(days') = n /\ n > 0
  <2>1. PICK m \in Nat : m = Len(days') /\ DOMAIN days' = 1..m
    BY <1>2 DEF HoldingsInv, DaysOK
  <2>2. 1..m = 1..n
    BY <1>1, <2>1
  <2>3. m = n
    <3>1. m \in 1..m
      BY <2>1
    <3>2. m \in 1..n
      BY <2>2, <3>1
    <3>3. n \in 1..m
      BY <2>2, <3>2
    <3> QED BY <3>2, <3>3
  <2> QED BY <2>1, <2>3
<1>4. PICK t : t = days[n].b.decided
  OBVIOUS
<1>5. t \in Nat
  <2>1. Dated(days[n], n, now, moves) /\ now \in Nat
    BY <1>1, <1>3 DEF HoldingsInv, Chronicle
  <2> QED BY <1>4, <2>1 DEF Dated
<1>6. days'[n].b = days[n].b
  BY <1>1, <1>3 DEF DaysGo, DayGoes
<1>7. PICK C, C2, f : C = KnownBy(t) /\ C2 = {o \in Replayed' : o.at <= t} /\ f = FlowsTo(n - 1)
  OBVIOUS
<1>8. OnlyStaked /\ Cap \in Nat /\ Cap' \in Nat /\ Cap <= Cap' /\ Later(C, C2)
  BY <1>5, <1>7, CapGrows
<1>9. OutOK(C) /\ OutOK(C2)
  <2>1. OutOK(C)
    BY <1>7, KnownOK
  <2>2. OutOK({o \in Replayed' : o.at <= t})
    <3>1. OutOK(Replayed)' /\ C2 \subseteq Replayed'
      BY <1>2, <1>7, KnownOKNext
    <3>2. IsFiniteSet(C2)
      BY <3>1, FS_Subset DEF OutOK
    <3> QED BY <1>7, <3>1, <3>2 DEF OutOK
  <2> QED BY <1>7, <2>1, <2>2
<1>10. \A i \in 1..(n - 1) : i \in 1..n /\ i # n /\ days[i].w.stage = "complete" /\ days'[i].w = days[i].w
  BY <1>1 DEF Chronicle, OneByOne, DaysGo, DayGoes
<1>11. FlowsTo(n - 1)' = f
  BY <1>7, <1>10 DEF FlowsTo
<1>12. FlowsOK(f)
  BY <1>1, <1>7, <1>10, FinishedOK DEF FlowsTo
<1>13. MoreHistory(f, C, f, C2)
  BY <1>8 DEF MoreHistory, Later
<1>14. PICK r, r2 : r = Expectation(f, C, Cap).residual /\ r2 = Expectation(f, C2, Cap').residual
  OBVIOUS
<1>15. PICK New, lots : New = DOMAIN f \ DOMAIN f /\ lots = [i \in New |-> Lot(f[i]).residual]
  OBVIOUS
<1>16. r \in Int /\ r2 \in Int /\ r2 <= r + SumFunction(lots)
  BY ZenonT(60), <1>8, <1>9, <1>12, <1>13, <1>14, <1>15, MoreReplayed
<1>17. SumFunction(lots) = 0
  <2>1. DOMAIN lots = {}
    BY <1>15
  <2> QED BY <2>1, SumEmpty
<1>18. BaseOf = r
  BY <1>1, <1>4, <1>7, <1>14 DEF BaseOf
<1>19. BaseOf' = r2
  <2>1. KnownBy(days[Len(days)].b.decided)' = C2
    BY <1>3, <1>4, <1>6, <1>7 DEF KnownBy
  <2> QED BY <1>3, <1>11, <1>14, <2>1 DEF BaseOf
<1>20. r + days[n].b.deficit <= Target
  BY <1>1, <1>3, <1>8, <1>18 DEF BaseOK
<1>21. days[n].b.deficit \in Nat /\ Target \in Nat
  <2>1. DayOK(days[n])
    BY <1>1, <1>3 DEF HoldingsInv, DaysOK
  <2> QED BY <2>1, HoldingsAssumption DEF DayOK, BindingOK
<1>22. r2 + days[n].b.deficit <= Target
  BY SMTT(60), <1>16, <1>17, <1>20, <1>21
<1> QED BY <1>3, <1>6, <1>19, <1>22

\* A decision reserves what history leaves of the target.
LEMMA BasePrepared ==
  ASSUME HoldingsInv, Chronicle, BaseOK, Account, OnlyStaked, PrepareDecision,
         NEW q \in Quantities, NEW n \in Nat, NEW e, n = Len(days), History.answer = "ok",
         e = Prepared(Binding(q, History.residual)), DOMAIN days = 1..n,
         days' = [j \in 1..(n + 1) |-> IF j = n + 1 THEN e ELSE days[j]]
  PROVE  BaseOf' + days'[Len(days')].b.deficit <= Target
<1>1. Len(days') = n + 1 /\ days'[n + 1] = e
  <2>1. n + 1 \in Nat /\ n + 1 \in 1..(n + 1) /\ days' = [j \in 1..(n + 1) |-> days'[j]]
    OBVIOUS
  <2>2. Len(days') = n + 1
    BY <2>1, ListLength
  <2> QED BY <2>1, <2>2
<1>2. PICK res : res = History.residual
  OBVIOUS
<1>3. e.b = Binding(q, res) /\ e.settled = FALSE /\ e.row = <<>>
  BY <1>2, PreparedShape
<1>4. e.b.decided = now /\ e.b.deficit = Monus(Target, res)
  BY <1>3 DEF Binding, Deficit
<1>5. \A j \in 1..n : j \in 1..(n + 1) /\ j # n + 1 /\ days'[j] = days[j]
  OBVIOUS
<1>6. (\A i \in 1..n : days[i].w.stage = "complete") /\ res = Expectation(Flows, Replayed, Cap).residual
  <2>1. DOMAIN Flows = 1..n /\ \A i \in 1..n : Flows[i] = days[i].w
    BY DEF Flows
  <2>2. PICK x : x = Expectation(Flows, Replayed, Cap)
    OBVIOUS
  <2>3. CASE \E i \in DOMAIN Flows : Flows[i].stage # "complete"
    BY <2>3 DEF History, Aggregate
  <2>4. CASE ~(\E i \in DOMAIN Flows : Flows[i].stage # "complete")
    <3>1. History = Judged(x, Spot(now))
      BY <2>2, <2>4 DEF History, Aggregate, Cap
    <3>2. History.residual = x.residual
      BY <3>1 DEF Judged
    <3> QED BY <1>2, <2>1, <2>2, <2>4, <3>2
  <2> QED BY <2>3, <2>4
<1>7. FlowsTo(n)' = Flows /\ FlowsTo(n) = Flows
  BY <1>5 DEF FlowsTo, Flows
<1>8. recorded' = recorded /\ terms' = terms
  BY DEF PrepareDecision
<1>9. Complete' <=> Complete
  <2>1. \A j \in 1..n : Missing(j)' <=> Missing(j)
    BY <1>5 DEF Missing
  <2>2. ~Missing(n + 1)'
    BY <1>1, <1>3 DEF Missing
  <2>3. DOMAIN days' = 1..(n + 1) /\ \A j \in 1..(n + 1) : j \in 1..n \/ j = n + 1
    OBVIOUS
  <2> QED BY <1>5, <2>1, <2>2, <2>3 DEF Complete
<1>10. Replayed' = Replayed
  BY <1>8, <1>9 DEF Replayed
<1>11. KnownBy(now)' = Replayed
  <2>1. \A o \in Replayed : o.at <= now
    <3>1. \A r \in recorded : r.at \in 1..now
      BY RowsTyped DEF HoldingsInv, LedgerOK
    <3>2. now \in Nat
      BY DEF HoldingsInv
    <3> QED BY <3>1, <3>2 DEF Replayed, CustodianOutflows
  <2>2. now' = now
    BY DEF PrepareDecision
  <2> QED BY <1>10, <2>1, <2>2 DEF KnownBy
<1>12. Credited' = Credited
  <2>1. PICK R, R2 : R = {j \in DOMAIN days : days[j].row # <<>>} /\ R2 = {j \in DOMAIN days' : days'[j].row # <<>>}
    OBVIOUS
  <2>2. DOMAIN days' = 1..(n + 1) /\ \A j \in 1..(n + 1) : j \in 1..n \/ j = n + 1
    OBVIOUS
  <2>3. R2 = R
    BY <1>1, <1>3, <1>5, <2>1, <2>2
  <2>4. \A j \in R : days'[j].row[1] = days[j].row[1]
    BY <1>5, <2>1
  <2>5. [i \in R2 |-> days'[i].row[1]] = [i \in R |-> days[i].row[1]]
    BY <2>3, <2>4
  <2> QED BY <2>1, <2>5 DEF Credited
<1>13. Cap' = Cap
  <2>1. HoldingsInv' /\ OnlyStaked'
    BY StepKeeps DEF Next, OnlyStaked, PrepareDecision
  <2> QED BY <1>8, <1>9, <1>12, <2>1, CapSum, CapSumNext
<1>14. BaseOf' = res
  <2>1. KnownBy(days[Len(days)].b.decided)' = Replayed
    <3>1. days'[Len(days')].b.decided = now /\ now' = now
      BY <1>1, <1>4 DEF PrepareDecision
    <3> QED BY <1>11, <3>1 DEF KnownBy
  <2>2. (n + 1) - 1 = n
    OBVIOUS
  <2>3. FlowsTo(Len(days) - 1)' = Flows
    BY <1>1, <1>7, <2>2
  <2> QED BY <1>6, <1>13, <2>1, <2>3 DEF BaseOf
<1>15. res \in Nat /\ res <= Target /\ Target \in Nat
  <2>1. Finished(Flows) = Flows
    <3>1. DOMAIN Flows = 1..n /\ \A i \in 1..n : Flows[i] = days[i].w
      BY DEF Flows
    <3>2. {i \in DOMAIN Flows : Flows[i].stage = "complete"} = 1..n
      BY <1>6, <3>1
    <3>3. Flows = [i \in 1..n |-> Flows[i]]
      BY DEF Flows
    <3> QED BY <3>2, <3>3 DEF Finished, Restrict
  <2>2. PICK open : open = [i \in {j \in DOMAIN days : days[j].w.stage # "complete"} |-> days[i].b.deficit]
    OBVIOUS
  <2>3. DOMAIN open = {}
    BY <1>6, <2>2
  <2>4. SumFunction(open) = 0
    BY <2>3, SumEmpty
  <2>5. Reserved = res + 0
    BY <1>6, <2>1, <2>2, <2>4 DEF Reserved, Cap
  <2>6. Reserved <= Target
    BY StillReserved
  <2>7. FlowsOK(Flows)
    <3>1. DOMAIN Flows = 1..n /\ \A i \in 1..n : Flows[i] = days[i].w
      BY DEF Flows
    <3> QED BY <1>6, <3>1, FinishedOK
  <2>8. res \in Nat
    BY <1>6, <2>7, KnownOK, CapType, ExpectationBounds
  <2> QED BY <2>5, <2>6, <2>8, HoldingsAssumption
<1>16. res + Monus(Target, res) <= Target
  BY <1>15 DEF Monus
<1> QED BY <1>1, <1>4, <1>14, <1>16

LEMMA BaseStep ==
  ASSUME HoldingsInv, Chronicle, FillsKnown, SettledOver, NamingOK, BaseOK, [Next]_vars
  PROVE  BaseOK'
<1>1. SUFFICES ASSUME Account', OnlyStaked', Len(days') > 0
               PROVE  BaseOf' + days'[Len(days')].b.deficit <= Target
  BY Zenon DEF BaseOK
<1>2. Account
  BY ZenonT(60), <1>1 DEF Account, Next, vars, Move, StartNaming, Execute, Reconcile, Resolve, Settle, Backfill,
              StartCycle, FinishCycle, PrepareDecision, Tick, LibraryCall
<1>3. DaysGo /\ (~PrepareDecision => DOMAIN days' = DOMAIN days)
  BY <1>2, StepGoes
<1>4. CASE DOMAIN days' = DOMAIN days
  BY <1>1, <1>2, <1>3, <1>4, BaseStays
<1>5. CASE PrepareDecision
  <2>1. CASE days' = days
    BY <1>4, <2>1
  <2>2. ASSUME NEW q \in Quantities, NEW n \in Nat, NEW e,
               n = Len(days), History.answer = "ok", e = Prepared(Binding(q, History.residual)),
               DOMAIN days = 1..n,
               days' = [j \in 1..(n + 1) |-> IF j = n + 1 THEN e ELSE days[j]]
        PROVE  BaseOf' + days'[Len(days')].b.deficit <= Target
    <3>1. OnlyStaked
      BY <1>1, StillStaked, MovesStay
    <3> QED BY <1>2, <1>5, <2>2, <3>1, BasePrepared
  <2> QED BY <1>5, <2>1, <2>2, PrepareGoes
<1> QED BY <1>3, <1>4, <1>5

LEMMA BaseStart == ASSUME Init PROVE BaseOK
<1>1. SUFFICES ASSUME Account, OnlyStaked, Len(days) > 0
               PROVE  BaseOf + days[Len(days)].b.deficit <= Target
  BY DEF BaseOK
<1>2. HoldingsInv
  BY StartsSo
<1>3. CASE terms.legacy > 0
  <2>1. PICK q, b : q = terms.legacy /\ b = Binding(q, 0)
    OBVIOUS
  <2>2. PICK d : d = LegacyDay(q)
    OBVIOUS
  <2>3. days = <<d>>
    BY <1>1, <1>3, <2>1, <2>2 DEF Init, Account
  <2>4. d.b = b
    BY <2>1, <2>2 DEF LegacyDay, NewDay
  <2>5. Target \in Nat
    BY HoldingsAssumption
  <2>6. b.deficit = Target
    BY <2>1, <2>5 DEF Binding, Deficit, Monus
  <2>7. Len(days) = 1 /\ days[1] = d
    BY <2>3
  <2>8. BaseOf = 0
    <3>1. PICK f, C : f = FlowsTo(0) /\ C = KnownBy(d.b.decided)
      OBVIOUS
    <3>2. DOMAIN f = {}
      BY <3>1 DEF FlowsTo
    <3>3. OutOK(C) /\ Cap \in Nat
      BY <1>1, <1>2, <3>1, KnownOK, CapType
    <3>4. Expectation(f, C, Cap).residual = 0
      BY <3>2, <3>3, NoFlows
    <3>5. Len(days) - 1 = 0
      BY <2>7
    <3> QED BY <2>7, <3>1, <3>4, <3>5 DEF BaseOf
  <2> QED BY <2>4, <2>5, <2>6, <2>7, <2>8
<1>4. CASE ~(terms.legacy > 0)
  <2>1. days = <<>>
    BY <1>1, <1>4 DEF Init, Account
  <2>2. Len(days) = 0
    BY <2>1
  <2> QED BY <1>1, <2>2
<1> QED BY <1>3, <1>4

\* While HYPE only goes to the custodian, what the decisions reserve of the residual,
\* by the replay that binds the next one, is never more than the target: no
\* transfer, and no purchase the ledger learns of late, makes room for it twice.
THEOREM BufferHolds == Spec => []BufferKept
<1>1. Init => SettledOver /\ NamingOK /\ BaseOK
  BY SettledStart, NamesStart, BaseStart
<1>2. HoldingsInv /\ Chronicle /\ FillsKnown /\ (SettledOver /\ NamingOK /\ BaseOK) /\ [Next]_vars
      => (SettledOver /\ NamingOK /\ BaseOK)'
  BY SettledStays, NamesStep, BaseStep
<1>3. HoldingsInv /\ Chronicle /\ BaseOK => BufferKept
  BY StillReserved DEF BufferKept, OnlyStaked
<1> QED BY <1>1, <1>2, <1>3, HoldingsSound, ChronicleKept, OfferKept, PTL DEF Spec
===============================================================================

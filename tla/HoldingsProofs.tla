---------------------------- MODULE HoldingsProofs ----------------------------
(***************************************************************************)
(* What Holdings keeps for any calls, quantities, amounts and targets, any  *)
(* number of decisions and movements, and any delay of a scan.              *)
(*                                                                         *)
(* The first part is about one workflow and one call on it: what a call may *)
(* leave (CallLeaves), what that keeps of the split (FlowKept) and of what  *)
(* was recorded (LogKept).  The second is about the movements of the        *)
(* account and the ledger of the runtime.  The third puts decisions and     *)
(* transfers in their order (Chronicle), and the fourth shows from it that  *)
(* the replay of the transfers is exact.                                    *)
(***************************************************************************)
EXTENDS Holdings, SeriesProofs, SequenceTheorems

-----------------------------------------------------------------------------
(* One call *)

\* What a call writes when its event is accepted.
Written(w, b, c, at) == [Effect(w, b, c, at) EXCEPT !.last = at, !.log = @ \cup {c}]

Accepted(w, b, c, at, taken) ==
  /\ ~(at < w.last) /\ Placed(w, b, c) /\ Proven(w, b, c, at)
  /\ c.type = "submitted" => ~(c.acceptedAt >= b.signed) /\ c.order \notin taken

LEMMA ObserveLeaves ==
  ASSUME NEW w, NEW b, NEW c, NEW at, NEW o, o = Observe(w, b, c, at)
  PROVE  \/ o.w = w /\ o.answer \in {"duplicate", "invalid"}
         \/ (\E why : o.w = ToReview(w, why, at)) /\ o.answer \in {"contradiction", "collision", "invalid"}
         \/ /\ ~(at < w.last) /\ Placed(w, b, c) /\ Proven(w, b, c, at)
            /\ o.w = Written(w, b, c, at) /\ o.answer = "ok"
<1>1. PICK v : v = IF c \in w.log THEN "duplicate"
                   ELSE IF \E d \in w.log : EventId(d) = EventId(c) THEN "collision"
                   ELSE Verdict(w, b, c, at)
  OBVIOUS
<1>2. PICK e : e = Appended(w, b, c, at, v)
  OBVIOUS
<1>3. e = [answer |-> v, w |-> IF v = "ok" THEN Written(w, b, c, at) ELSE w]
  BY <1>2 DEF Appended, Written
<1>4. o = Examined(w, b, c, at, e)
  BY <1>1, <1>2 DEF Observe, AppendEvent
<1>5. Verdict(w, b, c, at) \in {"invalid", "contradiction", "ok"}
  BY DEF Verdict
<1>6. v \in {"duplicate", "collision", "invalid", "contradiction", "ok"}
  BY <1>1, <1>5
<1>7. v = "ok" => ~(at < w.last) /\ Placed(w, b, c) /\ Proven(w, b, c, at)
  BY <1>1 DEF Verdict
<1>8. \/ o = [e EXCEPT !.w = ToReview(w, v, at)] /\ v \in {"contradiction", "collision", "invalid"}
      \/ o = e /\ v \notin {"contradiction", "collision"}
  <2>1. e.answer = v
    BY <1>3
  <2>2. \/ o = [e EXCEPT !.w = ToReview(w, e.answer, at)] /\ e.answer \in {"contradiction", "collision", "invalid"}
        \/ o = e /\ e.answer \notin {"contradiction", "collision"}
    BY <1>4 DEF Examined
  <2> QED BY <2>1, <2>2
<1>9. CASE o = e /\ v \notin {"contradiction", "collision"}
  BY <1>3, <1>6, <1>7, <1>9
<1>10. CASE o = [e EXCEPT !.w = ToReview(w, v, at)] /\ v \in {"contradiction", "collision", "invalid"}
  <2>1. o.w = ToReview(w, v, at) /\ o.answer = v
    BY <1>3, <1>10
  <2> QED BY <1>10, <2>1
<1> QED BY <1>8, <1>9, <1>10

\* A call leaves the workflow as it was, puts it into review, or writes its event.
LEMMA CallLeaves ==
  ASSUME NEW w, NEW b, NEW c, NEW at, NEW taken, NEW v, v = Call(w, b, c, at, taken).w
  PROVE  \/ v = w
         \/ \E why : v = ToReview(w, why, at)
         \/ Accepted(w, b, c, at, taken) /\ v = Written(w, b, c, at)
<1>1. PICK o : o = Observe(w, b, c, at)
  OBVIOUS
<1>2. PICK a : a = Answered(w, b, c, at, taken, o) /\ v = a.w
  BY <1>1 DEF Call
<1>3. \/ o.w = w /\ o.answer \in {"duplicate", "invalid"}
      \/ (\E why : o.w = ToReview(w, why, at)) /\ o.answer \in {"contradiction", "collision", "invalid"}
      \/ /\ ~(at < w.last) /\ Placed(w, b, c) /\ Proven(w, b, c, at)
         /\ o.w = Written(w, b, c, at) /\ o.answer = "ok"
  BY <1>1, ObserveLeaves
<1>4. CASE c.type = "submitted"
  <2>1. a = ObserveSubmission(w, b, c, at, taken, o)
    BY <1>2, <1>4 DEF Answered
  <2>2. \/ a.w = ToReview(w, "expired", at) \/ a.w = ToReview(w, "conflict", at)
        \/ /\ a = o /\ ~(c.acceptedAt >= b.signed)
           /\ o.answer \in {"ok", "duplicate"} => c.order \notin taken
    BY <2>1 DEF ObserveSubmission, Answer
  <2> QED BY <1>2, <1>3, <1>4, <2>2 DEF Accepted
<1>5. CASE c.type # "submitted"
  <2>1. \/ a = o \/ a.w = o.w \/ a.w = w \/ a.w = ToReview(w, "basis", at) \/ a.w = ToReview(w, "evidence", at)
        \/ a.w = ToReview(w, "conflict", at)
    BY <1>2, <1>5 DEF Answered, PrepareAction, RecordEligibility, ConfirmBalance, Answer
  <2> QED BY <1>2, <1>3, <1>5, <2>1 DEF Accepted
<1> QED BY <1>4, <1>5

-----------------------------------------------------------------------------
(* What a call writes *)

Shaped(w) ==
  w = [stage |-> w.stage, pending |-> w.pending, order |-> w.order,
       accepted |-> w.accepted, acceptedAt |-> w.acceptedAt,
       matched |-> w.matched, credited |-> w.credited, filled |-> w.filled, debited |-> w.debited,
       residual |-> w.residual, eligible |-> w.eligible, bound |-> w.bound, basis |-> w.basis,
       target |-> w.target, confirmed |-> w.confirmed, delegated |-> w.delegated,
       stakeAt |-> w.stakeAt, depositedAt |-> w.depositedAt, delegatedAt |-> w.delegatedAt,
       lastFill |-> w.lastFill, last |-> w.last, log |-> w.log]

SplitSame(v, w) ==
  /\ v.credited = w.credited /\ v.residual = w.residual /\ v.eligible = w.eligible
  /\ v.bound = w.bound /\ v.basis = w.basis
StakeSame(v, w) ==
  v.target = w.target /\ v.confirmed = w.confirmed /\ v.delegated = w.delegated

\* v is w after the event c, which puts it at a stage and hands out or settles an action.
Moved(v, w, c, stage, pending) ==
  Shaped(v) /\ v.log = w.log \cup {c} /\ v.stage = stage /\ v.pending = pending

LEMMA WritesReview ==
  ASSUME NEW w, Shaped(w), NEW at, NEW why, NEW v, v = ToReview(w, why, at)
  PROVE  \/ v = w
         \/ /\ \E c : c.type = "review" /\ Moved(v, w, c, "manual_review", None)
            /\ SplitSame(v, w) /\ StakeSame(v, w)
<1>1. PICK c : c = [type |-> "review", obs |-> why]
  OBVIOUS
<1>2. CASE w.stage # "manual_review"
  <2>1. v = [w EXCEPT !.pending = None, !.stage = "manual_review", !.last = Greater(at, w.last),
                      !.log = @ \cup {c}]
    BY <1>1, <1>2 DEF ToReview
  <2>2. /\ v.pending = None /\ v.stage = "manual_review" /\ v.log = w.log \cup {c}
        /\ SplitSame(v, w) /\ StakeSame(v, w)
    BY <2>1 DEF Shaped, SplitSame, StakeSame
  <2>3. Shaped(v)
    BY <2>1 DEF Shaped
  <2> QED BY <1>1, <2>2, <2>3 DEF Moved
<1> QED BY <1>2 DEF ToReview

LEMMA WritesPrepare ==
  ASSUME NEW w, Shaped(w), NEW b, NEW c, NEW at, NEW v, v = Written(w, b, c, at),
         c.type = "prepare"
  PROVE  /\ Moved(v, w, c, w.stage, c.obs) /\ SplitSame(v, w)
         /\ v.target = IF c.obs = "deposit" THEN w.eligible ELSE w.target
         /\ v.confirmed = w.confirmed /\ v.delegated = w.delegated
<1>1. PICK s, t : /\ s = IF c.obs = "submit" THEN w.stakeAt ELSE at
                  /\ t = IF c.obs = "deposit" THEN w.eligible ELSE w.target
  OBVIOUS
<1>2. Effect(w, b, c, at) = [w EXCEPT !.pending = c.obs, !.stakeAt = s, !.target = t]
  BY <1>1 DEF Effect
<1>3. v = [[w EXCEPT !.pending = c.obs, !.stakeAt = s, !.target = t]
             EXCEPT !.last = at, !.log = @ \cup {c}]
  BY <1>2 DEF Written
<1> QED BY ZenonT(60), <1>1, <1>3 DEF Moved, Shaped, SplitSame

LEMMA WritesSubmitted ==
  ASSUME NEW w, Shaped(w), NEW b, NEW c, NEW at, NEW v, v = Written(w, b, c, at),
         c.type = "submitted"
  PROVE  /\ Moved(v, w, c, "order_submitted", None)
         /\ SplitSame(v, w) /\ StakeSame(v, w)
<1>1. Effect(w, b, c, at) = [w EXCEPT !.pending = None, !.stage = "order_submitted", !.order = c.order,
              !.accepted = c.accepted, !.acceptedAt = c.acceptedAt]
  BY DEF Effect
<1>2. v = [[w EXCEPT !.pending = None, !.stage = "order_submitted", !.order = c.order,
              !.accepted = c.accepted, !.acceptedAt = c.acceptedAt]
             EXCEPT !.last = at, !.log = @ \cup {c}]
  BY <1>1 DEF Written
<1> QED BY ZenonT(60), <1>2 DEF Moved, Shaped, SplitSame, StakeSame

LEMMA WritesAbsent ==
  ASSUME NEW w, Shaped(w), NEW b, NEW c, NEW at, NEW v, v = Written(w, b, c, at),
         c.type = "absent"
  PROVE  /\ Moved(v, w, c, "order_finalized", None)
         /\ SplitSame(v, w) /\ StakeSame(v, w)
<1>1. Effect(w, b, c, at) = [w EXCEPT !.pending = None, !.stage = "order_finalized"]
  BY DEF Effect
<1>2. v = [[w EXCEPT !.pending = None, !.stage = "order_finalized"]
             EXCEPT !.last = at, !.log = @ \cup {c}]
  BY <1>1 DEF Written
<1> QED BY ZenonT(60), <1>2 DEF Moved, Shaped, SplitSame, StakeSame

LEMMA WritesDeposited ==
  ASSUME NEW w, Shaped(w), NEW b, NEW c, NEW at, NEW v, v = Written(w, b, c, at),
         c.type = "deposited"
  PROVE  /\ Moved(v, w, c, "deposit_submitted", None)
         /\ SplitSame(v, w) /\ StakeSame(v, w)
<1>1. Effect(w, b, c, at) = [w EXCEPT !.pending = None, !.stage = "deposit_submitted", !.depositedAt = at]
  BY DEF Effect
<1>2. v = [[w EXCEPT !.pending = None, !.stage = "deposit_submitted", !.depositedAt = at]
             EXCEPT !.last = at, !.log = @ \cup {c}]
  BY <1>1 DEF Written
<1> QED BY ZenonT(60), <1>2 DEF Moved, Shaped, SplitSame, StakeSame

LEMMA WritesDelegating ==
  ASSUME NEW w, Shaped(w), NEW b, NEW c, NEW at, NEW v, v = Written(w, b, c, at),
         c.type = "delegating"
  PROVE  /\ Moved(v, w, c, "delegation_submitted", None)
         /\ SplitSame(v, w) /\ StakeSame(v, w)
<1>1. Effect(w, b, c, at) = [w EXCEPT !.pending = None, !.stage = "delegation_submitted", !.delegatedAt = at]
  BY DEF Effect
<1>2. v = [[w EXCEPT !.pending = None, !.stage = "delegation_submitted", !.delegatedAt = at]
             EXCEPT !.last = at, !.log = @ \cup {c}]
  BY <1>1 DEF Written
<1> QED BY ZenonT(60), <1>2 DEF Moved, Shaped, SplitSame, StakeSame

LEMMA WritesStaked ==
  ASSUME NEW w, Shaped(w), NEW b, NEW c, NEW at, NEW v, v = Written(w, b, c, at),
         c.type = "staked"
  PROVE  /\ Moved(v, w, c, "staking_confirmed", w.pending)
         /\ SplitSame(v, w)
         /\ v.target = w.target /\ v.confirmed = c.amount /\ v.delegated = w.delegated
<1>1. Effect(w, b, c, at) = [w EXCEPT !.stage = "staking_confirmed", !.confirmed = c.amount]
  BY DEF Effect
<1>2. v = [[w EXCEPT !.stage = "staking_confirmed", !.confirmed = c.amount]
             EXCEPT !.last = at, !.log = @ \cup {c}]
  BY <1>1 DEF Written
<1> QED BY ZenonT(60), <1>2 DEF Moved, Shaped, SplitSame, StakeSame

LEMMA WritesDelegated ==
  ASSUME NEW w, Shaped(w), NEW b, NEW c, NEW at, NEW v, v = Written(w, b, c, at),
         c.type = "delegated"
  PROVE  /\ Moved(v, w, c, "delegated_confirmed", w.pending)
         /\ SplitSame(v, w)
         /\ v.target = w.target /\ v.confirmed = w.confirmed /\ v.delegated = c.amount
<1>1. Effect(w, b, c, at) = [w EXCEPT !.stage = "delegated_confirmed", !.delegated = c.amount]
  BY DEF Effect
<1>2. v = [[w EXCEPT !.stage = "delegated_confirmed", !.delegated = c.amount]
             EXCEPT !.last = at, !.log = @ \cup {c}]
  BY <1>1 DEF Written
<1> QED BY ZenonT(60), <1>2 DEF Moved, Shaped, SplitSame, StakeSame

LEMMA WritesComplete ==
  ASSUME NEW w, Shaped(w), NEW b, NEW c, NEW at, NEW v, v = Written(w, b, c, at),
         c.type = "complete"
  PROVE  /\ Moved(v, w, c, "complete", w.pending)
         /\ SplitSame(v, w) /\ StakeSame(v, w)
<1>1. Effect(w, b, c, at) = [w EXCEPT !.stage = "complete"]
  BY DEF Effect
<1>2. v = [[w EXCEPT !.stage = "complete"]
             EXCEPT !.last = at, !.log = @ \cup {c}]
  BY <1>1 DEF Written
<1> QED BY ZenonT(60), <1>2 DEF Moved, Shaped, SplitSame, StakeSame

LEMMA WritesReviewed ==
  ASSUME NEW w, Shaped(w), NEW b, NEW c, NEW at, NEW v, v = Written(w, b, c, at),
         c.type = "review"
  PROVE  /\ Moved(v, w, c, "manual_review", None)
         /\ SplitSame(v, w) /\ StakeSame(v, w)
<1>1. Effect(w, b, c, at) = [w EXCEPT !.pending = None, !.stage = "manual_review"]
  BY DEF Effect
<1>2. v = [[w EXCEPT !.pending = None, !.stage = "manual_review"]
             EXCEPT !.last = at, !.log = @ \cup {c}]
  BY <1>1 DEF Written
<1> QED BY ZenonT(60), <1>2 DEF Moved, Shaped, SplitSame, StakeSame

LEMMA WritesTotals ==
  ASSUME NEW w, Shaped(w), NEW b, NEW c, NEW at, NEW v, v = Written(w, b, c, at),
         c.type \in {"fill", "final"}
  PROVE  /\ \E s \in Trading \cup {"order_finalized"} : Moved(v, w, c, s, w.pending)
         /\ v.credited = c.credited
         /\ v.residual = w.residual /\ v.eligible = w.eligible
         /\ v.bound = w.bound /\ v.basis = w.basis /\ StakeSame(v, w)
<1>1. PICK f : f = IF c.matched > w.matched THEN at ELSE w.lastFill
  OBVIOUS
<1>2. PICK t : t = [w EXCEPT !.matched = c.matched, !.credited = c.credited, !.filled = c.filled,
                             !.debited = c.debited, !.lastFill = f]
  OBVIOUS
<1>3. t = Totals(w, c, at)
  BY <1>1, <1>2 DEF Totals
<1>4. /\ Shaped(t) /\ t.credited = c.credited
      /\ t.residual = w.residual /\ t.eligible = w.eligible /\ t.bound = w.bound
      /\ t.basis = w.basis /\ StakeSame(t, w) /\ t.pending = w.pending /\ t.log = w.log
  BY <1>2 DEF Shaped, StakeSame
<1>5. PICK s \in Trading \cup {"order_finalized"} : Effect(w, b, c, at) = [t EXCEPT !.stage = s]
  <2>1. CASE c.type = "fill"
    <3>1. Effect(w, b, c, at) = [t EXCEPT !.stage = IF c.full THEN "filled" ELSE "partially_filled"]
      BY <1>3, <2>1 DEF Effect
    <3> QED BY <3>1 DEF Trading
  <2>2. CASE c.type = "final"
    BY <1>3, <2>2 DEF Effect
  <2> QED BY <2>1, <2>2
<1>6. v = [[t EXCEPT !.stage = s] EXCEPT !.last = at, !.log = @ \cup {c}]
  BY <1>5 DEF Written
<1>7. Moved(v, w, c, s, w.pending) /\ v.credited = t.credited
      /\ v.residual = t.residual /\ v.eligible = t.eligible /\ v.bound = t.bound
      /\ v.basis = t.basis /\ StakeSame(v, t)
  BY ZenonT(60), <1>4, <1>6 DEF Moved, Shaped, StakeSame
<1> QED BY <1>4, <1>7 DEF StakeSame

LEMMA WritesEligible ==
  ASSUME NEW w, Shaped(w), NEW b, NEW c, NEW at, NEW v, v = Written(w, b, c, at),
         c.type = "eligible"
  PROVE  /\ Moved(v, w, c, "eligibility_recorded", w.pending)
         /\ v.basis = <<c.basis>> /\ v.credited = w.credited
         /\ v.residual = Residual(w, b) /\ v.eligible = w.credited - Residual(w, b)
         /\ v.bound = IF c.basis.kind = "bound" THEN BoundBy(c.basis) ELSE <<>>
         /\ StakeSame(v, w)
<1>1. PICK r, e, m : r = Residual(w, b) /\ e = w.credited - Residual(w, b)
                     /\ m = IF c.basis.kind = "bound" THEN BoundBy(c.basis) ELSE <<>>
  OBVIOUS
<1>2. Effect(w, b, c, at) =
        [w EXCEPT !.stage = "eligibility_recorded", !.basis = <<c.basis>>,
                  !.residual = r, !.eligible = e, !.bound = m]
  BY <1>1 DEF Effect
<1>3. v = [[w EXCEPT !.stage = "eligibility_recorded", !.basis = <<c.basis>>,
                     !.residual = r, !.eligible = e, !.bound = m]
             EXCEPT !.last = at, !.log = @ \cup {c}]
  BY <1>2 DEF Written
<1>4. /\ Moved(v, w, c, "eligibility_recorded", w.pending)
      /\ v.basis = <<c.basis>> /\ v.credited = w.credited
      /\ v.residual = r /\ v.eligible = e /\ v.bound = m /\ StakeSame(v, w)
  BY ZenonT(60), <1>3 DEF Moved, Shaped, StakeSame
<1> QED BY <1>1, <1>4

-----------------------------------------------------------------------------
(* What evidence binds *)

LEMMA LesserType ==
  ASSUME NEW a \in Nat, NEW b \in Nat
  PROVE  Lesser(a, b) \in Nat /\ Lesser(a, b) <= a /\ Lesser(a, b) <= b
BY DEF Lesser

BoundFill == [at : Int, matched : Nat, credited : Nat, notional : Nat, timely : BOOLEAN]
BoundMove == [id : Int, at : Int, amount : Nat]

LEMMA BasisCases ==
  ASSUME NEW basis \in Bases, basis.kind = "bound"
  PROVE  basis.fills \in Seq(BoundFill) /\ basis.moves \in Seq(BoundMove)
BY DEF Bases, BoundFill, BoundMove

OfId(S, x) == CHOOSE v \in S : v.id = x

LEMMA OfIdIs ==
  ASSUME NEW S, NEW x, \E v \in S : v.id = x
  PROVE  OfId(S, x) \in S /\ OfId(S, x).id = x
BY DEF OfId

\* What the bound movements took of the residual is no more than the residual.
LEMMA BoundConsumed ==
  ASSUME NEW w, NEW b, NEW ev, NEW at, BoundEvidenceOk(w, b, ev, at),
         ev.fills \in Seq(BoundFill), ev.moves \in Seq(BoundMove),
         w.credited \in Nat, b.deficit \in Nat, NEW f, f = BoundBy(ev)
  PROVE  /\ IsFiniteSet(DOMAIN f) /\ f \in [DOMAIN f -> Nat]
         /\ SumFunction(f) \in Nat /\ SumFunction(f) <= Residual(w, b)
<1>1. PICK n \in Nat, k \in Nat : /\ DOMAIN ev.moves = 1..n /\ Len(ev.moves) = n
                                  /\ DOMAIN ev.fills = 1..k /\ Len(ev.fills) = k
  OBVIOUS
<1>2. /\ \A i \in 1..n : ev.moves[i] \in BoundMove
      /\ \A i \in 1..k : ev.fills[i] \in BoundFill
  BY <1>1
<1>3. PICK ids : ids = {m.id : m \in Range(ev.moves)}
  OBVIOUS
<1>4. ids = {ev.moves[i].id : i \in 1..n}
  BY <1>1, <1>3 DEF Range
<1>5. BoundMovementsOk(b, ev, at) /\ BoundFillsOk(w, b, ev, at)
  BY DEF BoundEvidenceOk
<1>6. \A i \in 1..n : \A j \in 1..(i - 1) : ev.moves[j].id # ev.moves[i].id
  BY <1>1, <1>5 DEF BoundMovementsOk
<1>7. \A i, j \in 1..n : ev.moves[i].id = ev.moves[j].id => i = j
  <2>1. SUFFICES ASSUME NEW i \in 1..n, NEW j \in 1..n, i < j PROVE ev.moves[i].id # ev.moves[j].id
    OBVIOUS
  <2>2. i \in 1..(j - 1)
    BY <2>1
  <2> QED BY <1>6, <2>2
<1>8. DOMAIN f = ids /\ \A i \in 1..n : f[ev.moves[i].id] = ev.moves[i].amount
  <2>1. f = [x \in ids |-> OfId(Range(ev.moves), x).amount]
    BY <1>3 DEF BoundBy, OfId
  <2>2. ASSUME NEW i \in 1..n PROVE f[ev.moves[i].id] = ev.moves[i].amount
    <3>1. PICK x : x = ev.moves[i].id /\ x \in ids
      BY <1>4
    <3>2. PICK m : m = OfId(Range(ev.moves), x)
      OBVIOUS
    <3>3. ev.moves[i] \in Range(ev.moves)
      BY <1>1 DEF Range
    <3>8. \E v \in Range(ev.moves) : v.id = x
      BY <3>1, <3>3
    <3>4. m \in Range(ev.moves) /\ m.id = x
      BY <3>2, <3>8, OfIdIs
    <3>5. PICK j \in 1..n : m = ev.moves[j]
      BY <1>1, <3>4 DEF Range
    <3>6. j = i
      BY <1>7, <3>1, <3>4, <3>5
    <3>7. f[x] = m.amount
      BY <2>1, <3>1, <3>2
    <3> QED BY <3>1, <3>5, <3>6, <3>7
  <2> QED BY <2>1, <2>2
<1>9. PICK p : p = [i \in 1..n |-> ev.moves[i].id]
  OBVIOUS
<1>10. Pairs(p, 1..n, ids)
  BY <1>4, <1>7, <1>9 DEF Pairs
<1>11. PICK h : h = [j \in 1..n |-> ev.moves[j].amount]
  OBVIOUS
<1>12. h \in [1..n -> Int] /\ h \in [1..n -> Nat]
  BY <1>2, <1>11 DEF BoundMove
<1>13. f \in [ids -> Nat] /\ f \in [ids -> Int]
  <2>1. f = [x \in ids |-> f[x]]
    BY <1>3 DEF BoundBy
  <2>2. ASSUME NEW x \in ids PROVE f[x] \in Nat
    <3>1. PICK i \in 1..n : x = ev.moves[i].id
      BY <1>4
    <3> QED BY <1>2, <1>8, <3>1 DEF BoundMove
  <2> QED BY <2>1, <2>2
<1>14. IsFiniteSet(1..n) /\ IsFiniteSet(1..k)
  BY FS_Interval
<1>15. SumFunction(h) = SumFunction(f) /\ SumFunction(h) \in Nat
  <2>1. \A i \in 1..n : h[i] = f[p[i]]
    BY <1>8, <1>9, <1>11
  <2> QED BY SMTT(60), <1>10, <1>12, <1>13, <1>14, <2>1, SumReindex, SumNat
<1>16. IsFiniteSet(ids)
  BY <1>10, <1>14, FS_Surjection DEF Pairs, Surjection
<1>17. SumFunction(h) <= Residual(w, b)
  <2>0. Lesser(w.credited, b.deficit) \in Nat
    BY LesserType
  <2>1. CASE n = 0
    <3>1. DOMAIN h = {}
      BY <1>11, <2>1
    <3> QED BY <2>0, <3>1, SumEmpty DEF Residual
  <2>2. CASE n # 0
    <3>1. n \in 1..n
      BY <2>2
    <3>2. SumFunction(h) <= ResidualBefore(ev.fills, b.deficit, ev.moves[n].at)
      BY <1>1, <1>5, <1>11, <3>1 DEF BoundMovementsOk
    <3>3. PICK E, g, t : /\ E = {i \in 1..k : ev.fills[i].at < ev.moves[n].at}
                         /\ g = [i \in E |-> ev.fills[i].credited]
                         /\ t = [i \in 1..k |-> ev.fills[i].credited]
      OBVIOUS
    <3>4. ResidualBefore(ev.fills, b.deficit, ev.moves[n].at) = Lesser(b.deficit, SumFunction(g))
      BY <1>1, <3>3 DEF ResidualBefore
    <3>5. SumFunction(t) = w.credited
      BY <1>1, <1>5, <3>3 DEF BoundFillsOk, CreditedBy
    <3>6. /\ E \in SUBSET (1..k) /\ g \in [E -> Nat] /\ t \in [1..k -> Nat]
          /\ \A x \in E : g[x] = t[x]
      BY <1>2, <3>3 DEF BoundFill
    <3>7. SumFunction(g) <= SumFunction(t) /\ SumFunction(g) \in Nat
      BY <1>14, <3>6, SumPart, SumNat, FS_Subset
    <3>8. SumFunction(h) <= Lesser(b.deficit, SumFunction(g))
      BY <3>2, <3>4
    <3> QED BY <1>15, <3>5, <3>7, <3>8 DEF Lesser, Residual
  <2> QED BY <2>1, <2>2
<1> QED BY <1>8, <1>13, <1>15, <1>16, <1>17

-----------------------------------------------------------------------------
(* What every workflow keeps *)

Unsplit == {"decided", "order_finalized"} \cup Trading
Stages == OrderFinal \cup Unsplit \cup {"manual_review"}

\* A pending action belongs to the stage it starts from.
StageOK(w) ==
  /\ w.stage \in Stages
  /\ w.pending \in {None, "submit", "deposit", "delegate"}
  /\ w.pending # None => w.stage = StageFor(w.pending)

\* The split: nothing before it is recorded, and what was bought afterwards.
SplitOK(w, b) ==
  /\ w.credited \in Nat /\ w.residual \in Nat /\ w.eligible \in Nat
  /\ w.stage \in Unsplit => w.basis = <<>>
  /\ w.basis # <<>> => w.residual = Residual(w, b) /\ w.residual + w.eligible = w.credited

BoundOK(w) ==
  /\ IsFiniteSet(DOMAIN w.bound) /\ w.bound \in [DOMAIN w.bound -> Nat]
  /\ Consumed(w) \in Nat
  /\ w.basis # <<>> => Consumed(w) <= w.residual

\* The eligible part on its way: its amount is set by the first action on it.
StakeOK(w, b) ==
  /\ w.target \in {0, w.eligible} /\ w.confirmed \in {0, w.target}
  /\ w.delegated \in {0, w.confirmed}
  /\ w.stage \in Unsplit => w.target = 0
  /\ w.stage \in Unsplit \cup {"eligibility_recorded", "deposit_submitted"} => w.confirmed = 0
  /\ w.stage \in {"staking_confirmed", "delegation_submitted"} =>
       w.confirmed = w.target /\ w.delegated = 0
  /\ w.pending = "deposit" => b.staking /\ w.eligible > 0
  /\ ~b.staking => w.target = 0

FlowOK(w, b) == Shaped(w) /\ StageOK(w) /\ SplitOK(w, b) /\ BoundOK(w) /\ StakeOK(w, b)

LEMMA StageNames ==
  /\ StageFor("submit") = "decided" /\ StageFor("deposit") = "eligibility_recorded"
  /\ StageFor("delegate") = "staking_confirmed"
BY DEF StageFor

\* What stays when neither the split nor what is on its way changes.
LEMMA FlowSame ==
  ASSUME NEW w, NEW v, NEW b, FlowOK(w, b), SplitSame(v, w), StakeSame(v, w), Shaped(v), StageOK(v),
         v.stage \in Unsplit => w.stage \in Unsplit, v.pending = "deposit" => w.pending = "deposit",
         v.stage \in {"eligibility_recorded", "deposit_submitted"} =>
           w.stage \in Unsplit \cup {"eligibility_recorded", "deposit_submitted"},
         v.stage \in {"staking_confirmed", "delegation_submitted"} =>
           w.stage \in {"staking_confirmed", "delegation_submitted"}
  PROVE  FlowOK(v, b)
<1>1. SplitOK(v, b)
  BY DEF FlowOK, SplitOK, SplitSame, Residual
<1>2. BoundOK(v)
  BY DEF FlowOK, BoundOK, SplitSame, Consumed
<1>3. StakeOK(v, b)
  BY DEF FlowOK, StakeOK, StakeSame, SplitSame
<1> QED BY <1>1, <1>2, <1>3 DEF FlowOK

\* b is a binding: what a workflow's split depends on.
BindingOK(b) == b.deficit \in Nat /\ b.staking \in BOOLEAN

Kinds ==
  {"prepare", "submitted", "absent", "fill", "final", "eligible", "deposited", "staked",
   "delegating", "delegated", "complete", "review"}

\* What of a call's type the workflow's amounts depend on.
CallOK(c) ==
  /\ c.type \in Kinds
  /\ c.type = "prepare" => c.obs \in {"submit", "deposit", "delegate"}
  /\ c.type \in {"fill", "final"} => c.credited \in Nat
  /\ c.type = "eligible" /\ c.basis.kind = "bound" =>
       c.basis.fills \in Seq(BoundFill) /\ c.basis.moves \in Seq(BoundMove)

LEMMA CallKinds == ASSUME NEW c \in Recordings PROVE CallOK(c)
<1>1. CASE c \in [type : {"prepare"}, obs : {"submit", "deposit", "delegate"}]
  BY <1>1 DEF Kinds, CallOK
<1>2. CASE c \in [type : {"submitted"}, exact : BOOLEAN, order : STRING, accepted : Nat, acceptedAt : Int]
  BY <1>2 DEF Kinds, CallOK
<1>3. CASE c \in [type : {"absent"}, obs : STRING, exact : BOOLEAN, ordersThrough : Int, fillsThrough : Int]
  BY <1>3 DEF Kinds, CallOK
<1>4. CASE c \in [type : {"fill"}, obs : STRING, matched : Nat, credited : Nat, filled : Nat,
                  debited : Nat, full : BOOLEAN]
  BY <1>4 DEF Kinds, CallOK
<1>5. CASE c \in [type : {"final"}, matched : Nat, credited : Nat, filled : Nat, debited : Nat,
                  finality : {"filled", "canceled", "expired"}]
  BY <1>5 DEF Kinds, CallOK
<1>6. CASE c \in [type : {"eligible"}, basis : Bases]
  BY <1>6, BasisCases DEF Kinds, CallOK
<1>7. CASE c \in [type : {"deposited", "delegating"}, receipt : Int]
  BY <1>7 DEF Kinds, CallOK
<1>8. CASE c \in [type : {"staked", "delegated"}, obs : STRING, exact : BOOLEAN, baseline : Int,
                  current : Int, amount : Nat]
  BY <1>8 DEF Kinds, CallOK
<1>9. CASE c \in [type : {"complete"}]
  BY <1>9 DEF Kinds, CallOK
<1>10. CASE c \in [type : {"review"}, obs : STRING]
  BY <1>10 DEF Kinds, CallOK
<1> QED BY <1>1, <1>2, <1>3, <1>4, <1>5, <1>6, <1>7, <1>8, <1>9, <1>10 DEF Recordings

LEMMA FlowSplit ==
  ASSUME NEW w, NEW b, NEW c, NEW at, FlowOK(w, b), BindingOK(b), c.type = "eligible", CallOK(c),
         Placed(w, b, c), Proven(w, b, c, at), NEW v, v = Written(w, b, c, at)
  PROVE  FlowOK(v, b)
<1>1. Shaped(w)
  BY DEF FlowOK
<1>2. /\ Moved(v, w, c, "eligibility_recorded", w.pending)
      /\ v.basis = <<c.basis>> /\ v.credited = w.credited
      /\ v.residual = Residual(w, b) /\ v.eligible = w.credited - Residual(w, b)
      /\ v.bound = IF c.basis.kind = "bound" THEN BoundBy(c.basis) ELSE <<>>
      /\ StakeSame(v, w)
  BY <1>1, WritesEligible
<1>3. w.stage = "order_finalized"
  BY DEF Placed
<1>4. w.pending = None
  BY <1>3, StageNames DEF FlowOK, StageOK
<1>5. w.credited \in Nat /\ b.deficit \in Nat
  BY DEF FlowOK, SplitOK, BindingOK
<1>6. Residual(w, b) \in Nat /\ Residual(w, b) <= w.credited
  BY <1>5, LesserType DEF Residual
<1>7. Shaped(v) /\ StageOK(v)
  BY <1>2, <1>4 DEF Moved, StageOK, Stages, OrderFinal
<1>8. SplitOK(v, b)
  BY <1>2, <1>5, <1>6 DEF SplitOK, Moved, Unsplit, Trading, Residual
<1>9. BoundOK(v)
  <2>1. CASE c.basis.kind = "bound"
    <3>1. BoundEvidenceOk(w, b, c.basis, at)
      BY <2>1 DEF Proven, BasisOk
    <3>2. c.basis.fills \in Seq(BoundFill) /\ c.basis.moves \in Seq(BoundMove)
      BY <2>1 DEF CallOK
    <3>3. v.bound = BoundBy(c.basis)
      BY <1>2, <2>1
    <3> QED BY <1>2, <1>5, <3>1, <3>2, <3>3, BoundConsumed DEF BoundOK, Consumed
  <2>2. CASE c.basis.kind # "bound"
    <3>1. v.bound = <<>> /\ DOMAIN <<>> = {}
      BY <1>2, <2>2
    <3>2. SumFunction(v.bound) = 0
      BY <3>1, SumEmpty
    <3>3. <<>> \in [{} -> Nat]
      OBVIOUS
    <3>4. IsFiniteSet(DOMAIN v.bound) /\ v.bound \in [DOMAIN v.bound -> Nat]
      BY <3>1, <3>3, FS_EmptySet
    <3> QED BY <1>2, <1>6, <3>2, <3>4 DEF BoundOK, Consumed
  <2> QED BY <2>1, <2>2
<1>10. StakeOK(v, b)
  <2>1. w.target = 0 /\ w.confirmed = 0 /\ w.delegated = 0
    BY <1>3 DEF FlowOK, StakeOK, Unsplit
  <2> QED BY <1>2, <1>4, <2>1 DEF StakeOK, StakeSame, Moved, None, Unsplit, Trading
<1> QED BY <1>7, <1>8, <1>9, <1>10 DEF FlowOK

LEMMA FlowTotals ==
  ASSUME NEW w, NEW b, NEW c, NEW at, FlowOK(w, b), c.type \in {"fill", "final"}, c.credited \in Nat,
         Placed(w, b, c), NEW v, v = Written(w, b, c, at)
  PROVE  FlowOK(v, b)
<1>1. PICK s \in Trading \cup {"order_finalized"} :
        /\ Moved(v, w, c, s, w.pending) /\ v.credited = c.credited
        /\ v.residual = w.residual /\ v.eligible = w.eligible
        /\ v.bound = w.bound /\ v.basis = w.basis /\ StakeSame(v, w)
  BY WritesTotals DEF FlowOK
<1>2. w.stage \in Trading
  BY DEF Placed
<1>3. w.basis = <<>> /\ w.target = 0 /\ w.confirmed = 0 /\ w.delegated = 0
  BY <1>2 DEF FlowOK, SplitOK, StakeOK, Unsplit
<1>4. w.pending = None
  BY <1>2, StageNames DEF FlowOK, StageOK, Trading
<1>5. Shaped(v) /\ StageOK(v)
  BY <1>1, <1>4 DEF Moved, StageOK, Stages, Unsplit
<1>6. SplitOK(v, b)
  BY <1>1, <1>3 DEF FlowOK, SplitOK
<1>7. BoundOK(v)
  BY <1>1, <1>3 DEF FlowOK, BoundOK, Consumed
<1>8. StakeOK(v, b)
  BY <1>1, <1>3, <1>4 DEF StakeOK, StakeSame, Moved, Trading, None
<1> QED BY <1>5, <1>6, <1>7, <1>8 DEF FlowOK

LEMMA FlowPrepared ==
  ASSUME NEW w, NEW b, NEW c, NEW at, FlowOK(w, b), BindingOK(b), c.type = "prepare",
         c.obs \in {"submit", "deposit", "delegate"},
         Placed(w, b, c), NEW v, v = Written(w, b, c, at)
  PROVE  FlowOK(v, b)
<1>1. /\ Moved(v, w, c, w.stage, c.obs) /\ SplitSame(v, w)
      /\ v.target = IF c.obs = "deposit" THEN w.eligible ELSE w.target
      /\ v.confirmed = w.confirmed /\ v.delegated = w.delegated
  BY WritesPrepare DEF FlowOK
<1>2. w.stage = StageFor(c.obs) /\ (c.obs # "submit" => b.staking)
  BY DEF Placed
<1>3. CASE c.obs # "deposit"
  <2>1. StageOK(v) /\ StakeSame(v, w) /\ Shaped(v) /\ v.stage = w.stage
    BY <1>1, <1>2, <1>3 DEF FlowOK, StageOK, StakeSame, Moved
  <2>2. v.pending # "deposit"
    BY <1>1, <1>3 DEF Moved
  <2> QED BY <1>1, <2>1, <2>2, FlowSame
<1>4. CASE c.obs = "deposit"
  <2>1. w.stage = "eligibility_recorded" /\ v.stage = "eligibility_recorded"
    BY <1>1, <1>2, <1>4, StageNames DEF Moved
  <2>2. StageOK(v) /\ Shaped(v)
    BY <1>1, <1>2, <1>4 DEF FlowOK, StageOK, Moved
  <2>3. SplitOK(v, b)
    BY <1>1, <2>1 DEF FlowOK, SplitOK, SplitSame, Residual
  <2>4. BoundOK(v)
    BY <1>1 DEF FlowOK, BoundOK, SplitSame, Consumed
  <2>5. StakeOK(v, b)
    <3>1. w.confirmed = 0 /\ w.delegated = 0 /\ b.staking /\ w.eligible > 0
      BY <1>2, <1>4, <2>1 DEF FlowOK, StakeOK, Placed
    <3> QED BY <1>1, <1>4, <2>1, <3>1 DEF StakeOK, SplitSame, Unsplit, Trading
  <2> QED BY <2>2, <2>3, <2>4, <2>5 DEF FlowOK
<1> QED BY <1>3, <1>4

LEMMA FlowStaked ==
  ASSUME NEW w, NEW b, NEW c, NEW at, FlowOK(w, b), c.type \in {"staked", "delegated"},
         Placed(w, b, c), Proven(w, b, c, at), NEW v, v = Written(w, b, c, at)
  PROVE  FlowOK(v, b)
<1>1. c.amount = w.target
  BY DEF Proven, BalanceOk
<1>2. CASE c.type = "staked"
  <2>1. /\ Moved(v, w, c, "staking_confirmed", w.pending) /\ SplitSame(v, w)
        /\ v.target = w.target /\ v.confirmed = c.amount /\ v.delegated = w.delegated
    BY <1>2, WritesStaked DEF FlowOK
  <2>2. w.stage = "deposit_submitted"
    BY <1>2 DEF Placed
  <2>3. w.pending = None
    BY <2>2, StageNames DEF FlowOK, StageOK
  <2>4. Shaped(v) /\ StageOK(v)
    BY <2>1, <2>3 DEF Moved, StageOK, Stages, OrderFinal
  <2>5. SplitOK(v, b) /\ BoundOK(v)
    BY <2>1 DEF FlowOK, SplitOK, BoundOK, SplitSame, Moved, Unsplit, Trading, Residual, Consumed
  <2>6. w.confirmed = 0 /\ w.delegated = 0
    BY <2>2 DEF FlowOK, StakeOK
  <2>7. StakeOK(v, b)
    BY <1>1, <2>1, <2>3, <2>6 DEF FlowOK, StakeOK, SplitSame, Moved, Unsplit, Trading, None
  <2> QED BY <2>4, <2>5, <2>7 DEF FlowOK
<1>3. CASE c.type = "delegated"
  <2>1. /\ Moved(v, w, c, "delegated_confirmed", w.pending) /\ SplitSame(v, w)
        /\ v.target = w.target /\ v.confirmed = w.confirmed /\ v.delegated = c.amount
    BY <1>3, WritesDelegated DEF FlowOK
  <2>2. w.stage = "delegation_submitted"
    BY <1>3 DEF Placed
  <2>3. w.pending = None
    BY <2>2, StageNames DEF FlowOK, StageOK
  <2>4. Shaped(v) /\ StageOK(v)
    BY <2>1, <2>3 DEF Moved, StageOK, Stages, OrderFinal
  <2>5. SplitOK(v, b) /\ BoundOK(v)
    BY <2>1 DEF FlowOK, SplitOK, BoundOK, SplitSame, Moved, Unsplit, Trading, Residual, Consumed
  <2>6. w.confirmed = w.target
    BY <2>2 DEF FlowOK, StakeOK
  <2>7. StakeOK(v, b)
    BY <1>1, <2>1, <2>3, <2>6 DEF FlowOK, StakeOK, SplitSame, Moved, Unsplit, Trading, None
  <2> QED BY <2>4, <2>5, <2>7 DEF FlowOK
<1> QED BY <1>2, <1>3

\* The events that neither split nor stake.
LEMMA FlowOn ==
  ASSUME NEW w, NEW b, NEW c, NEW at, FlowOK(w, b), Placed(w, b, c), NEW v, v = Written(w, b, c, at),
         c.type \in {"submitted", "absent", "deposited", "delegating", "complete", "review"}
  PROVE  FlowOK(v, b)
<1>0. Shaped(w)
  BY DEF FlowOK
<1>1. CASE c.type = "submitted"
  <2>1. Moved(v, w, c, "order_submitted", None) /\ SplitSame(v, w) /\ StakeSame(v, w)
    BY <1>0, <1>1, WritesSubmitted
  <2>2. w.stage = "decided"
    BY <1>1 DEF Placed
  <2>3. StageOK(v) /\ Shaped(v)
    BY <2>1 DEF Moved, StageOK, Stages, Unsplit, Trading
  <2>4. v.stage \in Unsplit /\ w.stage \in Unsplit /\ v.stage = "order_submitted" /\ v.pending # "deposit"
    BY <2>1, <2>2 DEF Moved, Unsplit, Trading, None
  <2> QED BY <2>1, <2>3, <2>4, FlowSame
<1>2. CASE c.type = "absent"
  <2>1. Moved(v, w, c, "order_finalized", None) /\ SplitSame(v, w) /\ StakeSame(v, w)
    BY <1>0, <1>2, WritesAbsent
  <2>2. w.stage = "decided"
    BY <1>2 DEF Placed
  <2>3. StageOK(v) /\ Shaped(v)
    BY <2>1 DEF Moved, StageOK, Stages, Unsplit
  <2>4. v.stage \in Unsplit /\ w.stage \in Unsplit /\ v.stage = "order_finalized" /\ v.pending # "deposit"
    BY <2>1, <2>2 DEF Moved, Unsplit, None
  <2> QED BY <2>1, <2>3, <2>4, FlowSame
<1>3. CASE c.type = "deposited"
  <2>1. Moved(v, w, c, "deposit_submitted", None) /\ SplitSame(v, w) /\ StakeSame(v, w)
    BY <1>0, <1>3, WritesDeposited
  <2>2. w.stage = "eligibility_recorded"
    <3>1. w.pending = "deposit" /\ w.pending # None
      BY <1>3 DEF Placed, None
    <3> QED BY <3>1, StageNames DEF FlowOK, StageOK
  <2>3. StageOK(v) /\ Shaped(v)
    BY <2>1 DEF Moved, StageOK, Stages, OrderFinal
  <2> QED BY <2>1, <2>2, <2>3, FlowSame DEF Moved, Unsplit, Trading, None
<1>4. CASE c.type = "delegating"
  <2>1. Moved(v, w, c, "delegation_submitted", None) /\ SplitSame(v, w) /\ StakeSame(v, w)
    BY <1>0, <1>4, WritesDelegating
  <2>2. w.stage = "staking_confirmed"
    <3>1. w.pending = "delegate" /\ w.pending # None
      BY <1>4 DEF Placed, None
    <3> QED BY <3>1, StageNames DEF FlowOK, StageOK
  <2>3. StageOK(v) /\ Shaped(v)
    BY <2>1 DEF Moved, StageOK, Stages, OrderFinal
  <2> QED BY <2>1, <2>2, <2>3, FlowSame DEF Moved, Unsplit, Trading, None
<1>5. CASE c.type = "complete"
  <2>1. Moved(v, w, c, "complete", w.pending) /\ SplitSame(v, w) /\ StakeSame(v, w)
    BY <1>0, <1>5, WritesComplete
  <2>2. \/ w.stage = "eligibility_recorded" /\ (~b.staking \/ w.eligible = 0)
        \/ w.stage = "delegated_confirmed"
    BY <1>5 DEF Placed
  <2>3. w.pending = None
    BY <2>2, StageNames DEF FlowOK, StageOK, StakeOK, SplitOK
  <2>4. StageOK(v) /\ Shaped(v)
    BY <2>1, <2>3 DEF Moved, StageOK, Stages, OrderFinal
  <2> QED BY <2>1, <2>4, FlowSame DEF Moved, Unsplit, Trading, None
<1>6. CASE c.type = "review"
  <2>1. Moved(v, w, c, "manual_review", None) /\ SplitSame(v, w) /\ StakeSame(v, w)
    BY <1>0, <1>6, WritesReviewed
  <2>2. StageOK(v) /\ Shaped(v)
    BY <2>1 DEF Moved, StageOK, Stages, OrderFinal
  <2> QED BY <2>1, <2>2, FlowSame DEF Moved, Unsplit, Trading, None
<1> QED BY <1>1, <1>2, <1>3, <1>4, <1>5, <1>6


\* Whatever is reported of a workflow, by whoever and whenever.
LEMMA FlowKept ==
  ASSUME NEW w, NEW b, NEW c, CallOK(c), NEW at, NEW taken, FlowOK(w, b), BindingOK(b),
         NEW v, v = Call(w, b, c, at, taken).w
  PROVE  FlowOK(v, b)
<1>1. \/ v = w
      \/ \E why : v = ToReview(w, why, at)
      \/ Accepted(w, b, c, at, taken) /\ v = Written(w, b, c, at)
  BY CallLeaves
<1>2. CASE \E why : v = ToReview(w, why, at)
  <2>1. \/ v = w
        \/ /\ \E d : d.type = "review" /\ Moved(v, w, d, "manual_review", None)
           /\ SplitSame(v, w) /\ StakeSame(v, w)
    BY <1>2, WritesReview DEF FlowOK
  <2>2. ASSUME NEW d, Moved(v, w, d, "manual_review", None), SplitSame(v, w), StakeSame(v, w)
        PROVE  FlowOK(v, b)
    <3>1. StageOK(v) /\ Shaped(v)
      BY <2>2 DEF Moved, StageOK, Stages
    <3> QED BY <2>2, <3>1, FlowSame DEF Moved, Unsplit, Trading, OrderFinal, None
  <2> QED BY <2>1, <2>2
<1>3. CASE Accepted(w, b, c, at, taken) /\ v = Written(w, b, c, at)
  <2>1. /\ c.type \in Kinds
        /\ c.type = "prepare" => c.obs \in {"submit", "deposit", "delegate"}
        /\ c.type \in {"fill", "final"} => c.credited \in Nat
    BY DEF CallOK
  <2>2. Placed(w, b, c) /\ Proven(w, b, c, at)
    BY <1>3 DEF Accepted
  <2>3. CASE c.type = "prepare"
    BY <1>3, <2>1, <2>2, <2>3, FlowPrepared
  <2>4. CASE c.type \in {"fill", "final"}
    BY <1>3, <2>1, <2>2, <2>4, FlowTotals
  <2>5. CASE c.type = "eligible"
    BY <1>3, <2>1, <2>2, <2>5, FlowSplit
  <2>6. CASE c.type \in {"staked", "delegated"}
    BY <1>3, <2>1, <2>2, <2>6, FlowStaked
  <2>7. CASE c.type \in {"submitted", "absent", "deposited", "delegating", "complete", "review"}
    BY <1>3, <2>2, <2>7, FlowOn
  <2> QED BY <2>1, <2>3, <2>4, <2>5, <2>6, <2>7 DEF Kinds
<1> QED BY <1>1, <1>2, <1>3

\* What the state says of a day's split.
LEMMA FlowShows ==
  ASSUME NEW w, NEW b, FlowOK(w, b)
  PROVE  /\ w.basis # <<>> => /\ w.residual + w.eligible = w.credited
                              /\ w.residual = Residual(w, b)
                              /\ Consumed(w) <= w.residual
         /\ w.target \in {0, w.eligible} /\ w.confirmed \in {0, w.target}
         /\ w.delegated \in {0, w.confirmed}
         /\ ~b.staking => w.target = 0
BY DEF FlowOK, SplitOK, BoundOK, StakeOK

LEMMA FlowNew ==
  ASSUME NEW b, BindingOK(b)
  PROVE  FlowOK(NewWorkflow(b), b)
<1>1. PICK w : w = NewWorkflow(b)
  OBVIOUS
<1>2. /\ w.stage = "decided" /\ w.pending = None /\ w.credited = 0 /\ w.residual = 0
      /\ w.eligible = 0 /\ w.bound = <<>> /\ w.basis = <<>>
      /\ w.target = 0 /\ w.confirmed = 0 /\ w.delegated = 0
  BY <1>1 DEF NewWorkflow
<1>3. Shaped(w)
  BY <1>1 DEF NewWorkflow, Shaped
<1>4. StageOK(w)
  BY <1>2 DEF StageOK, Stages, Unsplit
<1>5. SplitOK(w, b) /\ StakeOK(w, b)
  BY <1>2 DEF SplitOK, StakeOK, Unsplit, None
<1>6. BoundOK(w)
  <2>1. DOMAIN w.bound = {} /\ w.bound = <<>>
    BY <1>2
  <2>2. Consumed(w) = 0
    BY <2>1, SumEmpty DEF Consumed
  <2>3. <<>> \in [{} -> Nat]
    OBVIOUS
  <2> QED BY <1>2, <2>1, <2>2, <2>3, FS_EmptySet DEF BoundOK
<1> QED BY <1>1, <1>3, <1>4, <1>5, <1>6 DEF FlowOK


-----------------------------------------------------------------------------
(* What was recorded may be reported again *)

Rank(stage) ==
  CASE stage = "decided" -> 0
    [] stage \in Trading -> 1
    [] stage = "order_finalized" -> 2
    [] stage = "eligibility_recorded" -> 3
    [] stage = "deposit_submitted" -> 4
    [] stage = "staking_confirmed" -> 5
    [] stage = "delegation_submitted" -> 6
    [] stage = "delegated_confirmed" -> 7
    [] stage = "complete" -> 8
    [] OTHER -> 9

LEMMA Ranks ==
  /\ Rank("decided") = 0 /\ \A s \in Trading : Rank(s) = 1
  /\ Rank("order_finalized") = 2 /\ Rank("eligibility_recorded") = 3
  /\ Rank("deposit_submitted") = 4 /\ Rank("staking_confirmed") = 5
  /\ Rank("delegation_submitted") = 6 /\ Rank("delegated_confirmed") = 7
  /\ Rank("complete") = 8 /\ Rank("manual_review") = 9
<1>1. \A s \in Trading : Rank(s) = 1
  BY DEF Rank, Trading
<1> QED BY <1>1 DEF Rank, Trading

LEMMA RankType ==
  ASSUME NEW s \in Stages
  PROVE  Rank(s) \in 0..9 /\ (Rank(s) = 9 => s = "manual_review")
BY Ranks DEF Stages, OrderFinal, Unsplit

\* What an event that is recorded leaves for ever: an action is pending or the
\* workflow has passed its stage, and the basis of the split stands.
Remembers(w, b, taken, c) ==
  /\ c.type = "prepare" =>
       /\ c.obs \in {"submit", "deposit", "delegate"}
       /\ \/ Rank(w.stage) > Rank(StageFor(c.obs))
          \/ w.stage = StageFor(c.obs) /\ w.pending = c.obs
  /\ c.type = "submitted" => ~(c.acceptedAt >= b.signed) /\ c.order \notin taken
  /\ c.type = "eligible" => Rank(w.stage) > 2 /\ w.basis = <<c.basis>>

LogOK(w, b, taken) == \A c \in w.log : Remembers(w, b, taken, c)

\* Where an event that is recorded may take the workflow.
Onwards(v, w, c) ==
  \/ Rank(v.stage) > Rank(w.stage) /\ v.basis = w.basis /\ c.type \notin {"prepare", "eligible"}
  \/ /\ c.type = "prepare" /\ w.pending = None /\ v.pending = c.obs
     /\ v.stage = w.stage /\ w.stage = StageFor(c.obs) /\ v.basis = w.basis
  \/ c.type = "fill" /\ {v.stage, w.stage} \subseteq Trading /\ v.basis = w.basis
  \/ c.type = "eligible" /\ w.stage = "order_finalized" /\ v.stage = "eligibility_recorded"
     /\ v.basis = <<c.basis>>
  \/ c.type = "review" /\ v.stage = "manual_review" /\ v.basis = w.basis

LEMMA Advances ==
  ASSUME NEW w, NEW b, NEW c, CallOK(c), NEW at, FlowOK(w, b), Placed(w, b, c),
         NEW v, v = Written(w, b, c, at)
  PROVE  v.log = w.log \cup {c} /\ Onwards(v, w, c)
<1>0. Shaped(w) /\ c.type \in Kinds
  BY DEF FlowOK, CallOK
<1>1. CASE c.type = "prepare"
  <2>1. Moved(v, w, c, w.stage, c.obs) /\ SplitSame(v, w)
    BY <1>0, <1>1, WritesPrepare
  <2>2. w.pending = None /\ w.stage = StageFor(c.obs)
    BY <1>1 DEF Placed
  <2> QED BY <1>1, <2>1, <2>2 DEF Moved, SplitSame, Onwards
<1>2. CASE c.type = "submitted"
  <2>1. Moved(v, w, c, "order_submitted", None) /\ SplitSame(v, w)
    BY <1>0, <1>2, WritesSubmitted
  <2>2. w.stage = "decided"
    BY <1>2 DEF Placed
  <2> QED BY <1>2, <2>1, <2>2, Ranks DEF Moved, SplitSame, Onwards, Trading
<1>3. CASE c.type = "absent"
  <2>1. Moved(v, w, c, "order_finalized", None) /\ SplitSame(v, w)
    BY <1>0, <1>3, WritesAbsent
  <2>2. w.stage = "decided"
    BY <1>3 DEF Placed
  <2> QED BY <1>3, <2>1, <2>2, Ranks DEF Moved, SplitSame, Onwards
<1>4. CASE c.type = "fill"
  <2>1. v.log = w.log \cup {c} /\ v.stage \in Trading /\ v.basis = w.basis
    <3>1. PICK t : t = Totals(w, c, at)
      OBVIOUS
    <3>2. PICK f : f = IF c.matched > w.matched THEN at ELSE w.lastFill
      OBVIOUS
    <3>3. t = [w EXCEPT !.matched = c.matched, !.credited = c.credited, !.filled = c.filled,
                        !.debited = c.debited, !.lastFill = f]
      BY <3>1, <3>2 DEF Totals
    <3>4. Shaped(t) /\ t.basis = w.basis /\ t.log = w.log
      BY <1>0, <3>3 DEF Shaped
    <3>5. PICK s \in Trading : s = IF c.full THEN "filled" ELSE "partially_filled"
      BY DEF Trading
    <3>6. Effect(w, b, c, at) = [t EXCEPT !.stage = s]
      BY <1>4, <3>1, <3>5 DEF Effect
    <3>7. v = [[t EXCEPT !.stage = s] EXCEPT !.last = at, !.log = @ \cup {c}]
      BY <3>6 DEF Written
    <3> QED BY <3>4, <3>7 DEF Shaped
  <2>2. w.stage \in Trading
    BY <1>4 DEF Placed
  <2> QED BY <1>4, <2>1, <2>2 DEF Onwards
<1>5. CASE c.type = "final"
  <2>1. v.log = w.log \cup {c} /\ v.stage = "order_finalized" /\ v.basis = w.basis
    <3>1. PICK t : t = Totals(w, c, at)
      OBVIOUS
    <3>2. PICK f : f = IF c.matched > w.matched THEN at ELSE w.lastFill
      OBVIOUS
    <3>3. t = [w EXCEPT !.matched = c.matched, !.credited = c.credited, !.filled = c.filled,
                        !.debited = c.debited, !.lastFill = f]
      BY <3>1, <3>2 DEF Totals
    <3>4. Shaped(t) /\ t.basis = w.basis /\ t.log = w.log
      BY <1>0, <3>3 DEF Shaped
    <3>6. Effect(w, b, c, at) = [t EXCEPT !.stage = "order_finalized"]
      BY <1>5, <3>1 DEF Effect
    <3>7. v = [[t EXCEPT !.stage = "order_finalized"] EXCEPT !.last = at, !.log = @ \cup {c}]
      BY <3>6 DEF Written
    <3> QED BY <3>4, <3>7 DEF Shaped
  <2>2. w.stage \in Trading
    BY <1>5 DEF Placed
  <2> QED BY <1>5, <2>1, <2>2, Ranks DEF Onwards
<1>6. CASE c.type = "eligible"
  <2>1. Moved(v, w, c, "eligibility_recorded", w.pending) /\ v.basis = <<c.basis>>
    BY <1>0, <1>6, WritesEligible
  <2>2. w.stage = "order_finalized"
    BY <1>6 DEF Placed
  <2> QED BY <1>6, <2>1, <2>2 DEF Moved, Onwards
<1>7. CASE c.type = "deposited"
  <2>1. Moved(v, w, c, "deposit_submitted", None) /\ SplitSame(v, w)
    BY <1>0, <1>7, WritesDeposited
  <2>2. w.pending = "deposit" /\ w.pending # None
    BY <1>7 DEF Placed, None
  <2>3. w.stage = "eligibility_recorded"
    BY <2>2, StageNames DEF FlowOK, StageOK
  <2> QED BY <1>7, <2>1, <2>3, Ranks DEF Moved, SplitSame, Onwards
<1>8. CASE c.type = "staked"
  <2>1. Moved(v, w, c, "staking_confirmed", w.pending) /\ SplitSame(v, w)
    BY <1>0, <1>8, WritesStaked
  <2>2. w.stage = "deposit_submitted"
    BY <1>8 DEF Placed
  <2> QED BY <1>8, <2>1, <2>2, Ranks DEF Moved, SplitSame, Onwards
<1>9. CASE c.type = "delegating"
  <2>1. Moved(v, w, c, "delegation_submitted", None) /\ SplitSame(v, w)
    BY <1>0, <1>9, WritesDelegating
  <2>2. w.pending = "delegate" /\ w.pending # None
    BY <1>9 DEF Placed, None
  <2>3. w.stage = "staking_confirmed"
    BY <2>2, StageNames DEF FlowOK, StageOK
  <2> QED BY <1>9, <2>1, <2>3, Ranks DEF Moved, SplitSame, Onwards
<1>10. CASE c.type = "delegated"
  <2>1. Moved(v, w, c, "delegated_confirmed", w.pending) /\ SplitSame(v, w)
    BY <1>0, <1>10, WritesDelegated
  <2>2. w.stage = "delegation_submitted"
    BY <1>10 DEF Placed
  <2> QED BY <1>10, <2>1, <2>2, Ranks DEF Moved, SplitSame, Onwards
<1>11. CASE c.type = "complete"
  <2>1. Moved(v, w, c, "complete", w.pending) /\ SplitSame(v, w)
    BY <1>0, <1>11, WritesComplete
  <2>2. w.stage \in {"eligibility_recorded", "delegated_confirmed"}
    BY <1>11 DEF Placed
  <2> QED BY <1>11, <2>1, <2>2, Ranks DEF Moved, SplitSame, Onwards
<1>12. CASE c.type = "review"
  <2>1. Moved(v, w, c, "manual_review", None) /\ SplitSame(v, w)
    BY <1>0, <1>12, WritesReviewed
  <2> QED BY <1>12, <2>1 DEF Moved, SplitSame, Onwards
<1> QED BY <1>0, <1>1, <1>2, <1>3, <1>4, <1>5, <1>6, <1>7, <1>8, <1>9, <1>10, <1>11, <1>12
        DEF Kinds


\* What is in review, or has passed a stage, stays so.
LEMMA RemembersOn ==
  ASSUME NEW w, NEW b, NEW taken, NEW c, NEW d, NEW v, Remembers(w, b, taken, d),
         w.stage \in Stages, v.stage \in Stages, Onwards(v, w, c)
  PROVE  Remembers(v, b, taken, d)
<1>1. Rank(w.stage) \in 0..9 /\ Rank(v.stage) \in 0..9
  BY RankType
<1>2. CASE Rank(v.stage) > Rank(w.stage) /\ v.basis = w.basis
  <2>1. ASSUME d.type = "prepare" PROVE Rank(v.stage) > Rank(StageFor(d.obs))
    BY <1>1, <1>2, <2>1, StageNames, Ranks DEF Remembers
  <2>2. d.type = "eligible" => Rank(v.stage) > 2 /\ v.basis = <<d.basis>>
    BY <1>1, <1>2 DEF Remembers
  <2> QED BY <2>1, <2>2 DEF Remembers
<1>3. CASE /\ c.type = "prepare" /\ w.pending = None /\ v.pending = c.obs
           /\ v.stage = w.stage /\ w.stage = StageFor(c.obs) /\ v.basis = w.basis
  <2>1. ASSUME d.type = "prepare" PROVE Rank(v.stage) > Rank(StageFor(d.obs))
    BY <1>3, <2>1 DEF Remembers, None
  <2> QED BY <1>3, <2>1 DEF Remembers
<1>4. CASE {v.stage, w.stage} \subseteq Trading /\ v.basis = w.basis
  <2>1. Rank(v.stage) = 1 /\ Rank(w.stage) = 1
    BY <1>4, Ranks
  <2>2. ASSUME d.type = "prepare" PROVE Rank(v.stage) > Rank(StageFor(d.obs))
    BY <1>4, <2>1, <2>2, StageNames, Ranks DEF Remembers
  <2> QED BY <2>1, <2>2 DEF Remembers
<1>5. CASE w.stage = "order_finalized" /\ v.stage = "eligibility_recorded"
  <2>1. Rank(v.stage) = 3 /\ Rank(w.stage) = 2
    BY <1>5, Ranks
  <2>2. ASSUME d.type = "prepare" PROVE Rank(v.stage) > Rank(StageFor(d.obs))
    BY <1>5, <2>1, <2>2, StageNames, Ranks DEF Remembers
  <2> QED BY <2>1, <2>2 DEF Remembers
<1>6. CASE v.stage = "manual_review" /\ v.basis = w.basis
  <2>1. Rank(v.stage) = 9
    BY <1>6, Ranks
  <2>2. ASSUME d.type = "prepare" PROVE Rank(v.stage) > Rank(StageFor(d.obs))
    BY <2>1, <2>2, StageNames, Ranks DEF Remembers
  <2> QED BY <1>6, <2>1, <2>2 DEF Remembers
<1> QED BY <1>2, <1>3, <1>4, <1>5, <1>6 DEF Onwards

LEMMA LogKept ==
  ASSUME NEW w, NEW b, NEW c, CallOK(c), NEW at, NEW taken, FlowOK(w, b), BindingOK(b),
         LogOK(w, b, taken), NEW v, v = Call(w, b, c, at, taken).w
  PROVE  LogOK(v, b, taken)
<1>1. \/ v = w
      \/ \E why : v = ToReview(w, why, at)
      \/ Accepted(w, b, c, at, taken) /\ v = Written(w, b, c, at)
  BY CallLeaves
<1>2. w.stage \in Stages /\ v.stage \in Stages
  BY FlowKept DEF FlowOK, StageOK
<1>3. CASE \E why : v = ToReview(w, why, at)
  <2>1. \/ v = w
        \/ /\ \E d : d.type = "review" /\ Moved(v, w, d, "manual_review", None)
           /\ SplitSame(v, w) /\ StakeSame(v, w)
    BY <1>3, WritesReview DEF FlowOK
  <2>2. ASSUME NEW d, d.type = "review", Moved(v, w, d, "manual_review", None), SplitSame(v, w)
        PROVE  LogOK(v, b, taken)
    <3>1. Onwards(v, w, d) /\ v.log = w.log \cup {d}
      BY <2>2 DEF Moved, SplitSame, Onwards
    <3>2. Remembers(v, b, taken, d)
      BY <2>2 DEF Remembers
    <3> QED BY <1>2, <3>1, <3>2, RemembersOn DEF LogOK
  <2> QED BY <2>1, <2>2
<1>4. CASE Accepted(w, b, c, at, taken) /\ v = Written(w, b, c, at)
  <2>1. v.log = w.log \cup {c} /\ Onwards(v, w, c)
    BY <1>4, Advances DEF Accepted
  <2>2. Remembers(v, b, taken, c)
    <3>1. c.type = "prepare" => /\ c.obs \in {"submit", "deposit", "delegate"}
                                /\ v.stage = StageFor(c.obs) /\ v.pending = c.obs
      BY <2>1 DEF Onwards, CallOK
    <3>2. c.type = "submitted" => ~(c.acceptedAt >= b.signed) /\ c.order \notin taken
      BY <1>4 DEF Accepted
    <3>3. c.type = "eligible" => Rank(v.stage) > 2 /\ v.basis = <<c.basis>>
      BY <2>1, Ranks DEF Onwards
    <3> QED BY <3>1, <3>2, <3>3 DEF Remembers
  <2> QED BY <1>2, <2>1, <2>2, RemembersOn DEF LogOK
<1> QED BY <1>1, <1>3, <1>4

\* A call that was recorded changes nothing, and hands nothing out.
LEMMA RepeatedIdle ==
  ASSUME NEW w, NEW b, NEW taken, FlowOK(w, b), LogOK(w, b, taken), NEW c \in w.log, NEW at,
         NEW a, a = Call(w, b, c, at, taken)
  PROVE  a.w = w /\ a.answer # "ready"
<1>1. PICK o : o = Observe(w, b, c, at)
  OBVIOUS
<1>2. o.w = w /\ o.answer = "duplicate"
  <2>1. PICK e : e = Appended(w, b, c, at, "duplicate")
    OBVIOUS
  <2>2. AppendEvent(w, b, c, at) = e
    BY <2>1 DEF AppendEvent
  <2>3. e.w = w /\ e.answer = "duplicate"
    BY <2>1 DEF Appended
  <2>4. o = e
    BY <1>1, <2>2, <2>3 DEF Observe, Examined
  <2> QED BY <2>3, <2>4
<1>3. a = Answered(w, b, c, at, taken, o)
  BY <1>1 DEF Call
<1>4. Remembers(w, b, taken, c)
  BY DEF LogOK
<1>5. CASE c.type = "prepare"
  <2>1. a = PrepareAction(w, b, c, at, o)
    BY <1>3, <1>5 DEF Answered
  <2>2. ~(w.pending = None /\ Placed(w, b, c))
    <3>1. SUFFICES ASSUME w.pending = None, w.stage = StageFor(c.obs) PROVE FALSE
      BY <1>5 DEF Placed
    <3>2. c.obs # None
      BY <1>4, <1>5 DEF Remembers, None
    <3>3. Rank(w.stage) > Rank(StageFor(c.obs)) /\ Rank(w.stage) \in 0..9
      BY <1>4, <1>5, <3>1, <3>2, RankType DEF Remembers, FlowOK, StageOK
    <3> QED BY <3>1, <3>3
  <2> QED BY <2>1, <2>2 DEF PrepareAction, Answer
<1>6. CASE c.type = "submitted"
  <2>1. a = ObserveSubmission(w, b, c, at, taken, o)
    BY <1>3, <1>6 DEF Answered
  <2>2. a = o
    BY <1>4, <1>6, <2>1 DEF ObserveSubmission, Remembers
  <2> QED BY <1>2, <2>2
<1>7. CASE c.type = "eligible"
  <2>1. a = RecordEligibility(w, b, c, at, taken, o)
    BY <1>3, <1>7 DEF Answered
  <2>2. w.stage # "order_finalized" /\ w.basis = <<c.basis>>
    BY <1>4, <1>7, Ranks DEF Remembers
  <2> QED BY <2>1, <2>2 DEF RecordEligibility, Answer
<1>8. CASE c.type \in {"staked", "delegated"}
  <2>1. a = ConfirmBalance(w, c, at, o)
    BY <1>3, <1>8 DEF Answered
  <2> QED BY <1>2, <2>1 DEF ConfirmBalance, Answer
<1>9. CASE c.type \notin {"prepare", "submitted", "eligible", "staked", "delegated"}
  <2>1. a = o
    BY <1>3, <1>9 DEF Answered
  <2> QED BY <1>2, <2>1
<1> QED BY <1>5, <1>6, <1>7, <1>8, <1>9


-----------------------------------------------------------------------------
(* What the decisions keep *)

DayShape(d) == d = [b |-> d.b, w |-> d.w, bought |-> d.bought, settled |-> d.settled, row |-> d.row]

\* What the venue did and what the books say of it are amounts.
DayAmounts(d) ==
  /\ d.bought # <<>> =>
       d.bought[1].matched \in Nat /\ d.bought[1].credited \in Nat /\ d.bought[1].at \in Nat
  /\ d.row # <<>> => d.row[1] \in Nat

\* In the account world an order is over only after it executed.
DayBought(d) == Account /\ d.w.stage = "order_finalized" => d.bought # <<>>

DayOK(d) ==
  /\ DayShape(d) /\ BindingOK(d.b) /\ FlowOK(d.w, d.b) /\ LogOK(d.w, d.b, Taken)
  /\ DayAmounts(d) /\ DayBought(d)

DaysOK ==
  /\ days = [i \in 1..Len(days) |-> days[i]] /\ Len(days) \in Nat
  /\ \A i \in 1..Len(days) : DayOK(days[i])
  /\ ~Account => Len(days) > 0

LEMMA ToldOK ==
  ASSUME NEW d, DayOK(d), NEW c, CallOK(c), NEW at, NEW e, e = Told(d, c, at),
         Account => d.bought # <<>> \/ c.type = "prepare"
  PROVE  DayOK(e) /\ e.bought = d.bought /\ e.b = d.b
<1>1. PICK v : v = Call(d.w, d.b, c, at, Taken).w
  OBVIOUS
<1>2. e = [d EXCEPT !.w = v]
  BY <1>1 DEF Told
<1>3. /\ DayShape(e) /\ e.w = v /\ e.b = d.b /\ e.bought = d.bought /\ e.row = d.row
  BY <1>2 DEF DayOK, DayShape
<1>4. FlowOK(v, d.b) /\ LogOK(v, d.b, Taken)
  BY <1>1, FlowKept, LogKept DEF DayOK
<1>5. DayAmounts(e)
  BY <1>3 DEF DayOK, DayAmounts
<1>6. DayBought(e)
  <2>1. CASE d.bought # <<>>
    BY <1>3, <2>1 DEF DayBought
  <2>2. CASE c.type = "prepare"
    <3>1. v.stage \in {d.w.stage, "manual_review"}
      <4>1. \/ v = d.w
            \/ \E why : v = ToReview(d.w, why, at)
            \/ v = Written(d.w, d.b, c, at)
        BY <1>1, CallLeaves
      <4>2. Shaped(d.w)
        BY DEF DayOK, FlowOK
      <4>3. ASSUME NEW why, v = ToReview(d.w, why, at) PROVE v.stage \in {d.w.stage, "manual_review"}
        BY <4>2, <4>3, WritesReview DEF Moved
      <4>4. v = Written(d.w, d.b, c, at) => v.stage = d.w.stage
        BY <2>2, <4>2, WritesPrepare DEF Moved
      <4> QED BY <4>1, <4>3, <4>4
    <3> QED BY <1>3, <3>1 DEF DayOK, DayBought
  <2>3. CASE ~Account
    BY <2>3 DEF DayBought
  <2> QED BY <2>1, <2>2, <2>3
<1> QED BY <1>3, <1>4, <1>5, <1>6 DEF DayOK

LEMMA NewDayOK ==
  ASSUME NEW b, BindingOK(b)
  PROVE  DayOK(NewDay(b, NewWorkflow(b)))
<1>1. PICK w : w = NewWorkflow(b)
  OBVIOUS
<1>2. PICK d : d = NewDay(b, w)
  OBVIOUS
<1>3. FlowOK(w, b)
  BY <1>1, FlowNew
<1>4. w.log = {} /\ w.stage = "decided"
  BY <1>1 DEF NewWorkflow
<1>5. DayShape(d) /\ d.b = b /\ d.w = w /\ d.bought = <<>> /\ d.row = <<>>
  BY <1>2 DEF NewDay, DayShape
<1> QED BY <1>1, <1>2, <1>3, <1>4, <1>5 DEF DayOK, DayAmounts, DayBought, LogOK

LEMMA MonusType ==
  ASSUME NEW a \in Int, NEW b \in Int
  PROVE  Monus(a, b) \in Nat /\ (b \in Nat => Monus(a, b) <= Greater(a, 0))
         /\ (a >= b => Monus(a, b) = a - b) /\ (a <= b => Monus(a, b) = 0)
BY DEF Monus, Greater

LEMMA LegacyDayOK ==
  ASSUME NEW q \in Nat, Target \in Nat
  PROVE  DayOK(LegacyDay(q))
<1>1. PICK b : b = Binding(q, 0)
  OBVIOUS
<1>2. b.deficit = Monus(Target, 0) /\ b.staking = FALSE
  BY <1>1 DEF Binding, Deficit
<1>3. b.deficit \in Nat /\ BindingOK(b)
  <2>1. Monus(Target, 0) \in Nat
    BY MonusType
  <2>2. b.deficit \in Nat
    BY <1>2, <2>1, Zenon
  <2>3. b.staking \in BOOLEAN
    BY <1>2, Zenon
  <2> QED BY <2>2, <2>3, Zenon DEF BindingOK
<1>4. PICK r, e : r = Lesser(q, b.deficit) /\ e = Monus(q, b.deficit)
  OBVIOUS
<1>5. r \in Nat /\ e \in Nat /\ r + e = q
  BY <1>3, <1>4 DEF Lesser, Monus
<1>6. PICK n : n = NewWorkflow(b)
  OBVIOUS
<1>7. /\ Shaped(n) /\ n.pending = None /\ n.bound = <<>> /\ n.log = {}
      /\ n.target = 0 /\ n.confirmed = 0 /\ n.delegated = 0
  BY <1>6 DEF NewWorkflow, Shaped
<1>8. PICK w : w = [n EXCEPT
              !.stage = "complete", !.order = "order1", !.accepted = q,
              !.matched = q, !.credited = q, !.filled = q,
              !.debited = q, !.residual = r,
              !.eligible = e, !.basis = <<[kind |-> "attested", exact |-> TRUE]>>]
  OBVIOUS
<1>9. /\ Shaped(w) /\ w.stage = "complete" /\ w.pending = None /\ w.bound = <<>> /\ w.log = {}
      /\ w.credited = q /\ w.residual = r /\ w.eligible = e
      /\ w.target = 0 /\ w.confirmed = 0 /\ w.delegated = 0
  BY <1>7, <1>8 DEF Shaped
<1>10. PICK m : m = NewDay(b, w)
  OBVIOUS
<1>11. PICK d : d = [m EXCEPT !.bought = <<[matched |-> q, credited |-> q, at |-> 0]>>, !.settled = TRUE]
  OBVIOUS
<1>12. d = LegacyDay(q)
  BY <1>1, <1>4, <1>6, <1>8, <1>10, <1>11 DEF LegacyDay
<1>13. /\ DayShape(d) /\ d.b = b /\ d.w = w /\ d.row = <<>>
       /\ d.bought = <<[matched |-> q, credited |-> q, at |-> 0]>>
  BY <1>10, <1>11 DEF NewDay, DayShape
<1>14. StageOK(w)
  BY <1>9 DEF StageOK, Stages, OrderFinal
<1>15. SplitOK(w, b)
  BY <1>4, <1>5, <1>9 DEF SplitOK, Unsplit, Trading, Residual
<1>16. BoundOK(w)
  <2>1. DOMAIN w.bound = {} /\ w.bound = <<>>
    BY <1>9
  <2>2. Consumed(w) = 0
    BY <2>1, SumEmpty DEF Consumed
  <2>3. <<>> \in [{} -> Nat]
    OBVIOUS
  <2> QED BY <1>5, <1>9, <2>1, <2>2, <2>3, FS_EmptySet DEF BoundOK
<1>17. StakeOK(w, b)
  BY <1>9 DEF StakeOK, Unsplit, Trading, None
<1>18. FlowOK(w, b)
  BY <1>9, <1>14, <1>15, <1>16, <1>17 DEF FlowOK
<1> QED BY <1>3, <1>9, <1>12, <1>13, <1>18 DEF DayOK, DayAmounts, DayBought, LogOK


-----------------------------------------------------------------------------
(* Movements and the rows that show them *)

MoveOK(m) ==
  /\ m = [id |-> m.id, dir |-> m.dir, amount |-> m.amount, at |-> m.at, to |-> m.to,
          offered |-> m.offered]
  /\ m.id \in Nat /\ m.at = m.id /\ m.amount \in Nat

MovesOK ==
  /\ IsFiniteSet(moves)
  /\ \A m \in moves : MoveOK(m) /\ m.at \in 1..now
  /\ \A m, v \in moves : m.id = v.id => m = v

\* A row of the ledger shows a movement, with its other party or without.
Shows(r, m) == m.dir # "sale" /\ r \in {m, [m EXCEPT !.to = None]}

RowsOK(R) ==
  /\ IsFiniteSet(R)
  /\ \A r \in R : \E m \in moves : Shows(r, m)
  /\ \A r, s \in R : r.id = s.id => r = s

Lists(R, x) == \E r \in R : r.id = x

LEMMA ShownAlike ==
  ASSUME NEW m, MoveOK(m), NEW r, Shows(r, m)
  PROVE  r.id = m.id /\ r.at = m.at /\ r.dir = m.dir /\ r.amount = m.amount /\ MoveOK(r)
BY DEF MoveOK, Shows

LEMMA RowsTyped ==
  ASSUME NEW R, RowsOK(R), MovesOK, NEW r \in R
  PROVE  MoveOK(r) /\ r.dir # "sale" /\ r.at \in 1..now
<1>1. PICK m \in moves : Shows(r, m)
  BY DEF RowsOK
<1>2. MoveOK(m) /\ m.at \in 1..now
  BY DEF MovesOK
<1> QED BY <1>1, <1>2, ShownAlike DEF Shows

LEMMA RowsPart ==
  ASSUME NEW R, RowsOK(R), NEW S, S \subseteq R
  PROVE  RowsOK(S)
BY FS_Subset DEF RowsOK

\* What becomes of a row when seen is recorded.
Filled(r, seen) == IF r.to = None /\ Lists(seen, r.id) THEN OfId(seen, r.id) ELSE r

LEMMA FilledIs ==
  ASSUME NEW r, NEW seen
  PROVE  Filled(r, seen).id = r.id /\ Filled(r, seen) \in {r} \cup seen
<1>1. CASE r.to = None /\ Lists(seen, r.id)
  <2>1. \E v \in seen : v.id = r.id
    BY <1>1 DEF Lists
  <2>2. OfId(seen, r.id) \in seen /\ OfId(seen, r.id).id = r.id
    BY <2>1, OfIdIs
  <2> QED BY <1>1, <2>2 DEF Filled
<1>2. CASE ~(r.to = None /\ Lists(seen, r.id))
  BY <1>2 DEF Filled
<1> QED BY <1>1, <1>2

LEMMA RecordIs ==
  ASSUME NEW R, NEW seen
  PROVE  Record(R, seen) = {Filled(r, seen) : r \in R} \cup {m \in seen : ~Lists(R, m.id)}
<1>1. FilledIn(R, seen) = {Filled(r, seen) : r \in R}
  BY DEF FilledIn, Filled, Lists, OfId
<1>2. Fresh(R, seen) = {m \in seen : ~Lists(R, m.id)}
  BY DEF Fresh, Lists
<1> QED BY <1>1, <1>2 DEF Record

LEMMA RecordOK ==
  ASSUME NEW R, RowsOK(R), NEW S, RowsOK(S), NEW T, T = Record(R, S)
  PROVE  RowsOK(T) /\ \A x : Lists(T, x) <=> Lists(R, x) \/ Lists(S, x)
<1>1. PICK A, B : /\ A = {Filled(r, S) : r \in R} /\ B = {m \in S : ~Lists(R, m.id)}
                  /\ T = A \cup B
  BY RecordIs
<1>2. \A r \in R : Filled(r, S).id = r.id /\ Filled(r, S) \in R \cup S
  BY FilledIs
<1>3. IsFiniteSet(T)
  <2>1. A \subseteq R \cup S /\ B \subseteq S
    BY <1>1, <1>2
  <2>2. IsFiniteSet(R \cup S)
    BY FS_Union DEF RowsOK
  <2>3. T \subseteq R \cup S
    BY <1>1, <2>1
  <2> QED BY <2>2, <2>3, FS_Subset
<1>4. \A t \in T : \E m \in moves : Shows(t, m)
  BY <1>1, <1>2 DEF RowsOK
<1>5. ASSUME NEW s \in T, NEW t \in T, s.id = t.id PROVE s = t
  <2>1. ASSUME NEW a \in A, NEW q \in A, a.id = q.id PROVE a = q
    <3>1. PICK r \in R : a = Filled(r, S) /\ a.id = r.id
      BY <1>1, <1>2
    <3>2. PICK p \in R : q = Filled(p, S) /\ q.id = p.id
      BY <1>1, <1>2
    <3>3. r = p
      BY <2>1, <3>1, <3>2 DEF RowsOK
    <3> QED BY <3>1, <3>2, <3>3
  <2>2. ASSUME NEW a \in A, NEW q \in B PROVE a.id # q.id
    <3>1. PICK r \in R : a.id = r.id
      BY <1>1, <1>2
    <3> QED BY <1>1, <3>1 DEF Lists
  <2>3. ASSUME NEW a \in B, NEW q \in B, a.id = q.id PROVE a = q
    BY <1>1, <2>3 DEF RowsOK
  <2> QED BY <1>1, <1>5, <2>1, <2>2, <2>3
<1>6. ASSUME NEW x PROVE Lists(T, x) <=> Lists(R, x) \/ Lists(S, x)
  <2>1. ASSUME NEW r \in R, r.id = x PROVE Lists(T, x)
    <3>1. Filled(r, S) \in T /\ Filled(r, S).id = x
      BY <1>1, <1>2, <2>1
    <3> QED BY <3>1 DEF Lists
  <2>2. ASSUME NEW s \in S, s.id = x, ~Lists(R, x) PROVE Lists(T, x)
    BY <1>1, <2>2 DEF Lists
  <2>3. ASSUME NEW t \in T, t.id = x PROVE Lists(R, x) \/ Lists(S, x)
    BY <1>1, <1>2, <2>3 DEF Lists
  <2> QED BY <2>1, <2>2, <2>3 DEF Lists
<1> QED BY <1>3, <1>4, <1>5, <1>6 DEF RowsOK

\* What a scan shows of a movement.
AsSeen(m) == [m EXCEPT !.to = IF naming THEN @ ELSE None]

LEMMA ScanOK ==
  ASSUME MovesOK, NEW from, NEW to, NEW R, R = Scan(from, to)
  PROVE  /\ RowsOK(R)
         /\ \A m \in moves : m.dir # "sale" /\ m.at \in from..to => Lists(R, m.id)
         /\ \A r \in R : r.at \in from..to
<1>1. PICK V : V = {v \in moves : v.dir # "sale" /\ v.at \in from..to}
  OBVIOUS
<1>2. R = {AsSeen(m) : m \in V}
  BY <1>1 DEF Scan, AsSeen
<1>3. IsFiniteSet(R)
  <2>1. IsFiniteSet(V)
    BY <1>1, FS_Subset DEF MovesOK
  <2>2. PICK f : f = [m \in V |-> AsSeen(m)]
    OBVIOUS
  <2>3. f \in Surjection(V, R)
    BY <1>2, <2>2 DEF Surjection
  <2> QED BY <2>1, <2>3, FS_Surjection
<1>4. \A m \in V : Shows(AsSeen(m), m)
  BY <1>1 DEF MovesOK, MoveOK, Shows, AsSeen
<1>5. \A m \in V : AsSeen(m).id = m.id
                   /\ AsSeen(m).at = m.at
  <2>1. SUFFICES ASSUME NEW m \in V
                 PROVE  /\ AsSeen(m).id = m.id
                        /\ AsSeen(m).at = m.at
    OBVIOUS
  <2>2. PICK r : r = AsSeen(m)
    OBVIOUS
  <2>3. Shows(r, m) /\ MoveOK(m)
    BY <1>1, <1>4, <2>2 DEF MovesOK
  <2>4. r.id = m.id /\ r.at = m.at
    BY <2>3, ShownAlike
  <2> QED BY <2>2, <2>4
<1>6. \A r \in R : \E m \in moves : Shows(r, m)
  BY <1>1, <1>2, <1>4
<1>7. \A r, s \in R : r.id = s.id => r = s
  BY <1>1, <1>2, <1>5 DEF MovesOK
<1>8. \A m \in V : Lists(R, m.id)
  BY <1>2, <1>5 DEF Lists
<1>9. \A r \in R : r.at \in from..to
  BY <1>1, <1>2, <1>5
<1> QED BY <1>1, <1>3, <1>6, <1>7, <1>8, <1>9 DEF RowsOK

\* Rows that list just the ids of some movements have their amounts.
LEMMA RowsSum ==
  ASSUME MovesOK, NEW R, RowsOK(R), NEW A \in SUBSET moves, \A x : Lists(R, x) <=> Lists(A, x),
         NEW dir
  PROVE  SumOf(R, dir) = SumOf(A, dir)
<1>1. PICK D, E : D = {v \in R : v.dir = dir} /\ E = {v \in A : v.dir = dir}
  OBVIOUS
<1>2. PICK h, f : h = [m \in D |-> m.amount] /\ f = [m \in E |-> m.amount]
  OBVIOUS
<1>3. SumOf(R, dir) = SumFunction(h) /\ SumOf(A, dir) = SumFunction(f)
  BY <1>1, <1>2 DEF SumOf
<1>4. \A m \in moves : MoveOK(m)
  BY DEF MovesOK
<1>5. ASSUME NEW r \in R PROVE \E m \in A : Shows(r, m)
  <2>1. PICK m \in moves : Shows(r, m)
    BY DEF RowsOK
  <2>2. r.id = m.id
    BY <1>4, <2>1, ShownAlike
  <2>3. PICK a \in A : a.id = r.id
    BY DEF Lists
  <2>4. a = m
    BY <2>2, <2>3 DEF MovesOK
  <2> QED BY <2>1, <2>3, <2>4
<1>6. PICK p : p = [r \in D |-> OfId(A, r.id)]
  OBVIOUS
<1>7. ASSUME NEW r \in D
      PROVE  p[r] \in E /\ p[r].id = r.id /\ p[r].amount = r.amount
  <2>1. PICK m \in A : Shows(r, m)
    BY <1>1, <1>5
  <2>2. r.id = m.id /\ r.dir = m.dir /\ r.amount = m.amount
    BY <1>4, <2>1, ShownAlike
  <2>3. p[r] \in A /\ p[r].id = r.id
    <3>1. \E v \in A : v.id = r.id
      BY <2>2
    <3>2. OfId(A, r.id) \in A /\ OfId(A, r.id).id = r.id
      BY <3>1, OfIdIs
    <3> QED BY <1>6, <3>2
  <2>4. p[r] = m
    BY <2>2, <2>3 DEF MovesOK
  <2> QED BY <1>1, <2>2, <2>3, <2>4
<1>8. Pairs(p, D, E)
  <2>1. p \in [D -> E]
    BY <1>6, <1>7
  <2>2. \A r, s \in D : p[r] = p[s] => r = s
    BY <1>1, <1>7 DEF RowsOK
  <2>3. ASSUME NEW m \in E PROVE \E r \in D : p[r] = m
    <3>1. Lists(A, m.id) /\ m \in A /\ m \in moves
      BY <1>1 DEF Lists
    <3>2. PICK r \in R : r.id = m.id
      BY <3>1 DEF Lists
    <3>3. PICK a \in A : Shows(r, a)
      BY <1>5
    <3>4. r.id = a.id /\ r.dir = a.dir
      BY <1>4, <3>3, ShownAlike
    <3>5. a = m
      BY <3>1, <3>2, <3>4 DEF MovesOK
    <3>6. r \in D
      BY <1>1, <3>4, <3>5
    <3>7. p[r] = m
      BY <1>1, <1>7, <3>1, <3>2, <3>6 DEF MovesOK
    <3> QED BY <3>6, <3>7
  <2> QED BY <2>1, <2>2, <2>3 DEF Pairs
<1>9. IsFiniteSet(D)
  BY <1>1, FS_Subset DEF RowsOK
<1>10. h \in [D -> Int] /\ f \in [E -> Int]
  <2>1. \A r \in D : r.amount \in Int
    BY <1>1, <1>4, <1>7 DEF MoveOK
  <2>2. \A m \in E : m.amount \in Int
    BY <1>1, <1>4 DEF MoveOK
  <2> QED BY <1>2, <2>1, <2>2
<1>11. \A r \in D : h[r] = f[p[r]]
  BY <1>2, <1>7
<1> QED BY <1>3, <1>8, <1>9, <1>10, <1>11, SumReindex


-----------------------------------------------------------------------------
(* The replay of the transfers to the custodian *)

Untaken(cap) == [cap |-> cap, unstaked |-> 0, residual |-> 0]

\* r is what FoldLeft iterates to replay the transfers ids.
Takes(r, lots, outflow, bound, cap, ids, n) ==
  r = [d \in SUBSET (1..n) |->
         IF d = {} THEN Untaken(cap)
         ELSE ReplayOutflow(lots, bound, r[Smaller(d)], outflow[ids[Largest(d)]])]

LEMMA TakesExist ==
  ASSUME NEW lots, NEW outflow, NEW bound, NEW cap, NEW ids, NEW n \in Nat
  PROVE  \E r : Takes(r, lots, outflow, bound, cap, ids, n)
<1> DEFINE T == {k \in Nat : \E r : Takes(r, lots, outflow, bound, cap, ids, k)}
<1>1. 0 \in T
  <2> DEFINE r == [d \in SUBSET (1..0) |-> Untaken(cap)]
  <2>1. \A d \in SUBSET (1..0) : d = {}
    OBVIOUS
  <2>2. Takes(r, lots, outflow, bound, cap, ids, 0)
    BY <2>1 DEF Takes
  <2> QED BY <2>2
<1>2. ASSUME NEW k \in Nat, NEW m \in Nat, k \in T, m = k + 1 PROVE m \in T
  <2>1. PICK r : Takes(r, lots, outflow, bound, cap, ids, k)
    BY <1>2
  <2> DEFINE h == [d \in SUBSET (1..m) |->
                     IF d = {} THEN Untaken(cap)
                     ELSE ReplayOutflow(lots, bound, r[Smaller(d)], outflow[ids[Largest(d)]])]
  <2>2. ASSUME NEW d \in SUBSET (1..m), d # {} PROVE r[Smaller(d)] = h[Smaller(d)]
    <3>1. PICK e : e = Smaller(d)
      OBVIOUS
    <3>2. e \in SUBSET (1..k) /\ e \in SUBSET (1..m)
      BY <1>2, <2>2, <3>1, LastOf
    <3>3. r[e] = IF e = {} THEN Untaken(cap)
                 ELSE ReplayOutflow(lots, bound, r[Smaller(e)], outflow[ids[Largest(e)]])
      BY <2>1, <3>2 DEF Takes
    <3> QED BY <3>1, <3>2, <3>3
  <2>3. Takes(h, lots, outflow, bound, cap, ids, m)
    BY <2>2 DEF Takes
  <2> QED BY <2>3
<1>3. Nat \subseteq T
  <2> HIDE DEF T
  <2> QED BY <1>1, <1>2, Inductive
<1> QED BY <1>3

\* What the transfers took, one after the other.
TakingRun(st, lots, outflow, bound, cap, ids, n) ==
  /\ st[0] = Untaken(cap) /\ TakenBy(lots, outflow, bound, cap, ids) = st[n]
  /\ \A k, m \in 0..n : m = k + 1 => st[m] = ReplayOutflow(lots, bound, st[k], outflow[ids[m]])

LEMMA TakingSteps ==
  ASSUME NEW lots, NEW outflow, NEW bound, NEW cap, NEW ids, NEW n \in Nat, DOMAIN ids = 1..n
  PROVE  \E st : TakingRun(st, lots, outflow, bound, cap, ids, n)
<1> DEFINE r == CHOOSE r : Takes(r, lots, outflow, bound, cap, ids, n)
<1>1. Takes(r, lots, outflow, bound, cap, ids, n)
  BY TakesExist, Zenon
<1>2. TakenBy(lots, outflow, bound, cap, ids) = r[1..n]
  BY DEF TakenBy, Untaken, FoldLeft, MapThenFoldSet, Takes, Largest, Smaller
<1> HIDE DEF r
<1> DEFINE st == [k \in 0..n |-> r[1..k]]
<1>3. \A d \in SUBSET (1..n) :
        r[d] = IF d = {} THEN Untaken(cap)
               ELSE ReplayOutflow(lots, bound, r[Smaller(d)], outflow[ids[Largest(d)]])
  BY <1>1 DEF Takes
<1>4. st[0] = Untaken(cap)
  <2>1. 1..0 = {} /\ {} \in SUBSET (1..n)
    OBVIOUS
  <2>2. r[{}] = Untaken(cap)
    BY <1>3, <2>1
  <2>3. r[1..0] = Untaken(cap)
    BY <2>1, <2>2, Zenon
  <2>4. 0 \in 0..n
    OBVIOUS
  <2> QED BY <2>3, <2>4, Zenon
<1>5. ASSUME NEW k \in 0..n, NEW m \in 0..n, m = k + 1
      PROVE  st[m] = ReplayOutflow(lots, bound, st[k], outflow[ids[m]])
  <2>0. k \in Nat /\ m \in Nat
    OBVIOUS
  <2>1. 1..m # {} /\ Largest(1..m) = m /\ Smaller(1..m) = 1..k
    BY <1>5, <2>0, LastUpTo, Zenon
  <2>2. 1..m \in SUBSET (1..n)
    <3>1. \A i \in 1..m : i \in 1..n
      OBVIOUS
    <3> QED BY <3>1
  <2>3. r[1..m] = ReplayOutflow(lots, bound, r[1..k], outflow[ids[m]])
    BY <1>3, <2>1, <2>2, Zenon
  <2> QED BY <2>3
<1> HIDE DEF st
<1>6. st[n] = r[1..n]
  BY DEF st
<1>7. TakingRun(st, lots, outflow, bound, cap, ids, n)
  BY <1>2, <1>4, <1>5, <1>6 DEF TakingRun
<1> QED BY <1>7

\* The lots of decisions that are over.
LotsOK(lots) ==
  /\ IsFiniteSet(DOMAIN lots)
  /\ \A i \in DOMAIN lots : lots[i].residual \in Nat /\ lots[i].unstaked \in Nat

LEMMA LotsType ==
  ASSUME NEW lots, LotsOK(lots), NEW S \in SUBSET (DOMAIN lots)
  PROVE  LotsSum(lots, S).residual \in Nat /\ LotsSum(lots, S).unstaked \in Nat
<1>1. PICK f, g : f = [i \in S |-> lots[i].residual] /\ g = [i \in S |-> lots[i].unstaked]
  OBVIOUS
<1>2. f \in [S -> Nat] /\ g \in [S -> Nat] /\ IsFiniteSet(S)
  BY <1>1, FS_Subset DEF LotsOK
<1>3. SumFunction(f) \in Nat /\ SumFunction(g) \in Nat
  BY <1>2, SumNat
<1> QED BY <1>1, <1>3 DEF LotsSum

\* What transfers took is a number, whatever they are.
TakenOK(t) == t.cap \in Int /\ t.unstaked \in Int /\ t.residual \in Int

LEMMA TakenStep ==
  ASSUME NEW lots, LotsOK(lots), NEW bound, NEW o, bound[o.id] \in Int, o.amount \in Int,
         NEW t, TakenOK(t), NEW u, u = ReplayOutflow(lots, bound, t, o)
  PROVE  TakenOK(u)
<1>1. PICK S : S = {i \in DOMAIN lots : lots[i].from <= o.at}
  OBVIOUS
<1>2. PICK in : in = LotsSum(lots, S)
  OBVIOUS
<1>3. in.residual \in Int /\ in.unstaked \in Int
  <2>1. S \in SUBSET (DOMAIN lots)
    BY <1>1
  <2> QED BY <1>2, <2>1, LotsType
<1>4. PICK already : already = Lesser(bound[o.id], o.amount)
  OBVIOUS
<1>5. PICK capLeft : capLeft = t.cap - Lesser(already, t.cap)
  OBVIOUS
<1>6. PICK credit : credit = Lesser(o.amount - already, capLeft)
  OBVIOUS
<1>7. PICK fromUnstaked : fromUnstaked = Lesser(credit, in.unstaked - t.unstaked)
  OBVIOUS
<1>8. already \in Int
  BY <1>4 DEF Lesser
<1>9. capLeft \in Int
  BY <1>5, <1>8 DEF Lesser, TakenOK
<1>10. credit \in Int
  BY <1>6, <1>8, <1>9 DEF Lesser
<1>11. fromUnstaked \in Int
  BY <1>3, <1>7, <1>10 DEF Lesser, TakenOK
<1>12. u = [cap |-> capLeft - credit, unstaked |-> t.unstaked + fromUnstaked,
            residual |-> t.residual + Lesser(credit - fromUnstaked, in.residual - t.residual)]
  BY <1>1, <1>2, <1>4, <1>5, <1>6, <1>7 DEF ReplayOutflow
<1>13. Lesser(credit - fromUnstaked, in.residual - t.residual) \in Int
  BY <1>3, <1>10, <1>11 DEF Lesser, TakenOK
<1> QED BY <1>9, <1>10, <1>11, <1>12, <1>13 DEF TakenOK

LEMMA TakenType ==
  ASSUME NEW lots, LotsOK(lots), NEW outflow, NEW bound, NEW cap \in Int, NEW n \in Nat,
         NEW ids \in [1..n -> DOMAIN outflow],
         \A id \in DOMAIN outflow : bound[outflow[id].id] \in Int /\ outflow[id].amount \in Int
  PROVE  TakenOK(TakenBy(lots, outflow, bound, cap, ids))
<1>1. PICK st : TakingRun(st, lots, outflow, bound, cap, ids, n)
  <2>1. DOMAIN ids = 1..n
    OBVIOUS
  <2> QED BY <2>1, TakingSteps
<1> DEFINE T == {k \in Nat : k <= n => TakenOK(st[k])}
<1>2. 0 \in T
  BY <1>1 DEF TakingRun, TakenOK, Untaken
<1>3. ASSUME NEW k \in Nat, NEW m \in Nat, k \in T, m = k + 1 PROVE m \in T
  <2>1. SUFFICES ASSUME m <= n PROVE TakenOK(st[m])
    OBVIOUS
  <2>2. TakenOK(st[k]) /\ k \in 0..n /\ m \in 0..n /\ ids[m] \in DOMAIN outflow
    BY <1>3, <2>1
  <2>3. st[m] = ReplayOutflow(lots, bound, st[k], outflow[ids[m]])
    BY <1>1, <1>3, <2>2 DEF TakingRun
  <2> QED BY <2>2, <2>3, TakenStep
<1>4. Nat \subseteq T
  <2> HIDE DEF T
  <2> QED BY <1>2, <1>3, Inductive
<1>5. TakenOK(st[n])
  BY <1>4
<1> QED BY <1>1, <1>5 DEF TakingRun


\* What history expects is a number, when every workflow is over.
LEMMA ExpectationType ==
  ASSUME NEW n \in Nat, NEW flows, DOMAIN flows = 1..n,
         \A i \in 1..n : flows[i].stage = "complete" /\ \E b : FlowOK(flows[i], b),
         NEW outflows, IsFiniteSet(outflows), \A o \in outflows : MoveOK(o), NEW cap \in Int
  PROVE  Expectation(flows, outflows, cap).residual \in Int
<1>1. PICK lots : lots = [i \in DOMAIN flows |-> Lot(flows[i])]
  OBVIOUS
<1>2. LotsOK(lots)
  <2>1. IsFiniteSet(1..n)
    BY FS_Interval
  <2>2. ASSUME NEW i \in 1..n PROVE lots[i].residual \in Nat /\ lots[i].unstaked \in Nat
    <3>1. PICK w : w = flows[i]
      OBVIOUS
    <3>2. PICK b : FlowOK(w, b)
      BY <3>1
    <3>3. w.residual \in Nat /\ w.eligible \in Nat /\ Consumed(w) \in Nat
      BY <3>2 DEF FlowOK, SplitOK, BoundOK
    <3>4. PICK s : s = [residual |-> Monus(w.residual, Consumed(w)), eligible |-> w.eligible]
      OBVIOUS
    <3>5. TerminalSplit(w)[1] = s
      BY <3>1, <3>4 DEF TerminalSplit
    <3>6. lots[i].residual = s.residual /\ lots[i].unstaked \in {0, s.eligible}
      <4>1. PICK f, u : /\ f = IF w.lastFill > 0 THEN w.lastFill ELSE w.last
                        /\ u = IF w.delegated >= s.eligible THEN 0 ELSE s.eligible
        OBVIOUS
      <4>2. Lot(w) = [from |-> f, residual |-> s.residual, unstaked |-> u]
        BY <3>5, <4>1 DEF Lot
      <4>3. lots[i] = Lot(w)
        BY <1>1, <3>1
      <4> QED BY <4>1, <4>2, <4>3
    <3>7. Monus(w.residual, Consumed(w)) \in Nat
      <4>1. w.residual \in Int /\ Consumed(w) \in Int
        BY <3>3
      <4> QED BY <4>1, MonusType
    <3> QED BY <3>3, <3>4, <3>6, <3>7
  <2> QED BY <1>1, <2>1, <2>2 DEF LotsOK
<1>3. PICK ids : ids = {o.id : o \in outflows}
  OBVIOUS
<1>4. PICK outflow : outflow = [id \in ids |-> OfId(outflows, id)]
  OBVIOUS
<1>5. PICK bound : bound = [id \in ids |-> BoundOf(flows, id)]
  OBVIOUS
<1>6. Expectation(flows, outflows, cap) = Replay(lots, outflow, bound, cap)
  BY <1>1, <1>3, <1>4, <1>5 DEF Expectation, OfId
<1>7. ASSUME NEW id \in ids
      PROVE  outflow[id] \in outflows /\ outflow[id].id = id /\ MoveOK(outflow[id]) /\ bound[id] \in Int
  <2>1. \E o \in outflows : o.id = id
    BY <1>3
  <2>2. OfId(outflows, id) \in outflows /\ OfId(outflows, id).id = id
    BY <2>1, OfIdIs
  <2>3. BoundOf(flows, id) \in Nat
    <3>1. PICK D : D = {j \in DOMAIN flows : id \in DOMAIN flows[j].bound}
      OBVIOUS
    <3>2. PICK f : f = [i \in D |-> flows[i].bound[id]]
      OBVIOUS
    <3>3. \A i \in D : f[i] \in Nat
      BY <3>1, <3>2 DEF FlowOK, BoundOK
    <3>4. f \in [D -> Nat]
      BY <3>2, <3>3
    <3>5. IsFiniteSet(D)
      BY <3>1, FS_Interval, FS_Subset
    <3>6. BoundOf(flows, id) = SumFunction(f)
      BY <3>1, <3>2 DEF BoundOf
    <3> QED BY <3>4, <3>5, <3>6, SumNat
  <2> QED BY <1>4, <1>5, <2>2, <2>3
<1>8. PICK key : key = [id \in DOMAIN outflow |-> <<outflow[id].at, 0>>]
  OBVIOUS
<1>9. Keys(key) /\ IsFiniteSet(DOMAIN key)
  <2>1. \A id \in ids : id \in Int /\ outflow[id].at \in Int
    <3>1. SUFFICES ASSUME NEW id \in ids PROVE id \in Int /\ outflow[id].at \in Int
      OBVIOUS
    <3>2. PICK o : o = outflow[id]
      OBVIOUS
    <3>3. MoveOK(o) /\ o.id = id
      BY <1>7, <3>2
    <3>4. o.id \in Nat /\ o.at \in Nat
      BY <3>3 DEF MoveOK
    <3> QED BY <3>2, <3>3, <3>4
  <2>2. key \in [ids -> Int \X Int] /\ ids \subseteq Int
    BY <1>4, <1>8, <2>1
  <2>3. IsFiniteSet(ids)
    <3>1. PICK f : f = [o \in outflows |-> o.id]
      OBVIOUS
    <3>2. f \in Surjection(outflows, ids)
      BY <1>3, <3>1 DEF Surjection
    <3> QED BY <3>2, FS_Surjection
  <2>4. DOMAIN key = ids
    BY <1>4, <1>8
  <2> QED BY <2>2, <2>3, <2>4 DEF Keys
<1>10. PICK inOrder : inOrder = InOrder(key)
  OBVIOUS
<1>15. PICK k \in Nat : inOrder \in [1..k -> DOMAIN outflow]
  <2>1. PICK j \in Nat : inOrder \in [1..j -> DOMAIN key]
    BY <1>9, <1>10, InOrderLists
  <2>2. DOMAIN key = DOMAIN outflow
    BY <1>8
  <2> QED BY <2>1, <2>2
<1>11. PICK taken : taken = TakenBy(lots, outflow, bound, cap, inOrder)
  OBVIOUS
<1>12. TakenOK(taken)
  <2>1. \A id \in DOMAIN outflow : bound[outflow[id].id] \in Int /\ outflow[id].amount \in Int
    BY <1>4, <1>7 DEF MoveOK
  <2> QED BY <1>2, <1>11, <1>15, <2>1, TakenType
<1>13. LotsSum(lots, DOMAIN lots).residual \in Nat
  BY <1>2, LotsType
<1>14. Replay(lots, outflow, bound, cap).residual = LotsSum(lots, DOMAIN lots).residual - taken.residual
  BY <1>8, <1>10, <1>11 DEF Replay
<1> QED BY <1>6, <1>12, <1>13, <1>14 DEF TakenOK

-----------------------------------------------------------------------------
(* The invariant *)

\* Every movement as far back as the cursor is in the ledger, and only movements.
LedgerOK ==
  /\ RowsOK(recorded)
  /\ cursor \in {Never} \cup 0..now
  /\ \A m \in moves : m.dir # "sale" /\ m.at <= cursor => Lists(recorded, m.id)

\* While a command holds the lock nothing is recorded.
CycleOK ==
  /\ cyc.phase = "asked" =>
       cyc.asked \in 0..now /\ \A r \in recorded : r.at <= cyc.asked

HoldingsInv ==
  /\ terms \in Terms /\ now \in Nat
  /\ MovesOK /\ LedgerOK /\ CycleOK /\ DaysOK

LEMMA SumsOfRows ==
  ASSUME MovesOK, NEW R, RowsOK(R), NEW dir
  PROVE  SumOf(R, dir) \in Nat
<1>1. PICK D, f : D = {v \in R : v.dir = dir} /\ f = [m \in D |-> m.amount]
  OBVIOUS
<1>2. f \in [D -> Nat]
  BY <1>1, RowsTyped DEF MoveOK
<1>3. IsFiniteSet(D)
  BY <1>1, FS_Subset DEF RowsOK
<1> QED BY <1>1, <1>2, <1>3, SumNat DEF SumOf

LEMMA SumsOfMoves ==
  ASSUME MovesOK, NEW t, NEW dir
  PROVE  MovedBy(dir, t) \in Nat
<1>1. PICK D, f : D = {v \in {m \in moves : m.at <= t} : v.dir = dir} /\ f = [m \in D |-> m.amount]
  OBVIOUS
<1>2. f \in [D -> Nat]
  BY <1>1 DEF MovesOK, MoveOK
<1>3. IsFiniteSet(D)
  BY <1>1, FS_Subset DEF MovesOK
<1> QED BY <1>1, <1>2, <1>3, SumNat DEF SumOf, MovedBy

LEMMA SumsOfDays ==
  ASSUME DaysOK, NEW t
  PROVE  Credited \in Nat /\ BoughtBy(t) \in Nat
<1>1. PICK n \in Nat : n = Len(days) /\ DOMAIN days = 1..n
  BY DEF DaysOK
<1>2. IsFiniteSet(1..n)
  BY FS_Interval
<1>3. Credited \in Nat
  <2>1. PICK D, f : D = {j \in DOMAIN days : days[j].row # <<>>} /\ f = [i \in D |-> days[i].row[1]]
    OBVIOUS
  <2>2. f \in [D -> Nat]
    BY <1>1, <2>1 DEF DaysOK, DayOK, DayAmounts
  <2>3. IsFiniteSet(D)
    BY <1>1, <1>2, <2>1, FS_Subset
  <2> QED BY <2>1, <2>2, <2>3, SumNat DEF Credited
<1>4. BoughtBy(t) \in Nat
  <2>1. PICK D, f : /\ D = {j \in DOMAIN days : days[j].bought # <<>> /\ days[j].bought[1].at <= t}
                    /\ f = [i \in D |-> days[i].bought[1].credited]
    OBVIOUS
  <2>2. f \in [D -> Nat]
    BY <1>1, <2>1 DEF DaysOK, DayOK, DayAmounts
  <2>3. IsFiniteSet(D)
    BY <1>1, <1>2, <2>1, FS_Subset
  <2> QED BY <2>1, <2>2, <2>3, SumNat DEF BoughtBy
<1> QED BY <1>3, <1>4

LEMMA AttributedType ==
  ASSUME NEW a, a.credited \in Nat, a.inflow \in Nat, a.outflow \in Nat, a.custodian \in Nat
  PROVE  /\ TransferredOut(a) \in Nat /\ TransferredOut(a) <= a.credited
         /\ Held(a) = a.credited - TransferredOut(a)
         /\ TransferredToCustodian(a) \in Nat
<1>1. TransferredOut(a) \in Nat /\ TransferredOut(a) <= a.credited
  BY DEF TransferredOut, Lesser, Monus
<1>2. Held(a) = a.credited - TransferredOut(a)
  BY <1>1 DEF Held, Monus
<1>3. Monus(a.outflow, a.custodian) \in Nat
  BY DEF Monus
<1>4. TransferredToCustodian(a) \in Nat
  BY <1>1, <1>3 DEF TransferredToCustodian, Monus
<1> QED BY <1>1, <1>2, <1>4

\* The decision that is prepared next reserves a number.
LEMMA HistoryType ==
  ASSUME HoldingsInv
  PROVE  History.residual \in Int
<1>1. PICK n \in Nat : n = Len(days) /\ DOMAIN days = 1..n
  BY DEF HoldingsInv, DaysOK
<1>2. PICK flows : flows = Flows
  OBVIOUS
<1>3. DOMAIN flows = 1..n /\ \A i \in 1..n : flows[i] = days[i].w
  BY <1>1, <1>2 DEF Flows
<1>4. PICK cap : cap = CustodianCredit(Books)
  OBVIOUS
<1>5. cap \in Int
  <2>1. Books.credited \in Nat /\ Books.inflow \in Nat /\ Books.outflow \in Nat /\ Books.custodian \in Nat
    <3>1. RowsOK(CustodianOutflows(recorded))
      BY RowsPart DEF HoldingsInv, LedgerOK, CustodianOutflows
    <3> QED BY <3>1, SumsOfDays, SumsOfRows DEF HoldingsInv, LedgerOK, Books, Attributed
  <2> QED BY <1>4, <2>1, AttributedType DEF CustodianCredit
<1>6. PICK out : out = Replayed
  OBVIOUS
<1>7. IsFiniteSet(out) /\ \A o \in out : MoveOK(o)
  <2>1. out \subseteq recorded
    BY <1>6 DEF Replayed, CustodianOutflows
  <2>2. RowsOK(out)
    BY <2>1, RowsPart DEF HoldingsInv, LedgerOK
  <2> QED BY <2>2, RowsTyped DEF RowsOK, HoldingsInv
<1>8. \A i \in 1..n : \E b : FlowOK(flows[i], b)
  BY <1>1, <1>3 DEF HoldingsInv, DaysOK, DayOK
<1>9. CASE \E i \in DOMAIN flows : flows[i].stage # "complete"
  BY <1>2, <1>9 DEF History, Aggregate
<1>10. CASE \A i \in DOMAIN flows : flows[i].stage = "complete"
  <2>1. PICK e : e = Expectation(flows, out, cap)
    OBVIOUS
  <2>2. e.residual \in Int
    BY <1>3, <1>5, <1>7, <1>8, <1>10, <2>1, ExpectationType
  <2>3. History = Judged(e, Spot(now))
    BY <1>2, <1>4, <1>6, <1>10, <2>1 DEF History, Aggregate
  <2> QED BY <2>2, <2>3 DEF Judged
<1> QED BY <1>9, <1>10


-----------------------------------------------------------------------------
(* Every step keeps it *)

LEMMA SameDays ==
  ASSUME DaysOK, days' = days, terms' = terms
  PROVE  DaysOK'
BY DEF DaysOK, DayOK, DayBought, Account

LEMMA ListLength ==
  ASSUME NEW n \in Nat, NEW s, s = [j \in 1..n |-> s[j]]
  PROVE  Len(s) = n
<1>1. PICK S : S = {s[j] : j \in 1..n}
  OBVIOUS
<1>2. s \in [1..n -> S]
  BY <1>1
<1>3. s \in Seq(S) /\ DOMAIN s = 1..n
  BY <1>2
<1>4. DOMAIN s = 1..Len(s) /\ Len(s) \in Nat
  BY <1>3
<1> QED BY <1>3, <1>4

LEMMA OneDay ==
  ASSUME DaysOK, terms' = terms, NEW i \in DOMAIN days, NEW d, DayOK(d),
         days' = [days EXCEPT ![i] = d]
  PROVE  DaysOK'
<1>1. PICK n \in Nat : n = Len(days) /\ days = [j \in 1..n |-> days[j]] /\ DOMAIN days = 1..n
  BY DEF DaysOK
<1>2. days' = [j \in 1..n |-> IF j = i THEN d ELSE days[j]]
  BY <1>1
<1>3. Len(days') = n /\ days' = [j \in 1..n |-> days'[j]]
  BY <1>2, ListLength
<1>4. \A j \in 1..n : DayOK(days'[j])
  BY <1>1, <1>2 DEF DaysOK
<1>5. \A j \in 1..n : DayOK(days[j])'
  BY <1>4 DEF DayOK, DayBought, Account
<1>6. ~Account' => n > 0
  BY <1>1 DEF DaysOK, Account
<1> QED BY <1>3, <1>5, <1>6 DEF DaysOK

LEMMA TimePasses ==
  ASSUME HoldingsInv, now' \in Nat, now' >= now, UNCHANGED <<moves, recorded, cursor, cyc>>
  PROVE  MovesOK' /\ LedgerOK' /\ CycleOK'
<1>1. MovesOK'
  BY DEF HoldingsInv, MovesOK
<1>2. LedgerOK'
  BY DEF HoldingsInv, LedgerOK, RowsOK
<1>3. CycleOK'
  BY DEF HoldingsInv, CycleOK
<1> QED BY <1>1, <1>2, <1>3

LEMMA MoveKeeps == ASSUME HoldingsInv, Move PROVE HoldingsInv'
<1>1. PICK route \in Routes, amount \in Amounts :
        moves' = moves \cup {[id |-> now', dir |-> route[1], amount |-> amount, at |-> now',
                              to |-> route[2],
                              offered |-> route[2] = "custodian" /\ amount <= offer]}
  BY DEF Move
<1>2. PICK m : /\ m = [id |-> now', dir |-> route[1], amount |-> amount, at |-> now',
                       to |-> route[2],
                       offered |-> route[2] = "custodian" /\ amount <= offer]
               /\ moves' = moves \cup {m}
  BY <1>1
<1>3. now \in Nat /\ now' = now + 1 /\ terms' = terms /\ days' = days
      /\ recorded' = recorded /\ cursor' = cursor /\ cyc' = cyc
  BY DEF HoldingsInv, Move
<1>4. amount \in Nat
  BY HoldingsAssumption
<1>5. MoveOK(m) /\ m.at = now + 1 /\ m.id = now + 1
  BY <1>2, <1>3, <1>4 DEF MoveOK
<1>6. \A v \in moves : MoveOK(v) /\ v.at \in 1..now /\ v.id \in 1..now
  BY DEF HoldingsInv, MovesOK, MoveOK
<1>7. MovesOK'
  <2>1. IsFiniteSet(moves')
    BY <1>2, FS_AddElement DEF HoldingsInv, MovesOK
  <2>2. \A v \in moves' : MoveOK(v) /\ v.at \in 1..now'
    BY <1>2, <1>3, <1>5, <1>6
  <2>3. \A u, v \in moves' : u.id = v.id => u = v
    BY <1>2, <1>3, <1>5, <1>6 DEF HoldingsInv, MovesOK
  <2> QED BY <2>1, <2>2, <2>3 DEF MovesOK
<1>8. LedgerOK'
  <2>1. RowsOK(recorded)'
    BY <1>2, <1>3 DEF HoldingsInv, LedgerOK, RowsOK
  <2>2. cursor \in {Never} \cup 0..now
    BY DEF HoldingsInv, LedgerOK
  <2>3. ~(m.at <= cursor)
    BY <1>3, <1>5, <2>2 DEF Never
  <2> QED BY <1>2, <1>3, <2>1, <2>2, <2>3 DEF HoldingsInv, LedgerOK, Lists
<1>9. CycleOK'
  BY <1>3 DEF HoldingsInv, CycleOK
<1>10. DaysOK'
  BY <1>3, SameDays DEF HoldingsInv
<1> QED BY <1>3, <1>7, <1>8, <1>9, <1>10 DEF HoldingsInv

LEMMA ExecuteKeeps == ASSUME HoldingsInv, NEW i \in DOMAIN days, Execute(i) PROVE HoldingsInv'
<1>1. PICK v \in Outcomes :
        days' = [days EXCEPT ![i].bought = <<[matched |-> v.matched, credited |-> v.credited, at |-> now']>>]
  BY DEF Execute
<1>2. /\ now \in Nat /\ now' = now + 1 /\ terms' = terms
      /\ UNCHANGED <<moves, recorded, cursor, cyc>>
  BY DEF HoldingsInv, Execute
<1>3. PICK e : e = [days[i] EXCEPT !.bought = <<[matched |-> v.matched, credited |-> v.credited, at |-> now']>>]
  OBVIOUS
<1>4. days' = [days EXCEPT ![i] = e]
  BY <1>1, <1>3
<1>5. PICK d : d = days[i] /\ DayOK(d)
  BY DEF HoldingsInv, DaysOK
<1>6. v.matched \in Nat /\ v.credited \in Nat
  BY HoldingsAssumption
<1>7. /\ DayShape(e) /\ e.b = d.b /\ e.w = d.w /\ e.row = d.row
      /\ e.bought = <<[matched |-> v.matched, credited |-> v.credited, at |-> now']>>
  BY <1>3, <1>5 DEF DayOK, DayShape
<1>8. DayOK(e)
  BY <1>2, <1>5, <1>6, <1>7 DEF DayOK, DayAmounts, DayBought
<1>9. DaysOK'
  BY <1>2, <1>4, <1>8, OneDay DEF HoldingsInv
<1> QED BY <1>2, <1>9, TimePasses DEF HoldingsInv

LEMMA ReconcileKeeps == ASSUME HoldingsInv, NEW i \in DOMAIN days, Reconcile(i) PROVE HoldingsInv'
<1>1. PICK d : d = days[i] /\ DayOK(d) /\ d.bought # <<>>
  BY DEF HoldingsInv, DaysOK, Reconcile
<1>2. PICK v : v = d.bought[1] /\ v.credited \in Nat
  BY <1>1 DEF DayOK, DayAmounts
<1>3. PICK submitted : submitted = [type |-> "submitted", exact |-> TRUE, order |-> "order1",
                                    accepted |-> d.b.quantity, acceptedAt |-> v.at]
  OBVIOUS
<1>4. PICK fill : fill = [type |-> "fill", obs |-> "fill1", matched |-> v.matched,
                          credited |-> v.credited, filled |-> v.matched, debited |-> v.matched,
                          full |-> v.matched = d.b.quantity]
  OBVIOUS
<1>5. PICK final : final = [type |-> "final", matched |-> v.matched, credited |-> v.credited,
                            filled |-> v.matched, debited |-> v.matched,
                            finality |-> IF v.matched = d.b.quantity THEN "filled" ELSE "canceled"]
  OBVIOUS
<1>6. CallOK(submitted) /\ CallOK(fill) /\ CallOK(final)
  BY <1>2, <1>3, <1>4, <1>5 DEF CallOK, Kinds
<1>7. PICK e : e = Told(d, submitted, now')
  OBVIOUS
<1>8. PICK f : f = Told(e, fill, now')
  OBVIOUS
<1>9. PICK g : g = Told(f, final, now')
  OBVIOUS
<1>10. DayOK(e) /\ e.bought = d.bought
  BY <1>1, <1>6, <1>7, ToldOK
<1>11. DayOK(f) /\ f.bought = d.bought
  BY <1>1, <1>6, <1>8, <1>10, ToldOK
<1>12. DayOK(g)
  BY SMTT(60), <1>1, <1>6, <1>9, <1>11, ToldOK
<1>13. days' = [days EXCEPT ![i] = g]
  BY <1>1, <1>2, <1>3, <1>4, <1>5, <1>7, <1>8, <1>9 DEF Reconcile
<1>14. /\ now \in Nat /\ now' = now + 1 /\ terms' = terms
       /\ UNCHANGED <<moves, recorded, cursor, cyc>>
  BY DEF HoldingsInv, Reconcile
<1>15. DaysOK'
  BY <1>12, <1>13, <1>14, OneDay DEF HoldingsInv
<1> QED BY <1>14, <1>15, TimePasses DEF HoldingsInv

\* The evidence an owner may bind is of the type it claims.
LEMMA BasesTyped ==
  ASSUME HoldingsInv, NEW d, DayOK(d), d.bought # <<>>, NEW basis \in BasesOf(d)
  PROVE  basis.kind = "bound" => basis.fills \in Seq(BoundFill) /\ basis.moves \in Seq(BoundMove)
<1>1. CASE basis = Attested
  BY <1>1 DEF Attested
<1>2. CASE basis # Attested
  <2>1. PICK moved \in SeqOf(Parts(d), MaxMoves) : basis = Evidence(d, moved)
    BY <1>2 DEF BasesOf
  <2>2. PICK n \in Nat : moved \in [1..n -> Parts(d)]
    BY DEF SeqOf
  <2>3. ASSUME NEW p \in Parts(d) PROVE p \in BoundMove
    <3>1. PICK m \in CustodianOutflows(moves) : \E a \in 1..m.amount : p = [id |-> m.id, at |-> m.at, amount |-> a]
      BY DEF Parts
    <3>2. PICK a \in 1..m.amount : p = [id |-> m.id, at |-> m.at, amount |-> a]
      BY <3>1
    <3>3. m \in moves
      BY DEF CustodianOutflows
    <3>4. m.id \in Int /\ m.at \in Int /\ m.amount \in Nat
      BY <3>3 DEF HoldingsInv, MovesOK, MoveOK
    <3>5. a \in Nat
      BY <3>4
    <3> QED BY <3>2, <3>4, <3>5 DEF BoundMove
  <2>4. moved \in Seq(BoundMove)
    <3>1. moved \in [1..n -> BoundMove]
      BY <2>2, <2>3
    <3> QED BY <3>1
  <2>5. PICK v : v = d.bought[1] /\ v.at \in Int /\ v.matched \in Nat /\ v.credited \in Nat
    BY DEF DayOK, DayAmounts
  <2>6. PICK fl : fl = [at |-> v.at, matched |-> v.matched, credited |-> v.credited,
                        notional |-> v.matched, timely |-> TRUE]
    OBVIOUS
  <2>7. fl \in BoundFill
    BY <2>5, <2>6 DEF BoundFill
  <2>8. basis.fills = <<fl>> /\ basis.moves = moved
    BY <2>1, <2>5, <2>6 DEF Evidence
  <2> QED BY <2>4, <2>7, <2>8
<1> QED BY <1>1, <1>2

LEMMA ResolveKeeps == ASSUME HoldingsInv, NEW i \in DOMAIN days, Resolve(i) PROVE HoldingsInv'
<1>1. PICK d : d = days[i] /\ DayOK(d) /\ d.bought # <<>>
  BY DEF HoldingsInv, DaysOK, DayOK, DayBought, Resolve
<1>2. PICK basis \in BasesOf(d) :
        days' = [days EXCEPT ![i] = Told(Told(d, [type |-> "eligible", basis |-> basis], now),
                                         [type |-> "complete"], now)]
  BY <1>1 DEF Resolve
<1>3. PICK c, o : c = [type |-> "eligible", basis |-> basis] /\ o = [type |-> "complete"]
  OBVIOUS
<1>4. CallOK(c) /\ CallOK(o)
  <2>1. basis.kind = "bound" => basis.fills \in Seq(BoundFill) /\ basis.moves \in Seq(BoundMove)
    BY <1>1, BasesTyped
  <2> QED BY <1>3, <2>1 DEF CallOK, Kinds
<1>5. PICK e : e = Told(d, c, now)
  OBVIOUS
<1>6. PICK f : f = Told(e, o, now)
  OBVIOUS
<1>7. DayOK(e) /\ e.bought = d.bought
  BY <1>1, <1>4, <1>5, ToldOK
<1>8. DayOK(f)
  BY <1>1, <1>4, <1>6, <1>7, ToldOK
<1>9. days' = [days EXCEPT ![i] = f]
  BY <1>2, <1>3, <1>5, <1>6
<1>10. /\ now \in Nat /\ now' = now /\ terms' = terms
       /\ UNCHANGED <<moves, recorded, cursor, cyc>>
  BY DEF HoldingsInv, Resolve
<1>11. DaysOK'
  BY <1>8, <1>9, <1>10, OneDay DEF HoldingsInv
<1> QED BY <1>10, <1>11, TimePasses DEF HoldingsInv


\* A row says what the workflow credited.
LEMMA RowOK ==
  ASSUME NEW d, DayOK(d), NEW row \in Rows(d.w), NEW e, DayShape(e),
         e.b = d.b, e.w = d.w, e.bought = d.bought, e.row = row
  PROVE  DayOK(e)
<1>1. row = <<d.w.credited>>
  BY DEF Rows, Acquired
<1>2. d.w.credited \in Nat
  BY DEF DayOK, FlowOK, SplitOK
<1> QED BY <1>1, <1>2 DEF DayOK, DayAmounts, DayBought

LEMMA SettleKeeps == ASSUME HoldingsInv, NEW i \in DOMAIN days, Settle(i) PROVE HoldingsInv'
<1>1. PICK d : d = days[i] /\ DayOK(d)
  BY DEF HoldingsInv, DaysOK
<1>2. PICK row \in Rows(d.w) : days' = [days EXCEPT ![i].settled = TRUE, ![i].row = row]
  BY Zenon, <1>1 DEF Settle
<1>3. PICK e : e = [d EXCEPT !.settled = TRUE, !.row = row]
  OBVIOUS
<1>4. days' = [days EXCEPT ![i] = e]
  BY <1>1, <1>2, <1>3
<1>5. DayShape(e) /\ e.b = d.b /\ e.w = d.w /\ e.bought = d.bought /\ e.row = row
  BY <1>1, <1>3 DEF DayOK, DayShape
<1>6. DayOK(e)
  BY <1>1, <1>5, RowOK
<1>7. /\ now \in Nat /\ now' = now /\ terms' = terms
      /\ UNCHANGED <<moves, recorded, cursor, cyc>>
  BY DEF HoldingsInv, Settle
<1>8. DaysOK'
  BY <1>4, <1>6, <1>7, OneDay DEF HoldingsInv
<1> QED BY <1>7, <1>8, TimePasses DEF HoldingsInv

LEMMA BackfillKeeps == ASSUME HoldingsInv, NEW i \in DOMAIN days, Backfill(i) PROVE HoldingsInv'
<1>1. PICK d : d = days[i] /\ DayOK(d)
  BY DEF HoldingsInv, DaysOK
<1>2. PICK e \in WithRow(d) : days' = [days EXCEPT ![i] = e]
  BY <1>1 DEF Backfill, BackfillOne
<1>3. PICK row \in Rows(d.w) : e = [d EXCEPT !.row = row]
  BY DEF WithRow
<1>4. DayShape(e) /\ e.b = d.b /\ e.w = d.w /\ e.bought = d.bought /\ e.row = row
  BY <1>1, <1>3 DEF DayOK, DayShape
<1>5. DayOK(e)
  BY <1>1, <1>4, RowOK
<1>6. /\ now \in Nat /\ now' = now /\ terms' = terms
      /\ UNCHANGED <<moves, recorded, cursor, cyc>>
  BY DEF HoldingsInv, Backfill
<1>7. DaysOK'
  BY <1>2, <1>5, <1>6, OneDay DEF HoldingsInv
<1> QED BY <1>6, <1>7, TimePasses DEF HoldingsInv

LEMMA StartCycleKeeps == ASSUME HoldingsInv, StartCycle PROVE HoldingsInv'
<1>1. /\ now \in Nat /\ now' = now /\ terms' = terms /\ days' = days
      /\ UNCHANGED <<moves, recorded, cursor>> /\ cyc' = [phase |-> "asked", asked |-> now]
  BY DEF HoldingsInv, StartCycle
<1>2. \A r \in recorded : r.at <= now
  BY RowsTyped DEF HoldingsInv, LedgerOK
<1>3. CycleOK'
  BY <1>1, <1>2 DEF CycleOK
<1>4. MovesOK' /\ LedgerOK'
  BY <1>1 DEF HoldingsInv, MovesOK, LedgerOK, RowsOK
<1>5. DaysOK'
  BY <1>1, SameDays DEF HoldingsInv
<1> QED BY <1>1, <1>3, <1>4, <1>5 DEF HoldingsInv

\* Between the recorded movements and what a complete scan shows, none is missing.
LEMMA ScanReaches ==
  ASSUME HoldingsInv, NEW m \in moves, m.dir # "sale"
  PROVE  Lists(recorded, m.id) \/ Lists(Scan(ScanStart, now), m.id)
<1>1. m.at \in 1..now /\ now \in Nat
  BY DEF HoldingsInv, MovesOK
<1>2. cursor \in {Never} \cup 0..now
  BY DEF HoldingsInv, LedgerOK
<1>3. PICK from : from = ScanStart
  OBVIOUS
<1>4. CASE m.at <= cursor
  BY <1>4 DEF HoldingsInv, LedgerOK
<1>5. CASE ~(m.at <= cursor)
  <2>1. from \in Int /\ from <= m.at
    <3>1. CASE cursor = Never
      BY <1>1, <1>3, <3>1 DEF ScanStart
    <3>2. CASE cursor # Never
      <4>1. cursor \in Nat /\ Overlap \in Nat
        BY <1>2, <3>2, HoldingsAssumption
      <4>2. from = Monus(cursor, Overlap)
        BY <1>3, <3>2 DEF ScanStart
      <4>3. Monus(cursor, Overlap) \in Nat /\ Monus(cursor, Overlap) <= cursor
        BY <4>1 DEF Monus
      <4> QED BY <1>1, <1>5, <4>1, <4>2, <4>3
    <3> QED BY <3>1, <3>2
  <2>2. m.at \in from..now
    BY <1>1, <2>1
  <2> QED BY <1>3, <2>2, ScanOK DEF HoldingsInv
<1> QED BY <1>4, <1>5

LEMMA FinishCycleKeeps == ASSUME HoldingsInv, FinishCycle PROVE HoldingsInv'
<1>1. /\ now \in Nat /\ now' = now /\ terms' = terms /\ days' = days /\ moves' = moves
  BY DEF HoldingsInv, FinishCycle
<1>2. PICK asOf \in cyc.asked..now, complete \in BOOLEAN :
        \/ Halt(IF complete THEN Scan(ScanStart, now) ELSE {}, asOf)
        \/ Commit(IF complete THEN Scan(ScanStart, now) ELSE {}, asOf, complete)
  BY DEF FinishCycle
<1>3. PICK seen : seen = IF complete THEN Scan(ScanStart, now) ELSE {}
  OBVIOUS
<1>4. RowsOK(seen)
  <2>1. CASE complete
    BY <1>3, <2>1, ScanOK DEF HoldingsInv
  <2>2. CASE ~complete
    BY <1>3, <2>2, FS_EmptySet DEF RowsOK
  <2> QED BY <2>1, <2>2
<1>5. MovesOK'
  BY <1>1 DEF HoldingsInv, MovesOK
<1>6. DaysOK'
  BY <1>1, SameDays DEF HoldingsInv
<1>7. CASE Halt(seen, asOf)
  <2>1. recorded' = recorded /\ cursor' = cursor /\ cyc' = Idle
    BY <1>7 DEF Halt
  <2>2. LedgerOK'
    BY <1>1, <2>1 DEF HoldingsInv, LedgerOK, RowsOK
  <2>3. CycleOK'
    BY <2>1 DEF CycleOK, Idle
  <2> QED BY <1>1, <1>5, <1>6, <2>2, <2>3 DEF HoldingsInv
<1>8. CASE Commit(seen, asOf, complete)
  <2>1. /\ recorded' = Record(recorded, seen)
        /\ cursor' = IF complete THEN now ELSE cursor
        /\ cyc' \in Onward(complete)
    BY <1>8 DEF Commit
  <2>2. PICK after : after = Record(recorded, seen)
    OBVIOUS
  <2>3. RowsOK(after) /\ \A x : Lists(after, x) <=> Lists(recorded, x) \/ Lists(seen, x)
    BY <1>4, <2>2, RecordOK DEF HoldingsInv, LedgerOK
  <2>4. cyc'.phase # "asked"
    BY <2>1 DEF Onward, Idle
  <2>5. RowsOK(recorded)'
    BY <1>1, <2>1, <2>2, <2>3 DEF RowsOK
  <2>6. cursor' \in {Never} \cup 0..now'
    BY <1>1, <2>1 DEF HoldingsInv, LedgerOK
  <2>7. ASSUME NEW m \in moves, m.dir # "sale", m.at <= cursor' PROVE Lists(after, m.id)
    <3>1. CASE complete
      BY <1>3, <2>3, <2>7, <3>1, ScanReaches
    <3>2. CASE ~complete
      BY <2>1, <2>3, <2>7, <3>2 DEF HoldingsInv, LedgerOK
    <3> QED BY <3>1, <3>2
  <2>8. LedgerOK'
    BY <1>1, <2>1, <2>2, <2>5, <2>6, <2>7 DEF LedgerOK
  <2>9. CycleOK'
    BY <2>4 DEF CycleOK
  <2> QED BY <1>1, <1>5, <1>6, <2>8, <2>9 DEF HoldingsInv
<1> QED BY <1>2, <1>3, <1>7, <1>8


LEMMA AppendDay ==
  ASSUME DaysOK, terms' = terms, NEW d, DayOK(d), days' = Append(days, d)
  PROVE  DaysOK'
<1>1. PICK n \in Nat : n = Len(days) /\ days = [j \in 1..n |-> days[j]] /\ DOMAIN days = 1..n
  BY DEF DaysOK
<1>0. PICK S : S = {days[j] : j \in 1..n} \cup {d}
  OBVIOUS
<1>7. days \in Seq(S) /\ d \in S
  <2>1. days \in [1..n -> S]
    BY <1>0, <1>1
  <2> QED BY <1>0, <2>1
<1>2. days' = [j \in 1..(n + 1) |-> IF j = n + 1 THEN d ELSE days[j]]
  BY <1>1, <1>7, AppendProperties
<1>3. Len(days') = n + 1 /\ days' = [j \in 1..(n + 1) |-> days'[j]]
  <2>1. days' = [j \in 1..(n + 1) |-> days'[j]]
    BY <1>2
  <2>2. Len(days') = n + 1
    BY <1>1, <1>7, AppendProperties
  <2> QED BY <2>1, <2>2
<1>4. \A j \in 1..(n + 1) : DayOK(days'[j])
  <2>1. ASSUME NEW j \in 1..(n + 1) PROVE \E e : e = days'[j] /\ DayOK(e)
    <3>1. CASE j = n + 1
      BY <1>2, <3>1
    <3>2. CASE j # n + 1
      <4>1. j \in 1..n /\ days'[j] = days[j]
        BY <1>2, <3>2
      <4> QED BY <1>1, <4>1 DEF DaysOK
    <3> QED BY <3>1, <3>2
  <2> QED BY <2>1
<1>5. \A j \in 1..(n + 1) : DayOK(days[j])'
  BY <1>4 DEF DayOK, DayBought, Account
<1> QED BY <1>3, <1>5 DEF DaysOK

LEMMA PreparedOK == ASSUME HoldingsInv, NEW q PROVE DayOK(Prepared(Binding(q, History.residual)))
<1>1. PICK h : h = History.residual /\ h \in Int
  BY HistoryType
<1>2. PICK b : b = Binding(q, h)
  OBVIOUS
<1>3. BindingOK(b)
  <2>1. b.deficit = Monus(Target, h) /\ b.staking = FALSE
    BY <1>2 DEF Binding, Deficit
  <2>2. Monus(Target, h) \in Nat
    <3>1. Target \in Int
      BY HoldingsAssumption
    <3> QED BY <1>1, <3>1, MonusType
  <2>3. b.staking \in BOOLEAN
    BY <2>1, Zenon
  <2> QED BY <2>1, <2>2, <2>3, Zenon DEF BindingOK
<1>4. PICK n : n = NewDay(b, NewWorkflow(b)) /\ DayOK(n)
  BY <1>3, NewDayOK
<1>5. PICK c : c = [type |-> "prepare", obs |-> "submit"]
  OBVIOUS
<1>6. CallOK(c) /\ c.type = "prepare"
  BY <1>5 DEF CallOK, Kinds
<1>7. PICK e : e = Told(n, c, now)
  OBVIOUS
<1>8. DayOK(e)
  BY <1>4, <1>6, <1>7, ToldOK
<1> QED BY <1>1, <1>2, <1>4, <1>5, <1>7, <1>8 DEF Prepared

LEMMA PrepareKeeps == ASSUME HoldingsInv, PrepareDecision PROVE HoldingsInv'
<1>1. /\ now \in Nat /\ now' = now /\ terms' = terms /\ cyc' = Idle
      /\ UNCHANGED <<moves, recorded, cursor>>
  BY DEF HoldingsInv, PrepareDecision
<1>2. MovesOK' /\ LedgerOK'
  BY <1>1 DEF HoldingsInv, MovesOK, LedgerOK, RowsOK
<1>3. CycleOK'
  BY <1>1 DEF CycleOK, Idle
<1>4. DaysOK'
  <2>1. \/ days' = days
        \/ \E q \in Quantities : days' = Append(days, Prepared(Binding(q, History.residual)))
    BY DEF PrepareDecision
  <2>2. ASSUME NEW q \in Quantities, days' = Append(days, Prepared(Binding(q, History.residual)))
        PROVE  DaysOK'
    <3>1. PICK d : d = Prepared(Binding(q, History.residual)) /\ DayOK(d)
      BY PreparedOK
    <3> QED BY <1>1, <2>2, <3>1, AppendDay DEF HoldingsInv
  <2> QED BY <1>1, <2>1, <2>2, SameDays DEF HoldingsInv
<1> QED BY <1>1, <1>2, <1>3, <1>4 DEF HoldingsInv

LEMMA TickKeeps == ASSUME HoldingsInv, Tick PROVE HoldingsInv'
<1>1. /\ now \in Nat /\ now' = now + 1 /\ terms' = terms /\ days' = days
      /\ UNCHANGED <<moves, recorded, cursor, cyc>>
  BY DEF HoldingsInv, Tick
<1>2. DaysOK'
  BY <1>1, SameDays DEF HoldingsInv
<1> QED BY <1>1, <1>2, TimePasses DEF HoldingsInv

LEMMA LibraryCallKeeps == ASSUME HoldingsInv, LibraryCall PROVE HoldingsInv'
<1>1. PICK c \in Calls : days' = [days EXCEPT ![1].w = Call(days[1].w, days[1].b, c, now, Taken).w]
  BY DEF LibraryCall
<1>2. 1 \in DOMAIN days /\ ~Account
  BY DEF HoldingsInv, DaysOK, LibraryCall
<1>3. PICK d : d = days[1] /\ DayOK(d)
  BY <1>2 DEF HoldingsInv, DaysOK
<1>4. CallOK(c)
  BY HoldingsAssumption, CallKinds
<1>5. PICK e : e = Told(d, c, now)
  OBVIOUS
<1>6. DayOK(e)
  BY <1>2, <1>3, <1>4, <1>5, ToldOK
<1>7. days' = [days EXCEPT ![1] = e]
  BY <1>1, <1>3, <1>5 DEF Told
<1>8. /\ now \in Nat /\ now' = now /\ terms' = terms
      /\ UNCHANGED <<moves, recorded, cursor, cyc>>
  BY DEF HoldingsInv, LibraryCall
<1>9. DaysOK'
  BY <1>2, <1>6, <1>7, <1>8, OneDay DEF HoldingsInv
<1> QED BY <1>8, <1>9, TimePasses DEF HoldingsInv

LEMMA StartsSo == ASSUME Init PROVE HoldingsInv
<1>1. terms \in Terms /\ now \in Nat /\ moves = {} /\ recorded = {} /\ cursor = Never /\ cyc = Idle
  BY DEF Init
<1>2. MovesOK
  BY <1>1, FS_EmptySet DEF MovesOK
<1>3. LedgerOK
  BY <1>1, FS_EmptySet DEF LedgerOK, RowsOK
<1>4. CycleOK
  BY <1>1 DEF CycleOK, Idle
<1>5. DaysOK
  <2>1. CASE terms.world = "library"
    <3>1. PICK b : b = terms.binding /\ BindingOK(b)
      BY <1>1, HoldingsAssumption DEF BindingOK
    <3>2. PICK d : d = NewDay(b, NewWorkflow(b)) /\ DayOK(d)
      BY <3>1, NewDayOK
    <3>3. days = <<d>>
      BY <2>1, <3>1, <3>2 DEF Init
    <3> QED BY <3>2, <3>3 DEF DaysOK
  <2>2. CASE terms.world # "library" /\ terms.legacy > 0
    <3>1. PICK d : d = LegacyDay(terms.legacy) /\ DayOK(d)
      BY <1>1, HoldingsAssumption, LegacyDayOK
    <3>2. days = <<d>>
      BY <2>2, <3>1 DEF Init
    <3> QED BY <3>1, <3>2 DEF DaysOK
  <2>3. CASE terms.world # "library" /\ ~(terms.legacy > 0)
    <3>1. days = <<>>
      BY <2>3 DEF Init
    <3>2. Account
      BY <1>1, <2>3, HoldingsAssumption DEF Account
    <3> QED BY <3>1, <3>2 DEF DaysOK
  <2> QED BY <2>1, <2>2, <2>3
<1> QED BY <1>1, <1>2, <1>3, <1>4, <1>5 DEF HoldingsInv

LEMMA StepKeeps == ASSUME HoldingsInv, [Next]_vars PROVE HoldingsInv'
<1>1. CASE Move \/ StartCycle \/ FinishCycle \/ PrepareDecision \/ Tick \/ LibraryCall
  BY <1>1, MoveKeeps, StartCycleKeeps, FinishCycleKeeps, PrepareKeeps, TickKeeps, LibraryCallKeeps
<1>2. CASE \E i \in DOMAIN days : Execute(i) \/ Reconcile(i) \/ Resolve(i) \/ Settle(i) \/ Backfill(i)
  BY <1>2, ExecuteKeeps, ReconcileKeeps, ResolveKeeps, SettleKeeps, BackfillKeeps
<1>3. CASE StartNaming \/ UNCHANGED vars
  <2>1. /\ now \in Nat /\ now' = now /\ terms' = terms /\ days' = days
        /\ UNCHANGED <<moves, recorded, cursor, cyc>>
    BY <1>3 DEF HoldingsInv, StartNaming, vars
  <2>2. DaysOK'
    BY <2>1, SameDays DEF HoldingsInv
  <2> QED BY <2>1, <2>2, TimePasses DEF HoldingsInv
<1> QED BY <1>1, <1>2, <1>3 DEF Next

\* What the decisions, the movements and the runtime's ledger of them keep.
THEOREM HoldingsSound == Spec => []HoldingsInv
<1>1. Init => HoldingsInv
  BY StartsSo
<1>2. HoldingsInv /\ [Next]_vars => HoldingsInv'
  BY StepKeeps
<1> QED BY <1>1, <1>2, PTL DEF Spec

\* The split of a purchase conserves it, for every workflow and whatever is
\* reported of it, and only the eligible rest is deposited or delegated.
THEOREM SplitHolds == Spec => []SplitConserved
<1>1. ASSUME HoldingsInv PROVE SplitConserved
  <2>1. SUFFICES ASSUME NEW i \in DOMAIN days, NEW d, d = days[i]
                 PROVE  /\ d.w.basis # <<>> =>
                             /\ d.w.residual + d.w.eligible = d.w.credited
                             /\ d.w.residual = Residual(d.w, d.b)
                             /\ Consumed(d.w) <= d.w.residual
                        /\ d.w.target \in {0, d.w.eligible}
                        /\ d.w.confirmed \in {0, d.w.target}
                        /\ d.w.delegated \in {0, d.w.confirmed}
                        /\ ~d.b.staking => d.w.target = 0
    BY DEF SplitConserved
  <2>2. FlowOK(d.w, d.b)
    BY <1>1, <2>1 DEF HoldingsInv, DaysOK, DayOK
  <2> QED BY <2>2, FlowShows
<1> QED BY <1>1, HoldingsSound, PTL

\* A caller who lost the answer may report again what was recorded: nothing
\* changes and no action is handed out twice, at any time.
THEOREM RetriesHarmless == Spec => []RetryHarmless
<1>1. ASSUME HoldingsInv PROVE RetryHarmless
  <2>1. SUFFICES ASSUME terms.world = "library", NEW c \in days[1].w.log, NEW at
                 PROVE  /\ Call(days[1].w, days[1].b, c, at, Taken).w = days[1].w
                        /\ Call(days[1].w, days[1].b, c, at, Taken).answer # "ready"
    BY DEF RetryHarmless
  <2>2. PICK d : d = days[1] /\ DayOK(d)
    BY <1>1, <2>1 DEF HoldingsInv, DaysOK, Account
  <2>3. PICK w, b : w = d.w /\ b = d.b /\ FlowOK(w, b) /\ LogOK(w, b, Taken) /\ c \in w.log
    BY <2>1, <2>2 DEF DayOK
  <2>4. PICK a : a = Call(w, b, c, at, Taken)
    OBVIOUS
  <2>5. a.w = w /\ a.answer # "ready"
    BY <2>3, <2>4, RepeatedIdle
  <2> QED BY <2>2, <2>3, <2>4, <2>5
<1> QED BY <1>1, HoldingsSound, PTL


-----------------------------------------------------------------------------
(* The judgement of a cycle *)

\* What is netted against a balance read at asOf lists just what had moved by the
\* time the balance was asked for, if nothing moved between.
LEMMA NettedLists ==
  ASSUME HoldingsInv, cyc.phase = "asked", NEW asOf \in cyc.asked..now,
         \A m \in moves : m.at \notin (cyc.asked + 1)..asOf,
         NEW R, R = Netted(recorded, Scan(ScanStart, now), asOf),
         NEW A, A = {m \in moves : m.dir # "sale" /\ m.at <= cyc.asked}
  PROVE  RowsOK(R) /\ \A x : Lists(R, x) <=> Lists(A, x)
<1>1. PICK seen : seen = Scan(ScanStart, now)
  OBVIOUS
<1>2. PICK t : t = cyc.asked /\ t \in 0..now /\ now \in Nat
  BY DEF HoldingsInv, CycleOK
<1>3. RowsOK(seen) /\ RowsOK(recorded) /\ MovesOK
  BY <1>1, ScanOK DEF HoldingsInv, LedgerOK
<1>4. PICK S : S = {m \in seen : m.at <= asOf \/ Lists(recorded, m.id)}
  OBVIOUS
<1>5. R = Record(recorded, S) /\ RowsOK(S)
  BY <1>1, <1>3, <1>4, RowsPart DEF Netted, Lists
<1>6. RowsOK(R) /\ \A x : Lists(R, x) <=> Lists(recorded, x) \/ Lists(S, x)
  BY <1>3, <1>5, RecordOK
<1>7. \A r \in recorded : r.at <= t
  BY <1>2 DEF HoldingsInv, CycleOK
<1>8. ASSUME NEW P, RowsOK(P), NEW r \in P, r.at <= t PROVE Lists(A, r.id)
  <2>1. PICK m \in moves : Shows(r, m)
    BY <1>8 DEF RowsOK
  <2>2. r.id = m.id /\ r.at = m.at /\ m.dir # "sale"
    BY <1>3, <2>1, ShownAlike DEF MovesOK, Shows
  <2> QED BY <1>2, <1>8, <2>1, <2>2 DEF Lists
<1>9. ASSUME NEW s \in S PROVE Lists(A, s.id)
  <2>1. CASE Lists(recorded, s.id)
    <3>1. PICK r \in recorded : r.id = s.id
      BY <2>1 DEF Lists
    <3>2. Lists(A, r.id)
      BY <1>3, <1>7, <1>8
    <3> QED BY <3>1, <3>2
  <2>2. CASE s.at <= asOf
    <3>1. PICK m \in moves : Shows(s, m)
      BY <1>5 DEF RowsOK
    <3>2. s.at = m.at /\ m.at \in 1..now
      BY <1>3, <3>1, ShownAlike DEF MovesOK
    <3>3. m.at \notin (t + 1)..asOf
      BY <1>2
    <3>4. s.at <= t
      BY <1>2, <2>2, <3>2, <3>3
    <3> QED BY <1>5, <1>8, <3>4
  <2> QED BY <1>4, <2>1, <2>2
<1>10. ASSUME NEW a \in A PROVE Lists(recorded, a.id) \/ Lists(S, a.id)
  <2>1. a \in moves /\ a.dir # "sale" /\ a.at <= t
    BY <1>2
  <2>2. SUFFICES ASSUME ~Lists(recorded, a.id) PROVE Lists(S, a.id)
    OBVIOUS
  <2>3. PICK s \in seen : s.id = a.id
    BY <1>1, <2>1, <2>2, ScanReaches DEF Lists
  <2>4. PICK m \in moves : Shows(s, m)
    BY <1>3 DEF RowsOK
  <2>5. s.id = m.id /\ s.at = m.at
    BY <1>3, <2>4, ShownAlike DEF MovesOK
  <2>6. m = a
    BY <1>3, <2>1, <2>3, <2>4, <2>5 DEF MovesOK
  <2>7. a.at \in Int /\ a.at <= asOf
    BY <1>2, <1>3, <2>1 DEF MovesOK
  <2>8. s \in S
    BY <1>4, <2>5, <2>6, <2>7
  <2> QED BY <2>3, <2>8 DEF Lists
<1>11. ASSUME NEW x PROVE Lists(recorded, x) \/ Lists(S, x) <=> Lists(A, x)
  <2>1. ASSUME NEW r \in recorded, r.id = x PROVE Lists(A, x)
    BY <1>3, <1>7, <1>8, <2>1
  <2>2. ASSUME NEW s \in S, s.id = x PROVE Lists(A, x)
    BY <1>9, <2>2
  <2>3. ASSUME NEW a \in A, a.id = x PROVE Lists(recorded, x) \/ Lists(S, x)
    BY <1>10, <2>3
  <2> QED BY <2>1, <2>2, <2>3 DEF Lists
<1> QED BY <1>6, <1>11

\* With complete evidence a cycle halts exactly when more is claimed than the
\* account holds.
LEMMA ExceedsIs ==
  ASSUME NEW seen, NEW asOf, NEW a, a = Claim(seen, asOf), a.complete,
         NEW held, held = Held(a), NEW spot, spot = Spot(cyc.asked)
  PROVE  Exceeds(seen, asOf) <=> held > spot
<1>1. PICK at : at = Attribution(a, Target)
  OBVIOUS
<1>2. PICK out, sent, eligible :
        /\ out = TransferredOut(a) /\ sent = TransferredToCustodian(a)
        /\ eligible = EligibleForTransfer(a, Target)
  OBVIOUS
<1>3. at = <<[hype |-> held, out |-> out, sent |-> sent, eligible |-> eligible]>>
  BY <1>1, <1>2 DEF Attribution
<1>4. PICK h : h = HoldingsReasons(spot, at)
  OBVIOUS
<1>5. h = IF held > spot THEN {"attribution exceeds holdings"}
          ELSE IF held < spot THEN {"unattributed holdings"} ELSE {}
  BY Zenon, <1>3, <1>4 DEF HoldingsReasons
<1>6. PICK st : st = Status(spot, <<>>, at)
  OBVIOUS
<1>7. st.reasons = h \cup {"custodian unavailable"}
  BY Zenon, <1>4, <1>6 DEF Status, StakingReasons
<1>8. Exceeds(seen, asOf) <=> "attribution exceeds holdings" \in st.reasons
  BY <1>1, <1>6 DEF Exceeds, Observed, AttributionExceedsHoldings
<1> QED BY Zenon, <1>5, <1>7, <1>8

\* A cycle whose balance and ledger speak of the same time halts exactly when
\* HYPE was sold that nothing else explains, whatever moved before, however late
\* it is scanned and whatever the scans overlap.
THEOREM JudgementHolds == Spec => []JudgementExact
<1>1. ASSUME HoldingsInv PROVE JudgementExact
  <2>1. PICK t, in, out, sold, bought, booked :
          /\ t = cyc.asked /\ in = MovedBy("in", t) /\ out = MovedBy("out", t)
          /\ sold = MovedBy("sale", t) /\ bought = BoughtBy(t) /\ booked = Credited
    OBVIOUS
  <2>2. SUFFICES ASSUME cyc.phase = "asked", Complete, Monus(out, in) <= booked,
                        NEW asOf \in t..now, \A m \in moves : m.at \notin (t + 1)..asOf
                 PROVE  Exceeds(Scan(ScanStart, now), asOf)
                          <=> sold > terms.foreign + (bought - booked) + Monus(in, out)
    BY <2>1 DEF JudgementExact
  <2>3. in \in Nat /\ out \in Nat /\ sold \in Nat /\ bought \in Nat /\ booked \in Nat
    BY <1>1, <2>1, SumsOfMoves, SumsOfDays DEF HoldingsInv
  <2>4. terms.foreign \in Nat
    BY <1>1, HoldingsAssumption DEF HoldingsInv
  <2>5. PICK seen : seen = Scan(ScanStart, now)
    OBVIOUS
  <2>6. PICK R : R = Netted(recorded, seen, asOf)
    OBVIOUS
  <2>7. PICK A : A = {m \in moves : m.dir # "sale" /\ m.at <= t}
    OBVIOUS
  <2>8. RowsOK(R) /\ \A x : Lists(R, x) <=> Lists(A, x)
    BY <1>1, <2>1, <2>2, <2>5, <2>6, <2>7, NettedLists
  <2>9. SumOf(R, "in") = in /\ SumOf(R, "out") = out
    <3>1. A \in SUBSET moves /\ MovesOK
      BY <1>1, <2>7 DEF HoldingsInv
    <3>2. \A dir : SumOf(R, dir) = SumOf(A, dir)
      BY <2>8, <3>1, RowsSum
    <3>3. ASSUME NEW dir, dir # "sale" PROVE SumOf(A, dir) = MovedBy(dir, t)
      <4>1. {v \in A : v.dir = dir} = {v \in {m \in moves : m.at <= t} : v.dir = dir}
        BY <2>7, <3>3
      <4> QED BY <4>1 DEF SumOf, MovedBy
    <3> QED BY <2>1, <3>2, <3>3
  <2>10. PICK a : a = Claim(seen, asOf)
    OBVIOUS
  <2>11. PICK ok : ok = Complete /\ ok \in BOOLEAN
    BY DEF Complete
  <2>12. PICK custodian : custodian = SumOf(CustodianOutflows(R), "out")
    OBVIOUS
  <2>13. a = [credited |-> booked, complete |-> ok, inflow |-> in, outflow |-> out,
              custodian |-> custodian]
    BY <2>1, <2>6, <2>9, <2>10, <2>11, <2>12 DEF Claim, Attributed
  <2>14. custodian \in Nat
    <3>1. RowsOK(CustodianOutflows(R))
      BY <2>8, RowsPart DEF CustodianOutflows
    <3> QED BY <1>1, <2>12, <3>1, SumsOfRows DEF HoldingsInv
  <2>15. PICK held : held = Held(a)
    OBVIOUS
  <2>16. held = booked - Monus(out, in)
    <3>1. TransferredOut(a) = Lesser(Monus(out, in), booked)
      BY <2>13 DEF TransferredOut
    <3>2. TransferredOut(a) = Monus(out, in)
      BY <2>2, <2>3, <3>1 DEF Lesser, Monus
    <3>3. held = a.credited - TransferredOut(a)
      BY <2>3, <2>13, <2>14, <2>15, AttributedType
    <3> QED BY <2>13, <3>2, <3>3
  <2>17. PICK spot : spot = Spot(cyc.asked)
    OBVIOUS
  <2>18. spot = terms.foreign + bought + in - out - sold
    BY <2>1, <2>17 DEF Spot
  <2>19. Exceeds(seen, asOf) <=> held > spot
    <3>1. a.complete = ok
      BY <2>13
    <3>2. ok = TRUE
      BY <2>2, <2>11
    <3>3. a.complete
      BY <3>1, <3>2
    <3> QED BY <2>10, <2>15, <2>17, <3>3, ExceedsIs
  <2>20. held > spot <=> sold > terms.foreign + (bought - booked) + Monus(in, out)
    BY <2>3, <2>4, <2>16, <2>18 DEF Monus
  <2> QED BY <2>5, <2>19, <2>20
<1> QED BY <1>1, HoldingsSound, PTL

-----------------------------------------------------------------------------
(* When a workflow was told what *)

\* What an event that is written leaves of the times.
LEMMA WrittenTimes ==
  ASSUME NEW w, Shaped(w), NEW b, NEW c, c.type \in Kinds, NEW at, NEW v, v = Written(w, b, c, at)
  PROVE  /\ v.last = at
         /\ v.lastFill \in {w.lastFill, at}
         /\ c.type \notin {"fill", "final"} =>
              v.lastFill = w.lastFill /\ v.matched = w.matched /\ v.credited = w.credited
         /\ c.type \in {"fill", "final"} =>
              v.matched = c.matched /\ (c.matched > w.matched => v.lastFill = at)
<1>1. PICK e : e = Effect(w, b, c, at)
  OBVIOUS
<1>2. SUFFICES ASSUME Shaped(e) /\ e.lastFill \in {w.lastFill, at},
                      c.type \notin {"fill", "final"} =>
                        e.lastFill = w.lastFill /\ e.matched = w.matched /\ e.credited = w.credited,
                      c.type \in {"fill", "final"} =>
                        e.matched = c.matched /\ (c.matched > w.matched => e.lastFill = at)
               PROVE  /\ v.last = at /\ v.lastFill = e.lastFill /\ v.matched = e.matched /\ v.credited = e.credited
  <2>1. Shaped(e) /\ e.lastFill \in {w.lastFill, at}
        /\ (c.type \notin {"fill", "final"} =>
              e.lastFill = w.lastFill /\ e.matched = w.matched /\ e.credited = w.credited)
        /\ (c.type \in {"fill", "final"} =>
              e.matched = c.matched /\ (c.matched > w.matched => e.lastFill = at))
    <3>1. CASE c.type = "prepare"
      <4>1. PICK s, t : /\ s = IF c.obs = "submit" THEN w.stakeAt ELSE at
                        /\ t = IF c.obs = "deposit" THEN w.eligible ELSE w.target
        OBVIOUS
      <4>2. e = [w EXCEPT !.pending = c.obs, !.stakeAt = s, !.target = t]
        BY <1>1, <3>1, <4>1 DEF Effect
      <4> QED BY <3>1, <4>2 DEF Shaped
    <3>2. CASE c.type = "submitted"
      <4>1. e = [w EXCEPT !.pending = None, !.stage = "order_submitted", !.order = c.order,
                          !.accepted = c.accepted, !.acceptedAt = c.acceptedAt]
        BY <1>1, <3>2 DEF Effect
      <4> QED BY <3>2, <4>1 DEF Shaped
    <3>3. CASE c.type = "absent"
      <4>1. e = [w EXCEPT !.pending = None, !.stage = "order_finalized"]
        BY <1>1, <3>3 DEF Effect
      <4> QED BY <3>3, <4>1 DEF Shaped
    <3>4. CASE c.type \in {"fill", "final"}
      <4>1. PICK f : f = IF c.matched > w.matched THEN at ELSE w.lastFill
        OBVIOUS
      <4>2. PICK t : t = [w EXCEPT !.matched = c.matched, !.credited = c.credited, !.filled = c.filled,
                                   !.debited = c.debited, !.lastFill = f]
        OBVIOUS
      <4>3. t = Totals(w, c, at)
        BY <4>1, <4>2 DEF Totals
      <4>4. PICK s : s = IF c.type = "final" THEN "order_finalized"
                         ELSE IF c.full THEN "filled" ELSE "partially_filled"
        OBVIOUS
      <4>5. e = [t EXCEPT !.stage = s]
        BY <1>1, <3>4, <4>3, <4>4 DEF Effect
      <4>6. Shaped(t) /\ t.lastFill = f /\ t.matched = c.matched
        BY <4>2 DEF Shaped
      <4> QED BY <3>4, <4>1, <4>5, <4>6 DEF Shaped
    <3>5. CASE c.type = "eligible"
      <4>1. PICK r, g, m : r = Residual(w, b) /\ g = w.credited - Residual(w, b)
                           /\ m = IF c.basis.kind = "bound" THEN BoundBy(c.basis) ELSE <<>>
        OBVIOUS
      <4>2. e = [w EXCEPT !.stage = "eligibility_recorded", !.basis = <<c.basis>>,
                          !.residual = r, !.eligible = g, !.bound = m]
        BY <1>1, <3>5, <4>1 DEF Effect
      <4> QED BY <3>5, <4>2 DEF Shaped
    <3>6. CASE c.type = "deposited"
      <4>1. e = [w EXCEPT !.pending = None, !.stage = "deposit_submitted", !.depositedAt = at]
        BY <1>1, <3>6 DEF Effect
      <4> QED BY <3>6, <4>1 DEF Shaped
    <3>7. CASE c.type = "staked"
      <4>1. e = [w EXCEPT !.stage = "staking_confirmed", !.confirmed = c.amount]
        BY <1>1, <3>7 DEF Effect
      <4> QED BY <3>7, <4>1 DEF Shaped
    <3>8. CASE c.type = "delegating"
      <4>1. e = [w EXCEPT !.pending = None, !.stage = "delegation_submitted", !.delegatedAt = at]
        BY <1>1, <3>8 DEF Effect
      <4> QED BY <3>8, <4>1 DEF Shaped
    <3>9. CASE c.type = "delegated"
      <4>1. e = [w EXCEPT !.stage = "delegated_confirmed", !.delegated = c.amount]
        BY <1>1, <3>9 DEF Effect
      <4> QED BY <3>9, <4>1 DEF Shaped
    <3>10. CASE c.type = "complete"
      <4>1. e = [w EXCEPT !.stage = "complete"]
        BY <1>1, <3>10 DEF Effect
      <4> QED BY <3>10, <4>1 DEF Shaped
    <3>11. CASE c.type = "review"
      <4>1. e = [w EXCEPT !.pending = None, !.stage = "manual_review"]
        BY <1>1, <3>11 DEF Effect
      <4> QED BY <3>11, <4>1 DEF Shaped
    <3> QED BY <3>1, <3>2, <3>3, <3>4, <3>5, <3>6, <3>7, <3>8, <3>9, <3>10, <3>11 DEF Kinds
  <2> QED BY <2>1
<1>3. v = [e EXCEPT !.last = at, !.log = @ \cup {c}]
  BY <1>1 DEF Written
<1> QED BY <1>2, <1>3 DEF Shaped

\* Where a call may leave a workflow that is asked nothing of an absent order,
\* and what it leaves of amounts and times.
Follows(v, w, c, at) ==
  /\ v.last \in {w.last, at} /\ v.last >= w.last
  /\ \/ v.lastFill = w.lastFill
     \/ c.type \in {"fill", "final"} /\ v.lastFill = at /\ v.last = at
  /\ v.stage \in OrderFinal =>
       \/ w.stage \in OrderFinal
       \/ c.type = "final" /\ v.credited = c.credited /\ v.last = at
  /\ w.stage \in OrderFinal \cup {"manual_review"} =>
       v.credited = w.credited /\ v.stage \in OrderFinal \cup {"manual_review"}
  /\ v.stage \in OrderFinal \ {"order_finalized"} =>
       \/ v.basis # <<>>
       \/ w.stage \in OrderFinal \ {"order_finalized"} /\ v.basis = w.basis
  /\ \/ v.bound \in {w.bound, <<>>}
     \/ c.type = "eligible" /\ v.last = at /\ c.basis.kind = "bound" /\ v.bound = BoundBy(c.basis)

LEMMA WrittenFollows ==
  ASSUME NEW w, NEW b, NEW c, CallOK(c), c.type # "absent", NEW at \in Int, w.last \in Int,
         FlowOK(w, b), ~(at < w.last), Placed(w, b, c), NEW v, v = Written(w, b, c, at)
  PROVE  Follows(v, w, c, at)
<1>0. Shaped(w) /\ c.type \in Kinds
  BY DEF FlowOK, CallOK
<1>1. v.last = at /\ v.lastFill \in {w.lastFill, at} /\ v.last >= w.last
      /\ (c.type \notin {"fill", "final"} => v.lastFill = w.lastFill)
  BY <1>0, WrittenTimes
<1>2. CASE c.type = "prepare"
  <2>1. v.stage = w.stage /\ SplitSame(v, w)
    BY <1>0, <1>2, WritesPrepare DEF Moved
  <2> QED BY <1>1, <1>2, <2>1 DEF Follows, SplitSame
<1>3. CASE c.type = "submitted"
  <2>1. v.stage = "order_submitted" /\ SplitSame(v, w)
    BY <1>0, <1>3, WritesSubmitted DEF Moved
  <2>2. w.stage = "decided"
    BY <1>3 DEF Placed
  <2> QED BY <1>1, <1>3, <2>1, <2>2 DEF Follows, SplitSame, OrderFinal
<1>4. CASE c.type \in {"fill", "final"}
  <2>1. PICK s \in Trading \cup {"order_finalized"} : v.stage = s
    BY <1>0, <1>4, WritesTotals DEF Moved
  <2>2. v.credited = c.credited /\ v.bound = w.bound /\ v.basis = w.basis
    BY <1>0, <1>4, WritesTotals
  <2>3. w.stage \in Trading
    BY <1>4 DEF Placed
  <2>4. CASE c.type = "fill"
    <3>1. v.stage \in Trading
      <4>1. PICK t : t = Totals(w, c, at)
        OBVIOUS
      <4>2. Shaped(t)
        <5>1. PICK f : f = IF c.matched > w.matched THEN at ELSE w.lastFill
          OBVIOUS
        <5>2. t = [w EXCEPT !.matched = c.matched, !.credited = c.credited, !.filled = c.filled,
                            !.debited = c.debited, !.lastFill = f]
          BY <4>1, <5>1 DEF Totals
        <5> QED BY <1>0, <5>2 DEF Shaped
      <4>3. PICK q : q = IF c.full THEN "filled" ELSE "partially_filled"
        OBVIOUS
      <4>4. Effect(w, b, c, at) = [t EXCEPT !.stage = q]
        BY <2>4, <4>1, <4>3 DEF Effect
      <4>5. v = [[t EXCEPT !.stage = q] EXCEPT !.last = at, !.log = @ \cup {c}]
        BY <4>4 DEF Written
      <4>6. v.stage = q
        BY <4>2, <4>5 DEF Shaped
      <4> QED BY <4>3, <4>6 DEF Trading
    <3> QED BY <1>1, <1>4, <2>2, <2>3, <2>4, <3>1 DEF Follows, Trading, OrderFinal
  <2>5. CASE c.type = "final"
    BY <1>1, <2>1, <2>2, <2>3, <2>5 DEF Follows, Trading, OrderFinal
  <2> QED BY <1>4, <2>4, <2>5
<1>5. CASE c.type = "eligible"
  <2>1. /\ v.stage = "eligibility_recorded" /\ v.basis = <<c.basis>> /\ v.credited = w.credited
        /\ v.bound = IF c.basis.kind = "bound" THEN BoundBy(c.basis) ELSE <<>>
    BY <1>0, <1>5, WritesEligible DEF Moved
  <2>2. w.stage = "order_finalized"
    BY <1>5 DEF Placed
  <2>3. v.basis # <<>>
    BY <2>1
  <2> QED BY <1>1, <1>5, <2>1, <2>2, <2>3 DEF Follows, OrderFinal
<1>6. CASE c.type \in {"deposited", "delegating", "staked", "delegated", "complete"}
  <2>1. v.stage \in OrderFinal \ {"order_finalized"} /\ SplitSame(v, w)
    BY <1>0, <1>6, WritesDeposited, WritesDelegating, WritesStaked, WritesDelegated, WritesComplete
       DEF Moved, OrderFinal
  <2>2. w.stage \in OrderFinal \ {"order_finalized"}
    BY <1>6, StageNames DEF Placed, OrderFinal, FlowOK, StageOK, None
  <2> QED BY <1>1, <1>6, <2>1, <2>2 DEF Follows, SplitSame
<1>7. CASE c.type = "review"
  <2>1. v.stage = "manual_review" /\ SplitSame(v, w)
    BY <1>0, <1>7, WritesReviewed DEF Moved
  <2> QED BY <1>1, <1>7, <2>1 DEF Follows, SplitSame, OrderFinal
<1> QED BY <1>0, <1>2, <1>3, <1>4, <1>5, <1>6, <1>7 DEF Kinds

LEMMA CallFollows ==
  ASSUME NEW w, NEW b, NEW c, CallOK(c), c.type # "absent", NEW at \in Int, w.last \in Int,
         FlowOK(w, b), NEW taken, NEW v, v = Call(w, b, c, at, taken).w
  PROVE  Follows(v, w, c, at)
<1>1. CASE v = w
  BY <1>1 DEF Follows
<1>2. ASSUME NEW why, v = ToReview(w, why, at) PROVE Follows(v, w, c, at)
  <2>1. CASE w.stage = "manual_review"
    BY <1>1, <1>2, <2>1 DEF ToReview
  <2>2. CASE w.stage # "manual_review"
    <3>1. PICK t : t = Greater(at, w.last)
      OBVIOUS
    <3>2. v = [w EXCEPT !.pending = None, !.stage = "manual_review", !.last = t,
                        !.log = @ \cup {[type |-> "review", obs |-> why]}]
      BY <1>2, <2>2, <3>1 DEF ToReview
    <3>3. v.stage = "manual_review" /\ v.last = t /\ v.lastFill = w.lastFill
          /\ v.credited = w.credited /\ v.bound = w.bound
      BY <3>2 DEF FlowOK, Shaped
    <3>4. t \in {w.last, at} /\ t >= w.last
      BY <3>1 DEF Greater
    <3> QED BY <3>3, <3>4 DEF Follows, OrderFinal
  <2> QED BY <2>1, <2>2
<1>3. CASE Accepted(w, b, c, at, taken) /\ v = Written(w, b, c, at)
  <2>1. ~(at < w.last) /\ Placed(w, b, c)
    BY <1>3 DEF Accepted
  <2> QED BY <1>3, <2>1, WrittenFollows
<1> QED BY <1>1, <1>2, <1>3, CallLeaves

-----------------------------------------------------------------------------
(* The story of the account: when what was decided, bought and bound *)

\* What a decision's evidence bound are parts of transfers to the custodian
\* between the decision and the record.
BoundWithin(d, ms) ==
  \A x \in DOMAIN d.w.bound :
    /\ x \in d.b.decided + 1 .. d.w.last
    /\ \E m \in CustodianOutflows(ms) : m.id = x /\ d.w.bound[x] <= m.amount

\* The i-th decision by the time t, with the movements ms so far: it is bought
\* after it was decided and recorded as it was bought; its row is what it credited.
Dated(d, i, t, ms) ==
  /\ ~d.b.staking
  /\ d.b.decided \in 0..t
  /\ d.bought # <<>> =>
       d.bought[1].at \in d.b.decided..t /\ (i > 1 => d.b.decided < d.bought[1].at)
  /\ d.w.stage \in OrderFinal => d.bought # <<>> /\ d.bought[1].credited = d.w.credited
  /\ d.w.stage \in OrderFinal \ {"order_finalized"} => d.w.basis # <<>>
  /\ d.row # <<>> => d.row[1] = d.w.credited /\ d.w.stage \in OrderFinal \cup {"manual_review"}
  /\ d.w.last \in d.b.decided..t
  /\ d.w.lastFill \in 0..d.w.last
  /\ i > 1 => /\ d.w.lastFill = 0 \/ d.b.decided < d.w.lastFill
              /\ d.w.stage \in OrderFinal => d.b.decided < d.w.last
  /\ BoundWithin(d, ms)

\* Every decision was over when the next one was made.
OneByOne ==
  \A i, j \in DOMAIN days :
    i < j => days[i].w.stage = "complete" /\ days[i].w.last <= days[j].b.decided

Chronicle ==
  Account => (\A i \in DOMAIN days : Dated(days[i], i, now, moves)) /\ OneByOne

\* A decision stays what it is when time passes and HYPE moves.
LEMMA DatedLater ==
  ASSUME NEW d, NEW i, NEW t \in Nat, NEW u \in Nat, t <= u, NEW ms, NEW vs, ms \subseteq vs,
         Dated(d, i, t, ms)
  PROVE  Dated(d, i, u, vs)
<1>1. BoundWithin(d, vs)
  BY DEF Dated, BoundWithin, CustodianOutflows
<1>2. d.b.decided \in 0..u /\ d.w.last \in d.b.decided..u
  BY DEF Dated
<1>3. d.bought # <<>> =>
        d.bought[1].at \in d.b.decided..u /\ (i > 1 => d.b.decided < d.bought[1].at)
  BY DEF Dated
<1> QED BY <1>1, <1>2, <1>3 DEF Dated

\* A command tells the workflow at time t what the venue says of its order.
LEMMA ToldDated ==
  ASSUME NEW d, DayOK(d), NEW i, NEW t \in Nat, NEW ms, Dated(d, i, t, ms),
         NEW c, CallOK(c), c.type # "absent",
         \/ c.type = "prepare"
         \/ d.bought # <<>> /\ (i > 1 => d.b.decided < t),
         c.type = "final" => d.bought # <<>> /\ c.credited = d.bought[1].credited,
         c.type = "eligible" /\ c.basis.kind = "bound" =>
           \A x \in DOMAIN BoundBy(c.basis) :
             /\ x \in d.b.decided + 1 .. t
             /\ \E m \in CustodianOutflows(ms) : m.id = x /\ BoundBy(c.basis)[x] <= m.amount,
         NEW e, e = Told(d, c, t)
  PROVE  Dated(e, i, t, ms)
<1>1. PICK w, b : w = d.w /\ b = d.b /\ FlowOK(w, b) /\ DayShape(d)
  BY DEF DayOK
<1>2. PICK v : v = Call(w, b, c, t, Taken).w
  OBVIOUS
<1>3. e = [d EXCEPT !.w = v]
  BY <1>1, <1>2 DEF Told
<1>4. e.w = v /\ e.b = b /\ e.bought = d.bought /\ e.row = d.row
  BY <1>1, <1>3 DEF DayShape
<1>5. /\ b.decided \in 0..t /\ w.last \in b.decided..t /\ w.lastFill \in 0..w.last
      /\ t \in Int /\ w.last \in Int /\ b.decided \in Int /\ w.lastFill \in Int
  BY <1>1 DEF Dated
<1>6. Follows(v, w, c, t)
  BY <1>1, <1>2, <1>5, CallFollows
<1>7. v.last \in {w.last, t} /\ v.last \in b.decided..t /\ v.last >= w.last
  BY <1>5, <1>6 DEF Follows
<1>8. v.lastFill \in 0..v.last
  <2>1. \/ v.lastFill = w.lastFill
        \/ v.lastFill = t /\ v.last = t
    BY <1>6 DEF Follows
  <2> QED BY <1>5, <1>7, <2>1
<1>9. v.stage \in OrderFinal => d.bought # <<>> /\ d.bought[1].credited = v.credited
  <2>1. SUFFICES ASSUME v.stage \in OrderFinal
                 PROVE  d.bought # <<>> /\ d.bought[1].credited = v.credited
    OBVIOUS
  <2>2. CASE w.stage \in OrderFinal
    BY <1>1, <1>6, <2>2 DEF Follows, Dated
  <2>3. CASE c.type = "final" /\ v.credited = c.credited
    BY <2>3
  <2> QED BY <1>6, <2>1, <2>2, <2>3 DEF Follows
<1>10. v.stage \in OrderFinal \ {"order_finalized"} => v.basis # <<>>
  BY <1>1, <1>6 DEF Follows, Dated
<1>11. d.row # <<>> => d.row[1] = v.credited /\ v.stage \in OrderFinal \cup {"manual_review"}
  BY <1>1, <1>6 DEF Follows, Dated
<1>12. ASSUME i > 1 PROVE v.lastFill = 0 \/ b.decided < v.lastFill
  <2>1. CASE v.lastFill = w.lastFill
    BY <1>1, <1>12, <2>1 DEF Dated
  <2>2. CASE c.type \in {"fill", "final"} /\ v.lastFill = t
    BY <1>1, <1>12, <2>2
  <2> QED BY <1>6, <2>1, <2>2 DEF Follows
<1>13. ASSUME i > 1, v.stage \in OrderFinal PROVE b.decided < v.last
  <2>1. CASE w.stage \in OrderFinal
    <3>1. b.decided < w.last
      BY <1>1, <1>13, <2>1 DEF Dated
    <3> QED BY <1>5, <1>7, <3>1
  <2>2. CASE c.type = "final" /\ v.last = t
    BY <1>1, <1>13, <2>2
  <2> QED BY <1>6, <1>13, <2>1, <2>2 DEF Follows
<1>14. BoundWithin(e, ms)
  <2>1. SUFFICES ASSUME NEW x \in DOMAIN v.bound
                 PROVE  /\ x \in b.decided + 1 .. v.last
                        /\ \E m \in CustodianOutflows(ms) : m.id = x /\ v.bound[x] <= m.amount
    BY <1>4 DEF BoundWithin
  <2>2. CASE v.bound = w.bound
    <3>1. /\ x \in b.decided + 1 .. w.last
          /\ \E m \in CustodianOutflows(ms) : m.id = x /\ w.bound[x] <= m.amount
      BY <1>1, <2>2 DEF Dated, BoundWithin
    <3>2. PICK m \in CustodianOutflows(ms) : m.id = x /\ w.bound[x] <= m.amount
      BY <3>1
    <3> QED BY <1>5, <1>7, <2>2, <3>1, <3>2
  <2>3. CASE v.bound = <<>>
    <3>1. DOMAIN v.bound = {}
      BY <2>3
    <3> QED BY <3>1
  <2>4. CASE c.type = "eligible" /\ v.last = t /\ c.basis.kind = "bound" /\ v.bound = BoundBy(c.basis)
    BY <1>1, <2>4
  <2> QED BY <1>6, <2>2, <2>3, <2>4 DEF Follows
<1>15. ~b.staking
  BY <1>1 DEF Dated
<1>16. b.decided \in 0..t
  BY <1>5
<1>17. d.bought # <<>> =>
         d.bought[1].at \in b.decided..t /\ (i > 1 => b.decided < d.bought[1].at)
  BY <1>1 DEF Dated
<1> QED BY <1>4, <1>7, <1>8, <1>9, <1>10, <1>11, <1>12, <1>13, <1>14, <1>15, <1>16, <1>17 DEF Dated

\* A step on one decision, while time may pass and HYPE may move.
LEMMA ChronicleOneDay ==
  ASSUME HoldingsInv, Chronicle, terms' = terms, now' \in Nat, now <= now', moves \subseteq moves',
         NEW i \in DOMAIN days, NEW e, days' = [days EXCEPT ![i] = e],
         e.b = days[i].b, days[i].w.stage = "complete" => e.w = days[i].w,
         Account => Dated(e, i, now', moves')
  PROVE  Chronicle'
<1>1. PICK n \in Nat : days = [j \in 1..n |-> days[j]] /\ DOMAIN days = 1..n
  BY DEF HoldingsInv, DaysOK
<1>2. days' = [j \in 1..n |-> IF j = i THEN e ELSE days[j]] /\ DOMAIN days' = 1..n
  BY <1>1
<1>3. SUFFICES ASSUME Account
               PROVE  (\A j \in 1..n : Dated(days'[j], j, now', moves')) /\ OneByOne'
  BY <1>2 DEF Chronicle, Account
<1>4. ASSUME NEW j \in 1..n PROVE Dated(days'[j], j, now', moves')
  <2>1. CASE j = i
    BY <1>2, <1>3, <2>1
  <2>2. CASE j # i
    <3>1. days'[j] = days[j] /\ Dated(days[j], j, now, moves)
      BY <1>1, <1>2, <1>3, <2>2 DEF Chronicle
    <3> QED BY <3>1, DatedLater DEF HoldingsInv
  <2> QED BY <2>1, <2>2
<1>5. ASSUME NEW j \in 1..n, NEW k \in 1..n, j < k
      PROVE  days'[j].w.stage = "complete" /\ days'[j].w.last <= days'[k].b.decided
  <2>1. days[j].w.stage = "complete" /\ days[j].w.last <= days[k].b.decided
    BY <1>1, <1>3, <1>5 DEF Chronicle, OneByOne
  <2>2. days'[j].w = days[j].w
    BY <1>2, <2>1
  <2>3. days'[k].b = days[k].b
    BY <1>2
  <2> QED BY <2>1, <2>2, <2>3
<1> QED BY <1>2, <1>4, <1>5 DEF OneByOne

LEMMA ChronicleSameDays ==
  ASSUME HoldingsInv, Chronicle, terms' = terms, now' \in Nat, now <= now', moves \subseteq moves',
         days' = days
  PROVE  Chronicle'
<1>1. SUFFICES ASSUME Account
               PROVE  (\A j \in DOMAIN days : Dated(days[j], j, now', moves')) /\ OneByOne'
  BY DEF Chronicle, Account
<1>2. ASSUME NEW j \in DOMAIN days PROVE Dated(days[j], j, now', moves')
  BY <1>1, DatedLater DEF Chronicle, HoldingsInv
<1>3. OneByOne'
  BY <1>1 DEF Chronicle, OneByOne
<1> QED BY <1>2, <1>3

LEMMA ExecuteDated ==
  ASSUME HoldingsInv, Chronicle, NEW i \in DOMAIN days, Execute(i)
  PROVE  Chronicle'
<1>1. PICK v \in Outcomes :
        days' = [days EXCEPT ![i].bought = <<[matched |-> v.matched, credited |-> v.credited, at |-> now']>>]
  BY DEF Execute
<1>2. /\ now \in Nat /\ now' = now + 1 /\ terms' = terms /\ moves' = moves /\ Account
      /\ days[i].w.pending = "submit"
  BY DEF HoldingsInv, Execute
<1>3. PICK d : d = days[i] /\ DayOK(d) /\ Dated(d, i, now, moves)
  BY <1>2 DEF HoldingsInv, DaysOK, Chronicle
<1>4. PICK e : e = [d EXCEPT !.bought = <<[matched |-> v.matched, credited |-> v.credited, at |-> now']>>]
  OBVIOUS
<1>5. days' = [days EXCEPT ![i] = e]
  BY <1>1, <1>3, <1>4
<1>6. /\ e.b = d.b /\ e.w = d.w /\ e.row = d.row
      /\ e.bought = <<[matched |-> v.matched, credited |-> v.credited, at |-> now']>>
  BY <1>3, <1>4 DEF DayOK, DayShape
<1>7. d.w.stage = "decided"
  BY <1>2, <1>3, StageNames DEF DayOK, FlowOK, StageOK, None
<1>8. Dated(d, i, now', moves)
  BY <1>2, <1>3, DatedLater
<1>9. BoundWithin(e, moves)
  BY <1>6, <1>8 DEF Dated, BoundWithin
<1>10. d.b.decided \in 0..now
  BY <1>3 DEF Dated
<1>11. Dated(e, i, now', moves)
  <2>1. e.bought[1].at = now'
    BY <1>6
  <2>2. e.bought[1].at \in d.b.decided..now' /\ d.b.decided < e.bought[1].at
    BY <1>2, <1>10, <2>1
  <2> QED BY <1>6, <1>7, <1>8, <1>9, <2>2 DEF Dated, OrderFinal
<1>12. now <= now' /\ moves \subseteq moves' /\ now' \in Nat /\ Dated(e, i, now', moves')
  BY <1>2, <1>11
<1> QED BY <1>2, <1>3, <1>5, <1>6, <1>12, ChronicleOneDay

LEMMA ReconcileDated ==
  ASSUME HoldingsInv, Chronicle, NEW i \in DOMAIN days, Reconcile(i)
  PROVE  Chronicle'
<1>0. /\ now \in Nat /\ now' = now + 1 /\ terms' = terms /\ moves' = moves /\ Account
      /\ days[i].w.stage = "decided"
  BY DEF HoldingsInv, Reconcile
<1>1. PICK d : d = days[i] /\ DayOK(d) /\ d.bought # <<>> /\ Dated(d, i, now, moves)
  BY <1>0 DEF HoldingsInv, DaysOK, Reconcile, Chronicle
<1>2. PICK v : v = d.bought[1] /\ v.credited \in Nat
  BY <1>1 DEF DayOK, DayAmounts
<1>3. PICK submitted : submitted = [type |-> "submitted", exact |-> TRUE, order |-> "order1",
                                    accepted |-> d.b.quantity, acceptedAt |-> v.at]
  OBVIOUS
<1>4. PICK fill : fill = [type |-> "fill", obs |-> "fill1", matched |-> v.matched,
                          credited |-> v.credited, filled |-> v.matched, debited |-> v.matched,
                          full |-> v.matched = d.b.quantity]
  OBVIOUS
<1>5. PICK final : final = [type |-> "final", matched |-> v.matched, credited |-> v.credited,
                            filled |-> v.matched, debited |-> v.matched,
                            finality |-> IF v.matched = d.b.quantity THEN "filled" ELSE "canceled"]
  OBVIOUS
<1>6. CallOK(submitted) /\ CallOK(fill) /\ CallOK(final)
  BY <1>2, <1>3, <1>4, <1>5 DEF CallOK, Kinds
<1>7. PICK e : e = Told(d, submitted, now')
  OBVIOUS
<1>8. PICK f : f = Told(e, fill, now')
  OBVIOUS
<1>9. PICK g : g = Told(f, final, now')
  OBVIOUS
<1>10. DayOK(e) /\ e.bought = d.bought /\ e.b = d.b
  BY <1>1, <1>6, <1>7, ToldOK
<1>11. DayOK(f) /\ f.bought = d.bought /\ f.b = d.b
  BY <1>1, <1>6, <1>8, <1>10, ToldOK
<1>12. DayOK(g) /\ g.b = d.b
  BY SMTT(60), <1>1, <1>6, <1>9, <1>11, ToldOK
<1>13. days' = [days EXCEPT ![i] = g]
  BY <1>1, <1>2, <1>3, <1>4, <1>5, <1>7, <1>8, <1>9 DEF Reconcile
<1>14. Dated(d, i, now', moves) /\ now' \in Nat
  BY <1>0, <1>1, DatedLater
<1>15. d.b.decided < now'
  <2>1. d.b.decided \in 0..now
    BY <1>1 DEF Dated
  <2> QED BY <1>0, <2>1
<1>16. Dated(e, i, now', moves)
  <2>1. submitted.type = "submitted"
    BY <1>3
  <2> QED BY <1>1, <1>6, <1>7, <1>14, <1>15, <2>1, ToldDated
<1>17. Dated(f, i, now', moves)
  <2>1. fill.type = "fill"
    BY <1>4
  <2> QED BY <1>1, <1>6, <1>8, <1>10, <1>14, <1>15, <1>16, <2>1, ToldDated
<1>18. Dated(g, i, now', moves)
  <2>1. final.type = "final" /\ final.credited = f.bought[1].credited
    BY <1>2, <1>5, <1>11
  <2> QED BY <1>1, <1>6, <1>9, <1>11, <1>14, <1>15, <1>17, <2>1, ToldDated
<1>19. ~(days[i].w.stage = "complete")
  BY <1>0
<1>20. now <= now' /\ moves \subseteq moves'
  BY <1>0
<1>21. Dated(g, i, now', moves')
  BY <1>0, <1>18
<1>22. g.b = days[i].b
  BY <1>1, <1>12
<1> QED BY <1>0, <1>13, <1>14, <1>19, <1>20, <1>21, <1>22, ChronicleOneDay

\* What evidence binds is part of a transfer after the purchase.
LEMMA PartsBound ==
  ASSUME HoldingsInv, NEW d, DayOK(d), d.bought # <<>>, NEW basis \in BasesOf(d),
         basis.kind = "bound", NEW f, f = BoundBy(basis), NEW x \in DOMAIN f
  PROVE  \E m \in CustodianOutflows(moves) : m.id = x /\ f[x] <= m.amount /\ m.at > d.bought[1].at
<1>1. PICK moved \in SeqOf(Parts(d), MaxMoves) : basis = Evidence(d, moved)
  BY DEF BasesOf, Attested
<1>2. PICK n \in Nat : moved \in [1..n -> Parts(d)]
  BY DEF SeqOf
<1>3. basis.moves = moved
  BY <1>1 DEF Evidence
<1>4. PICK R : R = Range(moved)
  OBVIOUS
<1>5. R \subseteq Parts(d)
  BY <1>2, <1>4 DEF Range
<1>6. f = [i \in {m.id : m \in R} |-> OfId(R, i).amount]
  BY <1>3, <1>4 DEF BoundBy, OfId
<1>7. PICK p : p = OfId(R, x)
  OBVIOUS
<1>8. p \in R /\ p.id = x /\ f[x] = p.amount
  <2>1. \E m \in R : m.id = x
    BY <1>6
  <2>2. p \in R /\ p.id = x
    BY <1>7, <2>1, OfIdIs
  <2> QED BY <1>6, <1>7, <2>2
<1>9. PICK m \in {v \in CustodianOutflows(moves) : v.at > d.bought[1].at} :
        \E a \in 1..m.amount : p = [id |-> m.id, at |-> m.at, amount |-> a]
  BY <1>5, <1>8 DEF Parts
<1>10. PICK a \in 1..m.amount : p = [id |-> m.id, at |-> m.at, amount |-> a]
  BY <1>9
<1>11. m \in moves
  BY <1>9 DEF CustodianOutflows
<1>12. m.amount \in Nat
  BY <1>11 DEF HoldingsInv, MovesOK, MoveOK
<1>13. f[x] <= m.amount /\ m.id = x
  BY <1>8, <1>10, <1>12
<1> QED BY <1>9, <1>13

LEMMA ResolveDated ==
  ASSUME HoldingsInv, Chronicle, NEW i \in DOMAIN days, Resolve(i)
  PROVE  Chronicle'
<1>0. /\ now \in Nat /\ now' = now /\ terms' = terms /\ moves' = moves /\ Account
      /\ days[i].w.stage = "order_finalized"
  BY DEF HoldingsInv, Resolve
<1>1. PICK d : d = days[i] /\ DayOK(d) /\ d.bought # <<>> /\ Dated(d, i, now, moves)
  BY <1>0 DEF HoldingsInv, DaysOK, DayOK, DayBought, Resolve, Chronicle
<1>2. PICK basis \in BasesOf(d) :
        days' = [days EXCEPT ![i] = Told(Told(d, [type |-> "eligible", basis |-> basis], now),
                                         [type |-> "complete"], now)]
  BY <1>1 DEF Resolve
<1>3. PICK c, o : c = [type |-> "eligible", basis |-> basis] /\ o = [type |-> "complete"]
  OBVIOUS
<1>4. CallOK(c) /\ CallOK(o)
  <2>1. basis.kind = "bound" => basis.fills \in Seq(BoundFill) /\ basis.moves \in Seq(BoundMove)
    BY <1>1, BasesTyped
  <2> QED BY <1>3, <2>1 DEF CallOK, Kinds
<1>5. PICK e : e = Told(d, c, now)
  OBVIOUS
<1>6. PICK f : f = Told(e, o, now)
  OBVIOUS
<1>7. DayOK(e) /\ e.bought = d.bought /\ e.b = d.b
  BY <1>1, <1>4, <1>5, ToldOK
<1>8. DayOK(f) /\ f.b = d.b
  BY <1>1, <1>4, <1>6, <1>7, ToldOK
<1>9. days' = [days EXCEPT ![i] = f]
  BY <1>2, <1>3, <1>5, <1>6
<1>10. PICK at : at = d.bought[1].at /\ at \in d.b.decided..now /\ (i > 1 => d.b.decided < at)
                 /\ d.b.decided \in 0..now
  BY <1>1 DEF Dated
<1>11. i > 1 => d.b.decided < now
  BY <1>0, <1>10
<1>12. Dated(e, i, now, moves)
  <2>1. c.type = "eligible" /\ c.basis = basis
    BY <1>3
  <2>2. ASSUME basis.kind = "bound", NEW x \in DOMAIN BoundBy(basis)
        PROVE  /\ x \in d.b.decided + 1 .. now
               /\ \E m \in CustodianOutflows(moves) : m.id = x /\ BoundBy(basis)[x] <= m.amount
    <3>1. PICK m \in CustodianOutflows(moves) :
            m.id = x /\ BoundBy(basis)[x] <= m.amount /\ m.at > d.bought[1].at
      BY <1>1, <2>2, PartsBound
    <3>2. m \in moves
      BY DEF CustodianOutflows
    <3>3. m.at = x /\ m.at \in 1..now
      BY <3>1, <3>2 DEF HoldingsInv, MovesOK, MoveOK
    <3>4. x \in d.b.decided + 1 .. now
      BY <1>0, <1>10, <3>1, <3>3
    <3> QED BY <3>1, <3>4
  <2> QED BY <1>0, <1>1, <1>4, <1>5, <1>11, <2>1, <2>2, ToldDated
<1>13. Dated(f, i, now, moves)
  <2>1. o.type = "complete"
    BY <1>3
  <2> QED BY <1>0, <1>1, <1>4, <1>6, <1>7, <1>11, <1>12, <2>1, ToldDated
<1>14. ~(days[i].w.stage = "complete")
  BY <1>0
<1>15. now <= now' /\ moves \subseteq moves' /\ now' \in Nat
  BY <1>0
<1>16. Dated(f, i, now', moves') /\ f.b = days[i].b
  BY <1>0, <1>1, <1>8, <1>13
<1> QED BY <1>0, <1>9, <1>14, <1>15, <1>16, ChronicleOneDay

\* A row is the amount that the journal of an order that is over proves.
LEMMA RowDated ==
  ASSUME NEW d, NEW i, NEW t, NEW ms, Dated(d, i, t, ms), NEW row \in Rows(d.w), NEW e,
         e.b = d.b, e.w = d.w, e.bought = d.bought, e.row = row
  PROVE  Dated(e, i, t, ms)
<1>1. row = <<d.w.credited>> /\ d.w.stage \in OrderFinal
  BY DEF Rows, Acquired
<1>2. BoundWithin(e, ms)
  BY DEF Dated, BoundWithin
<1> QED BY <1>1, <1>2 DEF Dated

LEMMA SettleDated ==
  ASSUME HoldingsInv, Chronicle, NEW i \in DOMAIN days, Settle(i)
  PROVE  Chronicle'
<1>0. /\ now \in Nat /\ now' = now /\ terms' = terms /\ moves' = moves /\ Account
  BY DEF HoldingsInv, Settle
<1>1. PICK d : d = days[i] /\ DayOK(d) /\ Dated(d, i, now, moves)
  BY <1>0 DEF HoldingsInv, DaysOK, Chronicle
<1>2. PICK row \in Rows(d.w) : days' = [days EXCEPT ![i].settled = TRUE, ![i].row = row]
  BY Zenon, <1>1 DEF Settle
<1>3. PICK e : e = [d EXCEPT !.settled = TRUE, !.row = row]
  OBVIOUS
<1>4. days' = [days EXCEPT ![i] = e]
  BY <1>1, <1>2, <1>3
<1>5. e.b = d.b /\ e.w = d.w /\ e.bought = d.bought /\ e.row = row
  BY <1>1, <1>3 DEF DayOK, DayShape
<1>6. Dated(e, i, now, moves)
  BY <1>1, <1>5, RowDated
<1>7. now <= now' /\ moves \subseteq moves' /\ now' \in Nat /\ Dated(e, i, now', moves')
  BY <1>0, <1>6
<1> QED BY <1>0, <1>1, <1>4, <1>5, <1>7, ChronicleOneDay

LEMMA BackfillDated ==
  ASSUME HoldingsInv, Chronicle, NEW i \in DOMAIN days, Backfill(i)
  PROVE  Chronicle'
<1>0. /\ now \in Nat /\ now' = now /\ terms' = terms /\ moves' = moves
  BY DEF HoldingsInv, Backfill
<1>1. PICK d : d = days[i] /\ DayOK(d) /\ (Account => Dated(d, i, now, moves))
  BY <1>0 DEF HoldingsInv, DaysOK, Chronicle
<1>2. PICK e \in WithRow(d) : days' = [days EXCEPT ![i] = e]
  BY <1>1 DEF Backfill, BackfillOne
<1>3. PICK row \in Rows(d.w) : e = [d EXCEPT !.row = row]
  BY DEF WithRow
<1>4. e.b = d.b /\ e.w = d.w /\ e.bought = d.bought /\ e.row = row
  BY <1>1, <1>3 DEF DayOK, DayShape
<1>5. Account => Dated(e, i, now, moves)
  BY <1>1, <1>4, RowDated
<1>6. now <= now' /\ moves \subseteq moves' /\ now' \in Nat /\ (Account => Dated(e, i, now', moves'))
  BY <1>0, <1>5
<1> QED BY <1>0, <1>1, <1>2, <1>4, <1>6, ChronicleOneDay

\* A decision that is prepared is dated now, when all before it are over.
LEMMA PreparedDated ==
  ASSUME HoldingsInv, Account, NEW q, NEW i, NEW e, e = Prepared(Binding(q, History.residual))
  PROVE  Dated(e, i, now, moves) /\ e.b.decided = now
<1>1. PICK b : b = Binding(q, History.residual) /\ b.decided = now /\ ~b.staking
  BY DEF Binding
<1>2. PICK n : n = NewDay(b, NewWorkflow(b)) /\ DayOK(n)
  <2>1. History.residual \in Int /\ Target \in Int
    BY HistoryType, HoldingsAssumption
  <2>2. b.deficit = Monus(Target, History.residual) /\ b.staking = FALSE
    BY <1>1 DEF Binding, Deficit
  <2>3. b.deficit \in Nat
    BY <2>1, <2>2, MonusType
  <2>4. b.staking \in BOOLEAN
    BY <2>2, Zenon
  <2>5. BindingOK(b)
    BY <2>3, <2>4, Zenon DEF BindingOK
  <2> QED BY <2>5, NewDayOK
<1>3. PICK c : c = [type |-> "prepare", obs |-> "submit"]
  OBVIOUS
<1>4. CallOK(c) /\ c.type = "prepare"
  BY <1>3 DEF CallOK, Kinds
<1>5. e = Told(n, c, now)
  BY <1>1, <1>2, <1>3 DEF Prepared
<1>6. now \in Nat
  BY DEF HoldingsInv
<1>7. n.b = b /\ n.w = NewWorkflow(b) /\ n.bought = <<>> /\ n.row = <<>>
  BY <1>2 DEF NewDay
<1>8. /\ n.w.stage = "decided" /\ n.w.last = now /\ n.w.lastFill = 0 /\ n.w.bound = <<>>
  BY <1>1, <1>7 DEF NewWorkflow
<1>9. BoundWithin(n, moves)
  <2>1. DOMAIN n.w.bound = {}
    BY <1>8
  <2> QED BY <2>1 DEF BoundWithin
<1>10. Dated(n, i, now, moves)
  <2>1. n.w.stage \notin OrderFinal
    BY <1>8 DEF OrderFinal
  <2> QED BY <1>1, <1>6, <1>7, <1>8, <1>9, <2>1 DEF Dated
<1>11. Dated(e, i, now, moves)
  BY <1>2, <1>4, <1>5, <1>6, <1>10, ToldDated
<1>12. e.b = b
  BY <1>2, <1>4, <1>5, <1>7, ToldOK
<1> QED BY <1>1, <1>11, <1>12

LEMMA PrepareDated ==
  ASSUME HoldingsInv, Chronicle, Account, PrepareDecision
  PROVE  Chronicle'
<1>1. /\ now \in Nat /\ now' = now /\ terms' = terms /\ moves' = moves
  BY DEF HoldingsInv, PrepareDecision
<1>2. CASE days' = days
  BY <1>1, <1>2, ChronicleSameDays
<1>3. ASSUME NEW q \in Quantities, History.answer = "ok",
             days' = Append(days, Prepared(Binding(q, History.residual)))
      PROVE  Chronicle'
  <2>1. PICK n \in Nat : n = Len(days) /\ days = [j \in 1..n |-> days[j]] /\ DOMAIN days = 1..n
    BY DEF HoldingsInv, DaysOK
  <2>2. PICK e : e = Prepared(Binding(q, History.residual))
    OBVIOUS
  <2>3. PICK S : S = {days[j] : j \in 1..n} \cup {e}
    OBVIOUS
  <2>4. days \in Seq(S) /\ e \in S
    <3>1. days \in [1..n -> S]
      BY <2>1, <2>3
    <3> QED BY <2>3, <3>1
  <2>5. days' = [j \in 1..(n + 1) |-> IF j = n + 1 THEN e ELSE days[j]]
    BY <1>3, <2>1, <2>2, <2>4, AppendProperties
  <2>6. \A j \in 1..n : days[j].w.stage = "complete"
    <3>1. SUFFICES ASSUME \E j \in DOMAIN Flows : Flows[j].stage # "complete" PROVE FALSE
      BY <2>1 DEF Flows
    <3>2. History = [answer |-> "not_terminal", residual |-> 0]
      BY <3>1 DEF History, Aggregate
    <3> QED BY <1>3, <3>2
  <2>7. Dated(e, n + 1, now, moves) /\ e.b.decided = now
    BY <2>2, PreparedDated
  <2>8. ASSUME NEW j \in 1..(n + 1) PROVE Dated(days'[j], j, now, moves)
    <3>1. CASE j = n + 1
      BY <2>5, <2>7, <3>1
    <3>2. CASE j # n + 1
      <4>1. j \in 1..n /\ days'[j] = days[j]
        BY <2>5, <3>2
      <4> QED BY <2>1, <4>1 DEF Chronicle
    <3> QED BY <3>1, <3>2
  <2>9. ASSUME NEW j \in 1..(n + 1), NEW k \in 1..(n + 1), j < k
        PROVE  days'[j].w.stage = "complete" /\ days'[j].w.last <= days'[k].b.decided
    <3>1. j \in 1..n /\ days'[j] = days[j]
      BY <2>5, <2>9
    <3>2. CASE k = n + 1
      <4>1. days'[k] = e
        BY <2>5, <3>2
      <4>2. Dated(days[j], j, now, moves)
        BY <2>1, <3>1 DEF Chronicle
      <4>3. days[j].w.last <= now
        BY <1>1, <4>2 DEF Dated
      <4> QED BY <2>6, <2>7, <3>1, <4>1, <4>3
    <3>3. CASE k # n + 1
      <4>1. k \in 1..n /\ days'[k] = days[k]
        BY <2>5, <3>3
      <4> QED BY <2>1, <2>9, <3>1, <4>1 DEF Chronicle, OneByOne
    <3> QED BY <3>2, <3>3
  <2>10. DOMAIN days' = 1..(n + 1)
    BY <2>5
  <2> QED BY <1>1, <2>8, <2>9, <2>10 DEF Chronicle, OneByOne
<1>4. \/ days' = days
      \/ \E q \in Quantities : History.answer = "ok" /\ days' = Append(days, Prepared(Binding(q, History.residual)))
  BY DEF PrepareDecision
<1> QED BY <1>2, <1>3, <1>4

LEMMA ChronicleStarts == ASSUME Init PROVE Chronicle
<1>1. SUFFICES ASSUME Account PROVE (\A i \in DOMAIN days : Dated(days[i], i, now, moves)) /\ OneByOne
  BY DEF Chronicle
<1>2. CASE terms.legacy > 0
  <2>1. PICK d : d = LegacyDay(terms.legacy)
    OBVIOUS
  <2>2. days = <<d>> /\ now = 0
    BY <1>1, <1>2, <2>1 DEF Init, Account
  <2>3. PICK q, b : q = terms.legacy /\ b = Binding(q, 0)
    OBVIOUS
  <2>4. b.decided = 0 /\ ~b.staking
    BY <2>2, <2>3 DEF Binding
  <2>5. PICK r, g : r = Lesser(q, b.deficit) /\ g = Monus(q, b.deficit)
    OBVIOUS
  <2>6. PICK w : w = [NewWorkflow(b) EXCEPT
              !.stage = "complete", !.order = "order1", !.accepted = q,
              !.matched = q, !.credited = q, !.filled = q,
              !.debited = q, !.residual = r,
              !.eligible = g, !.basis = <<[kind |-> "attested", exact |-> TRUE]>>]
    OBVIOUS
  <2>7. d = [NewDay(b, w) EXCEPT !.bought = <<[matched |-> q, credited |-> q, at |-> 0]>>,
                                 !.settled = TRUE]
    BY <2>1, <2>3, <2>5, <2>6 DEF LegacyDay
  <2>8. /\ w.stage = "complete" /\ w.credited = q /\ w.last = 0 /\ w.lastFill = 0 /\ w.bound = <<>>
        /\ w.basis = <<[kind |-> "attested", exact |-> TRUE]>>
    BY <2>4, <2>6 DEF NewWorkflow
  <2>9. /\ d.b = b /\ d.w = w /\ d.row = <<>>
        /\ d.bought = <<[matched |-> q, credited |-> q, at |-> 0]>>
    BY <2>7 DEF NewDay
  <2>10. Dated(d, 1, now, moves)
    <3>1. BoundWithin(d, moves)
      <4>1. DOMAIN d.w.bound = {}
        BY <2>8, <2>9
      <4> QED BY <4>1 DEF BoundWithin
    <3>2. d.bought # <<>> /\ d.bought[1].at = 0 /\ d.bought[1].credited = q
      BY <2>9
    <3>3. d.w.basis # <<>>
      BY <2>8, <2>9
    <3> QED BY <2>2, <2>4, <2>8, <2>9, <3>1, <3>2, <3>3 DEF Dated
  <2>11. DOMAIN days = {1} /\ days[1] = d
    BY <2>2
  <2> QED BY <2>10, <2>11 DEF OneByOne
<1>3. CASE ~(terms.legacy > 0)
  <2>1. days = <<>>
    BY <1>1, <1>3 DEF Init, Account
  <2> QED BY <2>1 DEF OneByOne
<1> QED BY <1>2, <1>3

LEMMA ChronicleStep == ASSUME HoldingsInv, Chronicle, [Next]_vars PROVE Chronicle'
<1>1. CASE Move
  BY <1>1, ChronicleSameDays DEF Move, HoldingsInv
<1>2. CASE \E i \in DOMAIN days : Execute(i) \/ Reconcile(i) \/ Resolve(i) \/ Settle(i) \/ Backfill(i)
  BY <1>2, ExecuteDated, ReconcileDated, ResolveDated, SettleDated, BackfillDated
<1>3. CASE StartNaming \/ StartCycle \/ FinishCycle \/ UNCHANGED vars
  <2>1. /\ now \in Nat /\ now' = now /\ terms' = terms /\ days' = days /\ moves' = moves
    BY <1>3 DEF HoldingsInv, StartNaming, StartCycle, FinishCycle, vars
  <2> QED BY <2>1, ChronicleSameDays
<1>4. CASE PrepareDecision
  <2>1. CASE Account
    BY <1>4, <2>1, PrepareDated
  <2>2. CASE ~Account
    BY <1>4, <2>2 DEF PrepareDecision, Chronicle, Account
  <2> QED BY <2>1, <2>2
<1>5. CASE Tick \/ LibraryCall
  BY <1>5 DEF Tick, LibraryCall, Chronicle, Account
<1> QED BY <1>1, <1>2, <1>3, <1>4, <1>5 DEF Next

\* Decisions follow each other, and what was bought, recorded and bound of each
\* came in that order.
THEOREM ChronicleKept == Spec => []Chronicle
<1>1. Init => Chronicle
  BY ChronicleStarts
<1>2. HoldingsInv /\ Chronicle /\ [Next]_vars => Chronicle'
  BY ChronicleStep
<1> QED BY <1>1, <1>2, HoldingsSound, PTL DEF Spec

-----------------------------------------------------------------------------
(* The replay is exact *)

LotsBy(lots, x) == LotsSum(lots, {i \in DOMAIN lots : lots[i].from <= x})

\* After s was sent and p of that was bound: what is taken is what was sent
\* within the cap, less what was bound, and in still held it.
Level(t, in, cap, s, p) ==
  /\ t.cap = Monus(cap, s) /\ t.unstaked \in Nat /\ t.residual \in Nat
  /\ t.unstaked <= in.unstaked /\ t.residual <= in.residual
  /\ t.unstaked + t.residual = Lesser(s, cap) - p

\* One transfer of amount a, y of it bound by evidence.
LEMMA OneTaken ==
  ASSUME NEW lots, LotsOK(lots), NEW bound, NEW o,
         NEW in, in = LotsBy(lots, o.at),
         NEW cap \in Nat, NEW s \in Nat, NEW p \in Nat, NEW y \in Nat, NEW a \in Nat, y <= a,
         bound[o.id] = y, o.amount = a, y > 0 => s + y <= cap,
         (s + a) - (p + y) <= in.unstaked + in.residual,
         NEW t, Level(t, in, cap, s, p),
         NEW u, u = ReplayOutflow(lots, bound, t, o),
         NEW sent, sent = s + a, NEW held, held = p + y
  PROVE  Level(u, in, cap, sent, held)
<1>0. /\ t.cap = Monus(cap, s) /\ t.unstaked \in Nat /\ t.residual \in Nat
      /\ t.unstaked <= in.unstaked /\ t.residual <= in.residual
      /\ t.unstaked + t.residual = Lesser(s, cap) - p
  BY DEF Level
<1>1. in.residual \in Nat /\ in.unstaked \in Nat
  BY LotsType DEF LotsBy
<1>2. PICK left : left = t.cap - Lesser(y, t.cap)
  OBVIOUS
<1>3. PICK credit : credit = Lesser(a - y, left)
  OBVIOUS
<1>4. PICK first : first = Lesser(credit, in.unstaked - t.unstaked)
  OBVIOUS
<1>5. PICK next : next = Lesser(credit - first, in.residual - t.residual)
  OBVIOUS
<1>6. u = [cap |-> left - credit, unstaked |-> t.unstaked + first, residual |-> t.residual + next]
  <2>1. Lesser(bound[o.id], o.amount) = y
    BY DEF Lesser
  <2>2. LotsSum(lots, {i \in DOMAIN lots : lots[i].from <= o.at}) = in
    BY DEF LotsBy
  <2> QED BY <1>2, <1>3, <1>4, <1>5, <2>1, <2>2 DEF ReplayOutflow
<1>7. left \in Nat /\ left = Monus(cap, s + y)
  BY <1>0, <1>2 DEF Lesser, Monus
<1>8. credit \in Nat /\ credit = Lesser(s + a, cap) - Lesser(s, cap) - y
      /\ left - credit = Monus(cap, s + a)
  BY <1>3, <1>7 DEF Lesser, Monus
<1>9. credit + (t.unstaked + t.residual) = Lesser(s + a, cap) - (p + y)
  <2>1. Lesser(s + a, cap) \in Int /\ Lesser(s, cap) \in Int
    BY DEF Lesser
  <2>2. PICK x, z : x = Lesser(s + a, cap) /\ z = Lesser(s, cap)
    OBVIOUS
  <2>3. t.unstaked + t.residual = z - p /\ credit = x - z - y
    BY <1>0, <1>8, <2>2
  <2> QED BY <2>1, <2>2, <2>3
<1>10. credit + (t.unstaked + t.residual) <= in.unstaked + in.residual
  <2>1. PICK x : x = Lesser(s + a, cap) /\ x <= s + a /\ x \in Nat
    BY DEF Lesser
  <2>2. credit + (t.unstaked + t.residual) = x - (p + y)
    BY <1>9, <2>1
  <2>3. x - (p + y) <= (s + a) - (p + y)
    BY <2>1
  <2>4. PICK z : z = in.unstaked + in.residual /\ z \in Int
    BY <1>1
  <2>5. (s + a) - (p + y) <= z
    BY <2>4
  <2>6. x - (p + y) <= z
    BY <2>1, <2>3, <2>4, <2>5
  <2>7. credit + (t.unstaked + t.residual) <= z
    BY <2>2, <2>6, Zenon
  <2> QED BY <2>4, <2>7, Zenon
<1>11. /\ first \in Nat /\ next \in Nat /\ first + next = credit
       /\ first <= in.unstaked - t.unstaked /\ next <= in.residual - t.residual
  <2>1. PICK m : m = in.unstaked - t.unstaked
    OBVIOUS
  <2>2. PICK n : n = in.residual - t.residual
    OBVIOUS
  <2>3. m \in Nat /\ n \in Nat
    BY <1>0, <1>1, <2>1, <2>2
  <2>4. credit <= m + n
    BY <1>0, <1>1, <1>8, <1>10, <2>1, <2>2
  <2>5. first = Lesser(credit, m) /\ next = Lesser(credit - first, n)
    BY <1>4, <1>5, <2>1, <2>2, Zenon
  <2>6. credit \in Nat
    BY <1>8
  <2>7. first \in Nat /\ first <= m /\ first <= credit
        /\ credit - first <= n
    BY <2>3, <2>4, <2>5, <2>6 DEF Lesser
  <2>8. next = credit - first
    BY <2>3, <2>5, <2>6, <2>7 DEF Lesser
  <2>9. next \in Nat /\ first + next = credit /\ next <= n
    BY <2>6, <2>7, <2>8
  <2> QED BY <2>1, <2>2, <2>7, <2>9
<1> QED BY <1>0, <1>1, <1>6, <1>8, <1>9, <1>11 DEF Level

\* The transfers and what evidence bound of them, by their ids, which are their
\* times.
OutflowsOK(outflow, bound) ==
  /\ IsFiniteSet(DOMAIN outflow) /\ DOMAIN outflow \subseteq Nat
  /\ \A x \in DOMAIN outflow :
       /\ outflow[x].id = x /\ outflow[x].at = x
       /\ outflow[x].amount \in Nat /\ bound[x] \in 0..outflow[x].amount

SentIn(outflow, P) == SumFunction([x \in P |-> outflow[x].amount])
BoundIn(bound, P) == SumFunction([x \in P |-> bound[x]])

Until(outflow, x) == {z \in DOMAIN outflow : z <= x}
Earlier(outflow, x) == {z \in DOMAIN outflow : z < x}

\* At every transfer the lots in spot hold what was sent and not bound.
Affordable(lots, outflow, bound) ==
  \A x \in DOMAIN outflow :
    SentIn(outflow, Until(outflow, x)) - BoundIn(bound, Until(outflow, x))
      <= LotsBy(lots, x).unstaked + LotsBy(lots, x).residual

Fits(outflow, bound, cap) ==
  \A x \in DOMAIN outflow :
    bound[x] > 0 => SentIn(outflow, Earlier(outflow, x)) + bound[x] <= cap

\* What the transfers P took.
TakenOf(t, lots, outflow, bound, cap, P) ==
  /\ t.cap = Monus(cap, SentIn(outflow, P)) /\ t.unstaked \in Nat /\ t.residual \in Nat
  /\ t.unstaked + t.residual = Lesser(SentIn(outflow, P), cap) - BoundIn(bound, P)
  /\ \A y \in DOMAIN outflow :
       (\A z \in P : z <= y) =>
         t.unstaked <= LotsBy(lots, y).unstaked /\ t.residual <= LotsBy(lots, y).residual

LEMMA OutflowSums ==
  ASSUME NEW outflow, NEW bound, OutflowsOK(outflow, bound), NEW P \in SUBSET (DOMAIN outflow)
  PROVE  /\ IsFiniteSet(P) /\ [x \in P |-> outflow[x].amount] \in [P -> Nat]
         /\ [x \in P |-> bound[x]] \in [P -> Nat]
         /\ SentIn(outflow, P) \in Nat /\ BoundIn(bound, P) \in Nat
<1>1. PICK f, g : f = [x \in P |-> outflow[x].amount] /\ g = [x \in P |-> bound[x]]
  OBVIOUS
<1>2. f \in [P -> Nat] /\ g \in [P -> Nat] /\ IsFiniteSet(P)
  <2>1. \A x \in P : outflow[x].amount \in Nat /\ bound[x] \in Nat
    BY DEF OutflowsOK
  <2> QED BY <1>1, <2>1, FS_Subset DEF OutflowsOK
<1>3. SumFunction(f) \in Nat /\ SumFunction(g) \in Nat
  BY <1>2, SumNat
<1> QED BY <1>1, <1>2, <1>3 DEF SentIn, BoundIn

LEMMA OneOutflow ==
  ASSUME NEW outflow, NEW bound, OutflowsOK(outflow, bound), NEW Q \in SUBSET (DOMAIN outflow),
         NEW x \in Q, NEW P, P = Q \ {x}
  PROVE  /\ SentIn(outflow, Q) = SentIn(outflow, P) + outflow[x].amount
         /\ BoundIn(bound, Q) = BoundIn(bound, P) + bound[x]
<1>1. PICK f, g : f = [z \in Q |-> outflow[z].amount] /\ g = [z \in Q |-> bound[z]]
  OBVIOUS
<1>2. PICK h, k : h = [z \in P |-> outflow[z].amount] /\ k = [z \in P |-> bound[z]]
  OBVIOUS
<1>3. f \in [Q -> Nat] /\ g \in [Q -> Nat] /\ IsFiniteSet(Q)
  BY SMTT(60), <1>1, OutflowSums
<1>4. P \in SUBSET (DOMAIN outflow) /\ Without(P, Q, x)
  BY DEF Without
<1>5. h \in [P -> Nat] /\ k \in [P -> Nat]
  BY <1>2, <1>4, OutflowSums
<1>6. (\A z \in P : h[z] = f[z] /\ k[z] = g[z]) /\ f[x] = outflow[x].amount /\ g[x] = bound[x]
  BY <1>1, <1>2, <1>4 DEF Without
<1>7. f \in [Q -> Int] /\ g \in [Q -> Int] /\ h \in [P -> Int] /\ k \in [P -> Int]
  BY <1>3, <1>5
<1>8. SumFunction(f) = f[x] + SumFunction(h) /\ SumFunction(g) = g[x] + SumFunction(k)
  BY <1>3, <1>4, <1>6, <1>7, SumSplit
<1>9. SumFunction(h) \in Nat /\ SumFunction(k) \in Nat /\ f[x] \in Nat /\ g[x] \in Nat
  <2>1. IsFiniteSet(P)
    BY <1>4, OutflowSums
  <2> QED BY <1>3, <1>5, <2>1, SumNat
<1> QED BY <1>1, <1>2, <1>6, <1>8, <1>9 DEF SentIn, BoundIn

LEMMA LotsGrow ==
  ASSUME NEW lots, LotsOK(lots), \A i \in DOMAIN lots : lots[i].from \in Int,
         NEW x \in Int, NEW y \in Int, x <= y
  PROVE  /\ LotsBy(lots, x).unstaked \in Nat /\ LotsBy(lots, x).residual \in Nat
         /\ LotsBy(lots, y).unstaked \in Nat /\ LotsBy(lots, y).residual \in Nat
         /\ LotsBy(lots, x).unstaked <= LotsBy(lots, y).unstaked
         /\ LotsBy(lots, x).residual <= LotsBy(lots, y).residual
<1>1. PICK S, R : /\ S = {i \in DOMAIN lots : lots[i].from <= x}
                  /\ R = {i \in DOMAIN lots : lots[i].from <= y}
  OBVIOUS
<1>2. S \in SUBSET R /\ R \in SUBSET (DOMAIN lots) /\ S \in SUBSET (DOMAIN lots)
  BY <1>1
<1>3. PICK f, g : f = [i \in R |-> lots[i].unstaked] /\ g = [i \in R |-> lots[i].residual]
  OBVIOUS
<1>4. PICK h, k : h = [i \in S |-> lots[i].unstaked] /\ k = [i \in S |-> lots[i].residual]
  OBVIOUS
<1>5. IsFiniteSet(R) /\ f \in [R -> Nat] /\ g \in [R -> Nat] /\ h \in [S -> Nat] /\ k \in [S -> Nat]
  BY <1>2, <1>3, <1>4, FS_Subset DEF LotsOK
<1>6. (\A i \in S : h[i] = f[i]) /\ (\A i \in S : k[i] = g[i])
  BY <1>2, <1>3, <1>4
<1>7. SumFunction(h) <= SumFunction(f) /\ SumFunction(k) <= SumFunction(g)
  BY <1>2, <1>5, <1>6, SumPart
<1>8. /\ LotsBy(lots, x) = LotsSum(lots, S) /\ LotsBy(lots, y) = LotsSum(lots, R)
  BY <1>1 DEF LotsBy
<1>9. /\ LotsSum(lots, S).unstaked = SumFunction(h) /\ LotsSum(lots, S).residual = SumFunction(k)
      /\ LotsSum(lots, R).unstaked = SumFunction(f) /\ LotsSum(lots, R).residual = SumFunction(g)
  BY <1>3, <1>4 DEF LotsSum
<1>10. /\ LotsSum(lots, S).unstaked \in Nat /\ LotsSum(lots, S).residual \in Nat
       /\ LotsSum(lots, R).unstaked \in Nat /\ LotsSum(lots, R).residual \in Nat
  BY <1>2, LotsType
<1> QED BY <1>7, <1>8, <1>9, <1>10

\* The next transfer takes its part.
LEMMA NextTaken ==
  ASSUME NEW lots, LotsOK(lots), \A i \in DOMAIN lots : lots[i].from \in Int,
         NEW outflow, NEW bound, OutflowsOK(outflow, bound), NEW cap \in Nat,
         Affordable(lots, outflow, bound), Fits(outflow, bound, cap),
         NEW x \in DOMAIN outflow, NEW P, P = Earlier(outflow, x), NEW Q, Q = Until(outflow, x),
         NEW t, TakenOf(t, lots, outflow, bound, cap, P),
         NEW u, u = ReplayOutflow(lots, bound, t, outflow[x])
  PROVE  TakenOf(u, lots, outflow, bound, cap, Q)
<1>1. /\ x \in Nat /\ DOMAIN outflow \subseteq Nat /\ outflow[x].id = x /\ outflow[x].at = x
      /\ outflow[x].amount \in Nat /\ bound[x] \in 0..outflow[x].amount
  BY DEF OutflowsOK
<1>2. P = Q \ {x} /\ x \in Q /\ Q \in SUBSET (DOMAIN outflow) /\ P \in SUBSET (DOMAIN outflow)
  BY <1>1 DEF Earlier, Until
<1>3. PICK s, p, y, a : /\ s = SentIn(outflow, P) /\ p = BoundIn(bound, P)
                        /\ y = bound[x] /\ a = outflow[x].amount
  OBVIOUS
<1>4. s \in Nat /\ p \in Nat /\ y \in Nat /\ a \in Nat /\ y <= a
  BY <1>1, <1>2, <1>3, OutflowSums
<1>5. SentIn(outflow, Q) = s + a /\ BoundIn(bound, Q) = p + y
  BY <1>2, <1>3, OneOutflow
<1>6. PICK in : in = LotsBy(lots, x)
  OBVIOUS
<1>9. (s + a) - (p + y) <= in.unstaked + in.residual
  BY <1>5, <1>6 DEF Affordable
<1>10. y > 0 => s + y <= cap
  BY <1>3 DEF Fits
<1>11. Level(t, in, cap, s, p)
  <2>1. \A z \in P : z <= x
    BY <1>1 DEF Earlier
  <2> QED BY <1>3, <1>6, <2>1 DEF TakenOf, Level
<1>12. /\ u.cap = Monus(cap, s + a) /\ u.unstaked \in Nat /\ u.residual \in Nat
       /\ u.unstaked <= in.unstaked /\ u.residual <= in.residual
       /\ u.unstaked + u.residual = Lesser(s + a, cap) - (p + y)
  <2>1. PICK o : o = outflow[x]
    OBVIOUS
  <2>2. bound[o.id] = y /\ o.amount = a /\ u = ReplayOutflow(lots, bound, t, o)
    BY <1>1, <1>3, <2>1
  <2>3. in = LotsBy(lots, o.at)
    BY <1>1, <1>6, <2>1
  <2>4. PICK sent, held : sent = s + a /\ held = p + y
    OBVIOUS
  <2>5. Level(u, in, cap, sent, held)
    BY <1>4, <1>9, <1>10, <1>11, <2>2, <2>3, <2>4, OneTaken
  <2> QED BY <2>4, <2>5 DEF Level
<1>13. ASSUME NEW z \in DOMAIN outflow, \A v \in Q : v <= z
       PROVE  u.unstaked <= LotsBy(lots, z).unstaked /\ u.residual <= LotsBy(lots, z).residual
  <2>1. x <= z /\ x \in Int /\ z \in Int
    BY <1>1, <1>2, <1>13
  <2>2. /\ in.unstaked \in Nat /\ in.residual \in Nat
        /\ LotsBy(lots, z).unstaked \in Nat /\ LotsBy(lots, z).residual \in Nat
        /\ in.unstaked <= LotsBy(lots, z).unstaked /\ in.residual <= LotsBy(lots, z).residual
    BY <1>6, <2>1, LotsGrow
  <2> QED BY <1>12, <2>2
<1> QED BY <1>5, <1>12, <1>13 DEF TakenOf

\* The first k ids of a list.
FirstOf(ids, k) == {ids[j] : j \in 1..k}

\* The n ids are all of them, in the order of time.
ByTime(outflow, ids, n) ==
  /\ ids \in [1..n -> DOMAIN outflow] /\ FirstOf(ids, n) = DOMAIN outflow
  /\ \A k \in 0..n : \A m \in 1..n : m = k + 1 =>
       /\ FirstOf(ids, k) = Earlier(outflow, ids[m])
       /\ FirstOf(ids, m) = Until(outflow, ids[m])

LEMMA InTime ==
  ASSUME NEW outflow, NEW bound, OutflowsOK(outflow, bound),
         NEW key, key = [x \in DOMAIN outflow |-> <<outflow[x].at, 0>>],
         NEW ids, ids = InOrder(key)
  PROVE  \E n \in Nat : ByTime(outflow, ids, n)
<1>1. DOMAIN outflow \subseteq Nat /\ \A x \in DOMAIN outflow : outflow[x].at = x
  BY DEF OutflowsOK
<1>2. DOMAIN key = DOMAIN outflow /\ \A x \in DOMAIN outflow : key[x] = <<x, 0>>
  BY <1>1
<1>3. Keys(key) /\ IsFiniteSet(DOMAIN key)
  <2>1. key \in [DOMAIN outflow -> Int \X Int]
    BY <1>1
  <2>2. DOMAIN key \subseteq Int
    BY <1>1, <1>2
  <2> QED BY <1>2, <2>1, <2>2 DEF Keys, OutflowsOK
<1>4. PICK n \in Nat : AllInOrder(key, ids, n)
  BY <1>3, InOrderAll
<1>5. ids \in [1..n -> DOMAIN outflow] /\ \A x \in DOMAIN outflow : \E i \in 1..n : ids[i] = x
  BY <1>2, <1>4 DEF InOrderOf, AllInOrder
<1>6. ASSUME NEW i \in 1..n, NEW j \in 1..n, i < j PROVE ids[i] < ids[j]
  <2>1. PICK a, b : a = ids[i] /\ b = ids[j]
    OBVIOUS
  <2>2. a \in DOMAIN outflow /\ b \in DOMAIN outflow /\ Before(key, a, b)
    BY <1>4, <1>5, <1>6, <2>1 DEF InOrderOf, AllInOrder
  <2>3. key[a] = <<a, 0>> /\ key[b] = <<b, 0>> /\ a \in Nat /\ b \in Nat
    BY <1>1, <1>2, <2>2
  <2>4. a < b
    BY <2>2, <2>3 DEF Before
  <2> QED BY <2>1, <2>4
<1>7. \A i \in 1..n : ids[i] \in DOMAIN outflow /\ ids[i] \in Nat
  BY <1>1, <1>5
<1>8. FirstOf(ids, n) = DOMAIN outflow
  BY <1>5, <1>7 DEF FirstOf
<1>9. ASSUME NEW k \in 0..n, NEW m \in 1..n, m = k + 1
      PROVE  /\ FirstOf(ids, k) = Earlier(outflow, ids[m])
             /\ FirstOf(ids, m) = Until(outflow, ids[m])
  <2>1. PICK x : x = ids[m] /\ x \in Nat
    BY <1>7
  <2>2. ASSUME NEW i \in 1..n PROVE (ids[i] < x <=> i \in 1..k) /\ (ids[i] <= x <=> i \in 1..m)
    <3>1. i < m => ids[i] < x
      BY <1>6, <2>1
    <3>2. m < i => x < ids[i]
      BY <1>6, <2>1
    <3>3. i = m => ids[i] = x
      BY <2>1
    <3>4. ids[i] \in Nat /\ i \in Nat /\ m \in Nat /\ k \in Nat
      BY <1>7
    <3> QED BY <1>9, <2>1, <3>1, <3>2, <3>3, <3>4
  <2>3. \A j \in 1..k : j \in 1..n
    OBVIOUS
  <2>4. \A j \in 1..m : j \in 1..n
    OBVIOUS
  <2>5. FirstOf(ids, k) = Earlier(outflow, x)
    BY <1>5, <1>7, <2>2, <2>3 DEF FirstOf, Earlier
  <2>6. FirstOf(ids, m) = Until(outflow, x)
    BY <1>5, <1>7, <2>2, <2>4 DEF FirstOf, Until
  <2> QED BY <2>1, <2>5, <2>6
<1> QED BY <1>5, <1>8, <1>9 DEF ByTime

\* The replay takes what was sent within the cap, less what was bound.
LEMMA ReplayTakes ==
  ASSUME NEW lots, LotsOK(lots), \A i \in DOMAIN lots : lots[i].from \in Int,
         NEW outflow, NEW bound, OutflowsOK(outflow, bound), NEW cap \in Nat,
         Affordable(lots, outflow, bound), Fits(outflow, bound, cap),
         NEW key, key = [x \in DOMAIN outflow |-> <<outflow[x].at, 0>>],
         NEW taken, taken = TakenBy(lots, outflow, bound, cap, InOrder(key))
  PROVE  TakenOf(taken, lots, outflow, bound, cap, DOMAIN outflow)
<1>1. PICK ids : ids = InOrder(key)
  OBVIOUS
<1>11. PICK n \in Nat : ByTime(outflow, ids, n)
  BY <1>1, InTime
<1>2. /\ ids \in [1..n -> DOMAIN outflow] /\ FirstOf(ids, n) = DOMAIN outflow
      /\ \A k \in 0..n : \A m \in 1..n : m = k + 1 =>
           /\ FirstOf(ids, k) = Earlier(outflow, ids[m])
           /\ FirstOf(ids, m) = Until(outflow, ids[m])
  BY <1>11 DEF ByTime
<1>3. PICK st : TakingRun(st, lots, outflow, bound, cap, ids, n)
  <2>1. DOMAIN ids = 1..n
    BY <1>2
  <2> QED BY <2>1, TakingSteps
<1> DEFINE T == {k \in Nat : k <= n => TakenOf(st[k], lots, outflow, bound, cap, FirstOf(ids, k))}
<1>4. 0 \in T
  <2>1. PICK t : t = st[0] /\ t = [cap |-> cap, unstaked |-> 0, residual |-> 0]
    BY <1>3 DEF TakingRun, Untaken
  <2>2. PICK P : P = FirstOf(ids, 0) /\ P = {}
    <3>1. 1..0 = {}
      OBVIOUS
    <3> QED BY <3>1 DEF FirstOf
  <2>3. SentIn(outflow, P) = 0 /\ BoundIn(bound, P) = 0
    <3>1. PICK f, g : f = [x \in P |-> outflow[x].amount] /\ g = [x \in P |-> bound[x]]
      OBVIOUS
    <3>2. SumFunction(f) = 0 /\ SumFunction(g) = 0
      BY <2>2, <3>1, SumEmpty
    <3> QED BY <3>1, <3>2 DEF SentIn, BoundIn
  <2>4. ASSUME NEW y \in DOMAIN outflow
        PROVE  0 <= LotsBy(lots, y).unstaked /\ 0 <= LotsBy(lots, y).residual
    <3>1. y \in Int
      BY DEF OutflowsOK
    <3>2. LotsBy(lots, y).unstaked \in Nat /\ LotsBy(lots, y).residual \in Nat
      BY <3>1, LotsGrow
    <3> QED BY <3>2
  <2>5. TakenOf(t, lots, outflow, bound, cap, P)
    BY <2>1, <2>3, <2>4 DEF TakenOf, Monus, Lesser
  <2> QED BY <2>1, <2>2, <2>5
<1>5. ASSUME NEW k \in Nat, NEW m \in Nat, k \in T, m = k + 1 PROVE m \in T
  <2>1. SUFFICES ASSUME m <= n PROVE TakenOf(st[m], lots, outflow, bound, cap, FirstOf(ids, m))
    OBVIOUS
  <2>2. k \in 0..n /\ m \in 1..n /\ m \in 0..n /\ TakenOf(st[k], lots, outflow, bound, cap, FirstOf(ids, k))
    BY <1>5, <2>1
  <2>3. PICK x : x = ids[m] /\ x \in DOMAIN outflow
    BY <1>2, <2>2
  <2>4. FirstOf(ids, k) = Earlier(outflow, x) /\ FirstOf(ids, m) = Until(outflow, x)
    BY <1>2, <1>5, <2>2, <2>3
  <2>5. st[m] = ReplayOutflow(lots, bound, st[k], outflow[x])
    BY <1>3, <1>5, <2>2, <2>3 DEF TakingRun
  <2> HIDE DEF T
  <2> QED BY <2>2, <2>3, <2>4, <2>5, NextTaken
<1>6. Nat \subseteq T
  <2> HIDE DEF T
  <2> QED BY <1>4, <1>5, Inductive
<1>7. TakenOf(st[n], lots, outflow, bound, cap, DOMAIN outflow)
  BY <1>2, <1>6
<1>8. taken = st[n]
  BY <1>1, <1>3 DEF TakingRun
<1> QED BY <1>7, <1>8

\* n decisions one after the other, the lots they left, and what their evidence
\* bound of the transfers: of each only between its start and its end.
StoryOK(n, lots, g, credited, start, last, outflow) ==
  /\ DOMAIN lots = 1..n
  /\ \A i \in 1..n :
       /\ lots[i].residual \in Nat /\ lots[i].unstaked \in Nat /\ lots[i].from \in Nat
       /\ start[i] \in Nat /\ last[i] \in Nat /\ credited[i] \in Nat
       /\ lots[i].from <= last[i] /\ (i > 1 => start[i] < lots[i].from)
       /\ g[i] \in [DOMAIN g[i] -> Nat]
       /\ lots[i].residual + lots[i].unstaked + SumFunction(g[i]) = credited[i]
       /\ \A x \in DOMAIN g[i] :
            /\ x \in DOMAIN outflow /\ start[i] < x /\ x <= last[i]
            /\ g[i][x] <= outflow[x].amount
  /\ \A i, j \in 1..n : i < j => last[i] <= start[j]

\* The transfers by id, as the books have them.
SentOK(outflow) ==
  /\ IsFiniteSet(DOMAIN outflow) /\ DOMAIN outflow \subseteq Nat
  /\ \A x \in DOMAIN outflow :
       outflow[x].id = x /\ outflow[x].at = x /\ outflow[x].amount \in Nat

\* A transfer is bound by one decision's evidence at most.
LEMMA BoundByOne ==
  ASSUME NEW n \in Nat, NEW lots, NEW g, NEW credited, NEW start, NEW last, NEW outflow,
         StoryOK(n, lots, g, credited, start, last, outflow), SentOK(outflow),
         NEW bound, bound = [x \in DOMAIN outflow |-> Across(g, 1..n, x)]
  PROVE  OutflowsOK(outflow, bound)
<1>1. ASSUME NEW x \in DOMAIN outflow PROVE Across(g, 1..n, x) \in 0..outflow[x].amount
  <2>1. PICK D, f : D = {j \in 1..n : x \in DOMAIN g[j]} /\ f = [i \in D |-> g[i][x]]
    OBVIOUS
  <2>2. Across(g, 1..n, x) = SumFunction(f)
    BY <2>1 DEF Across
  <2>3. outflow[x].amount \in Nat /\ x \in Nat
    BY DEF SentOK
  <2>4. CASE D = {}
    <3>1. SumFunction(f) = 0
      BY <2>1, <2>4, SumEmpty
    <3> QED BY <2>2, <2>3, <3>1
  <2>5. CASE D # {}
    <3>1. PICK i \in D : TRUE
      BY <2>5
    <3>2. ASSUME NEW j \in D PROVE j = i
      <4>1. i \in 1..n /\ j \in 1..n /\ x \in DOMAIN g[i] /\ x \in DOMAIN g[j]
        BY <2>1, <3>1, <3>2
      <4>2. start[i] < x /\ x <= last[i] /\ start[j] < x /\ x <= last[j]
        BY <4>1 DEF StoryOK
      <4>3. start[i] \in Nat /\ start[j] \in Nat /\ last[i] \in Nat /\ last[j] \in Nat
        BY <4>1 DEF StoryOK
      <4>4. (i < j => last[i] <= start[j]) /\ (j < i => last[j] <= start[i])
        BY <4>1 DEF StoryOK
      <4> QED BY <2>3, <4>1, <4>2, <4>3, <4>4
    <3>3. PICK E, h : E = {} /\ h = [z \in E |-> 0]
      OBVIOUS
    <3>4. Without(E, D, i) /\ h \in [E -> Int] /\ \A y \in E : h[y] = f[y]
      BY <3>1, <3>2, <3>3 DEF Without
    <3>5. i \in 1..n /\ x \in DOMAIN g[i]
      BY <2>1, <3>1
    <3>6. f[i] \in Nat /\ f[i] <= outflow[x].amount
      <4>1. g[i][x] \in Nat /\ g[i][x] <= outflow[x].amount
        BY <3>5 DEF StoryOK
      <4>2. f[i] = g[i][x]
        BY <2>1, <3>1
      <4> QED BY <4>1, <4>2
    <3>7. f \in [D -> Int] /\ IsFiniteSet(D)
      <4>1. IsFiniteSet(D)
        BY <2>1, FS_Interval, FS_Subset
      <4>2. \A j \in D : f[j] \in Int
        BY <3>2, <3>6
      <4> QED BY <2>1, <4>1, <4>2
    <3>8. SumFunction(f) = f[i] + SumFunction(h)
      BY <3>1, <3>4, <3>7, SumSplit
    <3>9. SumFunction(h) = 0
      BY <3>3, SumEmpty
    <3> QED BY <2>2, <2>3, <3>6, <3>8, <3>9
  <2> QED BY <2>4, <2>5
<1> QED BY <1>1 DEF OutflowsOK, SentOK

\* Some decisions' lots hold what they credited, less what their evidence bound.
Unbound(lots, g, credited, L) ==
  /\ SumFunction([i \in L |-> SumFunction(g[i])]) \in Nat
  /\ SumFunction([i \in L |-> credited[i]]) \in Nat
  /\ LotsSum(lots, L).unstaked + LotsSum(lots, L).residual
       = SumFunction([i \in L |-> credited[i]]) - SumFunction([i \in L |-> SumFunction(g[i])])

LEMMA LotsHold ==
  ASSUME NEW n \in Nat, NEW lots, NEW g, NEW credited, NEW start, NEW last, NEW outflow,
         StoryOK(n, lots, g, credited, start, last, outflow), SentOK(outflow),
         NEW L \in SUBSET (1..n)
  PROVE  Unbound(lots, g, credited, L)
<1>1. IsFiniteSet(L)
  <2>1. IsFiniteSet(1..n)
    BY FS_Interval
  <2> QED BY <2>1, FS_Subset
<1>2. PICK r, u, b, c : /\ r = [i \in L |-> lots[i].residual] /\ u = [i \in L |-> lots[i].unstaked]
                        /\ b = [i \in L |-> SumFunction(g[i])] /\ c = [i \in L |-> credited[i]]
  OBVIOUS
<1>3. PICK e : e = [i \in L |-> lots[i].residual + lots[i].unstaked]
  OBVIOUS
<1>4. ASSUME NEW i \in L
      PROVE  /\ r[i] \in Nat /\ u[i] \in Nat /\ b[i] \in Nat /\ c[i] \in Nat /\ e[i] \in Nat
             /\ e[i] = r[i] + u[i] /\ c[i] = e[i] + b[i]
  <2>1. /\ lots[i].residual \in Nat /\ lots[i].unstaked \in Nat /\ credited[i] \in Nat
        /\ lots[i].residual + lots[i].unstaked + SumFunction(g[i]) = credited[i]
        /\ g[i] \in [DOMAIN g[i] -> Nat] /\ DOMAIN g[i] \subseteq DOMAIN outflow
    BY DEF StoryOK
  <2>2. IsFiniteSet(DOMAIN g[i])
    BY <2>1, FS_Subset DEF SentOK
  <2>3. SumFunction(g[i]) \in Nat
    BY <2>1, <2>2, SumNat
  <2> QED BY <1>2, <1>3, <2>1, <2>3
<1>5. r \in [L -> Nat] /\ u \in [L -> Nat] /\ b \in [L -> Nat] /\ c \in [L -> Nat] /\ e \in [L -> Nat]
  BY <1>2, <1>3, <1>4
<1>6. r \in [L -> Int] /\ u \in [L -> Int] /\ b \in [L -> Int] /\ c \in [L -> Int] /\ e \in [L -> Int]
  BY <1>5
<1>7. Adds(r, u, e, L) /\ Adds(e, b, c, L)
  BY <1>4, <1>6 DEF Adds
<1>8. PICK R, U, B, C : R = SumFunction(r) /\ U = SumFunction(u) /\ B = SumFunction(b) /\ C = SumFunction(c)
  OBVIOUS
<1>11. C = R + U + B
  <2>1. SumFunction(e) = SumFunction(r) + SumFunction(u)
    BY <1>1, <1>7, SumAdds
  <2>2. SumFunction(c) = SumFunction(e) + SumFunction(b)
    BY <1>1, <1>7, SumAdds
  <2> QED BY <1>8, <2>1, <2>2
<1>9. /\ SumFunction(r) \in Nat /\ SumFunction(u) \in Nat /\ SumFunction(b) \in Nat
      /\ SumFunction(c) \in Nat
  BY <1>1, <1>5, SumNat
<1>10. LotsSum(lots, L) = [residual |-> SumFunction(r), unstaked |-> SumFunction(u)]
  BY <1>2 DEF LotsSum
<1> QED BY <1>2, <1>8, <1>9, <1>10, <1>11 DEF Unbound

\* Of more transfers no less is left unbound.
LEMMA UnboundGrows ==
  ASSUME NEW outflow, NEW bound, OutflowsOK(outflow, bound), NEW Q \in SUBSET (DOMAIN outflow),
         NEW P \in SUBSET Q
  PROVE  SentIn(outflow, P) - BoundIn(bound, P) <= SentIn(outflow, Q) - BoundIn(bound, Q)
<1>1. ASSUME NEW S \in SUBSET (DOMAIN outflow), NEW f, f = [z \in S |-> outflow[z].amount - bound[z]]
      PROVE  /\ f \in [S -> Nat] /\ IsFiniteSet(S)
             /\ SentIn(outflow, S) \in Nat /\ BoundIn(bound, S) \in Nat
             /\ SentIn(outflow, S) = BoundIn(bound, S) + SumFunction(f)
  <2>1. PICK a, b : a = [z \in S |-> outflow[z].amount] /\ b = [z \in S |-> bound[z]]
    OBVIOUS
  <2>2. IsFiniteSet(S) /\ a \in [S -> Nat] /\ b \in [S -> Nat] /\ SentIn(outflow, S) \in Nat /\ BoundIn(bound, S) \in Nat
    BY <2>1, OutflowSums
  <2>3. \A z \in S : f[z] \in Nat /\ a[z] = b[z] + f[z]
    <3>1. SUFFICES ASSUME NEW z \in S PROVE f[z] \in Nat /\ a[z] = b[z] + f[z]
      OBVIOUS
    <3>2. outflow[z].amount \in Nat /\ bound[z] \in 0..outflow[z].amount
      BY DEF OutflowsOK
    <3> QED BY <1>1, <2>1, <3>2
  <2>4. f \in [S -> Nat]
    BY <1>1, <2>3
  <2>5. Adds(b, f, a, S)
    BY <2>2, <2>3, <2>4 DEF Adds
  <2>6. SumFunction(a) = SumFunction(b) + SumFunction(f)
    BY <2>2, <2>5, SumAdds
  <2> QED BY <2>1, <2>2, <2>4, <2>6 DEF SentIn, BoundIn
<1>2. PICK f, h : /\ f = [z \in Q |-> outflow[z].amount - bound[z]]
                  /\ h = [z \in P |-> outflow[z].amount - bound[z]]
  OBVIOUS
<1>3. P \in SUBSET (DOMAIN outflow)
  OBVIOUS
<1>4. /\ f \in [Q -> Nat] /\ IsFiniteSet(Q) /\ SentIn(outflow, Q) = BoundIn(bound, Q) + SumFunction(f)
      /\ SentIn(outflow, Q) \in Nat /\ BoundIn(bound, Q) \in Nat
  BY <1>1, <1>2
<1>5. /\ h \in [P -> Nat] /\ IsFiniteSet(P) /\ SentIn(outflow, P) = BoundIn(bound, P) + SumFunction(h)
      /\ SentIn(outflow, P) \in Nat /\ BoundIn(bound, P) \in Nat
  BY <1>1, <1>2, <1>3
<1>6. \A z \in P : h[z] = f[z]
  BY <1>2
<1>7. SumFunction(h) <= SumFunction(f) /\ SumFunction(h) \in Nat /\ SumFunction(f) \in Nat
  BY <1>4, <1>5, <1>6, SumPart, SumNat
<1> QED BY <1>4, <1>5, <1>7

\* The last of some ids.
LEMMA LastNat ==
  ASSUME NEW S \in SUBSET Nat, IsFiniteSet(S), S # {}
  PROVE  \E y \in S : \A z \in S : z <= y
<1>1. PICK key : key = [z \in S |-> <<z, 0>>]
  OBVIOUS
<1>2. DOMAIN key = S /\ \A z \in S : key[z] = <<z, 0>> /\ z \in Nat
  BY <1>1
<1>3. Keys(key) /\ IsFiniteSet(DOMAIN key)
  <2>1. key \in [S -> Int \X Int]
    BY <1>1
  <2> QED BY <1>2, <2>1 DEF Keys
<1>4. PICK y \in S : \A z \in S : z # y => Before(key, z, y)
  BY <1>2, <1>3, LastId
<1>5. ASSUME NEW z \in S, z # y PROVE z < y
  <2>1. Before(key, z, y)
    BY <1>4, <1>5
  <2>2. key[z] = <<z, 0>> /\ key[y] = <<y, 0>> /\ z \in Nat /\ y \in Nat
    BY <1>2
  <2> QED BY <2>1, <2>2 DEF Before
<1>6. \A z \in S : z <= y
  BY <1>2, <1>5
<1> QED BY <1>6

\* At every transfer the lots in spot had been credited what was sent by then.
SentInBooks(n, lots, credited, outflow) ==
  \A y \in DOMAIN outflow :
    SentIn(outflow, Until(outflow, y))
      <= SumFunction([i \in {j \in 1..n : lots[j].from <= y} |-> credited[i]])

\* Later evidence may have bound transfers between x and y, but no other lots
\* came in between.
LEMMA Afford ==
  ASSUME NEW n \in Nat, NEW lots, NEW g, NEW credited, NEW start, NEW last, NEW outflow,
         StoryOK(n, lots, g, credited, start, last, outflow), SentOK(outflow),
         NEW bound, bound = [x \in DOMAIN outflow |-> Across(g, 1..n, x)],
         SentInBooks(n, lots, credited, outflow)
  PROVE  Affordable(lots, outflow, bound)
<1>0. OutflowsOK(outflow, bound)
  BY BoundByOne
<1>1. SUFFICES ASSUME NEW x \in DOMAIN outflow
               PROVE  SentIn(outflow, Until(outflow, x)) - BoundIn(bound, Until(outflow, x))
                        <= LotsBy(lots, x).unstaked + LotsBy(lots, x).residual
  BY DEF Affordable
<1>20. IsFiniteSet(1..n)
  BY FS_Interval
<1>2. PICK L : L = {j \in 1..n : lots[j].from <= x} /\ L \in SUBSET (1..n)
  OBVIOUS
<1>3. DOMAIN outflow \subseteq Nat /\ IsFiniteSet(DOMAIN outflow) /\ x \in Nat
  BY DEF SentOK
<1>4. PICK S : S = {z \in DOMAIN outflow : z = x \/ (x < z /\ \E i \in L : z \in DOMAIN g[i])}
  OBVIOUS
<1>5. PICK y \in S : \A z \in S : z <= y
  <2>1. x \in S /\ S \in SUBSET Nat
    BY <1>3, <1>4
  <2>2. IsFiniteSet(S)
    BY <1>3, <1>4, FS_Subset
  <2> QED BY <2>1, <2>2, LastNat
<1>6. y \in DOMAIN outflow /\ y \in Nat /\ x <= y
  BY <1>3, <1>4, <1>5
<1>7. {j \in 1..n : lots[j].from <= y} = L
  <2>1. ASSUME NEW j \in 1..n, lots[j].from <= x PROVE lots[j].from <= y
    <3>1. lots[j].from \in Nat
      BY DEF StoryOK
    <3> QED BY <1>3, <1>6, <2>1, <3>1
  <2>2. ASSUME NEW j \in 1..n, lots[j].from <= y PROVE lots[j].from <= x
    <3>1. CASE y = x
      BY <2>2, <3>1
    <3>2. CASE y # x
      <4>1. PICK i \in L : y \in DOMAIN g[i]
        BY <1>4, <1>5, <3>2
      <4>2. i \in 1..n /\ lots[i].from <= x
        BY <1>2, <4>1
      <4>3. y <= last[i] /\ last[i] \in Nat /\ start[i] \in Nat /\ lots[i].from \in Nat /\ (i > 1 => start[i] < lots[i].from)
        BY <4>1, <4>2 DEF StoryOK
      <4>4. last[j] \in Nat /\ start[j] \in Nat /\ lots[j].from \in Nat /\ (j > 1 => start[j] < lots[j].from)
            /\ lots[j].from <= last[j]
        BY DEF StoryOK
      <4>5. (i < j => last[i] <= start[j]) /\ (j < i => last[j] <= start[i])
        BY <4>2 DEF StoryOK
      <4>6. CASE i = j
        BY <4>2, <4>6
      <4>7. CASE i < j
        <5>1. j > 1 /\ last[i] <= start[j]
          BY <4>2, <4>5, <4>7
        <5> QED BY <1>6, <2>2, <4>3, <4>4, <5>1
      <4>8. CASE j < i
        <5>1. i > 1 /\ last[j] <= start[i]
          BY <4>2, <4>5, <4>8
        <5> QED BY SMTT(60), <1>3, <4>2, <4>3, <4>4, <5>1
      <4> QED BY <4>2, <4>6, <4>7, <4>8
    <3> QED BY <3>1, <3>2
  <2> QED BY <1>2, <2>1, <2>2
<1>8. PICK Z : Z = Until(outflow, y)
  OBVIOUS
<1>9. Z \in SUBSET (DOMAIN outflow) /\ IsFiniteSet(Z) /\ Until(outflow, x) \in SUBSET Z
  <2>1. Z \subseteq DOMAIN outflow
    BY <1>8 DEF Until
  <2>2. \A z \in DOMAIN outflow : z <= x => z <= y
    BY <1>3, <1>6
  <2> QED BY <1>3, <1>8, <2>1, <2>2, FS_Subset DEF Until
<1>10. ASSUME NEW i \in L PROVE DOMAIN g[i] \subseteq Z /\ g[i] \in [DOMAIN g[i] -> Nat]
  <2>1. i \in 1..n
    BY <1>2
  <2>2. g[i] \in [DOMAIN g[i] -> Nat] /\ DOMAIN g[i] \subseteq DOMAIN outflow
    BY <2>1 DEF StoryOK
  <2>3. ASSUME NEW z \in DOMAIN g[i] PROVE z <= y
    <3>1. z \in DOMAIN outflow /\ z \in Nat
      BY <1>3, <2>2
    <3>2. CASE z <= x
      BY <1>3, <1>6, <3>1, <3>2
    <3>3. CASE x < z
      BY <1>4, <1>5, <3>1, <3>3
    <3> QED BY <1>3, <3>1, <3>2, <3>3
  <2> QED BY <1>8, <2>2, <2>3 DEF Until
<1>11. PICK taken : taken = SumFunction([i \in L |-> SumFunction(g[i])])
  OBVIOUS
<1>12. taken <= BoundIn(bound, Z)
  <2>1. PICK a, b : a = [z \in Z |-> Across(g, L, z)] /\ b = [z \in Z |-> bound[z]]
    OBVIOUS
  <2>2. SumFunction(a) = taken
    <3>1. IsFiniteSet(L)
      BY <1>2, <1>20, FS_Subset
    <3>2. Within(g, L, Z)
      BY <1>10 DEF Within
    <3>3. SumFunction([z \in Z |-> Across(g, L, z)]) = SumFunction([i \in L |-> SumFunction(g[i])])
      BY SMTT(60), <1>9, <3>1, <3>2, SumAcross
    <3> QED BY <1>11, <2>1, <3>3
  <2>3. ASSUME NEW z \in Z PROVE a[z] \in Nat /\ b[z] \in Nat /\ a[z] <= b[z]
    <3>1. PICK D, E : D = {j \in 1..n : z \in DOMAIN g[j]} /\ E = {j \in L : z \in DOMAIN g[j]}
      OBVIOUS
    <3>2. PICK f, h : f = [i \in D |-> g[i][z]] /\ h = [i \in E |-> g[i][z]]
      OBVIOUS
    <3>3. E \in SUBSET D /\ IsFiniteSet(D) /\ IsFiniteSet(E)
      <4>1. E \in SUBSET D
        BY <1>2, <3>1
      <4> QED BY <1>20, <3>1, <4>1, FS_Subset
    <3>4. \A i \in D : g[i][z] \in Nat
      BY <3>1 DEF StoryOK
    <3>5. f \in [D -> Nat] /\ h \in [E -> Nat] /\ \A i \in E : h[i] = f[i]
      BY <3>2, <3>3, <3>4
    <3>6. SumFunction(h) <= SumFunction(f) /\ SumFunction(h) \in Nat /\ SumFunction(f) \in Nat
      BY <3>3, <3>5, SumPart, SumNat
    <3>7. a[z] = SumFunction(h)
      BY <2>1, <3>1, <3>2 DEF Across
    <3>8. b[z] = SumFunction(f)
      <4>1. b[z] = Across(g, 1..n, z)
        BY <1>9, <2>1
      <4> QED BY <3>1, <3>2, <4>1 DEF Across
    <3> QED BY <3>6, <3>7, <3>8
  <2>4. a \in [Z -> Int] /\ b \in [Z -> Int] /\ \A z \in Z : a[z] <= b[z]
    BY <2>1, <2>3
  <2>5. SumFunction(a) <= SumFunction(b)
    BY <1>9, <2>4, SumMonotone
  <2> QED BY <2>1, <2>2, <2>5 DEF BoundIn
<1>13. PICK C : C = SumFunction([i \in L |-> credited[i]])
  OBVIOUS
<1>14. SentIn(outflow, Z) <= C
  BY <1>6, <1>7, <1>8, <1>13 DEF SentInBooks
<1>15. PICK in : in = LotsBy(lots, x)
  OBVIOUS
<1>16. in.unstaked + in.residual = C - taken /\ C \in Nat /\ taken \in Nat
  <2>1. in = LotsSum(lots, L)
    BY <1>2, <1>15 DEF LotsBy, StoryOK
  <2>2. Unbound(lots, g, credited, L)
    BY <1>2, LotsHold
  <2> QED BY <1>11, <1>13, <2>1, <2>2 DEF Unbound
<1>17. SentIn(outflow, Until(outflow, x)) - BoundIn(bound, Until(outflow, x)) <= SentIn(outflow, Z) - BoundIn(bound, Z)
  BY <1>0, <1>9, UnboundGrows
<1>18. /\ SentIn(outflow, Z) \in Nat /\ BoundIn(bound, Z) \in Nat
       /\ SentIn(outflow, Until(outflow, x)) \in Nat /\ BoundIn(bound, Until(outflow, x)) \in Nat
  <2>1. Until(outflow, x) \in SUBSET (DOMAIN outflow)
    BY DEF Until
  <2> QED BY <1>0, <1>9, <2>1, OutflowSums
<1> QED BY <1>12, <1>14, <1>15, <1>16, <1>17, <1>18

LEMMA Balance ==
  ASSUME NEW tu \in Int, NEW tr \in Int, NEW iu \in Int, NEW ir \in Int, NEW all \in Int,
         NEW b \in Int, NEW k \in Int, tu + tr = k - b, iu + ir = all - b
  PROVE  iu + ir - tu - tr = all - k
OBVIOUS

\* History expects what was credited, less what was sent within the cap: what
\* evidence bound is neither counted twice nor forgotten.
LEMMA ReplayExact ==
  ASSUME NEW n \in Nat, NEW lots, NEW g, NEW credited, NEW start, NEW last, NEW outflow,
         StoryOK(n, lots, g, credited, start, last, outflow), SentOK(outflow),
         NEW bound, bound = [x \in DOMAIN outflow |-> Across(g, 1..n, x)],
         SentInBooks(n, lots, credited, outflow),
         NEW cap \in Nat, Fits(outflow, bound, cap),
         NEW all, all = SumFunction([i \in 1..n |-> credited[i]]),
         NEW sent, sent = SentIn(outflow, DOMAIN outflow)
  PROVE  /\ Replay(lots, outflow, bound, cap).expected = all - Lesser(sent, cap)
         /\ all \in Nat /\ sent \in Nat
<1>1. OutflowsOK(outflow, bound)
  BY BoundByOne
<1>2. Affordable(lots, outflow, bound)
  BY Afford
<1>3. IsFiniteSet(1..n)
  BY FS_Interval
<1>4. LotsOK(lots) /\ \A i \in DOMAIN lots : lots[i].from \in Int
  BY <1>3 DEF LotsOK, StoryOK
<1>5. PICK key : key = [x \in DOMAIN outflow |-> <<outflow[x].at, 0>>]
  OBVIOUS
<1>6. PICK taken : taken = TakenBy(lots, outflow, bound, cap, InOrder(key))
  OBVIOUS
<1>7. TakenOf(taken, lots, outflow, bound, cap, DOMAIN outflow)
  BY <1>1, <1>2, <1>4, <1>5, <1>6, ReplayTakes
<1>8. PICK b : b = BoundIn(bound, DOMAIN outflow)
  OBVIOUS
<1>9. sent \in Nat /\ b \in Nat
  <2>1. DOMAIN outflow \in SUBSET (DOMAIN outflow)
    OBVIOUS
  <2> QED BY <1>1, <1>8, <2>1, OutflowSums
<1>10. taken.unstaked \in Nat /\ taken.residual \in Nat /\ taken.unstaked + taken.residual = Lesser(sent, cap) - b
  BY <1>7, <1>8 DEF TakenOf
<1>11. b = SumFunction([i \in 1..n |-> SumFunction(g[i])])
  <2>1. PICK Z : Z = DOMAIN outflow /\ IsFiniteSet(Z)
    BY DEF SentOK
  <2>2. Within(g, 1..n, Z)
    BY <2>1 DEF Within, StoryOK
  <2>3. SumFunction([z \in Z |-> Across(g, 1..n, z)]) = SumFunction([i \in 1..n |-> SumFunction(g[i])])
    BY SMTT(60), <1>3, <2>1, <2>2, SumAcross
  <2>4. b = SumFunction([z \in Z |-> Across(g, 1..n, z)])
    <3>1. [z \in Z |-> bound[z]] = [z \in Z |-> Across(g, 1..n, z)]
      BY <2>1
    <3> QED BY <1>8, <2>1, <3>1 DEF BoundIn
  <2> QED BY <2>3, <2>4
<1>12. PICK in : in = LotsSum(lots, DOMAIN lots)
  OBVIOUS
<1>13. in.residual \in Nat /\ in.unstaked \in Nat /\ in.unstaked + in.residual = all - b /\ all \in Nat
  <2>1. PICK L : L = 1..n /\ L \in SUBSET (1..n)
    OBVIOUS
  <2>2. Unbound(lots, g, credited, L)
    BY <2>1, LotsHold
  <2>3. DOMAIN lots = L
    BY <2>1 DEF StoryOK
  <2>4. in = LotsSum(lots, L) /\ in.residual \in Nat /\ in.unstaked \in Nat
    BY <1>4, <1>12, <2>3, LotsType
  <2>5. all = SumFunction([i \in L |-> credited[i]]) /\ b = SumFunction([i \in L |-> SumFunction(g[i])])
    BY <1>11, <2>1
  <2> QED BY <2>2, <2>4, <2>5 DEF Unbound
<1>14. PICK e : /\ e = Replay(lots, outflow, bound, cap).expected
                /\ e = in.unstaked + in.residual - taken.unstaked - taken.residual
  BY <1>5, <1>6, <1>12 DEF Replay
<1>15. PICK k \in Int : k = Lesser(sent, cap)
  BY <1>9 DEF Lesser
<1>16. e = all - k
  <2>1. PICK tu, tr \in Nat : tu = taken.unstaked /\ tr = taken.residual
    BY <1>10
  <2>2. PICK iu, ir \in Nat : iu = in.unstaked /\ ir = in.residual
    BY <1>13
  <2>3. tu + tr = k - b /\ iu + ir = all - b /\ e = iu + ir - tu - tr
    BY <1>10, <1>13, <1>14, <1>15, <2>1, <2>2
  <2>4. tu \in Int /\ tr \in Int /\ iu \in Int /\ ir \in Int /\ all \in Int /\ b \in Int /\ k \in Int
    BY SMTT(60), <1>9, <1>13, <1>15, <2>1, <2>2
  <2>5. iu + ir - tu - tr = all - k
    <3>1. tu + tr = k - b
      BY <2>3
    <3>2. iu + ir = all - b
      BY <2>3
    <3> QED BY <2>4, <3>1, <3>2, Balance
  <2>6. e = iu + ir - tu - tr
    BY <2>3
  <2> QED BY <2>5, <2>6
<1> QED BY <1>9, <1>13, <1>14, <1>15, <1>16

\* The transfers of a set, by id.
OutOK(C) ==
  /\ IsFiniteSet(C)
  /\ \A m \in C : MoveOK(m) /\ m.dir = "out"
  /\ \A m, v \in C : m.id = v.id => m = v

ById(C) == [id \in {o.id : o \in C} |-> OfId(C, id)]

LEMMA ByIdOK ==
  ASSUME NEW C, OutOK(C), NEW outflow, outflow = ById(C)
  PROVE  /\ SentOK(outflow)
         /\ \A o \in C : o.id \in DOMAIN outflow /\ outflow[o.id] = o
         /\ \A x \in DOMAIN outflow : outflow[x] \in C /\ outflow[x].id = x
<1>1. PICK ids : ids = {o.id : o \in C}
  OBVIOUS
<1>2. DOMAIN outflow = ids
  BY <1>1 DEF ById
<1>3. ASSUME NEW x \in ids PROVE outflow[x] \in C /\ outflow[x].id = x
  <2>1. \E o \in C : o.id = x
    BY <1>1
  <2>2. outflow[x] = OfId(C, x)
    BY <1>1 DEF ById
  <2> QED BY <2>1, <2>2, OfIdIs
<1>4. ASSUME NEW o \in C PROVE o.id \in ids /\ outflow[o.id] = o
  <2>1. o.id \in ids
    BY <1>1
  <2> QED BY <1>3, <2>1 DEF OutOK
<1>5. \A x \in ids : x \in Nat /\ outflow[x].id = x /\ outflow[x].at = x /\ outflow[x].amount \in Nat
  BY <1>3 DEF OutOK, MoveOK
<1>6. IsFiniteSet(ids)
  <2>1. PICK f : f = [o \in C |-> o.id]
    OBVIOUS
  <2>2. f \in Surjection(C, ids)
    BY <1>1, <2>1 DEF Surjection
  <2> QED BY <2>2, FS_Surjection DEF OutOK
<1> QED BY <1>2, <1>3, <1>4, <1>5, <1>6 DEF SentOK

\* Summed by id or one by one.
LEMMA SentIs ==
  ASSUME NEW C, OutOK(C), NEW outflow, outflow = ById(C), NEW S, S \subseteq C,
         NEW P, P = {o.id : o \in S}
  PROVE  SentIn(outflow, P) = SumOf(S, "out")
<1>1. /\ \A o \in C : o.id \in DOMAIN outflow /\ outflow[o.id] = o
      /\ \A o \in C : MoveOK(o) /\ o.dir = "out"
      /\ \A m, v \in C : m.id = v.id => m = v
  BY ByIdOK DEF OutOK
<1>2. {v \in S : v.dir = "out"} = S
  BY <1>1
<1>3. PICK h, f, p : /\ h = [m \in S |-> m.amount] /\ f = [x \in P |-> outflow[x].amount]
                     /\ p = [m \in S |-> m.id]
  OBVIOUS
<1>4. IsFiniteSet(S)
  BY FS_Subset DEF OutOK
<1>5. Pairs(p, S, P)
  BY <1>1, <1>3 DEF Pairs
<1>6. ASSUME NEW m \in S PROVE m.amount \in Int /\ h[m] = f[p[m]] /\ m.id \in P
  BY <1>1, <1>3 DEF MoveOK
<1>7. h \in [S -> Int]
  BY <1>3, <1>6
<1>8. f \in [P -> Int]
  <2>1. \A x \in P : outflow[x].amount \in Int
    <3>1. SUFFICES ASSUME NEW x \in P PROVE outflow[x].amount \in Int
      OBVIOUS
    <3>2. PICK o \in S : o.id = x
      OBVIOUS
    <3>3. outflow[x] = o
      BY <1>1, <3>2
    <3> QED BY <1>6, <3>3
  <2> QED BY <1>3, <2>1
<1>9. SumFunction(h) = SumFunction(f)
  <2>1. \A m \in S : h[m] = f[p[m]]
    BY <1>6
  <2> QED BY <1>4, <1>5, <1>7, <1>8, <2>1, SumReindex
<1> QED BY <1>2, <1>3, <1>9 DEF SentIn, SumOf

\* What a finished decision left, without staking.
LEMMA DayStory ==
  ASSUME NEW d, DayOK(d), NEW i \in Nat, NEW t \in Nat, NEW ms, Dated(d, i, t, ms), d.w.stage = "complete",
         NEW lot, lot = Lot(d.w)
  PROVE  /\ lot.residual \in Nat /\ lot.unstaked \in Nat /\ lot.from \in Nat
         /\ d.b.decided \in Nat /\ d.w.last \in Nat /\ d.w.credited \in Nat
         /\ lot.from <= d.w.last /\ (i > 1 => d.b.decided < lot.from)
         /\ d.w.bound \in [DOMAIN d.w.bound -> Nat]
         /\ lot.residual + lot.unstaked + SumFunction(d.w.bound) = d.w.credited
<1>1. PICK w, b : w = d.w /\ b = d.b
  OBVIOUS
<1>2. "complete" \in OrderFinal /\ "complete" # "order_finalized"
  BY DEF OrderFinal
<1>3. /\ ~b.staking /\ b.decided \in Nat /\ w.last \in Nat /\ w.lastFill \in 0..w.last /\ w.basis # <<>>
      /\ i > 1 => (w.lastFill = 0 \/ b.decided < w.lastFill) /\ b.decided < w.last
  <2>1. w.stage \in OrderFinal /\ w.stage \in OrderFinal \ {"order_finalized"}
    BY <1>1, <1>2
  <2> QED BY <1>1, <2>1 DEF Dated
<1>4. FlowOK(w, b)
  BY <1>1 DEF DayOK
<1>5. /\ w.credited \in Nat /\ w.residual \in Nat /\ w.eligible \in Nat
      /\ w.residual + w.eligible = w.credited
  BY <1>3, <1>4 DEF FlowOK, SplitOK
<1>6. /\ w.bound \in [DOMAIN w.bound -> Nat] /\ Consumed(w) \in Nat /\ Consumed(w) <= w.residual
  BY <1>3, <1>4 DEF FlowOK, BoundOK
<1>7. w.delegated = 0
  BY <1>3, <1>4 DEF FlowOK, StakeOK
<1>8. PICK s : s = [residual |-> Monus(w.residual, Consumed(w)), eligible |-> w.eligible]
  OBVIOUS
<1>9. TerminalSplit(w)[1] = s
  BY <1>1, <1>8 DEF TerminalSplit
<1>10. PICK f, u : /\ f = IF w.lastFill > 0 THEN w.lastFill ELSE w.last
                   /\ u = IF w.delegated >= s.eligible THEN 0 ELSE s.eligible
  OBVIOUS
<1>11. lot = [from |-> f, residual |-> s.residual, unstaked |-> u]
  BY <1>1, <1>9, <1>10 DEF Lot
<1>12. u = w.eligible
  BY <1>5, <1>7, <1>8, <1>10
<1>13. s.residual = w.residual - Consumed(w)
  BY <1>5, <1>6, <1>8 DEF Monus
<1>14. f \in Nat /\ f <= w.last /\ (i > 1 => b.decided < f)
  BY <1>3, <1>10
<1>15. lot.from = f /\ lot.residual = w.residual - Consumed(w) /\ lot.unstaked = w.eligible
  BY <1>11, <1>12, <1>13
<1>16. Consumed(w) = SumFunction(w.bound)
  BY DEF Consumed
<1>17. lot.residual \in Nat /\ lot.residual + lot.unstaked + Consumed(w) = w.credited
  BY <1>5, <1>6, <1>15
<1> QED BY <1>1, <1>3, <1>5, <1>6, <1>14, <1>15, <1>16, <1>17

\* With the books complete the finished decisions are such a story.
LEMMA SettledOut ==
  ASSUME HoldingsInv, Settled, NEW C, C = CustodianOutflows(recorded)
  PROVE  OutOK(C) /\ C = CustodianOutflows(moves)
<1>1. C = CustodianOutflows(moves) /\ C \subseteq moves
  BY DEF Settled, CustodianOutflows, ToCustodian
<1>2. IsFiniteSet(C)
  BY <1>1, FS_Subset DEF HoldingsInv, MovesOK
<1>3. \A m \in C : MoveOK(m) /\ m.dir = "out"
  BY <1>1 DEF HoldingsInv, MovesOK, CustodianOutflows, ToCustodian
<1>4. \A m, v \in C : m.id = v.id => m = v
  BY <1>1 DEF HoldingsInv, MovesOK
<1> QED BY <1>1, <1>2, <1>3, <1>4 DEF OutOK

LEMMA SettledStory ==
  ASSUME HoldingsInv, Chronicle, Settled, NEW n \in Nat, n = Len(days),
         NEW outflow, outflow = ById(CustodianOutflows(recorded)),
         NEW lots, lots = [i \in 1..n |-> Lot(days[i].w)],
         NEW g, g = [i \in 1..n |-> days[i].w.bound],
         NEW credited, credited = [i \in 1..n |-> days[i].w.credited],
         NEW start, start = [i \in 1..n |-> days[i].b.decided],
         NEW last, last = [i \in 1..n |-> days[i].w.last]
  PROVE  StoryOK(n, lots, g, credited, start, last, outflow)
<1>1. PICK C : C = CustodianOutflows(recorded)
  OBVIOUS
<1>2. OutOK(C) /\ C = CustodianOutflows(moves)
  BY <1>1, SettledOut
<1>3. /\ \A o \in C : o.id \in DOMAIN outflow /\ outflow[o.id] = o
  BY <1>1, <1>2, ByIdOK
<1>4. DOMAIN days = 1..n
  BY DEF HoldingsInv, DaysOK
<1>5. Account /\ now \in Nat
  BY DEF Settled, HoldingsInv
<1>6. ASSUME NEW i \in 1..n
      PROVE  /\ lots[i].residual \in Nat /\ lots[i].unstaked \in Nat /\ lots[i].from \in Nat
             /\ start[i] \in Nat /\ last[i] \in Nat /\ credited[i] \in Nat
             /\ lots[i].from <= last[i] /\ (i > 1 => start[i] < lots[i].from)
             /\ g[i] \in [DOMAIN g[i] -> Nat]
             /\ lots[i].residual + lots[i].unstaked + SumFunction(g[i]) = credited[i]
             /\ \A x \in DOMAIN g[i] :
                  /\ x \in DOMAIN outflow /\ start[i] < x /\ x <= last[i]
                  /\ g[i][x] <= outflow[x].amount
  <2>1. PICK d : d = days[i]
    OBVIOUS
  <2>2. DayOK(d) /\ d.w.stage = "complete" /\ Dated(d, i, now, moves)
    BY <1>4, <1>5, <2>1 DEF HoldingsInv, DaysOK, Settled, Chronicle
  <2>3. PICK lot : lot = Lot(d.w)
    OBVIOUS
  <2>4. /\ lot.residual \in Nat /\ lot.unstaked \in Nat /\ lot.from \in Nat
        /\ d.b.decided \in Nat /\ d.w.last \in Nat /\ d.w.credited \in Nat
        /\ lot.from <= d.w.last /\ (i > 1 => d.b.decided < lot.from)
        /\ d.w.bound \in [DOMAIN d.w.bound -> Nat]
        /\ lot.residual + lot.unstaked + SumFunction(d.w.bound) = d.w.credited
    <3>1. i \in Nat
      OBVIOUS
    <3> QED BY <1>5, <2>2, <2>3, <3>1, DayStory
  <2>5. /\ lots[i] = lot /\ g[i] = d.w.bound /\ credited[i] = d.w.credited
        /\ start[i] = d.b.decided /\ last[i] = d.w.last
    BY <2>1, <2>3
  <2>6. ASSUME NEW x \in DOMAIN d.w.bound
        PROVE  /\ x \in DOMAIN outflow /\ d.b.decided < x /\ x <= d.w.last
               /\ d.w.bound[x] <= outflow[x].amount
    <3>1. BoundWithin(d, moves)
      BY <2>2 DEF Dated
    <3>2. x \in d.b.decided + 1 .. d.w.last
      BY <3>1 DEF BoundWithin
    <3>3. PICK m \in CustodianOutflows(moves) : m.id = x /\ d.w.bound[x] <= m.amount
      BY <3>1 DEF BoundWithin
    <3>4. x \in DOMAIN outflow /\ outflow[x] = m
      BY <1>2, <1>3, <3>3
    <3> QED BY <2>4, <3>2, <3>3, <3>4
  <2> QED BY <2>4, <2>5, <2>6
<1>7. ASSUME NEW i \in 1..n, NEW j \in 1..n, i < j PROVE last[i] <= start[j]
  <2>1. days[i].w.last <= days[j].b.decided
    BY <1>4, <1>5, <1>7 DEF Chronicle, OneByOne
  <2> QED BY <2>1
<1>8. DOMAIN lots = 1..n
  OBVIOUS
<1> QED BY <1>6, <1>7, <1>8 DEF StoryOK

\* With the books complete, history expects what was credited less what the
\* custodian got of it.
LEMMA SettledExpects ==
  ASSUME HoldingsInv, Chronicle, Settled, Covered, BoundWithinCap,
         NEW cap \in Nat, cap = CustodianCredit(Books),
         NEW e, e = Expectation(Flows, CustodianOutflows(recorded), cap),
         NEW sent, sent = SumOf(CustodianOutflows(recorded), "out")
  PROVE  e.expected = Credited - Lesser(sent, cap) /\ sent \in Nat
<1>1. PICK C : C = CustodianOutflows(recorded)
  OBVIOUS
<1>2. OutOK(C) /\ C = CustodianOutflows(moves)
  BY <1>1, SettledOut
<1>3. PICK outflow : outflow = ById(C)
  OBVIOUS
<1>4. /\ SentOK(outflow)
      /\ \A o \in C : o.id \in DOMAIN outflow /\ outflow[o.id] = o
      /\ \A x \in DOMAIN outflow : outflow[x] \in C /\ outflow[x].id = x
  BY <1>2, <1>3, ByIdOK
<1>5. PICK n \in Nat : n = Len(days) /\ DOMAIN days = 1..n
  BY DEF HoldingsInv, DaysOK
<1>6. PICK lots, g, credited, start, last :
        /\ lots = [i \in 1..n |-> Lot(days[i].w)] /\ g = [i \in 1..n |-> days[i].w.bound]
        /\ credited = [i \in 1..n |-> days[i].w.credited]
        /\ start = [i \in 1..n |-> days[i].b.decided] /\ last = [i \in 1..n |-> days[i].w.last]
  OBVIOUS
<1>7. StoryOK(n, lots, g, credited, start, last, outflow)
  BY <1>1, <1>3, <1>5, <1>6, SettledStory
<1>8. PICK bound : bound = [x \in DOMAIN outflow |-> Across(g, 1..n, x)]
  OBVIOUS
<1>9. PICK flows : flows = Flows /\ DOMAIN flows = 1..n /\ \A i \in 1..n : flows[i] = days[i].w
  BY <1>5 DEF Flows
<1>10. \A x \in DOMAIN outflow : bound[x] = BoundOf(flows, x)
  <2>1. SUFFICES ASSUME NEW x \in DOMAIN outflow PROVE bound[x] = BoundOf(flows, x)
    OBVIOUS
  <2>2. PICK D, E : D = {j \in 1..n : x \in DOMAIN g[j]} /\ E = {j \in DOMAIN flows : x \in DOMAIN flows[j].bound}
    OBVIOUS
  <2>3. D = E /\ \A i \in D : g[i][x] = flows[i].bound[x]
    BY <1>6, <1>9, <2>2
  <2>4. [i \in D |-> g[i][x]] = [i \in E |-> flows[i].bound[x]]
    BY <2>3
  <2> QED BY <1>8, <2>2, <2>4 DEF Across, BoundOf
<1>11. \A x \in DOMAIN outflow : Until(outflow, x) = {o.id : o \in {m \in C : m.at <= x}}
  <2>1. SUFFICES ASSUME NEW x \in DOMAIN outflow
                 PROVE  Until(outflow, x) = {o.id : o \in {m \in C : m.at <= x}}
    OBVIOUS
  <2>2. \A o \in C : o.at = o.id
    BY <1>2 DEF OutOK, MoveOK
  <2> QED BY <1>4, <2>2 DEF Until
<1>12. \A x \in DOMAIN outflow : Earlier(outflow, x) = {o.id : o \in {m \in C : m.at < x}}
  <2>1. SUFFICES ASSUME NEW x \in DOMAIN outflow
                 PROVE  Earlier(outflow, x) = {o.id : o \in {m \in C : m.at < x}}
    OBVIOUS
  <2>2. \A o \in C : o.at = o.id
    BY <1>2 DEF OutOK, MoveOK
  <2> QED BY <1>4, <2>2 DEF Earlier
<1>13. SentInBooks(n, lots, credited, outflow)
  <2>1. SUFFICES ASSUME NEW y \in DOMAIN outflow
                 PROVE  SentIn(outflow, Until(outflow, y))
                          <= SumFunction([i \in {j \in 1..n : lots[j].from <= y} |-> credited[i]])
    BY DEF SentInBooks
  <2>2. PICK o : o = outflow[y] /\ o \in C /\ o.id = y /\ o.at = y
    BY <1>2, <1>4 DEF OutOK, MoveOK
  <2>3. SentIn(outflow, Until(outflow, y)) = SumOf({m \in C : m.at <= y}, "out")
    <3>1. {m \in C : m.at <= y} \subseteq C
      OBVIOUS
    <3> QED BY <1>2, <1>3, <1>11, <3>1, SentIs
  <2>4. PICK D, E : /\ D = {j \in 1..n : lots[j].from <= y}
                    /\ E = {j \in DOMAIN days : Lot(days[j].w).from <= y}
    OBVIOUS
  <2>5. D = E /\ \A i \in D : credited[i] = days[i].w.credited
    BY <1>5, <1>6, <2>4
  <2>6. [i \in D |-> credited[i]] = [i \in E |-> days[i].w.credited]
    BY <2>5
  <2>7. SumOf({m \in C : m.at <= y}, "out") <= SumFunction([i \in E |-> days[i].w.credited])
    BY <1>2, <2>2, <2>4 DEF Covered
  <2> QED BY <2>3, <2>4, <2>6, <2>7
<1>14. Fits(outflow, bound, cap)
  <2>1. SUFFICES ASSUME NEW x \in DOMAIN outflow, bound[x] > 0
                 PROVE  SentIn(outflow, Earlier(outflow, x)) + bound[x] <= cap
    BY DEF Fits
  <2>2. PICK o : o = outflow[x] /\ o \in C /\ o.id = x /\ o.at = x
    BY <1>2, <1>4 DEF OutOK, MoveOK
  <2>3. SentIn(outflow, Earlier(outflow, x)) = SumOf({m \in C : m.at < x}, "out")
    <3>1. {m \in C : m.at < x} \subseteq C
      OBVIOUS
    <3> QED BY <1>2, <1>3, <1>12, <3>1, SentIs
  <2>4. bound[x] = BoundOf(Flows, x)
    BY <1>9, <1>10
  <2>5. SumOf({m \in C : m.at < x}, "out") + BoundOf(Flows, x) <= cap
    BY <1>2, <2>1, <2>2, <2>4 DEF BoundWithinCap
  <2> QED BY <2>3, <2>4, <2>5
<1>15. sent = SentIn(outflow, DOMAIN outflow)
  <2>1. DOMAIN outflow = {o.id : o \in C}
    BY <1>3 DEF ById
  <2> QED BY <1>1, <1>2, <1>3, <2>1, SentIs
<1>16. PICK all : all = SumFunction([i \in 1..n |-> credited[i]])
  OBVIOUS
<1>17. PICK r : r = Replay(lots, outflow, bound, cap)
  OBVIOUS
<1>18. r.expected = all - Lesser(sent, cap) /\ all \in Nat /\ sent \in Nat
  BY <1>4, <1>7, <1>8, <1>13, <1>14, <1>15, <1>16, <1>17, ReplayExact
<1>19. e = r
  <2>1. PICK ids : ids = {o.id : o \in C}
    OBVIOUS
  <2>2. outflow = [id \in ids |-> CHOOSE o \in C : o.id = id] /\ DOMAIN outflow = ids
    BY <1>3, <2>1 DEF ById, OfId
  <2>3. bound = [id \in ids |-> BoundOf(flows, id)]
    BY <1>8, <1>10, <2>2
  <2>4. lots = [i \in DOMAIN flows |-> Lot(flows[i])]
    BY <1>6, <1>9
  <2>5. Expectation(flows, C, cap) = Replay(lots, outflow, bound, cap)
    BY <2>1, <2>2, <2>3, <2>4 DEF Expectation
  <2> QED BY <1>1, <1>9, <1>17, <2>5
<1>20. all = Credited
  <2>1. PICK D : D = {j \in DOMAIN days : days[j].row # <<>>}
    OBVIOUS
  <2>2. D = 1..n
    BY <1>5, <2>1 DEF Settled
  <2>3. \A i \in 1..n : days[i].row[1] = credited[i]
    <3>1. SUFFICES ASSUME NEW i \in 1..n PROVE days[i].row[1] = credited[i]
      OBVIOUS
    <3>2. days[i].row # <<>> /\ Dated(days[i], i, now, moves)
      BY <1>5 DEF Settled, Chronicle
    <3>3. days[i].row[1] = days[i].w.credited
      BY <3>2 DEF Dated
    <3> QED BY <1>6, <3>3
  <2>4. [i \in D |-> days[i].row[1]] = [i \in 1..n |-> credited[i]]
    BY <2>2, <2>3
  <2> QED BY <1>16, <2>1, <2>4 DEF Credited
<1> QED BY <1>18, <1>19, <1>20

\* With the books complete, what was bought is what they credit.
LEMMA SettledBought ==
  ASSUME HoldingsInv, Chronicle, Settled
  PROVE  BoughtBy(now) = Credited /\ Complete
<1>1. PICK D, E : /\ D = {j \in DOMAIN days : days[j].bought # <<>> /\ days[j].bought[1].at <= now}
                  /\ E = {j \in DOMAIN days : days[j].row # <<>>}
  OBVIOUS
<1>2. ASSUME NEW i \in DOMAIN days
      PROVE  /\ days[i].bought # <<>> /\ days[i].bought[1].at <= now
             /\ days[i].row # <<>> /\ days[i].bought[1].credited = days[i].row[1]
  <2>1. days[i].w.stage = "complete" /\ days[i].row # <<>> /\ Dated(days[i], i, now, moves)
    BY DEF Settled, Chronicle
  <2>2. days[i].w.stage \in OrderFinal
    BY <2>1 DEF OrderFinal
  <2>3. /\ days[i].bought # <<>> /\ days[i].bought[1].credited = days[i].w.credited
        /\ days[i].row[1] = days[i].w.credited
        /\ days[i].bought[1].at \in days[i].b.decided..now
    BY <2>1, <2>2 DEF Dated
  <2> QED BY <2>1, <2>3
<1>3. D = E /\ \A i \in D : days[i].bought[1].credited = days[i].row[1]
  BY <1>1, <1>2
<1>4. [i \in D |-> days[i].bought[1].credited] = [i \in E |-> days[i].row[1]]
  BY <1>3
<1>5. BoughtBy(now) = Credited
  BY <1>1, <1>4 DEF BoughtBy, Credited
<1>6. Complete
  BY <1>2 DEF Complete, Missing
<1> QED BY <1>5, <1>6

\* What left to the custodian is a part of what left.
LEMMA CustodianPart ==
  ASSUME MovesOK, NEW R, RowsOK(R)
  PROVE  /\ SumOf(CustodianOutflows(R), "out") \in Nat /\ SumOf(R, "out") \in Nat
         /\ SumOf(CustodianOutflows(R), "out") <= SumOf(R, "out")
<1>1. PICK D, E : /\ D = {v \in R : v.dir = "out"}
                  /\ E = {v \in CustodianOutflows(R) : v.dir = "out"}
  OBVIOUS
<1>2. PICK f, h : f = [m \in D |-> m.amount] /\ h = [m \in E |-> m.amount]
  OBVIOUS
<1>3. E \in SUBSET D
  BY <1>1 DEF CustodianOutflows
<1>4. IsFiniteSet(D)
  BY <1>1, FS_Subset DEF RowsOK
<1>5. f \in [D -> Nat] /\ h \in [E -> Nat] /\ \A x \in E : h[x] = f[x]
  <2>1. \A m \in D : m.amount \in Nat
    BY <1>1, RowsTyped DEF MoveOK
  <2> QED BY <1>2, <1>3, <2>1
<1>6. SumFunction(h) <= SumFunction(f)
  BY <1>3, <1>4, <1>5, SumPart
<1>7. SumOf(R, "out") = SumFunction(f) /\ SumOf(CustodianOutflows(R), "out") = SumFunction(h)
  BY <1>1, <1>2 DEF SumOf
<1>8. SumFunction(f) \in Nat /\ SumFunction(h) \in Nat
  <2>1. IsFiniteSet(E)
    BY <1>3, <1>4, FS_Subset
  <2> QED BY <1>4, <1>5, <2>1, SumNat
<1> QED BY <1>6, <1>7, <1>8

\* With the books complete the replay answers "gap" exactly when more HYPE
\* strayed than other holdings explain, whatever the decisions' evidence bound
\* of the transfers and however purchases and transfers followed each other.
THEOREM HistoryHolds == Spec => []HistoryExact
<1>1. ASSUME HoldingsInv, Chronicle PROVE HistoryExact
  <2>1. PICK in, out, cust, sold, credit :
          /\ in = SumOf(recorded, "in") /\ out = SumOf(recorded, "out")
          /\ cust = SumOf(CustodianOutflows(recorded), "out")
          /\ sold = SumOf(moves, "sale") /\ credit = Credited
    OBVIOUS
  <2>2. PICK ok : ok = Complete /\ ok \in BOOLEAN
    BY DEF Complete
  <2>3. PICK books : books = Books
    OBVIOUS
  <2>4. books = [credited |-> credit, complete |-> ok, inflow |-> in, outflow |-> out,
                 custodian |-> cust]
    BY <2>1, <2>2, <2>3 DEF Books, Attributed
  <2>5. SUFFICES ASSUME Settled, Covered, BoundWithinCap, Monus(out, in) <= credit
                 PROVE  History.answer = "gap"
                          <=> sold + out - cust > terms.foreign + Monus(in, cust)
    BY <2>1, <2>3, <2>4 DEF HistoryExact, Strayed, Foreign
  <2>6. /\ in \in Nat /\ out \in Nat /\ cust \in Nat /\ sold \in Nat /\ credit \in Nat
        /\ cust <= out
    <3>1. MovesOK /\ RowsOK(recorded) /\ DaysOK
      BY <1>1 DEF HoldingsInv, LedgerOK
    <3>2. in \in Nat /\ out \in Nat /\ cust \in Nat /\ cust <= out /\ credit \in Nat
      BY <2>1, <3>1, SumsOfRows, CustodianPart, SumsOfDays
    <3>3. sold = MovedBy("sale", now)
      <4>1. {m \in moves : m.at <= now} = moves
        BY <1>1 DEF HoldingsInv, MovesOK
      <4> QED BY <2>1, <4>1 DEF MovedBy
    <3>4. sold \in Nat
      BY <3>1, <3>3, SumsOfMoves
    <3> QED BY <3>2, <3>4
  <2>7. ok = TRUE /\ BoughtBy(now) = credit
    BY <1>1, <2>1, <2>2, <2>5, SettledBought
  <2>8. terms.foreign \in Nat
    BY <1>1, HoldingsAssumption DEF HoldingsInv
  <2>9. PICK cap : cap = CustodianCredit(books)
    OBVIOUS
  <2>10. cap = Monus(cust, in)
    <3>1. TransferredOut(books) = Lesser(Monus(out, in), credit)
      BY <2>4 DEF TransferredOut
    <3>2. TransferredOut(books) = Monus(out, in)
      BY <2>5, <2>6, <3>1 DEF Lesser, Monus
    <3>3. TransferredToCustodian(books) = Monus(Monus(out, in), Monus(out, cust))
      BY <2>4, <3>2 DEF TransferredToCustodian
    <3>4. books.complete = TRUE
      BY <2>4, <2>7
    <3>5. cap = TransferredToCustodian(books)
      BY <2>9, <3>4 DEF CustodianCredit
    <3>6. Monus(Monus(out, in), Monus(out, cust)) = Monus(cust, in)
      BY <2>6 DEF Monus
    <3> QED BY <3>3, <3>5, <3>6
  <2>11. PICK e : e = Expectation(Flows, CustodianOutflows(recorded), cap)
    OBVIOUS
  <2>12. cap \in Nat
    BY <2>6, <2>10 DEF Monus
  <2>13. e.expected = credit - Lesser(cust, cap)
    BY <1>1, <2>1, <2>3, <2>5, <2>9, <2>11, <2>12, SettledExpects
  <2>14. Lesser(cust, cap) = Monus(cust, in)
    BY <2>6, <2>10 DEF Lesser, Monus
  <2>15. PICK spot : spot = Spot(now)
    OBVIOUS
  <2>16. spot = terms.foreign + credit + in - out - sold
    <3>1. {m \in moves : m.at <= now} = moves
      BY <1>1 DEF HoldingsInv, MovesOK
    <3>2. ASSUME NEW dir, dir # "sale" PROVE SumOf(recorded, dir) = SumOf(moves, dir)
      <4>1. {v \in recorded : v.dir = dir} = {v \in moves : v.dir = dir}
        BY <2>5, <3>2 DEF Settled
      <4> QED BY <4>1 DEF SumOf
    <3>3. /\ MovedBy("in", now) = in /\ MovedBy("out", now) = out /\ MovedBy("sale", now) = sold
      BY <2>1, <3>1, <3>2 DEF MovedBy
    <3> QED BY <2>7, <2>15, <3>3 DEF Spot
  <2>17. History = Judged(e, spot)
    <3>1. Replayed = CustodianOutflows(recorded)
      <4>1. Complete
        BY <2>2, <2>7
      <4> QED BY <4>1 DEF Replayed
    <3>2. \A i \in DOMAIN Flows : Flows[i].stage = "complete"
      BY <2>5 DEF Settled, Flows
    <3> QED BY <2>3, <2>9, <2>11, <2>15, <3>1, <3>2 DEF History, Aggregate
  <2>18. History.answer = "gap" <=> e.expected > spot
    BY <2>17 DEF Judged
  <2>19. credit - Monus(cust, in) > spot
           <=> sold + out - cust > terms.foreign + Monus(in, cust)
    BY <2>6, <2>8, <2>16 DEF Monus
  <2> QED BY <2>13, <2>14, <2>18, <2>19
<1> QED BY <1>1, HoldingsSound, ChronicleKept, PTL

==============================================================================

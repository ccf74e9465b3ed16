---------------------------- MODULE OrderWorkflow ----------------------------
(***************************************************************************)
(* The order workflow of one purchase decision (workflow.rs): the state    *)
(* replayed from its journal, the transition table, and the calls that     *)
(* append to it.  Operators only: WorkflowJournal models how a record      *)
(* reaches the disk, Holdings who calls.                                   *)
(*                                                                         *)
(* A transition is a record with the fields of its kind; the ones of a     *)
(* kind that may be observed more than once carry the observation's id in  *)
(* "obs".  Everything in a piece of evidence that must equal the binding   *)
(* (identities, hashes, prices, nonces, watermark ids, receipts) is the    *)
(* flag "exact"; times are integers and one HYPE is worth one USDC.        *)
(***************************************************************************)
EXTENDS Integers, Sequences, FiniteSets, SequencesExt

None == "none"
Never == -1
Trading == {"order_submitted", "partially_filled", "filled"}
OrderFinal ==
  {"order_finalized", "eligibility_recorded", "deposit_submitted", "staking_confirmed",
   "delegation_submitted", "delegated_confirmed", "complete"}

Lesser(a, b) == IF a < b THEN a ELSE b
Greater(a, b) == IF a < b THEN b ELSE a
Monus(a, b) == IF a < b THEN 0 ELSE a - b

\* What a decision reserves: what the residual target still lacks.
Deficit(target, unconsumed) == Monus(target, unconsumed)

\* A binding b has the decision time, the two expiries, the authorized
\* quantity and notional, the reserved deficit, the maximum age of a lot that
\* may become eligible, and whether it carries the offline staking capability.
NewWorkflow(b) ==
  [stage |-> "decided", pending |-> None, order |-> None,
   accepted |-> 0, acceptedAt |-> b.decided,
   matched |-> 0, credited |-> 0, filled |-> 0, debited |-> 0,
   residual |-> 0, eligible |-> 0, bound |-> <<>>, basis |-> <<>>,
   target |-> 0, confirmed |-> 0, delegated |-> 0,
   stakeAt |-> b.decided, depositedAt |-> Never, delegatedAt |-> Never,
   lastFill |-> 0, last |-> b.decided, log |-> {}]

Residual(w, b) == Lesser(w.credited, b.deficit)

\* HYPE of the residual that recorded movements had taken already.
Consumed(w) == SumFunction(w.bound)

\* The split of a finished workflow, net of what its evidence bound; <<>> of
\* one that is under way or in manual review.
TerminalSplit(w) ==
  IF w.stage = "complete"
  THEN <<[residual |-> Monus(w.residual, Consumed(w)), eligible |-> w.eligible]>>
  ELSE <<>>

-----------------------------------------------------------------------------
(* The calls there are, and what they carry *)

Bases ==
  [kind : {"absent"}]
    \cup [kind : {"attested"}, exact : BOOLEAN]
    \cup [kind : {"bound"}, exact : BOOLEAN, fillsOf : STRING,
          fillsThrough : Int, movesThrough : Int,
          fills : Seq([at : Int, matched : Nat, credited : Nat, notional : Nat, timely : BOOLEAN]),
          moves : Seq([id : Int, at : Int, amount : Nat])]

Recordings ==
  [type : {"prepare"}, obs : {"submit", "deposit", "delegate"}]
    \cup [type : {"submitted"}, exact : BOOLEAN, order : STRING, accepted : Nat,
          acceptedAt : Int]
    \cup [type : {"absent"}, obs : STRING, exact : BOOLEAN, ordersThrough : Int,
          fillsThrough : Int]
    \cup [type : {"fill"}, obs : STRING, matched : Nat, credited : Nat, filled : Nat,
          debited : Nat, full : BOOLEAN]
    \cup [type : {"final"}, matched : Nat, credited : Nat, filled : Nat, debited : Nat,
          finality : {"filled", "canceled", "expired"}]
    \cup [type : {"eligible"}, basis : Bases]
    \cup [type : {"deposited", "delegating"}, receipt : Int]
    \cup [type : {"staked", "delegated"}, obs : STRING, exact : BOOLEAN, baseline : Int,
          current : Int, amount : Nat]
    \cup [type : {"complete"}]
    \cup [type : {"review"}, obs : STRING]

-----------------------------------------------------------------------------
(* What a piece of evidence must satisfy *)

CumulativeOk(w, b, c, zeroAllowed) ==
  /\ c.credited \in w.credited..c.matched
  /\ (c.credited = 0) <=> (c.matched = 0)
  /\ (c.filled = 0) <=> (c.matched = 0)
  /\ c.matched = 0 => zeroAllowed
  /\ c.matched >= w.matched /\ c.filled >= w.filled /\ c.debited >= w.debited
  /\ c.filled <= Lesser(b.planned, c.matched)
  /\ c.debited \in c.filled..b.committed
  /\ c.matched <= w.accepted

SubmissionOk(w, b, c, at) ==
  /\ c.exact
  /\ c.accepted \in 1..b.quantity
  /\ c.acceptedAt \in w.last..(b.signed - 1)
  /\ c.acceptedAt <= at

AbsenceOk(w, b, c, at) ==
  /\ c.exact
  /\ at > b.effective
  /\ \A through \in {c.ordersThrough, c.fillsThrough} : through \in (b.effective + 1)..at

FillOk(w, b, c) ==
  /\ CumulativeOk(w, b, c, FALSE)
  /\ c.full => c.matched = w.accepted

FinalOk(w, b, c) ==
  /\ CumulativeOk(w, b, c, c.finality \in {"canceled", "expired"})
  /\ c.finality = "filled" => c.matched = w.accepted

\* The quantity a prefix of the fills credited.
CreditedBy(fills, n) == SumFunction([i \in 1..n |-> fills[i].credited])

\* What part of the i-th fill the residual reservation takes.
ResidualOf(fills, i, deficit) ==
  Lesser(Monus(deficit, CreditedBy(fills, i - 1)), fills[i].credited)

BoundFillsOk(w, b, ev, at) ==
  /\ \A i \in DOMAIN ev.fills :
       LET f == ev.fills[i] IN
       /\ f.timely
       /\ f.credited \in 1..f.matched
       /\ f.notional \in 1..f.matched
       /\ f.at \in w.acceptedAt..Lesser(at, b.effective - 1)
       /\ i > 1 => ev.fills[i - 1].at <= f.at
       /\ ResidualOf(ev.fills, i, b.deficit) < f.credited => at < f.at + b.maxAge
  /\ SumFunction([i \in DOMAIN ev.fills |-> ev.fills[i].matched]) = w.matched
  /\ CreditedBy(ev.fills, Len(ev.fills)) = w.credited
  /\ SumFunction([i \in DOMAIN ev.fills |-> ev.fills[i].notional]) = w.filled

\* The residual the fills executed before a movement had provided.
ResidualBefore(fills, deficit, occurredAt) ==
  LET earlier == {i \in DOMAIN fills : fills[i].at < occurredAt}
  IN Lesser(deficit, SumFunction([i \in earlier |-> fills[i].credited]))

\* Mutant: every movement alone fits the residual, not what they take together.
BoundMovementsApart(b, ev, at) ==
  \A i \in DOMAIN ev.moves :
    LET m == ev.moves[i]
    IN /\ m.amount \in 1..ResidualBefore(ev.fills, b.deficit, m.at)
       /\ m.at <= at
       /\ \A j \in 1..(i - 1) : ev.moves[j].id # m.id /\ ev.moves[j].at <= m.at

BoundMovementsOk(b, ev, at) ==
  \A i \in DOMAIN ev.moves :
    LET m == ev.moves[i]
        soFar == SumFunction([j \in 1..i |-> ev.moves[j].amount])
    IN /\ m.amount > 0
       /\ m.at <= at
       /\ \A j \in 1..(i - 1) : ev.moves[j].id # m.id /\ ev.moves[j].at <= m.at
       /\ soFar <= ResidualBefore(ev.fills, b.deficit, m.at)

\* Signer-side evidence: both histories are read through the very time of the
\* record, and fills and movements fit the terminal quantities.
BoundEvidenceOk(w, b, ev, at) ==
  /\ w.order # None
  /\ ev.exact
  /\ ev.fillsThrough = at /\ ev.movesThrough = at
  /\ BoundFillsOk(w, b, ev, at)
  /\ BoundMovementsOk(b, ev, at)

\* An eligibility rests on exactly one basis: nothing, of an order that was
\* never accepted; signer evidence; or the attested policy that disables staking.
BasisOk(w, b, basis, at) ==
  CASE basis.kind = "absent" -> w.order = None /\ w.credited = 0
    [] basis.kind = "attested" -> ~b.staking
    [] basis.kind = "bound" -> BoundEvidenceOk(w, b, basis, at)

BalanceOk(w, c, at) ==
  /\ c.exact
  /\ c.baseline < w.stakeAt
  /\ c.current \in w.last..at
  /\ c.amount = w.target
  /\ c.amount > 0

-----------------------------------------------------------------------------
(* The transition table *)

StageFor(action) ==
  [submit |-> "decided", deposit |-> "eligibility_recorded", delegate |-> "staking_confirmed"][action]

\* What the order's own evidence contradicts outright.
Late(w, c) ==
  \/ c.type \in {"submitted", "fill"} /\ w.stage \in OrderFinal
  \/ c.type = "absent" /\ w.order # None

\* Whether the workflow is at the point a transition starts from.
Placed(w, b, c) ==
  CASE c.type = "prepare" ->
         /\ w.pending = None
         /\ w.stage = StageFor(c.obs)
         /\ c.obs # "submit" => b.staking
         /\ c.obs = "deposit" => w.eligible > 0
    [] c.type = "submitted" -> w.pending = "submit" /\ w.stage = "decided"
    [] c.type = "absent" -> w.pending \in {None, "submit"} /\ w.stage = "decided"
    [] c.type \in {"fill", "final"} -> w.stage \in Trading
    [] c.type = "eligible" -> w.stage = "order_finalized"
    [] c.type = "deposited" -> w.pending = "deposit"
    [] c.type = "staked" -> w.stage = "deposit_submitted"
    [] c.type = "delegating" -> w.pending = "delegate"
    [] c.type = "delegated" -> w.stage = "delegation_submitted"
    [] c.type = "complete" ->
         \/ w.stage = "eligibility_recorded" /\ (~b.staking \/ w.eligible = 0)
         \/ w.stage = "delegated_confirmed" /\ w.delegated = w.target
    [] c.type = "review" -> TRUE

\* Whether its evidence stands against the binding and what was recorded.
Proven(w, b, c, at) ==
  CASE c.type = "submitted" -> SubmissionOk(w, b, c, at)
    [] c.type = "absent" -> AbsenceOk(w, b, c, at)
    [] c.type = "fill" -> FillOk(w, b, c) /\ (w.stage = "filled" => c.full)
    [] c.type = "final" -> FinalOk(w, b, c)
    [] c.type = "eligible" -> BasisOk(w, b, c.basis, at)
    [] c.type \in {"staked", "delegated"} -> BalanceOk(w, c, at)
    [] OTHER -> TRUE

Verdict(w, b, c, at) ==
  IF at < w.last THEN "invalid"
  ELSE IF Late(w, c) THEN "contradiction"
  ELSE IF ~Placed(w, b, c) THEN "invalid"
  ELSE IF ~Proven(w, b, c, at) THEN "contradiction"
  ELSE "ok"

Totals(w, c, at) ==
  [w EXCEPT !.matched = c.matched, !.credited = c.credited, !.filled = c.filled,
            !.debited = c.debited,
            !.lastFill = IF c.matched > w.matched THEN at ELSE @]

BoundBy(basis) ==
  [i \in {m.id : m \in Range(basis.moves)} |->
     (CHOOSE m \in Range(basis.moves) : m.id = i).amount]

Effect(w, b, c, at) ==
  CASE c.type = "prepare" ->
         [w EXCEPT !.pending = c.obs,
                   !.stakeAt = IF c.obs = "submit" THEN @ ELSE at,
                   !.target = IF c.obs = "deposit" THEN w.eligible ELSE @]
    [] c.type = "submitted" ->
         [w EXCEPT !.pending = None, !.stage = "order_submitted", !.order = c.order,
                   !.accepted = c.accepted, !.acceptedAt = c.acceptedAt]
    [] c.type = "absent" -> [w EXCEPT !.pending = None, !.stage = "order_finalized"]
    [] c.type = "fill" ->
         [Totals(w, c, at) EXCEPT !.stage = IF c.full THEN "filled" ELSE "partially_filled"]
    [] c.type = "final" -> [Totals(w, c, at) EXCEPT !.stage = "order_finalized"]
    [] c.type = "eligible" ->
         [w EXCEPT !.stage = "eligibility_recorded", !.basis = <<c.basis>>,
                   !.residual = Residual(w, b), !.eligible = w.credited - Residual(w, b),
                   !.bound = IF c.basis.kind = "bound" THEN BoundBy(c.basis) ELSE <<>>]
    [] c.type = "deposited" ->
         [w EXCEPT !.pending = None, !.stage = "deposit_submitted", !.depositedAt = at]
    [] c.type = "staked" -> [w EXCEPT !.stage = "staking_confirmed", !.confirmed = c.amount]
    [] c.type = "delegating" ->
         [w EXCEPT !.pending = None, !.stage = "delegation_submitted", !.delegatedAt = at]
    [] c.type = "delegated" -> [w EXCEPT !.stage = "delegated_confirmed", !.delegated = c.amount]
    [] c.type = "complete" -> [w EXCEPT !.stage = "complete"]
    [] c.type = "review" -> [w EXCEPT !.pending = None, !.stage = "manual_review"]

-----------------------------------------------------------------------------
(* Appending: an event that is there already is a duplicate, another body   *)
(* under its id a collision.  Every call answers with the workflow it       *)
(* leaves and what it returned.                                             *)

EventId(c) == <<c.type, IF "obs" \in DOMAIN c THEN c.obs ELSE None>>

\* The event is written when the verdict on it is "ok".
Appended(w, b, c, at, verdict) ==
  [answer |-> verdict,
   w |-> IF verdict = "ok"
         THEN [Effect(w, b, c, at) EXCEPT !.last = at, !.log = @ \cup {c}]
         ELSE w]

\* Mutant: no event is recognized as a duplicate.
AppendForgetful(w, b, c, at) == Appended(w, b, c, at, Verdict(w, b, c, at))

AppendEvent(w, b, c, at) ==
  Appended(w, b, c, at,
           IF c \in w.log THEN "duplicate"
           ELSE IF \E d \in w.log : EventId(d) = EventId(c) THEN "collision"
           ELSE Verdict(w, b, c, at))

\* A review event may follow anything, under an id of its own.
ToReview(w, reason, at) ==
  IF w.stage = "manual_review" THEN w
  ELSE [w EXCEPT !.pending = None, !.stage = "manual_review", !.last = Greater(at, w.last),
                 !.log = @ \cup {[type |-> "review", obs |-> reason]}]

\* An observation refused for its place may still contradict what is recorded.
Suspicious(w, b, c, at) ==
  CASE c.type = "submitted" ->
         c.acceptedAt < w.last \/ c.acceptedAt >= b.signed \/ w.stage \in OrderFinal
    [] c.type = "absent" ->
         \/ w.order # None
         \/ w.stage = "decided" /\ (at < w.last \/ ~AbsenceOk(w, b, c, at))
    [] c.type \in {"fill", "final"} ->
         \/ w.stage \in OrderFinal
         \/ w.stage \in Trading /\ ~Proven(w, b, c, at)
    [] c.type = "eligible" ->
         w.stage = "order_finalized" /\ (at < w.last \/ ~BasisOk(w, b, c.basis, at))
    [] OTHER -> FALSE

Examined(w, b, c, at, appended) ==
  IF \/ appended.answer \in {"contradiction", "collision"}
     \/ appended.answer = "invalid" /\ Suspicious(w, b, c, at)
  THEN [appended EXCEPT !.w = ToReview(w, appended.answer, at)]
  ELSE appended

Observe(w, b, c, at) == Examined(w, b, c, at, AppendEvent(w, b, c, at))

-----------------------------------------------------------------------------
(* The calls.  "observed" is what appending the call's own event comes to;  *)
(* an event without evidence is never a contradiction.                      *)

Answer(w, what) == [w |-> w, answer |-> what]

\* A pending action is only ever reconciled, never handed out again.
PrepareAction(w, b, c, at, observed) ==
  IF w.pending # None
  THEN Answer(w, IF w.pending = c.obs THEN "reconcile_only" ELSE "invalid")
  ELSE IF c.obs = "submit" /\ at >= Lesser(b.signed, b.effective)
  THEN Answer(w, "invalid")
  ELSE IF ~Placed(w, b, c) THEN Answer(w, "invalid")
  ELSE IF observed.answer \in {"ok", "duplicate"} THEN Answer(observed.w, "ready")
  ELSE observed

\* "taken" are the venue orders and fills other workflows own.
ObserveSubmission(w, b, c, at, taken, observed) ==
  IF c.acceptedAt >= b.signed
  THEN Answer(ToReview(w, "expired", at), "contradiction")
  ELSE IF observed.answer \in {"ok", "duplicate"} /\ c.order \in taken
  THEN Answer(ToReview(w, "conflict", at), "contradiction")
  ELSE observed

\* The basis names the record: repeating it is harmless, changing it is not.
RecordEligibility(w, b, c, at, taken, observed) ==
  IF c.basis.kind = "attested" /\ (b.staking \/ ~c.basis.exact)
  THEN Answer(w, "invalid")
  ELSE IF w.stage \in {"eligibility_recorded", "complete"}
  THEN IF w.basis = <<c.basis>> THEN Answer(w, "duplicate")
       ELSE Answer(ToReview(w, "basis", at), "contradiction")
  ELSE IF w.stage # "order_finalized" THEN Answer(w, "invalid")
  ELSE IF c.basis.kind = "bound" /\ ~BoundEvidenceOk(w, b, c.basis, at)
  THEN Answer(ToReview(w, "evidence", at), "contradiction")
  ELSE IF c.basis.kind = "bound" /\ c.basis.fillsOf \in taken
  THEN Answer(ToReview(w, "conflict", at), "contradiction")
  ELSE observed

\* A balance read before the submission it should confirm is merely stale.
ConfirmBalance(w, c, at, observed) ==
  LET sent == IF c.type = "staked" THEN w.depositedAt ELSE w.delegatedAt
  IN IF sent = Never \/ at < sent THEN Answer(w, "stale") ELSE observed

Answered(w, b, c, at, taken, observed) ==
  CASE c.type = "prepare" -> PrepareAction(w, b, c, at, observed)
    [] c.type = "submitted" -> ObserveSubmission(w, b, c, at, taken, observed)
    [] c.type = "eligible" -> RecordEligibility(w, b, c, at, taken, observed)
    [] c.type \in {"staked", "delegated"} -> ConfirmBalance(w, c, at, observed)
    [] OTHER -> observed

Call(w, b, c, at, taken) == Answered(w, b, c, at, taken, Observe(w, b, c, at))
=============================================================================

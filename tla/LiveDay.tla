------------------------------- MODULE LiveDay -------------------------------
(***************************************************************************)
(* One live decision day, end to end: the pacing decision the runtime      *)
(* commits, the journal path it declares, the workflow journal, the order  *)
(* on the wire and at the venue, its read-only reconciliation and the      *)
(* settlement back into the runtime (bin/hype-live-probe.rs,               *)
(* live_decision.rs, live_probe.rs, workflow.rs and runtime.rs under       *)
(* src/src).  Every durable write and every venue call is a step, and a    *)
(* command may stop between any two of them.                               *)
(*                                                                         *)
(* One command at a time runs on a journal (its command lock); `release`   *)
(* takes only the runtime lock.  A journal append is atomic here: that is  *)
(* what WorkflowJournal shows of it.  HYPE, fees and USDC are abstracted   *)
(* to the set of executions they are sums of, each of one lot; the venue's *)
(* own order-level figure is a number of lots.                             *)
(***************************************************************************)
EXTENDS Integers, FiniteSets, FiniteSetsExt

CONSTANTS
  Trades,           \* the executions the venue may make of the order
  Quantity,         \* the authorized quantity, in lots
  MaxStops,         \* bound: commands that stop half-way
  RetriesSameDay,   \* whether the day's timer is retried until it has left a
                    \* journal at the path it declared
  Terms             \* bound: the terms a day may run under, each with
                    \*   accepts  the quantities the venue may accept it for
                    \*   lag      max_venue_clock_lag_ms
                    \*   window   order_timeout_seconds: from preparation to
                    \*            effective expiry
                    \*   dayEnd   the last instant of the decision's UTC date
                    \*   maxTime  the last instant modelled
                    \*   ends     the statuses an order not filled may end in
                    \*   mayCap   whether the account's retained history may
                    \*            reach the venue's row cap
                    \*   lies     orderStatus answers that contradict what
                    \*            the venue did

\* The statuses the code takes for terminal.  Any other, the venue's words for
\* a live order and for cancellations nobody has confirmed, is not.
Terminal == {"filled", "canceled"}
Statuses == {"open", "unrecognised"} \cup Terminal
Orders == [size : Nat, filled : Nat, status : Statuses, at : Int]

ASSUME LiveDayAssumption ==
  /\ IsFiniteSet(Trades)
  /\ Quantity \in Nat \ {0}
  /\ MaxStops \in Nat
  /\ RetriesSameDay \in BOOLEAN
  /\ \A t \in Terms:
       /\ t.accepts \subseteq 1 .. Quantity
       /\ t.lag \in Nat /\ t.window \in Nat /\ t.window > t.lag + 1
       /\ t.dayEnd \in Nat /\ t.maxTime \in Nat
       /\ t.ends \subseteq {"canceled", "unrecognised"}
       /\ t.lies \subseteq [order : Orders, fills : SUBSET Trades]

VARIABLES
  terms,        \* the terms of this day, which never change
  clock,        \* this host's clock
  skew,         \* the venue's clock minus this host's: at most Lag either way
  runtime,      \* the runtime's record of the day's decision
  journal,      \* the state the workflow journal replays to
  accumulator,  \* the observed-fills file beside the journal
  wire,         \* whether a signed order is on its way to the venue
  venue,        \* the order at the venue
  capped,       \* whether the retained history has reached the row cap
  cmd,          \* the command that holds the journal's command lock
  stops         \* how many commands have stopped half-way

vars == <<terms, clock, skew, runtime, journal, accumulator, wire, venue, capped,
          cmd, stops>>
world == <<terms, clock, skew, wire, venue, capped, stops>>

\* The terms, under their own names.
Lag == terms.lag
Window == terms.window
DayEnd == terms.dayEnd

\* The stages of a journal: None, Decided, then these, or ManualReview.
Finalized == {"OrderFinalized", "StakingEligibilityRecorded", "Complete"}
Live == {"OrderSubmitted", "PartiallyFilled", "Filled"}

Idle == [name |-> "none", pc |-> "idle", now |-> 0, fills |-> {}, order |-> {},
         seen |-> FALSE]

Init ==
  /\ terms \in Terms
  /\ clock = 0
  /\ skew \in -Lag .. Lag
  /\ runtime = [decision |-> "none", decidedAt |-> 0, intent |-> FALSE, fills |-> {}]
  /\ journal = [stage |-> "None", pending |-> FALSE, preparedAt |-> {},
                signedExpiry |-> 0, accepted |-> FALSE, size |-> Quantity,
                matched |-> 0, fills |-> {}, lastAt |-> 0,
                observations |-> {}, final |-> {}]
  /\ accumulator = {}
  /\ wire = FALSE
  /\ venue = [status |-> "unknown", at |-> 0, size |-> 0, trades |-> {}]
  /\ capped = FALSE
  /\ cmd = Idle
  /\ stops = 0

-----------------------------------------------------------------------------
(* The workflow's transition table: what an append to the journal does      *)

EffectiveExpiry == journal.signedExpiry + Lag + 1

Later(s, t) == Max({s, t})

Goto(label) == cmd' = [cmd EXCEPT !.pc = label]

End == cmd' = Idle

\* Contradictory evidence stops automation durably, once, and fails the call.
Review(at) ==
  /\ journal' = IF journal.stage = "ManualReview" THEN journal
                ELSE [journal EXCEPT !.stage = "ManualReview", !.pending = FALSE,
                                     !.lastAt = Later(at, @)]
  /\ End

\* Cumulative totals may only grow, and only up to what the venue accepted.
CumulativeOk(matched, fills, allowZero) ==
  /\ Cardinality(fills) <= matched
  /\ fills = {} <=> matched = 0
  /\ Cardinality(fills) >= Cardinality(journal.fills)
  /\ matched >= journal.matched
  /\ matched = 0 => allowZero
  /\ matched <= journal.size

\* Each status answer that names an order carries these.
Answer == CHOOSE o \in cmd.order : TRUE

\* Mutant: whatever rows were seen are taken for all of them.
FillsCompleteAssumed == TRUE

\* The accumulated rows account for all the venue says it matched.
FillsComplete == cmd.order # {} => Cardinality(accumulator) = Answer.filled

ZeroPurchase == ~journal.accepted /\ journal.fills = {}

\* Whoever prepares or submits holds the runtime's exclusive lock until it ends.
RuntimeLocked == cmd.name \in {"run-cycle", "prepare", "submit"}

\* No order can have been signed and the decision has no journal to settle it.
Stranded == runtime.decision = "planned" /\ runtime.intent /\ journal.stage = "None"

-----------------------------------------------------------------------------
(* Commands *)

\* Mutant: only the command that makes the decision declares its journal.
CycleDeclaresOnce ==
  /\ cmd.pc = "cycle"
  /\ IF clock <= DayEnd /\ runtime.decision # "settled"
     THEN /\ runtime' = IF runtime.decision = "planned" THEN runtime
                        ELSE [runtime EXCEPT !.decision = "planned", !.decidedAt = clock]
          /\ cmd' = [cmd EXCEPT !.now = clock,
                       !.pc = IF runtime.decision = "planned" THEN "create" ELSE "intent"]
     ELSE UNCHANGED runtime /\ End
  /\ UNCHANGED <<world, journal, accumulator>>

\* There is no journal yet, or only an unexpired binding in it.
Resumable ==
  \/ journal.stage = "None"
  \/ journal.stage = "Decided" /\ ~journal.pending /\ clock < journal.signedExpiry

\* `run-cycle` prepares what it may resume; anything else may have reached the
\* venue and is only reconciled.
StartRunCycle ==
  /\ cmd = Idle
  /\ clock <= DayEnd
  /\ cmd' = IF Resumable THEN [Idle EXCEPT !.name = "run-cycle", !.pc = "cycle"]
            ELSE [Idle EXCEPT !.name = "reconcile", !.pc = "fills", !.now = clock]
  /\ UNCHANGED <<world, runtime, journal, accumulator>>

\* The operator's `prepare`, and `submit` after its settlement preflight.
StartPrepare ==
  /\ cmd = Idle
  /\ cmd' = [Idle EXCEPT !.name = "prepare", !.pc = "cycle"]
  /\ UNCHANGED <<world, runtime, journal, accumulator>>

\* Whether the order about to be sent is one the runtime will settle.
Preflight == runtime.decision = "planned" /\ runtime.intent

StartSubmit ==
  /\ cmd = Idle
  /\ journal.pending
  /\ Preflight
  /\ cmd' = [Idle EXCEPT !.name = "submit", !.pc = "send"]
  /\ UNCHANGED <<world, runtime, journal, accumulator>>

StartReconcile ==
  /\ cmd = Idle
  /\ journal.stage # "None"
  /\ cmd' = [Idle EXCEPT !.name = "reconcile", !.pc = "fills", !.now = clock]
  /\ UNCHANGED <<world, runtime, journal, accumulator>>

\* The runtime cycle commits the day's decision, or finds it; on another date
\* the unsettled decision blocks it.
Cycle ==
  /\ cmd.pc = "cycle"
  /\ IF clock <= DayEnd /\ runtime.decision # "settled"
     THEN /\ runtime' = IF runtime.decision = "planned" THEN runtime
                        ELSE [runtime EXCEPT !.decision = "planned", !.decidedAt = clock]
          /\ cmd' = [cmd EXCEPT !.pc = "intent", !.now = clock]
     ELSE UNCHANGED runtime /\ End
  /\ UNCHANGED <<world, journal, accumulator>>

\* After every read that can fail, and before the journal can exist.
RecordIntent ==
  /\ cmd.pc = "intent"
  /\ runtime' = [runtime EXCEPT !.intent = TRUE]
  /\ Goto("create")
  /\ UNCHANGED <<world, journal, accumulator>>

\* open_or_create: a fresh binding with this call's expiry, or the one there.
CreateJournal ==
  /\ cmd.pc = "create"
  /\ journal' = IF journal.stage # "None" THEN journal
                ELSE [journal EXCEPT !.stage = "Decided",
                                     !.signedExpiry = cmd.now + Window - Lag - 1,
                                     !.lastAt = runtime.decidedAt]
  /\ Goto("prepare")
  /\ UNCHANGED <<world, runtime, accumulator>>

\* A pending action is never handed out as a new one.  The operator's command
\* ends here; run-cycle goes on to its own submission.
PrepareOrder ==
  /\ cmd.pc = "prepare"
  /\ \/ journal.pending /\ UNCHANGED journal
     \/ /\ ~journal.pending
        /\ journal.stage = "Decided"
        /\ cmd.now < journal.signedExpiry
        /\ cmd.now >= journal.lastAt
        /\ journal' = [journal EXCEPT !.pending = TRUE, !.preparedAt = {cmd.now},
                                      !.lastAt = cmd.now]
  /\ IF cmd.name = "run-cycle" THEN Goto("send") ELSE End
  /\ UNCHANGED <<world, runtime, accumulator>>

PrepareRefused ==
  /\ cmd.pc = "prepare"
  /\ ~journal.pending
  /\ journal.stage # "Decided" \/ cmd.now >= journal.signedExpiry
  /\ End
  /\ UNCHANGED <<world, runtime, journal, accumulator>>

\* One attempt; whatever becomes of it, reconciliation follows.
Send ==
  /\ cmd.pc = "send"
  /\ wire' = (wire \/ clock < journal.signedExpiry)
  /\ cmd' = [cmd EXCEPT !.pc = "fills", !.now = clock]
  /\ UNCHANGED <<terms, clock, skew, venue, capped, stops, runtime, journal, accumulator>>

-----------------------------------------------------------------------------
(* Reconciliation *)

\* The connector reads the recent fills first: a bounded, account-wide window.
LookupFills(rows) ==
  /\ cmd.pc = "fills"
  /\ rows \subseteq venue.trades
  /\ cmd' = [cmd EXCEPT !.pc = "status", !.fills = rows]
  /\ UNCHANGED <<world, runtime, journal, accumulator>>

\* Then the order's status.
LookupStatus ==
  /\ cmd.pc = "status"
  /\ cmd' = IF venue.status = "unknown" THEN [cmd EXCEPT !.pc = "orders"]
            ELSE [cmd EXCEPT !.pc = "merge",
                             !.order = {[size |-> venue.size, at |-> venue.at,
                                         filled |-> Cardinality(venue.trades),
                                         status |-> venue.status]}]
  /\ UNCHANGED <<world, runtime, journal, accumulator>>

\* The status answer may lag behind the venue, or contradict it.
LookupStale ==
  /\ cmd.pc = "status"
  /\ Goto("orders")
  /\ UNCHANGED <<world, runtime, journal, accumulator>>

LookupLie ==
  /\ cmd.pc = "status"
  /\ \E a \in terms.lies :
       cmd' = [cmd EXCEPT !.pc = "merge", !.fills = a.fills, !.order = {a.order}]
  /\ UNCHANGED <<world, runtime, journal, accumulator>>

\* Rows once seen are never lost again.
Merged(rows) == accumulator \cup rows

Merge ==
  /\ cmd.pc = "merge"
  /\ IF Answer.size \in 1 .. Quantity
     THEN accumulator' = Merged(cmd.fills) /\ Goto("submission")
     ELSE UNCHANGED accumulator /\ End
  /\ UNCHANGED <<world, runtime, journal>>

\* The order's acceptance, with the venue's clock brought within Lag of ours.
RecordSubmission ==
  /\ cmd.pc = "submission"
  /\ LET acceptedAt == Later(Answer.at, journal.lastAt)
         now == Later(cmd.now, acceptedAt)
     IN \/ /\ journal.accepted
           /\ IF journal.size = Answer.size
              THEN cmd' = [cmd EXCEPT !.pc = "fill", !.now = Later(@, journal.lastAt)]
              ELSE End
           /\ UNCHANGED journal
        \/ /\ ~journal.accepted
           /\ Answer.at >= journal.lastAt - Lag /\ Answer.at <= cmd.now + Lag
           /\ \/ /\ acceptedAt < journal.signedExpiry
                 /\ journal.stage = "Decided" /\ journal.pending
                 /\ journal' = [journal EXCEPT !.stage = "OrderSubmitted", !.pending = FALSE,
                                               !.accepted = TRUE, !.size = Answer.size,
                                               !.lastAt = now]
                 /\ cmd' = [cmd EXCEPT !.pc = "fill", !.now = now]
              \/ /\ acceptedAt >= journal.signedExpiry \/ journal.stage \in Finalized
                 /\ Review(now)
              \/ /\ acceptedAt < journal.signedExpiry
                 /\ ~journal.pending /\ journal.stage \notin Finalized
                 /\ UNCHANGED journal /\ End
        \/ /\ ~journal.accepted
           /\ ~(Answer.at >= journal.lastAt - Lag /\ Answer.at <= cmd.now + Lag)
           /\ UNCHANGED journal /\ End
  /\ UNCHANGED <<world, runtime, accumulator>>

\* Mutant: a late fill is applied to an order that is already final.
RecordFillWhenFinal ==
  /\ cmd.pc = "fill"
  /\ IF FillsComplete /\ journal.stage \in Live \cup Finalized
     THEN journal' = [journal EXCEPT !.matched = Answer.filled, !.fills = accumulator,
                                     !.lastAt = cmd.now]
     ELSE UNCHANGED journal
  /\ Goto("finalize")
  /\ UNCHANGED <<world, runtime, accumulator>>

\* The cumulative fill, once every row of it has been seen.
RecordFill ==
  /\ cmd.pc = "fill"
  /\ LET o == [matched |-> Answer.filled, fills |-> accumulator]
         valid == /\ CumulativeOk(o.matched, o.fills, FALSE)
                  /\ journal.stage = "Filled" => o.matched = journal.size
     IN \/ /\ ~FillsComplete
           /\ UNCHANGED journal /\ Goto("eligibility")
        \/ /\ FillsComplete
           /\ o.matched = 0 \/ o \in journal.observations
           /\ UNCHANGED journal /\ Goto("finalize")
        \/ /\ FillsComplete /\ o.matched # 0 /\ o \notin journal.observations
           /\ \/ /\ journal.stage \in Live /\ valid
                 /\ journal' = [journal EXCEPT
                      !.stage = IF o.matched = journal.size THEN "Filled" ELSE "PartiallyFilled",
                      !.matched = o.matched, !.fills = o.fills, !.lastAt = cmd.now,
                      !.observations = @ \cup {o}]
                 /\ Goto("finalize")
              \/ /\ journal.stage \in Finalized \/ (journal.stage \in Live /\ ~valid)
                 /\ Review(cmd.now)
              \/ journal.stage = "ManualReview" /\ UNCHANGED journal /\ End
  /\ UNCHANGED <<world, runtime, accumulator>>

\* Mutant: a cancellation that bought nothing is taken for a contradiction.
FinalizeRejectsZero ==
  /\ cmd.pc = "finalize"
  /\ \/ /\ Answer.status \in Terminal /\ Answer.filled = 0 /\ journal.stage \in Live
        /\ Review(cmd.now)
     \/ /\ Answer.status \notin Terminal \/ Answer.filled # 0 \/ journal.stage \notin Live
        /\ UNCHANGED journal /\ Goto("eligibility")
  /\ UNCHANGED <<world, runtime, accumulator>>

\* A terminal status freezes the totals; statuses not known to be terminal
\* finalize nothing.
Finalize ==
  /\ cmd.pc = "finalize"
  /\ LET f == [matched |-> Answer.filled, fills |-> accumulator, finality |-> Answer.status]
         valid == /\ CumulativeOk(f.matched, f.fills, f.finality = "canceled")
                  /\ f.finality = "filled" => f.matched = journal.size
     IN \/ /\ Answer.status \notin Terminal \/ f \in journal.final
           /\ UNCHANGED journal /\ Goto("eligibility")
        \/ /\ Answer.status \in Terminal /\ f \notin journal.final
           /\ \/ /\ journal.stage \in Live /\ valid
                 /\ journal' = [journal EXCEPT !.stage = "OrderFinalized",
                                               !.matched = f.matched, !.fills = f.fills,
                                               !.lastAt = cmd.now, !.final = {f}]
                 /\ Goto("eligibility")
              \/ /\ \/ journal.stage \in Finalized
                    \/ journal.stage \in Live /\ ~valid
                 /\ Review(cmd.now)
              \/ journal.stage = "ManualReview" /\ UNCHANGED journal /\ End
  /\ UNCHANGED <<world, runtime, accumulator>>

\* Mutant: an action that is still pending is never looked for.
CheckAbsenceOfUnprepared ==
  /\ cmd.pc = "orders"
  /\ IF journal.stage = "Decided" /\ ~journal.pending /\ cmd.now > EffectiveExpiry
     THEN cmd' = [cmd EXCEPT !.pc = "history", !.seen = venue.status # "unknown"]
     ELSE Goto("eligibility")
  /\ UNCHANGED <<world, runtime, journal, accumulator>>

\* Mutant: only the recording waits for the expiry, not the search before it.
CheckAbsenceAnyTime ==
  /\ cmd.pc = "orders"
  /\ IF journal.stage = "Decided"
     THEN cmd' = [cmd EXCEPT !.pc = "history", !.seen = venue.status # "unknown"]
     ELSE Goto("eligibility")
  /\ UNCHANGED <<world, runtime, journal, accumulator>>

\* The venue knows no such order.  Before the effective expiry that is not
\* evidence of anything.
CheckAbsence ==
  /\ cmd.pc = "orders"
  /\ IF journal.stage = "Decided" /\ cmd.now > EffectiveExpiry
     THEN cmd' = [cmd EXCEPT !.pc = "history", !.seen = venue.status # "unknown"]
     ELSE Goto("eligibility")
  /\ UNCHANGED <<world, runtime, journal, accumulator>>

\* The complete order history has been read; now the complete fill history.  A
\* history at the row cap may have lost rows: it is refused and proves nothing.
ReadFillHistory ==
  /\ cmd.pc = "history"
  /\ cmd' = IF capped THEN Idle
            ELSE [cmd EXCEPT !.pc = "absent", !.seen = @ \/ venue.trades # {}]
  /\ UNCHANGED <<world, runtime, journal, accumulator>>

\* Absence is recorded as of an instant read after both.  (The code asks once
\* more whether that instant is past the expiry: CheckAbsence saw to it.)
RecordAbsence ==
  /\ cmd.pc = "absent"
  /\ clock > EffectiveExpiry
  /\ \/ /\ cmd.seen
        /\ UNCHANGED journal /\ End
     \/ /\ ~cmd.seen
        /\ journal' = [journal EXCEPT !.stage = "OrderFinalized", !.pending = FALSE,
                                      !.lastAt = Later(cmd.now, clock)]
        /\ Goto("eligibility")
  /\ UNCHANGED <<world, runtime, accumulator>>

\* A purchase completes only under a proof that staking is disabled.
RecordEligibility ==
  /\ cmd.pc = "eligibility"
  /\ \/ /\ journal.stage = "OrderFinalized"
        /\ \E disabledStaking \in BOOLEAN :
             IF ZeroPurchase \/ disabledStaking
             THEN /\ journal' = [journal EXCEPT !.stage = "StakingEligibilityRecorded",
                                                !.lastAt = Later(cmd.now, @)]
                  /\ Goto("complete")
             ELSE UNCHANGED journal /\ Goto("settle")
     \/ /\ journal.stage = "StakingEligibilityRecorded"
        /\ UNCHANGED journal /\ Goto("complete")
     \/ /\ journal.stage \notin {"OrderFinalized", "StakingEligibilityRecorded"}
        /\ UNCHANGED journal /\ Goto("settle")
  /\ UNCHANGED <<world, runtime, accumulator>>

Complete ==
  /\ cmd.pc = "complete"
  /\ journal' = [journal EXCEPT !.stage = "Complete", !.lastAt = Later(cmd.now, @)]
  /\ Goto("settle")
  /\ UNCHANGED <<world, runtime, accumulator>>

\* Mutant: settlement does not wait for the order's finality.
SettleEarly ==
  /\ cmd.pc = "settle"
  /\ runtime' = IF /\ cmd.order # {} /\ FillsComplete
                   /\ Answer.filled = journal.matched
                   /\ runtime.decision = "planned"
                THEN [runtime EXCEPT !.decision = "settled", !.fills = journal.fills]
                ELSE runtime
  /\ End
  /\ UNCHANGED <<world, journal, accumulator>>

\* Only terminal totals that this very reconciliation has seen again are
\* written to the capital ledger.
Settle ==
  /\ cmd.pc = "settle"
  /\ LET order == cmd.order # {}
         filled == IF order THEN Answer.filled ELSE 0
         credited == IF order THEN accumulator ELSE {}
     IN runtime' = IF /\ journal.stage \in Finalized
                      /\ FillsComplete
                      /\ filled = journal.matched
                      /\ Cardinality(credited) = Cardinality(journal.fills)
                      /\ runtime.decision = "planned"
                   THEN [runtime EXCEPT !.decision = "settled", !.fills = journal.fills]
                   ELSE runtime
  /\ End
  /\ UNCHANGED <<world, journal, accumulator>>

\* `release`: settles at zero a decision that declared no journal and is bound
\* by none, under the runtime's exclusive lock.
Release ==
  /\ ~RuntimeLocked
  /\ runtime.decision = "planned" /\ ~runtime.intent
  /\ journal.stage = "None"
  /\ runtime' = [runtime EXCEPT !.decision = "settled", !.fills = {}]
  /\ UNCHANGED <<world, journal, accumulator, cmd>>

-----------------------------------------------------------------------------
(* The environment *)

\* A command dies, or an I/O or transport error ends it.
Stop ==
  /\ cmd # Idle
  /\ stops < MaxStops
  /\ stops' = stops + 1
  /\ End
  /\ UNCHANGED <<terms, clock, skew, wire, venue, capped, runtime, journal, accumulator>>

Tick ==
  /\ clock < terms.maxTime
  /\ RetriesSameDay /\ clock = DayEnd => ~Stranded /\ cmd.pc \notin {"intent", "create"}
  /\ clock' = clock + 1
  /\ UNCHANGED <<terms, skew, wire, venue, capped, stops, runtime, journal, accumulator, cmd>>

\* The venue takes a nonce once, and no signed action past its expiry.
Deliver ==
  /\ wire
  /\ wire' = FALSE
  /\ \/ /\ venue.status = "unknown"
        /\ clock + skew < journal.signedExpiry
        /\ \E size \in terms.accepts :
             venue' = [venue EXCEPT !.status = "open", !.at = clock + skew, !.size = size]
     \/ UNCHANGED venue
  /\ UNCHANGED <<terms, clock, skew, capped, stops, runtime, journal, accumulator, cmd>>

Execute ==
  /\ venue.status = "open"
  /\ Cardinality(venue.trades) < venue.size
  /\ \E t \in Trades \ venue.trades : venue' = [venue EXCEPT !.trades = @ \cup {t}]
  /\ UNCHANGED <<terms, clock, skew, wire, capped, stops, runtime, journal, accumulator, cmd>>

\* An immediate-or-cancel order ends filled, or in one of the venue's words for
\* a cancellation.
Terminate ==
  /\ venue.status = "open"
  /\ \E s \in IF Cardinality(venue.trades) = venue.size THEN {"filled"} ELSE terms.ends :
       venue' = [venue EXCEPT !.status = s]
  /\ UNCHANGED <<terms, clock, skew, wire, capped, stops, runtime, journal, accumulator, cmd>>

\* The account's history only grows: at the cap, it stays there.
ReachCap ==
  /\ terms.mayCap /\ ~capped
  /\ capped' = TRUE
  /\ UNCHANGED <<terms, clock, skew, wire, venue, stops, runtime, journal, accumulator, cmd>>

\* A lookup whose two answers are both whole.
LookupAllFills == LookupFills(venue.trades)
LookupWhole == cmd.fills = venue.trades /\ LookupStatus

\* A command's own next step, whatever it is waiting for.
Proceed ==
  \/ Cycle \/ RecordIntent \/ CreateJournal \/ PrepareOrder \/ PrepareRefused \/ Send
  \/ \E rows \in SUBSET Trades : LookupFills(rows)
  \/ LookupStatus \/ LookupStale \/ LookupLie \/ Merge \/ RecordSubmission \/ RecordFill
  \/ Finalize \/ CheckAbsence \/ ReadFillHistory \/ RecordAbsence \/ RecordEligibility
  \/ Complete \/ Settle

Next ==
  \/ StartRunCycle \/ StartPrepare \/ StartSubmit \/ StartReconcile
  \/ Proceed \/ Release \/ Stop
  \/ Tick \/ Deliver \/ Execute \/ Terminate \/ ReachCap

Spec == Init /\ [][Next]_vars

\* A started command runs; the timer and the operator start them again; the
\* venue resolves an order and, asked again and again, sometimes answers whole.
Fairness ==
  /\ WF_vars(Proceed)
  /\ SF_vars(StartRunCycle) /\ SF_vars(StartReconcile) /\ SF_vars(Release)
  /\ SF_vars(Tick) /\ WF_vars(Deliver) /\ WF_vars(Terminate)
  /\ SF_vars(LookupAllFills) /\ SF_vars(LookupWhole)

FairSpec == Spec /\ Fairness

-----------------------------------------------------------------------------
(* Properties *)

\* An order is on the wire or at the venue only after the decision was
\* committed, its journal declared, and its action prepared in that journal.
WriteAhead ==
  wire \/ venue.status # "unknown" =>
    /\ runtime.decision # "none" /\ runtime.intent
    /\ journal.preparedAt # {}

\* A venue that never contradicts what it did: its answers may lag, arrive in
\* pieces and carry a skewed clock.
Honest == terms.lies = {}

\* Once a journal says the order never existed, an honest venue has not
\* accepted it and never will, whatever is still on the wire.
AbsenceConclusive ==
  Honest /\ journal.stage \in Finalized /\ ~journal.accepted
    => venue.status = "unknown"

\* Capital is released only by an order that is over, for exactly what the
\* order bought.
SettlementExact ==
  Honest /\ runtime.decision = "settled" =>
    venue.status # "open" /\ runtime.fills = venue.trades

\* An honest venue never drives a workflow to manual review.
NoFalseAlarm == Honest => journal.stage # "ManualReview"

\* Totals only grow while the order lives, and are frozen by its finality,
\* even by a review that contests them.
TotalsFreeze ==
  [][ /\ journal.fills \subseteq journal'.fills /\ journal.matched <= journal'.matched
      /\ journal.final # {} \/ journal.stage \in Finalized =>
           journal'.fills = journal.fills /\ journal'.matched = journal.matched ]_vars

\* What the capital ledger settled stays what the journal says was bought, even
\* when contradictory evidence turns up after the settlement.
LedgerMatchesJournal ==
  runtime.decision = "settled" /\ runtime.intent =>
    /\ journal.stage \in Finalized \cup {"ManualReview"}
    /\ runtime.fills = journal.fills

\* The two days that reconciliation leaves open by design: the order ended in a
\* status the code does not know to be terminal (live_probe.rs:970-986), or
\* only its absence could settle it and the history can no longer prove that
\* (live_probe.rs:738-743, docs/runbooks/live-probe-recovery.md:158).
LeftOpen ==
  \/ venue.status = "unrecognised" /\ journal.stage \notin Finalized
  \/ /\ venue.status = "unknown" /\ journal.stage = "Decided"
     /\ clock > EffectiveExpiry /\ capped

\* The decision's capital does not stay committed for ever, except on the days
\* left open by design.
EventuallySettled ==
  runtime.decision = "planned" ~> runtime.decision = "settled" \/ LeftOpen
==============================================================================

---------------------------- MODULE LiveDayProofs ----------------------------
(***************************************************************************)
(* The live day is safe for any executions the venue makes, any terms, any *)
(* clock skew within them and any number of commands that stop half-way.   *)
(*                                                                         *)
(* What the properties say of the journal, the runtime and the venue holds *)
(* between the steps of a command only because of what the command still   *)
(* carries: an answer it has read, rows it has merged, an instant after    *)
(* which it searched.  The invariant says what each of these is worth at   *)
(* each point of a command.                                                *)
(***************************************************************************)
EXTENDS LiveDay, FiniteSetTheorems, TLAPS

-----------------------------------------------------------------------------
(* The types *)

Stages == {"None", "Decided", "ManualReview"} \cup Live \cup Finalized

\* Where a command is, from its start to its submission and in its reconciliation.
Preparing == {"cycle", "intent", "create", "prepare", "send"}
Searching == {"fills", "status", "orders", "history", "absent"}
Answered == {"merge", "submission", "fill", "finalize"}
Closing == {"eligibility", "complete", "settle"}
Reconciling == Searching \cup Answered \cup Closing

Totals == [matched : Nat, fills : SUBSET Trades]
Ends == [matched : Nat, fills : SUBSET Trades, finality : Statuses]

Decisions == [decision : {"none", "planned", "settled"}, decidedAt : Int,
              intent : BOOLEAN, fills : SUBSET Trades]
Journals == [stage : Stages, pending : BOOLEAN, preparedAt : SUBSET Int,
             signedExpiry : Int, accepted : BOOLEAN, size : Nat, matched : Nat,
             fills : SUBSET Trades, lastAt : Int, observations : SUBSET Totals,
             final : SUBSET Ends]
VenueOrders == [status : {"unknown"} \cup Statuses, at : Int, size : Nat,
                trades : SUBSET Trades]
Commands == [name : {"none", "run-cycle", "prepare", "submit", "reconcile"},
             pc : {"idle"} \cup Preparing \cup Reconciling, now : Int,
             fills : SUBSET Trades, order : SUBSET Orders, seen : BOOLEAN]

TypeOK ==
  /\ terms \in Terms /\ clock \in Nat /\ skew \in -Lag .. Lag
  /\ runtime \in Decisions /\ journal \in Journals /\ accumulator \subseteq Trades
  /\ wire \in BOOLEAN /\ venue \in VenueOrders /\ capped \in BOOLEAN /\ stops \in Nat
  /\ cmd \in Commands
  /\ \A o, q \in cmd.order : o = q

-----------------------------------------------------------------------------
(* The invariant *)

\* What the journal's stages mean.
JournalInv ==
  /\ journal.pending => journal.stage = "Decided" /\ journal.preparedAt # {}
  /\ journal.stage = "Decided" /\ journal.preparedAt # {} =>
       journal.pending /\ journal.lastAt < journal.signedExpiry
  /\ journal.stage = "None" => journal.preparedAt = {}
  /\ journal.stage # "None" => runtime.intent
  /\ journal.stage \in Live => journal.accepted
  /\ journal.stage \in {"None", "Decided"} => ~journal.accepted
  /\ ~journal.accepted => journal.fills = {} /\ journal.matched = 0
  /\ journal.final # {} => journal.stage \in Finalized \cup {"ManualReview"}
  /\ journal.fills \subseteq accumulator

\* What the venue knows it was sent, in time.
VenueInv ==
  /\ WriteAhead
  /\ IF venue.status = "unknown" THEN venue.trades = {}
     ELSE venue.at < journal.signedExpiry /\ venue.size \in 1 .. Quantity
  /\ Cardinality(venue.trades) <= venue.size
  /\ venue.status = "filled" => Cardinality(venue.trades) = venue.size

\* No request can still be accepted, and none was.
Absent == clock > EffectiveExpiry /\ venue.status = "unknown"

\* What was settled, and what absence rests on.
SettledInv ==
  /\ LedgerMatchesJournal
  /\ journal.stage \in Finalized /\ ~journal.accepted => Absent
  /\ runtime.decision = "settled" /\ ~runtime.intent => runtime.fills = {}

\* What a command relies on at each of its points.
CommandInv ==
  /\ cmd.pc \in Preparing => RuntimeLocked
  /\ cmd.pc \in Preparing \ {"cycle"} => runtime.decision = "planned"
  /\ cmd.pc \in {"create", "prepare", "send"} => runtime.intent
  /\ cmd.pc \in {"prepare"} \cup Reconciling => journal.stage # "None"
  /\ cmd.pc = "send" => journal.preparedAt # {}
  /\ cmd.pc \in Searching => cmd.now <= clock
  /\ cmd.pc \in {"history", "absent"} =>
       /\ journal.stage = "Decided" /\ clock > EffectiveExpiry
       /\ cmd.seen \/ venue.status = "unknown"
  /\ cmd.pc \in Answered => cmd.order # {}
  /\ cmd.pc \in {"submission", "fill", "finalize"} => Answer.size \in 1 .. Quantity
  /\ cmd.pc \in {"fill", "finalize"} => journal.accepted
  /\ cmd.pc = "finalize" => FillsComplete
  /\ cmd.pc = "complete" => journal.stage = "StakingEligibilityRecorded"

\* At an honest venue: what the journal took over from it is true, and what is final
\* there is all of it.
HonestInv == Honest =>
  /\ journal.stage # "ManualReview"
  /\ accumulator \subseteq venue.trades
  /\ journal.accepted => venue.status # "unknown" /\ journal.size = venue.size
  /\ journal.matched = Cardinality(journal.fills)
  /\ journal.stage = "Filled" => journal.matched = journal.size
  /\ journal.stage \in Finalized /\ journal.accepted =>
       /\ venue.status \in {"filled", "canceled"} /\ journal.fills = venue.trades
       /\ [matched |-> journal.matched, fills |-> journal.fills,
           finality |-> venue.status] \in journal.final
       /\ journal.matched # 0 =>
            [matched |-> journal.matched, fills |-> journal.fills] \in journal.observations
  /\ runtime.decision = "settled" =>
       /\ venue.status # "open" /\ runtime.fills = venue.trades
       /\ runtime.intent /\ venue.status = "unknown" => clock > EffectiveExpiry

\* An answer of an honest venue is old at worst: if it ends the order, it is all of it.
Truthful(o) ==
  /\ venue.status # "unknown" /\ o.size = venue.size /\ o.at = venue.at
  /\ o.filled <= Cardinality(venue.trades)
  /\ o.status # "open" =>
       o.status = venue.status /\ o.filled = Cardinality(venue.trades)

\* What a command has from an honest venue: a final order is answered as one, and what
\* it is about to make final it has recorded as filled.
AnswerInv == Honest =>
  /\ cmd.fills \subseteq venue.trades
  /\ cmd.order # {} => Truthful(Answer)
  /\ cmd.pc \in Answered /\ journal.stage \in Finalized => Answer.status # "open"
  /\ cmd.pc = "finalize" /\ Answer.filled # 0 =>
       [matched |-> Answer.filled, fills |-> accumulator] \in journal.observations

LiveInv ==
  /\ TypeOK /\ JournalInv /\ VenueInv /\ SettledInv /\ CommandInv /\ HonestInv /\ AnswerInv

-----------------------------------------------------------------------------
(* Lemmas about the operators *)

\* Later picks the later of two instants.
LEMMA LaterFacts ==
  ASSUME NEW s \in Int, NEW t \in Int
  PROVE  Later(s, t) \in {s, t} /\ Later(s, t) >= s /\ Later(s, t) >= t
<1>1. PICK x \in {s, t} : \A y \in {s, t} : x >= y
  <2>1. CASE s >= t
    BY <2>1
  <2>2. CASE ~(s >= t)
    BY <2>2
  <2> QED
    BY <2>1, <2>2
<1> QED
  BY <1>1 DEF Later, Max

\* Sets of executions are finite: they are equal when one is within the other and
\* counts as many.
LEMMA TradesFacts ==
  ASSUME NEW T \in SUBSET Trades
  PROVE  /\ Cardinality(T) \in Nat
         /\ Cardinality(T) = 0 <=> T = {}
         /\ \A U \in SUBSET T : /\ Cardinality(U) <= Cardinality(T)
                                /\ Cardinality(U) = Cardinality(T) => U = T
         /\ \A t \in Trades \ T : Cardinality(T \cup {t}) = Cardinality(T) + 1
<1>1. IsFiniteSet(T)
  BY LiveDayAssumption, FS_Subset DEF LiveDayAssumption
<1> QED
  BY <1>1, FS_Subset, FS_CardinalityType, FS_EmptySet, FS_AddElement

\* The terms and the instants they are about.
LEMMA TermsFacts ==
  ASSUME TypeOK
  PROVE  /\ Lag \in Nat /\ Window \in Nat /\ terms.accepts \subseteq 1 .. Quantity
         /\ terms.lies \subseteq [order : Orders, fills : SUBSET Trades]
         /\ journal.signedExpiry \in Int /\ journal.lastAt \in Int
         /\ EffectiveExpiry = journal.signedExpiry + Lag + 1 /\ EffectiveExpiry \in Int
         /\ clock \in Int /\ skew \in Int /\ skew >= -Lag
         /\ cmd.now \in Int
<1>1. terms \in Terms
  BY DEF TypeOK
<1>2. /\ Lag \in Nat /\ Window \in Nat /\ terms.accepts \subseteq 1 .. Quantity
      /\ terms.lies \subseteq [order : Orders, fills : SUBSET Trades]
  BY <1>1, LiveDayAssumption DEF LiveDayAssumption, Lag, Window
<1>3. journal.signedExpiry \in Int /\ journal.lastAt \in Int
  BY DEF TypeOK, Journals
<1>4. cmd.now \in Int
  BY DEF TypeOK, Commands
<1>5. clock \in Int /\ skew \in -Lag .. Lag
  BY DEF TypeOK
<1> QED
  BY <1>2, <1>3, <1>4, <1>5 DEF EffectiveExpiry

\* What a command was answered.
LEMMA AnswerFacts ==
  ASSUME cmd \in Commands, cmd.order # {}
  PROVE  /\ Answer \in cmd.order /\ Answer \in Orders
         /\ Answer.size \in Nat /\ Answer.filled \in Nat /\ Answer.at \in Int
         /\ Answer.status \in Statuses
<1>1. Answer \in cmd.order
  BY DEF Answer
<1>2. Answer \in Orders
  BY <1>1 DEF Commands
<1> QED
  BY <1>1, <1>2 DEF Orders

\* It stays what it was as long as the command keeps it.
LEMMA AnswerKept ==
  ASSUME TypeOK, cmd'.order = cmd.order, cmd.order # {}
  PROVE  Answer' = Answer
<1>1. Answer \in cmd.order /\ Answer' \in cmd'.order
  BY DEF Answer
<1> QED
  BY <1>1 DEF TypeOK

\* A command that is over relies on nothing.
LEMMA IdleFacts ==
  ASSUME cmd' = Idle
  PROVE  /\ cmd' \in Commands /\ \A o, q \in cmd'.order : o = q
         /\ CommandInv' /\ AnswerInv'
<1>1. cmd'.pc = "idle" /\ cmd'.order = {} /\ cmd'.fills = {} /\ cmd' \in Commands
  BY DEF Idle, Commands, Preparing
<1> QED
  BY <1>1 DEF CommandInv, AnswerInv, Preparing, Reconciling, Searching, Answered, Closing

\* A command's own step: it changes nothing but the command.
LEMMA OwnStep ==
  ASSUME LiveInv, UNCHANGED <<terms, clock, skew, wire, venue, capped, runtime, journal,
                                accumulator>>,
         stops' \in Nat, cmd' \in Commands, \A o, q \in cmd'.order : o = q,
         CommandInv', AnswerInv'
  PROVE  LiveInv'
<1>1. TypeOK'
  BY DEF LiveInv, TypeOK, Lag
<1>2. JournalInv'
  BY DEF LiveInv, JournalInv
<1>3. VenueInv'
  BY DEF LiveInv, VenueInv, WriteAhead
<1>4. SettledInv'
  BY DEF LiveInv, SettledInv, LedgerMatchesJournal, Absent, EffectiveExpiry, Lag
<1>5. HonestInv'
  BY DEF LiveInv, HonestInv, Honest, EffectiveExpiry, Lag
<1> QED
  BY <1>1, <1>2, <1>3, <1>4, <1>5 DEF LiveInv

-----------------------------------------------------------------------------
(* The beginning *)

LEMMA InitInv == Init => LiveInv
<1> SUFFICES ASSUME Init PROVE LiveInv
  OBVIOUS
<1>1. /\ terms \in Terms /\ clock = 0 /\ skew \in -Lag .. Lag /\ accumulator = {}
      /\ wire = FALSE /\ capped = FALSE /\ stops = 0
      /\ runtime = [decision |-> "none", decidedAt |-> 0, intent |-> FALSE, fills |-> {}]
      /\ venue = [status |-> "unknown", at |-> 0, size |-> 0, trades |-> {}]
      /\ cmd = Idle
  BY DEF Init
<1>2. /\ journal \in Journals /\ journal.stage = "None" /\ ~journal.pending
      /\ journal.preparedAt = {} /\ ~journal.accepted /\ journal.fills = {}
      /\ journal.matched = 0 /\ journal.final = {}
  BY LiveDayAssumption DEF LiveDayAssumption, Init, Journals, Stages
<1>3. Cardinality({}) = 0
  BY FS_EmptySet
<1>4. TypeOK
  <2>1. runtime \in Decisions /\ venue \in VenueOrders
    BY <1>1 DEF Decisions, VenueOrders
  <2>2. cmd \in Commands /\ cmd.order = {}
    BY <1>1 DEF Commands, Idle
  <2> QED
    BY <1>1, <1>2, <2>1, <2>2 DEF TypeOK
<1>5. JournalInv
  BY <1>2 DEF JournalInv, Live, Finalized
<1>6. VenueInv
  BY <1>1, <1>3 DEF VenueInv, WriteAhead
<1>7. SettledInv
  BY <1>1, <1>2 DEF SettledInv, LedgerMatchesJournal, Finalized
<1>8. CommandInv
  BY <1>1 DEF CommandInv, Idle, Preparing, Reconciling, Searching, Answered, Closing
<1>9. HonestInv
  BY <1>1, <1>2, <1>3 DEF HonestInv, Finalized
<1>10. AnswerInv
  BY <1>1 DEF AnswerInv, Idle, Answered
<1> QED
  BY <1>4, <1>5, <1>6, <1>7, <1>8, <1>9, <1>10 DEF LiveInv

-----------------------------------------------------------------------------
(* Steps that change nothing but the command *)

LEMMA StartSteps ==
  ASSUME LiveInv, StartRunCycle \/ StartPrepare \/ StartSubmit \/ StartReconcile
  PROVE  LiveInv'
<1>1. UNCHANGED <<world, runtime, journal, accumulator>>
  BY DEF StartRunCycle, StartPrepare, StartSubmit, StartReconcile
<1>2. /\ cmd' \in Commands /\ cmd'.fills = {} /\ cmd'.order = {}
      /\ \/ cmd'.pc = "cycle" /\ cmd'.name \in {"run-cycle", "prepare"}
         \/ cmd'.pc = "send" /\ cmd'.name = "submit" /\ journal.pending /\ Preflight
         \/ cmd'.pc = "fills" /\ cmd'.now = clock /\ journal.stage # "None"
  <2>1. clock \in Int /\ Idle \in Commands /\ Idle.fills = {} /\ Idle.order = {}
    BY DEF LiveInv, TypeOK, Idle, Commands
  <2>2. CASE \/ cmd' = [Idle EXCEPT !.name = "run-cycle", !.pc = "cycle"]
             \/ cmd' = [Idle EXCEPT !.name = "prepare", !.pc = "cycle"]
    BY <2>1, <2>2 DEF Commands, Preparing
  <2>3. CASE /\ cmd' = [Idle EXCEPT !.name = "submit", !.pc = "send"]
             /\ journal.pending /\ Preflight
    BY <2>1, <2>3 DEF Commands, Preparing
  <2>4. CASE /\ cmd' = [Idle EXCEPT !.name = "reconcile", !.pc = "fills", !.now = clock]
             /\ journal.stage # "None"
    BY <2>1, <2>4 DEF Commands, Reconciling, Searching
  <2> QED
    BY <2>2, <2>3, <2>4 DEF StartRunCycle, StartPrepare, StartSubmit, StartReconcile, Resumable
<1>3. CommandInv'
  BY <1>1, <1>2 DEF LiveInv, TypeOK, JournalInv, CommandInv, RuntimeLocked, Preflight,
     Preparing, Reconciling, Searching, Answered, Closing, world
<1>4. AnswerInv'
  BY <1>2 DEF AnswerInv, Answered
<1> QED
  BY <1>1, <1>2, <1>3, <1>4, OwnStep DEF world, LiveInv, TypeOK

LEMMA EndSteps ==
  ASSUME LiveInv, PrepareRefused \/ Stop
  PROVE  LiveInv'
<1>1. /\ cmd' = Idle /\ stops' \in {stops, stops + 1}
      /\ UNCHANGED <<terms, clock, skew, wire, venue, capped, runtime, journal,
                                accumulator>>
  BY DEF PrepareRefused, Stop, End, world
<1> QED
  BY <1>1, IdleFacts, OwnStep DEF LiveInv, TypeOK

LEMMA LookupFillsStep ==
  ASSUME LiveInv, NEW rows \in SUBSET Trades, LookupFills(rows)
  PROVE  LiveInv'
<1>1. /\ UNCHANGED <<world, runtime, journal, accumulator>>
      /\ cmd.pc = "fills" /\ rows \subseteq venue.trades
      /\ cmd' = [cmd EXCEPT !.pc = "status", !.fills = rows]
  BY DEF LookupFills
<1>2. /\ cmd' \in Commands /\ cmd'.pc = "status" /\ cmd'.fills = rows
      /\ cmd'.order = cmd.order /\ cmd'.now = cmd.now
  BY <1>1 DEF LiveInv, TypeOK, Commands, Reconciling, Searching
<1>3. CommandInv'
  BY <1>1, <1>2 DEF LiveInv, CommandInv, Preparing, Reconciling, Searching, Answered, Closing,
     world
<1>4. AnswerInv'
  BY <1>1, <1>2, AnswerKept DEF LiveInv, AnswerInv, Answered, Honest, Truthful, world
<1> QED
  BY <1>1, <1>2, <1>3, <1>4, OwnStep DEF world, LiveInv, TypeOK

LEMMA StatusStep ==
  ASSUME LiveInv, LookupStatus, venue.status # "unknown"
  PROVE  LiveInv'
<1> DEFINE told == [size |-> venue.size, at |-> venue.at,
                    filled |-> Cardinality(venue.trades), status |-> venue.status]
<1>1. /\ UNCHANGED <<world, runtime, journal, accumulator>>
      /\ cmd.pc = "status"
      /\ cmd' = [cmd EXCEPT !.pc = "merge", !.order = {told}]
  BY DEF LookupStatus
<1>2. venue.trades \in SUBSET Trades /\ venue.status \in Statuses /\ venue.at \in Int
      /\ venue.size \in Nat
  BY DEF LiveInv, TypeOK, VenueOrders
<1>3. told \in Orders
  BY <1>2, TradesFacts DEF Orders
<1>4. /\ cmd' \in Commands /\ cmd'.pc = "merge" /\ cmd'.fills = cmd.fills
      /\ cmd'.order = {told}
  <2> HIDE DEF told
  <2> QED
    BY <1>1, <1>3 DEF LiveInv, TypeOK, Commands, Reconciling, Answered
<1>5. Answer' = told
  <2> HIDE DEF told
  <2> QED
    BY <1>4 DEF Answer
<1>6. CommandInv'
  <2> HIDE DEF told
  <2> QED
    BY <1>1, <1>4 DEF LiveInv, CommandInv, Preparing, Reconciling, Searching, Answered,
       Closing, world
<1>7. ASSUME Honest, journal.stage \in Finalized
      PROVE  venue.status # "open"
  BY <1>7 DEF LiveInv, HonestInv, SettledInv, Absent
<1>8. Honest => Truthful(told)
  BY <1>2, TradesFacts DEF Truthful
<1>9. AnswerInv'
  BY <1>1, <1>4, <1>5, <1>7, <1>8 DEF LiveInv, AnswerInv, Honest, Truthful, world
<1> QED
  BY <1>1, <1>4, <1>6, <1>9, OwnStep DEF world, LiveInv, TypeOK

LEMMA StaleStep ==
  ASSUME LiveInv, LookupStale \/ (LookupStatus /\ venue.status = "unknown")
  PROVE  LiveInv'
<1>1. /\ UNCHANGED <<world, runtime, journal, accumulator>>
      /\ cmd.pc = "status" /\ cmd' = [cmd EXCEPT !.pc = "orders"]
  BY DEF LookupStale, LookupStatus, Goto
<1>2. /\ cmd' \in Commands /\ cmd'.pc = "orders" /\ cmd'.fills = cmd.fills
      /\ cmd'.order = cmd.order /\ cmd'.now = cmd.now
  BY <1>1 DEF LiveInv, TypeOK, Commands, Reconciling, Searching
<1>3. CommandInv'
  BY <1>1, <1>2 DEF LiveInv, CommandInv, Preparing, Reconciling, Searching, Answered, Closing,
     world
<1>4. AnswerInv'
  BY <1>1, <1>2, AnswerKept DEF LiveInv, AnswerInv, Answered, Honest, Truthful, world
<1> QED
  BY <1>1, <1>2, <1>3, <1>4, OwnStep DEF world, LiveInv, TypeOK

\* An answer that contradicts the venue is no honest venue's.
LEMMA LieStep ==
  ASSUME LiveInv, LookupLie
  PROVE  LiveInv'
<1>1. PICK a \in terms.lies :
        /\ UNCHANGED <<world, runtime, journal, accumulator>>
        /\ cmd.pc = "status"
        /\ cmd' = [cmd EXCEPT !.pc = "merge", !.fills = a.fills, !.order = {a.order}]
  BY DEF LookupLie
<1>2. a.order \in Orders /\ a.fills \subseteq Trades /\ ~Honest
  BY TermsFacts DEF LiveInv, Honest
<1>3. cmd' \in Commands /\ cmd'.pc = "merge" /\ cmd'.order = {a.order}
  BY <1>1, <1>2 DEF LiveInv, TypeOK, Commands, Reconciling, Answered
<1>4. CommandInv'
  BY <1>1, <1>3 DEF LiveInv, CommandInv, Preparing, Reconciling, Searching, Answered, Closing,
     world
<1>5. AnswerInv'
  BY <1>1, <1>2 DEF AnswerInv, Honest, world
<1> QED
  BY <1>1, <1>3, <1>4, <1>5, OwnStep DEF world, LiveInv, TypeOK

\* The search for the order begins past its effective expiry, when what the venue has
\* not accepted it never will.
LEMMA AbsenceSteps ==
  ASSUME LiveInv, CheckAbsence \/ ReadFillHistory
  PROVE  LiveInv'
<1>1. UNCHANGED <<world, runtime, journal, accumulator>>
  BY DEF CheckAbsence, ReadFillHistory
<1>2. CASE cmd' = Idle
  BY <1>1, <1>2, IdleFacts, OwnStep DEF world, LiveInv, TypeOK
<1>3. SUFFICES ASSUME cmd' # Idle
               PROVE  LiveInv'
  BY <1>2
<1>4. /\ cmd.pc \in {"orders", "history"}
      /\ cmd' \in Commands /\ cmd'.fills = cmd.fills /\ cmd'.order = cmd.order
      /\ cmd'.now = cmd.now /\ cmd'.pc \in {"history", "absent", "eligibility"}
  BY ZenonT(60), <1>3 DEF LiveInv, TypeOK, CheckAbsence, ReadFillHistory, Goto, Commands,
     Reconciling, Searching, Closing
<1>5. ASSUME cmd'.pc \in {"history", "absent"}
      PROVE  /\ journal.stage = "Decided" /\ clock > EffectiveExpiry
             /\ cmd'.seen \/ venue.status = "unknown"
  <2>1. CASE CheckAbsence
    <3>1. /\ cmd.pc = "orders" /\ journal.stage = "Decided" /\ cmd.now > EffectiveExpiry
          /\ cmd'.seen \/ venue.status = "unknown"
      BY <1>5, <2>1 DEF CheckAbsence, Goto, LiveInv, TypeOK, Commands
    <3>2. cmd.now <= clock /\ cmd.now \in Int /\ clock \in Int /\ EffectiveExpiry \in Int
      BY <3>1, TermsFacts DEF LiveInv, CommandInv, Searching
    <3> QED
      BY <3>1, <3>2
  <2>2. CASE ReadFillHistory
    <3>1. cmd.pc = "history" /\ (cmd.seen => cmd'.seen)
      BY <1>3, <2>2 DEF ReadFillHistory, LiveInv, TypeOK, Commands
    <3> QED
      BY <3>1 DEF LiveInv, CommandInv
  <2> QED
    BY <2>1, <2>2
<1>6. CommandInv'
  BY <1>1, <1>4, <1>5 DEF LiveInv, CommandInv, Preparing, Reconciling, Searching, Answered,
     Closing, world, EffectiveExpiry, Lag
<1>7. AnswerInv'
  BY <1>1, <1>4, AnswerKept DEF LiveInv, AnswerInv, Answered, Honest, Truthful, world
<1> QED
  BY <1>1, <1>4, <1>6, <1>7, OwnStep DEF world, LiveInv, TypeOK

-----------------------------------------------------------------------------
(* Steps of a preparation *)

LEMMA CycleStep ==
  ASSUME LiveInv, Cycle
  PROVE  LiveInv'
<1>1. UNCHANGED <<world, journal, accumulator>> /\ cmd.pc = "cycle"
  BY DEF Cycle
<1>2. CASE UNCHANGED runtime /\ cmd' = Idle
  BY <1>1, <1>2, IdleFacts, OwnStep DEF world, LiveInv, TypeOK
<1>3. CASE /\ clock <= DayEnd /\ runtime.decision # "settled"
           /\ runtime' = IF runtime.decision = "planned" THEN runtime
                         ELSE [runtime EXCEPT !.decision = "planned", !.decidedAt = clock]
           /\ cmd' = [cmd EXCEPT !.pc = "intent", !.now = clock]
  <2>1. /\ runtime' \in Decisions /\ runtime'.decision = "planned"
        /\ runtime'.intent = runtime.intent /\ runtime.decision # "settled"
    BY <1>3, TermsFacts DEF LiveInv, TypeOK, Decisions
  <2>2. /\ cmd' \in Commands /\ cmd'.pc = "intent" /\ cmd'.name = cmd.name
        /\ cmd'.order = cmd.order /\ cmd'.fills = cmd.fills
    BY <1>3, TermsFacts DEF LiveInv, TypeOK, Commands, Preparing
  <2>3. TypeOK'
    BY <1>1, <2>1, <2>2 DEF LiveInv, TypeOK, world, Lag
  <2>4. JournalInv'
    BY <1>1, <2>1 DEF LiveInv, JournalInv
  <2>5. VenueInv'
    BY <1>1, <2>1 DEF LiveInv, VenueInv, WriteAhead, world
  <2>6. SettledInv'
    BY <1>1, <2>1 DEF LiveInv, SettledInv, LedgerMatchesJournal, Absent, EffectiveExpiry, Lag,
       world
  <2>7. CommandInv'
    BY <1>1, <2>1, <2>2 DEF LiveInv, CommandInv, RuntimeLocked, Preparing, Reconciling,
       Searching, Answered, Closing
  <2>8. HonestInv'
    BY <1>1, <2>1 DEF LiveInv, HonestInv, Honest, world
  <2>9. AnswerInv'
    BY <1>1, <2>2, AnswerKept DEF LiveInv, AnswerInv, Answered, Honest, Truthful, world
  <2> QED
    BY <2>3, <2>4, <2>5, <2>6, <2>7, <2>8, <2>9 DEF LiveInv
<1> QED
  BY <1>2, <1>3 DEF Cycle, End

LEMMA RecordIntentStep ==
  ASSUME LiveInv, RecordIntent
  PROVE  LiveInv'
<1>1. /\ UNCHANGED <<world, journal, accumulator>> /\ cmd.pc = "intent"
      /\ runtime' = [runtime EXCEPT !.intent = TRUE]
      /\ cmd' = [cmd EXCEPT !.pc = "create"]
  BY DEF RecordIntent, Goto
<1>2. runtime.decision = "planned"
  BY <1>1 DEF LiveInv, CommandInv, Preparing
<1>3. runtime' \in Decisions /\ runtime'.decision = "planned" /\ runtime'.intent
  BY <1>1, <1>2 DEF LiveInv, TypeOK, Decisions
<1>4. /\ cmd' \in Commands /\ cmd'.pc = "create" /\ cmd'.name = cmd.name
      /\ cmd'.order = cmd.order /\ cmd'.fills = cmd.fills
  BY <1>1 DEF LiveInv, TypeOK, Commands, Preparing
<1>5. TypeOK'
  BY <1>1, <1>3, <1>4 DEF LiveInv, TypeOK, world, Lag
<1>6. JournalInv'
  BY <1>1, <1>3 DEF LiveInv, JournalInv
<1>7. VenueInv'
  BY <1>1, <1>3 DEF LiveInv, VenueInv, WriteAhead, world
<1>8. SettledInv'
  BY <1>1, <1>3 DEF LiveInv, SettledInv, LedgerMatchesJournal, Absent, EffectiveExpiry, Lag,
     world
<1>9. CommandInv'
  BY <1>1, <1>3, <1>4 DEF LiveInv, CommandInv, RuntimeLocked, Preparing, Reconciling,
     Searching, Answered, Closing
<1>10. HonestInv'
  BY <1>1, <1>3 DEF LiveInv, HonestInv, Honest, world
<1>11. AnswerInv'
  BY <1>1, <1>4, AnswerKept DEF LiveInv, AnswerInv, Answered, Honest, Truthful, world
<1> QED
  BY <1>5, <1>6, <1>7, <1>8, <1>9, <1>10, <1>11 DEF LiveInv

\* What a preparation leaves as it is in a journal, and what it may make of it: a binding
\* where there was none, or a prepared action where there was only a binding.
LEMMA PreparedStep ==
  ASSUME LiveInv, UNCHANGED <<world, runtime, accumulator>>,
         runtime.decision = "planned", runtime.intent,
         journal' \in Journals, journal'.stage = "Decided",
         \/ journal.stage = "None" /\ journal'.preparedAt = {} /\ ~journal'.pending
         \/ /\ journal.stage = "Decided" /\ journal'.signedExpiry = journal.signedExpiry
            /\ journal'.pending /\ journal'.preparedAt # {}
            /\ journal'.lastAt < journal'.signedExpiry,
         journal'.accepted = journal.accepted, journal'.matched = journal.matched,
         journal'.fills = journal.fills, journal'.final = journal.final,
         cmd' \in Commands, \A o, q \in cmd'.order : o = q, CommandInv', AnswerInv'
  PROVE  LiveInv'
<1>1. TypeOK'
  BY DEF LiveInv, TypeOK, world, Lag
<1>2. ~journal.accepted /\ journal.final = {}
  BY DEF LiveInv, JournalInv, Finalized
<1>3. JournalInv'
  BY <1>2 DEF LiveInv, JournalInv, Live, Finalized
<1>4. journal.stage = "None" => ~wire /\ venue.status = "unknown"
  BY DEF LiveInv, JournalInv, VenueInv, WriteAhead
<1>5. VenueInv'
  BY <1>4 DEF LiveInv, VenueInv, WriteAhead, world
<1>6. SettledInv'
  BY DEF SettledInv, LedgerMatchesJournal, Finalized
<1>7. HonestInv'
  BY <1>2 DEF LiveInv, HonestInv, Honest, Finalized, world
<1> QED
  BY <1>1, <1>3, <1>5, <1>6, <1>7 DEF LiveInv

LEMMA CreateJournalStep ==
  ASSUME LiveInv, CreateJournal
  PROVE  LiveInv'
<1>1. /\ UNCHANGED <<world, runtime, accumulator>> /\ cmd.pc = "create"
      /\ journal' = IF journal.stage # "None" THEN journal
                    ELSE [journal EXCEPT !.stage = "Decided",
                                         !.signedExpiry = cmd.now + Window - Lag - 1,
                                         !.lastAt = runtime.decidedAt]
      /\ cmd' = [cmd EXCEPT !.pc = "prepare"]
  BY DEF CreateJournal, Goto
<1>2. /\ cmd' \in Commands /\ cmd'.pc = "prepare" /\ cmd'.name = cmd.name
      /\ cmd'.order = cmd.order /\ cmd'.fills = cmd.fills
  BY <1>1 DEF LiveInv, TypeOK, Commands, Preparing
<1>3. runtime.decision = "planned" /\ runtime.intent /\ RuntimeLocked
  BY <1>1 DEF LiveInv, CommandInv, Preparing
<1>4. journal'.stage # "None"
  BY <1>1 DEF LiveInv, TypeOK, Journals
<1>5. CommandInv'
  BY <1>1, <1>2, <1>3, <1>4 DEF CommandInv, RuntimeLocked, Preparing, Reconciling, Searching,
     Answered, Closing
<1>6. AnswerInv'
  BY <1>1, <1>2, AnswerKept DEF LiveInv, AnswerInv, Answered, Honest, Truthful, world
<1>7. CASE journal.stage # "None"
  BY <1>1, <1>2, <1>5, <1>6, <1>7, OwnStep DEF world, LiveInv, TypeOK
<1>8. CASE journal.stage = "None"
  <2>1. cmd.now + Window - Lag - 1 \in Int /\ runtime.decidedAt \in Int
    BY TermsFacts DEF LiveInv, TypeOK, Decisions
  <2>2. /\ journal' \in Journals /\ journal'.stage = "Decided"
        /\ journal'.preparedAt = journal.preparedAt /\ journal'.pending = journal.pending
        /\ journal'.accepted = journal.accepted /\ journal'.matched = journal.matched
        /\ journal'.fills = journal.fills /\ journal'.final = journal.final
    <3> DEFINE expiry == cmd.now + Window - Lag - 1
    <3> HIDE DEF expiry
    <3>1. journal' = [journal EXCEPT !.stage = "Decided", !.signedExpiry = expiry,
                                     !.lastAt = runtime.decidedAt]
      BY <1>1, <1>8 DEF expiry
    <3>2. expiry \in Int
      BY <2>1 DEF expiry
    <3> QED
      BY <2>1, <3>1, <3>2 DEF LiveInv, TypeOK, Journals, Stages
  <2>3. journal.preparedAt = {} /\ ~journal.pending
    BY <1>8 DEF LiveInv, JournalInv
  <2> QED
    BY <1>1, <1>2, <1>3, <1>5, <1>6, <1>8, <2>2, <2>3, PreparedStep DEF LiveInv, TypeOK
<1> QED
  BY <1>7, <1>8

LEMMA PrepareOrderStep ==
  ASSUME LiveInv, PrepareOrder
  PROVE  LiveInv'
<1>1. UNCHANGED <<world, runtime, accumulator>> /\ cmd.pc = "prepare"
  BY DEF PrepareOrder
<1>2. runtime.decision = "planned" /\ runtime.intent /\ RuntimeLocked
  BY <1>1 DEF LiveInv, CommandInv, Preparing, Reconciling
<1>3. \/ journal.pending /\ UNCHANGED journal
      \/ /\ journal.stage = "Decided" /\ cmd.now < journal.signedExpiry
         /\ journal' = [journal EXCEPT !.pending = TRUE, !.preparedAt = {cmd.now},
                                       !.lastAt = cmd.now]
  BY DEF PrepareOrder
<1>4. /\ journal' \in Journals /\ journal'.stage = journal.stage
      /\ journal'.preparedAt # {} /\ journal'.pending
      /\ journal'.signedExpiry = journal.signedExpiry
      /\ journal'.accepted = journal.accepted /\ journal'.matched = journal.matched
      /\ journal'.fills = journal.fills /\ journal'.final = journal.final
      /\ journal.stage = "Decided" /\ journal'.lastAt < journal'.signedExpiry
  <2>1. CASE journal.pending /\ UNCHANGED journal
    BY <2>1 DEF LiveInv, TypeOK, JournalInv
  <2>2. CASE /\ journal.stage = "Decided" /\ cmd.now < journal.signedExpiry
             /\ journal' = [journal EXCEPT !.pending = TRUE, !.preparedAt = {cmd.now},
                                           !.lastAt = cmd.now]
    <3>1. cmd.now \in Int /\ {cmd.now} \in SUBSET Int /\ journal \in Journals
      BY TermsFacts DEF LiveInv, TypeOK
    <3>2. journal' \in Journals /\ journal'.pending
      BY <2>2, <3>1 DEF Journals
    <3>3. /\ journal'.stage = journal.stage /\ journal'.preparedAt = {cmd.now}
          /\ journal'.lastAt = cmd.now /\ journal'.signedExpiry = journal.signedExpiry
          /\ journal'.accepted = journal.accepted /\ journal'.matched = journal.matched
          /\ journal'.fills = journal.fills /\ journal'.final = journal.final
      BY <2>2, <3>1 DEF Journals
    <3> QED
      BY <2>2, <3>2, <3>3
  <2> QED
    BY <1>3, <2>1, <2>2
<1>6. /\ cmd' \in Commands /\ \A o, q \in cmd'.order : o = q
      /\ CommandInv' /\ AnswerInv'
  <2>1. CASE cmd' = Idle
    BY <2>1, IdleFacts
  <2>2. CASE cmd' = [cmd EXCEPT !.pc = "send"]
    <3>1. /\ cmd' \in Commands /\ cmd'.pc = "send" /\ cmd'.name = cmd.name
          /\ cmd'.order = cmd.order /\ cmd'.fills = cmd.fills
      BY <2>2 DEF LiveInv, TypeOK, Commands, Preparing
    <3>2. CommandInv'
      BY <1>1, <1>2, <1>4, <3>1 DEF CommandInv, RuntimeLocked, Preparing, Reconciling,
         Searching, Answered, Closing
    <3>3. AnswerInv'
      BY <1>1, <3>1, AnswerKept DEF LiveInv, AnswerInv, Answered, Honest, Truthful, world
    <3> QED
      BY <3>1, <3>2, <3>3 DEF LiveInv, TypeOK
  <2> QED
    BY <2>1, <2>2 DEF PrepareOrder, Goto, End
<1> QED
  BY <1>1, <1>2, <1>4, <1>6, PreparedStep

LEMMA SendStep ==
  ASSUME LiveInv, Send
  PROVE  LiveInv'
<1>1. /\ cmd.pc = "send" /\ cmd' = [cmd EXCEPT !.pc = "fills", !.now = clock]
      /\ wire' = (wire \/ clock < journal.signedExpiry)
      /\ UNCHANGED <<terms, clock, skew, venue, capped, stops, runtime, journal, accumulator>>
  BY DEF Send
<1>2. /\ cmd' \in Commands /\ cmd'.pc = "fills" /\ cmd'.now = clock
      /\ cmd'.order = cmd.order /\ cmd'.fills = cmd.fills
  BY <1>1, TermsFacts DEF LiveInv, TypeOK, Commands, Reconciling, Searching
<1>3. runtime.decision = "planned" /\ runtime.intent /\ journal.preparedAt # {}
  BY <1>1 DEF LiveInv, CommandInv, Preparing
<1>4. TypeOK'
  BY <1>1, <1>2, TermsFacts DEF LiveInv, TypeOK, Lag
<1>5. JournalInv'
  BY <1>1 DEF LiveInv, JournalInv
<1>6. VenueInv'
  BY <1>1, <1>3 DEF LiveInv, VenueInv, WriteAhead
<1>7. SettledInv'
  BY <1>1, <1>3 DEF LiveInv, SettledInv, LedgerMatchesJournal, Absent, EffectiveExpiry, Lag
<1>8. CommandInv'
  <2>1. journal.stage # "None"
    BY <1>3 DEF LiveInv, JournalInv
  <2> QED
    BY <1>1, <1>2, <2>1, TermsFacts DEF LiveInv, CommandInv, Preparing, Reconciling, Searching,
       Answered, Closing
<1>9. HonestInv'
  BY <1>1 DEF LiveInv, HonestInv, Honest, EffectiveExpiry, Lag
<1>10. AnswerInv'
  BY <1>1, <1>2, AnswerKept DEF LiveInv, AnswerInv, Answered, Honest, Truthful
<1> QED
  BY <1>4, <1>5, <1>6, <1>7, <1>8, <1>9, <1>10 DEF LiveInv

-----------------------------------------------------------------------------
(* Steps of a reconciliation *)

\* A review settles nothing and takes nothing back; only a lie of the venue calls for one.
LEMMA ReviewStep ==
  ASSUME LiveInv, NEW at \in Int, Review(at), journal.stage # "None", ~Honest,
         UNCHANGED <<world, runtime, accumulator>>
  PROVE  LiveInv'
<1>1. cmd' = Idle
  BY DEF Review, End
<1>2. CASE UNCHANGED journal
  BY <1>1, <1>2, IdleFacts, OwnStep DEF world, LiveInv, TypeOK
<1>3. CASE journal' = [journal EXCEPT !.stage = "ManualReview", !.pending = FALSE,
                                      !.lastAt = Later(at, @)]
  <2>1. Later(at, journal.lastAt) \in Int
    BY LaterFacts, TermsFacts DEF LiveInv
  <2>2. /\ journal' \in Journals /\ journal'.stage = "ManualReview" /\ ~journal'.pending
        /\ journal'.signedExpiry = journal.signedExpiry
        /\ journal'.preparedAt = journal.preparedAt /\ journal'.accepted = journal.accepted
        /\ journal'.matched = journal.matched /\ journal'.fills = journal.fills
    BY <1>3, <2>1 DEF LiveInv, TypeOK, Journals, Stages
  <2>3. TypeOK'
    BY <1>1, <2>2, IdleFacts DEF LiveInv, TypeOK, world, Lag
  <2>4. JournalInv'
    BY <2>2 DEF LiveInv, JournalInv, Live, Finalized
  <2>5. VenueInv'
    BY <2>2 DEF LiveInv, VenueInv, WriteAhead, world
  <2>6. SettledInv'
    BY <2>2 DEF LiveInv, SettledInv, LedgerMatchesJournal, Finalized
  <2>7. HonestInv' /\ AnswerInv'
    BY DEF HonestInv, AnswerInv, Honest, world
  <2> QED
    BY <1>1, <2>3, <2>4, <2>5, <2>6, <2>7, IdleFacts DEF LiveInv
<1> QED
  BY <1>2, <1>3 DEF Review

LEMMA MergeStep ==
  ASSUME LiveInv, Merge
  PROVE  LiveInv'
<1>1. cmd.pc = "merge" /\ UNCHANGED <<world, runtime, journal>>
  BY DEF Merge
<1>2. CASE UNCHANGED accumulator /\ cmd' = Idle
  BY <1>1, <1>2, IdleFacts, OwnStep DEF world, LiveInv, TypeOK
<1>3. CASE /\ Answer.size \in 1 .. Quantity
           /\ accumulator' = accumulator \cup cmd.fills
           /\ cmd' = [cmd EXCEPT !.pc = "submission"]
  <2>1. /\ cmd' \in Commands /\ cmd'.pc = "submission" /\ cmd'.name = cmd.name
        /\ cmd'.order = cmd.order /\ cmd'.fills = cmd.fills
    BY <1>3 DEF LiveInv, TypeOK, Commands, Reconciling, Answered
  <2>2. accumulator \subseteq accumulator' /\ accumulator' \subseteq Trades
    BY <1>3 DEF LiveInv, TypeOK, Commands
  <2>3. cmd.order # {} /\ journal.stage # "None"
    BY <1>1 DEF LiveInv, CommandInv, Answered, Reconciling
  <2>4. Answer' = Answer
    BY <2>1, <2>3, AnswerKept DEF LiveInv
  <2>5. TypeOK'
    BY <1>1, <2>1, <2>2 DEF LiveInv, TypeOK, world, Lag
  <2>6. JournalInv'
    BY <1>1, <2>2 DEF LiveInv, JournalInv
  <2>7. VenueInv'
    BY <1>1 DEF LiveInv, VenueInv, WriteAhead, world
  <2>8. SettledInv'
    BY <1>1 DEF LiveInv, SettledInv, LedgerMatchesJournal, Absent, EffectiveExpiry, Lag, world
  <2>9. CommandInv'
    BY <1>1, <1>3, <2>1, <2>3, <2>4 DEF CommandInv, Preparing, Reconciling, Searching,
       Answered, Closing
  <2>10. HonestInv'
    BY <1>1, <1>3 DEF LiveInv, HonestInv, AnswerInv, Honest, EffectiveExpiry, Lag, world
  <2>11. AnswerInv'
    BY <1>1, <2>1, <2>4 DEF LiveInv, AnswerInv, Answered, Honest, Truthful, world
  <2> QED
    BY <2>5, <2>6, <2>7, <2>8, <2>9, <2>10, <2>11 DEF LiveInv
<1> QED
  BY <1>2, <1>3 DEF Merge, Merged, Goto, End

\* An honest venue's acceptance is one the journal is waiting for, and of an action
\* whose expiry it precedes.
LEMMA HonestAcceptance ==
  ASSUME LiveInv, Honest, cmd.pc = "submission", ~journal.accepted
  PROVE  /\ journal.stage = "Decided" /\ journal.pending
         /\ Later(Answer.at, journal.lastAt) < journal.signedExpiry
<1>1. /\ venue.status # "unknown" /\ Answer.at = venue.at /\ venue.at < journal.signedExpiry
  BY DEF LiveInv, CommandInv, AnswerInv, Answered, Truthful, VenueInv
<1>2. journal.preparedAt # {}
  BY <1>1 DEF LiveInv, VenueInv, WriteAhead
<1>3. journal.stage = "Decided"
  BY <1>1, <1>2 DEF LiveInv, TypeOK, Journals, Stages, JournalInv, HonestInv, SettledInv, Absent
<1>4. journal.pending /\ journal.lastAt < journal.signedExpiry
  BY <1>2, <1>3 DEF LiveInv, JournalInv
<1>5. Answer.at \in Int /\ journal.lastAt \in Int
  BY TermsFacts, AnswerFacts DEF LiveInv, CommandInv, Answered, TypeOK
<1> QED
  BY <1>1, <1>3, <1>4, <1>5, LaterFacts

LEMMA RecordSubmissionStep ==
  ASSUME LiveInv, RecordSubmission
  PROVE  LiveInv'
<1> DEFINE acceptedAt == Later(Answer.at, journal.lastAt)
           now == Later(cmd.now, acceptedAt)
<1>1. cmd.pc = "submission" /\ UNCHANGED <<world, runtime, accumulator>>
  BY DEF RecordSubmission
<1>2. /\ cmd.order # {} /\ Answer.size \in 1 .. Quantity /\ journal.stage # "None"
      /\ Answer.at \in Int
  BY <1>1, AnswerFacts DEF LiveInv, TypeOK, CommandInv, Answered, Reconciling
<1>3. acceptedAt \in Int /\ now \in Int /\ Later(cmd.now, journal.lastAt) \in Int
      /\ acceptedAt >= Answer.at
  <2>1. cmd.now \in Int /\ journal.lastAt \in Int
    BY TermsFacts DEF LiveInv
  <2>2. acceptedAt \in Int /\ acceptedAt >= Answer.at
    BY <1>2, <2>1, LaterFacts
  <2> HIDE DEF acceptedAt
  <2> QED
    BY <1>2, <2>1, <2>2, LaterFacts
<1>4. /\ ~Honest \/ journal.accepted \/ acceptedAt < journal.signedExpiry
      /\ ~Honest \/ journal.accepted \/ (journal.stage = "Decided" /\ journal.pending)
  BY <1>1, HonestAcceptance
<1>5. CASE UNCHANGED journal /\ cmd' = Idle
  BY <1>1, <1>5, IdleFacts, OwnStep DEF world, LiveInv, TypeOK
<1>6. CASE /\ journal.accepted /\ journal.size = Answer.size /\ UNCHANGED journal
           /\ cmd' = [cmd EXCEPT !.pc = "fill", !.now = Later(@, journal.lastAt)]
  <2>1. /\ cmd' \in Commands /\ cmd'.pc = "fill" /\ cmd'.order = cmd.order
        /\ cmd'.fills = cmd.fills
    BY <1>3, <1>6 DEF LiveInv, TypeOK, Commands, Reconciling, Answered
  <2>2. Answer' = Answer
    BY <1>2, <2>1, AnswerKept DEF LiveInv
  <2>3. CommandInv'
    BY <1>2, <1>6, <2>1, <2>2 DEF CommandInv, Preparing, Reconciling, Searching, Answered,
       Closing
  <2>4. AnswerInv'
    BY <1>1, <1>6, <2>1, <2>2 DEF LiveInv, AnswerInv, Answered, Honest, Truthful, world
  <2> QED
    BY <1>1, <1>6, <2>1, <2>3, <2>4, OwnStep DEF world, LiveInv, TypeOK
<1>7. CASE /\ ~journal.accepted /\ acceptedAt < journal.signedExpiry
           /\ journal.stage = "Decided" /\ journal.pending
           /\ journal' = [journal EXCEPT !.stage = "OrderSubmitted", !.pending = FALSE,
                                         !.accepted = TRUE, !.size = Answer.size,
                                         !.lastAt = now]
           /\ cmd' = [cmd EXCEPT !.pc = "fill", !.now = now]
  <2> HIDE DEF now, acceptedAt
  <2>1. /\ cmd' \in Commands /\ cmd'.pc = "fill" /\ cmd'.order = cmd.order
        /\ cmd'.fills = cmd.fills
    BY <1>3, <1>7 DEF LiveInv, TypeOK, Commands, Reconciling, Answered
  <2>2. Answer' = Answer
    BY <1>2, <2>1, AnswerKept DEF LiveInv
  <2>3. /\ journal' \in Journals /\ journal'.stage = "OrderSubmitted" /\ ~journal'.pending
        /\ journal'.accepted /\ journal'.size = Answer.size
        /\ journal'.signedExpiry = journal.signedExpiry
        /\ journal'.preparedAt = journal.preparedAt
        /\ journal'.matched = journal.matched /\ journal'.fills = journal.fills
        /\ journal'.final = journal.final
    <3>1. Answer.size \in Nat
      BY <1>2, AnswerFacts DEF LiveInv, TypeOK
    <3> QED
      BY <1>3, <1>7, <3>1 DEF LiveInv, TypeOK, Journals, Stages, Live
  <2>4. TypeOK'
    BY <1>1, <2>1, <2>3 DEF LiveInv, TypeOK, world, Lag
  <2>5. journal.final = {} /\ runtime.decision # "settled" /\ journal.fills = {}
    BY <1>7 DEF LiveInv, JournalInv, SettledInv, LedgerMatchesJournal, Finalized
  <2>6. JournalInv'
    BY <1>1, <1>2, <2>3, <2>5 DEF LiveInv, JournalInv, Live, Finalized
  <2>7. VenueInv'
    BY <1>1, <2>3 DEF LiveInv, VenueInv, WriteAhead, world
  <2>8. SettledInv'
    BY <1>1, <2>3, <2>5 DEF SettledInv, LedgerMatchesJournal
  <2>9. CommandInv'
    BY <1>2, <2>1, <2>2, <2>3 DEF CommandInv, Preparing, Reconciling, Searching, Answered,
       Closing
  <2>10. Honest => venue.status # "unknown" /\ Answer.size = venue.size
    BY <1>1, <1>2 DEF LiveInv, AnswerInv, Truthful
  <2>11. HonestInv'
    BY <1>1, <2>3, <2>5, <2>10 DEF LiveInv, HonestInv, Honest, Finalized, world
  <2>12. AnswerInv'
    BY <1>1, <2>1, <2>2, <2>3 DEF LiveInv, AnswerInv, Answered, Finalized, Honest, Truthful,
       world
  <2> QED
    BY <2>4, <2>6, <2>7, <2>8, <2>9, <2>11, <2>12 DEF LiveInv
<1>8. CASE /\ ~journal.accepted
           /\ acceptedAt >= journal.signedExpiry \/ journal.stage \in Finalized
           /\ Review(now)
  <2>1. ~Honest
    <3> HIDE DEF acceptedAt
    <3> QED
      BY <1>3, <1>4, <1>8, TermsFacts DEF LiveInv, Finalized
  <2> HIDE DEF now
  <2> QED
    BY <1>1, <1>2, <1>3, <1>8, <2>1, ReviewStep
<1> HIDE DEF now, acceptedAt
<1> QED
  BY <1>5, <1>6, <1>7, <1>8 DEF RecordSubmission, End, now, acceptedAt

\* A command that goes on to finalize carries what it records; one that goes on to close
\* relies on no more than that there is a journal.
LEMMA GoesOn ==
  ASSUME LiveInv, UNCHANGED <<world, runtime, accumulator>>, cmd.pc \in Reconciling,
         NEW l \in {"finalize", "eligibility", "complete", "settle"},
         cmd' = [cmd EXCEPT !.pc = l], journal'.stage # "None",
         l = "complete" => journal'.stage = "StakingEligibilityRecorded",
         l = "finalize" =>
           /\ cmd.pc = "fill" /\ FillsComplete /\ journal'.accepted
           /\ Answer.filled # 0 =>
                [matched |-> Answer.filled, fills |-> accumulator] \in journal'.observations
           /\ journal'.stage \in Finalized => journal.stage \in Finalized
  PROVE  /\ cmd' \in Commands /\ \A o, q \in cmd'.order : o = q
         /\ CommandInv' /\ AnswerInv'
<1>1. /\ cmd' \in Commands /\ cmd'.pc = l /\ cmd'.order = cmd.order
      /\ cmd'.fills = cmd.fills
  BY DEF LiveInv, TypeOK, Commands, Reconciling, Answered, Closing
<1>2. \A o, q \in cmd'.order : o = q
  BY <1>1 DEF LiveInv, TypeOK
<1>3. CASE l = "finalize"
  <2>1. cmd.order # {} /\ Answer.size \in 1 .. Quantity
    BY <1>3 DEF LiveInv, CommandInv, Answered
  <2>2. Answer' = Answer
    BY <1>1, <2>1, AnswerKept DEF LiveInv
  <2>3. CommandInv'
    BY <1>1, <1>3, <2>1, <2>2 DEF CommandInv, FillsComplete, Preparing, Reconciling, Searching,
       Answered, Closing
  <2>4. AnswerInv'
    BY <1>1, <1>3, <2>2 DEF LiveInv, AnswerInv, Answered, Honest, Truthful, world
  <2> QED
    BY <1>1, <1>2, <2>3, <2>4
<1>4. CASE l # "finalize"
  <2>1. CommandInv'
    BY <1>1, <1>4 DEF CommandInv, Preparing, Reconciling, Searching, Answered, Closing
  <2>2. cmd.order # {} => Answer' = Answer
    BY <1>1, AnswerKept DEF LiveInv
  <2>3. AnswerInv'
    BY <1>1, <1>4, <2>2 DEF LiveInv, AnswerInv, Answered, Honest, Truthful, world
  <2> QED
    BY <1>1, <1>2, <2>1, <2>3
<1> QED
  BY <1>3, <1>4

\* What an honest venue's answer and the rows it accounts for come to.
LEMMA HonestTotals ==
  ASSUME LiveInv, Honest, cmd.pc \in {"fill", "finalize"}, FillsComplete
  PROVE  /\ journal.accepted /\ journal.stage \in Live \cup Finalized
         /\ journal.size = venue.size /\ venue.size \in 1 .. Quantity
         /\ Cardinality(accumulator) = Answer.filled /\ Answer.filled \in Nat
         /\ Answer.filled <= venue.size /\ Answer.filled >= journal.matched
         /\ journal.matched = Cardinality(journal.fills)
         /\ Answer.status # "open" => /\ accumulator = venue.trades
                                      /\ Answer.status = venue.status
         /\ \A allowZero \in BOOLEAN : (Answer.filled = 0 => allowZero) =>
              CumulativeOk(Answer.filled, accumulator, allowZero)
<1>1. /\ cmd.order # {} /\ journal.accepted /\ journal.stage # "None"
      /\ Cardinality(accumulator) = Answer.filled /\ Answer.filled \in Nat
  BY AnswerFacts DEF LiveInv, TypeOK, CommandInv, Answered, Reconciling, FillsComplete
<1>2. journal.stage \in Live \cup Finalized
  BY <1>1 DEF LiveInv, TypeOK, Journals, Stages, JournalInv, HonestInv
<1>3. /\ venue.status # "unknown" /\ journal.size = venue.size
      /\ journal.matched = Cardinality(journal.fills)
      /\ accumulator \subseteq venue.trades /\ journal.fills \subseteq accumulator
  BY <1>1 DEF LiveInv, HonestInv, JournalInv
<1>4. venue.size \in 1 .. Quantity /\ Cardinality(venue.trades) <= venue.size
  BY <1>3 DEF LiveInv, VenueInv
<1>5. venue.trades \in SUBSET Trades /\ accumulator \in SUBSET Trades
  BY DEF LiveInv, TypeOK, VenueOrders
<1>6. /\ Cardinality(accumulator) <= Cardinality(venue.trades)
      /\ Cardinality(accumulator) = Cardinality(venue.trades) => accumulator = venue.trades
      /\ Cardinality(venue.trades) \in Nat
  BY <1>3, <1>5, TradesFacts
<1>7. /\ Cardinality(journal.fills) <= Cardinality(accumulator)
      /\ Cardinality(accumulator) = 0 <=> accumulator = {}
  BY <1>3, <1>5, TradesFacts
<1>8. Answer.status # "open" =>
        Answer.status = venue.status /\ Answer.filled = Cardinality(venue.trades)
  BY <1>1 DEF LiveInv, AnswerInv, Truthful
<1>9. Answer.filled <= venue.size /\ Answer.filled >= journal.matched
  BY <1>1, <1>3, <1>4, <1>6, <1>7, LiveDayAssumption DEF LiveDayAssumption
<1>10. ASSUME NEW allowZero \in BOOLEAN, Answer.filled = 0 => allowZero
       PROVE  CumulativeOk(Answer.filled, accumulator, allowZero)
  BY <1>1, <1>3, <1>7, <1>9, <1>10 DEF CumulativeOk
<1> QED
  BY <1>1, <1>2, <1>3, <1>4, <1>6, <1>8, <1>9, <1>10

\* Totals a journal takes over are those of the rows, and leave the rest as it is.
LEMMA TotalsStep ==
  ASSUME LiveInv, UNCHANGED <<world, runtime, accumulator>>,
         cmd.pc \in {"fill", "finalize"}, FillsComplete, journal.stage \in Live,
         journal' \in Journals, journal'.stage \in Live \cup {"OrderFinalized"},
         journal'.pending = journal.pending, journal'.accepted = journal.accepted,
         journal'.size = journal.size, journal'.signedExpiry = journal.signedExpiry,
         journal'.preparedAt = journal.preparedAt,
         journal'.matched = Answer.filled, journal'.fills = accumulator,
         journal'.stage \in Live => journal'.final = journal.final,
         journal'.stage = "Filled" => Answer.filled = journal.size,
         journal'.stage = "OrderFinalized" /\ Honest =>
           /\ Answer.status \in Terminal
           /\ [matched |-> Answer.filled, fills |-> accumulator,
               finality |-> Answer.status] \in journal'.final
           /\ Answer.filled # 0 =>
                [matched |-> Answer.filled, fills |-> accumulator] \in journal'.observations,
         cmd' \in Commands, \A o, q \in cmd'.order : o = q, CommandInv', AnswerInv'
  PROVE  LiveInv'
<1>1. TypeOK'
  BY DEF LiveInv, TypeOK, world, Lag
<1>2. /\ journal.accepted /\ ~journal.pending /\ journal.final = {}
      /\ runtime.intent /\ runtime.decision # "settled"
  BY DEF LiveInv, JournalInv, SettledInv, LedgerMatchesJournal, Live, Finalized
<1>3. JournalInv'
  BY <1>2 DEF LiveInv, JournalInv, Live, Finalized
<1>4. VenueInv'
  BY DEF LiveInv, VenueInv, WriteAhead, world
<1>5. SettledInv'
  BY <1>2 DEF SettledInv, LedgerMatchesJournal
<1>6. HonestInv'
  <2>1. SUFFICES ASSUME Honest
                 PROVE  HonestInv'
    BY DEF HonestInv, Honest, world
  <2>2. /\ Cardinality(accumulator) = Answer.filled /\ journal.size = venue.size
        /\ Answer.status # "open" => accumulator = venue.trades /\ Answer.status = venue.status
        /\ Answer.status \in Statuses
    BY <2>1, HonestTotals, AnswerFacts DEF LiveInv, TypeOK, CommandInv, Answered
  <2>3. accumulator \subseteq venue.trades /\ venue.status # "unknown"
    BY <1>2, <2>1 DEF LiveInv, HonestInv
  <2> QED
    BY <1>2, <2>1, <2>2, <2>3 DEF HonestInv, Live, Finalized, Terminal, world
<1> QED
  BY <1>1, <1>3, <1>4, <1>5, <1>6 DEF LiveInv

LEMMA RecordFillStep ==
  ASSUME LiveInv, RecordFill
  PROVE  LiveInv'
<1> DEFINE o == [matched |-> Answer.filled, fills |-> accumulator]
           valid == /\ CumulativeOk(o.matched, o.fills, FALSE)
                    /\ journal.stage = "Filled" => o.matched = journal.size
<1>1. cmd.pc = "fill" /\ UNCHANGED <<world, runtime, accumulator>>
  BY DEF RecordFill
<1>2. /\ cmd.order # {} /\ journal.accepted /\ journal.stage # "None"
      /\ Answer.filled \in Nat /\ accumulator \in SUBSET Trades /\ cmd.now \in Int
  BY <1>1, AnswerFacts, TermsFacts DEF LiveInv, TypeOK, CommandInv, Answered, Reconciling
<1>3. o \in Totals
  BY <1>2 DEF Totals
<1>4. cmd.pc \in Reconciling
  BY <1>1 DEF Reconciling, Answered
<1>5. CASE ~FillsComplete /\ UNCHANGED journal /\ cmd' = [cmd EXCEPT !.pc = "eligibility"]
  BY <1>1, <1>2, <1>4, <1>5, GoesOn, OwnStep DEF world, LiveInv, TypeOK
<1>6. CASE /\ FillsComplete
           /\ o.matched = 0 \/ o \in journal.observations
           /\ UNCHANGED journal /\ cmd' = [cmd EXCEPT !.pc = "finalize"]
  BY <1>1, <1>2, <1>4, <1>6, GoesOn, OwnStep DEF world, LiveInv, TypeOK
<1>7. CASE /\ FillsComplete /\ journal.stage \in Live
           /\ journal' = [journal EXCEPT
                !.stage = IF o.matched = journal.size THEN "Filled" ELSE "PartiallyFilled",
                !.matched = o.matched, !.fills = o.fills, !.lastAt = cmd.now,
                !.observations = @ \cup {o}]
           /\ cmd' = [cmd EXCEPT !.pc = "finalize"]
  <2>1. o.matched = Answer.filled /\ o.fills = accumulator
    OBVIOUS
  <2> HIDE DEF o
  <2>2. journal \in Journals
    BY DEF LiveInv, TypeOK
  <2>3. /\ journal' \in Journals
        /\ journal'.stage \in {"Filled", "PartiallyFilled"}
        /\ journal'.stage = "Filled" => Answer.filled = journal.size
    BY <1>2, <1>3, <1>7, <2>1, <2>2 DEF Journals, Stages, Live
  <2>4. /\ journal'.pending = journal.pending /\ journal'.accepted = journal.accepted
        /\ journal'.size = journal.size /\ journal'.signedExpiry = journal.signedExpiry
        /\ journal'.preparedAt = journal.preparedAt /\ journal'.final = journal.final
        /\ journal'.matched = Answer.filled /\ journal'.fills = accumulator
        /\ o \in journal'.observations
    BY <1>7, <2>1, <2>2 DEF Journals
  <2>5. /\ cmd' \in Commands /\ \A p, q \in cmd'.order : p = q
        /\ CommandInv' /\ AnswerInv'
    BY <1>1, <1>2, <1>4, <1>7, <2>3, <2>4, GoesOn DEF o, Finalized
  <2> QED
    BY <1>1, <1>7, <2>3, <2>4, <2>5, TotalsStep DEF Live
<1>8. CASE /\ FillsComplete /\ o.matched # 0 /\ o \notin journal.observations
           /\ journal.stage \in Finalized \/ (journal.stage \in Live /\ ~valid)
           /\ Review(cmd.now)
  <2>1. ASSUME Honest
        PROVE  FALSE
    <3>1. journal.stage \notin Finalized
      <4>1. ASSUME journal.stage \in Finalized
            PROVE  o \in journal.observations
        <5>1. /\ journal.fills = venue.trades
              /\ journal.matched = Cardinality(journal.fills)
              /\ journal.matched # 0 =>
                   [matched |-> journal.matched, fills |-> journal.fills]
                     \in journal.observations
          BY <1>2, <2>1, <4>1 DEF LiveInv, HonestInv
        <5>2. Answer.status # "open"
          BY <1>1, <2>1, <4>1 DEF LiveInv, AnswerInv, Answered
        <5>3. accumulator = venue.trades /\ Cardinality(accumulator) = Answer.filled
          BY <1>1, <1>8, <2>1, <5>2, HonestTotals
        <5> QED
          BY <1>8, <5>1, <5>3
      <4> QED
        BY <1>8, <4>1
    <3>2. valid
      <4>1. CumulativeOk(Answer.filled, accumulator, FALSE)
        BY <1>1, <1>8, <2>1, HonestTotals
      <4>2. journal.stage = "Filled" => Answer.filled = journal.size
        <5>1. journal.stage = "Filled" => journal.matched = journal.size
          BY <2>1 DEF LiveInv, HonestInv
        <5>2. /\ Answer.filled <= venue.size /\ Answer.filled >= journal.matched
              /\ journal.size = venue.size /\ venue.size \in 1 .. Quantity
          BY <1>1, <1>8, <2>1, HonestTotals
        <5> QED
          BY <1>2, <5>1, <5>2, LiveDayAssumption DEF LiveDayAssumption
      <4> QED
        BY <4>1, <4>2
    <3> QED
      BY <1>8, <3>1, <3>2
  <2> QED
    BY <1>1, <1>2, <1>8, <2>1, ReviewStep
<1>9. CASE UNCHANGED journal /\ cmd' = Idle
  BY <1>1, <1>9, IdleFacts, OwnStep DEF world, LiveInv, TypeOK
<1> QED
  BY <1>5, <1>6, <1>7, <1>8, <1>9 DEF RecordFill, Goto, End

LEMMA FinalizeStep ==
  ASSUME LiveInv, Finalize
  PROVE  LiveInv'
<1> DEFINE f == [matched |-> Answer.filled, fills |-> accumulator, finality |-> Answer.status]
           valid == /\ CumulativeOk(f.matched, f.fills, f.finality = "canceled")
                    /\ f.finality = "filled" => f.matched = journal.size
<1>1. cmd.pc = "finalize" /\ UNCHANGED <<world, runtime, accumulator>>
  BY DEF Finalize
<1>2. /\ cmd.order # {} /\ journal.accepted /\ journal.stage # "None" /\ FillsComplete
      /\ Answer.filled \in Nat /\ Answer.status \in Statuses
      /\ accumulator \in SUBSET Trades /\ cmd.now \in Int
  BY <1>1, AnswerFacts, TermsFacts DEF LiveInv, TypeOK, CommandInv, Answered, Reconciling
<1>3. f \in Ends
  BY <1>2 DEF Ends
<1>4. cmd.pc \in Reconciling
  BY <1>1 DEF Reconciling, Answered
<1>5. CASE UNCHANGED journal /\ cmd' = [cmd EXCEPT !.pc = "eligibility"]
  BY <1>1, <1>2, <1>4, <1>5, GoesOn, OwnStep DEF world, LiveInv, TypeOK
<1>6. CASE /\ Answer.status \in Terminal /\ journal.stage \in Live
           /\ journal' = [journal EXCEPT !.stage = "OrderFinalized",
                                         !.matched = f.matched, !.fills = f.fills,
                                         !.lastAt = cmd.now, !.final = {f}]
           /\ cmd' = [cmd EXCEPT !.pc = "eligibility"]
  <2>1. f.matched = Answer.filled /\ f.fills = accumulator
    OBVIOUS
  <2>2. f \in {f} /\ f = [matched |-> Answer.filled, fills |-> accumulator,
                          finality |-> Answer.status]
    OBVIOUS
  <2> HIDE DEF f
  <2>3. journal \in Journals
    BY DEF LiveInv, TypeOK
  <2>4. journal' \in Journals /\ journal'.stage = "OrderFinalized"
    BY <1>2, <1>3, <1>6, <2>1, <2>3 DEF Journals, Stages, Finalized
  <2>5. /\ journal'.pending = journal.pending /\ journal'.accepted = journal.accepted
        /\ journal'.size = journal.size /\ journal'.signedExpiry = journal.signedExpiry
        /\ journal'.preparedAt = journal.preparedAt
        /\ journal'.matched = Answer.filled /\ journal'.fills = accumulator
        /\ journal'.observations = journal.observations /\ f \in journal'.final
    BY <1>6, <2>1, <2>2, <2>3 DEF Journals
  <2>6. /\ cmd' \in Commands /\ \A p, q \in cmd'.order : p = q
        /\ CommandInv' /\ AnswerInv'
    BY <1>1, <1>4, <1>6, <2>4, GoesOn
  <2>7. Honest /\ Answer.filled # 0 =>
          [matched |-> Answer.filled, fills |-> accumulator] \in journal'.observations
    BY <1>1, <2>5 DEF LiveInv, AnswerInv
  <2>8. "OrderFinalized" \notin Live /\ "OrderFinalized" # "Filled"
    BY DEF Live
  <2> QED
    BY <1>1, <1>2, <1>6, <2>2, <2>4, <2>5, <2>6, <2>7, <2>8, TotalsStep
<1>7. CASE /\ Answer.status \in Terminal /\ f \notin journal.final
           /\ journal.stage \in Finalized \/ (journal.stage \in Live /\ ~valid)
           /\ Review(cmd.now)
  <2>1. ASSUME Honest
        PROVE  FALSE
    <3>1. /\ accumulator = venue.trades /\ Cardinality(accumulator) = Answer.filled
          /\ Answer.status = venue.status /\ journal.size = venue.size
          /\ venue.size \in 1 .. Quantity
      BY <1>1, <1>2, <1>7, <2>1, HonestTotals DEF Terminal
    <3>2. journal.stage \notin Finalized
      <4>1. ASSUME journal.stage \in Finalized
            PROVE  f \in journal.final
        <5>1. /\ journal.fills = venue.trades
              /\ journal.matched = Cardinality(journal.fills)
              /\ [matched |-> journal.matched, fills |-> journal.fills,
                  finality |-> venue.status] \in journal.final
          BY <1>2, <2>1, <4>1 DEF LiveInv, HonestInv
        <5> QED
          BY <3>1, <5>1
      <4> QED
        BY <1>7, <4>1
    <3>3. Answer.status = "filled" => Answer.filled = journal.size
      BY <3>1 DEF LiveInv, VenueInv
    <3>4. Answer.filled = 0 => Answer.status = "canceled"
      BY <1>2, <1>7, <3>1, <3>3, LiveDayAssumption DEF LiveDayAssumption, Terminal
    <3>5. CumulativeOk(Answer.filled, accumulator, Answer.status = "canceled")
      <4> DEFINE zero == Answer.status = "canceled"
      <4>1. zero \in BOOLEAN /\ (Answer.filled = 0 => zero)
        BY <3>4
      <4> HIDE DEF zero
      <4>2. CumulativeOk(Answer.filled, accumulator, zero)
        BY <1>1, <1>2, <2>1, <4>1, HonestTotals
      <4> QED
        BY <4>2 DEF zero
    <3>6. valid
      BY <3>3, <3>5
    <3> QED
      BY <1>7, <3>2, <3>6
  <2> QED
    BY <1>1, <1>2, <1>7, <2>1, ReviewStep
<1>8. CASE UNCHANGED journal /\ cmd' = Idle
  BY <1>1, <1>8, IdleFacts, OwnStep DEF world, LiveInv, TypeOK
<1> QED
  BY <1>5, <1>6, <1>7, <1>8 DEF Finalize, Goto, End

\* Closing a journal moves it among its final stages; an absence comes first to them.
LEMMA ClosingStep ==
  ASSUME LiveInv, UNCHANGED <<world, runtime, accumulator>>,
         journal' \in Journals, journal'.stage \in Finalized, ~journal'.pending,
         \/ journal.stage \in Finalized
         \/ journal.stage = "Decided" /\ clock > EffectiveExpiry /\ venue.status = "unknown",
         journal'.accepted = journal.accepted, journal'.size = journal.size,
         journal'.signedExpiry = journal.signedExpiry,
         journal'.preparedAt = journal.preparedAt, journal'.matched = journal.matched,
         journal'.fills = journal.fills, journal'.final = journal.final,
         journal'.observations = journal.observations,
         cmd' \in Commands, \A o, q \in cmd'.order : o = q, CommandInv', AnswerInv'
  PROVE  LiveInv'
<1>1. TypeOK'
  BY DEF LiveInv, TypeOK, world, Lag
<1>2. journal.stage = "Decided" => ~journal.accepted /\ runtime.decision # "settled"
  <2>1. journal.stage = "Decided" => runtime.intent /\ ~journal.accepted
    BY DEF LiveInv, JournalInv
  <2> QED
    BY <2>1 DEF LiveInv, SettledInv, LedgerMatchesJournal, Finalized
<1>3. journal'.stage \notin {"None", "Decided", "ManualReview", "Filled"} \cup Live
  BY DEF Live, Finalized
<1>4. JournalInv'
  BY <1>2, <1>3 DEF LiveInv, JournalInv, Finalized
<1>5. VenueInv'
  BY DEF LiveInv, VenueInv, WriteAhead, world
<1>6. SettledInv'
  BY <1>2 DEF LiveInv, SettledInv, LedgerMatchesJournal, Absent, EffectiveExpiry, Lag, Finalized,
     world
<1>7. HonestInv'
  BY <1>2, <1>3 DEF LiveInv, HonestInv, Honest, EffectiveExpiry, Lag, Finalized, world
<1> QED
  BY <1>1, <1>4, <1>5, <1>6, <1>7 DEF LiveInv

LEMMA RecordAbsenceStep ==
  ASSUME LiveInv, RecordAbsence
  PROVE  LiveInv'
<1>1. cmd.pc = "absent" /\ UNCHANGED <<world, runtime, accumulator>>
  BY DEF RecordAbsence
<1>2. cmd.pc \in Reconciling
  BY <1>1 DEF Reconciling, Searching
<1>3. CASE UNCHANGED journal /\ cmd' = Idle
  BY <1>1, <1>3, IdleFacts, OwnStep DEF world, LiveInv, TypeOK
<1>4. CASE /\ ~cmd.seen
           /\ journal' = [journal EXCEPT !.stage = "OrderFinalized", !.pending = FALSE,
                                         !.lastAt = Later(cmd.now, clock)]
           /\ cmd' = [cmd EXCEPT !.pc = "eligibility"]
  <2>1. Later(cmd.now, clock) \in Int
    BY LaterFacts, TermsFacts DEF LiveInv
  <2>2. /\ journal' \in Journals /\ journal'.stage = "OrderFinalized" /\ ~journal'.pending
        /\ journal'.accepted = journal.accepted /\ journal'.size = journal.size
        /\ journal'.signedExpiry = journal.signedExpiry
        /\ journal'.preparedAt = journal.preparedAt /\ journal'.matched = journal.matched
        /\ journal'.fills = journal.fills /\ journal'.final = journal.final
        /\ journal'.observations = journal.observations
    BY <1>4, <2>1 DEF LiveInv, TypeOK, Journals, Stages, Finalized
  <2>3. journal.stage = "Decided" /\ clock > EffectiveExpiry /\ venue.status = "unknown"
    BY <1>1, <1>4 DEF LiveInv, CommandInv
  <2>4. /\ cmd' \in Commands /\ \A p, q \in cmd'.order : p = q
        /\ CommandInv' /\ AnswerInv'
    BY <1>1, <1>2, <1>4, <2>2, GoesOn
  <2> QED
    BY <1>1, <2>2, <2>3, <2>4, ClosingStep DEF Finalized
<1> QED
  BY <1>3, <1>4 DEF RecordAbsence, Goto, End

LEMMA EligibilitySteps ==
  ASSUME LiveInv, RecordEligibility \/ Complete
  PROVE  LiveInv'
<1>1. /\ cmd.pc \in {"eligibility", "complete"} /\ UNCHANGED <<world, runtime, accumulator>>
  BY DEF RecordEligibility, Complete
<1>2. cmd.pc \in Reconciling /\ journal.stage # "None"
  BY <1>1 DEF LiveInv, CommandInv, Reconciling, Closing
<1>3. CASE /\ UNCHANGED journal
           /\ \/ cmd' = [cmd EXCEPT !.pc = "settle"]
              \/ /\ journal.stage = "StakingEligibilityRecorded"
                 /\ cmd' = [cmd EXCEPT !.pc = "complete"]
  BY <1>1, <1>2, <1>3, GoesOn, OwnStep DEF world, LiveInv, TypeOK
<1>4. ASSUME NEW s \in {"StakingEligibilityRecorded", "Complete"},
             NEW l \in {"complete", "settle"}, l = "complete" => s # "Complete",
             journal.stage \in Finalized,
             journal' = [journal EXCEPT !.stage = s, !.lastAt = Later(cmd.now, @)],
             cmd' = [cmd EXCEPT !.pc = l]
      PROVE  LiveInv'
  <2>1. Later(cmd.now, journal.lastAt) \in Int
    BY LaterFacts, TermsFacts DEF LiveInv
  <2>2. /\ journal' \in Journals /\ journal'.stage = s /\ journal'.pending = journal.pending
        /\ journal'.accepted = journal.accepted /\ journal'.size = journal.size
        /\ journal'.signedExpiry = journal.signedExpiry
        /\ journal'.preparedAt = journal.preparedAt /\ journal'.matched = journal.matched
        /\ journal'.fills = journal.fills /\ journal'.final = journal.final
        /\ journal'.observations = journal.observations
    BY <1>4, <2>1 DEF LiveInv, TypeOK, Journals, Stages, Finalized
  <2>3. ~journal.pending
    BY <1>4 DEF LiveInv, JournalInv, Finalized
  <2>4. /\ cmd' \in Commands /\ \A p, q \in cmd'.order : p = q
        /\ CommandInv' /\ AnswerInv'
    BY <1>1, <1>2, <1>4, <2>2, GoesOn
  <2> QED
    BY <1>1, <1>4, <2>2, <2>3, <2>4, ClosingStep DEF Finalized
<1>5. CASE RecordEligibility
  BY <1>3, <1>4, <1>5 DEF RecordEligibility, Goto, Finalized
<1>6. CASE Complete
  <2>1. journal.stage = "StakingEligibilityRecorded"
    BY <1>6 DEF Complete, LiveInv, CommandInv
  <2> QED
    BY <1>4, <1>6, <2>1 DEF Complete, Goto, Finalized
<1> QED
  BY <1>5, <1>6

LEMMA SettleStep ==
  ASSUME LiveInv, Settle
  PROVE  LiveInv'
<1>1. cmd.pc = "settle" /\ cmd' = Idle /\ UNCHANGED <<world, journal, accumulator>>
  BY DEF Settle, End
<1>2. CASE UNCHANGED runtime
  BY <1>1, <1>2, IdleFacts, OwnStep DEF world, LiveInv, TypeOK
<1>3. CASE /\ journal.stage \in Finalized
           /\ runtime' = [runtime EXCEPT !.decision = "settled", !.fills = journal.fills]
  <2>1. /\ runtime' \in Decisions /\ runtime'.decision = "settled"
        /\ runtime'.intent = runtime.intent /\ runtime'.fills = journal.fills
    BY <1>3 DEF LiveInv, TypeOK, Decisions, Journals
  <2>2. runtime.intent
    BY <1>3 DEF LiveInv, JournalInv, Finalized
  <2>3. TypeOK'
    BY <1>1, <2>1, IdleFacts DEF LiveInv, TypeOK, world, Lag
  <2>4. JournalInv'
    BY <1>1, <2>1 DEF LiveInv, JournalInv
  <2>5. VenueInv'
    BY <1>1, <2>1 DEF LiveInv, VenueInv, WriteAhead, world
  <2>6. SettledInv'
    BY <1>1, <1>3, <2>1, <2>2 DEF LiveInv, SettledInv, LedgerMatchesJournal, Absent,
       EffectiveExpiry, Lag, world
  <2>7. HonestInv'
    <3>1. SUFFICES ASSUME Honest
                   PROVE  HonestInv'
      BY <1>1 DEF HonestInv, Honest, world
    <3>2. /\ venue.status # "open" /\ journal.fills = venue.trades
          /\ venue.status = "unknown" => clock > EffectiveExpiry
      <4>1. CASE journal.accepted
        BY <1>3, <3>1, <4>1 DEF LiveInv, HonestInv
      <4>2. CASE ~journal.accepted
        BY <1>3, <4>2 DEF LiveInv, SettledInv, Absent, VenueInv, JournalInv
      <4> QED
        BY <4>1, <4>2
    <3> QED
      BY <1>1, <2>1, <3>1, <3>2 DEF LiveInv, HonestInv, Honest, EffectiveExpiry, Lag, world
  <2> QED
    BY <1>1, <2>3, <2>4, <2>5, <2>6, <2>7, IdleFacts DEF LiveInv
<1> QED
  BY <1>2, <1>3 DEF Settle

-----------------------------------------------------------------------------
(* Steps of the release command and of the environment *)

LEMMA ReleaseStep ==
  ASSUME LiveInv, Release
  PROVE  LiveInv'
<1>1. /\ ~RuntimeLocked /\ runtime.decision = "planned" /\ ~runtime.intent
      /\ journal.stage = "None"
      /\ runtime' = [runtime EXCEPT !.decision = "settled", !.fills = {}]
      /\ UNCHANGED <<world, journal, accumulator, cmd>>
  BY DEF Release
<1>2. /\ runtime' \in Decisions /\ runtime'.decision = "settled"
      /\ ~runtime'.intent /\ runtime'.fills = {}
  BY <1>1 DEF LiveInv, TypeOK, Decisions
<1>3. ~wire /\ venue.status = "unknown" /\ venue.trades = {}
  BY <1>1 DEF LiveInv, JournalInv, VenueInv, WriteAhead
<1>4. TypeOK'
  BY <1>1, <1>2 DEF LiveInv, TypeOK, world, Lag
<1>5. JournalInv'
  BY <1>1 DEF LiveInv, JournalInv, Live
<1>6. VenueInv'
  BY <1>1, <1>3 DEF LiveInv, VenueInv, WriteAhead, world
<1>7. SettledInv'
  BY <1>1, <1>2 DEF SettledInv, LedgerMatchesJournal, Finalized
<1>8. CommandInv'
  <2>1. cmd.pc \notin Preparing
    BY <1>1 DEF LiveInv, CommandInv
  <2>2. RuntimeLocked' = RuntimeLocked /\ FillsComplete' = FillsComplete /\ Answer' = Answer
    BY <1>1 DEF RuntimeLocked, FillsComplete, Answer
  <2> QED
    BY <1>1, <2>1, <2>2 DEF LiveInv, CommandInv, EffectiveExpiry, Lag, Preparing, world
<1>9. HonestInv'
  BY <1>1, <1>2, <1>3 DEF LiveInv, HonestInv, Honest, Finalized, world
<1>10. AnswerInv'
  <2>1. Answer' = Answer
    BY <1>1 DEF Answer
  <2> QED
    BY <1>1, <2>1 DEF LiveInv, AnswerInv, Honest, Truthful, world
<1> QED
  BY <1>4, <1>5, <1>6, <1>7, <1>8, <1>9, <1>10 DEF LiveInv

\* What the clock and the venue do leaves the host's files and its command alone; what
\* the command relies on must survive it.
LEMMA WorldStep ==
  ASSUME LiveInv, UNCHANGED <<terms, skew, stops, runtime, journal, accumulator, cmd>>,
         clock' \in Nat, clock' >= clock, wire' \in BOOLEAN, wire' => wire,
         capped' \in BOOLEAN,
         venue' \in VenueOrders, venue.trades \subseteq venue'.trades,
         IF venue'.status = "unknown" THEN venue' = venue
         ELSE /\ WriteAhead'
              /\ venue'.at < journal.signedExpiry /\ venue'.size \in 1 .. Quantity,
         Cardinality(venue'.trades) <= venue'.size,
         venue'.status = "filled" => Cardinality(venue'.trades) = venue'.size,
         clock > EffectiveExpiry /\ venue.status = "unknown" => venue'.status = "unknown",
         venue.status # "unknown" =>
           /\ venue'.status # "unknown" /\ venue'.size = venue.size /\ venue'.at = venue.at
           /\ venue' # venue => venue.status = "open"
  PROVE  LiveInv'
<1>1. TypeOK'
  BY DEF LiveInv, TypeOK, Lag
<1>2. JournalInv'
  BY DEF LiveInv, JournalInv
<1>3. VenueInv'
  BY DEF LiveInv, VenueInv, WriteAhead
<1>4. /\ clock \in Int /\ clock' \in Int /\ EffectiveExpiry \in Int
      /\ EffectiveExpiry' = EffectiveExpiry /\ cmd.now \in Int
  BY TermsFacts DEF LiveInv, EffectiveExpiry, Lag
<1>5. clock > EffectiveExpiry => clock' > EffectiveExpiry'
  BY <1>4
<1>6. SettledInv'
  BY <1>5 DEF LiveInv, SettledInv, LedgerMatchesJournal, Absent
<1>7. CommandInv'
  <2>1. RuntimeLocked' = RuntimeLocked /\ FillsComplete' = FillsComplete /\ Answer' = Answer
    BY DEF RuntimeLocked, FillsComplete, Answer
  <2>2. cmd.now <= clock => cmd.now <= clock'
    BY <1>4
  <2> QED
    BY <1>5, <2>1, <2>2 DEF LiveInv, CommandInv
<1>8. HonestInv'
  <2>1. SUFFICES ASSUME Honest
                 PROVE  HonestInv'
    BY DEF HonestInv, Honest
  <2>2. /\ journal.stage # "ManualReview" /\ accumulator \subseteq venue'.trades
        /\ journal.accepted => venue'.status # "unknown" /\ journal.size = venue'.size
        /\ journal.matched = Cardinality(journal.fills)
        /\ journal.stage = "Filled" => journal.matched = journal.size
    BY <2>1 DEF LiveInv, HonestInv
  <2>3. ASSUME journal.stage \in Finalized, journal.accepted
        PROVE  venue' = venue
    BY <2>1, <2>3 DEF LiveInv, HonestInv
  <2>4. ASSUME runtime.decision = "settled"
        PROVE  venue' = venue
    <3>1. CASE venue.status = "unknown"
      <4>1. CASE runtime.intent
        BY <2>1, <2>4, <3>1, <4>1 DEF LiveInv, HonestInv
      <4>2. CASE ~runtime.intent
        BY <4>2 DEF WriteAhead
      <4> QED
        BY <4>1, <4>2
    <3>2. CASE venue.status # "unknown"
      BY <2>1, <2>4, <3>2 DEF LiveInv, HonestInv
    <3> QED
      BY <3>1, <3>2
  <2> QED
    BY <1>5, <2>1, <2>2, <2>3, <2>4 DEF LiveInv, HonestInv, Honest
<1>9. AnswerInv'
  <2>1. Answer' = Answer
    BY DEF Answer
  <2>2. SUFFICES ASSUME Honest
                 PROVE  AnswerInv'
    BY DEF AnswerInv, Honest
  <2>3. /\ Cardinality(venue.trades) <= Cardinality(venue'.trades)
        /\ Cardinality(venue.trades) \in Nat /\ Cardinality(venue'.trades) \in Nat
    BY TradesFacts DEF LiveInv, TypeOK, VenueOrders
  <2>4. ASSUME cmd.order # {}
        PROVE  Truthful(Answer)'
    <3>1. Answer.filled \in Nat
      BY <2>4, AnswerFacts DEF LiveInv, TypeOK
    <3> QED
      BY <2>1, <2>2, <2>3, <2>4, <3>1 DEF LiveInv, AnswerInv, Truthful
  <2> QED
    BY <2>1, <2>2, <2>4 DEF LiveInv, AnswerInv
<1> QED
  BY <1>1, <1>2, <1>3, <1>6, <1>7, <1>8, <1>9 DEF LiveInv

LEMMA TickStep ==
  ASSUME LiveInv, Tick
  PROVE  LiveInv'
<1>1. clock' = clock + 1
      /\ UNCHANGED <<terms, skew, wire, venue, capped, stops, runtime, journal, accumulator,
                     cmd>>
  BY DEF Tick
<1> QED
  BY <1>1, WorldStep DEF LiveInv, TypeOK, VenueInv, WriteAhead

\* The venue accepts nothing once this host's clock is past the effective expiry.
LEMMA DeliverStep ==
  ASSUME LiveInv, Deliver
  PROVE  LiveInv'
<1>1. /\ wire /\ wire' = FALSE
      /\ UNCHANGED <<terms, clock, skew, capped, stops, runtime, journal, accumulator, cmd>>
  BY DEF Deliver
<1>2. CASE UNCHANGED venue
  <2>1. WriteAhead'
    BY <1>1, <1>2 DEF LiveInv, VenueInv, WriteAhead
  <2>2. IF venue.status = "unknown" THEN TRUE
        ELSE venue.at < journal.signedExpiry /\ venue.size \in 1 .. Quantity
    BY DEF LiveInv, VenueInv
  <2>3. /\ Cardinality(venue.trades) <= venue.size
        /\ venue.status = "filled" => Cardinality(venue.trades) = venue.size
    BY DEF LiveInv, VenueInv
  <2>4. clock \in Nat /\ clock >= clock /\ venue \in VenueOrders /\ capped \in BOOLEAN
    BY DEF LiveInv, TypeOK
  <2> QED
    BY <1>1, <1>2, <2>1, <2>2, <2>3, <2>4, WorldStep
<1>3. ASSUME NEW size \in terms.accepts, venue.status = "unknown",
             clock + skew < journal.signedExpiry,
             venue' = [venue EXCEPT !.status = "open", !.at = clock + skew, !.size = size]
      PROVE  LiveInv'
  <2>1. size \in 1 .. Quantity /\ size \in Nat /\ clock + skew \in Int
    BY <1>3, TermsFacts, LiveDayAssumption DEF LiveDayAssumption, LiveInv
  <2>2. /\ venue' \in VenueOrders /\ venue'.status = "open" /\ venue'.at = clock + skew
        /\ venue'.size = size /\ venue'.trades = venue.trades
    BY <1>3, <2>1 DEF LiveInv, TypeOK, VenueOrders, Statuses
  <2>3. venue.trades = {}
    BY <1>3 DEF LiveInv, VenueInv
  <2>4. Cardinality(venue'.trades) = 0
    BY <2>2, <2>3, FS_EmptySet
  <2>5. ~(clock > EffectiveExpiry)
    BY <1>3, TermsFacts DEF LiveInv
  <2>6. WriteAhead'
    BY <1>1 DEF LiveInv, VenueInv, WriteAhead
  <2>7. clock \in Nat /\ clock >= clock /\ capped \in BOOLEAN
    BY DEF LiveInv, TypeOK
  <2>8. /\ Cardinality(venue'.trades) <= venue'.size
        /\ venue'.at < journal.signedExpiry /\ venue'.size \in 1 .. Quantity
    BY <1>3, <2>1, <2>2, <2>4
  <2> QED
    BY <1>1, <1>3, <2>2, <2>3, <2>5, <2>6, <2>7, <2>8, WorldStep
<1> QED
  BY <1>2, <1>3 DEF Deliver

LEMMA ExecuteStep ==
  ASSUME LiveInv, Execute
  PROVE  LiveInv'
<1>1. PICK t \in Trades \ venue.trades : venue' = [venue EXCEPT !.trades = @ \cup {t}]
  BY DEF Execute
<1>2. /\ venue.status = "open" /\ Cardinality(venue.trades) < venue.size
      /\ UNCHANGED <<terms, clock, skew, wire, capped, stops, runtime, journal, accumulator,
                     cmd>>
  BY DEF Execute
<1>3. /\ venue' \in VenueOrders /\ venue'.status = "open" /\ venue'.at = venue.at
      /\ venue'.size = venue.size /\ venue'.trades = venue.trades \cup {t}
  BY <1>1, <1>2 DEF LiveInv, TypeOK, VenueOrders
<1>4. Cardinality(venue'.trades) <= venue'.size
  <2>1. venue.trades \in SUBSET Trades /\ venue.size \in Nat
    BY DEF LiveInv, TypeOK, VenueOrders
  <2>2. /\ Cardinality(venue.trades) \in Nat
        /\ Cardinality(venue.trades \cup {t}) = Cardinality(venue.trades) + 1
    BY <2>1, TradesFacts
  <2> QED
    BY <1>2, <1>3, <2>1, <2>2
<1>5. /\ WriteAhead' /\ venue'.at < journal.signedExpiry /\ venue'.size \in 1 .. Quantity
  BY <1>2, <1>3 DEF LiveInv, VenueInv, WriteAhead
<1> QED
  BY <1>2, <1>3, <1>4, <1>5, WorldStep DEF LiveInv, TypeOK

LEMMA TerminateStep ==
  ASSUME LiveInv, Terminate
  PROVE  LiveInv'
<1>1. /\ venue.status = "open"
      /\ UNCHANGED <<terms, clock, skew, wire, capped, stops, runtime, journal, accumulator,
                     cmd>>
  BY DEF Terminate
<1>2. PICK s \in IF Cardinality(venue.trades) = venue.size THEN {"filled"} ELSE terms.ends :
        venue' = [venue EXCEPT !.status = s]
  BY DEF Terminate
<1>3. s \in Statuses \ {"open"} /\ (s = "filled" => Cardinality(venue.trades) = venue.size)
  BY <1>2, LiveDayAssumption DEF LiveDayAssumption, LiveInv, TypeOK, Statuses, Terminal
<1>4. /\ venue' \in VenueOrders /\ venue'.status \in Statuses \ {"open"}
      /\ venue'.status = "filled" => Cardinality(venue.trades) = venue.size
      /\ venue'.at = venue.at /\ venue'.size = venue.size /\ venue'.trades = venue.trades
  BY <1>1, <1>2, <1>3 DEF LiveInv, TypeOK, VenueOrders
<1>5. /\ WriteAhead' /\ venue'.at < journal.signedExpiry /\ venue'.size \in 1 .. Quantity
      /\ Cardinality(venue'.trades) <= venue'.size
  BY <1>1, <1>4 DEF LiveInv, VenueInv, WriteAhead
<1>6. venue'.status # "unknown"
  BY <1>4 DEF Statuses, Terminal
<1> QED
  BY <1>1, <1>4, <1>5, <1>6, WorldStep DEF LiveInv, TypeOK

LEMMA ReachCapStep ==
  ASSUME LiveInv, ReachCap
  PROVE  LiveInv'
<1>1. /\ capped' = TRUE
      /\ UNCHANGED <<terms, clock, skew, wire, venue, stops, runtime, journal, accumulator, cmd>>
  BY DEF ReachCap
<1>2. /\ clock \in Nat /\ clock >= clock /\ venue \in VenueOrders
      /\ Cardinality(venue.trades) <= venue.size
      /\ venue.status = "filled" => Cardinality(venue.trades) = venue.size
      /\ venue.status # "unknown" =>
           WriteAhead' /\ venue.at < journal.signedExpiry /\ venue.size \in 1 .. Quantity
  BY <1>1 DEF LiveInv, TypeOK, VenueInv, WriteAhead
<1> QED
  BY <1>1, <1>2, WorldStep DEF LiveInv, TypeOK

-----------------------------------------------------------------------------
(* The invariant holds *)

LEMMA StutterStep ==
  ASSUME LiveInv, UNCHANGED vars
  PROVE  LiveInv'
<1>1. Answer' = Answer /\ RuntimeLocked' = RuntimeLocked /\ FillsComplete' = FillsComplete
  BY DEF Answer, RuntimeLocked, FillsComplete, vars
<1>2. CommandInv' /\ AnswerInv'
  BY <1>1 DEF LiveInv, CommandInv, AnswerInv, Truthful, Honest, EffectiveExpiry, Lag, vars
<1> QED
  BY <1>2, OwnStep DEF vars, LiveInv, TypeOK

LEMMA InvStep == LiveInv /\ [Next]_vars => LiveInv'
<1> SUFFICES ASSUME LiveInv, [Next]_vars
             PROVE  LiveInv'
  OBVIOUS
<1>1. CASE Proceed
  <2>1. CASE Cycle \/ RecordIntent \/ CreateJournal \/ PrepareOrder \/ PrepareRefused \/ Send
    BY <2>1, CycleStep, RecordIntentStep, CreateJournalStep, PrepareOrderStep, EndSteps, SendStep
  <2>2. CASE \E rows \in SUBSET Trades : LookupFills(rows)
    BY <2>2, LookupFillsStep
  <2>3. CASE LookupStatus \/ LookupStale \/ LookupLie
    BY <2>3, StatusStep, StaleStep, LieStep
  <2>4. CASE Merge \/ RecordSubmission \/ RecordFill \/ Finalize
    BY <2>4, MergeStep, RecordSubmissionStep, RecordFillStep, FinalizeStep
  <2>5. CASE \/ CheckAbsence \/ ReadFillHistory \/ RecordAbsence \/ RecordEligibility
             \/ Complete \/ Settle
    BY <2>5, AbsenceSteps, RecordAbsenceStep, EligibilitySteps, SettleStep
  <2> QED
    BY <1>1, <2>1, <2>2, <2>3, <2>4, <2>5 DEF Proceed
<1>2. CASE StartRunCycle \/ StartPrepare \/ StartSubmit \/ StartReconcile \/ Release \/ Stop
  BY <1>2, StartSteps, ReleaseStep, EndSteps
<1>3. CASE Tick \/ Deliver \/ Execute \/ Terminate \/ ReachCap
  BY <1>3, TickStep, DeliverStep, ExecuteStep, TerminateStep, ReachCapStep
<1> QED
  BY <1>1, <1>2, <1>3, StutterStep DEF Next

LEMMA InvHolds == Spec => []LiveInv
BY InitInv, InvStep, PTL DEF Spec

-----------------------------------------------------------------------------
(* What it means *)

\* Whatever a day holds, no variable leaves its type, and a command carries at most one
\* answer of the venue (live_decision.rs, live_probe.rs).
THEOREM TypesHold == Spec => []TypeOK
<1>1. LiveInv => TypeOK
  BY DEF LiveInv
<1> QED
  BY <1>1, InvHolds, PTL

\* Whoever stops wherever, an order is on the wire only after the decision, its declared
\* journal and the prepared action are on disk (submit in live_probe.rs).
THEOREM NothingUnprepared == Spec => []WriteAhead
<1>1. LiveInv => WriteAhead
  BY DEF LiveInv, VenueInv
<1> QED
  BY <1>1, InvHolds, PTL

\* For every lag up to max_venue_clock_lag_ms and every skew within it, an absence that
\* is recorded after the effective expiry is one that lasts (record_conclusive_absence in
\* live_probe.rs, record_order_submission_absent in workflow.rs).
THEOREM AbsenceLasts == Spec => []AbsenceConclusive
<1>1. LiveInv => AbsenceConclusive
  BY DEF LiveInv, SettledInv, Absent, AbsenceConclusive
<1> QED
  BY <1>1, InvHolds, PTL

\* At a venue that never contradicts what it did, capital is released by an order that is
\* over and for exactly what it bought, for any executions in any order
\* (settle_finalized_decision in bin/hype-live-probe.rs).
THEOREM CapitalExact == Spec => []SettlementExact
<1>1. LiveInv => SettlementExact
  BY DEF LiveInv, HonestInv, SettlementExact
<1> QED
  BY <1>1, InvHolds, PTL

\* Lagging, partial and skewed answers alone never stop automation for a review
\* (mark_manual_review in workflow.rs).
THEOREM HonestyNeverAlarms == Spec => []NoFalseAlarm
<1>1. LiveInv => NoFalseAlarm
  BY DEF LiveInv, HonestInv, NoFalseAlarm
<1> QED
  BY <1>1, InvHolds, PTL

\* What the runtime settled is what the journal says was bought, whatever the venue says
\* afterwards (settle_live_decision in runtime.rs).
THEOREM LedgerAgrees == Spec => []LedgerMatchesJournal
<1>1. LiveInv => LedgerMatchesJournal
  BY DEF LiveInv, SettledInv
<1> QED
  BY <1>1, InvHolds, PTL

\* A step leaves the totals of the journal alone, or replaces those of a live order by
\* no less.
LEMMA TotalsGrow ==
  ASSUME LiveInv, [Next]_vars
  PROVE  /\ journal.fills \subseteq journal'.fills /\ journal.matched <= journal'.matched
         /\ journal.final # {} \/ journal.stage \in Finalized =>
              journal'.fills = journal.fills /\ journal'.matched = journal.matched
<1>1. /\ journal \in Journals /\ journal.matched \in Nat /\ journal.fills \subseteq accumulator
      /\ journal.final # {} => journal.stage \notin Live
  BY DEF LiveInv, TypeOK, Journals, JournalInv, Live, Finalized
<1>2. CASE journal'.fills = journal.fills /\ journal'.matched = journal.matched
  BY <1>1, <1>2
<1>3. CASE /\ journal.stage \in Live /\ journal'.fills = accumulator
           /\ journal'.matched >= journal.matched
  BY <1>1, <1>3 DEF Live, Finalized
<1>4. CASE RecordFill
  <2>1. CASE \E at \in Int : Review(at)
    BY <1>1, <1>2, <2>1 DEF Review, Journals
  <2>2. CASE /\ journal.stage \in Live /\ CumulativeOk(Answer.filled, accumulator, FALSE)
             /\ journal'.matched = Answer.filled /\ journal'.fills = accumulator
    <3>1. Answer.filled >= journal.matched
      BY <2>2 DEF CumulativeOk
    <3> QED
      BY <1>3, <2>2, <3>1
  <2>3. cmd.now \in Int
    BY TermsFacts DEF LiveInv
  <2> QED
    BY <1>1, <1>2, <1>4, <2>1, <2>2, <2>3 DEF RecordFill, Journals
<1>5. CASE Finalize
  <2>1. CASE \E at \in Int : Review(at)
    BY <1>1, <1>2, <2>1 DEF Review, Journals
  <2>2. CASE /\ journal.stage \in Live
             /\ CumulativeOk(Answer.filled, accumulator, Answer.status = "canceled")
             /\ journal'.matched = Answer.filled /\ journal'.fills = accumulator
    <3>1. Answer.filled >= journal.matched
      BY <2>2 DEF CumulativeOk
    <3> QED
      BY <1>3, <2>2, <3>1
  <2>3. cmd.now \in Int
    BY TermsFacts DEF LiveInv
  <2> QED
    BY <1>1, <1>2, <1>5, <2>1, <2>2, <2>3 DEF Finalize, Journals
<1>6. CASE RecordSubmission
  BY <1>1, <1>2, <1>6 DEF RecordSubmission, Review, Journals
<1>7. CASE CreateJournal \/ PrepareOrder \/ RecordAbsence \/ RecordEligibility \/ Complete
  BY ZenonT(60), <1>1, <1>2, <1>7 DEF CreateJournal, PrepareOrder, RecordAbsence, RecordEligibility,
     Complete, Journals
<1>8. CASE UNCHANGED journal
  BY SMTT(60), <1>2, <1>8
<1>9. CASE Proceed
  BY <1>4, <1>5, <1>6, <1>7, <1>8, <1>9 DEF Proceed, Cycle, RecordIntent, PrepareRefused, Send,
     LookupFills, LookupStatus, LookupStale, LookupLie, Merge, CheckAbsence, ReadFillHistory,
     Settle
<1> QED
  BY <1>8, <1>9 DEF Next, StartRunCycle, StartPrepare, StartSubmit, StartReconcile, Release,
     Stop, Tick, Deliver, Execute, Terminate, ReachCap, vars

\* Totals only grow while the order lives and never change once it is final, at any venue
\* and under any contest (observe_order_fill and finalize_order in workflow.rs).
THEOREM TotalsFrozen == Spec => TotalsFreeze
<1>1. LiveInv /\ [Next]_vars =>
        [ /\ journal.fills \subseteq journal'.fills /\ journal.matched <= journal'.matched
          /\ journal.final # {} \/ journal.stage \in Finalized =>
               journal'.fills = journal.fills /\ journal'.matched = journal.matched ]_vars
  BY TotalsGrow
<1> QED
  BY <1>1, InvHolds, PTL DEF Spec, TotalsFreeze

=============================================================================

---------------------------- MODULE HypeInventory ----------------------------
(***************************************************************************)
(* What the runtime claims the account holds of the bot's HYPE              *)
(* (runtime.rs:976): purchases it has settled, net of the transfers its     *)
(* scans recorded.  Operators only.                                         *)
(*                                                                         *)
(* A movement is [id, dir, amount, at, to]: "in" or "out", and the other    *)
(* account, None when the connector did not name it.                        *)
(***************************************************************************)
EXTENDS OrderWorkflow

SumOf(movements, dir) == SumFunction([m \in {v \in movements : v.dir = dir} |-> m.amount])

ToCustodian(m) == m.dir = "out" /\ m.to = "custodian"

CustodianOutflows(movements) == {m \in movements : ToCustodian(m)}

\* The attribution of a set of movements and of what settled purchases credited;
\* "complete" when every settled purchase has its acquisition row.
Attributed(movements, credited, complete) ==
  [credited |-> credited, complete |-> complete,
   inflow |-> SumOf(movements, "in"),
   outflow |-> SumOf(movements, "out"),
   custodian |-> SumOf(CustodianOutflows(movements), "out")]

\* HYPE of other origin leaves first.
TransferredOut(a) == Lesser(Monus(a.outflow, a.inflow), a.credited)

Held(a) == Monus(a.credited, TransferredOut(a))

\* Of the bot's HYPE that left, what other destinations cannot account for.
TransferredToCustodian(a) ==
  Monus(TransferredOut(a), Monus(a.outflow, a.custodian))

\* What history may credit to the custodian: nothing on incomplete evidence.
CustodianCredit(a) == IF a.complete THEN TransferredToCustodian(a) ELSE 0

\* What a scan adds: rows not recorded yet, and the other party of rows first
\* seen without one.
Fresh(recorded, seen) == {m \in seen : \A r \in recorded : r.id # m.id}
FilledIn(recorded, seen) ==
  {IF r.to = None /\ (\E m \in seen : m.id = r.id)
   THEN CHOOSE m \in seen : m.id = r.id ELSE r : r \in recorded}

Record(recorded, seen) == FilledIn(recorded, seen) \cup Fresh(recorded, seen)

\* Mutant: the whole scan is netted, whenever a movement occurred.
NettedWhole(recorded, seen, asOf) == Record(recorded, seen)

\* The movements a balance read at asOf is judged against: new rows only as
\* far as that read can show them.
Netted(recorded, seen, asOf) ==
  Record(recorded, {m \in seen : m.at <= asOf \/ \E r \in recorded : r.id = m.id})
=============================================================================

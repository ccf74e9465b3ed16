---------------------------- MODULE CapitalLedger ----------------------------
(***************************************************************************)
(* The capital side of the protected event ledger (src/src/ledger.rs): the *)
(* journal is a sequence of events, the state is what replaying it from    *)
(* the start gives, and a batch is accepted only if the whole journal with *)
(* the batch at its end still replays.  AppendLog and WorkflowJournal show *)
(* how one record becomes durable; this module says what a record may be.  *)
(*                                                                         *)
(* An event is [id, at, amount, ret]: id starts with its kind and names    *)
(* its subject, amount is what it moves and ret, for a transfer, the part  *)
(* of it that returns unadmitted funding, per deposit.  Orders, fills and  *)
(* fees are recorded by no capital operation of the runtime and are left   *)
(* out, as are observed balances and the HYPE side.                        *)
(***************************************************************************)
EXTENDS Calendar, Sequences, FiniteSetsExt, SequencesExt, Functions

\* The event id names what happened to what; its first component is the kind.
Deposited(d, at, n)      == [id |-> <<"deposit", d>>, at |-> at,
                             amount |-> n, ret |-> <<>>]
Admission(d, at, n, all) == [id |-> <<"admission", d, all>>, at |-> at,
                             amount |-> n, ret |-> <<>>]
Withdrawn(w, at, n, ret) == [id |-> <<"withdrawal", w>>, at |-> at,
                             amount |-> n, ret |-> ret]
Committed(x, at, n)      == [id |-> <<"commitment", x>>, at |-> at,
                             amount |-> n, ret |-> <<>>]
Decided(x, at, n)        == [id |-> <<"decision", x>>, at |-> at,
                             amount |-> n, ret |-> <<>>]
Skipped(x, at)           == [id |-> <<"skip", x>>, at |-> at,
                             amount |-> 0, ret |-> <<>>]
Settled(x, at, n)        == [id |-> <<"settlement", x>>, at |-> at,
                             amount |-> n, ret |-> <<>>]

NewBook == [err |-> "none", dep |-> <<>>, timeline |-> <<>>, commit |-> <<>>,
            decided |-> <<>>, admitted |-> 0, withdrawn |-> 0,
            committed |-> 0, spent |-> 0]

Fail(b, why) == [b EXCEPT !.err = why]

\* The map f with an entry for x.
Put(f, x, v) == [y \in DOMAIN f \cup {x} |-> IF y = x THEN v ELSE f[y]]

\* record_capital_timeline_entry: entries are kept in order of time (the
\* sort is stable), and at no time may more have gone out than had come in.
Inserted(line, entry) ==
  SelectSeq(line, LAMBDA e: e.at <= entry.at) \o <<entry>>
    \o SelectSeq(line, LAMBDA e: e.at > entry.at)
Funded(line) ==
  FoldLeft(LAMBDA acc, e: [ok  |-> acc.ok /\ e.debit <= acc.sum + e.credit,
                           sum |-> acc.sum + e.credit - e.debit],
           [ok |-> TRUE, sum |-> 0], line).ok
Enter(b, at, credit, debit) ==
  LET line == Inserted(b.timeline, [at |-> at, credit |-> credit, debit |-> debit])
  IN IF Funded(line) THEN [b EXCEPT !.timeline = line]
     ELSE Fail(b, "insufficient deployable capital")

RecordDeposit(b, e) ==
  [b EXCEPT !.dep = Put(@, e.id[2], [at |-> e.at, amount |-> e.amount,
                                     admitted |-> 0, returned |-> 0])]

RecordAdmission(b, e) ==
  LET d == e.id[2] IN
  IF d \notin DOMAIN b.dep \/ e.at < b.dep[d].at THEN Fail(b, "bad admission")
  ELSE IF b.dep[d].admitted + e.amount + b.dep[d].returned > b.dep[d].amount
  THEN Fail(b, "admission exceeds deposit")
  ELSE LET c == Enter(b, e.at, e.amount, 0) IN
       [c EXCEPT !.dep[d].admitted = @ + e.amount, !.admitted = @ + e.amount]

\* Mutant: a transfer is taken out of the totals only.
RecordWithdrawalInTotal(b, e) ==
  LET rest == e.amount - SumFunction(e.ret) IN
  [Enter(b, e.at, 0, rest) EXCEPT !.withdrawn = @ + rest]
RecordWithdrawal(b, e) ==
  LET fits(d) == /\ d \in DOMAIN b.dep /\ b.dep[d].at <= e.at
                 /\ b.dep[d].admitted + b.dep[d].returned + e.ret[d]
                      <= b.dep[d].amount
      rest == e.amount - SumFunction(e.ret)
      c == [b EXCEPT !.dep = [d \in DOMAIN b.dep |->
             IF d \in DOMAIN e.ret
             THEN [b.dep[d] EXCEPT !.returned = @ + e.ret[d]] ELSE b.dep[d]]]
  IN IF (\E d \in DOMAIN e.ret: ~fits(d)) \/ rest < 0
     THEN Fail(b, "return exceeds unadmitted funding")
     ELSE [Enter(c, e.at, 0, rest) EXCEPT !.withdrawn = @ + rest]

RecordCommitment(b, e) ==
  IF e.id[2] \in DOMAIN b.commit THEN Fail(b, "commitment collision")
  ELSE [Enter(b, e.at, 0, e.amount) EXCEPT
         !.committed = @ + e.amount,
         !.commit = Put(@, e.id[2], [at |-> e.at, amount |-> e.amount,
                                     settled |-> FALSE])]

\* record_purchase_decision and record_daily_outcome: one outcome a day,
\* dated on that day and backed by an open commitment.
RecordOutcome(b, e) ==
  LET x == e.id[2] IN
  IF DateOf(e.at) # x \/ x \in DOMAIN b.decided
  THEN Fail(b, "decision date collision")
  ELSE IF /\ e.id[1] = "decision" /\ x \in DOMAIN b.commit
          /\ \/ b.commit[x].settled \/ b.commit[x].amount < e.amount
             \/ e.at < b.commit[x].at
  THEN Fail(b, "insufficient decision backing")
  ELSE [b EXCEPT !.decided = Put(@, x, [at |-> e.at, amount |-> e.amount])]

RecordSettlement(b, e) ==
  LET x == e.id[2] IN
  IF x \notin DOMAIN b.commit \/ b.commit[x].settled
  THEN Fail(b, "no open commitment")
  ELSE IF \/ e.at < b.commit[x].at
          \/ x \in DOMAIN b.decided /\ (\/ e.at < b.decided[x].at
                                        \/ e.amount > b.decided[x].amount)
          \/ e.amount > b.commit[x].amount
  THEN Fail(b, "bad settlement")
  ELSE [Enter(b, e.at, b.commit[x].amount, e.amount) EXCEPT
         !.committed = @ - b.commit[x].amount, !.spent = @ + e.amount,
         !.commit[x].settled = TRUE]

ApplyEvent(b, e) ==
  IF b.err # "none" THEN b
  ELSE CASE e.id[1] = "deposit"    -> RecordDeposit(b, e)
         [] e.id[1] = "admission"  -> RecordAdmission(b, e)
         [] e.id[1] = "withdrawal" -> RecordWithdrawal(b, e)
         [] e.id[1] = "commitment" -> RecordCommitment(b, e)
         [] e.id[1] \in {"decision", "skip"} -> RecordOutcome(b, e)
         [] e.id[1] = "settlement" -> RecordSettlement(b, e)

Replay(events) == FoldLeft(ApplyEvent, NewBook, events)

\* validate_append_batch: an event already there is a duplicate and is left
\* out; the same id with another payload refuses the batch.
Collides(journal, batch) ==
  \E e \in ToSet(batch), f \in ToSet(journal) \cup ToSet(batch):
    e.id = f.id /\ e # f
AppendNew(j, e) == IF e \in ToSet(j) THEN j ELSE Append(j, e)
Extended(journal, batch) == FoldLeft(AppendNew, journal, batch)

Deployable(b) == b.admitted - b.withdrawn - b.committed - b.spent

=============================================================================

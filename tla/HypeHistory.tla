----------------------------- MODULE HypeHistory -----------------------------
(***************************************************************************)
(* What finished workflows say is still in spot (workflow.rs:3460): their   *)
(* lots, the replay of transfers to the staking custodian against them,     *)
(* and the comparison with the balance.  Operators only.                    *)
(***************************************************************************)
EXTENDS OrderWorkflow, Chronology

\* The lot a finished workflow left in spot: what it did not delegate, from the
\* time its last fill was recorded.
Lot(w) ==
  LET split == TerminalSplit(w)[1]
  IN [from |-> IF w.lastFill > 0 THEN w.lastFill ELSE w.last,
      residual |-> split.residual,
      unstaked |-> IF w.delegated >= split.eligible THEN 0 ELSE split.eligible]

\* Mutant: what evidence bound of a movement is credited again.
BoundNothing(flows, id) == 0

\* What all the workflows' evidence bound of one movement.
BoundOf(flows, id) ==
  SumFunction([i \in {j \in DOMAIN flows : id \in DOMAIN flows[j].bound} |-> flows[i].bound[id]])

LotsSum(lots, S) == [residual |-> SumFunction([i \in S |-> lots[i].residual]),
                     unstaked |-> SumFunction([i \in S |-> lots[i].unstaked])]

\* One transfer to the custodian: what evidence bound of it uses up cap; the
\* rest, within the cap, takes unstaked HYPE of the lots in spot by then and
\* their residual after it.  "taken" is what transfers took so far.
ReplayOutflow(lots, bound, taken, o) ==
  LET already == Lesser(bound[o.id], o.amount)
      capLeft == taken.cap - Lesser(already, taken.cap)
      credit == Lesser(o.amount - already, capLeft)
      in == LotsSum(lots, {i \in DOMAIN lots : lots[i].from <= o.at})
      fromUnstaked == Lesser(credit, in.unstaked - taken.unstaked)
  IN [cap |-> capLeft - credit,
      unstaked |-> taken.unstaked + fromUnstaked,
      residual |-> taken.residual
                     + Lesser(credit - fromUnstaked, in.residual - taken.residual)]

\* What the transfers take, in the order ids; "outflow" maps the ids to them.
TakenBy(lots, outflow, bound, cap, ids) ==
  FoldLeft(LAMBDA t, id : ReplayOutflow(lots, bound, t, outflow[id]),
           [cap |-> cap, unstaked |-> 0, residual |-> 0], ids)

\* What history expects in spot, and its residual part.
Replay(lots, outflow, bound, cap) ==
  LET inOrder == InOrder([id \in DOMAIN outflow |-> <<outflow[id].at, 0>>])
      taken == TakenBy(lots, outflow, bound, cap, inOrder)
      all == LotsSum(lots, DOMAIN lots)
  IN [expected |-> all.unstaked + all.residual - taken.unstaked - taken.residual,
      residual |-> all.residual - taken.residual]

Expectation(flows, outflows, cap) ==
  LET ids == {o.id : o \in outflows}
  IN Replay([i \in DOMAIN flows |-> Lot(flows[i])],
            [id \in ids |-> CHOOSE o \in outflows : o.id = id],
            [id \in ids |-> BoundOf(flows, id)], cap)

Finished(flows) == Restrict(flows, {i \in DOMAIN flows : flows[i].stage = "complete"})

Judged(expectation, spot) ==
  IF expectation.expected > spot THEN [answer |-> "gap", residual |-> 0]
  ELSE [answer |-> "ok", residual |-> expectation.residual]

\* Mutant: a workflow that is under way is passed over.
AggregateOpen(flows, spot, outflows, cap) ==
  Judged(Expectation(Finished(flows), outflows, cap), spot)

\* Fails closed on a workflow that is not finished, and when the account holds
\* less than history expects of it.
Aggregate(flows, spot, outflows, cap) ==
  IF \E i \in DOMAIN flows : flows[i].stage # "complete"
  THEN [answer |-> "not_terminal", residual |-> 0]
  ELSE Judged(Expectation(flows, outflows, cap), spot)
=============================================================================

----------------------------- MODULE MCHoldings -----------------------------
(***************************************************************************)
(* Instances of Holdings.                                                   *)
(***************************************************************************)
EXTENDS Holdings

InitialTerms(world, foreign, legacy, evidence, names, binding) ==
  [world |-> world, foreign |-> foreign, legacy |-> legacy, evidence |-> evidence,
   naming |-> names, binding |-> binding]

\* A decision of two HYPE of which one is reserved, with or without the offline
\* staking capability.
LibraryBinding(staking) ==
  [decided |-> 0, signed |-> 2, effective |-> 2, quantity |-> 2, planned |-> 2,
   committed |-> 2, maxAge |-> 3, staking |-> staking, deficit |-> 1]

LibraryTerms ==
  {InitialTerms("library", 0, 0, FALSE, TRUE, LibraryBinding(staking)) : staking \in BOOLEAN}

\* Accounts with or without HYPE of other origin, a purchase of an older build,
\* signer evidence, and a connector that names the other party from the start.
AccountTerms ==
  {InitialTerms("account", 0, 0, TRUE, TRUE, LibraryBinding(FALSE)),
   InitialTerms("account", 0, 2, FALSE, FALSE, LibraryBinding(FALSE)),
   InitialTerms("account", 1, 2, TRUE, TRUE, LibraryBinding(FALSE))}

\* An account of the bot alone, with a purchase of three.
OfferTerms == {InitialTerms("account", 0, 3, FALSE, TRUE, LibraryBinding(FALSE))}
WholeOutcomes == {[matched |-> 3, credited |-> 3]}

MCTerms == LibraryTerms \cup AccountTerms

AllRoutes ==
  {<<"in", "other">>, <<"out", "other">>, <<"out", "custodian">>, <<"sale", "other">>}
RunbookRoutes == {<<"in", "other">>, <<"out", "custodian">>}

\* Bought in part, with a fee taken in HYPE; what is credited is split in two.
MCOutcomes == {[matched |-> 3, credited |-> 2]}

Submission(exact, order, accepted, at) ==
  [type |-> "submitted", exact |-> exact, order |-> order, accepted |-> accepted,
   acceptedAt |-> at]

Submissions ==
  {Submission(TRUE, "order1", 2, at) : at \in 1..2}
    \cup {Submission(TRUE, "order1", 1, 1), Submission(FALSE, "order1", 2, 1),
          Submission(TRUE, "foreign", 2, 1)}

Fill(obs, matched, credited, full) ==
  [type |-> "fill", obs |-> obs, matched |-> matched, credited |-> credited,
   filled |-> matched, debited |-> matched, full |-> full]

Fills == {Fill("f1", 1, 1, FALSE), Fill("f1", 2, 2, TRUE), Fill("f2", 2, 1, TRUE)}

Final(matched, credited, finality) ==
  [type |-> "final", matched |-> matched, credited |-> credited, filled |-> matched,
   debited |-> matched, finality |-> finality]

Finals ==
  {Final(0, 0, "canceled"), Final(1, 1, "canceled"), Final(2, 2, "filled"),
   Final(2, 1, "filled")}

Absences ==
  {[type |-> "absent", obs |-> "a1", exact |-> TRUE, ordersThrough |-> 3, fillsThrough |-> t] :
     t \in {2, 3}}

BoundFill(at, matched, credited) ==
  [at |-> at, matched |-> matched, credited |-> credited, notional |-> matched, timely |-> TRUE]

BoundMove(id, at) == [id |-> id, at |-> at, amount |-> 1]

Bound(owner, through, fills, moved) ==
  [kind |-> "bound", exact |-> TRUE, fillsOf |-> owner, fillsThrough |-> through,
   movesThrough |-> through, fills |-> fills, moves |-> moved]

Evidences ==
  {Bound("order1", 2, fills, moved) :
     fills \in {<<BoundFill(1, 2, 2)>>, <<BoundFill(1, 1, 1), BoundFill(1, 1, 1)>>},
     moved \in {<<>>, <<BoundMove(1, 1)>>, <<BoundMove(1, 2), BoundMove(2, 2)>>}}
    \cup {Bound("foreign", 2, <<BoundFill(1, 2, 2)>>, <<>>),
          Bound("order1", 3, <<BoundFill(1, 2, 1)>>, <<BoundMove(1, 2)>>)}

Eligibilities ==
  {[type |-> "eligible", basis |-> basis] :
     basis \in Evidences \cup {[kind |-> "absent"], [kind |-> "attested", exact |-> TRUE]}}

Receipts == {[type |-> t, receipt |-> 1] : t \in {"deposited", "delegating"}}

Balances ==
  {[type |-> t, obs |-> "b1", exact |-> TRUE, baseline |-> 1, current |-> 3, amount |-> a] :
     t \in {"staked", "delegated"}, a \in {1, 2}}

MCCalls ==
  {[type |-> "prepare", obs |-> a] : a \in {"submit", "deposit", "delegate"}}
    \cup Submissions \cup Fills \cup Finals \cup Absences \cup Eligibilities
    \cup Receipts \cup Balances
    \cup {[type |-> "complete"], [type |-> "review", obs |-> "owner"]}
=============================================================================

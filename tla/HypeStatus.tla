------------------------------ MODULE HypeStatus ------------------------------
(***************************************************************************)
(* What a cycle publishes of the bot's HYPE (status.rs), from one look at   *)
(* the account and at the staking custodian and from what the ledger        *)
(* attributes to the bot (monitor.rs:435).  Operators only.                 *)
(*                                                                         *)
(* A figure that may be missing is a sequence of at most one element.  The  *)
(* health reasons are a set of names; what concerns USDC, prices, labels    *)
(* and the split of the staking balances is left out.                       *)
(***************************************************************************)
EXTENDS HypeInventory

\* Mutant: the buffer is offered with the rest.
EligibleWithBuffer(a, residual) == Held(a)

\* The residual buffer stays: the rest is what the owner may send next.
EligibleForTransfer(a, residual) == Monus(Held(a), residual)

\* Incomplete evidence excludes the holdings: no partial sum is reported.
Attribution(a, residual) ==
  IF ~a.complete THEN <<>>
  ELSE <<[hype |-> Held(a), out |-> TransferredOut(a),
          sent |-> TransferredToCustodian(a),
          eligible |-> EligibleForTransfer(a, residual)]>>

\* A claim on more than the account holds is withdrawn, and with it what may be
\* transferred; the transfers of the past stay.
Claimed(spot, at) ==
  IF at.hype > spot THEN [at EXCEPT !.hype = 0, !.eligible = 0] ELSE at

HoldingsReasons(spot, attribution) ==
  IF attribution = <<>> THEN {"attribution unavailable"}
  ELSE LET hype == attribution[1].hype
       IN IF hype > spot THEN {"attribution exceeds holdings"}
          ELSE IF hype < spot THEN {"unattributed holdings"} ELSE {}

\* What the custodian holds in staking bounds from above what was staked there;
\* its read may fail without failing the rest.
StakingReasons(staked, attribution) ==
  IF staked = <<>> THEN {"custodian unavailable"}
  ELSE IF attribution # <<>> /\ attribution[1].sent > staked[1]
       THEN {"staking shortfall"} ELSE {}

Status(spot, staked, attribution) ==
  [figures |-> IF attribution = <<>> THEN <<>> ELSE <<Claimed(spot, attribution[1])>>,
   reasons |-> HoldingsReasons(spot, attribution) \cup StakingReasons(staked, attribution)]

\* Nothing may be committed or prepared while this is reported.
AttributionExceedsHoldings(status) == "attribution exceeds holdings" \in status.reasons

\* HYPE sent to the custodian that cannot all be staked yet.
StakingShortfall(status) == "staking shortfall" \in status.reasons
===============================================================================

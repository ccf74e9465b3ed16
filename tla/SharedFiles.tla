----------------------------- MODULE SharedFiles -----------------------------
(***************************************************************************)
(* The files that several processes share beside the journals: the owner   *)
(* file of venue orders (OrderOwners), the history bindings and declared   *)
(* journals (HistoryRoster), and the daily signal snapshot (SignalFeed).   *)
(* Each has a lock of its own and none of the three reads another, so      *)
(* their interleavings are the product of theirs: a behaviour here is one  *)
(* of `subject`, chosen at the start, while the other two stand still.     *)
(***************************************************************************)
EXTENDS OrderOwners, HistoryRoster, SignalFeed

VARIABLE subject   \* which of the three moves

sharedVars == <<subject, vars, rosterVars, signalVars>>

\* Who stands still starts in one state.
SharedInit ==
  /\ subject \in {"owners", "roster", "signal"}
  /\ Init /\ RosterInit /\ SignalInit
  /\ subject # "roster" => site = CHOOSE s \in Sites : TRUE
  /\ subject # "signal" => snapshot = None

MoveOwners == subject = "owners" /\ Next /\ UNCHANGED <<subject, rosterVars, signalVars>>
MoveRoster == subject = "roster" /\ RosterNext /\ UNCHANGED <<subject, vars, signalVars>>
MoveSignal == subject = "signal" /\ SignalNext /\ UNCHANGED <<subject, vars, rosterVars>>

SharedNext == MoveOwners \/ MoveRoster \/ MoveSignal

SharedSpec == SharedInit /\ [][SharedNext]_sharedVars
==============================================================================

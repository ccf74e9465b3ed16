------------------------------ MODULE AppendLog ------------------------------
(***************************************************************************)
(* What a workflow journal promises to the handles that open it: one       *)
(* append-only log with optimistic concurrency.  A handle may extend the   *)
(* log only from the log it has last been told of, it is told only of the  *)
(* whole log, and a crash makes it forget but never changes the log.       *)
(***************************************************************************)
EXTENDS Sequences

CONSTANTS
  Handles,  \* the processes that open the log
  Records   \* what an entry of the log can be

VARIABLES
  log,      \* the committed entries
  seen      \* seen[h]: the log handle h was last told of

vars == <<log, seen>>

Init ==
  /\ log = <<>>
  /\ seen = [h \in Handles |-> <<>>]

\* The linearization point of an append: h extends exactly the log it knows.
Commit(h) ==
  /\ seen[h] = log
  /\ \E r \in Records : log' = Append(log, r)
  /\ UNCHANGED seen

\* h is told the log: a successful open, an acknowledged append, or a read.
Learn(h) ==
  /\ seen' = [seen EXCEPT ![h] = log]
  /\ UNCHANGED log

\* Every handle of S is dropped or lost in a crash.
Forget(S) ==
  /\ seen' = [h \in Handles |-> IF h \in S THEN <<>> ELSE seen[h]]
  /\ UNCHANGED log

Next ==
  \/ \E h \in Handles : Commit(h) \/ Learn(h)
  \/ \E S \in SUBSET Handles : Forget(S)

Spec == Init /\ [][Next]_vars
==============================================================================

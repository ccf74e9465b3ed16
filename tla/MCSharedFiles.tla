---------------------------- MODULE MCSharedFiles ----------------------------
(***************************************************************************)
(* Owners: two workflows, one of them open twice, and two ids both may be  *)
(* told of.  Roster: two runtimes on one machine, the first with two       *)
(* decisions; two commands on one config, or one mishap to storage, or two *)
(* configs and two mishaps.  Signal: two boundaries, two producers, two    *)
(* runtimes that read.                                                     *)
(***************************************************************************)
EXTENDS SharedFiles

CONSTANTS
  w1, w2, h1, h2, h3, i1, i2, k1, k2, r1, r2, j1, j2, j3, p1, p2, c1, c2, q1, q2

OfHandle == [h \in Handles |-> IF h = h3 THEN w2 ELSE w1]

TwoRuntimes(named, commands, configs, limit) ==
  [home |-> <<r1, r1, r2>>, named |-> named, commands |-> commands,
   configs |-> configs, mishaps |-> limit]

\* Two commands at once, each decision with a journal name of its own; a name that may
\* be used twice, and a loss; a copy of the config, one process, and two mishaps.
Installations ==
  { TwoRuntimes(<<{j1}, {j2}, {j3}>>, {c1, c2}, {k1}, 0),
    TwoRuntimes(<<{j1}, {j1, j2}, {}>>, {c1, c2}, {k1}, 1),
    TwoRuntimes(<<{j1}, {j2}, {}>>, {c1}, {k1, k2}, 2) }
==============================================================================

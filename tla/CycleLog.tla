------------------------------- MODULE CycleLog -------------------------------
(***************************************************************************)
(* What the signer-free runtime promises about its cycles, whatever files  *)
(* it uses: cycles are decided one at a time, each exactly once; the next  *)
(* one is decided only on top of a state that has applied all before it;   *)
(* and every decided cycle is eventually applied.                          *)
(***************************************************************************)
EXTENDS Sequences

CONSTANT Cycles

VARIABLES
  decided,  \* the cycles that can no longer be undone, in order
  applied   \* the cycles the runtime's own state has taken in

vars == <<decided, applied>>

Init == decided = <<>> /\ applied = <<>>

Decide(c) ==
  /\ applied = decided
  /\ \A i \in DOMAIN decided : decided[i] # c
  /\ decided' = Append(decided, c)
  /\ UNCHANGED applied

Apply == applied # decided /\ applied' = decided /\ UNCHANGED decided

Next == Apply \/ \E c \in Cycles : Decide(c)

Spec == Init /\ [][Next]_vars

FairSpec == Spec /\ WF_vars(Apply)
===============================================================================

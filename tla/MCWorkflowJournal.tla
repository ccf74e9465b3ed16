-------------------------- MODULE MCWorkflowJournal --------------------------
(* Instances of WorkflowJournal for TLC. *)
EXTENDS WorkflowJournal

CONSTANTS o1, o2, s1, b1, b2, e1, e2
==============================================================================

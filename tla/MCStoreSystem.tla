----------------------------- MODULE MCStoreSystem -----------------------------
(* One host with a cycle of two capital events and two of none, two crashes  *)
(* and one backup; the other with bundles of the same ledger, of a ledger    *)
(* without records, and of two ledgers that differ.                          *)
EXTENDS StoreSystem

MCBodySize == <<2, 0, 0>>

A == Event("body", 1, 1)
B == Event("body", 1, 2)

MCShelves == { {<<>>}, {<<>>, <<A>>}, {<<A>>, <<A, B>>}, {<<A>>, <<B>>, <<A, B>>} }
================================================================================

------------------------------ MODULE StoreSystem ------------------------------
(***************************************************************************)
(* The two hosts the capital ledger lives on.  On the first, the runtime   *)
(* commits cycles and the backup command copies the ledger; the second     *)
(* comes after the first is gone and restores from the bundles that left   *)
(* it.  Bundles are all that passes between them, and BackupIsAHead says   *)
(* what a bundle is, so a behaviour is that of one host or of the other.   *)
(***************************************************************************)
EXTENDS RuntimeStore, LedgerRestore

systemVars == <<vars, restoreVars>>

RestoreUnused ==
  /\ shelf = {}
  /\ copy = CleanCopy
  /\ rst = RestoreAsleep

SourceGone ==
  /\ disk = CleanDisk
  /\ proc = [p \in Procs |-> [Idle EXCEPT !.pc = "gone"]]
  /\ holder = {} /\ run = Asleep /\ grab = Nothing /\ bundles = {}
  /\ tally = [cycles |-> 0, crashes |-> 0, backups |-> 0]

SystemInit == (Init /\ RestoreUnused) \/ (SourceGone /\ RestoreInit)

SystemNext ==
  \/ Next /\ UNCHANGED restoreVars
  \/ RestoreNext /\ UNCHANGED vars

SystemSpec ==
  /\ SystemInit /\ [][SystemNext]_systemVars
  /\ WF_vars(RuntimeNext /\ UNCHANGED restoreVars)
  /\ WF_vars(BackupNext /\ UNCHANGED restoreVars)
===============================================================================

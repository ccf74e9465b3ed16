------------------------------ MODULE LedgerRestore ------------------------------
(***************************************************************************)
(* Restoring a verified backup into a clean directory under a protected    *)
(* head of its own (restore_ledger_backup in backup.rs, restore_clean and  *)
(* what it calls in ledger.rs), when the restore is killed and run again,  *)
(* from the same bundle or from another one.                               *)
(*                                                                         *)
(* A bundle is the records it holds, its snapshot and exported head being  *)
(* theirs (BackupIsAHead of RuntimeStore).  The destination is             *)
(*   journal, snapshot  the files, each a set of at most one content       *)
(*   intent             the pending-restore file, likewise                 *)
(*   temps              temporaries of atomic writes a crash left behind   *)
(*   anchor             the events under the destination's protected head  *)
(* restore_clean holds the destination's lock from first to last, so its   *)
(* decisions are taken at once and its writes follow one by one.           *)
(***************************************************************************)
EXTENDS LedgerStore, FiniteSets

CONSTANTS
  Shelves,      \* the sets of bundles an operator may have at hand
  MaxKills,     \* bound: restores killed
  MaxLosses     \* bound: times the destination's files are lost, its head kept

\* A bundle is a sequence of records.
ASSUME LedgerRestoreAssumption ==
  \A bundle \in UNION Shelves : bundle \in Seq({ bundle[i] : i \in DOMAIN bundle })

VARIABLES
  shelf,  \* the bundles at hand, fixed from the start
  copy,   \* the destination
  rst     \* the restore command: where it is, its bundle, the writes it has left,
          \* and the bundles it was ever run with

restoreVars == <<shelf, copy, rst>>

RestoreAsleep == [pc |-> "idle", bundle |-> <<>>, plan |-> <<>>, tried |-> {},
                  kills |-> 0, losses |-> 0]

CleanCopy == [journal |-> {}, snapshot |-> {}, intent |-> {}, temps |-> {}, anchor |-> <<>>]

RestoreInit ==
  /\ shelf \in Shelves
  /\ copy = CleanCopy
  /\ rst = RestoreAsleep

-------------------------------------------------------------------------------
(* Reading the destination                                                  *)

Temp(file, holds, whole) == [file |-> file, holds |-> holds, whole |-> whole]

\* recover_pending_restore_temporary: intents that a crash left unrenamed and
\* that name a prefix of this bundle.
Proven(c, b) ==
  { t \in c.temps : t.file = "intent" /\ t.whole /\ Prefix(t.holds, b) }

\* The intent the restore goes by, and the destination once it is renamed.
Renamed(c, b) ==
  IF c.intent # {} THEN c
  ELSE [c EXCEPT !.intent = { t.holds : t \in Proven(c, b) },
                 !.temps  = @ \ Proven(c, b)]

\* remove_authenticated_atomic_temporaries: exact payloads of the target only.
\* The payload of an empty journal is no bytes, however little was written.
Stale(c, target) == { t \in c.temps :
  /\ t.file \in {"journal", "snapshot"}
  /\ t.holds = target
  /\ t.whole \/ (t.file = "journal" /\ target = <<>>) }

\* has_only_unanchored_restore_intent_entries
OnlyIntent(c, target) ==
  /\ c.temps = {}
  /\ c.journal \cup c.snapshot \subseteq (IF target = <<>> THEN {target} ELSE {})

Empty(c) == c.journal = {} /\ c.snapshot = {} /\ c.temps = {}

\* has_only_initialized_empty_restore_entries
OnlyEmptyJournal(c) == c.journal = {<<>>} /\ c.snapshot = {} /\ c.temps = {}

\* restore_is_complete; a journal that is missing reads as an empty one.
Complete(c, b) ==
  /\ c.temps = {}
  /\ c.journal = {b} \/ (c.journal = {} /\ b = <<>>)
  /\ c.snapshot = {b}
  /\ c.anchor = b

\* The intent found names a prefix of this bundle, and the destination holds
\* nothing but it unless the head already is the intent's.
Known(c, b) == \A i \in c.intent :
  Prefix(i, b) /\ (c.anchor = <<>> => OnlyIntent(c, i))

\* The destination once the temporaries of the intent's payloads are removed.
Swept(c, b) ==
  IF c.intent = {} \/ ~Known(c, b) THEN c ELSE [c EXCEPT !.temps = @ \ Stale(c, The(c.intent))]

\* A restore may resume the intent; one of an older bundle, only when the
\* destination's head was already moved to it.
Resumable(c, b) == \E i \in c.intent :
  /\ Known(c, b)
  /\ c.temps = {}
  /\ i # b => i # <<>> /\ c.anchor = i
  /\ c.anchor \in {<<>>, i}

\* A restore may begin from nothing.
Beginnable(c, b) ==
  /\ c.intent = {}
  /\ \/ Empty(c) /\ c.anchor \in {<<>>, b}
     \/ OnlyEmptyJournal(c) /\ c.anchor = b /\ b # <<>>

-------------------------------------------------------------------------------
(* Restoring                                                                *)

\* Mutant: the intent is cleared before what it stands for is done.
PayloadPlanIntentFirst(target) ==
  << Replace("anchor", target), Replace("intent", {}),
     Replace("journal", {target}), Replace("snapshot", {target}) >>

\* ensure_restore_anchor, both payloads, and the intent goes last.
PayloadPlan(target) ==
  << Replace("anchor", target), Replace("journal", {target}),
     Replace("snapshot", {target}), Replace("intent", {}) >>

RestorePlan(c, b) ==
  IF Resumable(c, b) THEN PayloadPlan(The(c.intent))
  ELSE IF Beginnable(c, b) THEN <<Replace("intent", {b})>> \o PayloadPlan(b)
  ELSE <<>>

\* restore_ledger_backup from a bundle that verifies.  Two intents that only
\* temporaries hold are refused before either is renamed into place.
Restore(b) ==
  /\ rst.pc \in {"idle", "restored", "refused"}
  /\ LET twofold == copy.intent = {} /\ Cardinality(Proven(copy, b)) > 1
         c       == IF twofold THEN copy ELSE Swept(Renamed(copy, b), b)
         plan    == IF twofold THEN <<>> ELSE RestorePlan(c, b) IN
     /\ copy' = c
     /\ rst' = [rst EXCEPT !.bundle = b, !.plan = plan, !.tried = @ \cup {b},
          !.pc = IF plan # <<>> THEN "writing"
                 ELSE IF ~twofold /\ c.intent = {} /\ Complete(c, b) THEN "restored" ELSE "refused"]
  /\ UNCHANGED shelf

RestoreWrite ==
  /\ rst.pc = "writing" /\ rst.plan # <<>>
  /\ copy' = [copy EXCEPT ![Head(rst.plan).file] = Head(rst.plan).now]
  /\ rst' = [rst EXCEPT !.plan = Tail(@)]
  /\ UNCHANGED shelf

\* Mutant: whatever was restored is reported.
RestoreDoneUnchecked ==
  /\ rst.pc = "writing" /\ rst.plan = <<>>
  /\ rst' = [rst EXCEPT !.pc = "restored"]
  /\ UNCHANGED <<shelf, copy>>

\* The restored ledger must be the bundle's: resuming an older bundle's intent
\* completes that one, and is reported as a mismatch.
RestoreDone ==
  /\ rst.pc = "writing" /\ rst.plan = <<>>
  /\ rst' = [rst EXCEPT !.pc = IF copy.journal = {rst.bundle} THEN "restored" ELSE "refused"]
  /\ UNCHANGED <<shelf, copy>>

\* Killed: between two writes, or inside an atomic one, which leaves its
\* temporary behind, written in full or in part.
RestoreKilled ==
  /\ rst.pc = "writing"
  /\ rst.kills < MaxKills
  /\ rst' = [rst EXCEPT !.pc = "idle", !.plan = <<>>, !.bundle = <<>>, !.kills = @ + 1]
  /\ \/ UNCHANGED copy
     \/ /\ rst.plan # <<>>
        /\ Head(rst.plan).file # "anchor" /\ Head(rst.plan).now # {}
        /\ \E whole \in BOOLEAN : copy' = [copy EXCEPT !.temps =
             @ \cup {Temp(Head(rst.plan).file, The(Head(rst.plan).now), whole)}]
  /\ UNCHANGED shelf

\* The destination's files are lost with its head kept; a ledger command run
\* on what is left creates an empty journal.
CopyLost ==
  /\ rst.pc = "restored"
  /\ rst.losses < MaxLosses
  /\ rst' = [rst EXCEPT !.losses = @ + 1, !.pc = "idle"]
  /\ \E left \in {{}, {<<>>}} :
       copy' = [copy EXCEPT !.journal = left, !.snapshot = {}]
  /\ UNCHANGED shelf

RestoreNext == RestoreWrite \/ RestoreDone \/ RestoreKilled \/ CopyLost \/ \E b \in shelf : Restore(b)

-------------------------------------------------------------------------------
(* Properties                                                               *)

\* A restore that reports success left the bundle's records, all of them and
\* nothing else: in the journal, in the snapshot and under the head.
RestoredExactly == rst.pc = "restored" =>
  /\ copy.journal = {rst.bundle} /\ copy.snapshot = {rst.bundle} /\ copy.anchor = rst.bundle
  /\ copy.intent = {} /\ copy.temps = {}

\* A restore run again with the only bundle ever restored here succeeds, after
\* any kills and after a loss of its files.  It is refused only over a temporary
\* that a kill left and that does not prove itself: cut short, or, for a bundle
\* without records, beside a destination that has no head to vouch for it.
RefusedForCause == rst.pc = "refused" /\ rst.tried = {rst.bundle} =>
  \/ \E t \in copy.temps : ~t.whole
  \/ rst.bundle = <<>> /\ (copy.temps # {} \/ rst.losses > 0)
===============================================================================

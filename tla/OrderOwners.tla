----------------------------- MODULE OrderOwners -----------------------------
(***************************************************************************)
(* Who owns a venue order (src/src/workflow.rs, FileExchangeOrderOwner-    *)
(* Store): the workflow journals of an account share one owner file, and   *)
(* an order id, or a bundle of fill ids, is claimed in it before a journal *)
(* records the evidence that names it, and withdrawn when that commit is   *)
(* known to have failed.  Several handles may be open on one workflow, and *)
(* all but the last to write are stale.                                    *)
(*                                                                         *)
(* A journal is the ids its protected head commits to and whether it is in *)
(* ManualReview; WorkflowJournal models how one commit becomes durable.    *)
(***************************************************************************)
EXTENDS Integers, FiniteSets

CONSTANTS
  Workflows,    \* the workflows of one execution identity
  Handles,      \* the commands that may have a journal open
  Ids,          \* exchange order ids and fill ids: the keys of the store
  Nobody,       \* not a workflow
  Of,           \* the workflow each handle works on
  MaxFailures   \* bound: crashes, I/O errors, contended locks, lost files

ASSUME OwnersAssumption ==
  /\ Of \in [Handles -> Workflows]
  /\ Nobody \notin Workflows
  /\ MaxFailures \in Nat

VARIABLES
  owner,     \* owner[i]: the workflow the owner file names for id i
  journal,   \* journal[w]: what w's journal holds
  storeLock, \* who holds the owner file's lock
  pc,        \* where each handle is
  bundle,    \* the ids its call is about
  inserted,  \* those of them this call added to the owner file
  view,      \* what it has loaded or written of its journal
  failures   \* how many failures have happened

vars == <<owner, journal, storeLock, pc, bundle, inserted, view, failures>>

PCs == {"closed", "reclaim", "open", "claim", "commit", "withdraw", "conflict"}
Journals == [ids : SUBSET Ids, review : BOOLEAN]

\* Every variable stays in its type, so no id has an owner that is no workflow.
TypeOK ==
  /\ owner \in [Ids -> Workflows \cup {Nobody}]
  /\ journal \in [Workflows -> Journals]
  /\ storeLock \in SUBSET Handles
  /\ pc \in [Handles -> PCs]
  /\ bundle \in [Handles -> SUBSET Ids]
  /\ inserted \in [Handles -> SUBSET Ids]
  /\ view \in [Handles -> Journals]
  /\ failures \in Nat

Empty == [ids |-> {}, review |-> FALSE]

Init ==
  /\ owner = [i \in Ids |-> Nobody]
  /\ journal = [w \in Workflows |-> Empty]
  /\ storeLock = {}
  /\ pc = [h \in Handles |-> "closed"]
  /\ bundle = [h \in Handles |-> {}]
  /\ inserted = [h \in Handles |-> {}]
  /\ view = [h \in Handles |-> Empty]
  /\ failures = 0

-----------------------------------------------------------------------------
Goto(h, label) == pc' = [pc EXCEPT ![h] = label]

\* Some id of S is owned by another workflow.
Conflicts(h, S) == \E i \in S : owner[i] \notin {Nobody, Of[h]}

\* Mutant: the claim names the command that makes it.
ClaimedByHandle(h, S) == [i \in Ids |-> IF i \in S /\ owner[i] = Nobody THEN h ELSE owner[i]]

\* The owner file with every missing id of S added for h's workflow.
Claimed(h, S) == [i \in Ids |-> IF i \in S /\ owner[i] = Nobody THEN Of[h] ELSE owner[i]]

\* The owner file without the ids of S.
Without(S) == [i \in Ids |-> IF i \in S THEN Nobody ELSE owner[i]]

\* The handle still holds what is durable, so its append will be accepted.
Fresh(h) == view[h] = journal[Of[h]]

Fails == failures < MaxFailures /\ failures' = failures + 1

Leave(h) ==
  /\ storeLock' = storeLock \ {h}
  /\ bundle' = [bundle EXCEPT ![h] = {}]
  /\ inserted' = [inserted EXCEPT ![h] = {}]

-----------------------------------------------------------------------------
\* open_or_create loads the journal and drops its append lock ...
Open(h) ==
  /\ pc[h] = "closed"
  /\ view' = [view EXCEPT ![h] = journal[Of[h]]]
  /\ Goto(h, "reclaim")
  /\ UNCHANGED <<owner, journal, storeLock, bundle, inserted, failures>>

\* ... and then claims again whatever the journal it loaded names: the order,
\* and when that does not conflict the fills.
Reclaim(h) ==
  /\ pc[h] = "reclaim"
  /\ storeLock = {}
  /\ IF Conflicts(h, view[h].ids)
     THEN /\ \E S \in SUBSET view[h].ids : ~Conflicts(h, S) /\ owner' = Claimed(h, S)
          /\ Goto(h, IF view[h].review THEN "open" ELSE "conflict")
     ELSE /\ owner' = Claimed(h, view[h].ids)
          /\ Goto(h, "open")
  /\ UNCHANGED <<journal, storeLock, bundle, inserted, view, failures>>

\* The venue names an order, or an eligibility record its fills.
Observe(h) ==
  /\ pc[h] = "open" /\ ~view[h].review
  /\ \E S \in SUBSET Ids \ {{}} : bundle' = [bundle EXCEPT ![h] = S]
  /\ Goto(h, "claim")
  /\ UNCHANGED <<owner, journal, storeLock, inserted, view, failures>>

\* Mutant: an id that is owned at all conflicts, even with its own owner.
ClaimUnlessFree(h) ==
  /\ pc[h] = "claim"
  /\ storeLock = {}
  /\ IF \E i \in bundle[h] : owner[i] # Nobody
     THEN Goto(h, "conflict") /\ UNCHANGED <<owner, storeLock, inserted>>
     ELSE /\ owner' = Claimed(h, bundle[h])
          /\ inserted' = [inserted EXCEPT ![h] = bundle[h]]
          /\ storeLock' = {h}
          /\ Goto(h, "commit")
  /\ UNCHANGED <<journal, bundle, view, failures>>

\* Under the store's lock: all of the bundle or nothing.
Claim(h) ==
  /\ pc[h] = "claim"
  /\ storeLock = {}
  /\ \/ /\ Conflicts(h, bundle[h])
        /\ Goto(h, "conflict")
        /\ UNCHANGED <<owner, storeLock, inserted>>
     \/ /\ ~Conflicts(h, bundle[h])
        /\ owner' = Claimed(h, bundle[h])
        /\ inserted' = [inserted EXCEPT ![h] = {i \in bundle[h] : owner[i] = Nobody}]
        /\ storeLock' = {h}
        /\ Goto(h, "commit")
  /\ UNCHANGED <<journal, bundle, view, failures>>

\* Mutant: a commit in doubt is taken for a rejected one.
CommitInDoubtWithdrawn(h) ==
  /\ pc[h] = "commit"
  /\ IF Fresh(h) THEN Fails ELSE UNCHANGED failures
  /\ journal' \in {journal} \cup
       (IF Fresh(h) THEN {[journal EXCEPT ![Of[h]].ids = @ \cup bundle[h]]} ELSE {})
  /\ Goto(h, "withdraw")
  /\ UNCHANGED <<owner, view, storeLock, bundle, inserted>>

\* The journal's commit, while the store's lock is held.  An I/O error leaves
\* it ambiguous; anything else that fails it is known to have written nothing.
Commit(h) ==
  /\ pc[h] = "commit"
  /\ LET new == [view[h] EXCEPT !.ids = @ \cup bundle[h]] IN
     \/ /\ Fresh(h)
        /\ journal' = [journal EXCEPT ![Of[h]] = new]
        /\ view' = [view EXCEPT ![h] = new]
        /\ Leave(h) /\ Goto(h, "open")
        /\ UNCHANGED failures
     \/ /\ Fresh(h) /\ Fails
        /\ journal' \in {journal, [journal EXCEPT ![Of[h]] = new]}
        /\ Leave(h) /\ Goto(h, "open")
        /\ UNCHANGED view
     \/ /\ IF Fresh(h) THEN Fails ELSE UNCHANGED failures
        /\ Goto(h, "withdraw")
        /\ UNCHANGED <<journal, view, storeLock, bundle, inserted>>
  /\ UNCHANGED owner

\* Mutant: a rejected commit withdraws the whole bundle it was about.
WithdrawBundle(h) ==
  /\ pc[h] = "withdraw"
  /\ owner' = Without(bundle[h])
  /\ Leave(h) /\ Goto(h, "open")
  /\ UNCHANGED <<journal, view, failures>>

\* A rejected commit takes back the intents this call inserted, and no others.
Withdraw(h) ==
  /\ pc[h] = "withdraw"
  /\ owner' = Without(inserted[h])
  /\ Leave(h) /\ Goto(h, "open")
  /\ UNCHANGED <<journal, view, failures>>

\* The conflict is recorded after the store's lock was dropped; a stale handle
\* cannot even record it.
Conflict(h) ==
  /\ pc[h] = "conflict"
  /\ IF Fresh(h)
     THEN /\ journal' = [journal EXCEPT ![Of[h]].review = TRUE]
          /\ view' = [view EXCEPT ![h].review = TRUE]
     ELSE UNCHANGED <<journal, view>>
  /\ Leave(h)
  /\ Goto(h, "closed")
  /\ UNCHANGED <<owner, failures>>

\* Rewriting the owner file fails, before or after its rename.
StoreFails(h) ==
  /\ Fails
  /\ \/ /\ pc[h] = "claim" /\ storeLock = {} /\ ~Conflicts(h, bundle[h])
        /\ owner' \in {owner, Claimed(h, bundle[h])}
     \/ /\ pc[h] = "withdraw"
        /\ owner' \in {owner, Without(inserted[h])}
  /\ Leave(h) /\ Goto(h, "open")
  /\ UNCHANGED <<journal, view>>

\* A command ends, or dies wherever it is; the kernel drops its lock.
Close(h) ==
  /\ pc[h] # "closed"
  /\ IF pc[h] = "open" THEN UNCHANGED failures ELSE Fails
  /\ Leave(h)
  /\ view' = [view EXCEPT ![h] = Empty]
  /\ Goto(h, "closed")
  /\ UNCHANGED <<owner, journal>>

\* A missing owner file reads as an empty one: it may be lost between commands.
LoseFile ==
  /\ Fails
  /\ \A h \in Handles : pc[h] = "closed"
  /\ owner' = [i \in Ids |-> Nobody]
  /\ UNCHANGED <<journal, storeLock, pc, bundle, inserted, view>>

Next ==
  \/ \E h \in Handles :
       \/ Open(h) \/ Reclaim(h) \/ Observe(h) \/ Claim(h) \/ Commit(h)
       \/ Withdraw(h) \/ Conflict(h) \/ StoreFails(h) \/ Close(h)
  \/ LoseFile

Spec == Init /\ [][Next]_vars

-----------------------------------------------------------------------------
(* Properties *)

Working(h) == pc[h] \notin {"closed", "reclaim", "conflict"}

\* A handle that may act on its workflow owns every id its journal records,
\* those other handles recorded included, whatever was lost, refused or left in
\* doubt before: one venue order never discharges two workflows at work.
OpenIsOwned ==
  \A h \in Handles : Working(h) /\ ~view[h].review =>
    \A i \in journal[Of[h]].ids : owner[i] = Of[h]

\* Once committed, ownership is immutable: no rejected, failed or repeated call
\* takes an id from the workflow whose journal records it.
OwnershipPermanent ==
  [][ LoseFile \/ \A w \in Workflows : \A i \in journal[w].ids :
        owner[i] = w => owner'[i] = w ]_vars

\* The conflict is found under the lock and acted on after it: by then another
\* workflow still owns what the reviewed one asked for or recorded.
ReviewJustified ==
  [][ \A h \in Handles :
        pc[h] = "conflict" /\ journal'[Of[h]].review /\ ~journal[Of[h]].review =>
          Conflicts(h, bundle[h] \cup view[h].ids) ]_vars
==============================================================================

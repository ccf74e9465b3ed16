------------------------------ MODULE LedgerStore ------------------------------
(***************************************************************************)
(* The files of one durable capital ledger and what its operations do to   *)
(* them (ledger.rs): the append-only journal, the snapshot, the pending    *)
(* append and, outside the directory, the protected head.                  *)
(*                                                                         *)
(* Every record carries the hash of the one before it, so a head, a prior  *)
(* length or a digest stands for exactly one sequence of events; the model *)
(* writes that sequence.  A file that may be missing is a set of at most   *)
(* one content.  An operation is a plan: the sequence of durable writes it *)
(* makes while it holds the directory's lock, worked out from the files it *)
(* found.  A crash may fall between any two writes of a plan; appending a  *)
(* line counts as two, so that a reader or a crash can meet it cut short.  *)
(*                                                                         *)
(* A store is any record with at least these fields:                       *)
(*   journal   the whole lines of the journal                              *)
(*   torn      the event whose line is cut short at the journal's end      *)
(*   snapshot  the events the replay snapshot covers                       *)
(*   pending   the append under way: what came before it, and its event    *)
(*   anchor    the events under the protected head (none: no head)         *)
(* Left out: schema version 1 of the snapshot and pending formats, I/O     *)
(* errors, and the refusals of linked or replaced files.                   *)
(***************************************************************************)
EXTENDS Naturals, Sequences

The(S) == CHOOSE x \in S : TRUE

Holds(records, e) == \E i \in DOMAIN records : records[i] = e

Prefix(s, t) == Len(s) <= Len(t) /\ s = SubSeq(t, 1, Len(s))

\* One durable write: the file, what it will hold, and the file that must
\* still hold what was found ("was" is empty where nothing is compared).
Replace(file, content) == [file |-> file, now |-> content, on |-> file, was |-> {}]

IfStill(on, found, file, content) ==
  [file |-> file, now |-> content, on |-> on, was |-> {found}]

Put(store, write) ==
  IF write.file = "journal" THEN [store EXCEPT !.journal = write.now, !.torn = {}]
                            ELSE [store EXCEPT ![write.file] = write.now]

InTime(store, write) == write.was \subseteq {store[write.on]}

-------------------------------------------------------------------------------
(* Opening                                                                  *)

\* apply_event: a cycle is committed only after it was prepared.
Replayable(records) ==
  \A i \in DOMAIN records : records[i].kind = "committed" =>
    \E j \in 1..(i - 1) : records[j] = [records[i] EXCEPT !.kind = "prepared"]

Unrepeated(records) ==
  \A i, j \in DOMAIN records : records[i] = records[j] => i = j

\* load_records takes whole lines only.
Whole(store) == store.torn = {}

HeadMatches(store) == store.anchor = store.journal

SnapshotCurrent(store) ==
  store.snapshot = {store.journal} \/ (store.snapshot = {} /\ store.journal = <<>>)

Opens(store) ==
  /\ Whole(store)
  /\ HeadMatches(store)
  /\ Replayable(store.journal)
  /\ SnapshotCurrent(store)
  /\ Unrepeated(store.journal)

-------------------------------------------------------------------------------
(* Recovering the append a crash interrupted                                *)

PendingAppend(records, e) == [prior |-> records, event |-> e]

Target(p) == Append(p.prior, p.event)

SnapshotOf(records) == IF records = <<>> THEN {} ELSE {records}

\* Mutant: a line that was cut short explains nothing.
TailWholeOnly(store, p) == store.journal \in {p.prior, Target(p)} /\ store.torn = {}

\* What follows the prior records: nothing, the pending line, or part of it.
TailExplained(store, p) ==
  \/ store.journal = p.prior /\ store.torn \subseteq {p.event}
  \/ store.journal = Target(p) /\ store.torn = {}

JournalTouched(store, p) == store.journal # p.prior \/ store.torn # {}

RollsBack(store, p) == store.anchor = p.prior

Recoverable(store) == \A p \in store.pending :
  TailExplained(store, p) /\ store.anchor \in {p.prior, Target(p)}

RollbackPlan(store, p) ==
  (IF JournalTouched(store, p) THEN <<Replace("journal", p.prior)>> ELSE <<>>)
  \o << Replace("snapshot", SnapshotOf(p.prior)),
        Replace("pending", {}) >>

RollforwardPlan(p) ==
  << Replace("journal", Target(p)),
     Replace("snapshot", SnapshotOf(Target(p))),
     Replace("pending", {}) >>

RecoveryPlan(store) ==
  IF store.pending = {} THEN <<>>
  ELSE LET p == The(store.pending) IN
       IF RollsBack(store, p) THEN RollbackPlan(store, p) ELSE RollforwardPlan(p)

\* recover_pending's answer: the journal on disk was replaced.
RecoveryReplaces(store) == \E p \in store.pending :
  ~RollsBack(store, p) \/ JournalTouched(store, p)

\* The store once its recovery plan has run.
Recovered(store) ==
  IF store.pending = {} THEN store
  ELSE LET p    == The(store.pending)
           kept == IF RollsBack(store, p) THEN p.prior ELSE Target(p)
       IN  [store EXCEPT !.journal = kept, !.torn = {}, !.pending = {},
                         !.snapshot = SnapshotOf(kept)]

-------------------------------------------------------------------------------
(* Appending and checkpointing                                              *)

\* The writes that add an event to an open store: the protected head moves
\* before the journal does.
WriteAhead(store, e) ==
  LET next == Append(store.journal, e) IN
  << Replace("pending", {PendingAppend(store.journal, e)}),
     IfStill("anchor", store.anchor, "anchor", next),
     IfStill("journal", store.journal, "torn", {e}),
     Replace("journal", next),
     Replace("snapshot", {next}),
     Replace("pending", {}) >>

\* append: recover, reopen, then nothing for an event that is already there.
AppendPlan(store, e) ==
  RecoveryPlan(store)
  \o IF Holds(Recovered(store).journal, e) THEN <<>> ELSE WriteAhead(Recovered(store), e)

Appendable(store, e) ==
  /\ Recoverable(store)
  /\ Opens(Recovered(store))
  /\ Holds(Recovered(store).journal, e) \/ Replayable(Append(Recovered(store).journal, e))

\* ensure_current: the journal and the protected head are the ones this
\* process opened, and the snapshot covers them.
Current(store, view) ==
  Whole(store) /\ HeadMatches(store) /\ store.journal = view /\ SnapshotCurrent(store)

-------------------------------------------------------------------------------
(* What a runtime reads out of the events                                   *)

Prepared(records, c) == \E i \in DOMAIN records :
  records[i].kind = "prepared" /\ records[i].cycle = c

Committed(records, c) == \E i \in DOMAIN records :
  records[i].kind = "committed" /\ records[i].cycle = c

Uncommitted(records) == \E i \in DOMAIN records :
  records[i].kind = "prepared" /\ ~Committed(records, records[i].cycle)

\* last_runtime_cycle_hash, as the set of at most one cycle.
HeadCycle(records) ==
  { records[i].cycle : i \in { j \in DOMAIN records :
      /\ records[j].kind = "committed"
      /\ \A k \in DOMAIN records : records[k].kind = "committed" => k <= j } }
===============================================================================

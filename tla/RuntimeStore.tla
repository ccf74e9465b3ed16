------------------------------ MODULE RuntimeStore ------------------------------
(***************************************************************************)
(* The signer-free runtime's durable state: how one cycle is committed to  *)
(* a pending file, the capital ledger, the state file and a proof file     *)
(* (runtime.rs), how the next process resumes it after a crash anywhere,   *)
(* and how the backup command (backup.rs) copies the ledger meanwhile.     *)
(*                                                                         *)
(* The runtime is a one-shot process that a timer starts again; its own    *)
(* lock admits one at a time.  The backup takes only the ledger's lock,    *)
(* call by call, and reads the files it copies under no lock at all.       *)
(*                                                                         *)
(* A cycle's hash covers everything in it, its time included, so every     *)
(* attempt at a cycle is a new name: the numbers 1, 2, ... as minted.      *)
(* The runtime's state is the sequence of the cycles it has taken in.      *)
(***************************************************************************)
EXTENDS LedgerStore, FiniteSets, SequencesExt

CONSTANTS
  MaxCycles,   \* bound: attempts to commit a cycle
  MaxCrashes,  \* bound: processes killed
  MaxBackups,  \* bound: runs of the backup command
  BodySize     \* the number of capital events of each cycle

ASSUME RuntimeStoreAssumption ==
  /\ MaxCycles \in Nat /\ MaxCrashes \in Nat /\ MaxBackups \in Nat
  /\ BodySize \in [1..MaxCycles -> Nat]

VARIABLES
  disk,     \* the ledger's files, and the runtime's state, proof and cycle files
  proc,     \* each process: where it is, the writes it has left, its view of the ledger
  holder,   \* the processes that hold the ledger's lock
  run,      \* what else the runtime process holds in memory
  grab,     \* what else the backup process has read
  bundles,  \* the backups published with their protected-head export
  tally     \* cycles minted, crashes and backup runs so far

vars == <<disk, proc, holder, run, grab, bundles, tally>>

Cycles == 1..MaxCycles
Procs == {"runtime", "backup"}

Event(kind, c, n) == [kind |-> kind, cycle |-> c, nth |-> n]

\* pending_cycle_ledger_events
EventsOf(c) ==
  <<Event("prepared", c, 0)>>
  \o [n \in 1..BodySize[c] |-> Event("body", c, n)]
  \o <<Event("committed", c, 0)>>

BodyCount(records, c) == Cardinality({ i \in DOMAIN records :
  records[i].kind = "body" /\ records[i].cycle = c })

\* ensure_capital_totals_match: the capital of the state is the ledger's.
TotalsMatch(state, records) == \A c \in Cycles :
  BodyCount(records, c) = IF Holds(state, c) THEN BodySize[c] ELSE 0

LastOf(state) == IF state = <<>> THEN {} ELSE {state[Len(state)]}

Idle == [pc |-> "idle", plan |-> <<>>, view |-> <<>>]
Asleep == [state |-> <<>>, todo |-> {}, next |-> 1, opened |-> FALSE]
Nothing == [anchor |-> <<>>, journal |-> <<>>, torn |-> {}, snapshot |-> {}]

CleanDisk ==
  [journal |-> <<>>, torn |-> {}, snapshot |-> {}, pending |-> {}, anchor |-> <<>>,
   state |-> <<>>, proof |-> {}, cycle |-> {}]

Init ==
  /\ disk = CleanDisk
  /\ proc = [p \in Procs |-> Idle]
  /\ holder = {}
  /\ run = Asleep
  /\ grab = Nothing
  /\ bundles = {}
  /\ tally = [cycles |-> 0, crashes |-> 0, backups |-> 0]

At(p, pc) == proc[p].pc = pc /\ proc[p].plan = <<>>

Go(p, pc) == proc' = [proc EXCEPT ![p].pc = pc]

GoWith(p, pc, plan) == proc' = [proc EXCEPT ![p].pc = pc, ![p].plan = plan]

Acquire(p) == holder = {} /\ holder' = {p}

Release(p) == holder' = holder \ {p}

\* One durable write of the plan; a write that finds its file changed fails.
Write(p) ==
  /\ proc[p].plan # <<>>
  /\ LET write == Head(proc[p].plan) IN
     IF InTime(disk, write)
     THEN /\ disk' = Put(disk, write)
          /\ proc' = [proc EXCEPT ![p].plan = Tail(@)]
          /\ UNCHANGED holder
     ELSE /\ GoWith(p, "refused", <<>>)
          /\ Release(p)
          /\ UNCHANGED disk
  /\ UNCHANGED <<run, grab, bundles, tally>>

\* DurableLedger::open: take the lock, recover the append a crash left ...
OpenLedger(p) ==
  /\ At(p, "opening")
  /\ Acquire(p)
  /\ IF Recoverable(disk) THEN GoWith(p, "recovering", RecoveryPlan(disk))
                          ELSE Go(p, "refused")
  /\ UNCHANGED <<disk, run, grab, bundles, tally>>

\* ... verify journal, protected head and snapshot, and let the lock go.
OpenedLedger(p) ==
  /\ At(p, "recovering")
  /\ Release(p)
  /\ proc' = [proc EXCEPT ![p].view = disk.journal,
       ![p].pc = IF ~Opens(disk) THEN "refused"
                 ELSE IF p = "runtime" THEN "resuming" ELSE "opened"]
  /\ UNCHANGED <<disk, run, grab, bundles, tally>>

-------------------------------------------------------------------------------
(* The runtime                                                              *)

\* SignerFreeRuntime::open under the runtime's own lock: read the state file.
Start ==
  /\ At("runtime", "idle")
  /\ run' = [Asleep EXCEPT !.state = disk.state]
  /\ Go("runtime", "opening")
  /\ UNCHANGED <<disk, holder, grab, bundles, tally>>

\* Mutant: only a cycle that is committed is resumed.
ResumeIfCommitted ==
  /\ At("runtime", "resuming")
  /\ LET view == proc["runtime"].view IN
     /\ run' = [run EXCEPT !.todo = { q \in disk.cycle : Committed(view, q.cycle) }]
     /\ IF run'.todo # {} THEN Go("runtime", "committing")
        ELSE IF Uncommitted(view) THEN Go("runtime", "refused")
        ELSE GoWith("runtime", "checking",
                    IF disk.cycle = {} THEN <<>> ELSE <<Replace("cycle", {})>>)
  /\ UNCHANGED <<disk, holder, grab, bundles, tally>>

\* recover_pending_cycle
ResumeCycle ==
  /\ At("runtime", "resuming")
  /\ LET view == proc["runtime"].view IN
     /\ run' = [run EXCEPT !.todo = { q \in disk.cycle : Prepared(view, q.cycle) }]
     /\ IF run'.todo # {} THEN Go("runtime", "committing")
        ELSE IF Uncommitted(view) THEN Go("runtime", "refused")
        ELSE GoWith("runtime", "checking",
                    IF disk.cycle = {} THEN <<>> ELSE <<Replace("cycle", {})>>)
  /\ UNCHANGED <<disk, holder, grab, bundles, tally>>

\* commit_pending_cycle's refusals: the cycle builds on the ledger's last
\* cycle, and no other prepared cycle is waiting.
Commit ==
  /\ At("runtime", "committing")
  /\ LET view == proc["runtime"].view
         q    == The(run.todo) IN
     Go("runtime",
        IF \/ ~Committed(view, q.cycle) /\ LastOf(q.state) # HeadCycle(view)
           \/ Uncommitted(view) /\ ~Prepared(view, q.cycle)
        THEN "refused" ELSE "appending")
  /\ run' = [run EXCEPT !.next = 1]
  /\ UNCHANGED <<disk, holder, grab, bundles, tally>>

\* DurableLedger::append of the cycle's next event.
AppendNext ==
  /\ At("runtime", "appending")
  /\ \E q \in run.todo :
       /\ run.next <= Len(EventsOf(q.cycle))
       /\ Acquire("runtime")
       /\ LET e == EventsOf(q.cycle)[run.next] IN
          IF Appendable(disk, e) THEN GoWith("runtime", "writing", AppendPlan(disk, e))
                                 ELSE Go("runtime", "refused")
  /\ UNCHANGED <<disk, run, grab, bundles, tally>>

Appended ==
  /\ At("runtime", "writing")
  /\ Release("runtime")
  /\ proc' = [proc EXCEPT !["runtime"].pc = "appending", !["runtime"].view = disk.journal]
  /\ run' = [run EXCEPT !.next = @ + 1]
  /\ UNCHANGED <<disk, grab, bundles, tally>>

\* The rest of commit_pending_cycle: totals and head must match, then the
\* state file, the proof of the committed cycle, and the pending file goes.
Taken(q) == Append(q.state, q.cycle)

\* Mutant: the pending file goes first.
CommitPlanUnlinkFirst(q) ==
  << Replace("cycle", {}), Replace("state", Taken(q)), Replace("proof", {q}) >>

CommitPlan(q) == << Replace("state", Taken(q)), Replace("proof", {q}), Replace("cycle", {}) >>

Publish ==
  /\ At("runtime", "appending")
  /\ \E q \in run.todo :
       LET view == proc["runtime"].view IN
       /\ run.next > Len(EventsOf(q.cycle))
       /\ IF /\ Committed(view, q.cycle)
             /\ TotalsMatch(Taken(q), view)
             /\ HeadCycle(view) = {q.cycle}
          THEN GoWith("runtime", "publishing", CommitPlan(q))
          ELSE Go("runtime", "refused")
  /\ UNCHANGED <<disk, holder, run, grab, bundles, tally>>

\* Mutant: the process goes on with the state it had.
PublishedStale ==
  /\ At("runtime", "publishing")
  /\ run' = [run EXCEPT !.todo = {}]
  /\ Go("runtime", IF run.opened THEN "ready" ELSE "checking")
  /\ UNCHANGED <<disk, holder, grab, bundles, tally>>

Published ==
  /\ At("runtime", "publishing")
  /\ run' = [run EXCEPT !.state = Taken(The(run.todo)), !.todo = {}]
  /\ Go("runtime", IF run.opened THEN "ready" ELSE "checking")
  /\ UNCHANGED <<disk, holder, grab, bundles, tally>>

\* The checks that end open: totals, head, and the state file against its proof.
Authenticated(state, records, proof) ==
  IF proof = {} THEN state = <<>> /\ records = <<>>
  ELSE \E q \in proof : HeadCycle(records) = {q.cycle} /\ state = Taken(q)

Check ==
  /\ At("runtime", "checking")
  /\ LET view == proc["runtime"].view IN
     Go("runtime",
        IF /\ TotalsMatch(run.state, view)
           /\ LastOf(run.state) = HeadCycle(view)
           /\ Authenticated(run.state, view, disk.proof)
        THEN "ready" ELSE "refused")
  /\ run' = [run EXCEPT !.opened = TRUE]
  /\ UNCHANGED <<disk, holder, grab, bundles, tally>>

\* commit_state_change: the planned batch is validated against the ledger as
\* it is, then the pending cycle is written ahead of everything else.
Decide ==
  /\ At("runtime", "ready")
  /\ tally.cycles < MaxCycles
  /\ LET q == [cycle |-> tally.cycles + 1, state |-> run.state] IN
     IF Current(disk, proc["runtime"].view)
     THEN /\ run' = [run EXCEPT !.todo = {q}]
          /\ GoWith("runtime", "committing", <<Replace("cycle", {q})>>)
     ELSE Go("runtime", "refused") /\ UNCHANGED run
  /\ tally' = [tally EXCEPT !.cycles = @ + 1]
  /\ UNCHANGED <<disk, holder, grab, bundles>>

\* The process ends, its work done or refused; the timer will start another.
Exit ==
  /\ At("runtime", "ready") \/ At("runtime", "refused")
  /\ proc' = [proc EXCEPT !["runtime"] = Idle]
  /\ Release("runtime")
  /\ run' = Asleep
  /\ UNCHANGED <<disk, grab, bundles, tally>>

-------------------------------------------------------------------------------
(* The backup command                                                       *)

BackupStart ==
  /\ At("backup", "idle")
  /\ tally.backups < MaxBackups
  /\ tally' = [tally EXCEPT !.backups = @ + 1]
  /\ Go("backup", "opening")
  /\ UNCHANGED <<disk, holder, run, grab, bundles>>

\* checkpoint: nothing to recover, still the ledger that was opened.
Checkpoint ==
  /\ At("backup", "opened")
  /\ Acquire("backup")
  /\ IF Recoverable(disk) /\ ~RecoveryReplaces(disk)
     THEN GoWith("backup", "checkpointing", RecoveryPlan(disk))
     ELSE Go("backup", "refused")
  /\ UNCHANGED <<disk, run, grab, bundles, tally>>

CheckpointCurrent ==
  /\ At("backup", "checkpointing")
  /\ IF Current(disk, proc["backup"].view)
     THEN GoWith("backup", "checkpointed", <<Replace("snapshot", {proc["backup"].view})>>)
     ELSE Go("backup", "refused")
  /\ UNCHANGED <<disk, holder, run, grab, bundles, tally>>

\* The lock is gone before anything is read: the head, then the journal,
\* then the snapshot.
ReadAnchor ==
  /\ At("backup", "checkpointed")
  /\ Release("backup")
  /\ Go("backup", "anchored")
  /\ grab' = [grab EXCEPT !.anchor = disk.anchor]
  /\ UNCHANGED <<disk, run, bundles, tally>>

ReadJournal ==
  /\ At("backup", "anchored")
  /\ Go("backup", "journaled")
  /\ grab' = [grab EXCEPT !.journal = disk.journal, !.torn = disk.torn]
  /\ UNCHANGED <<disk, holder, run, bundles, tally>>

ReadSnapshot ==
  /\ At("backup", "journaled")
  /\ Go("backup", "staging")
  /\ grab' = [grab EXCEPT !.snapshot = disk.snapshot]
  /\ UNCHANGED <<disk, holder, run, bundles, tally>>

\* Mutant: the export is compared with the manifest, the copy is not opened.
VerifiedByExport(checkpoint, copied) == copied.anchor = checkpoint

\* load_verified_backup on the staged copy: the manifest is the checkpoint's,
\* the export is its head, and the copy opens under that head.
Verified(checkpoint, copied) ==
  copied.anchor = checkpoint /\ copied.journal = checkpoint /\ Opens(copied)

PublishBundle ==
  /\ At("backup", "staging")
  /\ Go("backup", IF Verified(proc["backup"].view, grab) THEN "exporting" ELSE "refused")
  /\ UNCHANGED <<disk, holder, run, grab, bundles, tally>>

\* Without its protected-head export a bundle cannot be verified or restored.
PublishExport ==
  /\ At("backup", "exporting")
  /\ bundles' = bundles \cup {grab}
  /\ proc' = [proc EXCEPT !["backup"] = Idle]
  /\ grab' = Nothing
  /\ UNCHANGED <<disk, holder, run, tally>>

\* A refused backup exits; the operator may run it again.
BackupFails ==
  /\ At("backup", "refused")
  /\ Release("backup")
  /\ proc' = [proc EXCEPT !["backup"] = Idle]
  /\ grab' = Nothing
  /\ UNCHANGED <<disk, run, bundles, tally>>

-------------------------------------------------------------------------------
(* Crashes                                                                  *)

\* The process is killed between two of its writes: its locks and its memory
\* go, and the files stay as they are.
Crash(p) ==
  /\ proc[p].pc \notin {"idle", "refused", "gone"}
  /\ tally.crashes < MaxCrashes
  /\ tally' = [tally EXCEPT !.crashes = @ + 1]
  /\ proc' = [proc EXCEPT ![p] = Idle]
  /\ Release(p)
  /\ run' = IF p = "runtime" THEN Asleep ELSE run
  /\ grab' = IF p = "backup" THEN Nothing ELSE grab
  /\ UNCHANGED <<disk, bundles>>

RuntimeNext ==
  \/ Start \/ OpenLedger("runtime") \/ OpenedLedger("runtime") \/ ResumeCycle \/ Commit
  \/ AppendNext \/ Appended \/ Publish \/ Published \/ Check \/ Decide \/ Exit
  \/ Write("runtime")

BackupNext ==
  \/ BackupStart \/ OpenLedger("backup") \/ OpenedLedger("backup") \/ Checkpoint
  \/ CheckpointCurrent \/ ReadAnchor \/ ReadJournal \/ ReadSnapshot
  \/ PublishBundle \/ PublishExport \/ BackupFails \/ Write("backup")

Next == RuntimeNext \/ BackupNext \/ \E p \in Procs : Crash(p)

Spec == Init /\ [][Next]_vars

\* The timer starts the runtime again and a running process keeps running;
\* killing it is never required.
FairSpec == Spec /\ WF_vars(RuntimeNext) /\ WF_vars(BackupNext)

-------------------------------------------------------------------------------
(* Properties                                                               *)

\* Whatever was interrupted, and by whomever it is resumed, no sequence of
\* crashes and backups leaves the runtime with files it refuses to open or
\* with a cycle it refuses to commit (PendingCycleConflict, RuntimeStateRollback,
\* MissingAuthenticatedPendingCycle, CommittedCycleProofMismatch, and the
\* ledger's own TruncatedLedger, StaleSnapshot and anchor errors).
NeverRefused == proc["runtime"].pc # "refused"

\* At every moment, recovering the ledger's files would give exactly the
\* records under the protected head: nothing the head covers is lost, and
\* nothing it does not cover survives.
HeadRecovers ==
  Recoverable(disk) /\ Recovered(disk).journal = disk.anchor /\ Opens(Recovered(disk))

LedgerOf(state) == FlattenSeq([i \in DOMAIN state |-> EventsOf(state[i])])

\* A runtime that is ready to decide has whole cycles only in its ledger, in
\* the order of its state, and the state file is that state.
WholeCycles == At("runtime", "ready") =>
  disk.state = run.state /\ disk.journal = LedgerOf(run.state)

\* A backup that was published opens by itself, under its own exported head,
\* and holds what the source's protected head once covered, in order and from
\* the first record, whatever was being appended, cut short or recovered while
\* the command read the files without the lock.
BackupIsAHead == \A b \in bundles : Opens(b) /\ Prefix(b.journal, disk.anchor)

\* The cycles whose first event is among the records, in order.
PreparedBy(e) == IF e.kind = "prepared" THEN <<e.cycle>> ELSE <<>>

DecidedIn(records) == FlattenSeq([i \in DOMAIN records |-> PreparedBy(records[i])])

CycleLog == INSTANCE CycleLog WITH
  Cycles  <- Cycles,
  decided <- DecidedIn(disk.anchor),
  applied <- disk.state

\* Crash by crash and file by file, the runtime keeps the promise of CycleLog:
\* a cycle is decided once, when the head that covers its first event is
\* protected, on top of a state that has all before it, and it is applied.
ImplementsCycleLog == CycleLog!FairSpec
===============================================================================

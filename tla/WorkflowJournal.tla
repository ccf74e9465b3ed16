--------------------------- MODULE WorkflowJournal ---------------------------
(***************************************************************************)
(* The durable journal of one daily workflow (src/src/workflow.rs): a      *)
(* hash-chained JSONL file, a checkpoint beside it, an independently       *)
(* protected head, and a pending-append marker that ties the three         *)
(* together.  Every file operation that a crash can separate from the next *)
(* one is a step of its own.                                               *)
(*                                                                         *)
(* A record's hash commits to the whole chain before it, so a head or a    *)
(* checkpoint is modelled by the log it names; a file length by the number *)
(* of lines.  <<>> is the head and the checkpoint of an empty journal.     *)
(* The files that may be missing are sets of at most one element.          *)
(***************************************************************************)
EXTENDS Integers, FiniteSets, SequencesExt

CONSTANTS
  Owners,       \* processes that open the journal to append to it
  Scanners,     \* processes that read it as history (peek_verified_terminal_state)
  Peekers,      \* the owners that call peek_committed_binding before opening
  Bindings,     \* the bindings computed for the decision (they share its
                \* workflow id): the payload of a journal's first record
  Events,       \* the later events, one per event id
  MaxLen,       \* bound: records in a journal
  MaxFailures,  \* bound: crashes, power losses and I/O errors of a behaviour
  HeadReverts   \* whether a power loss may undo a head swap whose directory
                \* was not synced yet

Processes == Owners \cup Scanners
Records == Bindings \cup Events
Logs == Seq(Records)

ASSUME JournalAssumption ==
  /\ Owners \cap Scanners = {}
  /\ Peekers \subseteq Owners
  /\ Bindings # {}
  /\ MaxLen \in Nat
  /\ MaxFailures \in Nat
  /\ HeadReverts \in BOOLEAN

VARIABLES
  journal,   \* the complete lines of the journal file
  torn,      \* whether an incomplete line follows them
  unsynced,  \* whether the last complete line still awaits an fsync
  pending,   \* the pending-append file: {} or {[prior, next]}
  ckpt,      \* the checkpoint file: {} or the log it names
  head,      \* the protected head
  synced,    \* what the last fsync of the directory made durable
  lock,      \* who holds the append lock
  pc,        \* where each process is
  mode,      \* which call it is in
  goal,      \* the log it is about to commit
  view,      \* the log its handle has loaded
  outcome,   \* how its last call ended
  observed,  \* the log the last successful call reported, to anyone
  failures   \* how many failures have happened

disk == <<journal, torn, unsynced, pending, ckpt, head, synced>>
local == <<pc, mode, goal, view, outcome>>
vars == <<journal, torn, unsynced, pending, ckpt, head, synced,
          lock, pc, mode, goal, view, outcome, observed, failures>>

\* The program counters of a call that holds the append lock.
Locked == {"recover", "resync", "load", "bootsync", "check", "pendsync", "cas",
           "swapsync", "line", "fsync", "linksync", "ckpt", "ckptsync", "clear", "clearsync"}
PCs == Locked \cup {"idle", "opening", "open", "done"}
Modes == {"none", "recover", "scan", "create", "append"}
Outcomes == {"None", "Ok", "ConcurrentModification", "RollbackDetected",
             "TruncatedJournal", "BindingMismatch", "Io"}
Pendings == [prior : Logs, next : Logs]

\* Every variable stays in its type: in particular every file, head and handle
\* holds a sequence of records and nothing else.
TypeOK ==
  /\ journal \in Logs
  /\ torn \in BOOLEAN
  /\ unsynced \in BOOLEAN
  /\ pending \in SUBSET Pendings
  /\ ckpt \in SUBSET Logs
  /\ head \in Logs
  /\ synced \in [pending : SUBSET Pendings, ckpt : SUBSET Logs, head : Logs,
                 linked : BOOLEAN]
  /\ lock \in SUBSET Processes
  /\ pc \in [Processes -> PCs]
  /\ mode \in [Processes -> Modes]
  /\ goal \in [Processes -> Logs]
  /\ view \in [Processes -> Logs]
  /\ outcome \in [Processes -> Outcomes]
  /\ observed \in Logs
  /\ failures \in Nat

Init ==
  /\ journal = <<>>
  /\ torn = FALSE
  /\ unsynced = FALSE
  /\ pending = {}
  /\ ckpt = {}
  /\ head = <<>>
  /\ synced = [pending |-> {}, ckpt |-> {}, head |-> <<>>, linked |-> FALSE]
  /\ lock = {}
  /\ pc = [p \in Processes |-> "idle"]
  /\ mode = [p \in Processes |-> "none"]
  /\ goal = [p \in Processes |-> <<>>]
  /\ view = [p \in Processes |-> <<>>]
  /\ outcome = [p \in Processes |-> "None"]
  /\ observed = <<>>
  /\ failures = 0

-----------------------------------------------------------------------------
(* Helpers *)

\* The journal file exists with bytes in it.
JournalExists == journal # <<>> \/ torn

\* fsync of the directory that holds the journal and its side files.
SyncDir ==
  synced' = [pending |-> pending, ckpt |-> ckpt, head |-> head,
             linked |-> JournalExists]

Goto(p, label) == pc' = [pc EXCEPT ![p] = label]

\* A call returns an error: the lock is dropped; a handle that was open stays
\* open with the state it had.
Fail(p, why) ==
  /\ outcome' = [outcome EXCEPT ![p] = why]
  /\ pc' = [pc EXCEPT ![p] = IF mode[p] = "append" THEN "open" ELSE "idle"]
  /\ mode' = [mode EXCEPT ![p] = "none"]
  /\ goal' = [goal EXCEPT ![p] = <<>>]
  /\ lock' = lock \ {p}

\* A call succeeds: the handle now holds s, and so does whoever called it.
Succeed(p, s) ==
  /\ outcome' = [outcome EXCEPT ![p] = "Ok"]
  /\ pc' = [pc EXCEPT ![p] = IF p \in Scanners THEN "done" ELSE "open"]
  /\ mode' = [mode EXCEPT ![p] = "none"]
  /\ goal' = [goal EXCEPT ![p] = <<>>]
  /\ view' = [view EXCEPT ![p] = s]
  /\ observed' = s
  /\ lock' = lock \ {p}

\* The bindings an attempt may open with: the committed one if its caller
\* peeks and finds one, else a freshly computed one.
OpenableBindings(p) ==
  IF p \in Peekers /\ journal # <<>> THEN {journal[1]} ELSE Bindings

\* The log a recovery or an append brings the checkpoint to.
Target(p) == IF mode[p] \in {"recover", "scan"} THEN head ELSE goal[p]

\* Mutant: a partial tail is taken for tampering.
RecoveryVerdictStrictTail(p, q) ==
  IF torn \/ Len(journal) < Len(q.prior) THEN "RollbackDetected"
  ELSE IF head = q.prior
    THEN IF Len(journal) = Len(q.prior) THEN "discard" ELSE "RollbackDetected"
  ELSE IF head # q.next THEN "RollbackDetected"
  ELSE IF Len(journal) = Len(q.prior) THEN "append" ELSE "sync"

\* Mutant: a marker whose append never reached the head is never discarded.
RecoveryVerdictNoDiscard(p, q) ==
  IF head # q.next THEN "RollbackDetected"
  ELSE IF Len(journal) = Len(q.prior) THEN "append" ELSE "sync"

\* What recover_pending_append does with the pending append q.
RecoveryVerdict(p, q) ==
  IF mode[p] = "scan" /\ torn THEN "TruncatedJournal"
  ELSE IF Len(journal) < Len(q.prior) THEN "RollbackDetected"
  ELSE IF head = q.prior
    THEN IF Len(journal) = Len(q.prior) /\ ~torn THEN "discard" ELSE "RollbackDetected"
  ELSE IF head # q.next THEN "RollbackDetected"
  ELSE IF Len(journal) = Len(q.prior) THEN "append"
  ELSE IF Len(journal) = Len(q.next) /\ ~torn /\ Last(journal) = Last(q.next)
    THEN "sync"
  ELSE "RollbackDetected"

\* verify_or_advance_checkpoint accepts a checkpoint of an earlier prefix; the
\* bootstrap checkpoint only beside a single record.
CheckpointAgrees(c) ==
  /\ IsPrefix(c, journal)
  /\ c = <<>> => Len(journal) = 1

\* What open_or_create finds once no pending append is left.
LoadVerdict(p) ==
  IF torn THEN "TruncatedJournal"
  ELSE IF head # journal THEN "RollbackDetected"
  ELSE IF journal = <<>>
    THEN IF mode[p] = "scan" THEN "open"
         ELSE IF ckpt = {} THEN "bootstrap"
         ELSE IF ckpt = {<<>>} THEN "create" ELSE "RollbackDetected"
  ELSE IF mode[p] = "recover" /\ journal[1] # goal[p][1] THEN "BindingMismatch"
  ELSE IF mode[p] = "recover" /\ ~\E c \in ckpt : CheckpointAgrees(c)
    THEN "RollbackDetected"
  ELSE "open"

-----------------------------------------------------------------------------
(* Opening: the peek, the lock, recovery, and the verified load *)

\* peek_committed_binding reads without the lock and recovers nothing.
PeekFails(p) ==
  /\ pc[p] = "idle" /\ p \in Peekers
  /\ torn
  /\ outcome' = [outcome EXCEPT ![p] = "TruncatedJournal"]
  /\ UNCHANGED <<disk, lock, pc, mode, goal, view, observed, failures>>

Attempt(p) ==
  /\ pc[p] = "idle" /\ p \in Owners
  /\ p \in Peekers => ~torn
  /\ \E b \in OpenableBindings(p) : goal' = [goal EXCEPT ![p] = <<b>>]
  /\ mode' = [mode EXCEPT ![p] = "recover"]
  /\ outcome' = [outcome EXCEPT ![p] = "None"]
  /\ Goto(p, "opening")
  /\ UNCHANGED <<disk, lock, view, observed, failures>>

Scan(p) ==
  /\ pc[p] = "idle" /\ p \in Scanners
  /\ mode' = [mode EXCEPT ![p] = "scan"]
  /\ outcome' = [outcome EXCEPT ![p] = "None"]
  /\ Goto(p, "opening")
  /\ UNCHANGED <<disk, lock, goal, view, observed, failures>>

AcquireLock(p) ==
  /\ pc[p] = "opening"
  /\ \/ /\ lock = {}
        /\ lock' = {p}
        /\ Goto(p, "recover")
        /\ UNCHANGED <<mode, goal, outcome>>
     \/ /\ lock # {}
        /\ Fail(p, "ConcurrentModification")
  /\ UNCHANGED <<disk, view, observed, failures>>

Recover(p) ==
  /\ pc[p] = "recover"
  /\ \/ /\ pending = {}
        /\ Goto(p, "load")
        /\ UNCHANGED <<disk, lock, mode, goal, outcome>>
     \/ \E q \in pending : LET verdict == RecoveryVerdict(p, q) IN
        \/ /\ verdict = "discard"
           /\ Goto(p, "ckpt")
           /\ UNCHANGED <<disk, lock, mode, goal, outcome>>
        \/ /\ verdict = "sync"
           /\ Goto(p, "resync")
           /\ UNCHANGED <<disk, lock, mode, goal, outcome>>
        \/ /\ verdict = "append"
           /\ torn' = FALSE
           /\ Goto(p, "line")
           /\ UNCHANGED <<journal, unsynced, pending, ckpt, head, synced,
                          lock, mode, goal, outcome>>
        \/ /\ verdict \in {"TruncatedJournal", "RollbackDetected"}
           /\ Fail(p, verdict)
           /\ UNCHANGED disk
  /\ UNCHANGED <<view, observed, failures>>

\* Mutant: a complete recovered tail is not synced.
ResyncWithoutFsync(p) ==
  /\ pc[p] = "resync"
  /\ Goto(p, "ckpt")
  /\ UNCHANGED <<journal, torn, unsynced, pending, ckpt, head, synced,
                 lock, mode, goal, view, outcome, observed, failures>>

\* A complete recovered tail is made durable before its marker goes away.
Resync(p) ==
  /\ pc[p] = "resync"
  /\ unsynced' = FALSE
  /\ Goto(p, "ckpt")
  /\ UNCHANGED <<journal, torn, pending, ckpt, head, synced,
                 lock, mode, goal, view, outcome, observed, failures>>

Load(p) ==
  /\ pc[p] = "load"
  /\ LET verdict == LoadVerdict(p) IN
     \/ /\ verdict = "bootstrap"
        /\ ckpt' = {<<>>}
        /\ Goto(p, "bootsync")
        /\ UNCHANGED <<lock, mode, goal, view, outcome, observed>>
     \/ /\ verdict = "create"
        /\ mode' = [mode EXCEPT ![p] = "create"]
        /\ Goto(p, "check")
        /\ UNCHANGED <<lock, ckpt, goal, view, outcome, observed>>
     \/ /\ verdict = "open"
        /\ Succeed(p, journal)
        /\ ckpt' = IF mode[p] = "scan" THEN ckpt ELSE {journal}
     \/ /\ verdict \in {"BindingMismatch", "TruncatedJournal", "RollbackDetected"}
        /\ Fail(p, verdict)
        /\ UNCHANGED <<ckpt, view, observed>>
  /\ UNCHANGED <<journal, torn, unsynced, pending, head, synced, failures>>

BootSync(p) ==
  /\ pc[p] = "bootsync"
  /\ SyncDir
  /\ mode' = [mode EXCEPT ![p] = "create"]
  /\ Goto(p, "check")
  /\ UNCHANGED <<journal, torn, unsynced, pending, ckpt, head,
                 lock, goal, view, outcome, observed, failures>>

-----------------------------------------------------------------------------
(* Appending one record *)

\* Mutant: an append does not look for its event among the records it holds.
AppendRecordAgain(p) ==
  /\ pc[p] = "open" /\ lock = {}
  /\ Len(view[p]) < MaxLen
  /\ \E e \in Events : goal' = [goal EXCEPT ![p] = Append(view[p], e)]
  /\ mode' = [mode EXCEPT ![p] = "append"]
  /\ outcome' = [outcome EXCEPT ![p] = "None"]
  /\ lock' = {p}
  /\ Goto(p, "check")
  /\ UNCHANGED <<disk, view, observed, failures>>

\* An event whose id the handle already holds is answered without a write,
\* so only new events reach the file.
AppendRecord(p) ==
  /\ pc[p] = "open"
  /\ Len(view[p]) < MaxLen
  /\ \/ /\ lock = {}
        /\ \E e \in Events \ ToSet(view[p]) :
             goal' = [goal EXCEPT ![p] = Append(view[p], e)]
        /\ mode' = [mode EXCEPT ![p] = "append"]
        /\ outcome' = [outcome EXCEPT ![p] = "None"]
        /\ lock' = {p}
        /\ Goto(p, "check")
     \/ /\ lock # {}
        /\ outcome' = [outcome EXCEPT ![p] = "ConcurrentModification"]
        /\ UNCHANGED <<lock, pc, mode, goal>>
  /\ UNCHANGED <<disk, view, observed, failures>>

\* What write_record_while_locked finds before it writes anything.
WriteVerdict(p) ==
  IF torn \/ Len(journal) # Len(view[p]) THEN "ConcurrentModification"
  ELSE IF head # view[p] \/ ckpt # {view[p]} THEN "RollbackDetected"
  ELSE "write"

Check(p) ==
  /\ pc[p] = "check"
  /\ LET verdict == WriteVerdict(p) IN
     \/ /\ verdict = "write"
        /\ pending' = {[prior |-> view[p], next |-> goal[p]]}
        /\ Goto(p, "pendsync")
        /\ UNCHANGED <<lock, mode, goal, outcome>>
     \/ /\ verdict # "write"
        /\ Fail(p, verdict)
        /\ UNCHANGED pending
  /\ UNCHANGED <<journal, torn, unsynced, ckpt, head, synced,
                 view, observed, failures>>

\* Mutant: the line is published before the head protects it.
PendSyncThenLine(p) ==
  /\ pc[p] = "pendsync"
  /\ SyncDir
  /\ Goto(p, "line")
  /\ UNCHANGED <<journal, torn, unsynced, pending, ckpt, head,
                 lock, mode, goal, view, outcome, observed, failures>>

PendSync(p) ==
  /\ pc[p] = "pendsync"
  /\ SyncDir
  /\ Goto(p, "cas")
  /\ UNCHANGED <<journal, torn, unsynced, pending, ckpt, head,
                 lock, mode, goal, view, outcome, observed, failures>>

\* The compare-and-swap of the protected head, up to its rename.  (A refused
\* swap is RollbackDetected too; the append lock, held since WriteVerdict
\* compared the heads, rules it out.)
SwapHead(p) ==
  /\ pc[p] = "cas"
  /\ head = view[p]
  /\ head' = goal[p]
  /\ Goto(p, "swapsync")
  /\ UNCHANGED <<journal, torn, unsynced, pending, ckpt, synced,
                 lock, mode, goal, view, outcome, observed, failures>>

SwapSync(p) ==
  /\ pc[p] = "swapsync"
  /\ SyncDir
  /\ Goto(p, "line")
  /\ UNCHANGED <<journal, torn, unsynced, pending, ckpt, head,
                 lock, mode, goal, view, outcome, observed, failures>>

\* Part of the line has reached the file.
TearLine(p) ==
  /\ pc[p] = "line"
  /\ ~torn
  /\ torn' = TRUE
  /\ UNCHANGED <<journal, unsynced, pending, ckpt, head, synced,
                 lock, local, observed, failures>>

\* Mutant: the marker itself is written instead of the record it carries.
WriteMarkerAsLine(p) ==
  /\ pc[p] = "line"
  /\ \E q \in pending : journal' = Append(journal, q)
  /\ torn' = FALSE
  /\ unsynced' = TRUE
  /\ Goto(p, "fsync")
  /\ UNCHANGED <<pending, ckpt, head, synced,
                 lock, mode, goal, view, outcome, observed, failures>>

WriteLine(p) ==
  /\ pc[p] = "line"
  /\ journal' = Append(journal, Last(Target(p)))
  /\ torn' = FALSE
  /\ unsynced' = TRUE
  /\ Goto(p, "fsync")
  /\ UNCHANGED <<pending, ckpt, head, synced,
                 lock, mode, goal, view, outcome, observed, failures>>

\* The fsync of the file; the append that creates it syncs the directory too.
\* Recovery of a first record may find the file missing, or there but empty.
SyncLine(p) ==
  /\ pc[p] = "fsync"
  /\ unsynced' = FALSE
  /\ \/ /\ mode[p] = "create" \/ (mode[p] # "append" /\ Len(journal) = 1)
        /\ Goto(p, "linksync")
     \/ /\ mode[p] # "create"
        /\ Goto(p, "ckpt")
  /\ UNCHANGED <<journal, torn, pending, ckpt, head, synced,
                 lock, mode, goal, view, outcome, observed, failures>>

SyncLink(p) ==
  /\ pc[p] = "linksync"
  /\ SyncDir
  /\ Goto(p, "ckpt")
  /\ UNCHANGED <<journal, torn, unsynced, pending, ckpt, head,
                 lock, mode, goal, view, outcome, observed, failures>>

WriteCheckpoint(p) ==
  /\ pc[p] = "ckpt"
  /\ ckpt' = {Target(p)}
  /\ Goto(p, "ckptsync")
  /\ UNCHANGED <<journal, torn, unsynced, pending, head, synced,
                 lock, mode, goal, view, outcome, observed, failures>>

SyncCheckpoint(p) ==
  /\ pc[p] = "ckptsync"
  /\ SyncDir
  /\ Goto(p, "clear")
  /\ UNCHANGED <<journal, torn, unsynced, pending, ckpt, head,
                 lock, mode, goal, view, outcome, observed, failures>>

ClearPending(p) ==
  /\ pc[p] = "clear"
  /\ pending' = {}
  /\ Goto(p, "clearsync")
  /\ UNCHANGED <<journal, torn, unsynced, ckpt, head, synced,
                 lock, mode, goal, view, outcome, observed, failures>>

\* The end of recover_pending_append, or of an append.
SyncClear(p) ==
  /\ pc[p] = "clearsync"
  /\ SyncDir
  /\ \/ /\ mode[p] \in {"recover", "scan"}
        /\ Goto(p, "load")
        /\ UNCHANGED <<lock, mode, goal, view, outcome, observed>>
     \/ /\ mode[p] \in {"create", "append"}
        /\ Succeed(p, goal[p])
  /\ UNCHANGED <<journal, torn, unsynced, pending, ckpt, head, failures>>

-----------------------------------------------------------------------------
(* Failures *)

\* Mutant: an ambiguous error is taken for a commit.
IoErrorTakenForCommit(p) ==
  /\ failures < MaxFailures
  /\ failures' = failures + 1
  /\ pc[p] \in Locked
  /\ Fail(p, "Io")
  /\ view' = [view EXCEPT ![p] = goal[p]]
  /\ UNCHANGED <<disk, observed>>

\* A file operation or the head store reports an error, with or without
\* having taken effect.
IoError(p) ==
  /\ failures < MaxFailures
  /\ failures' = failures + 1
  /\ pc[p] \in Locked
  /\ Fail(p, "Io")
  /\ UNCHANGED <<disk, view, observed>>

\* The processes of S stop; the kernel releases their lock.
Drop(S) ==
  /\ pc' = [p \in Processes |-> IF p \in S THEN "idle" ELSE pc[p]]
  /\ mode' = [p \in Processes |-> IF p \in S THEN "none" ELSE mode[p]]
  /\ goal' = [p \in Processes |-> IF p \in S THEN <<>> ELSE goal[p]]
  /\ view' = [p \in Processes |-> IF p \in S THEN <<>> ELSE view[p]]
  /\ outcome' = [p \in Processes |-> IF p \in S THEN "None" ELSE outcome[p]]
  /\ lock' = lock \ S

Crash(p) ==
  /\ failures < MaxFailures
  /\ failures' = failures + 1
  /\ pc[p] # "idle"
  /\ Drop({p})
  /\ UNCHANGED <<disk, observed>>

\* What a power loss may leave of the complete lines.
SurvivingLines ==
  {journal} \cup (IF unsynced THEN {Front(journal)} ELSE {})
            \cup (IF synced.linked THEN {} ELSE {<<>>})

\* The host stops: every directory entry reverts to its last synced state or
\* keeps its latest one, and unsynced bytes of the journal may be lost.
PowerLoss ==
  /\ failures < MaxFailures
  /\ failures' = failures + 1
  /\ Drop(Processes)
  /\ journal' \in SurvivingLines
  /\ torn' \in {FALSE, torn \/ journal' # journal}
  /\ unsynced' = FALSE
  /\ pending' \in {pending, synced.pending}
  /\ ckpt' \in {ckpt, synced.ckpt}
  /\ head' \in {head} \cup (IF HeadReverts THEN {synced.head} ELSE {})
  /\ synced' = [pending |-> pending', ckpt |-> ckpt', head |-> head',
                linked |-> journal' # <<>> \/ torn']
  /\ UNCHANGED observed

-----------------------------------------------------------------------------
\* The steps a call takes on its own once it has begun.
Proceed(p) ==
  \/ AcquireLock(p)
  \/ Recover(p) \/ Resync(p) \/ Load(p) \/ BootSync(p)
  \/ Check(p) \/ PendSync(p) \/ SwapHead(p) \/ SwapSync(p)
  \/ WriteLine(p) \/ SyncLine(p) \/ SyncLink(p)
  \/ WriteCheckpoint(p) \/ SyncCheckpoint(p) \/ ClearPending(p) \/ SyncClear(p)

Next ==
  \/ \E p \in Processes :
       \/ PeekFails(p) \/ Attempt(p) \/ Scan(p)
       \/ Proceed(p)
       \/ AppendRecord(p) \/ TearLine(p)
       \/ IoError(p) \/ Crash(p)
  \/ PowerLoss

Spec == Init /\ [][Next]_vars

\* A running process takes its next step, and a retried command is run again;
\* nothing obliges anyone to append, to scan, or to fail.
Fairness ==
  /\ \A p \in Processes : WF_vars(Proceed(p))
  /\ \A p \in Owners : WF_vars(Attempt(p))

FairSpec == Spec /\ Fairness

-----------------------------------------------------------------------------
(* Properties *)

\* No crash, power loss or I/O error removes a record that any call has
\* reported: the journal always begins with the last log reported.
ObservedSurvives == IsPrefix(observed, journal)

\* Protect first, publish second: the head is at most one record ahead of the
\* journal and the journal never holds a line the head does not protect.
HeadLeadsByOne ==
  /\ IsPrefix(journal, head)
  /\ Len(head) <= Len(journal) + 1

\* Nobody tampers in this model, yet an append is refused as RollbackDetected
\* when it goes through a handle whose log has been passed by a commit that
\* failed between the head and the line, the handle's own commit or another's.
\* That is the only such refusal: opening, recovering and scanning never take
\* what a failure left for a rollback, and an append only where the head really
\* extends what its handle holds, so that opening again is the cure.
RollbackOnlyWhenPassed ==
  \A p \in Processes :
    outcome[p] = "RollbackDetected" =>
      pc[p] = "open" /\ IsStrictPrefix(view[p], head)

\* No event is committed twice, however appends fail and are retried, by one
\* handle or by several.
EventsCommittedOnce == IsInjective(head)

\* The protocol implements the append-only log with optimistic concurrency.
Log == INSTANCE AppendLog WITH
         Handles <- Processes, Records <- Records, log <- head, seen <- view
ImplementsAppendLog == Log!Spec

\* Once failures stop, every owner ends up with a handle on the journal:
\* what a crash leaves is always repaired by a retry (live_decision.rs:240).
RetryEventuallyOpens == \A p \in Owners : []<>(pc[p] = "open")

LeftAlone(p) == \A q \in Processes \ {p} : pc[q] \notin Locked

\* What the library guarantees to a caller that opens directly and retries: once
\* failures have stopped and the other processes let the lock alone (append locks
\* are only ever tried, so nothing is promised to a process that competes with a
\* busy one), it gets in again and again, whatever a crash left behind
\* (live_decision.rs:240).  A journal bound by another decision refuses it for good.
DirectRetryOpens ==
  \A p \in Owners \ Peekers :
    <>[]LeftAlone(p) =>
      []<>(pc[p] = "open" \/ (/\ journal # <<>>
                              /\ goal[p] # <<>>
                              /\ goal[p][1] # journal[1]))

==============================================================================

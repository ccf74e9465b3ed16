------------------------ MODULE WorkflowJournalProofs ------------------------
(***************************************************************************)
(* Proofs about WorkflowJournal for every set of processes, bindings and   *)
(* events and every value of the bounds.                                   *)
(***************************************************************************)
EXTENDS WorkflowJournal, TLAPS

-----------------------------------------------------------------------------
(* The inductive invariant *)

LockOK ==
  /\ \A p \in Processes : p \in lock <=> pc[p] \in Locked
  /\ \A p, q \in lock : p = q

Mode(p) ==
  /\ pc[p] \in {"idle", "open", "done"} => mode[p] = "none"
  /\ pc[p] \in {"opening", "recover", "resync", "load"} => mode[p] \in {"recover", "scan"}
  /\ pc[p] = "bootsync" => mode[p] = "recover"
  /\ pc[p] \in {"check", "pendsync", "cas", "swapsync"} => mode[p] \in {"create", "append"}
  /\ pc[p] \in {"line", "fsync", "linksync", "ckpt", "ckptsync", "clear", "clearsync"}
       => mode[p] # "none"
  /\ mode[p] = "scan" => p \in Scanners

ModeOK == \A p \in Processes : Mode(p)

Goal(p) ==
  /\ mode[p] \in {"create", "append"} => \E r \in Records : goal[p] = Append(view[p], r)
  /\ mode[p] = "recover" => \E r \in Records : goal[p] = Append(<<>>, r)
  /\ pc[p] = "idle" \/ mode[p] \in {"recover", "scan", "create"} => view[p] = <<>>
  /\ pc[p] = "open" \/ mode[p] = "append" => view[p] # <<>>

GoalOK == \A p \in Processes : Goal(p)

\* Where an append that wrote the marker q can stand: not begun, published in
\* the head only, or published in the journal too.
NotBegun(q) == head = q.prior /\ journal = q.prior /\ ~torn
HeadOnly(q) == head = q.next /\ journal = q.prior
Published(q) == head = q.next /\ journal = q.next /\ ~torn

PendingOK ==
  /\ \A q \in pending \cup synced.pending :
       /\ \E r \in Records : q.next = Append(q.prior, r)
       /\ NotBegun(q) \/ HeadOnly(q) \/ Published(q)
  /\ \A q, qq \in pending : q = qq
  /\ \A q, qq \in synced.pending : q = qq
  /\ \A q \in pending : head = q.next => \A p \in Processes : IsPrefix(view[p], q.prior)

\* Whatever is not durable yet is what a durable marker can rebuild, and
\* nobody has been told of it.
Unsettled == journal # head \/ torn \/ unsynced \/ (journal # <<>> /\ ~synced.linked)

RebuildOK ==
  /\ Unsettled => \E q \in pending :
       /\ synced.pending = {q}
       /\ head = q.next
       /\ IsPrefix(observed, q.prior)
       /\ ~synced.linked => q.prior = <<>>
  /\ unsynced => journal = head

CheckpointCurrent(c) == c = {head} \/ (head = <<>> /\ c = {})

CheckpointOK ==
  \/ \A q \in pending : head = q.prior
  \/ \A q \in synced.pending : head = q.prior
  => CheckpointCurrent(ckpt) /\ CheckpointCurrent(synced.ckpt)

ReportedOK ==
  /\ IsPrefix(observed, journal)
  /\ \A p \in Processes : IsPrefix(view[p], observed)

\* What the holder of the append lock knows at each of its steps.
Holder(p) ==
  /\ pc[p] = "resync" => \E q \in pending : Published(q)
  /\ pc[p] \in {"load", "bootsync", "clearsync"} => pending = {}
  /\ pc[p] = "bootsync" => journal = <<>> /\ ckpt = {<<>>}
  /\ pc[p] = "check" /\ mode[p] = "create" => ckpt = {<<>>} /\ head = <<>>
  /\ pc[p] \in {"pendsync", "cas"} =>
       pending = {[prior |-> view[p], next |-> goal[p]]} /\ head = view[p] /\ ~Unsettled
  /\ pc[p] = "cas" => synced.pending = pending
  /\ pc[p] = "swapsync" => ~torn
  /\ pc[p] \in {"swapsync", "line"} => \E q \in pending : HeadOnly(q)
  /\ pc[p] \in {"swapsync", "line", "fsync", "linksync", "ckpt", "ckptsync", "clear",
                "clearsync"}
       => Target(p) = head
  /\ pc[p] \in {"fsync", "linksync"} => \E q \in pending : Published(q)
  /\ pc[p] = "linksync" => ~unsynced
  /\ pc[p] \in {"ckpt", "ckptsync", "clear"} =>
       /\ journal = head /\ ~torn /\ ~unsynced
       /\ pending # {}
  /\ pc[p] \in {"ckptsync", "clear"} => ckpt = {head}
  /\ pc[p] = "clear" => synced.ckpt = {head} /\ (journal # <<>> => synced.linked)

HolderOK == \A p \in Processes : Holder(p)

\* A call that ended in RollbackDetected was an append whose handle the head
\* has passed.
RollbackOK ==
  \A p \in Processes :
    outcome[p] = "RollbackDetected" => pc[p] = "open" /\ view[p] # head

DiskOK == PendingOK /\ RebuildOK /\ CheckpointOK /\ ReportedOK

IInv ==
  /\ TypeOK /\ LockOK /\ ModeOK /\ GoalOK
  /\ DiskOK /\ HolderOK /\ RollbackOK

-----------------------------------------------------------------------------
(* Logs and types *)

\* What appending one record does to a log.
LEMMA AppendFacts ==
  ASSUME NEW S, NEW s \in Seq(S), NEW r \in S
  PROVE  /\ Append(s, r) \in Seq(S)
         /\ Len(Append(s, r)) = Len(s) + 1
         /\ Last(Append(s, r)) = r
         /\ Front(Append(s, r)) = s
         /\ Append(s, r) # s
         /\ Append(s, r) # <<>>
         /\ \A i \in 1..Len(s) : Append(s, r)[i] = s[i]
  BY DEF Last, Front

\* A prefix is shorter and agrees with the log at every position it has.
LEMMA PrefixElements ==
  ASSUME NEW S, NEW s \in Seq(S), NEW t \in Seq(S)
  PROVE  IsPrefix(s, t) <=> /\ Len(s) <= Len(t)
                            /\ \A i \in 1..Len(s) : s[i] = t[i]
  BY DEF IsPrefix

\* An appended log extends the log it was appended to.
LEMMA PrefixAppend ==
  ASSUME NEW S, NEW s \in Seq(S), NEW r \in S
  PROVE  IsPrefix(s, Append(s, r))
<1>1. Append(s, r) \in Seq(S)
  BY AppendFacts
<1>2. /\ Len(s) <= Len(Append(s, r))
      /\ \A i \in 1..Len(s) : s[i] = Append(s, r)[i]
  BY AppendFacts
<1>3. QED
  BY <1>1, <1>2, PrefixElements

\* Prefixes compose.
LEMMA PrefixTransitive ==
  ASSUME NEW S, NEW s \in Seq(S), NEW t \in Seq(S), NEW u \in Seq(S),
         IsPrefix(s, t), IsPrefix(t, u)
  PROVE  IsPrefix(s, u)
  BY PrefixElements

\* A prefix of full length is the whole log.
LEMMA PrefixSameLength ==
  ASSUME NEW S, NEW s \in Seq(S), NEW t \in Seq(S),
         IsPrefix(s, t), Len(s) = Len(t)
  PROVE  s = t
  BY PrefixElements

\* The empty log is a prefix of every log, and every log of itself.
LEMMA PrefixEmpty ==
  ASSUME NEW S, NEW s \in Seq(S)
  PROVE  IsPrefix(<<>>, s) /\ IsPrefix(s, s)
<1>1. <<>> \in Seq(S) /\ Len(<<>>) = 0
  OBVIOUS
<1>2. IsPrefix(<<>>, s)
  <2>1. Len(<<>>) <= Len(s)
    BY <1>1
  <2>2. \A i \in 1..Len(<<>>) : <<>>[i] = s[i]
    BY <1>1
  <2>3. QED
    BY <1>1, <2>1, <2>2, PrefixElements
<1>3. IsPrefix(s, s)
  BY DEF IsPrefix
<1>4. QED
  BY <1>2, <1>3

\* The empty log is a log.
LEMMA EmptyLog == <<>> \in Logs
  BY DEF Logs

\* A failing call keeps the types of what it changes.
LEMMA FailType ==
  ASSUME TypeOK, NEW p \in Processes, NEW why \in Outcomes, Fail(p, why)
  PROVE  /\ lock' \in SUBSET Processes
         /\ pc' \in [Processes -> PCs]
         /\ mode' \in [Processes -> Modes]
         /\ goal' \in [Processes -> Logs]
         /\ outcome' \in [Processes -> Outcomes]
  BY EmptyLog DEF TypeOK, Fail, PCs, Modes

\* A successful call that reports a log keeps the types of what it changes.
LEMMA SucceedType ==
  ASSUME TypeOK, NEW p \in Processes, NEW s \in Logs, Succeed(p, s)
  PROVE  /\ lock' \in SUBSET Processes
         /\ pc' \in [Processes -> PCs]
         /\ mode' \in [Processes -> Modes]
         /\ goal' \in [Processes -> Logs]
         /\ view' \in [Processes -> Logs]
         /\ observed' \in Logs
         /\ outcome' \in [Processes -> Outcomes]
  BY EmptyLog DEF TypeOK, Succeed, PCs, Modes, Outcomes

\* A directory fsync keeps the type of what is durable.
LEMMA SyncDirType ==
  ASSUME TypeOK, SyncDir
  PROVE  synced' \in [pending : SUBSET Pendings, ckpt : SUBSET Logs, head : Logs,
                      linked : BOOLEAN]
  BY DEF TypeOK, SyncDir, JournalExists

\* Moving a process to a known program counter keeps the type of pc.
LEMMA GotoType ==
  ASSUME TypeOK, NEW p \in Processes, NEW label \in PCs, Goto(p, label)
  PROVE  pc' \in [Processes -> PCs]
  BY DEF TypeOK, Goto

\* A recovery or an append aims at a log.
LEMMA TargetType ==
  ASSUME TypeOK, NEW p \in Processes
  PROVE  Target(p) \in Logs
  BY DEF TypeOK, Target

\* A line is only written toward a log that has a last record.
LineOK == \A p \in Processes : pc[p] = "line" => Target(p) # <<>>

\* Every step keeps the type invariant, if a line is only written toward a
\* log that has a last record.
LEMMA TypeStep == TypeOK /\ LineOK /\ [Next]_vars => TypeOK'
<1> SUFFICES ASSUME TypeOK, LineOK, [Next]_vars PROVE TypeOK'
  OBVIOUS
<1> USE EmptyLog
<1>1. ASSUME NEW p \in Processes, PeekFails(p) PROVE TypeOK'
  BY <1>1 DEF PeekFails, TypeOK, disk, Outcomes
<1>2. ASSUME NEW p \in Processes, Attempt(p) PROVE TypeOK'
  <2>1. ASSUME NEW b \in OpenableBindings(p) PROVE <<b>> \in Logs
    BY DEF OpenableBindings, Logs, Records, TypeOK
  <2>2. PICK b \in OpenableBindings(p) : goal' = [goal EXCEPT ![p] = <<b>>]
    BY <1>2 DEF Attempt
  <2>3. goal' \in [Processes -> Logs]
    BY <2>1, <2>2 DEF TypeOK
  <2>4. QED
    BY <1>2, <2>3, GotoType DEF Attempt, TypeOK, disk, Outcomes, Modes, PCs
<1>3. ASSUME NEW p \in Processes, Scan(p) PROVE TypeOK'
  BY <1>3, GotoType DEF Scan, TypeOK, disk, Outcomes, Modes, PCs
<1>4. ASSUME NEW p \in Processes, AcquireLock(p) PROVE TypeOK'
  <2>1. CASE lock = {}
    BY <1>4, <2>1, GotoType DEF AcquireLock, TypeOK, disk, PCs, Locked
  <2>2. CASE lock # {}
    BY <1>4, <2>2, FailType DEF AcquireLock, TypeOK, disk, Outcomes
  <2>3. QED
    BY <2>1, <2>2
<1>5. ASSUME NEW p \in Processes, Recover(p) PROVE TypeOK'
  <2>1. CASE \E why \in {"TruncatedJournal", "RollbackDetected"} :
               Fail(p, why) /\ UNCHANGED disk /\ UNCHANGED <<view, observed, failures>>
    BY <2>1, FailType DEF TypeOK, disk, Outcomes
  <2>2. CASE \E label \in {"load", "ckpt", "resync", "line"} :
               /\ Goto(p, label) /\ torn' \in {torn, FALSE}
               /\ UNCHANGED <<journal, unsynced, pending, ckpt, head, synced,
                              lock, mode, goal, outcome, view, observed, failures>>
    BY <2>2, GotoType DEF TypeOK, PCs, Locked
  <2>3. QED
    BY <1>5, <2>1, <2>2 DEF Recover, disk
<1>6. ASSUME NEW p \in Processes, Resync(p) PROVE TypeOK'
  BY <1>6, GotoType DEF Resync, TypeOK, PCs, Locked
<1>7. ASSUME NEW p \in Processes, Load(p) PROVE TypeOK'
  <2>1. CASE \E why \in {"BindingMismatch", "TruncatedJournal", "RollbackDetected"} :
               Fail(p, why) /\ UNCHANGED <<ckpt, view, observed>>
    BY <1>7, <2>1, FailType DEF Load, TypeOK, Outcomes
  <2>2. CASE Succeed(p, journal) /\ ckpt' = IF mode[p] = "scan" THEN ckpt ELSE {journal}
    BY <1>7, <2>2, SucceedType DEF Load, TypeOK
  <2>3. CASE ckpt' = {<<>>} /\ Goto(p, "bootsync")
             /\ UNCHANGED <<lock, mode, goal, view, outcome, observed>>
    BY <1>7, <2>3, GotoType DEF Load, TypeOK, PCs, Locked
  <2>4. CASE mode' = [mode EXCEPT ![p] = "create"] /\ Goto(p, "check")
             /\ UNCHANGED <<lock, ckpt, goal, view, outcome, observed>>
    BY <1>7, <2>4, GotoType DEF Load, TypeOK, PCs, Locked, Modes
  <2>5. QED
    BY <1>7, <2>1, <2>2, <2>3, <2>4 DEF Load
<1>8. ASSUME NEW p \in Processes, BootSync(p) PROVE TypeOK'
  BY <1>8, SyncDirType, GotoType DEF BootSync, TypeOK, PCs, Locked, Modes
<1>9. ASSUME NEW p \in Processes, AppendRecord(p) PROVE TypeOK'
  <2>1. CASE lock # {}
    BY <1>9, <2>1 DEF AppendRecord, TypeOK, disk, Outcomes
  <2>2. CASE lock = {}
    <3>1. PICK e \in Events : goal' = [goal EXCEPT ![p] = Append(view[p], e)]
      BY <1>9, <2>2 DEF AppendRecord
    <3>2. Append(view[p], e) \in Logs
      BY DEF TypeOK, Logs, Records
    <3>3. goal' \in [Processes -> Logs]
      BY <3>1, <3>2 DEF TypeOK
    <3>4. QED
      BY <1>9, <2>2, <3>3, GotoType
         DEF AppendRecord, TypeOK, disk, Outcomes, Modes, PCs, Locked
  <2>3. QED
    BY <2>1, <2>2
<1>10. ASSUME NEW p \in Processes, Check(p) PROVE TypeOK'
  <2>1. WriteVerdict(p) \in Outcomes \cup {"write"}
    BY DEF WriteVerdict, Outcomes
  <2>2. CASE WriteVerdict(p) = "write"
    <3>1. [prior |-> view[p], next |-> goal[p]] \in Pendings
      BY DEF TypeOK, Pendings
    <3>2. QED
      BY <1>10, <2>2, <3>1, GotoType DEF Check, TypeOK, PCs, Locked
  <2>3. CASE WriteVerdict(p) # "write"
    BY <1>10, <2>1, <2>3, FailType DEF Check, TypeOK
  <2>4. QED
    BY <2>2, <2>3
<1>11. ASSUME NEW p \in Processes, PendSync(p) PROVE TypeOK'
  BY <1>11, SyncDirType, GotoType DEF PendSync, TypeOK, PCs, Locked
<1>12. ASSUME NEW p \in Processes, SwapHead(p) PROVE TypeOK'
  BY <1>12, GotoType DEF SwapHead, TypeOK, PCs, Locked
<1>13. ASSUME NEW p \in Processes, SwapSync(p) PROVE TypeOK'
  BY <1>13, SyncDirType, GotoType DEF SwapSync, TypeOK, PCs, Locked
<1>14. ASSUME NEW p \in Processes, TearLine(p) PROVE TypeOK'
  BY <1>14 DEF TearLine, TypeOK, local
<1>15. ASSUME NEW p \in Processes, WriteLine(p) PROVE TypeOK'
  <2>1. Last(Target(p)) \in Records
    BY <1>15, TargetType DEF WriteLine, LineOK, Last, Logs
  <2>2. journal' \in Logs
    BY <1>15, <2>1 DEF WriteLine, TypeOK, Logs
  <2>3. QED
    BY <1>15, <2>2, GotoType DEF WriteLine, TypeOK, PCs, Locked
<1>16. ASSUME NEW p \in Processes, SyncLine(p) PROVE TypeOK'
  BY <1>16, GotoType DEF SyncLine, TypeOK, PCs, Locked
<1>17. ASSUME NEW p \in Processes, SyncLink(p) PROVE TypeOK'
  BY <1>17, SyncDirType, GotoType DEF SyncLink, TypeOK, PCs, Locked
<1>18. ASSUME NEW p \in Processes, WriteCheckpoint(p) PROVE TypeOK'
  BY <1>18, TargetType, GotoType DEF WriteCheckpoint, TypeOK, PCs, Locked
<1>19. ASSUME NEW p \in Processes, SyncCheckpoint(p) PROVE TypeOK'
  BY <1>19, SyncDirType, GotoType DEF SyncCheckpoint, TypeOK, PCs, Locked
<1>20. ASSUME NEW p \in Processes, ClearPending(p) PROVE TypeOK'
  BY <1>20, GotoType DEF ClearPending, TypeOK, PCs, Locked
<1>21. ASSUME NEW p \in Processes, SyncClear(p) PROVE TypeOK'
  <2>1. CASE Succeed(p, goal[p])
    BY <1>21, <2>1, SyncDirType, SucceedType DEF SyncClear, TypeOK
  <2>2. CASE Goto(p, "load") /\ UNCHANGED <<lock, mode, goal, view, outcome, observed>>
    BY <1>21, <2>2, SyncDirType, GotoType DEF SyncClear, TypeOK, PCs, Locked
  <2>3. QED
    BY <1>21, <2>1, <2>2 DEF SyncClear
<1>22. ASSUME NEW p \in Processes, IoError(p) PROVE TypeOK'
  BY <1>22, FailType DEF IoError, TypeOK, disk, Outcomes
<1>23. ASSUME NEW p \in Processes, Crash(p) PROVE TypeOK'
  BY <1>23 DEF Crash, Drop, TypeOK, disk, Outcomes, PCs, Modes
<1>24. ASSUME PowerLoss PROVE TypeOK'
  <2>1. journal' \in Logs
    <3>1. journal # <<>> => Front(journal) \in Logs
      BY DEF TypeOK, Front, Logs
    <3>2. ASSUME journal = <<>> PROVE Front(journal) \in Logs
      <4>1. Front(journal) = SubSeq(<<>>, 1, -1)
        BY <3>2 DEF Front
      <4>2. SubSeq(<<>>, 1, -1) = <<>>
        OBVIOUS
      <4>3. QED
        BY <4>1, <4>2
    <3>3. QED
      BY <1>24, <3>1, <3>2 DEF PowerLoss, SurvivingLines, TypeOK
  <2>a. torn' \in BOOLEAN
    BY <1>24, Zenon DEF PowerLoss, TypeOK
  <2>b. head' \in Logs
    BY <1>24 DEF PowerLoss, TypeOK
  <2>c. pending' \in SUBSET Pendings /\ ckpt' \in SUBSET Logs
    BY <1>24 DEF PowerLoss, TypeOK
  <2>d. unsynced' \in BOOLEAN /\ observed' \in Logs /\ failures' \in Nat
    <3>1. unsynced' = FALSE /\ observed' = observed /\ failures' = failures + 1
      BY <1>24, Zenon DEF PowerLoss
    <3>2. observed \in Logs /\ failures \in Nat
      BY DEF TypeOK
    <3>3. failures + 1 \in Nat
      BY <3>2
    <3>4. QED
      BY <3>1, <3>2, <3>3, Zenon
  <2>2. /\ torn' \in BOOLEAN /\ unsynced' \in BOOLEAN
        /\ pending' \in SUBSET Pendings
        /\ ckpt' \in SUBSET Logs
        /\ head' \in Logs
        /\ observed' \in Logs
        /\ failures' \in Nat
    BY <2>a, <2>b, <2>c, <2>d
  <2>3. synced' \in [pending : SUBSET Pendings, ckpt : SUBSET Logs, head : Logs,
                     linked : BOOLEAN]
    BY <1>24, <2>2 DEF PowerLoss
  <2>4. /\ lock' \in SUBSET Processes
        /\ pc' \in [Processes -> PCs]
        /\ mode' \in [Processes -> Modes]
        /\ goal' \in [Processes -> Logs]
        /\ view' \in [Processes -> Logs]
        /\ outcome' \in [Processes -> Outcomes]
    BY <1>24 DEF PowerLoss, Drop, TypeOK, Outcomes, PCs, Modes
  <2>5. QED
    BY <2>1, <2>2, <2>3, <2>4 DEF TypeOK
<1>25. CASE UNCHANGED vars
  BY <1>25 DEF vars, TypeOK
<1>26. QED
  BY <1>1, <1>2, <1>3, <1>4, <1>5, <1>6, <1>7, <1>8, <1>9, <1>10, <1>11, <1>12, <1>13,
     <1>14, <1>15, <1>16, <1>17, <1>18, <1>19, <1>20, <1>21, <1>22, <1>23, <1>24, <1>25
     DEF Next, Proceed

-----------------------------------------------------------------------------
(* Facts about the invariant *)

\* A marker names a log and the same log with one more record.
LEMMA PendingShape ==
  ASSUME TypeOK, PendingOK, NEW q \in pending \cup synced.pending
  PROVE  /\ q.prior \in Logs /\ q.next \in Logs
         /\ Len(q.next) = Len(q.prior) + 1
         /\ Front(q.next) = q.prior
         /\ q.next = Append(q.prior, Last(q.next))
         /\ q.next # q.prior /\ q.next # <<>>
         /\ IsPrefix(q.prior, q.next)
<1>1. q.prior \in Seq(Records) /\ q.next \in Seq(Records)
  BY DEF TypeOK, Pendings, Logs
<1>2. PICK r \in Records : q.next = Append(q.prior, r)
  BY DEF PendingOK
<1>3. QED
  BY <1>1, <1>2, AppendFacts, PrefixAppend DEF Logs

\* A process about to write a line aims at a log that has a last record.
LEMMA LineFromHolder == IInv => LineOK
  BY PendingShape DEF IInv, DiskOK, LineOK, HolderOK, Holder, HeadOnly

\* At most one process is inside the locked part of a call.
LEMMA OnlyHolder ==
  ASSUME LockOK, NEW p \in Processes, pc[p] \in Locked
  PROVE  lock = {p} /\ \A r \in Processes \ {p} : pc[r] \notin Locked
  BY DEF LockOK

\* A step that leaves the files and the reports alone leaves alone what the
\* invariant says of them.
LEMMA DiskFrame ==
  ASSUME IInv, UNCHANGED <<disk, view, observed>>
  PROVE  DiskOK'
  BY DEF IInv, DiskOK, disk, PendingOK, RebuildOK, CheckpointOK, ReportedOK, NotBegun, HeadOnly,
         Published, Unsettled, CheckpointCurrent

-----------------------------------------------------------------------------
(* The lock, the modes and the goals *)

\* The lock always belongs to exactly the process that is inside a locked call.
LEMMA LockStep == TypeOK /\ LockOK /\ ModeOK /\ [Next]_vars => LockOK'
<1> SUFFICES ASSUME TypeOK, LockOK, ModeOK, [Next]_vars PROVE LockOK'
  OBVIOUS
<1> USE DEF LockOK, TypeOK
<1>1. ASSUME NEW p \in Processes, NEW why, Fail(p, why) PROVE LockOK'
  BY <1>1 DEF Fail, Locked
<1>2. ASSUME NEW p \in Processes, NEW s, Succeed(p, s) PROVE LockOK'
  BY <1>2 DEF Succeed, Locked
<1>3. ASSUME NEW p \in Processes, NEW label \in Locked, pc[p] \in Locked,
             Goto(p, label), UNCHANGED lock
      PROVE  LockOK'
  BY <1>3 DEF Goto
<1>4. ASSUME NEW p \in Processes, PeekFails(p) \/ Attempt(p) \/ Scan(p) \/ TearLine(p)
      PROVE  LockOK'
  BY <1>4 DEF PeekFails, Attempt, Scan, TearLine, Goto, local, Locked
<1>5. ASSUME NEW p \in Processes, AcquireLock(p) PROVE LockOK'
  <2>1. CASE lock = {}
    BY <1>5, <2>1 DEF AcquireLock, Goto, Locked
  <2>2. CASE lock # {}
    BY <1>5, <2>2, <1>1 DEF AcquireLock
  <2>3. QED
    BY <2>1, <2>2
<1>6. ASSUME NEW p \in Processes, AppendRecord(p) PROVE LockOK'
  BY <1>6 DEF AppendRecord, Goto, Locked
<1>7. ASSUME NEW p \in Processes, Recover(p) PROVE LockOK'
  BY <1>7, <1>1, <1>3 DEF Recover, Locked
<1>8. ASSUME NEW p \in Processes, Load(p) PROVE LockOK'
  BY <1>8, <1>1, <1>2, <1>3 DEF Load, Locked
<1>9. ASSUME NEW p \in Processes, Check(p) PROVE LockOK'
  BY <1>9, <1>1, <1>3 DEF Check, Locked
<1>10. ASSUME NEW p \in Processes, SyncClear(p) PROVE LockOK'
  BY <1>10, <1>2, <1>3 DEF SyncClear, Locked
<1>11. ASSUME NEW p \in Processes,
              \/ Resync(p) \/ BootSync(p) \/ PendSync(p) \/ SwapHead(p) \/ SwapSync(p)
              \/ WriteLine(p) \/ SyncLine(p) \/ SyncLink(p) \/ WriteCheckpoint(p)
              \/ SyncCheckpoint(p) \/ ClearPending(p)
       PROVE  LockOK'
  BY <1>11, <1>3 DEF Resync, BootSync, PendSync, SwapHead, SwapSync, WriteLine, SyncLine,
     SyncLink, WriteCheckpoint, SyncCheckpoint, ClearPending, Locked
<1>12. ASSUME NEW p \in Processes, IoError(p) PROVE LockOK'
  BY <1>12, <1>1 DEF IoError
<1>13. ASSUME NEW S \in SUBSET Processes, Drop(S) PROVE LockOK'
  BY <1>13 DEF Drop, Locked
<1>14. CASE UNCHANGED vars
  BY <1>14 DEF vars
<1>15. QED
  BY <1>4, <1>5, <1>6, <1>7, <1>8, <1>9, <1>10, <1>11, <1>12, <1>13, <1>14
     DEF Next, Proceed, Crash, PowerLoss

\* Each program counter is reached only in the calls that contain it.
LEMMA ModeStep == TypeOK /\ ModeOK /\ [Next]_vars => ModeOK'
<1> SUFFICES ASSUME TypeOK, ModeOK, [Next]_vars, NEW r \in Processes PROVE Mode(r)'
  BY DEF ModeOK
<1> USE DEF Mode, TypeOK
<1>0. \A p \in Processes : Mode(p)
  BY DEF ModeOK
<1>1. ASSUME NEW p \in Processes, NEW why, Fail(p, why) PROVE Mode(r)'
  BY <1>0, <1>1 DEF Fail
<1>2. ASSUME NEW p \in Processes, NEW s, Succeed(p, s) PROVE Mode(r)'
  BY <1>0, <1>2 DEF Succeed
<1>4. ASSUME NEW p \in Processes, PeekFails(p) \/ TearLine(p) PROVE Mode(r)'
  BY <1>0, <1>4 DEF PeekFails, TearLine, local
<1>5. ASSUME NEW p \in Processes, Attempt(p) \/ Scan(p) \/ AppendRecord(p) PROVE Mode(r)'
  BY <1>0, <1>5 DEF Attempt, Scan, AppendRecord, Goto
<1>6. ASSUME NEW p \in Processes, AcquireLock(p) PROVE Mode(r)'
  BY <1>0, <1>6, <1>1 DEF AcquireLock, Goto
<1>7. ASSUME NEW p \in Processes, Recover(p) PROVE Mode(r)'
  BY <1>0, <1>7, <1>1 DEF Recover, Goto
<1>8. ASSUME NEW p \in Processes, Load(p) PROVE Mode(r)'
  <2>1. LoadVerdict(p) \in {"bootstrap", "create"} => mode[p] # "scan"
    BY DEF LoadVerdict
  <2>2. QED
    BY <1>0, <1>8, <1>1, <1>2, <2>1 DEF Load, Goto
<1>9. ASSUME NEW p \in Processes, Check(p) PROVE Mode(r)'
  BY <1>0, <1>9, <1>1 DEF Check, Goto
<1>10. ASSUME NEW p \in Processes, SyncClear(p) PROVE Mode(r)'
  BY <1>0, <1>10, <1>2 DEF SyncClear, Goto
<1>11. ASSUME NEW p \in Processes,
              \/ Resync(p) \/ BootSync(p) \/ PendSync(p) \/ SwapHead(p) \/ SwapSync(p)
              \/ WriteLine(p) \/ SyncLine(p) \/ SyncLink(p) \/ WriteCheckpoint(p)
              \/ SyncCheckpoint(p) \/ ClearPending(p)
       PROVE  Mode(r)'
  BY <1>0, <1>11 DEF Resync, BootSync, PendSync, SwapHead, SwapSync, WriteLine, SyncLine,
     SyncLink, WriteCheckpoint, SyncCheckpoint, ClearPending, Goto
<1>12. ASSUME NEW p \in Processes, IoError(p) PROVE Mode(r)'
  BY <1>12, <1>1 DEF IoError
<1>13. ASSUME NEW S \in SUBSET Processes, Drop(S) PROVE Mode(r)'
  BY <1>0, <1>13 DEF Drop
<1>14. CASE UNCHANGED vars
  BY <1>0, <1>14 DEF vars
<1>15. QED
  BY <1>4, <1>5, <1>6, <1>7, <1>8, <1>9, <1>10, <1>11, <1>12, <1>13, <1>14
     DEF Next, Proceed, Crash, PowerLoss

\* An append aims at its handle's log with one more record, and handles that
\* are not open hold nothing.
LEMMA GoalStep == TypeOK /\ ModeOK /\ GoalOK /\ [Next]_vars => GoalOK'
<1> SUFFICES ASSUME TypeOK, ModeOK, GoalOK, [Next]_vars, NEW r \in Processes
             PROVE  Goal(r)'
  BY DEF GoalOK
<1> USE DEF Goal, TypeOK
<1>0. \A p \in Processes : Goal(p) /\ Mode(p)
  BY DEF GoalOK, ModeOK
<1>1. ASSUME NEW p \in Processes, NEW why, Fail(p, why), view' = view,
             pc[p] \in Locked \cup {"opening"}
      PROVE  Goal(r)'
  <2>1. mode[p] # "none"
    BY <1>0, <1>1 DEF Mode, Locked
  <2>2. QED
    BY <1>0, <1>1, <2>1 DEF Fail, Modes
<1>2. ASSUME NEW p \in Processes, NEW s \in Logs, Succeed(p, s), p \notin Scanners => s # <<>>
      PROVE  Goal(r)'
  BY <1>0, <1>2 DEF Succeed, Mode
<1>3. ASSUME NEW p \in Processes, NEW label \in Locked, pc[p] \in Locked,
             Goto(p, label), UNCHANGED <<mode, goal, view>>
      PROVE  Goal(r)'
  BY <1>0, <1>3 DEF Goto, Locked
<1>4. ASSUME NEW p \in Processes, PeekFails(p) \/ TearLine(p) PROVE Goal(r)'
  BY <1>0, <1>4 DEF PeekFails, TearLine, local
<1>5. ASSUME NEW p \in Processes, Attempt(p) PROVE Goal(r)'
  <2>1. PICK b \in OpenableBindings(p) : goal' = [goal EXCEPT ![p] = <<b>>]
    BY <1>5 DEF Attempt
  <2>2. b \in Records
    BY DEF OpenableBindings, Logs, Records
  <2>3. <<b>> = Append(<<>>, b)
    OBVIOUS
  <2>4. QED
    BY <1>0, <1>5, <2>1, <2>2, <2>3 DEF Attempt, Goto, Mode
<1>6. ASSUME NEW p \in Processes, Scan(p) PROVE Goal(r)'
  BY <1>0, <1>6 DEF Scan, Goto, Mode
<1>7. ASSUME NEW p \in Processes, AcquireLock(p) PROVE Goal(r)'
  <2>1. CASE lock = {}
    BY <1>0, <1>7, <2>1 DEF AcquireLock, Goto, Mode
  <2>2. CASE lock # {}
    BY <1>7, <2>2, <1>1 DEF AcquireLock
  <2>3. QED
    BY <2>1, <2>2
<1>8. ASSUME NEW p \in Processes, AppendRecord(p) PROVE Goal(r)'
  <2>1. CASE lock # {}
    BY ZenonT(60), <1>0, <1>8, <2>1 DEF AppendRecord
  <2>2. CASE lock = {}
    <3>1. PICK e \in Events : goal' = [goal EXCEPT ![p] = Append(view[p], e)]
      BY <1>8, <2>2 DEF AppendRecord
    <3>2. QED
      BY ZenonT(60), <1>0, <1>8, <2>2, <3>1 DEF AppendRecord, Goto, Mode, Records
  <2>3. QED
    BY <2>1, <2>2
<1>9. ASSUME NEW p \in Processes, Recover(p) PROVE Goal(r)'
  BY <1>9, <1>1, <1>3 DEF Recover, Locked, disk
<1>10. ASSUME NEW p \in Processes, Load(p) PROVE Goal(r)'
  <2>1. LoadVerdict(p) \in {"bootstrap", "create"} => mode[p] # "scan"
    BY DEF LoadVerdict
  <2>2. LoadVerdict(p) = "open" /\ mode[p] # "scan" => journal # <<>>
    BY DEF LoadVerdict
  <2>3. CASE Succeed(p, journal) /\ LoadVerdict(p) = "open"
    BY <1>0, <1>2, <1>10, <2>2, <2>3 DEF Load, Mode
  <2>4. CASE mode' = [mode EXCEPT ![p] = "create"] /\ LoadVerdict(p) = "create"
             /\ Goto(p, "check") /\ UNCHANGED <<goal, view>>
    BY ZenonT(60), <1>0, <1>10, <2>1, <2>4 DEF Load, Mode, Goto
  <2>5. QED
    BY <1>10, <1>1, <1>3, <2>3, <2>4 DEF Load, Locked
<1>11. ASSUME NEW p \in Processes, BootSync(p) PROVE Goal(r)'
  BY <1>0, <1>11 DEF BootSync, Mode, Goto
<1>12. ASSUME NEW p \in Processes, Check(p) PROVE Goal(r)'
  BY <1>12, <1>1, <1>3 DEF Check, Locked
<1>13. ASSUME NEW p \in Processes, SyncClear(p) PROVE Goal(r)'
  <2>1. mode[p] \in {"create", "append"} => goal[p] # <<>>
    BY <1>0, AppendFacts DEF Logs
  <2>2. CASE mode[p] \in {"create", "append"} /\ Succeed(p, goal[p])
    BY <1>2, <2>1, <2>2
  <2>3. QED
    BY <1>13, <1>3, <2>2 DEF SyncClear, Locked
<1>14. ASSUME NEW p \in Processes,
              \/ Resync(p) \/ PendSync(p) \/ SwapHead(p) \/ SwapSync(p)
              \/ WriteLine(p) \/ SyncLine(p) \/ SyncLink(p) \/ WriteCheckpoint(p)
              \/ SyncCheckpoint(p) \/ ClearPending(p)
       PROVE  Goal(r)'
  BY <1>14, <1>3 DEF Resync, PendSync, SwapHead, SwapSync, WriteLine, SyncLine,
     SyncLink, WriteCheckpoint, SyncCheckpoint, ClearPending, Locked
<1>15. ASSUME NEW p \in Processes, IoError(p) PROVE Goal(r)'
  BY <1>15, <1>1 DEF IoError
<1>16. ASSUME NEW S \in SUBSET Processes, Drop(S) PROVE Goal(r)'
  BY <1>0, <1>16 DEF Drop
<1>17. CASE UNCHANGED vars
  BY <1>0, <1>17 DEF vars
<1>18. QED
  BY <1>4, <1>5, <1>6, <1>7, <1>8, <1>9, <1>10, <1>11, <1>12, <1>13, <1>14, <1>15, <1>16,
     <1>17 DEF Next, Proceed, Crash, PowerLoss

-----------------------------------------------------------------------------
(* The files, the lock holder's knowledge, and the verdicts *)

\* What a pending marker that is being written over the committed log means.
LEMMA NotLeading ==
  ASSUME IInv, NEW p \in Processes, head = view[p]
  PROVE  /\ \A q \in pending : NotBegun(q)
         /\ ~Unsettled
         /\ CheckpointCurrent(ckpt) /\ CheckpointCurrent(synced.ckpt)
<1>1. ASSUME NEW q \in pending, head = q.next PROVE FALSE
  <2>1. IsPrefix(view[p], q.prior)
    BY <1>1 DEF IInv, DiskOK, PendingOK
  <2>2. Len(q.next) <= Len(q.prior)
    BY <1>1, <2>1 DEF IsPrefix
  <2>3. QED
    BY <2>2, <1>1, PendingShape DEF IInv, DiskOK, Logs
<1>2. ~Unsettled
  BY <1>1 DEF IInv, DiskOK, RebuildOK
<1>3. \A q \in pending : NotBegun(q)
  BY <1>1 DEF IInv, DiskOK, PendingOK, HeadOnly, Published
<1>4. QED
  BY <1>2, <1>3 DEF IInv, DiskOK, CheckpointOK, NotBegun

\* Recovery never refuses what a failure left, and its verdict says which of
\* the three stages the append had reached.
LEMMA RecoveryVerdictCorrect ==
  ASSUME IInv, NEW p \in Processes, NEW q \in pending
  PROVE  /\ RecoveryVerdict(p, q) # "RollbackDetected"
         /\ RecoveryVerdict(p, q) = "discard" => NotBegun(q)
         /\ RecoveryVerdict(p, q) = "append" => HeadOnly(q)
         /\ RecoveryVerdict(p, q) = "sync" => Published(q)
<1>1. /\ q.prior \in Logs /\ q.next \in Logs
      /\ Len(q.next) = Len(q.prior) + 1
      /\ q.next # q.prior
  BY PendingShape DEF IInv, DiskOK
<1>2. NotBegun(q) \/ HeadOnly(q) \/ Published(q)
  BY DEF IInv, DiskOK, PendingOK
<1>3. CASE NotBegun(q)
  BY <1>1, <1>3 DEF NotBegun, RecoveryVerdict, Logs
<1>4. CASE HeadOnly(q)
  BY <1>1, <1>4 DEF HeadOnly, RecoveryVerdict, Logs
<1>5. CASE Published(q)
  BY <1>1, <1>5 DEF Published, RecoveryVerdict, Logs
<1>6. QED
  BY <1>2, <1>3, <1>4, <1>5

\* Without a pending marker the journal is whole, so a load never refuses it.
LEMMA LoadVerdictCorrect ==
  ASSUME IInv, NEW p \in Processes, pc[p] = "load"
  PROVE  /\ LoadVerdict(p) \notin {"RollbackDetected", "TruncatedJournal"}
         /\ LoadVerdict(p) \in {"bootstrap", "create"} =>
              journal = <<>> /\ mode[p] = "recover"
         /\ LoadVerdict(p) = "create" => ckpt = {<<>>}
<1>1. pending = {}
  BY DEF IInv, HolderOK, Holder
<1>2. ~Unsettled /\ CheckpointCurrent(ckpt)
  BY <1>1 DEF IInv, DiskOK, RebuildOK, CheckpointOK
<1>3. mode[p] \in {"recover", "scan"}
  BY DEF IInv, ModeOK, Mode
<1>4. journal # <<>> => \E c \in ckpt : CheckpointAgrees(c)
  <2>1. journal # <<>> => ckpt = {journal}
    BY <1>2 DEF Unsettled, CheckpointCurrent
  <2>2. IsPrefix(journal, journal)
    BY PrefixEmpty DEF IInv, TypeOK, Logs
  <2>3. QED
    BY <2>1, <2>2 DEF CheckpointAgrees
<1>5. QED
  BY <1>2, <1>3, <1>4 DEF LoadVerdict, Unsettled, CheckpointCurrent

\* An append is refused as rolled back only through a handle that the head has
\* passed: never for a checkpoint that a failure left, and never the first
\* record.
LEMMA WriteVerdictCorrect ==
  ASSUME IInv, NEW p \in Processes, pc[p] = "check", WriteVerdict(p) = "RollbackDetected"
  PROVE  head # view[p] /\ mode[p] = "append"
<1>1. head # view[p]
  <2>1. SUFFICES ASSUME head = view[p] PROVE ckpt = {view[p]}
    BY DEF WriteVerdict
  <2>2. CheckpointCurrent(ckpt)
    BY <2>1, NotLeading
  <2>3. CASE mode[p] = "create"
    BY <2>1, <2>2, <2>3 DEF IInv, HolderOK, Holder, GoalOK, Goal
  <2>4. CASE mode[p] = "append"
    BY <2>1, <2>2, <2>4 DEF IInv, CheckpointCurrent, GoalOK, Goal
  <2>5. QED
    BY <2>3, <2>4 DEF IInv, ModeOK, Mode
<1>2. CASE mode[p] = "create"
  BY <1>1, <1>2 DEF IInv, HolderOK, Holder, GoalOK, Goal
<1>3. QED
  BY <1>1, <1>2 DEF IInv, ModeOK, Mode

\* A step of p that moves no file keeps the knowledge of every other holder.
LEMMA OtherHolders ==
  ASSUME IInv, NEW p \in Processes, pc[p] \in Locked, Holder(p)',
         \A r \in Processes \ {p} : pc'[r] = pc[r]
  PROVE  HolderOK'
<1>1. \A r \in Processes \ {p} : pc'[r] \notin Locked
  BY OnlyHolder DEF IInv
<1>2. \A r \in Processes \ {p} : Holder(r)'
  BY <1>1 DEF Holder, Locked
<1>3. QED
  BY <1>2 DEF HolderOK

\* The part of the invariant that speaks of the files and of the calls.
Rest == DiskOK /\ HolderOK /\ RollbackOK

\* A step that moves no file and no report only has to account for itself.
LEMMA QuietStep ==
  ASSUME IInv, TypeOK', UNCHANGED <<disk, view, observed>>,
         NEW p \in Processes,
         \A r \in Processes \ {p} : pc'[r] = pc[r] /\ mode'[r] = mode[r] /\ goal'[r] = goal[r],
         Holder(p)', RollbackOK'
  PROVE  Rest'
<1>1. ASSUME NEW r \in Processes \ {p} PROVE Holder(r)'
  BY <1>1 DEF IInv, HolderOK, Holder, disk, Unsettled, Published, HeadOnly, Target
<1>2. QED
  BY <1>1, DiskFrame DEF Rest, HolderOK

\* A call that fails without touching a file keeps the invariant.
LEMMA FailQuiet ==
  ASSUME IInv, TypeOK', NEW p \in Processes, NEW why \in Outcomes,
         why = "RollbackDetected" => head # view[p] /\ mode[p] = "append",
         Fail(p, why), UNCHANGED <<disk, view, observed>>
  PROVE  Rest'
<1>1. pc'[p] \in {"open", "idle"}
  BY DEF Fail, IInv, TypeOK
<1>2. Holder(p)'
  BY <1>1 DEF Holder
<1>3. RollbackOK'
  BY DEF Fail, IInv, TypeOK, RollbackOK, disk
<1>4. \A r \in Processes \ {p} : pc'[r] = pc[r] /\ mode'[r] = mode[r] /\ goal'[r] = goal[r]
  BY DEF Fail, IInv, TypeOK
<1>5. QED
  BY <1>2, <1>3, <1>4, QuietStep

\* So do the steps that start a call, and an I/O error.
LEMMA BeginStep ==
  ASSUME IInv, TypeOK', NEW p \in Processes,
         \/ PeekFails(p) \/ Attempt(p) \/ Scan(p) \/ AcquireLock(p) \/ AppendRecord(p)
         \/ IoError(p)
  PROVE  Rest'
<1> USE DEF IInv, TypeOK
<1>1. CASE PeekFails(p)
  <2>1. Holder(p)'
    BY <1>1 DEF PeekFails, Holder
  <2>2. RollbackOK'
    BY <1>1 DEF PeekFails, RollbackOK, disk, Goto
  <2>3. QED
    BY <1>1, <2>1, <2>2, QuietStep DEF PeekFails
<1>2. CASE Attempt(p) \/ Scan(p)
  <2>1. Holder(p)'
    BY <1>2 DEF Attempt, Scan, Holder, Goto
  <2>2. RollbackOK'
    BY <1>2 DEF Attempt, Scan, RollbackOK, disk, Goto
  <2>3. QED
    BY <1>2, <2>1, <2>2, QuietStep DEF Attempt, Scan, Goto
<1>3. CASE AcquireLock(p)
  <2>1. CASE lock = {}
    <3>1. Holder(p)'
      BY <1>3, <2>1 DEF AcquireLock, Holder, Goto
    <3>2. RollbackOK'
      BY <1>3, <2>1 DEF AcquireLock, RollbackOK, disk, Goto
    <3>3. QED
      BY <1>3, <2>1, <3>1, <3>2, QuietStep DEF AcquireLock, Goto
  <2>2. CASE lock # {}
    BY <1>3, <2>2, FailQuiet DEF AcquireLock, Outcomes
  <2>3. QED
    BY <2>1, <2>2
<1>4. CASE AppendRecord(p)
  <2>1. CASE lock = {}
    <3>1. Holder(p)'
      BY <1>4, <2>1 DEF AppendRecord, Holder, Goto
    <3>2. RollbackOK'
      BY <1>4, <2>1 DEF AppendRecord, RollbackOK, disk, Goto
    <3>3. QED
      BY <1>4, <2>1, <3>1, <3>2, QuietStep DEF AppendRecord, Goto
  <2>2. CASE lock # {}
    <3>1. Holder(p)'
      BY <1>4, <2>2 DEF AppendRecord, Holder
    <3>2. RollbackOK'
      BY <1>4, <2>2 DEF AppendRecord, RollbackOK, disk, Goto
    <3>3. QED
      BY <1>4, <2>2, <3>1, <3>2, QuietStep DEF AppendRecord
  <2>3. QED
    BY <2>1, <2>2
<1>5. CASE IoError(p)
  BY <1>5, FailQuiet DEF IoError, Outcomes
<1>6. QED
  BY <1>1, <1>2, <1>3, <1>4, <1>5

\* recover_pending_append's decision keeps the invariant.
LEMMA RecoverStep ==
  ASSUME IInv, TypeOK', NEW p \in Processes, Recover(p)
  PROVE  Rest'
<1> USE DEF IInv, TypeOK
<1>0. mode[p] \in {"recover", "scan"} /\ pc[p] \in Locked
  BY DEF Recover, ModeOK, Mode, Locked
<1>1. CASE pending = {}
  <2>1. Holder(p)'
    BY <1>1 DEF Recover, Holder, Goto, disk
  <2>2. RollbackOK'
    BY <1>1 DEF Recover, RollbackOK, disk, Goto
  <2>3. QED
    BY <1>1, <2>1, <2>2, QuietStep DEF Recover, Goto
<1>2. ASSUME NEW q \in pending PROVE Rest'
  <2>1. PICK qq \in pending :
          LET verdict == RecoveryVerdict(p, qq) IN
          \/ verdict = "discard" /\ Goto(p, "ckpt")
             /\ UNCHANGED <<disk, lock, mode, goal, outcome>>
          \/ verdict = "sync" /\ Goto(p, "resync")
             /\ UNCHANGED <<disk, lock, mode, goal, outcome>>
          \/ verdict = "append" /\ torn' = FALSE /\ Goto(p, "line")
             /\ UNCHANGED <<journal, unsynced, pending, ckpt, head, synced,
                            lock, mode, goal, outcome>>
          \/ verdict \in {"TruncatedJournal", "RollbackDetected"} /\ Fail(p, verdict)
             /\ UNCHANGED disk
    BY <1>2 DEF Recover
  <2>2. qq = q
    BY <1>2 DEF DiskOK, PendingOK
  <2>3. UNCHANGED <<view, observed>>
    BY DEF Recover
  <2>4. CASE RecoveryVerdict(p, q) = "discard"
    <3>1. NotBegun(q)
      BY <1>2, <2>4, RecoveryVerdictCorrect
    <3>2. ~Unsettled
      BY <1>2, <3>1, PendingShape DEF DiskOK, PendingOK, RebuildOK, NotBegun
    <3>3. Holder(p)'
      BY <1>0, <1>2, <2>1, <2>2, <2>4, <3>1, <3>2
         DEF Holder, Goto, disk, Target, NotBegun, Unsettled
    <3>4. RollbackOK' /\ UNCHANGED <<disk, view, observed>>
      BY <1>0, <2>1, <2>2, <2>3, <2>4 DEF RollbackOK, disk, Goto, Locked
    <3>5. QED
      BY <2>1, <2>2, <2>4, <3>3, <3>4, QuietStep DEF Goto
  <2>5. CASE RecoveryVerdict(p, q) = "sync"
    <3>1. Published(q)
      BY <1>2, <2>5, RecoveryVerdictCorrect
    <3>2. Holder(p)'
      BY <1>2, <2>1, <2>2, <2>5, <3>1 DEF Holder, Goto, disk, Published
    <3>3. RollbackOK' /\ UNCHANGED <<disk, view, observed>>
      BY <1>0, <2>1, <2>2, <2>3, <2>5 DEF RollbackOK, disk, Goto, Locked
    <3>4. QED
      BY <2>1, <2>2, <2>5, <3>2, <3>3, QuietStep DEF Goto
  <2>6. CASE RecoveryVerdict(p, q) = "append"
    <3>1. HeadOnly(q)
      BY <1>2, <2>6, RecoveryVerdictCorrect
    <3>2. /\ torn' = FALSE /\ Goto(p, "line")
          /\ UNCHANGED <<journal, unsynced, pending, ckpt, head, synced,
                         lock, mode, goal, outcome, view, observed>>
      BY <2>1, <2>2, <2>3, <2>6
    <3>3. Holder(p)'
      BY <1>0, <1>2, <3>1, <3>2 DEF Holder, Goto, HeadOnly, Target
    <3>4. HolderOK'
      BY <1>0, <3>2, <3>3, OtherHolders DEF Goto
    <3>5. RollbackOK'
      BY <1>0, <3>2 DEF RollbackOK, Goto, Locked
    <3>6. PendingOK'
      BY <3>2 DEF DiskOK, PendingOK, NotBegun, HeadOnly, Published
    <3>7. RebuildOK'
      <4>1. Unsettled' => Unsettled
        BY <3>2 DEF Unsettled
      <4>2. QED
        BY <3>2, <4>1 DEF DiskOK, RebuildOK
    <3>8. CheckpointOK' /\ ReportedOK'
      BY <3>2 DEF DiskOK, CheckpointOK, CheckpointCurrent, ReportedOK
    <3>9. QED
      BY <3>4, <3>5, <3>6, <3>7, <3>8 DEF Rest, DiskOK
  <2>7. CASE RecoveryVerdict(p, q) \in {"TruncatedJournal", "RollbackDetected"}
    <3>1. RecoveryVerdict(p, q) = "TruncatedJournal"
      BY <1>2, <2>7, RecoveryVerdictCorrect
    <3>2. QED
      BY <2>1, <2>2, <2>3, <3>1, FailQuiet DEF Outcomes
  <2>8. QED
    BY <2>1, <2>2, <2>4, <2>5, <2>6, <2>7
<1>3. QED
  BY <1>1, <1>2

\* A step of the lock holder that keeps every outcome.
LEMMA HolderStep ==
  ASSUME IInv, TypeOK', NEW p \in Processes, pc[p] \in Locked,
         NEW label \in PCs, Goto(p, label), UNCHANGED <<outcome, view>>,
         head' # head => \A r \in Processes : view[r] # head',
         Holder(p)', DiskOK'
  PROVE  Rest'
<1>1. HolderOK'
  BY OtherHolders DEF IInv, TypeOK, Goto
<1>2. RollbackOK'
  BY DEF IInv, TypeOK, RollbackOK, Goto, Locked
<1>3. QED
  BY <1>1, <1>2 DEF Rest

\* A call that ends well keeps the invariant if the files and reports do.
LEMMA SucceedQuiet ==
  ASSUME IInv, TypeOK', NEW p \in Processes, pc[p] \in Locked, NEW s \in Logs,
         Succeed(p, s), UNCHANGED head, DiskOK'
  PROVE  Rest'
<1> USE DEF IInv, TypeOK
<1>1. Holder(p)'
  BY DEF Succeed, Holder
<1>2. HolderOK'
  BY <1>1, OtherHolders DEF Succeed
<1>3. RollbackOK'
  BY DEF Succeed, RollbackOK, Locked
<1>4. QED
  BY <1>2, <1>3 DEF Rest

\* Reporting the whole of a settled log keeps what is said of reports.
LEMMA ReportSettled ==
  ASSUME IInv, TypeOK', NEW p \in Processes, pending = {},
         Succeed(p, head), UNCHANGED <<journal, torn, head>>
  PROVE  ReportedOK'
<1>1. head \in Seq(Records) /\ observed \in Seq(Records) /\ journal = head
  BY DEF IInv, TypeOK, Logs, DiskOK, RebuildOK, Unsettled
<1>2. IsPrefix(observed', journal')
  BY <1>1, PrefixEmpty DEF Succeed
<1>3. ASSUME NEW r \in Processes PROVE IsPrefix(view'[r], observed')
  <2>1. CASE r = p
    BY <1>1, <2>1, PrefixEmpty DEF Succeed, IInv, TypeOK
  <2>2. CASE r # p
    <3>1. view'[r] = view[r] /\ view[r] \in Seq(Records)
      BY <2>2 DEF Succeed, IInv, TypeOK, Logs
    <3>2. IsPrefix(view[r], observed) /\ IsPrefix(observed, journal)
      BY DEF IInv, DiskOK, ReportedOK
    <3>3. IsPrefix(view[r], head)
      BY <1>1, <3>1, <3>2, PrefixTransitive
    <3>4. QED
      BY <3>1, <3>3 DEF Succeed
  <2>3. QED
    BY <2>1, <2>2
<1>4. QED
  BY <1>2, <1>3 DEF ReportedOK

\* Making a recovered tail durable keeps the invariant.
LEMMA ResyncStep ==
  ASSUME IInv, TypeOK', NEW p \in Processes, Resync(p)
  PROVE  Rest'
<1> USE DEF IInv, TypeOK
<1>1. PICK q \in pending : Published(q)
  BY DEF Resync, HolderOK, Holder
<1>2. mode[p] \in {"recover", "scan"} /\ pc[p] \in Locked
  BY DEF Resync, ModeOK, Mode, Locked
<1>3. Holder(p)'
  BY <1>1, <1>2 DEF Resync, Holder, Goto, Published, Target
<1>4. PendingOK' /\ CheckpointOK' /\ ReportedOK'
  BY DEF Resync, DiskOK, PendingOK, CheckpointOK, CheckpointCurrent, ReportedOK, NotBegun,
         HeadOnly, Published
<1>5. RebuildOK'
  BY DEF Resync, DiskOK, RebuildOK, Unsettled
<1>6. QED
  BY <1>2, <1>3, <1>4, <1>5, HolderStep DEF Resync, DiskOK, PCs, Locked

\* The verified load keeps the invariant.
LEMMA LoadStep ==
  ASSUME IInv, TypeOK', NEW p \in Processes, Load(p)
  PROVE  Rest'
<1> USE DEF IInv, TypeOK
<1>0. pc[p] = "load" /\ pc[p] \in Locked /\ pending = {}
  BY DEF Load, Locked, HolderOK, Holder
<1>1. journal = head /\ ~torn /\ ~unsynced /\ CheckpointCurrent(ckpt)
  BY <1>0 DEF DiskOK, RebuildOK, CheckpointOK, Unsettled
<1>2. UNCHANGED <<journal, torn, unsynced, pending, head, synced>>
  BY DEF Load
<1>3. CASE LoadVerdict(p) = "bootstrap"
  <2>1. journal = <<>>
    BY <1>0, <1>3, LoadVerdictCorrect
  <2>2. ckpt' = {<<>>} /\ Goto(p, "bootsync") /\ UNCHANGED <<outcome, view, observed>>
    BY <1>3 DEF Load
  <2>3. Holder(p)'
    BY <1>0, <1>2, <2>1, <2>2 DEF Holder, Goto
  <2>4. DiskOK'
    BY <1>0, <1>1, <1>2, <2>1, <2>2 DEF DiskOK, PendingOK, RebuildOK, Unsettled, CheckpointOK,
       CheckpointCurrent, ReportedOK, NotBegun, HeadOnly, Published
  <2>5. QED
    BY <1>0, <1>2, <2>2, <2>3, <2>4, HolderStep DEF PCs, Locked
<1>4. CASE LoadVerdict(p) = "create"
  <2>1. ckpt = {<<>>} /\ head = <<>>
    BY <1>0, <1>1, <1>4, LoadVerdictCorrect
  <2>2. Goto(p, "check") /\ UNCHANGED <<ckpt, outcome, view, observed>>
    BY <1>4 DEF Load
  <2>3. Holder(p)'
    BY <1>2, <2>1, <2>2 DEF Holder, Goto
  <2>4. DiskOK'
    BY <1>2, <2>2, DiskFrame DEF disk
  <2>5. QED
    BY <1>0, <1>2, <2>2, <2>3, <2>4, HolderStep DEF PCs, Locked
<1>5. CASE LoadVerdict(p) = "open"
  <2>1. Succeed(p, head) /\ ckpt' \in {ckpt, {head}}
    BY <1>1, <1>5 DEF Load
  <2>2. ReportedOK'
    BY <1>0, <1>2, <2>1, ReportSettled
  <2>3. PendingOK' /\ RebuildOK' /\ CheckpointOK'
    BY <1>0, <1>2, <2>1 DEF DiskOK, PendingOK, RebuildOK, Unsettled, CheckpointOK,
       CheckpointCurrent, NotBegun, HeadOnly, Published
  <2>4. QED
    BY <1>0, <1>2, <2>1, <2>2, <2>3, SucceedQuiet DEF DiskOK
<1>6. CASE LoadVerdict(p) \in {"BindingMismatch", "TruncatedJournal", "RollbackDetected"}
  <2>1. LoadVerdict(p) = "BindingMismatch"
    BY <1>0, <1>6, LoadVerdictCorrect
  <2>2. Fail(p, "BindingMismatch") /\ UNCHANGED <<disk, view, observed>>
    BY <1>2, <2>1 DEF Load, disk
  <2>3. QED
    BY <2>2, FailQuiet DEF Outcomes
<1>7. QED
  BY <1>3, <1>4, <1>5, <1>6 DEF Load

\* Making the bootstrap checkpoint durable keeps the invariant.
LEMMA BootSyncStep ==
  ASSUME IInv, TypeOK', NEW p \in Processes, BootSync(p)
  PROVE  Rest'
<1> USE DEF IInv, TypeOK
<1>1. /\ pc[p] = "bootsync" /\ pc[p] \in Locked
      /\ pending = {} /\ journal = <<>> /\ ckpt = {<<>>}
  BY DEF BootSync, Locked, HolderOK, Holder
<1>2. journal = head /\ ~torn /\ ~unsynced /\ CheckpointCurrent(ckpt)
  BY <1>1 DEF DiskOK, RebuildOK, CheckpointOK, Unsettled
<1>3. Holder(p)'
  BY <1>1, <1>2 DEF BootSync, Holder, Goto
<1>4. DiskOK'
  BY <1>1, <1>2 DEF BootSync, SyncDir, JournalExists, DiskOK, PendingOK, RebuildOK, Unsettled,
     CheckpointOK, CheckpointCurrent, ReportedOK, NotBegun, HeadOnly, Published
<1>5. QED
  BY <1>1, <1>3, <1>4, HolderStep DEF BootSync, PCs, Locked

\* Writing the marker of a new append keeps the invariant.
LEMMA CheckStep ==
  ASSUME IInv, TypeOK', NEW p \in Processes, Check(p)
  PROVE  Rest'
<1> USE DEF IInv, TypeOK
<1>0. pc[p] = "check" /\ pc[p] \in Locked
  BY DEF Check, Locked
<1>1. CASE WriteVerdict(p) = "write"
  <2>1. head = view[p] /\ ~torn
    BY <1>1 DEF WriteVerdict
  <2>2. ~Unsettled /\ CheckpointCurrent(ckpt) /\ CheckpointCurrent(synced.ckpt)
    BY <2>1, NotLeading
  <2>3. /\ pending' = {[prior |-> view[p], next |-> goal[p]]}
        /\ Goto(p, "pendsync")
        /\ UNCHANGED <<journal, torn, unsynced, ckpt, head, synced, mode, goal, view,
                       outcome, observed>>
    BY <1>1 DEF Check
  <2>4. PICK r \in Records : goal[p] = Append(view[p], r)
    BY <1>0 DEF ModeOK, Mode, GoalOK, Goal
  <2>5. goal[p] # view[p]
    BY <2>4, AppendFacts DEF Logs
  <2>6. Holder(p)'
    BY <2>1, <2>2, <2>3 DEF Holder, Goto, Unsettled
  <2>7. PendingOK'
    <3>1. \A q \in pending' : /\ q.next = Append(q.prior, r)
                              /\ NotBegun(q)'
      BY <2>1, <2>2, <2>3, <2>4 DEF NotBegun, Unsettled
    <3>2. \A q \in synced.pending :
             /\ \E rr \in Records : q.next = Append(q.prior, rr)
             /\ NotBegun(q)' \/ HeadOnly(q)' \/ Published(q)'
      BY <2>3 DEF DiskOK, PendingOK, NotBegun, HeadOnly, Published
    <3>3. /\ \A q, qq \in pending' : q = qq
          /\ \A q, qq \in synced'.pending : q = qq
      BY <2>3 DEF DiskOK, PendingOK
    <3>4. \A q \in pending' : head' # q.next
      BY <2>1, <2>3, <2>5
    <3>5. QED
      BY <2>3, <3>1, <3>2, <3>3, <3>4 DEF PendingOK
  <2>8. RebuildOK'
    BY <2>2, <2>3 DEF RebuildOK, Unsettled
  <2>9. CheckpointOK'
    BY <2>2, <2>3 DEF CheckpointOK, CheckpointCurrent
  <2>10. ReportedOK'
    BY <2>3 DEF DiskOK, ReportedOK
  <2>11. QED
    BY <1>0, <2>3, <2>6, <2>7, <2>8, <2>9, <2>10, HolderStep DEF DiskOK, PCs, Locked
<1>2. CASE WriteVerdict(p) # "write"
  <2>1. WriteVerdict(p) \in Outcomes
    BY <1>2 DEF WriteVerdict, Outcomes
  <2>2. Fail(p, WriteVerdict(p)) /\ UNCHANGED <<disk, view, observed>>
    BY <1>2 DEF Check, disk
  <2>3. WriteVerdict(p) = "RollbackDetected" => head # view[p] /\ mode[p] = "append"
    BY <1>0, WriteVerdictCorrect
  <2>4. QED
    BY <2>1, <2>2, <2>3, FailQuiet
<1>3. QED
  BY <1>1, <1>2

\* Making the marker durable keeps the invariant.
LEMMA PendSyncStep ==
  ASSUME IInv, TypeOK', NEW p \in Processes, PendSync(p)
  PROVE  Rest'
<1> USE DEF IInv, TypeOK
<1>1. /\ pc[p] = "pendsync" /\ pc[p] \in Locked /\ head = view[p] /\ ~Unsettled
      /\ pending = {[prior |-> view[p], next |-> goal[p]]}
  BY DEF PendSync, Locked, HolderOK, Holder
<1>2. CheckpointCurrent(ckpt)
  BY <1>1, NotLeading
<1>3. Holder(p)'
  BY <1>1 DEF PendSync, SyncDir, JournalExists, Holder, Goto, Unsettled
<1>4. PendingOK'
  BY DEF PendSync, SyncDir, DiskOK, PendingOK, NotBegun, HeadOnly, Published
<1>5. RebuildOK' /\ CheckpointOK' /\ ReportedOK'
  BY <1>1, <1>2 DEF PendSync, SyncDir, JournalExists, DiskOK, RebuildOK, Unsettled,
     CheckpointOK, CheckpointCurrent, ReportedOK
<1>6. QED
  BY <1>1, <1>3, <1>4, <1>5, HolderStep DEF PendSync, DiskOK, PCs, Locked

\* The step that commits: from here the record exists for every later open.
LEMMA SwapHeadStep ==
  ASSUME IInv, TypeOK', NEW p \in Processes, SwapHead(p)
  PROVE  Rest'
<1> USE DEF IInv, TypeOK
<1> DEFINE q == [prior |-> view[p], next |-> goal[p]]
<1>1. /\ pc[p] = "cas" /\ pc[p] \in Locked /\ head = view[p] /\ ~Unsettled
      /\ pending = {q} /\ synced.pending = {q}
      /\ mode[p] \in {"create", "append"}
  BY DEF SwapHead, Locked, HolderOK, Holder, ModeOK, Mode
<1>2. /\ q.prior = head /\ q.next = goal[p] /\ head' = goal[p]
      /\ UNCHANGED <<journal, torn, unsynced, pending, ckpt, synced, mode, goal, view,
                     outcome, observed>>
      /\ Goto(p, "swapsync")
  BY <1>1 DEF SwapHead
<1>3. journal = head /\ ~torn /\ ~unsynced /\ (journal # <<>> => synced.linked)
  BY <1>1 DEF Unsettled
<1>4. goal[p] # head
  BY <1>1, <1>2, PendingShape DEF DiskOK
<1>5. IsPrefix(observed, q.prior)
  BY <1>2, <1>3 DEF DiskOK, ReportedOK
<1>6. ASSUME NEW r \in Processes PROVE IsPrefix(view'[r], q.prior)
  <2>1. IsPrefix(view[r], observed) /\ IsPrefix(observed, journal)
    BY DEF DiskOK, ReportedOK
  <2>2. QED
    BY <1>2, <1>3, <2>1, PrefixTransitive DEF Logs
<1>7. HeadOnly(q)'
  BY <1>2, <1>3 DEF HeadOnly
<1>8. Holder(p)'
  <2>1. pc'[p] = "swapsync"
    BY <1>2 DEF Goto
  <2>2. Target(p)' = head'
    BY <1>1, <1>2 DEF Target
  <2>3. QED
    BY <1>1, <1>2, <1>3, <1>7, <2>1, <2>2 DEF Holder
<1>9. PendingOK'
  <2>1. \E r \in Records : q.next = Append(q.prior, r)
    BY <1>1 DEF DiskOK, PendingOK
  <2>2. QED
    BY <1>1, <1>2, <1>6, <1>7, <2>1 DEF PendingOK
<1>10. RebuildOK'
  BY <1>1, <1>2, <1>3, <1>5 DEF RebuildOK
<1>11. CheckpointOK'
  BY <1>1, <1>2, <1>4 DEF CheckpointOK
<1>12. ReportedOK'
  BY <1>2 DEF DiskOK, ReportedOK
<1>13. ASSUME NEW r \in Processes PROVE view[r] # head'
  <2>1. Len(view[r]) <= Len(q.prior) /\ Len(q.next) = Len(q.prior) + 1
    BY <1>1, <1>2, <1>6, PendingShape DEF DiskOK, IsPrefix
  <2>2. view[r] \in Seq(Records) /\ q.prior \in Seq(Records)
    BY <1>2 DEF Logs
  <2>3. QED
    BY <1>2, <2>1, <2>2
<1>14. QED
  BY <1>1, <1>2, <1>8, <1>9, <1>10, <1>11, <1>12, <1>13, HolderStep DEF DiskOK, PCs, Locked

\* From the swap to the end of the append one marker covers the whole gap.
LEMMA Covered ==
  ASSUME IInv, NEW q \in pending, head = q.next
  PROVE  /\ pending = {q}
         /\ HeadOnly(q) \/ Published(q)
         /\ Unsettled => synced.pending = {q}
<1>1. q.next # q.prior
  BY PendingShape DEF IInv, DiskOK
<1>2. QED
  BY <1>1 DEF IInv, DiskOK, PendingOK, RebuildOK, NotBegun

\* The directory syncs after the swap and after the first line keep it.
LEMMA SwapSyncStep ==
  ASSUME IInv, TypeOK', NEW p \in Processes, SwapSync(p) \/ SyncLink(p)
  PROVE  Rest'
<1> USE DEF IInv, TypeOK
<1>1. /\ pc[p] \in {"swapsync", "linksync"} /\ pc[p] \in Locked
      /\ ~torn /\ Target(p) = head
      /\ pc[p] = "linksync" => ~unsynced
  BY DEF SwapSync, SyncLink, Locked, HolderOK, Holder, Published
<1>2. PICK q \in pending : /\ head = q.next
                           /\ pc[p] = "swapsync" => HeadOnly(q)
                           /\ pc[p] = "linksync" => Published(q)
  BY <1>1 DEF HolderOK, Holder, HeadOnly, Published
<1>3. /\ pending = {q} /\ head # q.prior
      /\ UNCHANGED <<journal, torn, unsynced, pending, ckpt, head, mode, goal, view,
                     outcome, observed>>
      /\ synced' = [pending |-> pending, ckpt |-> ckpt, head |-> head,
                    linked |-> JournalExists]
      /\ Goto(p, IF pc[p] = "swapsync" THEN "line" ELSE "ckpt")
  BY <1>2, Covered, PendingShape DEF SwapSync, SyncLink, SyncDir, DiskOK
<1>4. Holder(p)'
  <2>1. Target(p)' = head'
    BY <1>1, <1>3 DEF Target
  <2>2. CASE pc[p] = "swapsync"
    BY <1>2, <1>3, <2>1, <2>2 DEF Holder, Goto, HeadOnly
  <2>3. CASE pc[p] = "linksync"
    BY <1>1, <1>2, <1>3, <2>1, <2>3 DEF Holder, Goto, Published
  <2>4. QED
    BY <1>1, <2>2, <2>3
<1>5. PendingOK'
  BY <1>3 DEF DiskOK, PendingOK, NotBegun, HeadOnly, Published
<1>6. RebuildOK'
  <2>1. Unsettled' => Unsettled \/ unsynced
    BY <1>1, <1>3 DEF Unsettled, JournalExists
  <2>2. Unsettled => IsPrefix(observed, q.prior)
    BY <1>3 DEF DiskOK, RebuildOK
  <2>3. ~synced'.linked => journal = <<>>
    BY <1>1, <1>3 DEF JournalExists
  <2>4. journal = <<>> => q.prior = <<>>
    BY <1>2, <1>1, PendingShape DEF DiskOK, HeadOnly, Published
  <2>5. QED
    BY <1>1, <1>2, <1>3, <2>1, <2>2, <2>3, <2>4 DEF DiskOK, RebuildOK, Unsettled
<1>7. CheckpointOK'
  BY <1>2, <1>3 DEF CheckpointOK
<1>8. ReportedOK'
  BY <1>3 DEF DiskOK, ReportedOK
<1>9. QED
  BY <1>1, <1>3, <1>4, <1>5, <1>6, <1>7, <1>8, HolderStep DEF DiskOK, PCs, Locked

\* Writing the line, whole or in part, keeps the invariant.
LEMMA LineStep ==
  ASSUME IInv, TypeOK', NEW p \in Processes, TearLine(p) \/ WriteLine(p)
  PROVE  Rest'
<1> USE DEF IInv, TypeOK
<1>1. pc[p] = "line" /\ pc[p] \in Locked /\ Target(p) = head
  BY DEF TearLine, WriteLine, Locked, HolderOK, Holder
<1>2. PICK q \in pending : HeadOnly(q)
  BY <1>1 DEF HolderOK, Holder
<1>3. /\ head = q.next /\ journal = q.prior /\ head # q.prior
      /\ q.next = Append(q.prior, Last(q.next))
  BY <1>2, PendingShape DEF DiskOK, HeadOnly
<1>4. Unsettled /\ pending = {q} /\ synced.pending = {q}
  BY <1>3, Covered DEF Unsettled
<1>5. IsPrefix(observed, q.prior) /\ (~synced.linked => q.prior = <<>>) /\ ~unsynced
  BY <1>3, <1>4 DEF DiskOK, RebuildOK
<1>6. UNCHANGED <<pending, ckpt, head, synced, mode, goal, view, outcome, observed>>
  BY DEF TearLine, WriteLine, local
<1>7. journal' \in {q.prior, q.next} /\ (journal' = q.next => ~torn')
      /\ (unsynced' => journal' = q.next)
  BY <1>1, <1>3, <1>5 DEF TearLine, WriteLine
<1>8. PendingOK'
  <2>1. HeadOnly(q)' \/ Published(q)'
    BY <1>3, <1>6, <1>7 DEF HeadOnly, Published
  <2>2. QED
    BY <1>4, <1>6, <2>1 DEF DiskOK, PendingOK
<1>9. RebuildOK'
  BY <1>3, <1>4, <1>5, <1>6, <1>7 DEF RebuildOK
<1>10. CheckpointOK'
  BY <1>3, <1>4, <1>6 DEF CheckpointOK
<1>11. ReportedOK'
  <2>1. IsPrefix(q.prior, q.next) /\ q.prior \in Logs /\ q.next \in Logs
    BY PendingShape DEF DiskOK
  <2>2. IsPrefix(observed, q.next)
    BY <1>5, <2>1, PrefixTransitive DEF Logs
  <2>3. QED
    BY <1>5, <1>6, <1>7, <2>2 DEF DiskOK, ReportedOK
<1>12. DiskOK'
  BY <1>8, <1>9, <1>10, <1>11 DEF DiskOK
<1>13. Target(p)' = head'
  BY <1>1, <1>6 DEF Target
<1>14. CASE TearLine(p)
  <2>1. UNCHANGED pc /\ journal' = journal
    BY <1>14 DEF TearLine, local
  <2>2. Holder(p)'
    BY <1>1, <1>2, <1>6, <1>13, <2>1 DEF Holder, HeadOnly
  <2>3. HolderOK'
    BY <1>1, <2>1, <2>2, OtherHolders
  <2>4. QED
    BY <1>6, <1>12, <2>1, <2>3 DEF Rest, RollbackOK
<1>15. CASE WriteLine(p)
  <2>1. Goto(p, "fsync") /\ journal' = q.next /\ torn' = FALSE
    BY <1>1, <1>3, <1>15 DEF WriteLine
  <2>2. Holder(p)'
    BY <1>3, <1>4, <1>6, <1>13, <2>1 DEF Holder, Goto, Published
  <2>3. QED
    BY <1>1, <1>6, <1>12, <2>1, <2>2, HolderStep DEF PCs, Locked
<1>16. QED
  BY <1>14, <1>15

\* Making the line durable keeps the invariant.
LEMMA SyncLineStep ==
  ASSUME IInv, TypeOK', NEW p \in Processes, SyncLine(p)
  PROVE  Rest'
<1> USE DEF IInv, TypeOK
<1>1. pc[p] = "fsync" /\ pc[p] \in Locked /\ Target(p) = head
  BY DEF SyncLine, Locked, HolderOK, Holder
<1>2. PICK q \in pending : Published(q)
  BY <1>1 DEF HolderOK, Holder
<1>0. PICK label \in {"linksync", "ckpt"} : Goto(p, label)
  BY DEF SyncLine
<1>3. /\ unsynced' = FALSE /\ Goto(p, label)
      /\ UNCHANGED <<journal, torn, pending, ckpt, head, synced, mode, goal, view,
                     outcome, observed>>
  BY <1>0 DEF SyncLine
<1>4. Holder(p)'
  <2>1. Target(p)' = head'
    BY <1>1, <1>3 DEF Target
  <2>2. pc'[p] = label
    BY <1>3 DEF Goto
  <2>3. CASE label = "linksync"
    BY <1>2, <1>3, <2>1, <2>2, <2>3 DEF Holder, Published
  <2>4. CASE label = "ckpt"
    BY <1>2, <1>3, <2>1, <2>2, <2>4 DEF Holder, Published
  <2>5. QED
    BY <1>0, <2>3, <2>4
<1>5. PendingOK' /\ CheckpointOK' /\ ReportedOK'
  BY <1>3 DEF DiskOK, PendingOK, CheckpointOK, CheckpointCurrent, ReportedOK, NotBegun,
         HeadOnly, Published
<1>6. RebuildOK'
  BY <1>3 DEF DiskOK, RebuildOK, Unsettled
<1>7. QED
  BY <1>1, <1>0, <1>3, <1>4, <1>5, <1>6, HolderStep DEF DiskOK, PCs, Locked

\* Writing the checkpoint keeps the invariant.
LEMMA WriteCheckpointStep ==
  ASSUME IInv, TypeOK', NEW p \in Processes, WriteCheckpoint(p)
  PROVE  Rest'
<1> USE DEF IInv, TypeOK
<1>1. /\ pc[p] = "ckpt" /\ pc[p] \in Locked /\ Target(p) = head
      /\ journal = head /\ ~torn /\ ~unsynced /\ pending # {}
  BY DEF WriteCheckpoint, Locked, HolderOK, Holder
<1>2. /\ ckpt' = {head} /\ Goto(p, "ckptsync")
      /\ UNCHANGED <<journal, torn, unsynced, pending, head, synced, mode, goal, view,
                     outcome, observed>>
  BY <1>1 DEF WriteCheckpoint
<1>3. Holder(p)'
  <2>1. Target(p)' = head'
    BY <1>1, <1>2 DEF Target
  <2>2. QED
    BY <1>1, <1>2, <2>1 DEF Holder, Goto
<1>4. PendingOK' /\ ReportedOK'
  BY <1>2 DEF DiskOK, PendingOK, ReportedOK, NotBegun, HeadOnly, Published
<1>5. RebuildOK'
  BY <1>2 DEF DiskOK, RebuildOK, Unsettled
<1>6. CheckpointOK'
  BY <1>2 DEF DiskOK, CheckpointOK, CheckpointCurrent
<1>7. QED
  BY <1>1, <1>2, <1>3, <1>4, <1>5, <1>6, HolderStep DEF DiskOK, PCs, Locked

\* Making the checkpoint durable keeps the invariant.
LEMMA SyncCheckpointStep ==
  ASSUME IInv, TypeOK', NEW p \in Processes, SyncCheckpoint(p)
  PROVE  Rest'
<1> USE DEF IInv, TypeOK
<1>1. /\ pc[p] = "ckptsync" /\ pc[p] \in Locked /\ Target(p) = head
      /\ journal = head /\ ~torn /\ ~unsynced /\ pending # {} /\ ckpt = {head}
  BY DEF SyncCheckpoint, Locked, HolderOK, Holder
<1>2. /\ Goto(p, "clear")
      /\ synced' = [pending |-> pending, ckpt |-> {head}, head |-> head,
                    linked |-> JournalExists]
      /\ UNCHANGED <<journal, torn, unsynced, pending, ckpt, head, mode, goal, view,
                     outcome, observed>>
  BY <1>1 DEF SyncCheckpoint, SyncDir
<1>3. journal # <<>> => synced'.linked
  BY <1>2 DEF JournalExists
<1>4. Holder(p)'
  <2>1. Target(p)' = head'
    BY <1>1, <1>2 DEF Target
  <2>2. QED
    BY <1>1, <1>2, <1>3, <2>1 DEF Holder, Goto
<1>5. PendingOK' /\ ReportedOK'
  BY <1>2 DEF DiskOK, PendingOK, ReportedOK, NotBegun, HeadOnly, Published
<1>6. RebuildOK'
  BY <1>1, <1>2, <1>3 DEF RebuildOK, Unsettled
<1>7. CheckpointOK'
  BY <1>1, <1>2 DEF CheckpointOK, CheckpointCurrent
<1>8. QED
  BY <1>1, <1>2, <1>4, <1>5, <1>6, <1>7, HolderStep DEF DiskOK, PCs, Locked

\* Removing the marker keeps the invariant: nothing is left to rebuild.
LEMMA ClearPendingStep ==
  ASSUME IInv, TypeOK', NEW p \in Processes, ClearPending(p)
  PROVE  Rest'
<1> USE DEF IInv, TypeOK
<1>1. /\ pc[p] = "clear" /\ pc[p] \in Locked /\ Target(p) = head
      /\ journal = head /\ ~torn /\ ~unsynced /\ ckpt = {head}
      /\ synced.ckpt = {head} /\ (journal # <<>> => synced.linked)
  BY DEF ClearPending, Locked, HolderOK, Holder
<1>2. /\ Goto(p, "clearsync") /\ pending' = {}
      /\ UNCHANGED <<journal, torn, unsynced, ckpt, head, synced, mode, goal, view,
                     outcome, observed>>
  BY <1>1 DEF ClearPending
<1>3. Holder(p)'
  <2>1. Target(p)' = head'
    BY <1>1, <1>2 DEF Target
  <2>2. QED
    BY <1>1, <1>2, <2>1 DEF Holder, Goto
<1>4. PendingOK' /\ ReportedOK'
  BY <1>2 DEF DiskOK, PendingOK, ReportedOK, NotBegun, HeadOnly, Published
<1>5. RebuildOK' /\ CheckpointOK'
  BY <1>1, <1>2 DEF RebuildOK, Unsettled, CheckpointOK, CheckpointCurrent
<1>6. QED
  BY <1>1, <1>2, <1>3, <1>4, <1>5, HolderStep DEF DiskOK, PCs, Locked

\* The end of a recovery or of an append keeps the invariant.
LEMMA SyncClearStep ==
  ASSUME IInv, TypeOK', NEW p \in Processes, SyncClear(p)
  PROVE  Rest'
<1> USE DEF IInv, TypeOK
<1>1. pc[p] = "clearsync" /\ pc[p] \in Locked /\ Target(p) = head /\ pending = {}
  BY DEF SyncClear, Locked, HolderOK, Holder
<1>2. journal = head /\ ~torn /\ ~unsynced /\ CheckpointCurrent(ckpt)
  BY <1>1 DEF DiskOK, RebuildOK, CheckpointOK, Unsettled
<1>3. /\ UNCHANGED <<journal, torn, unsynced, pending, ckpt, head>>
      /\ synced' = [pending |-> {}, ckpt |-> ckpt, head |-> head,
                    linked |-> JournalExists]
  BY <1>1 DEF SyncClear, SyncDir
<1>4. PendingOK' /\ RebuildOK' /\ CheckpointOK'
  BY <1>1, <1>2, <1>3 DEF PendingOK, RebuildOK, Unsettled, CheckpointOK, CheckpointCurrent,
     JournalExists
<1>5. CASE mode[p] \in {"recover", "scan"}
  <2>1. Goto(p, "load") /\ UNCHANGED <<outcome, view, observed>>
    BY <1>5 DEF SyncClear
  <2>2. Holder(p)'
    BY <1>1, <1>3, <2>1 DEF Holder, Goto
  <2>3. ReportedOK'
    BY <1>3, <2>1 DEF DiskOK, ReportedOK
  <2>4. QED
    BY <1>1, <1>3, <1>4, <2>1, <2>2, <2>3, HolderStep DEF DiskOK, PCs, Locked
<1>6. CASE mode[p] \in {"create", "append"}
  <2>1. Succeed(p, head)
    BY <1>1, <1>6 DEF SyncClear, Target
  <2>2. ReportedOK'
    BY <1>1, <1>3, <2>1, ReportSettled
  <2>3. QED
    BY <1>1, <1>3, <1>4, <2>1, <2>2, SucceedQuiet DEF DiskOK
<1>7. QED
  BY <1>1, <1>5, <1>6 DEF ModeOK, Mode, Modes

\* A process crash at any step keeps the invariant.
LEMMA CrashStep ==
  ASSUME IInv, TypeOK', NEW p \in Processes, Crash(p)
  PROVE  Rest'
<1> USE DEF IInv, TypeOK
<1>1. /\ UNCHANGED <<disk, observed>>
      /\ \A r \in Processes \ {p} :
           /\ pc'[r] = pc[r] /\ mode'[r] = mode[r] /\ goal'[r] = goal[r]
           /\ view'[r] = view[r] /\ outcome'[r] = outcome[r]
      /\ pc'[p] = "idle" /\ view'[p] = <<>> /\ outcome'[p] = "None"
  BY DEF Crash, Drop
<1>2. \A r \in Processes : view'[r] = view[r] \/ view'[r] = <<>>
  BY <1>1
<1>3. PendingOK'
  <2>1. ASSUME NEW q \in pending, head = q.next, NEW r \in Processes
        PROVE  IsPrefix(view'[r], q.prior)
    <3>1. IsPrefix(view[r], q.prior)
      BY <2>1 DEF DiskOK, PendingOK
    <3>2. IsPrefix(<<>>, q.prior)
      BY <2>1, PendingShape, PrefixEmpty DEF DiskOK, Logs
    <3>3. QED
      BY <1>2, <3>1, <3>2
  <2>2. QED
    BY <1>1, <2>1 DEF disk, DiskOK, PendingOK, NotBegun, HeadOnly, Published
<1>4. RebuildOK' /\ CheckpointOK'
  BY <1>1 DEF disk, DiskOK, RebuildOK, Unsettled, CheckpointOK, CheckpointCurrent
<1>5. ReportedOK'
  <2>1. IsPrefix(<<>>, observed)
    BY PrefixEmpty DEF Logs
  <2>2. QED
    BY <1>1, <1>2, <2>1 DEF disk, DiskOK, ReportedOK
<1>6. ASSUME NEW r \in Processes PROVE Holder(r)'
  <2>1. CASE r = p
    BY <1>1, <2>1 DEF Holder
  <2>2. CASE r # p
    BY <1>1, <2>2 DEF disk, HolderOK, Holder, Unsettled, Published, HeadOnly, Target
  <2>3. QED
    BY <2>1, <2>2
<1>7. RollbackOK'
  BY <1>1 DEF RollbackOK, disk
<1>8. QED
  BY <1>3, <1>4, <1>5, <1>6, <1>7 DEF Rest, DiskOK, HolderOK

\* The files survive a power loss in one of two shapes: settled as they were,
\* or with a durable marker that rebuilds the record the head protects.
LEMMA PowerLossStep ==
  ASSUME IInv, TypeOK', PowerLoss, ~HeadReverts
  PROVE  Rest'
<1> USE DEF IInv, TypeOK
<1>1. /\ \A r \in Processes : pc'[r] = "idle" /\ view'[r] = <<>> /\ outcome'[r] = "None"
      /\ pending' \in {pending, synced.pending}
      /\ ckpt' \in {ckpt, synced.ckpt}
      /\ head' = head /\ observed' = observed
  BY DEF PowerLoss, Drop
<1>2. unsynced' = FALSE
  BY Zenon DEF PowerLoss
<1>3. /\ journal' \in SurvivingLines
      /\ torn' => torn \/ journal' # journal
  BY Zenon DEF PowerLoss
<1>4. /\ synced'.pending = pending' /\ synced'.ckpt = ckpt'
      /\ synced'.linked <=> journal' # <<>> \/ torn'
  BY DEF PowerLoss
<1>5. HolderOK' /\ RollbackOK'
  BY <1>1 DEF HolderOK, Holder, RollbackOK, Locked
<1>6. \A q \in pending' : \A r \in Processes : IsPrefix(view'[r], q.prior)
  <2>1. ASSUME NEW q \in pending' PROVE IsPrefix(<<>>, q.prior)
    BY <1>1, PendingShape, PrefixEmpty DEF DiskOK, Logs
  <2>2. QED
    BY <1>1, <2>1
<1>7. \A r \in Processes : IsPrefix(view'[r], observed')
  BY <1>1, PrefixEmpty DEF Logs
<1>8. CASE ~Unsettled
  <2>1. /\ journal = head /\ ~torn /\ ~unsynced
        /\ journal # <<>> => synced.linked
    BY <1>8 DEF Unsettled
  <2>2. journal' = journal
    BY <1>3, <2>1 DEF SurvivingLines
  <2>3. ~torn'
    BY <1>3, <2>1, <2>2
  <2>4. PendingOK'
    BY <1>1, <1>4, <1>6, <2>1, <2>2, <2>3
       DEF DiskOK, PendingOK, NotBegun, HeadOnly, Published
  <2>5. RebuildOK'
    BY <1>1, <1>2, <1>4, <2>1, <2>2, <2>3 DEF RebuildOK, Unsettled
  <2>6. CheckpointOK'
    BY <1>1, <1>4 DEF DiskOK, CheckpointOK, CheckpointCurrent
  <2>7. ReportedOK'
    BY <1>1, <1>7, <2>2 DEF DiskOK, ReportedOK
  <2>8. QED
    BY <1>5, <2>4, <2>5, <2>6, <2>7 DEF Rest, DiskOK
<1>9. CASE Unsettled
  <2>1. PICK q \in pending :
          /\ synced.pending = {q} /\ head = q.next
          /\ IsPrefix(observed, q.prior)
          /\ ~synced.linked => q.prior = <<>>
    BY <1>9 DEF DiskOK, RebuildOK
  <2>2. pending' = {q} /\ (HeadOnly(q) \/ Published(q))
    BY <1>1, <2>1, Covered
  <2>3. /\ q.prior \in Logs /\ q.next \in Logs /\ Front(q.next) = q.prior
        /\ q.next # q.prior /\ q.next # <<>> /\ IsPrefix(q.prior, q.next)
    BY PendingShape DEF DiskOK
  <2>4. unsynced => journal = q.next
    BY <2>1 DEF DiskOK, RebuildOK
  <2>5. journal \in {q.prior, q.next} /\ (journal = q.next => ~torn)
    BY <2>2, <2>3 DEF HeadOnly, Published
  <2>6. journal' \in {journal, q.prior}
    BY <1>3, <2>1, <2>3, <2>4 DEF SurvivingLines
  <2>7. journal' \in {q.prior, q.next}
    BY <2>5, <2>6
  <2>8. journal' = q.next => ~torn'
    BY <1>3, <2>3, <2>5, <2>6
  <2>9. HeadOnly(q)' \/ Published(q)'
    BY <1>1, <2>1, <2>7, <2>8 DEF HeadOnly, Published
  <2>10. PendingOK'
    BY <1>1, <1>4, <1>6, <2>1, <2>2, <2>9 DEF DiskOK, PendingOK
  <2>11. RebuildOK'
    <3>1. ~synced'.linked => q.prior = <<>>
      BY <1>4, <2>3, <2>7
    <3>2. QED
      BY <1>1, <1>2, <1>4, <2>1, <2>2, <3>1 DEF RebuildOK
  <2>12. CheckpointOK'
    BY <1>1, <1>4, <2>1, <2>2, <2>3 DEF CheckpointOK
  <2>13. ReportedOK'
    <3>1. IsPrefix(observed, q.next)
      BY <2>1, <2>3, PrefixTransitive DEF Logs
    <3>2. QED
      BY <1>1, <1>7, <2>1, <2>7, <3>1 DEF ReportedOK
  <2>14. QED
    BY <1>5, <2>10, <2>11, <2>12, <2>13 DEF Rest, DiskOK
<1>10. QED
  BY <1>8, <1>9

-----------------------------------------------------------------------------
(* The invariant is inductive *)

\* The invariant holds of the empty directory.
LEMMA InitInv == Init => IInv
<1> SUFFICES ASSUME Init PROVE IInv
  OBVIOUS
<1> USE EmptyLog DEF Init
<1>1. TypeOK
  BY DEF TypeOK, PCs, Modes, Outcomes
<1>2. LockOK /\ ModeOK /\ GoalOK
  BY DEF LockOK, Locked, ModeOK, Mode, GoalOK, Goal
<1>3. PendingOK /\ RebuildOK /\ CheckpointOK
  BY DEF PendingOK, RebuildOK, Unsettled, CheckpointOK, CheckpointCurrent
<1>4. ReportedOK
  BY PrefixEmpty DEF ReportedOK, Logs
<1>5. HolderOK /\ RollbackOK
  BY DEF HolderOK, Holder, RollbackOK
<1>6. QED
  BY <1>1, <1>2, <1>3, <1>4, <1>5 DEF IInv, DiskOK

\* Every step of every process, and every failure, keeps the invariant.
LEMMA StepInv == IInv /\ ~HeadReverts /\ [Next]_vars => IInv'
<1> SUFFICES ASSUME IInv, ~HeadReverts, [Next]_vars PROVE IInv'
  OBVIOUS
<1>1. TypeOK'
  BY LineFromHolder, TypeStep DEF IInv
<1>2. LockOK' /\ ModeOK' /\ GoalOK'
  BY LockStep, ModeStep, GoalStep DEF IInv
<1>3. Rest'
  <2>1. CASE Next
    <3>1. ASSUME NEW p \in Processes, Proceed(p) PROVE Rest'
      BY <1>1, <3>1, BeginStep, RecoverStep, ResyncStep, LoadStep, BootSyncStep, CheckStep,
         PendSyncStep, SwapHeadStep, SwapSyncStep, LineStep, SyncLineStep,
         WriteCheckpointStep, SyncCheckpointStep, ClearPendingStep, SyncClearStep DEF Proceed
    <3>2. QED
      BY <1>1, <2>1, <3>1, BeginStep, LineStep, CrashStep, PowerLossStep DEF Next
  <2>2. CASE UNCHANGED vars
    <3>1. DiskOK'
      BY <1>1, <2>2, DiskFrame DEF IInv, vars, disk
    <3>2. HolderOK' /\ RollbackOK'
      BY <2>2 DEF IInv, vars, HolderOK, Holder, Unsettled, Published, HeadOnly, Target,
         RollbackOK
    <3>3. QED
      BY <3>1, <3>2 DEF Rest
  <2>3. QED
    BY <2>1, <2>2
<1>4. QED
  BY <1>1, <1>2, <1>3 DEF IInv, Rest

-----------------------------------------------------------------------------
(* What follows from the invariant *)

\* The head leads the journal by at most the record its marker carries.
LEMMA JournalPrefixOfHead == IInv => HeadLeadsByOne
<1> SUFFICES ASSUME IInv PROVE HeadLeadsByOne
  OBVIOUS
<1>1. head \in Seq(Records)
  BY DEF IInv, TypeOK, Logs
<1>2. CASE journal = head
  BY <1>1, <1>2, PrefixEmpty DEF HeadLeadsByOne
<1>3. CASE journal # head
  <2>1. PICK q \in pending : head = q.next
    BY <1>3 DEF IInv, DiskOK, RebuildOK, Unsettled
  <2>2. journal = q.prior
    BY <1>3, <2>1, Covered DEF HeadOnly, Published
  <2>3. IsPrefix(q.prior, q.next) /\ Len(q.next) = Len(q.prior) + 1
    BY PendingShape DEF IInv, DiskOK
  <2>4. QED
    BY <1>1, <2>1, <2>2, <2>3 DEF HeadLeadsByOne
<1>4. QED
  BY <1>2, <1>3

\* The invariant implies the properties the runs check.
LEMMA InvImplied == IInv => TypeOK /\ ObservedSurvives /\ HeadLeadsByOne /\ RollbackOnlyWhenPassed
<1> SUFFICES ASSUME IInv
             PROVE  TypeOK /\ ObservedSurvives /\ HeadLeadsByOne /\ RollbackOnlyWhenPassed
  OBVIOUS
<1>1. TypeOK /\ ObservedSurvives /\ HeadLeadsByOne
  BY JournalPrefixOfHead DEF IInv, DiskOK, ReportedOK, ObservedSurvives
<1>2. ASSUME NEW p \in Processes, outcome[p] = "RollbackDetected"
      PROVE  pc[p] = "open" /\ IsStrictPrefix(view[p], head)
  <2>1. pc[p] = "open" /\ view[p] # head
    BY <1>2 DEF IInv, RollbackOK
  <2>2. IsPrefix(view[p], observed) /\ IsPrefix(observed, journal) /\ IsPrefix(journal, head)
    BY <1>1 DEF IInv, DiskOK, ReportedOK, HeadLeadsByOne
  <2>3. /\ view[p] \in Seq(Records) /\ observed \in Seq(Records)
        /\ journal \in Seq(Records) /\ head \in Seq(Records)
    BY DEF IInv, TypeOK, Logs
  <2>4. IsPrefix(view[p], head)
    BY <2>2, <2>3, PrefixTransitive
  <2>5. QED
    BY <2>1, <2>4 DEF IsStrictPrefix
<1>3. QED
  BY <1>1, <1>2 DEF RollbackOnlyWhenPassed

\* Whatever the processes, bindings and events, and however often calls fail,
\* processes crash or the host loses power, the state keeps its type
\* (src/src/workflow.rs, the journal of DurableWorkflow).
THEOREM TypeCorrect == ASSUME ~HeadReverts PROVE Spec => []TypeOK
<1>1. Spec => []IInv
  BY InitInv, StepInv, PTL DEF Spec
<1>2. IInv => TypeOK
  BY DEF IInv
<1>3. QED
  BY <1>1, <1>2, PTL

\* A record that any call has reported is never lost, the protected head leads
\* the journal by at most one record, and only an append through a handle that
\* the head has passed is refused as rolled back (recover_pending_append,
\* open_or_create, write_record_while_locked).
THEOREM JournalDurable ==
  ASSUME ~HeadReverts
  PROVE  Spec => [](ObservedSurvives /\ HeadLeadsByOne /\ RollbackOnlyWhenPassed)
<1>1. Spec => []IInv
  BY InitInv, StepInv, PTL DEF Spec
<1>2. IInv => ObservedSurvives /\ HeadLeadsByOne /\ RollbackOnlyWhenPassed
  BY InvImplied
<1>3. QED
  BY <1>1, <1>2, PTL

\* Between any two steps the protected head is the journal or the journal and the one
\* record its pending file carries, so recovery never has to guess
\* (recover_pending_append, compare_and_swap).
THEOREM HeadStaysClose == ASSUME ~HeadReverts PROVE Spec => []HeadLeadsByOne
<1>1. Spec => []IInv
  BY InitInv, StepInv, PTL DEF Spec
<1>2. IInv => HeadLeadsByOne
  BY JournalPrefixOfHead
<1>3. QED
  BY <1>1, <1>2, PTL

\* No open and no scan, however it follows a kill or a power loss, reports a
\* rollback that did not happen (open_or_create, recover_pending_append); an
\* append does, and only through a handle whose log the protected head strictly
\* extends (write_record_while_locked).
THEOREM RollbackMeansPassed == ASSUME ~HeadReverts PROVE Spec => []RollbackOnlyWhenPassed
<1>1. Spec => []IInv
  BY InitInv, StepInv, PTL DEF Spec
<1>2. IInv => RollbackOnlyWhenPassed
  BY InvImplied
<1>3. QED
  BY <1>1, <1>2, PTL

-----------------------------------------------------------------------------
(* The refinement: the head is the log, a handle's view is what it has seen *)

\* The only step that moves the head is a compare-and-swap from a current view.
LEMMA SwapHeadCommits ==
  ASSUME IInv, NEW p \in Processes, SwapHead(p)
  PROVE  Log!Commit(p)
<1>1. mode[p] \in {"create", "append"}
  BY DEF SwapHead, IInv, ModeOK, Mode
<1>2. \E r \in Records : goal[p] = Append(view[p], r)
  BY <1>1 DEF IInv, GoalOK, Goal
<1>3. QED
  BY <1>2 DEF SwapHead, Log!Commit

\* A call that succeeds reports the whole committed log.
LEMMA SucceedLearns ==
  ASSUME IInv, NEW p \in Processes,
         \/ Load(p) /\ LoadVerdict(p) = "open"
         \/ SyncClear(p) /\ mode[p] \in {"create", "append"}
  PROVE  Log!Learn(p)
<1>1. CASE Load(p) /\ LoadVerdict(p) = "open"
  <2>1. journal = head
    BY <1>1 DEF LoadVerdict
  <2>2. QED
    BY <1>1, <2>1 DEF Load, Succeed, Log!Learn
<1>2. CASE SyncClear(p) /\ mode[p] \in {"create", "append"}
  <2>1. goal[p] = head
    BY <1>2 DEF SyncClear, IInv, HolderOK, Holder, Target
  <2>2. QED
    BY <1>2, <2>1 DEF SyncClear, Succeed, Log!Learn
<1>3. QED
  BY <1>1, <1>2

\* Every step is a commit, a report, a forgetting or a stutter of the log.
LEMMA StepRefines == IInv /\ ~HeadReverts /\ [Next]_vars => [Log!Next]_(Log!vars)
<1> SUFFICES ASSUME IInv, ~HeadReverts, [Next]_vars PROVE [Log!Next]_(Log!vars)
  OBVIOUS
<1> USE DEF Log!vars
<1>1. ASSUME NEW p \in Processes,
             \/ PeekFails(p) \/ Attempt(p) \/ Scan(p) \/ AcquireLock(p) \/ Recover(p)
             \/ Resync(p) \/ BootSync(p) \/ AppendRecord(p) \/ Check(p) \/ PendSync(p)
             \/ SwapSync(p) \/ TearLine(p) \/ WriteLine(p) \/ SyncLine(p) \/ SyncLink(p)
             \/ WriteCheckpoint(p) \/ SyncCheckpoint(p) \/ ClearPending(p) \/ IoError(p)
      PROVE  UNCHANGED <<head, view>>
  BY <1>1 DEF PeekFails, Attempt, Scan, AcquireLock, Recover, Resync, BootSync, AppendRecord,
     Check, PendSync, SwapSync, TearLine, WriteLine, SyncLine, SyncLink, WriteCheckpoint,
     SyncCheckpoint, ClearPending, IoError, disk, local
<1>2. ASSUME NEW p \in Processes, SwapHead(p) PROVE Log!Next
  BY <1>2, SwapHeadCommits DEF Log!Next
<1>3. ASSUME NEW p \in Processes, Load(p) PROVE [Log!Next]_(Log!vars)
  <2>1. CASE LoadVerdict(p) = "open"
    BY <1>3, <2>1, SucceedLearns DEF Log!Next
  <2>2. CASE LoadVerdict(p) # "open"
    BY <1>3, <2>2 DEF Load
  <2>3. QED
    BY <2>1, <2>2
<1>4. ASSUME NEW p \in Processes, SyncClear(p) PROVE [Log!Next]_(Log!vars)
  <2>1. CASE mode[p] \in {"create", "append"}
    BY <1>4, <2>1, SucceedLearns DEF Log!Next
  <2>2. CASE mode[p] \notin {"create", "append"}
    BY <1>4, <2>2 DEF SyncClear
  <2>3. QED
    BY <2>1, <2>2
<1>5. ASSUME NEW p \in Processes, Crash(p) PROVE Log!Next
  <2>1. Log!Forget({p})
    BY <1>5 DEF Crash, Drop, disk, Log!Forget
  <2>2. QED
    BY <2>1 DEF Log!Next
<1>6. ASSUME PowerLoss PROVE Log!Next
  <2>1. Log!Forget(Processes)
    BY <1>6 DEF PowerLoss, Drop, Log!Forget
  <2>2. QED
    BY <2>1 DEF Log!Next
<1>7. CASE UNCHANGED vars
  BY <1>7 DEF vars
<1>8. QED
  BY <1>1, <1>2, <1>3, <1>4, <1>5, <1>6, <1>7 DEF Next, Proceed

\* The journal protocol implements the append-only log with optimistic
\* concurrency: an append takes effect at the swap of the protected head, only
\* from the log its handle was last told of, and no failure undoes it.
THEOREM JournalImplementsAppendLog ==
  ASSUME ~HeadReverts
  PROVE  Spec => ImplementsAppendLog
<1>1. Spec => []IInv
  BY InitInv, StepInv, PTL DEF Spec
<1>2. Init => Log!Init
  BY DEF Init, Log!Init
<1>3. IInv /\ [Next]_vars => [Log!Next]_(Log!vars)
  BY StepRefines
<1>4. QED
  BY <1>1, <1>2, <1>3, PTL DEF Spec, ImplementsAppendLog, Log!Spec

-----------------------------------------------------------------------------
(* No event is committed twice *)

CommittedOnce == IsInjective(head) /\ \A p \in Processes : IsInjective(goal[p])

\* A log repeats no record when no two positions hold the same one.
LEMMA InjectiveSeq ==
  ASSUME NEW S, NEW s \in Seq(S)
  PROVE  IsInjective(s) <=> \A i, j \in 1..Len(s) : s[i] = s[j] => i = j
  BY DEF IsInjective

\* Appending a new record to a log that repeats none keeps it so.
LEMMA InjectiveAppend ==
  ASSUME NEW S, NEW s \in Seq(S), IsInjective(s), NEW r \in S \ ToSet(s)
  PROVE  IsInjective(Append(s, r))
<1> DEFINE t == Append(s, r)
<1>1. t \in Seq(S) /\ Len(t) = Len(s) + 1 /\ \A i \in 1..Len(s) : t[i] = s[i]
  BY AppendFacts
<1>2. t[Len(s) + 1] = r
  OBVIOUS
<1>3. \A i \in 1..Len(s) : s[i] # r
  BY DEF ToSet
<1>4. ASSUME NEW i \in 1..Len(t), NEW j \in 1..Len(t), t[i] = t[j] PROVE i = j
  BY <1>1, <1>2, <1>3, <1>4, InjectiveSeq
<1>5. QED
  BY <1>1, <1>4, InjectiveSeq

\* A prefix of a log that repeats no record repeats none.
LEMMA InjectivePrefix ==
  ASSUME NEW S, NEW s \in Seq(S), NEW t \in Seq(S), IsPrefix(s, t), IsInjective(t)
  PROVE  IsInjective(s)
  BY PrefixElements, InjectiveSeq

\* Logs of at most one record repeat none.
LEMMA InjectiveShort ==
  /\ IsInjective(<<>>)
  /\ \A r : IsInjective(<<r>>)
  BY DEF IsInjective

\* No step commits an event a second time, nor aims at doing so.
LEMMA CommittedOnceStep ==
  IInv /\ CommittedOnce /\ ~HeadReverts /\ [Next]_vars => CommittedOnce'
<1> SUFFICES ASSUME IInv, CommittedOnce, ~HeadReverts, [Next]_vars PROVE CommittedOnce'
  OBVIOUS
<1> USE InjectiveShort DEF CommittedOnce, IInv, TypeOK
<1>1. ASSUME NEW p \in Processes, NEW why, Fail(p, why), UNCHANGED head PROVE CommittedOnce'
  BY <1>1 DEF Fail
<1>2. ASSUME NEW p \in Processes, NEW s, Succeed(p, s), UNCHANGED head PROVE CommittedOnce'
  BY <1>2 DEF Succeed
<1>3. CASE UNCHANGED <<head, goal>>
  BY <1>3
<1>4. ASSUME NEW p \in Processes, Attempt(p) PROVE CommittedOnce'
  BY <1>4 DEF Attempt, disk
<1>5. ASSUME NEW p \in Processes, AppendRecord(p) PROVE CommittedOnce'
  <2>1. CASE lock # {}
    BY <1>5, <2>1 DEF AppendRecord, disk
  <2>2. CASE lock = {}
    <3>1. PICK e \in Events \ ToSet(view[p]) : goal' = [goal EXCEPT ![p] = Append(view[p], e)]
      BY <1>5, <2>2 DEF AppendRecord
    <3>2. IsInjective(view[p])
      <4>1. IsPrefix(view[p], observed) /\ IsPrefix(observed, journal)
        BY DEF DiskOK, ReportedOK
      <4>2. IsPrefix(journal, head)
        BY JournalPrefixOfHead DEF HeadLeadsByOne
      <4>3. IsPrefix(view[p], head)
        BY <4>1, <4>2, PrefixTransitive DEF Logs
      <4>4. QED
        BY <4>3, InjectivePrefix DEF Logs
    <3>3. IsInjective(Append(view[p], e))
      BY <3>1, <3>2, InjectiveAppend DEF Logs, Records
    <3>4. QED
      BY <1>5, <3>1, <3>3 DEF AppendRecord, disk
  <2>3. QED
    BY <2>1, <2>2
<1>6. ASSUME NEW p \in Processes, SwapHead(p) PROVE CommittedOnce'
  BY <1>6 DEF SwapHead
<1>7. ASSUME NEW p \in Processes, AcquireLock(p) \/ Recover(p) \/ Load(p) \/ Check(p)
                                  \/ SyncClear(p) \/ IoError(p)
      PROVE  CommittedOnce'
  BY <1>7, <1>1, <1>2, <1>3 DEF AcquireLock, Recover, Load, Check, SyncClear, IoError, disk
<1>8. ASSUME NEW p \in Processes,
             \/ PeekFails(p) \/ Scan(p) \/ Resync(p) \/ BootSync(p) \/ PendSync(p)
             \/ SwapSync(p) \/ TearLine(p) \/ WriteLine(p) \/ SyncLine(p) \/ SyncLink(p)
             \/ WriteCheckpoint(p) \/ SyncCheckpoint(p) \/ ClearPending(p)
      PROVE  CommittedOnce'
  BY <1>8, <1>3 DEF PeekFails, Scan, Resync, BootSync, PendSync, SwapSync, TearLine, WriteLine,
     SyncLine, SyncLink, WriteCheckpoint, SyncCheckpoint, ClearPending, disk, local
<1>9. ASSUME NEW p \in Processes, Crash(p) PROVE CommittedOnce'
  BY <1>9 DEF Crash, Drop, disk
<1>10. ASSUME PowerLoss PROVE CommittedOnce'
  <2>1. head' = head /\ \A p \in Processes : goal'[p] = <<>>
    BY <1>10 DEF PowerLoss, Drop
  <2>2. QED
    BY <2>1
<1>11. CASE UNCHANGED vars
  BY <1>3, <1>11 DEF vars
<1>12. QED
  BY <1>4, <1>5, <1>6, <1>7, <1>8, <1>9, <1>10, <1>11 DEF Next, Proceed

\* However appends fail and are retried, by one handle or by several, an event
\* is in the committed log at most once (append_with_optional_lock's duplicate
\* check and write_record_while_locked's head comparison together).
THEOREM NoDuplicateEvents ==
  ASSUME ~HeadReverts
  PROVE  Spec => []EventsCommittedOnce
<1>1. Spec => []IInv
  BY InitInv, StepInv, PTL DEF Spec
<1>2. Init => CommittedOnce
  BY InjectiveShort DEF Init, CommittedOnce
<1>3. IInv /\ CommittedOnce /\ [Next]_vars => CommittedOnce'
  BY CommittedOnceStep
<1>4. CommittedOnce => EventsCommittedOnce
  BY DEF CommittedOnce, EventsCommittedOnce
<1>5. QED
  BY <1>1, <1>2, <1>3, <1>4, PTL DEF Spec
==============================================================================

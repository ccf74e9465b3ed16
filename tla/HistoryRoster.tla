---------------------------- MODULE HistoryRoster ----------------------------
(***************************************************************************)
(* The history directory and the two records that notice its loss          *)
(* (src/src/bin/hype-live-probe.rs, workflow.rs, live_decision.rs).  Each  *)
(* operational config binds the directory of its first prepare and the     *)
(* names of the journals verified scans have found there; each runtime     *)
(* keeps the directory of its live decisions and the journal it declared   *)
(* for each of them before creating it.  prepare counts the journals of    *)
(* earlier decisions into the inventory a new journal is bound to, and     *)
(* release takes the absence of a journal as proof that nothing was sent.  *)
(*                                                                         *)
(* A directory's path may come to show another volume than the one its     *)
(* journals are on (unmounted, deleted and recreated), or nothing; journal *)
(* files may vanish one by one; an operational config may be edited or be  *)
(* a copy of another.                                                      *)
(***************************************************************************)
EXTENDS Integers, FiniteSets

CONSTANTS
  Configs,      \* operational configs
  Runtimes,     \* runtime state directories
  Decisions,    \* live decisions, numbers: a runtime makes its own in order
  Names,     \* file names of journals
  Paths,        \* paths an operational config may name
  FirstPath,    \* the one every config names at first
  Commands,     \* processes
  Unset,        \* no decision, no journal, no path, no process
  Sites         \* the installations considered, see Site

\* The runtime each decision belongs to, the names prepare may be given for its
\* journal, the processes and configs in use, and a bound on what happens to storage
\* and configs.
Site == [home : [Decisions -> Runtimes], named : [Decisions -> SUBSET Names],
         commands : SUBSET Commands, configs : SUBSET Configs, mishaps : Nat]

ASSUME RosterAssumption ==
  /\ Decisions \subseteq Nat
  /\ Sites \subseteq Site
  /\ FirstPath \in Paths
  /\ Unset \notin Names \cup Paths \cup Commands \cup Decisions

Volumes == Paths \X {"kept", "stub"}

VARIABLES
  site,        \* the installation, which never changes
  shown,       \* shown[p]: which of p's volumes the path shows, or "none"
  file,        \* file[v][j]: the decision journal j of volume v is bound to
  head,        \* head[v]: the journals whose protected head is on volume v
  configured,  \* configured[k]: the history_directory config k names
  roster,      \* roster[k]: the binding file of config k
  rosterLock,  \* rosterLock[k]: who holds the lock beside it
  history,     \* history[r]: the live history directory runtime r recorded
  intent,      \* intent[d]: the journal declared for decision d
  status,      \* status[d]: what d's runtime has recorded of it
  runtimeLock, \* runtimeLock[r]: who has runtime r open
  command,     \* command[c]: what process c is doing
  bound,       \* the decisions a journal was ever created for
  inventory,   \* inventory[d]: how d's inventory was counted
  mishaps      \* how many have happened

storage == <<shown, file, head>>
bindings == <<configured, roster, rosterLock>>
books == <<history, intent, status, runtimeLock>>
record == <<site, bound, inventory, mishaps>>
rosterVars == <<storage, bindings, books, command, record>>

Home == site.home

Idle == [at |-> "idle", config |-> Unset, decision |-> Unset, journal |-> Unset,
         lock |-> Unset, seen |-> [path |-> Unset, recorded |-> {}],
         found |-> {}, missed |-> {}, steady |-> TRUE]

\* Nothing was counted for the decision: it has no journal, or a retry's.
Uncounted == [missed |-> {}, steady |-> TRUE]

RosterInit ==
  /\ site \in Sites
  /\ shown = [p \in Paths |-> "none"]
  /\ file = [v \in Volumes |-> [j \in Names |-> Unset]]
  /\ head = [v \in Volumes |-> {}]
  /\ configured = [k \in Configs |-> FirstPath]
  /\ roster = [k \in Configs |-> [path |-> Unset, recorded |-> {}]]
  /\ rosterLock = [k \in Configs |-> Unset]
  /\ history = [r \in Runtimes |-> Unset]
  /\ intent = [d \in Decisions |-> Unset]
  /\ status = [d \in Decisions |-> "future"]
  /\ runtimeLock = [r \in Runtimes |-> Unset]
  /\ command = [c \in Commands |-> Idle]
  /\ bound = {}
  /\ inventory = [d \in Decisions |-> Uncounted]
  /\ mishaps = 0

-----------------------------------------------------------------------------
\* What a path shows: its volume, and the files on it.
Volume(p) == <<p, shown[p]>>
Exists(p) == shown[p] # "none"
FileAt(p, j) == IF Exists(p) THEN file[Volume(p)][j] ELSE Unset
FilesAt(p) == {j \in Names : FileAt(p, j) # Unset}
HeadsAt(p) == IF Exists(p) THEN head[Volume(p)] ELSE {}

\* The directory create_dir_all makes: the first one, or one in its place.
Created(p) ==
  [shown EXCEPT ![p] = IF head[<<p, "kept">>] = {} THEN "kept" ELSE "stub"]

DecisionOf(c) == command[c].decision
At(c, label) == command[c].at = label
PathOf(c) == configured[command[c].config]
Step(c, update) == command' = [command EXCEPT ![c] = update]
Advance(c, label) == Step(c, [command[c] EXCEPT !.at = label])

\* HistoryDirectoryBinding::check: a binding names this directory, or there is none.
Matches(k, p) == roster[k].path \in {Unset, p}

\* ensure_history_directory_available: only a first prepare may find no directory.
Available(k, p) == roster[k].path # Unset => Exists(p)

Unsettled(r) == {d \in Decisions : Home[d] = r /\ status[d] = "planned"}

-----------------------------------------------------------------------------
(* prepare, up to the runtime. *)

\* ensure_history_directory_for_lock, then the lock beside the journal: a file of
\* the directory that is shown now.
BeginPrepare(c, k, d, j) ==
  LET p == configured[k] IN
  /\ At(c, "idle")
  /\ status[d] \in {"future", "planned"}
  /\ ~Exists(p) => Matches(k, p) /\ Available(k, p)
  /\ shown' = IF Exists(p) THEN shown ELSE Created(p)
  /\ \A x \in Commands : command[x].lock # <<<<p, shown'[p]>>, j>>
  /\ Step(c, [Idle EXCEPT !.at = "bind", !.config = k, !.decision = d,
                          !.journal = j, !.lock = <<<<p, shown'[p]>>, j>>])
  /\ UNCHANGED <<bindings, books, record, file, head>>

\* check, ensure_history_directory_available, create_dir_all.
Bind(c) ==
  LET k == command[c].config
      p == PathOf(c) IN
  /\ At(c, "bind")
  /\ Matches(k, p) /\ Available(k, p)
  /\ shown' = IF Exists(p) THEN shown ELSE Created(p)
  /\ Step(c, [command[c] EXCEPT !.at = IF roster[k].path = Unset THEN "persist" ELSE "open",
                                !.seen = roster[k]])
  /\ UNCHANGED <<bindings, books, record, file, head>>

\* persist_first_ever: a hard link, so the first of two writers wins.
PersistFirstEver(c) ==
  LET k == command[c].config IN
  /\ At(c, "persist")
  /\ roster[k].path = Unset
  /\ roster' = [roster EXCEPT ![k].path = PathOf(c)]
  /\ Advance(c, "open")
  /\ UNCHANGED <<storage, books, record, configured, rosterLock>>

\* The runtime's lock, then the cycle: the decision it makes or has made, and the
\* directory it may never decide into another than.
OpenRuntime(c) ==
  LET d == DecisionOf(c)
      r == Home[d] IN
  /\ At(c, "open")
  /\ runtimeLock[r] = Unset
  /\ runtimeLock' = [runtimeLock EXCEPT ![r] = c]
  /\ history[r] \in {Unset, PathOf(c)}
  /\ history' = [history EXCEPT ![r] = PathOf(c)]
  /\ \/ status[d] = "planned"
     \/ /\ status[d] = "future"
        /\ \A e \in Decisions :
             Home[e] = r /\ e < d => status[e] \in {"settled", "released"}
  /\ status' = [status EXCEPT ![d] = "planned"]
  /\ Advance(c, "verify")
  /\ UNCHANGED <<storage, bindings, record, intent>>

-----------------------------------------------------------------------------
(* prepare_live_order_workflow. *)

\* As if the declared journals that are missing were passed over.
IntentsOfThoseThere(c) ==
  \A e \in Decisions : Home[e] = Home[DecisionOf(c)] /\ intent[e] # Unset =>
    FileAt(PathOf(c), intent[e]) \in {Unset, e}

\* verify_recorded_journal_intents: each declared journal is there and is its
\* decision's; only the current decision's own may not exist yet.
IntentsResolve(c) ==
  \A e \in Decisions : Home[e] = Home[DecisionOf(c)] /\ intent[e] # Unset =>
    \/ FileAt(PathOf(c), intent[e]) = e
    \/ /\ FileAt(PathOf(c), intent[e]) = Unset
       /\ e = DecisionOf(c)
       /\ intent[e] = command[c].journal

VerifyIntents(c) ==
  /\ At(c, "verify")
  /\ IntentsResolve(c)
  /\ Advance(c, "peek")
  /\ UNCHANGED <<storage, bindings, books, record>>

\* peek_committed_binding: a journal that is there already must be this decision's,
\* whose inventory was counted when it was made.
PeekBinding(c) ==
  LET there == FileAt(PathOf(c), command[c].journal) IN
  /\ At(c, "peek")
  /\ there \in {Unset, DecisionOf(c)}
  /\ Advance(c, IF there = Unset THEN "scan" ELSE "declare")
  /\ UNCHANGED <<storage, bindings, books, record>>

\* scan_journal_paths: the journals of directory p but one; a protected head without
\* its journal fails the scan.
Scanned(p, exclude) == FilesAt(p) \ exclude
NoOrphan(p, exclude) == HeadsAt(p) \ exclude \subseteq Scanned(p, exclude)

\* ensure_recorded_journals_are_present
AllPresent(recorded, found) == recorded \subseteq found

\* aggregate_terminal_residual_hype: every journal found has reached its end.
\* What it misses is the decisions with a journal that it did not count.
ScanHistory(c) ==
  LET p == PathOf(c)
      own == {command[c].journal}
      found == Scanned(p, own) IN
  /\ At(c, "scan")
  /\ NoOrphan(p, own)
  /\ AllPresent(command[c].seen.recorded, found)
  /\ \A j \in found : status[FileAt(p, j)] = "settled"
  /\ Step(c, [command[c] EXCEPT !.at = "lock", !.found = found,
                !.missed = bound \ {FileAt(p, j) : j \in found}])
  /\ UNCHANGED <<storage, bindings, books, record>>

\* As if the binding were read again without its lock.
ReadRosterUnlocked(c) ==
  LET k == command[c].config IN
  /\ At(c, "lock")
  /\ AllPresent(roster[k].recorded, command[c].found)
  /\ Step(c, [command[c] EXCEPT !.at = "record", !.seen = roster[k]])
  /\ UNCHANGED <<storage, bindings, books, record>>

\* record_validated_journals: under the lock, read the binding again and refuse to
\* forget a journal; then replace it.
LockRoster(c) ==
  LET k == command[c].config IN
  /\ At(c, "lock")
  /\ rosterLock[k] = Unset
  /\ AllPresent(roster[k].recorded, command[c].found)
  /\ rosterLock' = [rosterLock EXCEPT ![k] = c]
  /\ Step(c, [command[c] EXCEPT !.at = "record", !.seen = roster[k]])
  /\ UNCHANGED <<storage, books, record, configured, roster>>

RecordJournals(c) ==
  LET k == command[c].config IN
  /\ At(c, "record")
  /\ roster' = [roster EXCEPT ![k] = [path |-> command[c].seen.path,
                                      recorded |-> command[c].found]]
  /\ rosterLock' = [rosterLock EXCEPT ![k] = Unset]
  /\ Step(c, [command[c] EXCEPT !.at = "declare",
                                 !.seen = Idle.seen, !.found = {}])
  /\ UNCHANGED <<storage, books, record, configured>>

\* record_live_journal_intent: once for each decision, and no path twice.
DeclareIntent(c) ==
  LET d == DecisionOf(c)
      j == command[c].journal IN
  /\ At(c, "declare")
  /\ status[d] = "planned"
  /\ intent[d] \in {Unset, j}
  /\ intent[d] = Unset =>
       \A e \in Decisions : Home[e] = Home[d] => intent[e] # j
  /\ intent' = [intent EXCEPT ![d] = j]
  /\ Advance(c, "create")
  /\ UNCHANGED <<storage, bindings, record, history, status, runtimeLock>>

Released(c) == [r \in Runtimes |-> IF runtimeLock[r] = c THEN Unset ELSE runtimeLock[r]]

\* open_or_create: a journal of this decision is opened; a new one is created where
\* no head says there was one.
CreateJournal(c) ==
  LET d == DecisionOf(c)
      j == command[c].journal
      p == PathOf(c)
      there == FileAt(p, j) IN
  /\ At(c, "create")
  /\ Exists(p)
  /\ there \in {Unset, d}
  /\ there = Unset => j \notin HeadsAt(p)
  /\ file' = [file EXCEPT ![Volume(p)][j] = d]
  /\ head' = [head EXCEPT ![Volume(p)] = @ \cup {j}]
  /\ bound' = bound \cup {d}
  /\ inventory' = IF there = d THEN inventory
                  ELSE [inventory EXCEPT ![d] = [missed |-> command[c].missed,
                                                 steady |-> command[c].steady]]
  /\ Step(c, Idle)
  /\ runtimeLock' = Released(c)
  /\ UNCHANGED <<bindings, shown, history, intent, status, site, mishaps>>

-----------------------------------------------------------------------------
(* release *)

\* open_bound_signer_free_runtime and ensure_runtime_prepared_into: the binding, then
\* the lock, then the directory the runtime itself recorded.
BeginRelease(c, k, r) ==
  LET p == configured[k] IN
  /\ At(c, "idle")
  /\ roster[k].path = p
  /\ Exists(p)
  /\ Unsettled(r) # {}
  /\ Step(c, [Idle EXCEPT !.at = "take", !.config = k, !.seen = roster[k],
                          !.decision = CHOOSE d \in Unsettled(r) : TRUE])
  /\ UNCHANGED <<storage, bindings, books, record>>

TakeRuntime(c) ==
  LET r == Home[DecisionOf(c)] IN
  /\ At(c, "take")
  /\ runtimeLock[r] = Unset
  /\ Unsettled(r) # {}
  /\ Exists(PathOf(c)) /\ history[r] = PathOf(c)
  /\ runtimeLock' = [runtimeLock EXCEPT ![r] = c]
  /\ Advance(c, "search")
  /\ UNCHANGED <<storage, bindings, record, history, intent, status>>

\* bound_decision_ids: every journal, and no decision twice.
SearchJournals(c) ==
  LET p == PathOf(c)
      found == Scanned(p, {}) IN
  /\ At(c, "search")
  /\ Exists(p)
  /\ NoOrphan(p, {})
  /\ AllPresent(command[c].seen.recorded, found)
  /\ \A i, j \in found : FileAt(p, i) = FileAt(p, j) => i = j
  /\ Step(c, [command[c] EXCEPT !.at = "settle", !.found = {FileAt(p, j) : j \in found}])
  /\ UNCHANGED <<storage, bindings, books, record>>

\* As if what a search finds were all there is to know.
ReleasableByAbsence(c, d) == d \notin command[c].found

\* A decision that declared a journal, or that a journal binds, is not released.
Releasable(c, d) == intent[d] = Unset /\ d \notin command[c].found

ReleaseDecision(c) ==
  LET r == Home[DecisionOf(c)] IN
  /\ At(c, "settle")
  /\ \A d \in Unsettled(r) : Releasable(c, d)
  /\ status' = [d \in Decisions |-> IF d \in Unsettled(r) THEN "released" ELSE status[d]]
  /\ Step(c, Idle)
  /\ runtimeLock' = Released(c)
  /\ UNCHANGED <<storage, bindings, record, history, intent>>

-----------------------------------------------------------------------------
\* A command fails or is killed where it stands; its locks go with it.
Stop(c) ==
  /\ command[c].at # "idle"
  /\ Step(c, Idle)
  /\ runtimeLock' = Released(c)
  /\ rosterLock' = [k \in Configs |-> IF rosterLock[k] = c THEN Unset ELSE rosterLock[k]]
  /\ UNCHANGED <<storage, record, configured, roster, history, intent, status>>

\* submit and reconcile, from the journal that was declared: the order is sent, ends,
\* and is settled (LiveDay has these steps one by one).
Conclude(d) ==
  /\ status[d] = "planned"
  /\ runtimeLock[Home[d]] = Unset
  /\ intent[d] # Unset
  /\ FileAt(history[Home[d]], intent[d]) = d
  /\ status' = [status EXCEPT ![d] = "settled"]
  /\ UNCHANGED <<storage, bindings, record, history, intent, runtimeLock, command>>

\* Storage under path p changes, and so may what a command has read of it.
Unsteady(p) ==
  command' = [c \in Commands |->
    IF At(c, "idle") \/ PathOf(c) # p \/ ~(command[c].at \in {"peek", "scan"})
      THEN command[c] ELSE [command[c] EXCEPT !.steady = FALSE]]

\* The path shows nothing, or an empty directory in the place of the one lost.
LoseDirectory(p, instead) ==
  /\ mishaps < site.mishaps
  /\ shown[p] = "kept"
  /\ head[<<p, "kept">>] # {}
  /\ shown' = [shown EXCEPT ![p] = instead]
  /\ mishaps' = mishaps + 1
  /\ Unsteady(p)
  /\ UNCHANGED <<bindings, books, file, head, site, bound, inventory>>

RestoreDirectory(p) ==
  /\ shown[p] \in {"none", "stub"}
  /\ head[<<p, "kept">>] # {}
  /\ shown' = [shown EXCEPT ![p] = "kept"]
  /\ Unsteady(p)
  /\ UNCHANGED <<bindings, books, record, file, head>>

\* One journal is deleted, with or without its protected head.
LoseJournal(p, j, headToo) ==
  /\ mishaps < site.mishaps
  /\ FileAt(p, j) # Unset
  /\ file' = [file EXCEPT ![Volume(p)][j] = Unset]
  /\ head' = IF headToo THEN [head EXCEPT ![Volume(p)] = @ \ {j}] ELSE head
  /\ mishaps' = mishaps + 1
  /\ Unsteady(p)
  /\ UNCHANGED <<bindings, books, shown, site, bound, inventory>>

\* history_directory is edited; commands have read the file they work from.
EditConfig(k, p) ==
  /\ mishaps < site.mishaps
  /\ configured[k] # p
  /\ \A c \in Commands : command[c].config # k
  /\ configured' = [configured EXCEPT ![k] = p]
  /\ mishaps' = mishaps + 1
  /\ UNCHANGED <<storage, books, roster, rosterLock, command, site, bound, inventory>>

-----------------------------------------------------------------------------
CommandStep(c) ==
  \/ Bind(c) \/ PersistFirstEver(c) \/ OpenRuntime(c)
  \/ VerifyIntents(c) \/ PeekBinding(c) \/ ScanHistory(c)
  \/ LockRoster(c) \/ RecordJournals(c) \/ DeclareIntent(c) \/ CreateJournal(c)
  \/ TakeRuntime(c) \/ SearchJournals(c) \/ ReleaseDecision(c)
  \/ Stop(c)

RosterNext ==
  \/ \E c \in site.commands, k \in site.configs, d \in Decisions :
       \E j \in site.named[d] : BeginPrepare(c, k, d, j)
  \/ \E c \in site.commands, k \in site.configs, r \in Runtimes : BeginRelease(c, k, r)
  \/ \E c \in site.commands : CommandStep(c)
  \/ \E d \in Decisions : Conclude(d)
  \/ \E p \in Paths, instead \in {"none", "stub"} : LoseDirectory(p, instead)
  \/ \E p \in Paths : RestoreDirectory(p)
  \/ \E p \in Paths, j \in Names, headToo \in BOOLEAN : LoseJournal(p, j, headToo)
  \/ \E k \in site.configs, p \in Paths : EditConfig(k, p)

RosterSpec == RosterInit /\ [][RosterNext]_rosterVars

-----------------------------------------------------------------------------
\* The write-once half and the growing half of a binding: the directory never changes
\* and no recorded journal is forgotten, whichever prepare writes last.
RosterGrows ==
  [][ \A k \in Configs :
        /\ roster[k].path # Unset => roster'[k].path = roster[k].path
        /\ roster[k].recorded \subseteq roster'[k].recorded ]_rosterVars

\* Absence is proof: a decision released because no journal binds it never had one, in
\* whatever directory, lost or not, and whatever config the release was run with.
ReleasedUnbound ==
  \A d \in Decisions : status[d] = "released" => d \notin bound

\* The inventory a new journal is bound to counted the journal of every other decision
\* of the same runtime, unless storage changed after the declared ones were looked for.
EarlierCounted ==
  \A d \in Decisions : inventory[d].steady =>
    \A e \in inventory[d].missed \ {d} : Home[e] # Home[d]

\* What docs/runbooks/live-probe-recovery.md:505 says of the declared journals: lost
\* history blocks new orders, the decision's own lost journal included.
LostHistoryBlocks ==
  \A d \in Decisions : inventory[d].steady =>
    \A e \in inventory[d].missed : Home[e] # Home[d]
==============================================================================

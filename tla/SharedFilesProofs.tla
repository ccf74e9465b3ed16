--------------------------- MODULE SharedFilesProofs ---------------------------
(***************************************************************************)
(* What the shared files keep for any number of processes.                  *)
(*                                                                         *)
(* The roster of journals, for any runtimes, decisions, configs, paths and  *)
(* commands, and however often storage is lost: a binding only grows,       *)
(* nothing that had a journal is released by absence, and an inventory      *)
(* counts the journals of its own runtime.                                  *)
(*                                                                         *)
(* The signal, for any producers, lengths of day and freshness, and any     *)
(* clock of the venue: one snapshot for a decision boundary.  The file is   *)
(* replaced again and again, so that nobody replaces what a decision was    *)
(* made from needs two facts: boundaries are published in their order       *)
(* (producers of two boundaries are never at work together, and none is at  *)
(* work long before its boundary or long after), and who is about to write  *)
(* has the lock and a boundary that nobody published.                       *)
(*                                                                         *)
(* The owner file, for any workflows, handles and ids: whoever is between   *)
(* its claim and the end of its commit holds the store's lock, and what it  *)
(* inserted in that time is in no journal of its workflow, so taking it     *)
(* back takes nothing that counts; and an id added to a journal was owned   *)
(* before it was added.                                                     *)
(***************************************************************************)
EXTENDS SharedFiles, TLAPS

-----------------------------------------------------------------------------
(* Types *)

Searching == {"verify", "peek", "scan"}
Preparing == {"bind", "persist", "open", "lock", "record", "declare", "create"} \cup Searching
Releasing == {"take", "search", "settle"}

Binding == [path : Paths \cup {Unset}, recorded : SUBSET Names]

Process ==
  [at : {"idle"} \cup Preparing \cup Releasing,
   config : Configs \cup {Unset}, decision : Decisions \cup {Unset},
   journal : Names \cup {Unset}, lock : (Volumes \X Names) \cup {Unset},
   seen : Binding, found : SUBSET (Names \cup Decisions),
   missed : SUBSET Decisions, steady : BOOLEAN]

StorageType ==
  /\ site \in Sites
  /\ shown \in [Paths -> {"kept", "stub", "none"}]
  /\ file \in [Volumes -> [Names -> Decisions \cup {Unset}]]
  /\ head \in [Volumes -> SUBSET Names]
  /\ configured \in [Configs -> Paths]
  /\ bound \subseteq Decisions
  /\ inventory \in [Decisions -> [missed : SUBSET Decisions, steady : BOOLEAN]]

BooksType ==
  /\ roster \in [Configs -> Binding]
  /\ rosterLock \in [Configs -> Commands \cup {Unset}]
  /\ history \in [Runtimes -> Paths \cup {Unset}]
  /\ intent \in [Decisions -> Names \cup {Unset}]
  /\ status \in [Decisions -> {"future", "planned", "settled", "released"}]
  /\ runtimeLock \in [Runtimes -> Commands \cup {Unset}]

\* Who is under way has a config and a decision, and a journal's name in prepare.
Engaged(s) ==
  /\ s.at # "idle" => s.config \in Configs /\ s.decision \in Decisions
  /\ s.at \in Preparing => s.journal \in Names
  /\ s.at \in {"lock", "record"} => s.found \subseteq Names

CommandType ==
  /\ command \in [Commands -> Process]
  /\ \A c \in Commands : Engaged(command[c])

RosterType == StorageType /\ BooksType /\ CommandType

USE RosterAssumption

-----------------------------------------------------------------------------
(* Lemmas about the operators *)

\* A site's commands, configs and names are what they are called.
LEMMA SiteFacts ==
  ASSUME site \in Sites
  PROVE  /\ site.commands \subseteq Commands /\ site.configs \subseteq Configs
         /\ \A d \in Decisions : Home[d] \in Runtimes /\ site.named[d] \subseteq Names
BY DEF Site, Home

\* A step of one command leaves the others where they are.
LEMMA StepFacts ==
  ASSUME CommandType, NEW c \in Commands, NEW u, Step(c, u)
  PROVE  /\ command'[c] = u
         /\ \A x \in Commands \ {c} : command'[x] = command[x]
         /\ u \in Process /\ Engaged(u) => CommandType'
BY DEF Step, CommandType

\* What a path shows is a volume; what lies there is a decision or nothing.
LEMMA FileFacts ==
  ASSUME StorageType, NEW p \in Paths, NEW j \in Names
  PROVE  /\ FileAt(p, j) \in Decisions \cup {Unset}
         /\ FileAt(p, j) # Unset => Exists(p)
         /\ Exists(p) => Volume(p) \in Volumes
BY DEF StorageType, FileAt, Exists, Volume, Volumes

\* Making a directory where there is none leaves every other path as it was.
LEMMA CreatedFacts ==
  ASSUME StorageType, NEW p \in Paths
  PROVE  /\ (IF Exists(p) THEN shown ELSE Created(p)) \in [Paths -> {"kept", "stub", "none"}]
         /\ (IF Exists(p) THEN shown ELSE Created(p))[p] \in {"kept", "stub"}
         /\ \A q \in Paths : Exists(q) =>
              (IF Exists(p) THEN shown ELSE Created(p))[q] = shown[q]
BY DEF StorageType, Exists, Created

\* The lock a command gives back was its own.
LEMMA ReleasedFacts ==
  ASSUME BooksType, NEW c \in Commands
  PROVE  /\ Released(c) \in [Runtimes -> Commands \cup {Unset}]
         /\ \A r \in Runtimes : runtimeLock[r] # c => Released(c)[r] = runtimeLock[r]
BY DEF BooksType, Released

LEMMA IdleType == Idle \in Process /\ Engaged(Idle)
BY DEF Idle, Process, Binding, Engaged, Preparing, Searching

\* Reading a binding on the way into prepare.
LEMMA SeenType ==
  ASSUME NEW s \in Process, NEW at \in Preparing, NEW b \in Binding
  PROVE  [s EXCEPT !.at = at, !.seen = b] \in Process
BY DEF Process

\* Who is under way works from a config, on a path, for a decision of a runtime.
LEMMA EngagedFacts ==
  ASSUME RosterType, NEW c \in Commands
  PROVE  /\ command[c] \in Process
         /\ command[c].seen \in Binding /\ command[c].found \subseteq Names \cup Decisions
         /\ command[c].at # "idle" =>
              /\ command[c].config \in Configs /\ PathOf(c) \in Paths
              /\ roster[command[c].config] \in Binding
              /\ DecisionOf(c) \in Decisions /\ Home[DecisionOf(c)] \in Runtimes
         /\ command[c].at \in Preparing => command[c].at # "idle" /\ command[c].journal \in Names
         /\ command[c].at \in {"lock", "record"} => command[c].found \subseteq Names
<1>1. command[c] \in Process /\ Engaged(command[c])
  BY DEF RosterType, CommandType
<1>2. command[c].seen \in Binding /\ command[c].found \subseteq Names \cup Decisions
  BY <1>1 DEF Process
<1>3. command[c].at \in Preparing => command[c].at # "idle"
  BY DEF Preparing, Searching
<1>4. QED
  BY <1>1, <1>2, <1>3, SiteFacts DEF RosterType, StorageType, BooksType, Engaged, PathOf,
     DecisionOf

\* A decision's or a journal's set of files is a set of names.
LEMMA ScanFacts ==
  ASSUME StorageType, NEW p \in Paths, NEW out \in SUBSET Names
  PROVE  /\ Scanned(p, out) \subseteq Names
         /\ \A j \in Scanned(p, out) : FileAt(p, j) \in Decisions
BY FileFacts DEF Scanned, FilesAt

\* A change of storage only marks what commands have read of it as unsteady.
LEMMA UnsteadyFacts ==
  ASSUME CommandType, NEW p \in Paths, Unsteady(p)
  PROVE  /\ CommandType'
         /\ \A x \in Commands :
              \/ command'[x] = command[x]
              \/ command'[x] = [command[x] EXCEPT !.steady = FALSE]
         /\ \A x \in Commands :
              command[x].at \in {"peek", "scan"} /\ PathOf(x) = p => ~command'[x].steady
<1> DEFINE After(x) ==
      IF At(x, "idle") \/ PathOf(x) # p \/ ~(command[x].at \in {"peek", "scan"})
      THEN command[x] ELSE [command[x] EXCEPT !.steady = FALSE]
<1>1. command' = [x \in Commands |-> After(x)]
  BY DEF Unsteady
<1>2. ASSUME NEW x \in Commands
      PROVE  After(x) \in Process /\ Engaged(After(x))
  <2>1. command[x] \in Process /\ Engaged(command[x])
    BY DEF CommandType
  <2>2. [command[x] EXCEPT !.steady = FALSE] \in Process
    BY <2>1 DEF Process
  <2>3. Engaged([command[x] EXCEPT !.steady = FALSE])
    BY <2>1 DEF Process, Engaged
  <2> QED
    BY <2>1, <2>2, <2>3
<1>3. CommandType'
  BY <1>1, <1>2 DEF CommandType
<1>4. ASSUME NEW x \in Commands, command[x].at \in {"peek", "scan"}, PathOf(x) = p
      PROVE  ~command'[x].steady
  <2>1. command[x] \in Process
    BY DEF CommandType
  <2>2. command'[x] = [command[x] EXCEPT !.steady = FALSE]
    BY <1>1, <1>4 DEF At
  <2> QED
    BY <2>1, <2>2 DEF Process
<1> QED
  BY <1>1, <1>3, <1>4

-----------------------------------------------------------------------------
(* Every step keeps the types *)

LEMMA InitType == RosterInit => RosterType
BY IdleType DEF RosterInit, RosterType, StorageType, BooksType, CommandType,
     Uncounted, Binding, Volumes

LEMMA TypeStep ==
  ASSUME RosterType, RosterNext
  PROVE  RosterType'
<1> USE DEF RosterType
<1>1. ASSUME NEW c \in Commands, NEW k \in Configs, NEW d \in Decisions, NEW j \in Names, BeginPrepare(c, k, d, j)
      PROVE  RosterType'
  <2> DEFINE u == [Idle EXCEPT !.at = "bind", !.config = k, !.decision = d, !.journal = j,
                     !.lock = <<<<configured[k], shown'[configured[k]]>>, j>>]
  <2>1. u \in Process /\ Engaged(u)
    <3>1. configured[k] \in Paths
      BY DEF StorageType
    <3>2. <<configured[k], shown'[configured[k]]>> \in Volumes
      BY <1>1, <3>1, CreatedFacts DEF BeginPrepare, Volumes
    <3>3. u \in Process
      BY <3>2, IdleType DEF Process, Preparing
    <3>4. Engaged(u)
      BY <3>3, IdleType DEF Process, Engaged
    <3> QED
      BY <3>3, <3>4
  <2>2. Step(c, u)
    BY <1>1 DEF BeginPrepare, Step
  <2>3. CommandType'
    BY <2>1, <2>2, StepFacts
  <2>4. StorageType'
    BY <1>1, CreatedFacts DEF BeginPrepare, StorageType, storage, bindings, books, record
  <2>5. BooksType'
    BY <1>1 DEF BeginPrepare, BooksType, storage, bindings, books, record
  <2> QED
    BY <2>3, <2>4, <2>5
<1>2. ASSUME NEW c \in Commands, Bind(c)
      PROVE  RosterType'
  <2> DEFINE u == [command[c] EXCEPT
               !.at = IF roster[command[c].config].path = Unset THEN "persist" ELSE "open",
               !.seen = roster[command[c].config]]
  <2>1. u \in Process /\ Engaged(u)
    <3>1. command[c].at = "bind" /\ command[c].at \in Preparing
      BY <1>2 DEF Bind, At, Preparing
    <3>2. command[c] \in Process /\ Engaged(command[c])
      BY DEF RosterType, CommandType
    <3>3. roster[command[c].config] \in Binding
      BY <3>1, <3>2 DEF Engaged, RosterType, BooksType
    <3>4. u \in Process
      BY <3>2, <3>3, SeenType DEF Preparing
    <3>5. Engaged(u)
      BY <3>1, <3>2 DEF Process, Engaged, Preparing, Searching
    <3> QED
      BY <3>4, <3>5
  <2>2. Step(c, u)
    BY <1>2 DEF Bind, Step
  <2>3. CommandType'
    BY <2>1, <2>2, StepFacts
  <2>4. StorageType'
    BY <1>2, CreatedFacts, EngagedFacts DEF Bind, StorageType, storage, bindings, books,
       record, CommandType, At, PathOf
  <2>5. BooksType'
    BY <1>2 DEF Bind, BooksType, storage, bindings, books, record
  <2> QED
    BY <2>3, <2>4, <2>5
<1>3. ASSUME NEW c \in Commands, PersistFirstEver(c)
      PROVE  RosterType'
  <2> DEFINE u == [command[c] EXCEPT !.at = "open"]
  <2>1. u \in Process /\ Engaged(u)
    <3>1. command[c].at = "persist"
      BY <1>3 DEF PersistFirstEver, At
    <3>2. command[c] \in Process /\ Engaged(command[c])
      BY DEF RosterType, CommandType
    <3> QED
      BY <3>1, <3>2 DEF Process, Engaged, Preparing, Searching, Releasing
  <2>2. Step(c, u)
    BY <1>3 DEF PersistFirstEver, Advance, Step
  <2>3. CommandType'
    BY <2>1, <2>2, StepFacts
  <2>4. StorageType'
    BY <1>3 DEF PersistFirstEver, StorageType, storage, bindings, books, record
  <2>5. BooksType'
    <3> DEFINE k == command[c].config
    <3>1. /\ command[c].at # "idle" /\ roster' = [roster EXCEPT ![k].path = PathOf(c)]
          /\ UNCHANGED <<rosterLock, books>>
      BY <1>3 DEF PersistFirstEver, At, bindings
    <3>2. k \in Configs /\ PathOf(c) \in Paths /\ roster[k] \in Binding
      BY <3>1, EngagedFacts
    <3>3. roster' \in [Configs -> Binding]
      BY <3>1, <3>2 DEF RosterType, BooksType, Binding
    <3> QED
      BY <3>1, <3>3 DEF RosterType, BooksType, books
  <2> QED
    BY <2>3, <2>4, <2>5
<1>4. ASSUME NEW c \in Commands, OpenRuntime(c)
      PROVE  RosterType'
  <2> DEFINE u == [command[c] EXCEPT !.at = "verify"]
  <2>1. u \in Process /\ Engaged(u)
    <3>1. command[c].at = "open"
      BY <1>4 DEF OpenRuntime, At
    <3>2. command[c] \in Process /\ Engaged(command[c])
      BY DEF RosterType, CommandType
    <3> QED
      BY <3>1, <3>2 DEF Process, Engaged, Preparing, Searching, Releasing
  <2>2. Step(c, u)
    BY <1>4 DEF OpenRuntime, Advance, Step
  <2>3. CommandType'
    BY <2>1, <2>2, StepFacts
  <2>4. StorageType'
    BY <1>4 DEF OpenRuntime, StorageType, storage, bindings, books, record
  <2>5. BooksType'
    BY <1>4, SiteFacts, EngagedFacts DEF OpenRuntime, BooksType, storage, bindings, books,
       record, CommandType, At, PathOf, DecisionOf, StorageType
  <2> QED
    BY <2>3, <2>4, <2>5
<1>5. ASSUME NEW c \in Commands, VerifyIntents(c)
      PROVE  RosterType'
  <2> DEFINE u == [command[c] EXCEPT !.at = "peek"]
  <2>1. u \in Process /\ Engaged(u)
    <3>1. command[c].at = "verify"
      BY <1>5 DEF VerifyIntents, At
    <3>2. command[c] \in Process /\ Engaged(command[c])
      BY DEF RosterType, CommandType
    <3> QED
      BY <3>1, <3>2 DEF Process, Engaged, Preparing, Searching, Releasing
  <2>2. Step(c, u)
    BY <1>5 DEF VerifyIntents, Advance, Step
  <2>3. CommandType'
    BY <2>1, <2>2, StepFacts
  <2>4. StorageType'
    BY <1>5 DEF VerifyIntents, StorageType, storage, bindings, books, record
  <2>5. BooksType'
    BY <1>5 DEF VerifyIntents, BooksType, storage, bindings, books, record
  <2> QED
    BY <2>3, <2>4, <2>5
<1>6. ASSUME NEW c \in Commands, PeekBinding(c)
      PROVE  RosterType'
  <2> DEFINE u == [command[c] EXCEPT !.at =
               IF FileAt(PathOf(c), command[c].journal) = Unset THEN "scan" ELSE "declare"]
  <2>1. u \in Process /\ Engaged(u)
    <3>1. command[c].at = "peek"
      BY <1>6 DEF PeekBinding, At
    <3>2. command[c] \in Process /\ Engaged(command[c])
      BY DEF RosterType, CommandType
    <3> QED
      BY <3>1, <3>2 DEF Process, Engaged, Preparing, Searching, Releasing
  <2>2. Step(c, u)
    BY <1>6 DEF PeekBinding, Advance, Step
  <2>3. CommandType'
    BY <2>1, <2>2, StepFacts
  <2>4. StorageType'
    BY <1>6 DEF PeekBinding, StorageType, storage, bindings, books, record
  <2>5. BooksType'
    BY <1>6 DEF PeekBinding, BooksType, storage, bindings, books, record
  <2> QED
    BY <2>3, <2>4, <2>5
<1>7. ASSUME NEW c \in Commands, ScanHistory(c)
      PROVE  RosterType'
  <2> DEFINE u == [command[c] EXCEPT !.at = "lock",
               !.found = Scanned(PathOf(c), {command[c].journal}),
               !.missed = bound \ {FileAt(PathOf(c), n) : n \in Scanned(PathOf(c), {command[c].journal})}]
  <2>1. u \in Process /\ Engaged(u)
    <3>1. command[c].at = "scan" /\ command[c].at \in Preparing
      BY <1>7 DEF ScanHistory, At, Preparing, Searching
    <3>2. Scanned(PathOf(c), {command[c].journal}) \subseteq Names /\ bound \subseteq Decisions
      BY <3>1, EngagedFacts, ScanFacts DEF StorageType
    <3>3. command[c] \in Process /\ Engaged(command[c])
      BY DEF RosterType, CommandType
    <3>4. u \in Process
      BY <3>2, <3>3 DEF Process, Preparing
    <3>5. Engaged(u)
      BY <3>1, <3>2, <3>3 DEF Process, Engaged, Preparing
    <3> QED
      BY <3>4, <3>5
  <2>2. Step(c, u)
    BY <1>7 DEF ScanHistory, Step
  <2>3. CommandType'
    BY <2>1, <2>2, StepFacts
  <2>4. StorageType'
    BY <1>7 DEF ScanHistory, StorageType, storage, bindings, books, record
  <2>5. BooksType'
    BY <1>7 DEF ScanHistory, BooksType, storage, bindings, books, record
  <2> QED
    BY <2>3, <2>4, <2>5
<1>8. ASSUME NEW c \in Commands, LockRoster(c)
      PROVE  RosterType'
  <2> DEFINE u == [command[c] EXCEPT !.at = "record", !.seen = roster[command[c].config]]
  <2>1. u \in Process /\ Engaged(u)
    <3>1. command[c].at = "lock"
      BY <1>8 DEF LockRoster, At
    <3>2. command[c] \in Process /\ Engaged(command[c])
      BY DEF RosterType, CommandType
    <3>3. roster[command[c].config] \in Binding
      BY <3>1, <3>2 DEF Engaged, RosterType, BooksType
    <3>4. u \in Process
      BY <3>2, <3>3 DEF Process, Preparing
    <3>5. Engaged(u)
      BY <3>1, <3>2 DEF Process, Engaged, Preparing
    <3> QED
      BY <3>4, <3>5
  <2>2. Step(c, u)
    BY <1>8 DEF LockRoster, Step
  <2>3. CommandType'
    BY <2>1, <2>2, StepFacts
  <2>4. StorageType'
    BY <1>8 DEF LockRoster, StorageType, storage, bindings, books, record
  <2>5. BooksType'
    BY <1>8, EngagedFacts DEF LockRoster, BooksType, storage, bindings, books, record,
       CommandType, At
  <2> QED
    BY <2>3, <2>4, <2>5
<1>9. ASSUME NEW c \in Commands, RecordJournals(c)
      PROVE  RosterType'
  <2> DEFINE u == [command[c] EXCEPT !.at = "declare", !.seen = Idle.seen, !.found = {}]
  <2>1. u \in Process /\ Engaged(u)
    <3>1. command[c].at = "record"
      BY <1>9 DEF RecordJournals, At
    <3>2. command[c] \in Process /\ Engaged(command[c])
      BY DEF RosterType, CommandType
    <3>3. Idle.seen \in Binding
      BY DEF Idle, Binding
    <3>4. u \in Process
      BY <3>2, <3>3 DEF Process, Preparing
    <3>5. Engaged(u)
      BY <3>1, <3>2 DEF Process, Engaged, Preparing
    <3> QED
      BY <3>4, <3>5
  <2>2. Step(c, u)
    BY <1>9 DEF RecordJournals, Step
  <2>3. CommandType'
    BY <2>1, <2>2, StepFacts
  <2>4. StorageType'
    BY <1>9 DEF RecordJournals, StorageType, storage, bindings, books, record
  <2>5. BooksType'
    BY <1>9, EngagedFacts DEF RecordJournals, BooksType, storage, bindings, books, record,
       CommandType, At, Process, Engaged, Binding
  <2> QED
    BY <2>3, <2>4, <2>5
<1>10. ASSUME NEW c \in Commands, DeclareIntent(c)
      PROVE  RosterType'
  <2> DEFINE u == [command[c] EXCEPT !.at = "create"]
  <2>1. u \in Process /\ Engaged(u)
    <3>1. command[c].at = "declare"
      BY <1>10 DEF DeclareIntent, At
    <3>2. command[c] \in Process /\ Engaged(command[c])
      BY DEF RosterType, CommandType
    <3> QED
      BY <3>1, <3>2 DEF Process, Engaged, Preparing, Searching, Releasing
  <2>2. Step(c, u)
    BY <1>10 DEF DeclareIntent, Advance, Step
  <2>3. CommandType'
    BY <2>1, <2>2, StepFacts
  <2>4. StorageType'
    BY <1>10 DEF DeclareIntent, StorageType, storage, bindings, books, record
  <2>5. BooksType'
    BY <1>10, EngagedFacts DEF DeclareIntent, BooksType, storage, bindings, books, record,
       CommandType, At, Engaged, Preparing, DecisionOf
  <2> QED
    BY <2>3, <2>4, <2>5
<1>11. ASSUME NEW c \in Commands, CreateJournal(c)
      PROVE  RosterType'
  <2> DEFINE u == Idle
  <2>1. u \in Process /\ Engaged(u)
    BY IdleType
  <2>2. Step(c, u)
    BY <1>11 DEF CreateJournal, Step
  <2>3. CommandType'
    BY <2>1, <2>2, StepFacts
  <2>4. StorageType'
    <3> DEFINE p == PathOf(c)
               j == command[c].journal
               d == DecisionOf(c)
    <3>1. /\ command[c].at = "create" /\ Exists(p)
          /\ file' = [file EXCEPT ![Volume(p)][j] = d]
          /\ head' = [head EXCEPT ![Volume(p)] = @ \cup {j}]
          /\ bound' = bound \cup {d}
          /\ inventory' = IF FileAt(p, j) = d THEN inventory
                ELSE [inventory EXCEPT ![d] = [missed |-> command[c].missed,
                                               steady |-> command[c].steady]]
          /\ UNCHANGED <<shown, configured, site>>
      BY <1>11 DEF CreateJournal, At, bindings
    <3>2. command[c].at \in Preparing
      BY <3>1 DEF Preparing
    <3>3. command[c] \in Process /\ p \in Paths /\ d \in Decisions /\ j \in Names
      BY <3>2, EngagedFacts
    <3>4. Volume(p) \in Volumes
      BY <3>1, <3>3, FileFacts DEF RosterType
    <3>5. command[c].missed \subseteq Decisions /\ command[c].steady \in BOOLEAN
      BY <3>3 DEF Process
    <3> HIDE DEF p, j, d
    <3>6. file' \in [Volumes -> [Names -> Decisions \cup {Unset}]]
      BY <3>1, <3>3, <3>4 DEF RosterType, StorageType
    <3>7. head' \in [Volumes -> SUBSET Names]
      BY <3>1, <3>3, <3>4 DEF RosterType, StorageType
    <3>8. inventory' \in [Decisions -> [missed : SUBSET Decisions, steady : BOOLEAN]]
      BY <3>1, <3>3, <3>5 DEF RosterType, StorageType
    <3> QED
      BY <3>1, <3>3, <3>6, <3>7, <3>8 DEF RosterType, StorageType
  <2>5. BooksType'
    BY <1>11, ReleasedFacts DEF CreateJournal, BooksType, storage, bindings, books, record
  <2> QED
    BY <2>3, <2>4, <2>5
<1>12. ASSUME NEW c \in Commands, NEW k \in Configs, NEW r \in Runtimes, BeginRelease(c, k, r)
      PROVE  RosterType'
  <2> DEFINE u == [Idle EXCEPT !.at = "take", !.config = k, !.seen = roster[k],
                     !.decision = CHOOSE d \in Unsettled(r) : TRUE]
  <2>1. u \in Process /\ Engaged(u)
    <3>1. Unsettled(r) # {} /\ Unsettled(r) \subseteq Decisions
      BY <1>12 DEF BeginRelease, Unsettled
    <3>2. (CHOOSE d \in Unsettled(r) : TRUE) \in Decisions
      BY <3>1
    <3>3. roster[k] \in Binding
      BY DEF RosterType, BooksType
    <3>4. u \in Process
      BY <3>2, <3>3, IdleType DEF Process, Releasing
    <3>5. Engaged(u)
      BY <3>2, IdleType DEF Process, Engaged, Preparing, Searching
    <3> QED
      BY <3>4, <3>5
  <2>2. Step(c, u)
    BY <1>12 DEF BeginRelease, Step
  <2>3. CommandType'
    BY <2>1, <2>2, StepFacts
  <2>4. StorageType'
    BY <1>12 DEF BeginRelease, StorageType, storage, bindings, books, record
  <2>5. BooksType'
    BY <1>12 DEF BeginRelease, BooksType, storage, bindings, books, record
  <2> QED
    BY <2>3, <2>4, <2>5
<1>13. ASSUME NEW c \in Commands, TakeRuntime(c)
      PROVE  RosterType'
  <2> DEFINE u == [command[c] EXCEPT !.at = "search"]
  <2>1. u \in Process /\ Engaged(u)
    <3>1. command[c].at = "take"
      BY <1>13 DEF TakeRuntime, At
    <3>2. command[c] \in Process /\ Engaged(command[c])
      BY DEF RosterType, CommandType
    <3> QED
      BY <3>1, <3>2 DEF Process, Engaged, Preparing, Searching, Releasing
  <2>2. Step(c, u)
    BY <1>13 DEF TakeRuntime, Advance, Step
  <2>3. CommandType'
    BY <2>1, <2>2, StepFacts
  <2>4. StorageType'
    BY <1>13 DEF TakeRuntime, StorageType, storage, bindings, books, record
  <2>5. BooksType'
    BY <1>13, SiteFacts, EngagedFacts DEF TakeRuntime, BooksType, storage, bindings, books,
       record, CommandType, At, DecisionOf, StorageType, Engaged, Process
  <2> QED
    BY <2>3, <2>4, <2>5
<1>14. ASSUME NEW c \in Commands, SearchJournals(c)
      PROVE  RosterType'
  <2> DEFINE u == [command[c] EXCEPT !.at = "settle",
               !.found = {FileAt(PathOf(c), n) : n \in Scanned(PathOf(c), {})}]
  <2>1. u \in Process /\ Engaged(u)
    <3>1. command[c].at = "search"
      BY <1>14 DEF SearchJournals, At
    <3>2. {FileAt(PathOf(c), n) : n \in Scanned(PathOf(c), {})} \subseteq Decisions
      BY <3>1, EngagedFacts, ScanFacts
    <3>3. command[c] \in Process /\ Engaged(command[c])
      BY DEF RosterType, CommandType
    <3>4. u \in Process
      BY <3>2, <3>3 DEF Process, Releasing
    <3>5. Engaged(u)
      BY <3>1, <3>3 DEF Process, Engaged, Preparing, Searching
    <3> QED
      BY <3>4, <3>5
  <2>2. Step(c, u)
    BY <1>14 DEF SearchJournals, Step
  <2>3. CommandType'
    BY <2>1, <2>2, StepFacts
  <2>4. StorageType'
    BY <1>14 DEF SearchJournals, StorageType, storage, bindings, books, record
  <2>5. BooksType'
    BY <1>14 DEF SearchJournals, BooksType, storage, bindings, books, record
  <2> QED
    BY <2>3, <2>4, <2>5
<1>15. ASSUME NEW c \in Commands, ReleaseDecision(c)
      PROVE  RosterType'
  <2> DEFINE u == Idle
  <2>1. u \in Process /\ Engaged(u)
    BY IdleType
  <2>2. Step(c, u)
    BY <1>15 DEF ReleaseDecision, Step
  <2>3. CommandType'
    BY <2>1, <2>2, StepFacts
  <2>4. StorageType'
    BY <1>15 DEF ReleaseDecision, StorageType, storage, bindings, books, record
  <2>5. BooksType'
    BY <1>15, ReleasedFacts DEF ReleaseDecision, BooksType, storage, bindings, books,
       record, Unsettled
  <2> QED
    BY <2>3, <2>4, <2>5
<1>16. ASSUME NEW c \in Commands, Stop(c)
      PROVE  RosterType'
  <2> DEFINE u == Idle
  <2>1. u \in Process /\ Engaged(u)
    BY IdleType
  <2>2. Step(c, u)
    BY <1>16 DEF Stop, Step
  <2>3. CommandType'
    BY <2>1, <2>2, StepFacts
  <2>4. StorageType'
    BY <1>16 DEF Stop, StorageType, storage, bindings, books, record
  <2>5. BooksType'
    BY <1>16, ReleasedFacts DEF Stop, BooksType, storage, bindings, books, record
  <2> QED
    BY <2>3, <2>4, <2>5
<1>17. ASSUME NEW d \in Decisions, Conclude(d)
      PROVE  RosterType'
  <2>1. CommandType'
    BY <1>17 DEF Conclude, CommandType, storage, bindings, books, record
  <2>2. StorageType'
    BY <1>17 DEF Conclude, StorageType, storage, bindings, books, record
  <2>3. BooksType'
    BY <1>17 DEF Conclude, BooksType, storage, bindings, books, record
  <2> QED
    BY <2>1, <2>2, <2>3
<1>18. ASSUME NEW p \in Paths, NEW instead \in {"none", "stub"}, LoseDirectory(p, instead)
      PROVE  RosterType'
  <2>1. CommandType'
    BY <1>18, UnsteadyFacts DEF LoseDirectory, CommandType, storage, bindings, books, record
  <2>2. StorageType'
    BY <1>18 DEF LoseDirectory, StorageType, storage, bindings, books, record
  <2>3. BooksType'
    BY <1>18 DEF LoseDirectory, BooksType, storage, bindings, books, record
  <2> QED
    BY <2>1, <2>2, <2>3
<1>19. ASSUME NEW p \in Paths, RestoreDirectory(p)
      PROVE  RosterType'
  <2>1. CommandType'
    BY <1>19, UnsteadyFacts DEF RestoreDirectory, CommandType, storage, bindings, books, record
  <2>2. StorageType'
    BY <1>19 DEF RestoreDirectory, StorageType, storage, bindings, books, record
  <2>3. BooksType'
    BY <1>19 DEF RestoreDirectory, BooksType, storage, bindings, books, record
  <2> QED
    BY <2>1, <2>2, <2>3
<1>20. ASSUME NEW p \in Paths, NEW j \in Names, NEW headToo \in BOOLEAN, LoseJournal(p, j, headToo)
      PROVE  RosterType'
  <2>1. CommandType'
    BY <1>20, UnsteadyFacts DEF LoseJournal, CommandType, storage, bindings, books, record
  <2>2. StorageType'
    BY <1>20, FileFacts DEF LoseJournal, StorageType, storage, bindings, books, record
  <2>3. BooksType'
    BY <1>20 DEF LoseJournal, BooksType, storage, bindings, books, record
  <2> QED
    BY <2>1, <2>2, <2>3
<1>21. ASSUME NEW k \in Configs, NEW p \in Paths, EditConfig(k, p)
      PROVE  RosterType'
  <2>1. CommandType'
    BY <1>21 DEF EditConfig, CommandType, storage, bindings, books, record
  <2>2. StorageType'
    BY <1>21 DEF EditConfig, StorageType, storage, bindings, books, record
  <2>3. BooksType'
    BY <1>21 DEF EditConfig, BooksType, storage, bindings, books, record
  <2> QED
    BY <2>1, <2>2, <2>3
<1>22. QED
  <2>1. CASE \E c \in Commands : CommandStep(c)
    <3>1. PICK c \in Commands : CommandStep(c)
      BY <2>1
    <3> QED
      BY <3>1, <1>2, <1>3, <1>4, <1>5, <1>6, <1>7, <1>8, <1>9, <1>10, <1>11, <1>13, <1>14,
         <1>15, <1>16 DEF CommandStep
  <2>2. CASE \/ \E c \in Commands, k \in Configs, d \in Decisions :
                  \E j \in Names : BeginPrepare(c, k, d, j)
             \/ \E c \in Commands, k \in Configs, r \in Runtimes : BeginRelease(c, k, r)
    BY <2>2, <1>1, <1>12
  <2>3. CASE \E p \in Paths :
               \/ \E instead \in {"none", "stub"} : LoseDirectory(p, instead)
               \/ RestoreDirectory(p)
               \/ \E j \in Names, headToo \in BOOLEAN : LoseJournal(p, j, headToo)
    BY <2>3, <1>18, <1>19, <1>20
  <2>4. CASE \/ \E d \in Decisions : Conclude(d)
             \/ \E k \in Configs, p \in Paths : EditConfig(k, p)
    BY <2>4, <1>17, <1>21
  <2>5. site.commands \subseteq Commands /\ site.configs \subseteq Configs
        /\ \A d \in Decisions : site.named[d] \subseteq Names
    BY SiteFacts DEF RosterType, StorageType
  <2> QED
    BY <2>1, <2>2, <2>3, <2>4, <2>5 DEF RosterNext

-----------------------------------------------------------------------------
(* How a step moves a command *)

\* Where a command may go on to from where it is; it may stop anywhere.
Edges ==
  {<<"bind", "persist">>, <<"bind", "open">>, <<"persist", "open">>, <<"open", "verify">>,
   <<"verify", "peek">>, <<"peek", "scan">>, <<"peek", "declare">>, <<"scan", "lock">>,
   <<"lock", "record">>, <<"record", "declare">>, <<"declare", "create">>,
   <<"take", "search">>, <<"search", "settle">>}

\* A command that goes on works for the same decision, from the same config, on the
\* same journal.
Goes(s, t) ==
  /\ <<s.at, t.at>> \in Edges
  /\ t.config = s.config /\ t.decision = s.decision /\ t.journal = s.journal
  /\ s.at \notin {"bind", "lock", "record"} => t.seen = s.seen
  /\ s.at \notin {"scan", "record", "search"} => t.found = s.found
  /\ s.at # "scan" => t.missed = s.missed
  /\ t.steady = s.steady

Moved(c) ==
  /\ \A x \in Commands \ {c} : command'[x] = command[x]
  /\ command'[c].at = "idle" \/ Goes(command[c], command'[c])

LEMMA StepMoves ==
  ASSUME RosterType, NEW c \in Commands, CommandStep(c)
  PROVE  Moved(c)
<1> USE EngagedFacts DEF Goes, Edges, Process, At, Step, Advance, Moved
<1>1. CASE Bind(c)
  BY <1>1 DEF Bind, RosterType, CommandType
<1>2. CASE PersistFirstEver(c)
  BY <1>2 DEF PersistFirstEver, RosterType, CommandType
<1>3. CASE OpenRuntime(c)
  BY <1>3 DEF OpenRuntime, RosterType, CommandType
<1>4. CASE VerifyIntents(c)
  BY <1>4 DEF VerifyIntents, RosterType, CommandType
<1>5. CASE PeekBinding(c)
  BY <1>5 DEF PeekBinding, RosterType, CommandType
<1>6. CASE ScanHistory(c)
  BY <1>6 DEF ScanHistory, RosterType, CommandType
<1>7. CASE LockRoster(c)
  BY <1>7 DEF LockRoster, RosterType, CommandType
<1>8. CASE RecordJournals(c)
  BY <1>8 DEF RecordJournals, RosterType, CommandType, Idle
<1>9. CASE DeclareIntent(c)
  BY <1>9 DEF DeclareIntent, RosterType, CommandType
<1>10. CASE CreateJournal(c)
  BY <1>10 DEF CreateJournal, RosterType, CommandType, Idle
<1>11. CASE TakeRuntime(c)
  BY <1>11 DEF TakeRuntime, RosterType, CommandType
<1>12. CASE SearchJournals(c)
  BY <1>12 DEF SearchJournals, RosterType, CommandType
<1>13. CASE ReleaseDecision(c)
  BY <1>13 DEF ReleaseDecision, RosterType, CommandType, Idle
<1>14. CASE Stop(c)
  BY <1>14 DEF Stop, RosterType, CommandType, Idle
<1> QED
  BY <1>1, <1>2, <1>3, <1>4, <1>5, <1>6, <1>7, <1>8, <1>9, <1>10, <1>11, <1>12, <1>13, <1>14
     DEF CommandStep

\* A command begins; every other one stays where it is.
Begins(c, s) ==
  /\ \A x \in Commands \ {c} : command'[x] = command[x]
  /\ command'[c].at = s /\ command'[c].missed = {}
  /\ UNCHANGED <<bindings, books, file, head, bound, inventory, site>>

LEMMA BeginMoves ==
  ASSUME RosterType, NEW c \in Commands, NEW k \in Configs
  PROVE  /\ \A d \in Decisions, j \in Names :
              BeginPrepare(c, k, d, j) =>
                /\ Begins(c, "bind")
                /\ \A p \in Paths : Exists(p) => shown'[p] = shown[p]
         /\ \A r \in Runtimes : BeginRelease(c, k, r) => Begins(c, "take") /\ UNCHANGED shown
<1>1. ASSUME NEW d \in Decisions, NEW j \in Names, BeginPrepare(c, k, d, j)
      PROVE  /\ Begins(c, "bind")
             /\ \A p \in Paths : Exists(p) => shown'[p] = shown[p]
  <2>1. configured[k] \in Paths
    BY DEF RosterType, StorageType
  <2>2. \A p \in Paths : Exists(p) => shown'[p] = shown[p]
    BY <1>1, <2>1, CreatedFacts DEF BeginPrepare, RosterType
  <2>3. Begins(c, "bind")
    BY <1>1 DEF BeginPrepare, Begins, Step, Idle, RosterType, CommandType, bindings, books,
       record
  <2> QED
    BY <2>2, <2>3
<1>2. ASSUME NEW r \in Runtimes, BeginRelease(c, k, r)
      PROVE  Begins(c, "take") /\ UNCHANGED shown
  BY <1>2 DEF BeginRelease, Begins, Step, Idle, RosterType, CommandType,
       storage, bindings, books, record
<1> QED
  BY <1>1, <1>2

\* What happens to storage leaves every command where it is and what it holds alone.
Disturbs(p) ==
  /\ UNCHANGED <<bindings, books, bound, inventory, site>>
  /\ \A x \in Commands :
       /\ command'[x].at = command[x].at /\ command'[x].config = command[x].config
       /\ command'[x].decision = command[x].decision /\ command'[x].journal = command[x].journal
       /\ command'[x].seen = command[x].seen /\ command'[x].found = command[x].found
       /\ command'[x].missed = command[x].missed
       /\ command'[x].steady => command[x].steady
       /\ command[x].at \in {"peek", "scan"} /\ PathOf(x) = p => ~command'[x].steady
  /\ \A q \in Paths \ {p} : /\ shown'[q] = shown[q]
                            /\ \A w \in {"kept", "stub"} : file'[<<q, w>>] = file[<<q, w>>]

LEMMA StorageMoves ==
  ASSUME RosterType, NEW p \in Paths
  PROVE  /\ \A instead \in {"none", "stub"} : LoseDirectory(p, instead) => Disturbs(p)
         /\ RestoreDirectory(p) => Disturbs(p)
         /\ \A j \in Names, headToo \in BOOLEAN : LoseJournal(p, j, headToo) => Disturbs(p)
<1>1. ASSUME Unsteady(p)
      PROVE  \A x \in Commands :
               /\ command'[x].at = command[x].at /\ command'[x].config = command[x].config
               /\ command'[x].decision = command[x].decision /\ command'[x].journal = command[x].journal
               /\ command'[x].seen = command[x].seen /\ command'[x].found = command[x].found
               /\ command'[x].missed = command[x].missed
               /\ command'[x].steady => command[x].steady
               /\ command[x].at \in {"peek", "scan"} /\ PathOf(x) = p => ~command'[x].steady
  <2>1. /\ \A x \in Commands :
              \/ command'[x] = command[x]
              \/ command'[x] = [command[x] EXCEPT !.steady = FALSE]
        /\ \A x \in Commands :
              command[x].at \in {"peek", "scan"} /\ PathOf(x) = p => ~command'[x].steady
    BY <1>1, UnsteadyFacts DEF RosterType
  <2>2. TAKE x \in Commands
  <2>3. command[x] \in Process
    BY DEF RosterType, CommandType
  <2>4. CASE command'[x] = command[x]
    BY <2>1, <2>4
  <2>5. CASE command'[x] = [command[x] EXCEPT !.steady = FALSE]
    BY <2>3, <2>5 DEF Process
  <2> QED
    BY <2>1, <2>4, <2>5
<1>2. ASSUME NEW instead \in {"none", "stub"}, LoseDirectory(p, instead)
      PROVE  Disturbs(p)
  BY <1>1, <1>2 DEF LoseDirectory, Disturbs, RosterType, StorageType, bindings, books, record
<1>3. ASSUME RestoreDirectory(p) PROVE Disturbs(p)
  BY <1>1, <1>3 DEF RestoreDirectory, Disturbs, RosterType, StorageType, bindings, books, record
<1>4. ASSUME NEW j \in Names, NEW headToo \in BOOLEAN, LoseJournal(p, j, headToo)
      PROVE  Disturbs(p)
  <2>1. \A q \in Paths \ {p}, w \in {"kept", "stub"} : file'[<<q, w>>] = file[<<q, w>>]
    BY <1>4 DEF LoseJournal, RosterType, StorageType, Volumes, Volume
  <2> QED
    BY <1>1, <1>4, <2>1 DEF LoseJournal, Disturbs, RosterType, StorageType, bindings, books,
       record
<1> QED
  BY <1>2, <1>3, <1>4

\* A step is one command's, or a command begins, or its decision is concluded, or
\* something happens to storage or to a config.
LEMMA NextCases ==
  ASSUME RosterType, RosterNext
  PROVE  \/ \E c \in Commands : CommandStep(c)
         \/ \E c \in Commands, k \in Configs, d \in Decisions, j \in Names : BeginPrepare(c, k, d, j)
         \/ \E c \in Commands, k \in Configs, r \in Runtimes : BeginRelease(c, k, r)
         \/ \E d \in Decisions : Conclude(d)
         \/ \E p \in Paths : Disturbs(p)
         \/ \E k \in Configs, p \in Paths : EditConfig(k, p)
<1>1. site \in Sites
  BY DEF RosterType, StorageType
<1>2. CASE \E c \in site.commands, k \in site.configs, d \in Decisions :
             \E j \in site.named[d] : BeginPrepare(c, k, d, j)
  BY <1>1, <1>2, SiteFacts
<1>3. CASE \E c \in site.commands, k \in site.configs, r \in Runtimes : BeginRelease(c, k, r)
  BY <1>1, <1>3, SiteFacts
<1>4. CASE \E c \in site.commands : CommandStep(c)
  BY <1>1, <1>4, SiteFacts
<1>5. CASE \E k \in site.configs, p \in Paths : EditConfig(k, p)
  BY <1>1, <1>5, SiteFacts
<1>6. CASE \/ \E p \in Paths, instead \in {"none", "stub"} : LoseDirectory(p, instead)
           \/ \E p \in Paths : RestoreDirectory(p)
           \/ \E p \in Paths, j \in Names, headToo \in BOOLEAN : LoseJournal(p, j, headToo)
  BY <1>6, StorageMoves
<1> QED
  BY <1>2, <1>3, <1>4, <1>5, <1>6 DEF RosterNext

-----------------------------------------------------------------------------
(* The binding *)

Bound == {"open", "lock", "record", "declare", "create"} \cup Searching

\* Past its first binding a command's config has one; who records journals holds the
\* lock, has read what it replaces, and replaces it by no less.
BoundOK(c) ==
  LET s == command[c] IN
  /\ s.at \in Bound => roster[s.config].path # Unset
  /\ s.at = "lock" => s.seen.recorded \subseteq s.found
  /\ s.at = "record" => /\ rosterLock[s.config] = c
                        /\ s.seen = roster[s.config]
                        /\ s.seen.recorded \subseteq s.found

BoundInv == \A c \in Commands : BoundOK(c)

LEMMA BoundStep ==
  ASSUME RosterType, BoundInv, NEW c \in Commands, CommandStep(c)
  PROVE  BoundInv'
<1>1. Moved(c) /\ command[c] \in Process /\ BoundOK(c)
  BY StepMoves, EngagedFacts DEF BoundInv
<1>2. ASSUME UNCHANGED <<roster, rosterLock>>, BoundOK(c)'
      PROVE  BoundInv'
  BY <1>1, <1>2 DEF BoundInv, BoundOK, Moved
<1>3. CASE Bind(c)
  <2>1. UNCHANGED <<roster, rosterLock>>
    BY <1>3 DEF Bind, storage, bindings, books, record
  <2>2. BoundOK(c)'
    BY <1>1, <1>3, <2>1, EngagedFacts DEF Bind, Moved, Goes, Edges, BoundOK, Bound,
       Searching, At, Step, Advance, Idle, RosterType, CommandType, Process
  <2> QED
    BY <1>2, <2>1, <2>2
<1>4. CASE OpenRuntime(c)
  <2>1. UNCHANGED <<roster, rosterLock>>
    BY <1>4 DEF OpenRuntime, storage, bindings, books, record
  <2>2. BoundOK(c)'
    BY <1>1, <1>4, <2>1, EngagedFacts DEF OpenRuntime, Moved, Goes, Edges, BoundOK, Bound,
       Searching, At, Step, Advance, Idle
  <2> QED
    BY <1>2, <2>1, <2>2
<1>5. CASE VerifyIntents(c)
  <2>1. UNCHANGED <<roster, rosterLock>>
    BY <1>5 DEF VerifyIntents, storage, bindings, books, record
  <2>2. BoundOK(c)'
    BY <1>1, <1>5, <2>1, EngagedFacts DEF VerifyIntents, Moved, Goes, Edges, BoundOK, Bound,
       Searching, At, Step, Advance, Idle
  <2> QED
    BY <1>2, <2>1, <2>2
<1>6. CASE PeekBinding(c)
  <2>1. UNCHANGED <<roster, rosterLock>>
    BY <1>6 DEF PeekBinding, storage, bindings, books, record
  <2>2. BoundOK(c)'
    BY <1>1, <1>6, <2>1, EngagedFacts DEF PeekBinding, Moved, Goes, Edges, BoundOK, Bound,
       Searching, At, Step, Advance, Idle, RosterType, CommandType, Process
  <2> QED
    BY <1>2, <2>1, <2>2
<1>7. CASE ScanHistory(c)
  <2>1. UNCHANGED <<roster, rosterLock>>
    BY <1>7 DEF ScanHistory, storage, bindings, books, record
  <2>2. BoundOK(c)'
    BY <1>1, <1>7, <2>1, EngagedFacts DEF ScanHistory, Moved, Goes, Edges, BoundOK, Bound,
       Searching, At, Step, Advance, Idle, AllPresent, RosterType, CommandType, Process
  <2> QED
    BY <1>2, <2>1, <2>2
<1>8. CASE DeclareIntent(c)
  <2>1. UNCHANGED <<roster, rosterLock>>
    BY <1>8 DEF DeclareIntent, storage, bindings, books, record
  <2>2. BoundOK(c)'
    BY <1>1, <1>8, <2>1, EngagedFacts DEF DeclareIntent, Moved, Goes, Edges, BoundOK, Bound,
       Searching, At, Step, Advance, Idle
  <2> QED
    BY <1>2, <2>1, <2>2
<1>9. CASE CreateJournal(c)
  <2>1. UNCHANGED <<roster, rosterLock>>
    BY <1>9 DEF CreateJournal, storage, bindings, books, record
  <2>2. BoundOK(c)'
    BY <1>1, <1>9, <2>1, EngagedFacts DEF CreateJournal, Moved, Goes, Edges, BoundOK, Bound,
       Searching, At, Step, Advance, Idle
  <2> QED
    BY <1>2, <2>1, <2>2
<1>10. CASE TakeRuntime(c)
  <2>1. UNCHANGED <<roster, rosterLock>>
    BY <1>10 DEF TakeRuntime, storage, bindings, books, record
  <2>2. BoundOK(c)'
    BY <1>1, <1>10, <2>1, EngagedFacts DEF TakeRuntime, Moved, Goes, Edges, BoundOK, Bound,
       Searching, At, Step, Advance, Idle
  <2> QED
    BY <1>2, <2>1, <2>2
<1>11. CASE SearchJournals(c)
  <2>1. UNCHANGED <<roster, rosterLock>>
    BY <1>11 DEF SearchJournals, storage, bindings, books, record
  <2>2. BoundOK(c)'
    BY <1>1, <1>11, <2>1, EngagedFacts DEF SearchJournals, Moved, Goes, Edges, BoundOK,
       Bound, Searching, At, Step, Advance, Idle
  <2> QED
    BY <1>2, <2>1, <2>2
<1>12. CASE ReleaseDecision(c)
  <2>1. UNCHANGED <<roster, rosterLock>>
    BY <1>12 DEF ReleaseDecision, storage, bindings, books, record
  <2>2. BoundOK(c)'
    BY <1>1, <1>12, <2>1, EngagedFacts DEF ReleaseDecision, Moved, Goes, Edges, BoundOK,
       Bound, Searching, At, Step, Advance, Idle
  <2> QED
    BY <1>2, <2>1, <2>2
<1>13. CASE PersistFirstEver(c)
  <2>1. UNCHANGED rosterLock /\ command[c].at = "persist" /\ command'[c].at = "open"
        /\ command'[c].config = command[c].config
    BY <1>13, EngagedFacts DEF PersistFirstEver, storage, bindings, books, record, Advance,
       Step, At, RosterType, CommandType, Process
  <2>2. /\ roster[command[c].config].path = Unset
        /\ roster'[command[c].config].path # Unset
        /\ \A k \in Configs \ {command[c].config} : roster'[k] = roster[k]
    BY <1>13, <2>1, EngagedFacts DEF PersistFirstEver, RosterType, BooksType, Binding
  <2>3. ASSUME NEW x \in Commands PROVE BoundOK(x)'
    <3>1. CASE x = c
      BY <2>1, <2>2, <3>1 DEF BoundOK
    <3>2. CASE x # c
      <4>1. command'[x] = command[x] /\ BoundOK(x)
        BY <1>1, <3>2 DEF Moved, BoundInv
      <4>2. x \in Commands /\ (command[x].at \in Bound => command[x].config \in Configs)
        BY EngagedFacts DEF Bound, Searching
      <4>3. command[x].at \in {"lock", "record"} => command[x].at \in Bound
        BY DEF Bound
      <4> QED
        BY <2>1, <2>2, <4>1, <4>2, <4>3 DEF BoundOK
    <3> QED
      BY <3>1, <3>2
  <2> QED
    BY <2>3 DEF BoundInv
<1>14. CASE LockRoster(c)
  <2>1. UNCHANGED roster /\ rosterLock[command[c].config] = Unset /\ command[c].at = "lock"
        /\ rosterLock' = [rosterLock EXCEPT ![command[c].config] = c]
        /\ command'[c] = [command[c] EXCEPT !.at = "record", !.seen = roster[command[c].config]]
        /\ roster[command[c].config].recorded \subseteq command[c].found
    BY <1>14 DEF LockRoster, Step, At, AllPresent, RosterType, CommandType
  <2>2. ASSUME NEW x \in Commands PROVE BoundOK(x)'
    <3>1. CASE x = c
      <4>1. command[c].config \in Configs /\ command[c] \in Process
        BY <2>1, EngagedFacts
      <4>2. rosterLock'[command[c].config] = c
        BY <2>1, <4>1 DEF RosterType, BooksType
      <4>3. /\ command'[c].at = "record" /\ command'[c].config = command[c].config
            /\ command'[c].seen = roster[command[c].config]
            /\ command'[c].found = command[c].found
        BY <2>1, <4>1 DEF Process
      <4>4. BoundOK(c)
        BY DEF BoundInv
      <4> QED
        BY <2>1, <3>1, <4>1, <4>2, <4>3, <4>4 DEF BoundOK, Bound
    <3>2. CASE x # c
      <4>1. command'[x] = command[x] /\ BoundOK(x)
        BY <1>1, <3>2 DEF Moved, BoundInv
      <4>2. rosterLock[command[x].config] = x => rosterLock'[command[x].config] = x
        BY <2>1
      <4> QED
        BY <2>1, <4>1, <4>2 DEF BoundOK
    <3> QED
      BY <3>1, <3>2
  <2> QED
    BY <2>2 DEF BoundInv
<1>15. CASE RecordJournals(c)
  <2>1. /\ rosterLock' = [rosterLock EXCEPT ![command[c].config] = Unset]
        /\ roster' = [roster EXCEPT ![command[c].config] =
             [path |-> command[c].seen.path, recorded |-> command[c].found]]
        /\ command[c].at = "record" /\ command'[c].at = "declare"
        /\ command'[c].config = command[c].config
    BY <1>1, <1>15 DEF RecordJournals, Step, At, RosterType, CommandType, Process
  <2>2. \A k \in Configs : roster[k].path # Unset => roster'[k].path # Unset
    BY <1>1, <2>1 DEF BoundOK, RosterType, BooksType
  <2>3. ASSUME NEW x \in Commands PROVE BoundOK(x)'
    <3>1. CASE x = c
      BY <1>1, <2>1, <2>2, <3>1, EngagedFacts DEF BoundOK, Bound
    <3>2. CASE x # c
      <4>1. command'[x] = command[x] /\ BoundOK(x)
        BY <1>1, <3>2 DEF Moved, BoundInv
      <4>2. command[x].at = "record" => command[x].config # command[c].config
        BY <1>1, <2>1, <3>2, <4>1 DEF BoundOK
      <4>3. command[x].at \in Bound => command[x].config \in Configs
        BY EngagedFacts DEF Bound, Searching
      <4> QED
        BY <2>1, <2>2, <4>1, <4>2, <4>3 DEF BoundOK, Bound, RosterType, BooksType
    <3> QED
      BY <3>1, <3>2
  <2> QED
    BY <2>3 DEF BoundInv
<1>16. CASE Stop(c)
  <2>1. /\ UNCHANGED roster
        /\ rosterLock' = [k \in Configs |-> IF rosterLock[k] = c THEN Unset ELSE rosterLock[k]]
        /\ command'[c].at = "idle"
    BY <1>16 DEF Stop, Step, Idle, RosterType, CommandType
  <2>2. ASSUME NEW x \in Commands PROVE BoundOK(x)'
    <3>1. CASE x = c
      BY <2>1, <3>1 DEF BoundOK, Bound, Searching
    <3>2. CASE x # c
      <4>1. command'[x] = command[x] /\ BoundOK(x)
        BY <1>1, <3>2 DEF Moved, BoundInv
      <4>2. command[x].at = "record" => command[x].config \in Configs
        BY EngagedFacts
      <4> QED
        BY <2>1, <3>2, <4>1, <4>2 DEF BoundOK
    <3> QED
      BY <3>1, <3>2
  <2> QED
    BY <2>2 DEF BoundInv
<1> QED
  BY <1>3, <1>4, <1>5, <1>6, <1>7, <1>8, <1>9, <1>10, <1>11, <1>12, <1>13, <1>14, <1>15,
     <1>16 DEF CommandStep

LEMMA BoundNext ==
  ASSUME RosterType, BoundInv, [RosterNext]_rosterVars
  PROVE  BoundInv'
<1>1. CASE \E c \in Commands : CommandStep(c)
  BY <1>1, BoundStep
<1>2. ASSUME NEW c \in Commands, Begins(c, "bind") \/ Begins(c, "take")
      PROVE  BoundInv'
  BY <1>2 DEF Begins, BoundInv, BoundOK, Bound, Searching, bindings
<1>3. CASE \E p \in Paths : Disturbs(p)
  BY <1>3 DEF Disturbs, BoundInv, BoundOK, bindings
<1>4. ASSUME NEW d \in Decisions, Conclude(d)
      PROVE  BoundInv'
  BY <1>4 DEF Conclude, BoundInv, BoundOK, bindings
<1>5. ASSUME NEW k \in Configs, NEW p \in Paths, EditConfig(k, p)
      PROVE  BoundInv'
  BY <1>5 DEF EditConfig, BoundInv, BoundOK
<1>6. CASE UNCHANGED rosterVars
  BY <1>6 DEF rosterVars, bindings, BoundInv, BoundOK
<1> QED
  BY <1>1, <1>2, <1>3, <1>4, <1>5, <1>6, NextCases, BeginMoves

\* A step changes a binding only to make its first one, or to add to it.
LEMMA RosterStep ==
  ASSUME RosterType, BoundInv, [RosterNext]_rosterVars, NEW k \in Configs
  PROVE  /\ roster[k].path # Unset => roster'[k].path = roster[k].path
         /\ roster[k].recorded \subseteq roster'[k].recorded
<1> DEFINE Grows == /\ roster[k].path # Unset => roster'[k].path = roster[k].path
                    /\ roster[k].recorded \subseteq roster'[k].recorded
<1>1. ASSUME UNCHANGED roster PROVE Grows
  BY <1>1
<1>2. ASSUME NEW c \in Commands, PersistFirstEver(c) PROVE Grows
  BY <1>2, EngagedFacts DEF PersistFirstEver, RosterType, BooksType, Binding, At
<1>3. ASSUME NEW c \in Commands, RecordJournals(c) PROVE Grows
  <2>1. command[c].at = "record" /\ BoundOK(c) /\ command[c].config \in Configs
    BY <1>3, EngagedFacts DEF RecordJournals, At, BoundInv
  <2>2. roster' = [roster EXCEPT ![command[c].config] =
                     [path |-> command[c].seen.path, recorded |-> command[c].found]]
    BY <1>3 DEF RecordJournals
  <2> QED
    BY <2>1, <2>2 DEF BoundOK, RosterType, BooksType, Binding
<1>4. ASSUME NEW c \in Commands, CommandStep(c) PROVE Grows
  <2>1. CASE PersistFirstEver(c) \/ RecordJournals(c)
    BY <1>2, <1>3, <2>1
  <2>2. CASE ~(PersistFirstEver(c) \/ RecordJournals(c))
    <3>1. UNCHANGED roster
      BY <1>4, <2>2 DEF CommandStep, Bind, OpenRuntime, VerifyIntents, PeekBinding, ScanHistory,
           LockRoster, DeclareIntent, CreateJournal, TakeRuntime, SearchJournals, ReleaseDecision,
           Stop, bindings, books, record, storage
    <3> QED
      BY <3>1, <1>1
  <2> QED
    BY <2>1, <2>2
<1>5. CASE RosterNext
  <2>1. ASSUME NEW d \in Decisions, Conclude(d) PROVE Grows
    BY <2>1, <1>1 DEF Conclude, bindings
  <2>2. ASSUME NEW l \in Configs, NEW p \in Paths, EditConfig(l, p) PROVE Grows
    BY <2>2, <1>1 DEF EditConfig
  <2>3. ASSUME NEW p \in Paths, Disturbs(p) PROVE Grows
    BY <2>3, <1>1 DEF Disturbs, bindings
  <2>4. ASSUME NEW c \in Commands, Begins(c, "bind") \/ Begins(c, "take") PROVE Grows
    BY <2>4, <1>1 DEF Begins, bindings
  <2> QED
    BY <1>4, <1>5, <2>1, <2>2, <2>3, <2>4, NextCases, BeginMoves
<1>6. CASE UNCHANGED rosterVars
  BY <1>6, <1>1 DEF rosterVars, bindings
<1> QED
  BY <1>5, <1>6

-----------------------------------------------------------------------------
(* The runtime's lock *)

Holding == {"lock", "record", "declare", "create", "search", "settle"} \cup Searching

LockOK(c) == command[c].at \in Holding => runtimeLock[Home[DecisionOf(c)]] = c

LockInv == \A c \in Commands : LockOK(c)

LEMMA RosterLockStep ==
  ASSUME RosterType, LockInv, NEW c \in Commands, CommandStep(c)
  PROVE  LockInv'
<1>1. Moved(c) /\ command[c] \in Process /\ LockOK(c)
  BY StepMoves, EngagedFacts DEF LockInv
<1>2. \A x \in Commands : command[x].at \in Holding => Home[DecisionOf(x)] \in Runtimes
  BY EngagedFacts DEF Holding, Searching
<1>3. CASE Bind(c) \/ PersistFirstEver(c)
  BY <1>1, <1>3 DEF Bind, PersistFirstEver, Moved, Goes, Edges, LockInv, LockOK, Holding,
     Searching,
     At, books, record, Home, DecisionOf
<1>4. CASE \/ VerifyIntents(c) \/ PeekBinding(c) \/ ScanHistory(c) \/ LockRoster(c)
           \/ RecordJournals(c) \/ DeclareIntent(c) \/ SearchJournals(c)
  <2>1. UNCHANGED <<runtimeLock, site>> /\ command[c].at \in Holding
    BY <1>4 DEF VerifyIntents, PeekBinding, ScanHistory, LockRoster, RecordJournals,
       DeclareIntent,
       SearchJournals, At, Holding, Searching, books, record
  <2> QED
    BY <1>1, <2>1 DEF Moved, Goes, LockInv, LockOK, Home, DecisionOf, Holding, Searching
<1>5. CASE OpenRuntime(c) \/ TakeRuntime(c)
  <2> DEFINE r == Home[DecisionOf(c)]
  <2>1. /\ runtimeLock[r] = Unset /\ runtimeLock' = [runtimeLock EXCEPT ![r] = c]
        /\ UNCHANGED site /\ command[c].at \in {"open", "take"}
    BY <1>5 DEF OpenRuntime, TakeRuntime, At, record
  <2>2. r \in Runtimes
    BY <2>1, EngagedFacts
  <2>3. command'[c].at \in Holding => command'[c].decision = command[c].decision
    BY <1>1 DEF Moved, Goes, Holding, Searching
  <2>4. Unset # c /\ \A x \in Commands : x # Unset
    OBVIOUS
  <2>5. ASSUME NEW x \in Commands PROVE LockOK(x)'
    <3>1. CASE x = c
      BY <2>1, <2>2, <2>3, <3>1 DEF LockOK, Home, DecisionOf, RosterType, BooksType
    <3>2. CASE x # c
      <4>1. command'[x] = command[x] /\ LockOK(x)
        BY <1>1, <3>2 DEF Moved, LockInv
      <4> QED
        BY <2>1, <2>4, <4>1 DEF LockOK, Home, DecisionOf
    <3> QED
      BY <3>1, <3>2
  <2> QED
    BY <2>5 DEF LockInv
<1>6. CASE CreateJournal(c) \/ ReleaseDecision(c) \/ Stop(c)
  <2>1. runtimeLock' = Released(c) /\ UNCHANGED site /\ command'[c].at = "idle"
    BY <1>6 DEF CreateJournal, ReleaseDecision, Stop, record, Step, Idle, RosterType,
       CommandType
  <2>2. ASSUME NEW x \in Commands PROVE LockOK(x)'
    <3>1. CASE x = c
      BY <2>1, <3>1 DEF LockOK, Holding, Searching
    <3>2. CASE x # c
      <4>1. command'[x] = command[x] /\ LockOK(x)
        BY <1>1, <3>2 DEF Moved, LockInv
      <4> QED
        BY <1>2, <2>1, <3>2, <4>1, ReleasedFacts DEF LockOK, Home, DecisionOf, RosterType
    <3> QED
      BY <3>1, <3>2
  <2> QED
    BY <2>2 DEF LockInv
<1> QED
  BY <1>3, <1>4, <1>5, <1>6 DEF CommandStep

LEMMA LockNext ==
  ASSUME RosterType, LockInv, [RosterNext]_rosterVars
  PROVE  LockInv'
<1> USE DEF LockInv, LockOK, Home, DecisionOf
<1>1. CASE \E c \in Commands : CommandStep(c)
  BY <1>1, RosterLockStep
<1>2. ASSUME NEW c \in Commands, Begins(c, "bind") \/ Begins(c, "take")
      PROVE  LockInv'
  BY <1>2 DEF Begins, Holding, Searching, books
<1>3. CASE \E p \in Paths : Disturbs(p)
  BY <1>3 DEF Disturbs, books
<1>4. ASSUME NEW d \in Decisions, Conclude(d)
      PROVE  LockInv'
  BY <1>4 DEF Conclude, record
<1>5. ASSUME NEW k \in Configs, NEW p \in Paths, EditConfig(k, p)
      PROVE  LockInv'
  BY <1>5 DEF EditConfig, books
<1>6. CASE UNCHANGED rosterVars
  BY <1>6 DEF rosterVars, books, record
<1> QED
  BY <1>1, <1>2, <1>3, <1>4, <1>5, <1>6, NextCases, BeginMoves

\* While one command works on a decision with the runtime's lock, no other command does.
LEMMA LockExcludes ==
  ASSUME LockInv, NEW c \in Commands, NEW x \in Commands, x # c,
         command[c].at \in Holding, command[x].at \in Holding
  PROVE  Home[DecisionOf(x)] # Home[DecisionOf(c)]
BY DEF LockInv, LockOK

-----------------------------------------------------------------------------
(* Declared before created, and never released *)

DeclaredOK(c) == command[c].at = "create" => intent[DecisionOf(c)] # Unset

DeclareInv ==
  /\ \A c \in Commands : DeclaredOK(c)
  /\ \A d \in bound : intent[d] # Unset
  /\ \A d \in Decisions : status[d] = "released" => intent[d] = Unset

\* A declared journal stays declared.
LEMMA IntentStep ==
  ASSUME RosterType, NEW c \in Commands, CommandStep(c), NEW d \in Decisions, intent[d] # Unset
  PROVE  intent'[d] = intent[d]
<1>1. CASE DeclareIntent(c)
  BY <1>1, EngagedFacts DEF DeclareIntent, At, RosterType, BooksType
<1>2. CASE ~DeclareIntent(c)
  BY <1>2 DEF CommandStep, Bind, PersistFirstEver, OpenRuntime, VerifyIntents, PeekBinding,
     ScanHistory, LockRoster, RecordJournals, CreateJournal, TakeRuntime, SearchJournals,
     ReleaseDecision, Stop, books
<1> QED
  BY <1>1, <1>2

LEMMA DeclareStep ==
  ASSUME RosterType, DeclareInv, NEW c \in Commands, CommandStep(c)
  PROVE  DeclareInv'
<1> DEFINE Rest == /\ \A d \in bound' : intent'[d] # Unset
                   /\ \A d \in Decisions : status'[d] = "released" => intent'[d] = Unset
<1>1. Moved(c) /\ bound \subseteq Decisions
  BY StepMoves DEF RosterType, StorageType
<1>2. \A d \in Decisions : intent[d] # Unset => intent'[d] = intent[d]
  BY IntentStep
<1>3. ASSUME NEW x \in Commands, x # c
      PROVE  DeclaredOK(x)'
  <2>1. command'[x] = command[x] /\ DeclaredOK(x)
    BY <1>1, <1>3 DEF Moved, DeclareInv
  <2>2. command[x].at = "create" => DecisionOf(x) \in Decisions
    BY EngagedFacts
  <2> QED
    BY <1>2, <2>1, <2>2 DEF DeclaredOK, DecisionOf
<1>4. CASE DeclareIntent(c)
  <2>1. /\ command[c].at = "declare" /\ status[DecisionOf(c)] = "planned"
        /\ intent' = [intent EXCEPT ![DecisionOf(c)] = command[c].journal]
        /\ UNCHANGED <<status, bound>>
    BY <1>4 DEF DeclareIntent, At, record
  <2>2. DecisionOf(c) \in Decisions /\ command[c].journal \in Names
    BY <2>1, EngagedFacts DEF Preparing
  <2>3. intent'[DecisionOf(c)] # Unset
    BY <2>1, <2>2 DEF RosterType, BooksType
  <2>4. DeclaredOK(c)'
    BY <1>1, <2>1, <2>3 DEF DeclaredOK, DecisionOf, Moved, Goes
  <2>5. Rest
    BY <1>1, <1>2, <2>1 DEF DeclareInv, RosterType, BooksType
  <2> QED
    BY <1>3, <2>4, <2>5 DEF DeclareInv
<1>5. CASE CreateJournal(c)
  <2>1. /\ command[c].at = "create" /\ command'[c].at = "idle"
        /\ bound' = bound \cup {DecisionOf(c)} /\ UNCHANGED <<intent, status>>
    BY <1>5 DEF CreateJournal, At, Step, Idle, RosterType, CommandType
  <2>2. intent[DecisionOf(c)] # Unset
    BY <2>1 DEF DeclareInv, DeclaredOK
  <2> QED
    BY <1>3, <2>1, <2>2 DEF DeclareInv, DeclaredOK
<1>6. CASE ReleaseDecision(c)
  <2>1. /\ command'[c].at = "idle" /\ UNCHANGED <<intent, bound>>
        /\ \A d \in Decisions : status'[d] = "released" =>
             status[d] = "released" \/ intent[d] = Unset
    BY <1>6 DEF ReleaseDecision, Releasable, Unsettled, Step, Idle, RosterType, CommandType,
       record
  <2> QED
    BY <1>3, <2>1 DEF DeclareInv, DeclaredOK
<1>7. CASE OpenRuntime(c)
  <2>1. /\ command[c].at = "open" /\ UNCHANGED <<intent, bound>>
        /\ \A d \in Decisions : status'[d] = "released" => status[d] = "released"
    BY <1>7 DEF OpenRuntime, At, record, RosterType, BooksType
  <2> QED
    BY <1>1, <1>3, <2>1 DEF DeclareInv, DeclaredOK, Moved, Goes, Edges
<1>8. CASE \/ Bind(c) \/ PersistFirstEver(c) \/ VerifyIntents(c) \/ PeekBinding(c)
           \/ ScanHistory(c) \/ LockRoster(c) \/ RecordJournals(c) \/ TakeRuntime(c)
           \/ SearchJournals(c) \/ Stop(c)
  <2>1. UNCHANGED <<intent, bound, status>>
    BY <1>8 DEF Bind, PersistFirstEver, VerifyIntents, PeekBinding, ScanHistory, LockRoster,
       RecordJournals, TakeRuntime, SearchJournals, Stop, books, record
  <2>2. command'[c].at # "create"
    <3>1. CASE Stop(c)
      BY <3>1 DEF Stop, Step, Idle, RosterType, CommandType
    <3>2. CASE ~Stop(c)
      BY <1>1, <1>8, <3>2 DEF Moved, Goes, Edges, At, Bind, PersistFirstEver, VerifyIntents,
         PeekBinding, ScanHistory, LockRoster, RecordJournals, TakeRuntime, SearchJournals
    <3> QED
      BY <3>1, <3>2
  <2> QED
    BY <1>3, <2>1, <2>2 DEF DeclareInv, DeclaredOK
<1> QED
  BY <1>4, <1>5, <1>6, <1>7, <1>8 DEF CommandStep

LEMMA DeclareNext ==
  ASSUME RosterType, DeclareInv, [RosterNext]_rosterVars
  PROVE  DeclareInv'
<1>1. CASE \E c \in Commands : CommandStep(c)
  BY <1>1, DeclareStep
<1>2. ASSUME NEW c \in Commands, Begins(c, "bind") \/ Begins(c, "take")
      PROVE  DeclareInv'
  BY <1>2 DEF Begins, books, DeclareInv, DeclaredOK, DecisionOf
<1>3. CASE \E p \in Paths : Disturbs(p)
  BY <1>3 DEF Disturbs, books, DeclareInv, DeclaredOK, DecisionOf
<1>4. ASSUME NEW d \in Decisions, Conclude(d)
      PROVE  DeclareInv'
  BY <1>4 DEF Conclude, record, RosterType, BooksType, DeclareInv, DeclaredOK, DecisionOf
<1>5. ASSUME NEW k \in Configs, NEW p \in Paths, EditConfig(k, p)
      PROVE  DeclareInv'
  BY <1>5 DEF EditConfig, books, DeclareInv, DeclaredOK, DecisionOf
<1>6. CASE UNCHANGED rosterVars
  BY <1>6 DEF rosterVars, books, record, DeclareInv, DeclaredOK, DecisionOf
<1> QED
  BY <1>1, <1>2, <1>3, <1>4, <1>5, <1>6, NextCases, BeginMoves

-----------------------------------------------------------------------------
(* What an inventory counts *)

\* The journals of other decisions of the runtime c works for.
Earlier(c) == {e \in bound \ {DecisionOf(c)} : Home[e] = Home[DecisionOf(c)]}

\* While storage is steady, a command that has found the declared journals still sees
\* them, none under the name it leaves out of its scan.
SeesOK(c) ==
  command[c].at \in {"peek", "scan"} /\ command[c].steady =>
    \A e \in Earlier(c) :
      /\ FileAt(PathOf(c), intent[e]) = e
      /\ command[c].at = "scan" => intent[e] # command[c].journal

CountOK(c) ==
  /\ command[c].at \in {"bind", "persist", "open"} \cup Searching => command[c].missed = {}
  /\ command[c].at \in {"lock", "record", "declare", "create"} /\ command[c].steady =>
       \A e \in command[c].missed \ {DecisionOf(c)} : Home[e] # Home[DecisionOf(c)]

CountInv ==
  /\ \A c \in Commands : SeesOK(c) /\ CountOK(c)
  /\ EarlierCounted

\* A file that is seen stays where it is, unless storage is disturbed.
LEMMA FilesKept ==
  ASSUME RosterType, NEW q \in Paths, NEW j \in Names, FileAt(q, j) # Unset,
         \/ \E c \in Commands : CommandStep(c)
         \/ (\A p \in Paths : Exists(p) => shown'[p] = shown[p]) /\ UNCHANGED file
  PROVE  FileAt(q, j)' = FileAt(q, j)
<1>1. Exists(q) /\ Volume(q) \in Volumes
  BY FileFacts DEF RosterType
<1>2. ASSUME (\A p \in Paths : Exists(p) => shown'[p] = shown[p]) /\ UNCHANGED file
      PROVE  FileAt(q, j)' = FileAt(q, j)
  BY <1>1, <1>2 DEF FileAt, Exists, Volume
<1>3. ASSUME NEW c \in Commands, CommandStep(c) PROVE FileAt(q, j)' = FileAt(q, j)
  <2>1. CASE Bind(c)
    <3>1. /\ PathOf(c) \in Paths
          /\ shown' = (IF Exists(PathOf(c)) THEN shown ELSE Created(PathOf(c)))
          /\ UNCHANGED file
      BY <2>1, EngagedFacts DEF Bind, At
    <3> QED
      BY <3>1, <1>2, CreatedFacts DEF RosterType
  <2>2. CASE CreateJournal(c)
    <3>1. UNCHANGED shown /\ PathOf(c) \in Paths /\ command[c].journal \in Names
      BY <2>2, EngagedFacts DEF CreateJournal, At, Preparing
    <3>2. /\ file' = [file EXCEPT ![Volume(PathOf(c))][command[c].journal] = DecisionOf(c)]
          /\ Exists(PathOf(c))
          /\ FileAt(PathOf(c), command[c].journal) \in {Unset, DecisionOf(c)}
      BY <2>2 DEF CreateJournal
    <3>3. file'[Volume(q)][j] = file[Volume(q)][j]
      BY Zenon, <1>1, <3>1, <3>2 DEF FileAt, Volume, RosterType, StorageType
    <3> QED
      BY <3>1, <3>3 DEF FileAt, Exists, Volume
  <2>3. CASE ~(Bind(c) \/ CreateJournal(c))
    <3>1. UNCHANGED <<shown, file>>
      BY Zenon, <1>3, <2>3 DEF CommandStep, PersistFirstEver, OpenRuntime, VerifyIntents, PeekBinding,
         ScanHistory, LockRoster, RecordJournals, DeclareIntent, TakeRuntime, SearchJournals,
         ReleaseDecision, Stop, storage
    <3> QED
      BY <3>1, <1>2
  <2> QED
    BY <2>1, <2>2, <2>3
<1> QED
  BY <1>2, <1>3

\* What a command sees of earlier journals it goes on seeing, if nothing was added to
\* them and the files stay.
LEMMA SeesKept ==
  ASSUME RosterType, DeclareInv, NEW x \in Commands, SeesOK(x),
         \A d \in Decisions : intent[d] # Unset => intent'[d] = intent[d],
         command'[x].at = command[x].at, PathOf(x)' = PathOf(x), UNCHANGED site,
         command'[x].decision = command[x].decision, command'[x].journal = command[x].journal,
         command'[x].steady => command[x].steady,
         command[x].at \in {"peek", "scan"} /\ command'[x].steady =>
           /\ Earlier(x)' \subseteq Earlier(x)
           /\ \A j \in Names : FileAt(PathOf(x), j) # Unset =>
                FileAt(PathOf(x), j)' = FileAt(PathOf(x), j)
  PROVE  SeesOK(x)'
<1>1. SUFFICES ASSUME command[x].at \in {"peek", "scan"}, command'[x].steady,
                      NEW e \in Earlier(x)'
               PROVE  /\ FileAt(PathOf(x), intent[e])' = e
                      /\ command[x].at = "scan" => intent'[e] # command[x].journal
  BY DEF SeesOK
<1>2. e \in Earlier(x) /\ e \in Decisions /\ intent[e] # Unset /\ intent[e] \in Names
  BY <1>1 DEF Earlier, DeclareInv, RosterType, StorageType, BooksType
<1>3. intent'[e] = intent[e]
  BY <1>2
<1>4. /\ FileAt(PathOf(x), intent[e]) = e
      /\ command[x].at = "scan" => intent[e] # command[x].journal
  BY <1>1, <1>2 DEF SeesOK
<1>5. FileAt(PathOf(x), intent[e])' = e
  <2>1. \A j \in Names : FileAt(PathOf(x), j) = e => FileAt(PathOf(x), j)' = e
    BY <1>1, <1>2
  <2> QED
    BY <1>2, <1>3, <1>4, <2>1 DEF FileAt, Exists, Volume
<1> QED
  BY <1>3, <1>4, <1>5

\* What one command's step leaves of what the others see.
LEMMA CountOthers ==
  ASSUME RosterType, LockInv, DeclareInv, CountInv, NEW c \in Commands, CommandStep(c),
         NEW x \in Commands, x # c
  PROVE  SeesOK(x)' /\ CountOK(x)'
<1>1. command'[x] = command[x] /\ SeesOK(x) /\ CountOK(x)
  BY StepMoves DEF Moved, CountInv
<1>2. UNCHANGED <<site, configured>>
  BY DEF CommandStep, Bind, PersistFirstEver, OpenRuntime, VerifyIntents, PeekBinding,
     ScanHistory,
     LockRoster, RecordJournals, DeclareIntent, CreateJournal, TakeRuntime, SearchJournals,
     ReleaseDecision, Stop, bindings, record
<1>3. ASSUME command[x].at \in {"peek", "scan"}
      PROVE  Earlier(x)' \subseteq Earlier(x)
  <2>1. CASE CreateJournal(c)
    <3>1. Home[DecisionOf(c)] # Home[DecisionOf(x)]
      BY <1>3, <2>1, LockExcludes DEF CreateJournal, At, Holding, Searching
    <3>2. bound' = bound \cup {DecisionOf(c)}
      BY <2>1 DEF CreateJournal
    <3> QED
      BY <1>1, <1>2, <3>1, <3>2 DEF Earlier, Home, DecisionOf
  <2>2. CASE ~CreateJournal(c)
    <3>1. UNCHANGED bound
      BY <2>2 DEF CommandStep, Bind, PersistFirstEver, OpenRuntime, VerifyIntents, PeekBinding,
         ScanHistory, LockRoster, RecordJournals, DeclareIntent, TakeRuntime, SearchJournals,
         ReleaseDecision, Stop, record
    <3> QED
      BY <1>1, <1>2, <3>1 DEF Earlier, Home, DecisionOf
  <2> QED
    BY <2>1, <2>2
<1>4. ASSUME command[x].at \in {"peek", "scan"}, NEW j \in Names, FileAt(PathOf(x), j) # Unset
      PROVE  FileAt(PathOf(x), j)' = FileAt(PathOf(x), j)
  <2>1. PathOf(x) \in Paths /\ PathOf(x)' = PathOf(x)
    BY <1>1, <1>2, <1>4, EngagedFacts DEF PathOf
  <2>2. FileAt(PathOf(x), j)' = (IF shown'[PathOf(x)] # "none"
                                 THEN file'[<<PathOf(x), shown'[PathOf(x)]>>][j] ELSE Unset)
    BY <2>1 DEF FileAt, Exists, Volume
  <2>3. ASSUME NEW q \in Paths, FileAt(q, j) # Unset
        PROVE  (IF shown'[q] # "none" THEN file'[<<q, shown'[q]>>][j] ELSE Unset) = FileAt(q, j)
    <3>1. FileAt(q, j)' = FileAt(q, j)
      BY <2>3, FilesKept
    <3> QED
      BY <3>1 DEF FileAt, Exists, Volume
  <2> QED
    BY <1>4, <2>1, <2>2, <2>3
<1>5. SeesOK(x)'
  <2>1. PathOf(x)' = PathOf(x)
    BY <1>1, <1>2 DEF PathOf
  <2> QED
    BY <1>1, <1>2, <1>3, <1>4, <2>1, IntentStep, SeesKept
<1>6. CountOK(x)'
  BY <1>1, <1>2 DEF CountOK, DecisionOf, Home
<1> QED
  BY <1>5, <1>6

\* What a command's step leaves of what it sees and has missed itself, and what the
\* inventory it binds a journal to has counted.
LEMMA CountOwn ==
  ASSUME RosterType, DeclareInv, CountInv, NEW c \in Commands, CommandStep(c)
  PROVE  SeesOK(c)' /\ CountOK(c)' /\ EarlierCounted'
<1>1. Moved(c) /\ command[c] \in Process /\ SeesOK(c) /\ CountOK(c) /\ EarlierCounted
  BY StepMoves, EngagedFacts DEF CountInv
<1>2. UNCHANGED <<site, configured>>
  BY DEF CommandStep, Bind, PersistFirstEver, OpenRuntime, VerifyIntents, PeekBinding,
     ScanHistory,
     LockRoster, RecordJournals, DeclareIntent, CreateJournal, TakeRuntime, SearchJournals,
     ReleaseDecision, Stop, bindings, record
<1>3. ASSUME UNCHANGED inventory PROVE EarlierCounted'
  BY <1>1, <1>2, <1>3 DEF EarlierCounted, Home
<1>4. ASSUME command'[c].at \notin {"peek", "scan"} PROVE SeesOK(c)'
  BY <1>4 DEF SeesOK
<1>5. CASE VerifyIntents(c)
  <2>1. /\ command[c].at = "verify" /\ command'[c].at = "peek" /\ IntentsResolve(c)
        /\ UNCHANGED <<storage, bindings, books, record>>
    BY <1>1, <1>5 DEF VerifyIntents, At, Advance, Step, RosterType, CommandType, Process
  <2>2. PathOf(c)' = PathOf(c) /\ DecisionOf(c)' = DecisionOf(c)
    BY <1>1, <2>1 DEF PathOf, DecisionOf, Moved, Goes, bindings
  <2>3. ASSUME NEW e \in Earlier(c)' PROVE FileAt(PathOf(c), intent[e])' = e
    <3>1. /\ e \in Decisions /\ e # DecisionOf(c) /\ Home[e] = Home[DecisionOf(c)]
          /\ intent[e] # Unset
      BY <2>1, <2>2 DEF Earlier, DeclareInv, Home, record, RosterType, StorageType
    <3>2. FileAt(PathOf(c), intent[e]) = e
      BY <2>1, <3>1 DEF IntentsResolve
    <3> QED
      BY <2>1, <2>2, <3>2 DEF FileAt, Exists, Volume, storage, books
  <2>4. SeesOK(c)'
    BY <2>1, <2>3 DEF SeesOK
  <2>5. CountOK(c)'
    BY <1>1, <2>1 DEF CountOK, Moved, Goes, Searching
  <2> QED
    BY <1>3, <2>1, <2>4, <2>5 DEF record
<1>6. CASE PeekBinding(c)
  <2> DEFINE there == FileAt(PathOf(c), command[c].journal)
  <2>1. /\ command[c].at = "peek" /\ command[c].journal \in Names
        /\ command'[c].at = IF there = Unset THEN "scan" ELSE "declare"
    <3>1. command'[c] = [command[c] EXCEPT !.at = IF there = Unset THEN "scan" ELSE "declare"]
      BY <1>6 DEF PeekBinding, Advance, Step, RosterType, CommandType
    <3>2. command[c].at = "peek"
      BY <1>6 DEF PeekBinding, At
    <3>3. command[c].journal \in Names
      BY <3>2, EngagedFacts DEF Preparing, Searching
    <3> QED
      BY <1>1, <3>1, <3>2, <3>3 DEF Process
  <2>2. UNCHANGED <<storage, bindings, books, record>>
    BY <1>6 DEF PeekBinding
  <2>3. /\ PathOf(c)' = PathOf(c) /\ Earlier(c)' = Earlier(c)
        /\ command'[c].journal = command[c].journal /\ command'[c].steady = command[c].steady
        /\ command'[c].missed = {}
    BY <1>1, <2>1, <2>2 DEF PathOf, Earlier, DecisionOf, Home, Moved, Goes, Edges, bindings,
       record, CountOK, Searching
  <2>4. ASSUME command'[c].at = "scan", command'[c].steady, NEW e \in Earlier(c)'
        PROVE  FileAt(PathOf(c), intent[e])' = e /\ intent'[e] # command'[c].journal
    <3>1. FileAt(PathOf(c), intent[e]) = e /\ e \in Decisions
      BY <1>1, <2>1, <2>3, <2>4 DEF SeesOK, Earlier, RosterType, StorageType
    <3>2. there = Unset
      BY <2>1, <2>4
    <3> QED
      BY <2>2, <2>3, <3>1, <3>2 DEF FileAt, Exists, Volume, storage, books
  <2>5. SeesOK(c)'
    BY <2>1, <2>4 DEF SeesOK
  <2>6. CountOK(c)'
    BY <2>3 DEF CountOK
  <2> QED
    BY <1>3, <2>2, <2>5, <2>6 DEF record
<1>7. CASE ScanHistory(c)
  <2> DEFINE found == Scanned(PathOf(c), {command[c].journal})
  <2>1. /\ command[c].at = "scan" /\ command'[c].at = "lock"
        /\ command'[c].missed = bound \ {FileAt(PathOf(c), j) : j \in found}
        /\ command'[c].steady = command[c].steady /\ command'[c].decision = command[c].decision
        /\ UNCHANGED <<site, inventory>>
    BY <1>1, <1>7 DEF ScanHistory, At, Step, RosterType, CommandType, Process, record
  <2>2. ASSUME command[c].steady, NEW e \in command'[c].missed \ {DecisionOf(c)},
               Home[e] = Home[DecisionOf(c)]
        PROVE  FALSE
    <3>1. e \in Earlier(c) /\ intent[e] \in Names /\ e \in Decisions
      BY <2>1, <2>2 DEF Earlier, DeclareInv, RosterType, StorageType, BooksType
    <3>2. FileAt(PathOf(c), intent[e]) = e /\ intent[e] # command[c].journal
      BY <1>1, <2>1, <2>2, <3>1 DEF SeesOK
    <3>3. intent[e] \in found
      BY <3>1, <3>2 DEF Scanned, FilesAt
    <3> QED
      BY <2>1, <2>2, <3>2, <3>3
  <2>3. CountOK(c)'
    BY <2>1, <2>2 DEF CountOK, DecisionOf, Home, Searching
  <2> QED
    BY <1>3, <1>4, <2>1, <2>3
<1>8. CASE CreateJournal(c)
  <2>1. command[c].at = "create" /\ command'[c].at = "idle" /\ DecisionOf(c) \in Decisions
    BY <1>8, EngagedFacts DEF CreateJournal, At, Step, Idle, RosterType, CommandType
  <2>2. \/ UNCHANGED inventory
        \/ inventory' = [inventory EXCEPT ![DecisionOf(c)] =
                           [missed |-> command[c].missed, steady |-> command[c].steady]]
    BY <1>8 DEF CreateJournal
  <2>3. EarlierCounted'
    <3>1. CASE UNCHANGED inventory
      BY <1>3, <3>1
    <3>2. CASE inventory' = [inventory EXCEPT ![DecisionOf(c)] =
                               [missed |-> command[c].missed, steady |-> command[c].steady]]
      <4>1. command[c].steady => \A e \in command[c].missed \ {DecisionOf(c)} :
                                   Home[e] # Home[DecisionOf(c)]
        BY <1>1, <2>1 DEF CountOK
      <4>2. ASSUME NEW d \in Decisions, inventory'[d].steady, NEW e \in inventory'[d].missed \ {d}
            PROVE  Home[e] # Home[d]
        <5>1. CASE d = DecisionOf(c)
          BY <2>1, <3>2, <4>1, <4>2, <5>1 DEF RosterType, StorageType
        <5>2. CASE d # DecisionOf(c)
          BY <1>1, <3>2, <4>2, <5>2 DEF EarlierCounted
        <5> QED
          BY <5>1, <5>2
      <4> QED
        BY <1>2, <4>2 DEF EarlierCounted, Home
    <3> QED
      BY <2>2, <3>1, <3>2
  <2>4. CountOK(c)'
    BY <2>1 DEF CountOK, Searching
  <2> QED
    BY <1>4, <2>1, <2>3, <2>4
<1>9. CASE \/ Bind(c) \/ PersistFirstEver(c) \/ OpenRuntime(c) \/ LockRoster(c)
           \/ RecordJournals(c) \/ DeclareIntent(c) \/ TakeRuntime(c) \/ SearchJournals(c)
           \/ ReleaseDecision(c) \/ Stop(c)
  <2>1. UNCHANGED inventory
    BY <1>9 DEF Bind, PersistFirstEver, OpenRuntime, LockRoster, RecordJournals, DeclareIntent,
       TakeRuntime, SearchJournals, ReleaseDecision, Stop, record
  <2>2. CASE command'[c].at = "idle"
    BY <1>3, <1>4, <2>1, <2>2 DEF CountOK, Searching
  <2>3. CASE Goes(command[c], command'[c]) /\ command'[c].at # "idle"
    <3>1. <<command[c].at, command'[c].at>> \in Edges
          /\ command[c].at \notin {"verify", "peek", "scan"}
      <4>1. command[c].at \notin {"verify", "peek", "scan"} \/ Stop(c)
        BY <1>9 DEF Bind, PersistFirstEver, OpenRuntime, LockRoster, RecordJournals,
           DeclareIntent,
           TakeRuntime, SearchJournals, ReleaseDecision, At
      <4>2. ~Stop(c)
        BY <2>3 DEF Stop, Step, Idle, RosterType, CommandType
      <4> QED
        BY <2>3, <4>1, <4>2 DEF Goes
    <3>2. command'[c].at \notin {"peek", "scan"}
      BY <3>1 DEF Edges
    <3>3. CountOK(c)'
      BY <1>1, <1>2, <2>3, <3>1 DEF CountOK, Goes, Edges, Searching, DecisionOf, Home
    <3> QED
      BY <1>3, <1>4, <2>1, <3>2, <3>3
  <2> QED
    BY <1>1, <2>2, <2>3 DEF Moved
<1> QED
  BY <1>5, <1>6, <1>7, <1>8, <1>9 DEF CommandStep

LEMMA CountNext ==
  ASSUME RosterType, LockInv, DeclareInv, CountInv, [RosterNext]_rosterVars
  PROVE  CountInv'
<1>1. ASSUME NEW c \in Commands, CommandStep(c) PROVE CountInv'
  <2>1. \A x \in Commands \ {c} : SeesOK(x)' /\ CountOK(x)'
    BY <1>1, CountOthers
  <2>2. SeesOK(c)' /\ CountOK(c)' /\ EarlierCounted'
    BY <1>1, CountOwn
  <2> QED
    BY <2>1, <2>2 DEF CountInv
<1>2. ASSUME NEW c \in Commands, Begins(c, "bind") \/ Begins(c, "take"),
             \A p \in Paths : Exists(p) => shown'[p] = shown[p]
      PROVE  CountInv'
  <2>1. UNCHANGED <<file, intent, site, configured, bound, inventory>>
        /\ \A x \in Commands \ {c} : command'[x] = command[x]
    BY <1>2 DEF Begins, bindings, books
  <2>2. ASSUME NEW x \in Commands, x # c PROVE SeesOK(x)' /\ CountOK(x)'
    <3>1. SeesOK(x) /\ CountOK(x) /\ command'[x] = command[x]
      BY <2>1, <2>2 DEF CountInv
    <3>2. PathOf(x)' = PathOf(x) /\ Earlier(x)' = Earlier(x)
      BY <2>1, <3>1 DEF PathOf, Earlier, DecisionOf, Home
    <3>3. ASSUME command[x].at \in {"peek", "scan"}, NEW j \in Names, FileAt(PathOf(x), j) # Unset
          PROVE  FileAt(PathOf(x), j)' = FileAt(PathOf(x), j)
      <4>1. PathOf(x) \in Paths /\ Exists(PathOf(x))
        BY <3>3, EngagedFacts, FileFacts DEF RosterType
      <4>2. shown'[PathOf(x)] = shown[PathOf(x)]
        BY <1>2, <4>1
      <4> QED
        BY <2>1, <3>2, <4>2 DEF FileAt, Exists, Volume
    <3>4. SeesOK(x)'
      BY <2>1, <3>1, <3>2, <3>3, SeesKept
    <3> QED
      BY <2>1, <3>1, <3>4 DEF CountOK, DecisionOf, Home
  <2>3. SeesOK(c)' /\ CountOK(c)'
    BY <1>2 DEF Begins, SeesOK, CountOK, Searching
  <2> QED
    BY <2>1, <2>2, <2>3 DEF CountInv, EarlierCounted, Home
<1>3. ASSUME NEW p \in Paths, Disturbs(p) PROVE CountInv'
  <2>1. UNCHANGED <<intent, site, configured, bound, inventory>>
    BY <1>3 DEF Disturbs, bindings, books
  <2>2. ASSUME NEW x \in Commands PROVE SeesOK(x)' /\ CountOK(x)'
    <3>1. /\ SeesOK(x) /\ CountOK(x)
          /\ command'[x].at = command[x].at /\ command'[x].decision = command[x].decision
          /\ command'[x].journal = command[x].journal /\ command'[x].missed = command[x].missed
          /\ command'[x].steady => command[x].steady
          /\ command[x].at \in {"peek", "scan"} /\ PathOf(x) = p => ~command'[x].steady
          /\ command'[x].config = command[x].config
      BY <1>3 DEF Disturbs, CountInv
    <3>2. PathOf(x)' = PathOf(x) /\ Earlier(x)' = Earlier(x)
      BY <2>1, <3>1 DEF PathOf, Earlier, DecisionOf, Home
    <3>3. ASSUME command[x].at \in {"peek", "scan"}, command'[x].steady,
                 NEW j \in Names, FileAt(PathOf(x), j) # Unset
          PROVE  FileAt(PathOf(x), j)' = FileAt(PathOf(x), j)
      <4>1. PathOf(x) \in Paths \ {p} /\ Exists(PathOf(x))
        BY <3>1, <3>3, EngagedFacts, FileFacts DEF RosterType
      <4>2. /\ shown'[PathOf(x)] = shown[PathOf(x)]
            /\ \A w \in {"kept", "stub"} : file'[<<PathOf(x), w>>] = file[<<PathOf(x), w>>]
        BY <1>3, <4>1 DEF Disturbs
      <4>3. shown[PathOf(x)] \in {"kept", "stub"}
        BY <4>1 DEF Exists, RosterType, StorageType
      <4> QED
        BY <3>2, <4>2, <4>3 DEF FileAt, Exists, Volume
    <3>4. SeesOK(x)'
      BY <2>1, <3>1, <3>2, <3>3, SeesKept
    <3> QED
      BY <2>1, <3>1, <3>4 DEF CountOK, DecisionOf, Home
  <2> QED
    BY <2>1, <2>2 DEF CountInv, EarlierCounted, Home
<1>4. ASSUME UNCHANGED <<shown, file, intent, site, bound, inventory, command>>,
             \A x \in Commands : PathOf(x)' = PathOf(x)
      PROVE  CountInv'
  <2>1. ASSUME NEW x \in Commands PROVE SeesOK(x)'
    <3>1. PathOf(x)' = PathOf(x) /\ Earlier(x)' = Earlier(x) /\ SeesOK(x)
      BY <1>4 DEF Earlier, DecisionOf, Home, CountInv
    <3>2. \A j \in Names : FileAt(PathOf(x), j)' = FileAt(PathOf(x), j)
      BY <1>4, <3>1 DEF FileAt, Exists, Volume
    <3> QED
      BY <1>4, <3>1, <3>2, SeesKept
  <2> QED
    BY <1>4, <2>1 DEF CountInv, CountOK, EarlierCounted, DecisionOf, Home
<1>5. ASSUME NEW d \in Decisions, Conclude(d) PROVE CountInv'
  BY <1>4, <1>5 DEF Conclude, storage, bindings, record, PathOf
<1>6. ASSUME NEW k \in Configs, NEW p \in Paths, EditConfig(k, p) PROVE CountInv'
  <2>1. /\ configured' = [configured EXCEPT ![k] = p]
        /\ \A x \in Commands : command[x].config # k
        /\ UNCHANGED <<shown, file, intent, site, bound, inventory, command>>
    BY <1>6 DEF EditConfig, storage, books
  <2>2. \A x \in Commands : PathOf(x)' = PathOf(x)
    BY <2>1 DEF PathOf
  <2> QED
    BY <1>4, <2>1, <2>2
<1>7. CASE UNCHANGED rosterVars
  BY <1>4, <1>7 DEF rosterVars, storage, bindings, books, record, PathOf
<1>8. CASE RosterNext
  <2>1. ASSUME NEW c \in Commands, NEW k \in Configs, NEW d \in Decisions, NEW j \in Names,
               BeginPrepare(c, k, d, j)
        PROVE  CountInv'
    BY <1>2, <2>1, BeginMoves
  <2>2. ASSUME NEW c \in Commands, NEW k \in Configs, NEW r \in Runtimes, BeginRelease(c, k, r)
        PROVE  CountInv'
    <3>1. Begins(c, "take") /\ UNCHANGED shown
      BY <2>2, BeginMoves
    <3> QED
      BY <1>2, <3>1
  <2> QED
    BY <1>1, <1>3, <1>5, <1>6, <1>8, <2>1, <2>2, NextCases
<1> QED
  BY <1>7, <1>8

-----------------------------------------------------------------------------
(* The theorems about the roster *)

RosterInv == RosterType /\ BoundInv /\ LockInv /\ DeclareInv /\ CountInv

LEMMA InitInv == RosterInit => RosterInv
<1>1. ASSUME RosterInit PROVE \A c \in Commands : command[c] = Idle
  BY <1>1 DEF RosterInit
<1>2. RosterInit => BoundInv /\ LockInv /\ DeclareInv /\ CountInv
  BY <1>1 DEF RosterInit, Idle, BoundInv, BoundOK, Bound, Searching, LockInv, LockOK, Holding,
     DeclareInv, DeclaredOK, CountInv, SeesOK, CountOK, EarlierCounted, Uncounted
<1> QED
  BY <1>2, InitType DEF RosterInv

LEMMA InvStep == RosterInv /\ [RosterNext]_rosterVars => RosterInv'
<1> SUFFICES ASSUME RosterInv, [RosterNext]_rosterVars PROVE RosterInv'
  OBVIOUS
<1>1. RosterType'
  <2>1. CASE UNCHANGED rosterVars
    BY <2>1 DEF rosterVars, storage, bindings, books, record, RosterInv, RosterType,
       StorageType,
       BooksType, CommandType
  <2> QED
    BY <2>1, TypeStep DEF RosterInv
<1> QED
  BY <1>1, BoundNext, LockNext, DeclareNext, CountNext DEF RosterInv

LEMMA InvHolds == RosterSpec => []RosterInv
BY InitInv, InvStep, PTL DEF RosterSpec

\* The binding of an operational config never changes its directory once it has one and
\* forgets no journal a scan recorded, whichever of any number of prepares writes it
\* last (record_validated_history_journals, in src/src/bin/hype-live-probe.rs).
THEOREM BindingsGrow == RosterSpec => RosterGrows
<1>1. RosterInv /\ [RosterNext]_rosterVars =>
        [ \A k \in Configs :
            /\ roster[k].path # Unset => roster'[k].path = roster[k].path
            /\ roster[k].recorded \subseteq roster'[k].recorded ]_rosterVars
  BY RosterStep DEF RosterInv
<1> QED
  BY <1>1, InvHolds, PTL DEF RosterSpec, RosterGrows

\* A decision that release settled because no journal binds it never had a journal:
\* what is declared is declared before it is created, and release refuses it
\* (record_live_journal_intent in runtime.rs, release in hype-live-probe.rs).
THEOREM ReleasedHadNone == RosterSpec => []ReleasedUnbound
<1>1. RosterInv => ReleasedUnbound
  BY DEF RosterInv, DeclareInv, ReleasedUnbound
<1> QED
  BY <1>1, InvHolds, PTL

\* Every new journal is bound to an inventory that counted the journals of the other
\* decisions of its runtime, unless storage changed while they were looked for
\* (verify_recorded_journal_intents in live_decision.rs).
THEOREM InventoryComplete == RosterSpec => []EarlierCounted
<1>1. RosterInv => EarlierCounted
  BY DEF RosterInv, CountInv
<1> QED
  BY <1>1, InvHolds, PTL

-----------------------------------------------------------------------------
(* The signal: its invariant *)

Boundaries == {Boundary(date) : date \in Nat}

\* A snapshot that was built: of a book fresh at its boundary and fetched no later.
Sound(s) ==
  /\ s \in Snapshots /\ s.core \in Revisions
  /\ s.decision_at \in Boundaries
  /\ s.health = "healthy" /\ s.eligible = TRUE
  /\ s.core.date = DateOf(s.decision_at)
  /\ s.core.fetched <= s.decision_at
  /\ s.decision_at - s.core.observed \in 0 .. StaleAfter - 1

\* The clock allows a boundary to have been planned for.
Near(boundary) == boundary - StaleAfter < clock

\* The file holds the snapshot of the last boundary of all that were published.
FileInv ==
  /\ clock \in Nat
  /\ \/ snapshot \in {None, Forged}
     \/ Sound(snapshot) /\ snapshot.decision_at \in published
  /\ \A b \in published :
       b \in Boundaries /\ Near(b) /\ Sound(snapshot) /\ b <= snapshot.decision_at

\* A producer at work is near its boundary; one that writes has the lock, and it has
\* seen that its boundary has no snapshot.
ProducerInv ==
  /\ DOMAIN producer = Producers
  /\ \A p \in Producers : producer[p].at # "idle" =>
       /\ producer[p].boundary \in Boundaries
       /\ Near(producer[p].boundary) /\ clock <= producer[p].boundary + Patience
       /\ producer[p].at \in {"fetch", "publish", "write"}
       /\ producer[p].at # "fetch" =>
            Sound(producer[p].built) /\ producer[p].built.decision_at = producer[p].boundary
       /\ producer[p].at = "write" =>
            snapshotLock = p /\ producer[p].boundary \notin published

\* A snapshot somebody has seen was published, and is the one in the file if the file
\* is of its boundary.
Genuine(s) ==
  /\ Sound(s) /\ s.decision_at \in published
  /\ s.decision_at = snapshot.decision_at => s = snapshot

\* What a cycle under way has read.
Read(r) == cycle[r].at = "observe" /\ cycle[r].signal # None
Seen == cited \cup {cycle[r].signal : r \in {q \in Readers : Read(q)}}

SeenInv ==
  /\ \A s \in Seen : Genuine(s)
  /\ \A s, t \in Seen : s.decision_at = t.decision_at => s = t

\* What a cycle under way knew of: nothing if it read nothing, and nothing later than
\* what it read.
CycleInv ==
  /\ DOMAIN cycle = Readers
  /\ \A r \in Readers : cycle[r].at = "observe" =>
       /\ cycle[r].published \subseteq published
       /\ \A b \in cycle[r].published :
            cycle[r].signal # None /\ b <= cycle[r].signal.decision_at

DecidedInv ==
  /\ DOMAIN decided = Readers
  /\ \A r \in Readers : \A d \in DOMAIN decided[r] :
       /\ decided[r][d].signal # None => decided[r][d].signal \in cited
       /\ decided[r][d].signal = None => ~decided[r][d].known

SignalInv == FileInv /\ ProducerInv /\ SeenInv /\ CycleInv /\ DecidedInv

-----------------------------------------------------------------------------
(* Time *)

LEMMA Constants ==
  /\ DayLength \in Nat /\ DayLength > 0
  /\ DecisionHour \in Nat /\ DecisionHour < DayLength
  /\ StaleAfter \in Nat /\ StaleAfter > 0 /\ MaxLag \in Nat /\ LastTime \in Nat
  /\ Patience \in Nat /\ Patience + StaleAfter <= DayLength
  /\ None \notin Revisions /\ None \notin Snapshots /\ None \notin Producers
BY CalendarConstants, SignalAssumption

\* A day begins at a multiple of its length and is over a length later.
LEMMA DayBounds ==
  ASSUME NEW t \in Nat
  PROVE  /\ DateOf(t) \in Nat
         /\ DayLength * DateOf(t) <= t
         /\ t < DayLength * DateOf(t) + DayLength
<1>1. DayLength \in Nat /\ DayLength > 0
  BY Constants
<1>2. \A k \in Nat : k > 0 =>
        t \div k \in Nat /\ k * (t \div k) <= t /\ t < k * (t \div k) + k
  OBVIOUS
<1> QED
  BY <1>1, <1>2 DEF DateOf

\* A boundary is a natural number, DecisionHour after its day began.
LEMMA BoundaryAt ==
  ASSUME NEW d \in Nat
  PROVE  /\ Boundary(d) \in Nat /\ Boundary(d) \in Boundaries
         /\ Boundary(d) = DayLength * d + DecisionHour
BY Constants DEF Boundary, Boundaries

LEMMA BoundariesNat == \A b \in Boundaries : b \in Nat
BY BoundaryAt DEF Boundaries

\* Two boundaries are the same or a day apart.
LEMMA DayApart ==
  ASSUME NEW a \in Boundaries, NEW b \in Boundaries, a < b
  PROVE  a + DayLength <= b
<1>1. PICK x \in Nat : a = Boundary(x)
  BY DEF Boundaries
<1>2. PICK y \in Nat : b = Boundary(y)
  BY DEF Boundaries
<1> DEFINE L == DayLength
<1>3. L \in Nat /\ a = L * x + DecisionHour /\ b = L * y + DecisionHour /\ DecisionHour \in Nat
  BY <1>1, <1>2, BoundaryAt, Constants
<1> HIDE DEF L
<1>4. x < y
  <2>1. \A i, j, k \in Nat : j <= i => k * j <= k * i
    OBVIOUS
  <2>2. L * x \in Nat /\ L * y \in Nat /\ L * x < L * y
    BY <1>3
  <2> QED
    BY <1>3, <2>1, <2>2
<1>5. L * (x + 1) <= L * y
  <2>1. \A i, j, k \in Nat : j <= i => k * j <= k * i
    OBVIOUS
  <2> QED
    BY <1>3, <1>4, <2>1
<1>6. L * (x + 1) = L * x + L
  BY <1>3
<1>7. L * x \in Nat /\ L * y \in Nat
  BY <1>3
<1> QED
  BY <1>3, <1>5, <1>6, <1>7 DEF L

\* What was published is no later than what somebody is at work on.
LEMMA InOrder ==
  ASSUME NEW a \in Boundaries, NEW b \in Boundaries, clock \in Nat,
         Near(a), clock <= b + Patience
  PROVE  a <= b
<1> SUFFICES ASSUME b < a PROVE FALSE
  BY BoundariesNat
<1>1. b + DayLength <= a
  BY DayApart
<1> QED
  BY <1>1, BoundariesNat, Constants DEF Near

\* The next boundary is the first that is not over.
LEMMA Planned ==
  ASSUME clock \in Nat
  PROVE  NextBoundary(clock) \in Boundaries /\ clock <= NextBoundary(clock)
<1> DEFINE d == DateOf(clock)
<1>1. d \in Nat /\ clock < DayLength * d + DayLength
  BY DayBounds
<1>2. CASE clock <= Boundary(d)
  BY <1>1, <1>2, BoundaryAt DEF NextBoundary
<1>3. CASE ~(clock <= Boundary(d))
  <2>1. NextBoundary(clock) = Boundary(d + 1)
    BY <1>3 DEF NextBoundary
  <2>2. Boundary(d + 1) = DayLength * (d + 1) + DecisionHour /\ Boundary(d + 1) \in Boundaries
    BY <1>1, BoundaryAt
  <2>3. DayLength * (d + 1) = DayLength * d + DayLength
    BY <1>1, Constants
  <2>4. DayLength * d \in Nat
    BY <1>1, Constants
  <2> HIDE DEF d
  <2> QED
    BY <1>1, <2>1, <2>2, <2>3, <2>4, Constants
<1> QED
  BY <1>2, <1>3

-----------------------------------------------------------------------------
(* Snapshots *)

\* What was built is valid, what was forged is not (validate_invariants).
LEMMA SoundValid == ASSUME NEW s, Sound(s) PROVE Valid(s)
<1>1. s # None /\ s.core # None /\ s.core.observed \in Int /\ s.decision_at \in Int
  BY Constants DEF Sound, Snapshots, Revisions
<1>2. s.core.observed <= s.decision_at /\ s.decision_at - s.core.observed < StaleAfter
  BY <1>1, Constants DEF Sound
<1>3. HealthAt(s.core, s.decision_at) = "healthy"
  BY <1>2 DEF HealthAt
<1> QED
  BY <1>1, <1>2, <1>3 DEF Sound, Valid, IsPast

LEMMA ForgedInvalid == ~Valid(Forged)
<1>1. Boundary(0) \in Nat
  BY BoundaryAt
<1>2. Boundary(0) - (Boundary(0) - StaleAfter) = StaleAfter
  BY <1>1, Constants
<1>3. HealthAt(Forged.core, Forged.decision_at) = "stale"
  BY <1>2, Constants DEF HealthAt, Forged
<1>4. Forged.health = "healthy"
  BY DEF Forged
<1>5. CASE Forged.core = None
  BY <1>4, <1>5 DEF Valid
<1>6. CASE Forged.core # None
  BY <1>3, <1>4, <1>6 DEF Valid
<1> QED
  BY <1>5, <1>6

\* What is valid in the file was published.
LEMMA ValidSound ==
  ASSUME FileInv, Valid(snapshot)
  PROVE  Sound(snapshot) /\ snapshot.decision_at \in published /\ snapshot # None
BY ForgedInvalid, Constants DEF FileInv, Valid, Sound

\* A book of one revision that passes the checks of build_snapshot makes a snapshot
\* that is sound.
LEMMA BuiltSound ==
  ASSUME NEW at \in Boundaries, NEW now \in Nat, NEW seen \in Int, seen <= now, now <= at,
         SnapshotOf({[date |-> DateOf(at), observed |-> seen, fetched |-> now]}, at).eligible
  PROVE  LET s == SnapshotOf({[date |-> DateOf(at), observed |-> seen, fetched |-> now]}, at)
         IN  Sound(s) /\ s.decision_at = at
<1> DEFINE rev == [date |-> DateOf(at), observed |-> seen, fetched |-> now]
           s == SnapshotOf({rev}, at)
<1>1. at \in Nat /\ DateOf(at) \in Nat
  BY BoundariesNat, DayBounds
<1>2. rev \in Revisions
  BY <1>1 DEF Revisions
<1>3. Usable({rev}, DateOf(at), at) = {rev}
  BY DEF Usable
<1>4. Selected({rev}, DateOf(at), at) = rev
  <2> DEFINE Best(r) == \A q \in {rev} :
                q.fetched < r.fetched \/ (q.fetched = r.fetched /\ q.observed <= r.observed)
  <2>1. rev.observed \in Int
    BY <1>2 DEF Revisions
  <2>2. Best(rev)
    BY <2>1
  <2>3. Selected({rev}, DateOf(at), at) = CHOOSE r \in {rev} : Best(r)
    BY <1>3 DEF Selected
  <2> HIDE DEF Best, rev
  <2>4. \E r \in {rev} : Best(r)
    BY <2>2
  <2>5. (CHOOSE r \in {rev} : Best(r)) \in {rev}
    BY <2>4, Zenon
  <2> QED
    BY <2>3, <2>5
<1>5. CoreHealth({rev}, at) = HealthAt(rev, at)
  <2>1. IsPast(at, rev.observed)
    BY <1>1 DEF IsPast
  <2> HIDE DEF rev
  <2> QED
    BY <1>3, <1>4, <2>1 DEF CoreHealth
<1>6. HealthAt(rev, at) = "healthy" /\ at - seen < StaleAfter
  BY <1>5 DEF SnapshotOf, HealthAt
<1>7. s = [decision_at |-> at, health |-> "healthy", core |-> rev, eligible |-> TRUE]
  BY <1>4, <1>5, <1>6 DEF SnapshotOf
<1> HIDE DEF s, rev
<1>8. s \in Snapshots
  BY <1>1, <1>2, <1>7 DEF Snapshots
<1>9. at - seen \in 0 .. StaleAfter - 1
  BY <1>1, <1>6, Constants
<1>10. Sound(s)
  BY <1>1, <1>2, <1>7, <1>8, <1>9 DEF Sound, rev
<1> QED
  BY <1>7, <1>10 DEF s, rev

-----------------------------------------------------------------------------
(* The initial states, and every step *)

LEMMA InitHolds == SignalInit => SignalInv
<1> SUFFICES ASSUME SignalInit PROVE SignalInv
  OBVIOUS
<1>1. FileInv
  BY DEF SignalInit, FileInv
<1>2. ProducerInv
  BY DEF SignalInit, ProducerInv, IdleProducer
<1>3. SeenInv
  BY DEF SignalInit, SeenInv, Seen, Read, IdleCycle
<1>4. CycleInv
  BY DEF SignalInit, CycleInv, IdleCycle
<1>5. DecidedInv
  BY DEF SignalInit, DecidedInv
<1> QED
  BY <1>1, <1>2, <1>3, <1>4, <1>5 DEF SignalInv

\* What is seen or decided depends on the file and the readers alone.
LEMMA ReadersKept ==
  ASSUME SignalInv, UNCHANGED <<snapshot, published, cited, reading>>
  PROVE  SeenInv' /\ CycleInv' /\ DecidedInv'
<1>1. SeenInv'
  BY DEF SignalInv, SeenInv, Seen, Read, Genuine, Sound, reading
<1>2. CycleInv'
  BY DEF SignalInv, CycleInv, reading
<1>3. DecidedInv'
  BY DEF SignalInv, DecidedInv, reading
<1> QED
  BY <1>1, <1>2, <1>3

LEMMA FileKept ==
  ASSUME FileInv, UNCHANGED <<clock, snapshot, published>>
  PROVE  FileInv'
BY DEF FileInv, Sound, Near

\* A producer that takes a step disturbs no other, as long as it takes no lock from it.
LEMMA ProducerMoves ==
  ASSUME SignalInv, NEW p \in Producers, NEW u, Turn(p, u),
         UNCHANGED <<clock, published>>,
         \A q \in Producers \ {p} : snapshotLock = q => snapshotLock' = q,
         u.at # "idle" =>
           /\ u.boundary \in Boundaries
           /\ Near(u.boundary) /\ clock <= u.boundary + Patience
           /\ u.at \in {"fetch", "publish", "write"}
           /\ u.at # "fetch" => Sound(u.built) /\ u.built.decision_at = u.boundary
           /\ u.at = "write" => snapshotLock' = p /\ u.boundary \notin published
  PROVE  ProducerInv'
<1>1. DOMAIN producer' = Producers /\ producer'[p] = u
      /\ \A q \in Producers \ {p} : producer'[q] = producer[q]
  BY DEF SignalInv, ProducerInv, Turn
<1>2. ASSUME NEW q \in Producers, producer'[q].at # "idle"
      PROVE  /\ producer'[q].boundary \in Boundaries
             /\ Near(producer'[q].boundary) /\ clock <= producer'[q].boundary + Patience
             /\ producer'[q].at \in {"fetch", "publish", "write"}
             /\ producer'[q].at # "fetch" =>
                  /\ Sound(producer'[q].built)
                  /\ producer'[q].built.decision_at = producer'[q].boundary
             /\ producer'[q].at = "write" =>
                  snapshotLock' = q /\ producer'[q].boundary \notin published
  <2>1. CASE q = p
    BY <1>1, <1>2, <2>1
  <2>2. CASE q # p
    BY <1>1, <1>2, <2>2 DEF SignalInv, ProducerInv
  <2> QED
    BY <2>1, <2>2
<1> QED
  BY <1>1, <1>2 DEF ProducerInv, Near

\* A boundary that is planned for is near.
LEMMA PlanStep == ASSUME SignalInv, NEW p \in Producers, PlanSnapshot(p) PROVE SignalInv'
<1> DEFINE b == NextBoundary(clock)
           u == [at |-> "fetch", boundary |-> b, built |-> None]
<1>1. clock \in Nat
  BY DEF SignalInv, FileInv
<1>2. b \in Boundaries /\ clock <= b /\ b \in Nat
  BY <1>1, Planned, BoundariesNat
<1>3. b - clock < StaleAfter
  BY DEF PlanSnapshot
<1>4. Near(b) /\ clock <= b + Patience
  BY <1>1, <1>2, <1>3, Constants DEF Near
<1>5. Turn(p, u) /\ UNCHANGED <<clock, snapshot, snapshotLock, published, cited, reading>>
  BY DEF PlanSnapshot
<1> HIDE DEF b
<1>6. ProducerInv'
  BY <1>2, <1>4, <1>5, ProducerMoves
<1> QED
  BY <1>5, <1>6, FileKept, ReadersKept DEF SignalInv

\* What passes the checks of a build is sound.
LEMMA BuildStep == ASSUME SignalInv, NEW p \in Producers, BuildSnapshot(p) PROVE SignalInv'
<1> DEFINE at == producer[p].boundary
           Built(lag) == SnapshotOf({[date |-> DateOf(at), observed |-> clock - lag,
                                      fetched |-> clock]}, at)
<1>1. PICK lag \in -MaxLag .. MaxLag :
        /\ producer[p].at = "fetch"
        /\ Turn(p, IF lag < 0 \/ clock > at \/ ~Built(lag).eligible THEN IdleProducer
                   ELSE [producer[p] EXCEPT !.at = "publish", !.built = Built(lag)])
        /\ UNCHANGED <<clock, snapshot, snapshotLock, published, cited, reading>>
  BY DEF BuildSnapshot
<1>2. clock \in Nat /\ at \in Boundaries /\ at \in Nat /\ Near(at) /\ clock <= at + Patience
  BY <1>1, BoundariesNat DEF SignalInv, FileInv, ProducerInv
<1>3. CASE lag < 0 \/ clock > at \/ ~Built(lag).eligible
  <2>1. Turn(p, IdleProducer)
    BY <1>1, <1>3
  <2>2. ProducerInv'
    BY <1>1, <2>1, ProducerMoves DEF IdleProducer
  <2> QED
    BY <1>1, <2>2, FileKept, ReadersKept DEF SignalInv
<1>4. CASE ~(lag < 0 \/ clock > at \/ ~Built(lag).eligible)
  <2>1. Sound(Built(lag)) /\ Built(lag).decision_at = at
    <3>1. lag \in Int /\ lag >= 0 /\ clock <= at /\ Built(lag).eligible
      BY <1>1, <1>2, <1>4, Constants
    <3>2. clock - lag \in Int /\ clock - lag <= clock
      BY <1>2, <3>1
    <3> HIDE DEF at
    <3> QED
      BY <1>2, <3>1, <3>2, BuiltSound
  <2> DEFINE u == [producer[p] EXCEPT !.at = "publish", !.built = Built(lag)]
  <2>2. Turn(p, u)
    BY <1>1, <1>4
  <2> HIDE DEF Built
  <2>3. u.at = "publish" /\ u.boundary = at /\ u.built = Built(lag)
    BY <1>1
  <2> HIDE DEF u, at
  <2>4. ProducerInv'
    BY <1>1, <1>2, <2>1, <2>2, <2>3, ProducerMoves
  <2> QED
    BY <1>1, <2>4, FileKept, ReadersKept DEF SignalInv
<1> QED
  BY <1>3, <1>4

\* Who takes the lock to write has seen that the file is not of its boundary; no
\* later boundary is published, and so none that is equal.
LEMMA SignalLockStep == ASSUME SignalInv, NEW p \in Producers, LockSnapshot(p) PROVE SignalInv'
<1> DEFINE b == producer[p].boundary
<1>1. /\ producer[p].at = "publish" /\ snapshotLock = None
      /\ UNCHANGED <<clock, snapshot, published, cited, reading>>
  BY DEF LockSnapshot
<1>2. /\ clock \in Nat /\ b \in Boundaries /\ Near(b) /\ clock <= b + Patience
      /\ Sound(producer[p].built) /\ producer[p].built.decision_at = b
  BY <1>1 DEF SignalInv, FileInv, ProducerInv
<1>3. CASE Valid(snapshot) /\ snapshot.decision_at = b
  <2>1. Turn(p, IdleProducer) /\ UNCHANGED snapshotLock
    BY <1>3 DEF LockSnapshot
  <2>2. ProducerInv'
    BY <1>1, <2>1, ProducerMoves DEF IdleProducer
  <2> QED
    BY <1>1, <2>2, FileKept, ReadersKept DEF SignalInv
<1>4. CASE ~(Valid(snapshot) /\ snapshot.decision_at = b)
  <2> DEFINE u == [producer[p] EXCEPT !.at = "write"]
  <2>1. Turn(p, u) /\ snapshotLock' = p
    BY <1>4 DEF LockSnapshot
  <2>2. b \notin published
    <3> SUFFICES ASSUME b \in published PROVE FALSE
      OBVIOUS
    <3>1. Sound(snapshot) /\ b <= snapshot.decision_at
      BY DEF SignalInv, FileInv
    <3>2. Valid(snapshot)
      BY <3>1, SoundValid
    <3>3. snapshot.decision_at \in published
      BY <3>2, ValidSound DEF SignalInv
    <3>4. snapshot.decision_at \in Boundaries /\ Near(snapshot.decision_at)
      BY <3>3 DEF SignalInv, FileInv
    <3>5. snapshot.decision_at <= b
      BY <1>2, <3>4, InOrder
    <3> QED
      BY <1>2, <1>4, <3>1, <3>2, <3>4, <3>5, BoundariesNat
  <2>3. u.at = "write" /\ u.boundary = b /\ u.built = producer[p].built
    BY <1>1 DEF SignalInv, ProducerInv
  <2>4. \A q \in Producers \ {p} : snapshotLock = q => snapshotLock' = q
    BY <1>1, Constants
  <2> HIDE DEF u, b
  <2>5. ProducerInv'
    BY <1>1, <1>2, <2>1, <2>2, <2>3, <2>4, ProducerMoves
  <2> QED
    BY <1>1, <2>5, FileKept, ReadersKept DEF SignalInv
<1> QED
  BY <1>3, <1>4

\* The snapshot written is of a boundary that nobody published and that is no earlier
\* than any that was: what was seen before stays what it was.
LEMMA WriteStep == ASSUME SignalInv, NEW p \in Producers, WriteSnapshot(p) PROVE SignalInv'
<1> DEFINE b == producer[p].boundary
           s == producer[p].built
<1>1. /\ producer[p].at = "write" /\ snapshot' = s /\ published' = published \cup {b}
      /\ snapshotLock' = None /\ Turn(p, IdleProducer) /\ UNCHANGED <<clock, cited, reading>>
  BY DEF WriteSnapshot
<1>2. /\ clock \in Nat /\ b \in Boundaries /\ Near(b) /\ clock <= b + Patience
      /\ Sound(s) /\ s.decision_at = b /\ snapshotLock = p /\ b \notin published
  BY <1>1 DEF SignalInv, FileInv, ProducerInv
<1>3. \A c \in published : c \in Boundaries /\ Near(c) /\ c <= b
  BY <1>2, InOrder DEF SignalInv, FileInv
<1>4. FileInv'
  BY <1>1, <1>2, <1>3, BoundariesNat DEF FileInv, Near, Sound
<1>5. ProducerInv'
  <2>1. \A q \in Producers : q # p => producer[q].at # "write" /\ producer'[q] = producer[q]
    BY <1>1, <1>2 DEF SignalInv, ProducerInv, Turn
  <2>2. DOMAIN producer' = Producers /\ producer'[p] = IdleProducer
    BY <1>1 DEF SignalInv, ProducerInv, Turn
  <2> QED
    BY <1>1, <2>1, <2>2 DEF SignalInv, ProducerInv, IdleProducer, Near, Sound
<1>6. Seen' = Seen
  BY <1>1 DEF Seen, Read, reading
<1>7. SeenInv'
  <2>1. \A x \in Seen : Sound(x) /\ x.decision_at \in published /\ x.decision_at # b
    BY <1>2 DEF SignalInv, SeenInv, Genuine
  <2>2. \A x \in Seen : Genuine(x)'
    BY <1>1, <1>2, <2>1 DEF Genuine, Sound
  <2> QED
    BY <1>6, <2>2 DEF SignalInv, SeenInv
<1>8. CycleInv'
  BY <1>1 DEF SignalInv, CycleInv, reading
<1>9. DecidedInv'
  BY <1>1 DEF SignalInv, DecidedInv, reading
<1> QED
  BY <1>4, <1>5, <1>7, <1>8, <1>9 DEF SignalInv

LEMMA StopStep == ASSUME SignalInv, NEW p \in Producers, StopProducer(p) PROVE SignalInv'
<1>1. Turn(p, IdleProducer) /\ UNCHANGED <<clock, snapshot, published, cited, reading>>
  BY DEF StopProducer
<1>2. \A q \in Producers \ {p} : snapshotLock = q => snapshotLock' = q
  BY DEF StopProducer
<1>3. ProducerInv'
  BY <1>1, <1>2, ProducerMoves DEF IdleProducer
<1> QED
  BY <1>1, <1>3, FileKept, ReadersKept DEF SignalInv

-----------------------------------------------------------------------------
(* Readers *)

\* The files and their producers do not notice a reader.
LEMMA FeedKept ==
  ASSUME SignalInv, UNCHANGED <<clock, feed>>
  PROVE  FileInv' /\ ProducerInv'
<1>1. FileInv'
  BY FileKept DEF SignalInv, feed
<1>2. ProducerInv'
  BY DEF SignalInv, ProducerInv, Near, Sound, feed
<1> QED
  BY <1>1, <1>2

\* Who cites or reads no more than was seen keeps what is said of the seen.
LEMMA SeenKept ==
  ASSUME SignalInv, UNCHANGED feed, Seen' \subseteq Seen
  PROVE  SeenInv'
BY DEF SignalInv, SeenInv, Genuine, Sound, feed

\* The file, once valid, is seen by whoever reads it next.
LEMMA FileGenuine ==
  ASSUME SignalInv, Valid(snapshot)
  PROVE  /\ Genuine(snapshot)
         /\ \A t \in Seen : snapshot.decision_at = t.decision_at => snapshot = t
<1>1. Genuine(snapshot)
  BY ValidSound DEF SignalInv, Genuine
<1> QED
  BY <1>1 DEF SignalInv, SeenInv, Genuine

LEMMA SeenOneMore ==
  ASSUME SignalInv, UNCHANGED feed, Valid(snapshot), Seen' \subseteq Seen \cup {snapshot}
  PROVE  SeenInv'
<1>1. \A s \in Seen \cup {snapshot} : Genuine(s)
  BY FileGenuine DEF SignalInv, SeenInv
<1>2. \A s, t \in Seen \cup {snapshot} : s.decision_at = t.decision_at => s = t
  BY FileGenuine DEF SignalInv, SeenInv
<1>3. \A s \in Seen' : Genuine(s)'
  BY <1>1 DEF Genuine, Sound, feed
<1> QED
  BY <1>2, <1>3 DEF SeenInv

\* What a cycle reads is the file, with all that was published before it.
LEMMA BeginStep == ASSUME SignalInv, NEW r \in Readers, BeginCycle(r) PROVE SignalInv'
<1> DEFINE read == IF Valid(snapshot) THEN snapshot ELSE None
           c == [at |-> "observe", signal |-> read, published |-> published]
<1>1. /\ cycle' = [cycle EXCEPT ![r] = c] /\ UNCHANGED <<clock, feed, decided, cited>>
  BY DEF BeginCycle
<1>2. /\ DOMAIN cycle' = Readers /\ cycle'[r] = c
      /\ \A q \in Readers \ {r} : cycle'[q] = cycle[q]
  BY <1>1 DEF SignalInv, CycleInv
<1>3. SeenInv'
  <2>1. CASE Valid(snapshot)
    <3>1. Seen' \subseteq Seen \cup {snapshot}
      BY <1>1, <1>2, <2>1 DEF Seen, Read
    <3> QED
      BY <1>1, <2>1, <3>1, SeenOneMore
  <2>2. CASE ~Valid(snapshot)
    <3>1. Seen' \subseteq Seen
      BY <1>1, <1>2, <2>2 DEF Seen, Read
    <3> QED
      BY <1>1, <3>1, SeenKept
  <2> QED
    BY <2>1, <2>2
<1>4. CycleInv'
  <2>1. \A b \in published : read # None /\ b <= read.decision_at
    BY SoundValid, Constants DEF SignalInv, FileInv, Sound
  <2>2. c.published = published /\ c.signal = read
    OBVIOUS
  <2>3. published' = published
    BY <1>1 DEF feed
  <2> HIDE DEF c, read
  <2> QED
    BY <1>2, <2>1, <2>2, <2>3 DEF SignalInv, CycleInv
<1>5. DecidedInv'
  BY <1>1 DEF SignalInv, DecidedInv
<1> QED
  BY <1>1, <1>3, <1>4, <1>5, FeedKept DEF SignalInv

\* The end of a cycle.
LEMMA CycleEnds ==
  ASSUME SignalInv, NEW r \in Readers, UNCHANGED feed,
         cycle' = [cycle EXCEPT ![r] = IdleCycle],
         cited' \subseteq Seen
  PROVE  SeenInv' /\ CycleInv'
<1>1. /\ DOMAIN cycle' = Readers /\ cycle'[r] = IdleCycle
      /\ \A q \in Readers \ {r} : cycle'[q] = cycle[q]
  BY DEF SignalInv, CycleInv
<1>2. cycle'[r].at = "idle"
  BY <1>1 DEF IdleCycle
<1>3. Seen' \subseteq Seen
  BY <1>1, <1>2 DEF Seen, Read
<1>4. CycleInv'
  BY <1>1, <1>2 DEF SignalInv, CycleInv, feed
<1> QED
  BY <1>3, <1>4, SeenKept

\* A cycle that knew of today's snapshot read it: what it read is no earlier, and the
\* next day's is not published today.
LEMMA KnownIsRead ==
  ASSUME SignalInv, StaleAfter <= DecisionHour, NEW r \in Readers, cycle[r].at = "observe",
         Boundary(DateOf(clock)) \in cycle[r].published
  PROVE  cycle[r].signal # None /\ cycle[r].signal.decision_at = Boundary(DateOf(clock))
<1> DEFINE d == DateOf(clock)
           b == Boundary(d)
           a == cycle[r].signal.decision_at
<1>1. cycle[r].signal # None /\ b <= a
  BY DEF SignalInv, CycleInv
<1>2. Genuine(cycle[r].signal)
  BY <1>1 DEF SignalInv, SeenInv, Seen, Read
<1>3. a \in Boundaries /\ a \in Nat /\ Near(a)
  BY <1>2, BoundariesNat DEF Genuine, Sound, SignalInv, FileInv
<1>4. clock \in Nat /\ d \in Nat /\ clock < DayLength * d + DayLength
  BY DayBounds DEF SignalInv, FileInv
<1>5. b \in Boundaries /\ b \in Nat /\ b = DayLength * d + DecisionHour
  BY <1>4, BoundaryAt
<1>6. ~(b < a)
  <2> SUFFICES ASSUME b < a PROVE FALSE
    OBVIOUS
  <2>1. b + DayLength <= a
    BY <1>3, <1>5, DayApart
  <2>2. DayLength * d \in Nat
    BY <1>4, Constants
  <2>3. a < clock + StaleAfter
    BY <1>3, <1>4, Constants DEF Near
  <2> HIDE DEF a, b, d
  <2> QED
    BY <1>3, <1>4, <1>5, <2>1, <2>2, <2>3, Constants
<1>7. a = b
  BY <1>1, <1>3, <1>5, <1>6
<1> QED
  BY <1>1, <1>7

LEMMA ApplyStep ==
  ASSUME SignalInv, StaleAfter <= DecisionHour, NEW r \in Readers, ApplyCycle(r)
  PROVE  SignalInv'
<1> DEFINE date == DateOf(clock)
           boundary == Boundary(date)
           signal == DecisionSignal(r, boundary)
           entry == [signal |-> signal, known |-> boundary \in cycle[r].published]
           late == clock < boundary \/ date \in DOMAIN decided[r]
<1>1. /\ cycle[r].at = "observe" /\ cycle' = [cycle EXCEPT ![r] = IdleCycle]
      /\ UNCHANGED <<clock, feed>>
      /\ cited' = IF clock >= boundary /\ signal # None THEN cited \cup {signal} ELSE cited
  BY DEF ApplyCycle
<1>2. clock \in Nat /\ boundary \in Nat
  BY DayBounds, BoundaryAt DEF SignalInv, FileInv
<1>3. signal # None => signal = cycle[r].signal /\ signal \in Seen
  BY <1>1 DEF DecisionSignal, Seen, Read
<1>4. cited \subseteq cited' /\ cited' \subseteq Seen
  BY <1>1, <1>3 DEF Seen
<1>5. SeenInv' /\ CycleInv'
  BY <1>1, <1>4, CycleEnds
<1>6. DecidedInv'
  <2>1. CASE late
    <3>1. decided' = decided
      BY <2>1 DEF ApplyCycle
    <3> QED
      BY <1>4, <3>1 DEF SignalInv, DecidedInv
  <2>2. CASE ~late
    <3>1. decided' = [decided EXCEPT ![r] = [d \in DOMAIN @ \cup {date} |->
                        IF d # date THEN @[d] ELSE entry]]
      BY <2>2 DEF ApplyCycle
    <3>2. entry.signal # None => entry.signal \in cited'
      BY <1>1, <1>2, <2>2
    <3>3. entry.signal = None => ~entry.known
      BY <1>1, KnownIsRead DEF DecisionSignal
    <3> HIDE DEF entry, date, boundary, signal
    <3>4. /\ DOMAIN decided' = Readers /\ DOMAIN decided'[r] = DOMAIN decided[r] \cup {date}
          /\ decided'[r][date] = entry
          /\ \A d \in DOMAIN decided[r] : d # date => decided'[r][d] = decided[r][d]
          /\ \A q \in Readers \ {r} : decided'[q] = decided[q]
      BY <3>1 DEF SignalInv, DecidedInv
    <3> QED
      BY <1>4, <3>2, <3>3, <3>4 DEF SignalInv, DecidedInv
  <2> QED
    BY <2>1, <2>2
<1> QED
  BY <1>1, <1>5, <1>6, FeedKept DEF SignalInv

LEMMA StopCycleStep == ASSUME SignalInv, NEW r \in Readers, StopCycle(r) PROVE SignalInv'
<1>1. cycle' = [cycle EXCEPT ![r] = IdleCycle] /\ UNCHANGED <<clock, feed, decided, cited>>
  BY DEF StopCycle
<1>2. cited' \subseteq Seen
  BY <1>1 DEF Seen
<1>3. DecidedInv'
  BY <1>1 DEF SignalInv, DecidedInv
<1> QED
  BY <1>1, <1>2, <1>3, CycleEnds, FeedKept DEF SignalInv

LEMMA MetricsStep == ASSUME SignalInv, PublishMetrics PROVE SignalInv'
<1>1. Valid(snapshot) /\ cited' = cited \cup {snapshot} /\ UNCHANGED <<clock, feed, reading>>
  BY DEF PublishMetrics
<1>2. Seen' \subseteq Seen \cup {snapshot}
  BY <1>1 DEF Seen, Read, reading
<1>3. SeenInv'
  BY <1>1, <1>2, SeenOneMore
<1>4. CycleInv'
  BY <1>1 DEF SignalInv, CycleInv, feed, reading
<1>5. DecidedInv'
  BY <1>1 DEF SignalInv, DecidedInv, reading
<1> QED
  BY <1>1, <1>3, <1>4, <1>5, FeedKept DEF SignalInv

\* The clock leaves no producer at work too long after its boundary.
LEMMA TickStep == ASSUME SignalInv, Tick PROVE SignalInv'
<1>1. /\ clock' = clock + 1 /\ clock \in Nat /\ UNCHANGED <<feed, reading, cited>>
      /\ \A p \in Producers :
           producer[p].at # "idle" => clock < producer[p].boundary + Patience
  BY DEF Tick, SignalInv, FileInv
<1>2. \A b \in Boundaries : Near(b) => Near(b)'
  BY <1>1, BoundariesNat, Constants DEF Near
<1>3. FileInv'
  BY <1>1, <1>2 DEF SignalInv, FileInv, Sound, feed
<1>4. ProducerInv'
  <2>1. \A b \in Boundaries : clock < b + Patience => clock + 1 <= b + Patience
    BY <1>1, BoundariesNat, Constants
  <2> QED
    BY <1>1, <1>2, <2>1 DEF SignalInv, ProducerInv, Sound, feed
<1> QED
  BY <1>1, <1>3, <1>4, ReadersKept DEF SignalInv, feed

-----------------------------------------------------------------------------
LEMMA StutterStep == ASSUME SignalInv, UNCHANGED signalVars PROVE SignalInv'
<1>1. UNCHANGED <<clock, feed>> /\ UNCHANGED <<snapshot, published, cited, reading>>
  BY DEF signalVars, feed, reading
<1> QED
  BY <1>1, FeedKept, ReadersKept DEF SignalInv

LEMMA StepHolds ==
  ASSUME StaleAfter <= DecisionHour
  PROVE  SignalInv /\ [SignalNext]_signalVars => SignalInv'
<1> SUFFICES ASSUME SignalInv, [SignalNext]_signalVars PROVE SignalInv'
  OBVIOUS
<1>1. ASSUME NEW p \in Producers, ProducerStep(p) PROVE SignalInv'
  BY <1>1, PlanStep, BuildStep, SignalLockStep, WriteStep, StopStep DEF ProducerStep
<1>2. ASSUME NEW r \in Readers, BeginCycle(r) \/ ApplyCycle(r) \/ StopCycle(r)
      PROVE  SignalInv'
  BY <1>2, BeginStep, ApplyStep, StopCycleStep
<1>3. CASE PublishMetrics
  BY <1>3, MetricsStep
<1>4. CASE Tick
  BY <1>4, TickStep
<1>5. CASE UNCHANGED signalVars
  BY <1>5, StutterStep
<1> QED
  BY <1>1, <1>2, <1>3, <1>4, <1>5 DEF SignalNext

\* What was seen is sound and one for its boundary, and so is what was cited.
LEMMA OneSignalImplied == SignalInv => OneSignal
BY DEF SignalInv, SeenInv, DecidedInv, Seen, Genuine, Sound, OneSignal

\* Every decision and every metric about a boundary is made from one and the same
\* snapshot, the first published, for any number of producers and runtimes, as long as
\* the window of freshness lies within the boundary's day (publish_snapshot in
\* signal_source.rs, load_cycle_signal in main.rs, apply_cycle in runtime.rs).
THEOREM OneSignalForAll ==
  ASSUME StaleAfter <= DecisionHour
  PROVE  SignalSpec => []OneSignal
<1>1. SignalSpec => []SignalInv
  BY InitHolds, StepHolds, PTL DEF SignalSpec
<1> QED
  BY <1>1, OneSignalImplied, PTL

-----------------------------------------------------------------------------
(* The owner file *)

Committing(h) == pc[h] \in {"commit", "withdraw"}

\* A workflow under review claims nothing.
ClaimInv == \A h \in Handles : pc[h] = "claim" => ~view[h].review

\* Between its claim and the end of its commit a handle holds the lock and owns
\* its bundle, and what it inserted is not yet in its workflow's journal.
ClaimLockInv ==
  \A h \in Handles : Committing(h) =>
    /\ storeLock = {h} /\ ~view[h].review
    /\ inserted[h] \subseteq bundle[h]
    /\ \A i \in bundle[h] : owner[i] = Of[h]
    /\ \A i \in inserted[h] : i \notin journal[Of[h]].ids

\* Between the load and the reclaim, only what was loaded may lack its owner.
ReclaimInv ==
  \A h \in Handles : pc[h] = "reclaim" =>
    \A i \in journal[Of[h]].ids : i \notin view[h].ids => owner[i] = Of[h]

\* A conflict found under the lock is about a claim nobody will take back.
ConflictInv ==
  \A h \in Handles : pc[h] = "conflict" =>
    \E i \in bundle[h] \cup view[h].ids :
      /\ owner[i] \notin {Nobody, Of[h]}
      /\ \A g \in Handles : Committing(g) => i \notin inserted[g]

IInv == TypeOK /\ ClaimInv /\ ClaimLockInv /\ OpenIsOwned /\ ReclaimInv /\ ConflictInv

-----------------------------------------------------------------------------
(* Types *)

\* The invariant holds before any journal was opened.
LEMMA InitIInv == Init => IInv
<1> SUFFICES ASSUME Init PROVE IInv
  OBVIOUS
<1>1. TypeOK
  BY OwnersAssumption DEF OwnersAssumption, Init, TypeOK, Journals, PCs, Empty
<1>2. ClaimInv /\ ClaimLockInv /\ OpenIsOwned /\ ReclaimInv /\ ConflictInv
  BY DEF Init, ClaimInv, ClaimLockInv, OpenIsOwned, ReclaimInv, ConflictInv, Committing, Working
<1> QED
  BY <1>1, <1>2 DEF IInv

\* Claiming and taking back keep the owner file's type.
LEMMA OwnerType ==
  ASSUME TypeOK, NEW h \in Handles, NEW S
  PROVE  /\ Claimed(h, S) \in [Ids -> Workflows \cup {Nobody}]
         /\ Without(S) \in [Ids -> Workflows \cup {Nobody}]
<1> USE OwnersAssumption DEF OwnersAssumption
<1> QED
  BY DEF TypeOK, Claimed, Without

\* Journals grow by ids, or enter review, and stay journals.
LEMMA JournalType ==
  ASSUME NEW j \in Journals, NEW S \in SUBSET Ids
  PROVE  /\ [j EXCEPT !.ids = @ \cup S] \in Journals
         /\ [j EXCEPT !.review = TRUE] \in Journals
BY DEF Journals

\* Replacing one value of a function by another of its range.
LEMMA OneReplaced ==
  ASSUME NEW D, NEW R, NEW f \in [D -> R], NEW x \in D, NEW v \in R
  PROVE  [f EXCEPT ![x] = v] \in [D -> R]
OBVIOUS

\* Open keeps every variable in its type.
LEMMA OpenTypes ==
  ASSUME TypeOK, NEW h \in Handles, Open(h)
  PROVE  TypeOK'
<1> USE OwnersAssumption DEF OwnersAssumption
<1>1. owner' \in [Ids -> Workflows \cup {Nobody}]
  BY DEF TypeOK, Open
<1>4. journal' \in [Workflows -> Journals] /\ view' \in [Handles -> Journals]
  BY DEF TypeOK, Open
<1>5. storeLock' \in SUBSET Handles /\ failures' \in Nat
  BY DEF TypeOK, Open
<1>6. pc' \in [Handles -> PCs]
  BY DEF TypeOK, Open, Goto, PCs
<1>7. bundle' \in [Handles -> SUBSET Ids] /\ inserted' \in [Handles -> SUBSET Ids]
  BY DEF TypeOK, Open
<1> QED
  BY <1>1, <1>4, <1>5, <1>6, <1>7 DEF TypeOK

\* Reclaim keeps every variable in its type.
LEMMA ReclaimTypes ==
  ASSUME TypeOK, NEW h \in Handles, Reclaim(h)
  PROVE  TypeOK'
<1> USE OwnersAssumption DEF OwnersAssumption
<1>1. owner' \in [Ids -> Workflows \cup {Nobody}]
  BY OwnerType DEF TypeOK, Reclaim
<1>4. journal' \in [Workflows -> Journals] /\ view' \in [Handles -> Journals]
  BY DEF TypeOK, Reclaim
<1>5. storeLock' \in SUBSET Handles /\ failures' \in Nat
  BY DEF TypeOK, Reclaim
<1>6. pc' \in [Handles -> PCs]
  BY DEF TypeOK, Reclaim, Goto, PCs
<1>7. bundle' \in [Handles -> SUBSET Ids] /\ inserted' \in [Handles -> SUBSET Ids]
  BY DEF TypeOK, Reclaim
<1> QED
  BY <1>1, <1>4, <1>5, <1>6, <1>7 DEF TypeOK

\* Observe keeps every variable in its type.
LEMMA ObserveTypes ==
  ASSUME TypeOK, NEW h \in Handles, Observe(h)
  PROVE  TypeOK'
<1> USE OwnersAssumption DEF OwnersAssumption
<1>1. owner' \in [Ids -> Workflows \cup {Nobody}]
  BY DEF TypeOK, Observe
<1>4. journal' \in [Workflows -> Journals] /\ view' \in [Handles -> Journals]
  BY DEF TypeOK, Observe
<1>5. storeLock' \in SUBSET Handles /\ failures' \in Nat
  BY DEF TypeOK, Observe
<1>6. pc' \in [Handles -> PCs]
  BY DEF TypeOK, Observe, Goto, PCs
<1>7. bundle' \in [Handles -> SUBSET Ids] /\ inserted' \in [Handles -> SUBSET Ids]
  BY DEF TypeOK, Observe
<1> QED
  BY <1>1, <1>4, <1>5, <1>6, <1>7 DEF TypeOK

\* Claim keeps every variable in its type.
LEMMA ClaimTypes ==
  ASSUME TypeOK, NEW h \in Handles, Claim(h)
  PROVE  TypeOK'
<1> USE OwnersAssumption DEF OwnersAssumption
<1>1. owner' \in [Ids -> Workflows \cup {Nobody}]
  BY OwnerType DEF TypeOK, Claim
<1>4. journal' \in [Workflows -> Journals] /\ view' \in [Handles -> Journals]
  BY DEF TypeOK, Claim
<1>5. storeLock' \in SUBSET Handles /\ failures' \in Nat
  BY DEF TypeOK, Claim
<1>6. pc' \in [Handles -> PCs]
  BY DEF TypeOK, Claim, Goto, PCs
<1>7. bundle' \in [Handles -> SUBSET Ids] /\ inserted' \in [Handles -> SUBSET Ids]
  BY DEF TypeOK, Claim
<1> QED
  BY <1>1, <1>4, <1>5, <1>6, <1>7 DEF TypeOK

\* Commit keeps every variable in its type.
LEMMA CommitTypes ==
  ASSUME TypeOK, NEW h \in Handles, Commit(h)
  PROVE  TypeOK'
<1> USE OwnersAssumption DEF OwnersAssumption
<1>1. owner' \in [Ids -> Workflows \cup {Nobody}]
  BY DEF TypeOK, Commit
<1>2. Of[h] \in Workflows /\ view[h] \in Journals /\ bundle[h] \in SUBSET Ids
  BY DEF TypeOK
<1>3. [view[h] EXCEPT !.ids = @ \cup bundle[h]] \in Journals
  BY <1>2, JournalType
<1>4. journal' \in [Workflows -> Journals] /\ view' \in [Handles -> Journals]
  <2>1. PICK new : new = [view[h] EXCEPT !.ids = @ \cup bundle[h]]
    OBVIOUS
  <2>2. journal' = journal \/ journal' = [journal EXCEPT ![Of[h]] = new]
    BY <2>1 DEF Commit
  <2>3. view' = view \/ view' = [view EXCEPT ![h] = new]
    BY <2>1 DEF Commit
  <2>4. journal \in [Workflows -> Journals] /\ view \in [Handles -> Journals]
    BY DEF TypeOK
  <2>5. new \in Journals
    BY <1>3, <2>1
  <2> QED BY <1>2, <2>2, <2>3, <2>4, <2>5, OneReplaced
<1>5. storeLock' \in SUBSET Handles /\ failures' \in Nat
  BY DEF TypeOK, Commit, Leave, Fails
<1>6. pc' \in [Handles -> PCs]
  BY DEF TypeOK, Commit, Goto, PCs
<1>7. bundle' \in [Handles -> SUBSET Ids] /\ inserted' \in [Handles -> SUBSET Ids]
  BY DEF TypeOK, Commit, Leave
<1> QED
  BY <1>1, <1>4, <1>5, <1>6, <1>7 DEF TypeOK

\* Withdraw keeps every variable in its type.
LEMMA WithdrawTypes ==
  ASSUME TypeOK, NEW h \in Handles, Withdraw(h)
  PROVE  TypeOK'
<1> USE OwnersAssumption DEF OwnersAssumption
<1>1. owner' \in [Ids -> Workflows \cup {Nobody}]
  BY OwnerType DEF TypeOK, Withdraw
<1>4. journal' \in [Workflows -> Journals] /\ view' \in [Handles -> Journals]
  BY DEF TypeOK, Withdraw
<1>5. storeLock' \in SUBSET Handles /\ failures' \in Nat
  BY DEF TypeOK, Withdraw, Leave
<1>6. pc' \in [Handles -> PCs]
  BY DEF TypeOK, Withdraw, Goto, PCs
<1>7. bundle' \in [Handles -> SUBSET Ids] /\ inserted' \in [Handles -> SUBSET Ids]
  BY DEF TypeOK, Withdraw, Leave
<1> QED
  BY <1>1, <1>4, <1>5, <1>6, <1>7 DEF TypeOK

\* Conflict keeps every variable in its type.
LEMMA ConflictTypes ==
  ASSUME TypeOK, NEW h \in Handles, Conflict(h)
  PROVE  TypeOK'
<1> USE OwnersAssumption DEF OwnersAssumption
<1>1. owner' \in [Ids -> Workflows \cup {Nobody}]
  BY DEF TypeOK, Conflict
<1>2. Of[h] \in Workflows /\ view[h] \in Journals /\ journal[Of[h]] \in Journals
  BY DEF TypeOK
<1>3. /\ [view[h] EXCEPT !.review = TRUE] \in Journals
      /\ [journal[Of[h]] EXCEPT !.review = TRUE] \in Journals
  BY <1>2, JournalType
<1>4. journal' \in [Workflows -> Journals] /\ view' \in [Handles -> Journals]
  <2>1. PICK new, seen : /\ new = [journal[Of[h]] EXCEPT !.review = TRUE]
                         /\ seen = [view[h] EXCEPT !.review = TRUE]
    OBVIOUS
  <2>2. journal' = journal \/ journal' = [journal EXCEPT ![Of[h]] = new]
    BY <2>1 DEF Conflict
  <2>3. view' = view \/ view' = [view EXCEPT ![h] = seen]
    BY <2>1 DEF Conflict
  <2>4. journal \in [Workflows -> Journals] /\ view \in [Handles -> Journals]
    BY DEF TypeOK
  <2>5. new \in Journals /\ seen \in Journals
    BY <1>3, <2>1
  <2> QED BY <1>2, <2>2, <2>3, <2>4, <2>5, OneReplaced
<1>5. storeLock' \in SUBSET Handles /\ failures' \in Nat
  BY DEF TypeOK, Conflict, Leave
<1>6. pc' \in [Handles -> PCs]
  BY DEF TypeOK, Conflict, Goto, PCs
<1>7. bundle' \in [Handles -> SUBSET Ids] /\ inserted' \in [Handles -> SUBSET Ids]
  BY DEF TypeOK, Conflict, Leave
<1> QED
  BY <1>1, <1>4, <1>5, <1>6, <1>7 DEF TypeOK

\* StoreFails keeps every variable in its type.
LEMMA StoreFailsTypes ==
  ASSUME TypeOK, NEW h \in Handles, StoreFails(h)
  PROVE  TypeOK'
<1> USE OwnersAssumption DEF OwnersAssumption
<1>1. owner' \in [Ids -> Workflows \cup {Nobody}]
  BY OwnerType DEF TypeOK, StoreFails
<1>4. journal' \in [Workflows -> Journals] /\ view' \in [Handles -> Journals]
  BY DEF TypeOK, StoreFails
<1>5. storeLock' \in SUBSET Handles /\ failures' \in Nat
  BY DEF TypeOK, StoreFails, Leave, Fails
<1>6. pc' \in [Handles -> PCs]
  BY DEF TypeOK, StoreFails, Goto, PCs
<1>7. bundle' \in [Handles -> SUBSET Ids] /\ inserted' \in [Handles -> SUBSET Ids]
  BY DEF TypeOK, StoreFails, Leave
<1> QED
  BY <1>1, <1>4, <1>5, <1>6, <1>7 DEF TypeOK

\* Close keeps every variable in its type.
LEMMA CloseTypes ==
  ASSUME TypeOK, NEW h \in Handles, Close(h)
  PROVE  TypeOK'
<1> USE OwnersAssumption DEF OwnersAssumption
<1>1. owner' \in [Ids -> Workflows \cup {Nobody}]
  BY DEF TypeOK, Close
<1>4. journal' \in [Workflows -> Journals] /\ view' \in [Handles -> Journals]
  BY DEF TypeOK, Close, Empty, Journals
<1>5. storeLock' \in SUBSET Handles /\ failures' \in Nat
  BY DEF TypeOK, Close, Leave, Fails
<1>6. pc' \in [Handles -> PCs]
  BY DEF TypeOK, Close, Goto, PCs
<1>7. bundle' \in [Handles -> SUBSET Ids] /\ inserted' \in [Handles -> SUBSET Ids]
  BY DEF TypeOK, Close, Leave
<1> QED
  BY <1>1, <1>4, <1>5, <1>6, <1>7 DEF TypeOK

-----------------------------------------------------------------------------
(* What an action does to its own handle, and what it leaves to the others *)

\* Handle g is as it was.
Same(g) ==
  /\ pc'[g] = pc[g]
  /\ bundle'[g] = bundle[g]
  /\ inserted'[g] = inserted[g]
  /\ view'[g] = view[g]

\* An action of one handle moves no other handle.
LEMMA OthersSame ==
  ASSUME TypeOK, NEW h \in Handles, NEW g \in Handles, g # h,
         \/ Open(h) \/ Reclaim(h) \/ Observe(h) \/ Claim(h) \/ Commit(h)
         \/ Withdraw(h) \/ Conflict(h) \/ StoreFails(h) \/ Close(h)
  PROVE  Same(g)
<1>1. CASE Open(h)
  BY <1>1 DEF TypeOK, Same, Open, Goto
<1>2. CASE Reclaim(h)
  BY <1>2 DEF TypeOK, Same, Reclaim, Goto
<1>3. CASE Observe(h)
  BY <1>3 DEF TypeOK, Same, Observe, Goto
<1>4. CASE Claim(h)
  BY <1>4 DEF TypeOK, Same, Claim, Goto
<1>5. CASE Commit(h)
  BY <1>5 DEF TypeOK, Same, Commit, Goto, Leave
<1>6. CASE Withdraw(h)
  BY <1>6 DEF TypeOK, Same, Withdraw, Goto, Leave
<1>7. CASE Conflict(h)
  BY <1>7 DEF TypeOK, Same, Conflict, Goto, Leave
<1>8. CASE StoreFails(h)
  BY <1>8 DEF TypeOK, Same, StoreFails, Goto, Leave
<1>9. CASE Close(h)
  BY <1>9 DEF TypeOK, Same, Close, Goto, Leave
<1> QED
  BY <1>1, <1>2, <1>3, <1>4, <1>5, <1>6, <1>7, <1>8, <1>9

\* A claim gives every id of its bundle an owner and takes none away; a
\* withdrawal frees its ids and no others.
LEMMA OwnerEffect ==
  ASSUME TypeOK, NEW h \in Handles, NEW S \in SUBSET Ids, NEW i \in Ids
  PROVE  /\ owner[i] # Nobody => Claimed(h, S)[i] = owner[i]
         /\ i \in S /\ ~Conflicts(h, S) => Claimed(h, S)[i] = Of[h]
         /\ i \notin S => Without(S)[i] = owner[i]
BY OwnersAssumption DEF OwnersAssumption, TypeOK, Claimed, Conflicts, Without

\* Only one handle at a time holds the lock.
LEMMA HolderUnique ==
  ASSUME ClaimLockInv, NEW h \in Handles, NEW g \in Handles, Committing(g),
         storeLock = {} \/ Committing(h)
  PROVE  g = h
BY DEF ClaimLockInv

-----------------------------------------------------------------------------
(* The invariant is kept *)

\* Opening loads the journal, and so starts with nothing to make good.
LEMMA OpenStep ==
  ASSUME IInv, NEW h \in Handles, Open(h)
  PROVE  IInv'
<1> USE OwnersAssumption DEF OwnersAssumption
<1>1. TypeOK /\ ClaimInv /\ ClaimLockInv /\ OpenIsOwned /\ ReclaimInv /\ ConflictInv
  BY DEF IInv
<1>2. TypeOK'
  BY <1>1, OpenTypes
<1>3. \A g \in Handles \ {h} : Same(g)
  BY <1>1, OthersSame
<1>0. /\ pc'[h] = "reclaim" /\ view'[h] = journal[Of[h]]
      /\ UNCHANGED <<owner, journal, storeLock, bundle, inserted>>
  BY <1>1 DEF TypeOK, Open, Goto
<1>4. ClaimInv'
  BY <1>0, <1>1, <1>3 DEF ClaimInv, Same
<1>5. ClaimLockInv'
  BY <1>0, <1>1, <1>3 DEF ClaimLockInv, Committing, Same
<1>6. OpenIsOwned'
  BY <1>0, <1>1, <1>3 DEF OpenIsOwned, ReclaimInv, Working, Same
<1>7. ReclaimInv'
  BY <1>0, <1>1, <1>3 DEF ReclaimInv, Same
<1>8. ConflictInv'
  BY <1>0, <1>1, <1>3 DEF ConflictInv, Committing, Same
<1> QED
  BY <1>2, <1>4, <1>5, <1>6, <1>7, <1>8 DEF IInv

\* Asking for a bundle changes nothing that is shared.
LEMMA ObserveStep ==
  ASSUME IInv, NEW h \in Handles, Observe(h)
  PROVE  IInv'
<1> USE OwnersAssumption DEF OwnersAssumption
<1>1. TypeOK /\ ClaimInv /\ ClaimLockInv /\ OpenIsOwned /\ ReclaimInv /\ ConflictInv
  BY DEF IInv
<1>2. TypeOK'
  BY <1>1, ObserveTypes
<1>3. \A g \in Handles \ {h} : Same(g)
  BY <1>1, OthersSame
<1>0. /\ pc[h] = "open" /\ pc'[h] = "claim" /\ ~view[h].review
      /\ UNCHANGED <<owner, journal, storeLock, inserted, view>>
  BY <1>1 DEF TypeOK, Observe, Goto
<1>4. ClaimInv'
  BY <1>0, <1>1, <1>3 DEF ClaimInv, Same
<1>5. ClaimLockInv'
  BY <1>0, <1>1, <1>3 DEF ClaimLockInv, Committing, Same
<1>6. OpenIsOwned'
  BY <1>0, <1>1, <1>3 DEF OpenIsOwned, ReclaimInv, Working, Same
<1>7. ReclaimInv'
  BY <1>0, <1>1, <1>3 DEF ReclaimInv, Same
<1>8. ConflictInv'
  BY <1>0, <1>1, <1>3 DEF ConflictInv, Committing, Same
<1> QED
  BY <1>2, <1>4, <1>5, <1>6, <1>7, <1>8 DEF IInv

\* A command that ends drops its lock and forgets its call.
LEMMA CloseStep ==
  ASSUME IInv, NEW h \in Handles, Close(h)
  PROVE  IInv'
<1> USE OwnersAssumption DEF OwnersAssumption
<1>1. TypeOK /\ ClaimInv /\ ClaimLockInv /\ OpenIsOwned /\ ReclaimInv /\ ConflictInv
  BY DEF IInv
<1>2. TypeOK'
  BY <1>1, CloseTypes
<1>3. \A g \in Handles \ {h} : Same(g)
  BY <1>1, OthersSame
<1>0. /\ pc'[h] = "closed" /\ storeLock' = storeLock \ {h}
      /\ UNCHANGED <<owner, journal>>
  BY <1>1 DEF TypeOK, Close, Goto, Leave
<1>4. ClaimInv'
  BY <1>0, <1>1, <1>3 DEF ClaimInv, Same
<1>5. ClaimLockInv'
  BY <1>0, <1>1, <1>3 DEF ClaimLockInv, Committing, Same
<1>6. OpenIsOwned'
  BY <1>0, <1>1, <1>3 DEF OpenIsOwned, ReclaimInv, Working, Same
<1>7. ReclaimInv'
  BY <1>0, <1>1, <1>3 DEF ReclaimInv, Same
<1>8. ConflictInv'
  BY <1>0, <1>1, <1>3 DEF ConflictInv, Committing, Same
<1> QED
  BY <1>2, <1>4, <1>5, <1>6, <1>7, <1>8 DEF IInv

\* Recording the conflict leaves the ids of every journal alone.
LEMMA ConflictStep ==
  ASSUME IInv, NEW h \in Handles, Conflict(h)
  PROVE  IInv'
<1> USE OwnersAssumption DEF OwnersAssumption
<1>1. TypeOK /\ ClaimInv /\ ClaimLockInv /\ OpenIsOwned /\ ReclaimInv /\ ConflictInv
  BY DEF IInv
<1>2. TypeOK'
  BY <1>1, ConflictTypes
<1>3. \A g \in Handles \ {h} : Same(g)
  BY <1>1, OthersSame
<1>a. /\ pc[h] = "conflict" /\ pc'[h] = "closed" /\ storeLock' = storeLock \ {h}
      /\ UNCHANGED owner
  BY <1>1 DEF TypeOK, Conflict, Goto, Leave
<1>b. \A w \in Workflows : journal'[w].ids = journal[w].ids
  <2>1. CASE journal' = [journal EXCEPT ![Of[h]].review = TRUE]
    BY <1>1, <2>1 DEF TypeOK, Journals
  <2>2. CASE UNCHANGED journal
    BY <2>2
  <2> QED
    BY <2>1, <2>2 DEF Conflict
<1>0. /\ pc[h] = "conflict" /\ pc'[h] = "closed" /\ storeLock' = storeLock \ {h}
      /\ \A w \in Workflows : journal'[w].ids = journal[w].ids
      /\ UNCHANGED owner
  BY <1>a, <1>b
<1>4. ClaimInv'
  BY <1>0, <1>1, <1>3 DEF ClaimInv, Same
<1>5. ClaimLockInv'
  BY <1>0, <1>1, <1>3 DEF ClaimLockInv, Committing, Same
<1>6. OpenIsOwned'
  BY <1>0, <1>1, <1>3 DEF OpenIsOwned, ReclaimInv, Working, Same
<1>7. ReclaimInv'
  BY <1>0, <1>1, <1>3 DEF ReclaimInv, Same
<1>8. ConflictInv'
  BY <1>0, <1>1, <1>3 DEF ConflictInv, Committing, Same
<1> QED
  BY <1>2, <1>4, <1>5, <1>6, <1>7, <1>8 DEF IInv

\* What is taken back is in no journal, and no conflict rests on it.
LEMMA WithdrawStep ==
  ASSUME IInv, NEW h \in Handles, Withdraw(h)
  PROVE  IInv'
<1> USE OwnersAssumption DEF OwnersAssumption
<1>1. TypeOK /\ ClaimInv /\ ClaimLockInv /\ OpenIsOwned /\ ReclaimInv /\ ConflictInv
  BY DEF IInv
<1>2. TypeOK'
  BY <1>1, WithdrawTypes
<1>3. \A g \in Handles \ {h} : Same(g)
  BY <1>1, OthersSame
<1>0. /\ pc[h] = "withdraw" /\ pc'[h] = "open"
      /\ owner' = Without(inserted[h]) /\ storeLock' = storeLock \ {h}
      /\ inserted[h] \in SUBSET Ids
      /\ UNCHANGED <<journal, view>>
  BY <1>1 DEF TypeOK, Withdraw, Goto, Leave
<1>a. \A i \in Ids : i \notin inserted[h] => owner'[i] = owner[i]
  BY <1>0, <1>1, OwnerEffect
<1>b. \A w \in Workflows : \A i \in journal[w].ids : i \in Ids
  BY <1>1 DEF TypeOK, Journals
<1>c. \A w \in Workflows : \A i \in journal[w].ids : owner[i] = w => owner'[i] = w
  BY <1>0, <1>1, <1>a, <1>b DEF ClaimLockInv, Committing
<1>d. \A g \in Handles : ~Committing(g)'
  BY <1>0, <1>1, <1>3, HolderUnique DEF Committing, Same
<1>4. ClaimInv'
  BY <1>0, <1>1, <1>3 DEF ClaimInv, Same
<1>5. ClaimLockInv'
  BY <1>d DEF ClaimLockInv
<1>6. OpenIsOwned'
  BY <1>0, <1>1, <1>3, <1>c DEF TypeOK, OpenIsOwned, Working, Same
<1>7. ReclaimInv'
  BY <1>0, <1>1, <1>3, <1>c DEF TypeOK, ReclaimInv, Same
<1>8. ConflictInv'
  <2> SUFFICES ASSUME NEW g \in Handles, pc'[g] = "conflict"
               PROVE  \E i \in bundle'[g] \cup view'[g].ids : owner'[i] \notin {Nobody, Of[g]}
    BY <1>d DEF ConflictInv
  <2>1. g # h /\ Same(g)
    BY <1>0, <1>3
  <2>2. PICK i \in bundle[g] \cup view[g].ids :
          owner[i] \notin {Nobody, Of[g]} /\ i \notin inserted[h]
    BY <1>0, <1>1, <2>1 DEF ConflictInv, Same, Committing
  <2>3. i \in Ids
    BY <1>1, <2>2 DEF TypeOK, Journals
  <2> QED
    BY <1>a, <2>1, <2>2, <2>3 DEF Same
<1> QED
  BY <1>2, <1>4, <1>5, <1>6, <1>7, <1>8 DEF IInv

\* What a commit adds to a journal was claimed for it under the lock.
LEMMA CommitStep ==
  ASSUME IInv, NEW h \in Handles, Commit(h)
  PROVE  IInv'
<1> USE OwnersAssumption DEF OwnersAssumption
<1>1. TypeOK /\ ClaimInv /\ ClaimLockInv /\ OpenIsOwned /\ ReclaimInv /\ ConflictInv
  BY DEF IInv
<1>2. TypeOK'
  BY <1>1, CommitTypes
<1>3. \A g \in Handles \ {h} : Same(g)
  BY <1>1, OthersSame
<1>0. /\ pc[h] = "commit" /\ UNCHANGED owner
      /\ pc'[h] \in {"open", "withdraw"}
      /\ pc'[h] = "open" => storeLock' = storeLock \ {h}
      /\ pc'[h] = "withdraw" => UNCHANGED <<journal, storeLock, bundle, inserted, view>>
  BY <1>1 DEF TypeOK, Commit, Goto, Leave
<1>a. \A w \in Workflows : \A i \in journal'[w].ids :
        i \in journal[w].ids \/ (w = Of[h] /\ i \in bundle[h])
  BY <1>1 DEF TypeOK, Journals, Commit, Fresh
<1>b. \A w \in Workflows : \A i \in journal'[w].ids :
        i \in journal[w].ids \/ owner[i] = w
  BY <1>0, <1>1, <1>a DEF ClaimLockInv, Committing
<1>c. \A g \in Handles \ {h} : ~Committing(g)'
  BY <1>0, <1>1, <1>3, HolderUnique DEF Committing, Same
<1>d. view'[h].review => view[h].review
  BY <1>1 DEF TypeOK, Journals, Commit
<1>4. ClaimInv'
  BY <1>0, <1>1, <1>3 DEF ClaimInv, Same
<1>5. ClaimLockInv'
  <2> SUFFICES ASSUME NEW g \in Handles, Committing(g)'
               PROVE  g = h /\ pc'[h] = "withdraw"
    BY <1>0, <1>1 DEF ClaimLockInv, Committing
  <2> QED
    BY <1>0, <1>c DEF Committing
<1>6. OpenIsOwned'
  BY <1>0, <1>1, <1>3, <1>b, <1>d DEF TypeOK, OpenIsOwned, Working, Same, ClaimLockInv, Committing
<1>7. ReclaimInv'
  BY <1>0, <1>1, <1>3, <1>b DEF TypeOK, ReclaimInv, Same
<1>8. ConflictInv'
  <2> SUFFICES ASSUME NEW g \in Handles, pc'[g] = "conflict"
               PROVE  \E i \in bundle'[g] \cup view'[g].ids :
                        /\ owner'[i] \notin {Nobody, Of[g]}
                        /\ \A k \in Handles : Committing(k)' => i \notin inserted'[k]
    BY DEF ConflictInv
  <2>1. g # h /\ Same(g)
    BY <1>0, <1>3
  <2>2. PICK i \in bundle[g] \cup view[g].ids :
          owner[i] \notin {Nobody, Of[g]} /\ i \notin inserted[h]
    BY <1>0, <1>1, <2>1 DEF ConflictInv, Same, Committing
  <2>3. \A k \in Handles : Committing(k)' => i \notin inserted'[k]
    BY <1>0, <1>c, <2>2 DEF Committing
  <2> QED
    BY <1>0, <2>1, <2>2, <2>3 DEF Same
<1> QED
  BY <1>2, <1>4, <1>5, <1>6, <1>7, <1>8 DEF IInv

\* While the lock is free a handle may add owners: no other handle minds.
LEMMA OthersKeep ==
  ASSUME TypeOK, ClaimInv, ClaimLockInv, OpenIsOwned, ReclaimInv, ConflictInv,
         NEW h \in Handles, NEW g \in Handles, g # h, Same(g),
         storeLock = {}, UNCHANGED journal,
         \A i \in Ids : owner[i] # Nobody => owner'[i] = owner[i],
         Committing(h)' => \A i \in inserted'[h] : owner[i] = Nobody,
         \A k \in Handles \ {h} : Same(k)
  PROVE  /\ pc'[g] = "claim" => ~view'[g].review
         /\ ~Committing(g)'
         /\ Working(g)' /\ ~view'[g].review =>
              \A i \in journal'[Of[g]].ids : owner'[i] = Of[g]
         /\ pc'[g] = "reclaim" =>
              \A i \in journal'[Of[g]].ids : i \notin view'[g].ids => owner'[i] = Of[g]
         /\ pc'[g] = "conflict" =>
              \E i \in bundle'[g] \cup view'[g].ids :
                /\ owner'[i] \notin {Nobody, Of[g]}
                /\ \A k \in Handles : Committing(k)' => i \notin inserted'[k]
<1> USE OwnersAssumption DEF OwnersAssumption
<1>1. \A k \in Handles : ~Committing(k)
  BY DEF ClaimLockInv
<1>2. \A k \in Handles \ {h} : ~Committing(k)'
  BY <1>1 DEF Same, Committing
<1>3. \A w \in Workflows : \A i \in journal[w].ids : owner[i] = w => owner'[i] = w
  BY DEF TypeOK, Journals
<1>4. pc'[g] = "claim" => ~view'[g].review
  BY DEF ClaimInv, Same
<1>5. Working(g)' /\ ~view'[g].review =>
        \A i \in journal'[Of[g]].ids : owner'[i] = Of[g]
  BY <1>3 DEF TypeOK, OpenIsOwned, Working, Same
<1>6. pc'[g] = "reclaim" =>
        \A i \in journal'[Of[g]].ids : i \notin view'[g].ids => owner'[i] = Of[g]
  BY <1>3 DEF TypeOK, ReclaimInv, Same
<1>7. ASSUME pc'[g] = "conflict"
      PROVE  \E i \in bundle'[g] \cup view'[g].ids :
               /\ owner'[i] \notin {Nobody, Of[g]}
               /\ \A k \in Handles : Committing(k)' => i \notin inserted'[k]
  <2>1. PICK i \in bundle[g] \cup view[g].ids : owner[i] \notin {Nobody, Of[g]}
    BY <1>7 DEF ConflictInv, Same
  <2>2. i \in Ids
    BY <2>1 DEF TypeOK, Journals
  <2>3. owner'[i] \notin {Nobody, Of[g]}
    BY <2>1, <2>2
  <2>4. \A k \in Handles : Committing(k)' => i \notin inserted'[k]
    BY <1>2, <2>1
  <2> QED
    BY <2>1, <2>3, <2>4 DEF Same
<1> QED
  BY <1>2, <1>4, <1>5, <1>6, <1>7

\* A handle that reclaims leaves with all it loaded owned, or with the conflict.
LEMMA ReclaimStep ==
  ASSUME IInv, NEW h \in Handles, Reclaim(h)
  PROVE  IInv'
<1> USE OwnersAssumption DEF OwnersAssumption
<1>1. TypeOK /\ ClaimInv /\ ClaimLockInv /\ OpenIsOwned /\ ReclaimInv /\ ConflictInv
  BY DEF IInv
<1>2. TypeOK'
  BY <1>1, ReclaimTypes
<1>3. \A g \in Handles \ {h} : Same(g)
  BY <1>1, OthersSame
<1>0. /\ pc[h] = "reclaim" /\ storeLock = {} /\ pc'[h] \in {"open", "conflict"}
      /\ UNCHANGED <<journal, storeLock, bundle, inserted, view>>
  BY <1>1 DEF TypeOK, Reclaim, Goto
<1>a. view[h].ids \in SUBSET Ids /\ Of[h] \in Workflows /\ journal[Of[h]].ids \in SUBSET Ids
  BY <1>1 DEF TypeOK, Journals
<1>b. \E S \in SUBSET view[h].ids : owner' = Claimed(h, S)
  BY DEF Reclaim
<1>c. \A i \in Ids : owner[i] # Nobody => owner'[i] = owner[i]
  BY <1>1, <1>a, <1>b, OwnerEffect
<1>d. \A k \in Handles : ~Committing(k)'
  BY <1>0, <1>1, <1>3 DEF ClaimLockInv, Committing, Same
<1>e. /\ pc'[h] = "open" /\ ~view'[h].review =>
           \A i \in journal'[Of[h]].ids : owner'[i] = Of[h]
      /\ pc'[h] = "conflict" =>
           \E i \in view'[h].ids : owner'[i] \notin {Nobody, Of[h]}
  <2>1. CASE Conflicts(h, view[h].ids)
    <3>1. pc'[h] = "open" => view[h].review
      BY <1>1, <2>1 DEF TypeOK, Reclaim, Goto
    <3>2. PICK i \in view[h].ids : owner[i] \notin {Nobody, Of[h]}
      BY <2>1 DEF Conflicts
    <3>3. owner'[i] \notin {Nobody, Of[h]}
      BY <1>a, <1>c, <3>2
    <3> QED
      BY <1>0, <3>1, <3>2, <3>3
  <2>2. CASE ~Conflicts(h, view[h].ids)
    <3>1. pc'[h] = "open" /\ owner' = Claimed(h, view[h].ids)
      BY <1>1, <2>2 DEF TypeOK, Reclaim, Goto
    <3>2. \A i \in view[h].ids : owner'[i] = Of[h]
      BY <1>1, <1>a, <2>2, <3>1, OwnerEffect
    <3>3. \A i \in journal[Of[h]].ids : owner'[i] = Of[h]
      BY <1>0, <1>1, <1>a, <1>c, <3>2 DEF ReclaimInv
    <3> QED
      BY <1>0, <3>1, <3>3
  <2> QED
    BY <2>1, <2>2
<1>9. \A g \in Handles \ {h} :
        /\ pc'[g] = "claim" => ~view'[g].review
        /\ ~Committing(g)'
        /\ Working(g)' /\ ~view'[g].review =>
             \A i \in journal'[Of[g]].ids : owner'[i] = Of[g]
        /\ pc'[g] = "reclaim" =>
             \A i \in journal'[Of[g]].ids : i \notin view'[g].ids => owner'[i] = Of[g]
        /\ pc'[g] = "conflict" =>
             \E i \in bundle'[g] \cup view'[g].ids :
               /\ owner'[i] \notin {Nobody, Of[g]}
               /\ \A k \in Handles : Committing(k)' => i \notin inserted'[k]
  BY <1>0, <1>1, <1>3, <1>c, <1>d, OthersKeep
<1>4. ClaimInv'
  BY <1>0, <1>9 DEF ClaimInv
<1>5. ClaimLockInv'
  BY <1>d DEF ClaimLockInv
<1>6. OpenIsOwned'
  BY <1>0, <1>9, <1>e DEF OpenIsOwned, Working
<1>7. ReclaimInv'
  BY <1>0, <1>9 DEF ReclaimInv
<1>8. ConflictInv'
  BY <1>0, <1>9, <1>d, <1>e DEF ConflictInv
<1> QED
  BY <1>2, <1>4, <1>5, <1>6, <1>7, <1>8 DEF IInv

\* A claim inserts only what had no owner, and its workflow's journal records only what had.
LEMMA ClaimStep ==
  ASSUME IInv, NEW h \in Handles, Claim(h)
  PROVE  IInv'
<1> USE OwnersAssumption DEF OwnersAssumption
<1>1. TypeOK /\ ClaimInv /\ ClaimLockInv /\ OpenIsOwned /\ ReclaimInv /\ ConflictInv
  BY DEF IInv
<1>2. TypeOK'
  BY <1>1, ClaimTypes
<1>3. \A g \in Handles \ {h} : Same(g)
  BY <1>1, OthersSame
<1>0. /\ pc[h] = "claim" /\ storeLock = {} /\ pc'[h] \in {"conflict", "commit"}
      /\ UNCHANGED <<journal, bundle, view>>
  BY <1>1 DEF TypeOK, Claim, Goto
<1>a. /\ bundle[h] \in SUBSET Ids /\ Of[h] \in Workflows
      /\ journal[Of[h]].ids \in SUBSET Ids /\ ~view[h].review
  BY <1>0, <1>1 DEF TypeOK, Journals, ClaimInv
<1>b. pc'[h] = "conflict" => Conflicts(h, bundle[h]) /\ UNCHANGED <<owner, inserted>>
  BY <1>1 DEF TypeOK, Claim, Goto
<1>e. pc'[h] = "commit" =>
        /\ ~Conflicts(h, bundle[h])
        /\ owner' = Claimed(h, bundle[h])
        /\ inserted'[h] = {i \in bundle[h] : owner[i] = Nobody}
        /\ storeLock' = {h}
  BY <1>1 DEF TypeOK, Claim, Goto
<1>c. \A i \in Ids : owner[i] # Nobody => owner'[i] = owner[i]
  BY <1>0, <1>1, <1>a, <1>b, <1>e, OwnerEffect
<1>d. Committing(h)' => \A i \in inserted'[h] : owner[i] = Nobody
  BY <1>0, <1>e DEF Committing
<1>f. \A i \in journal[Of[h]].ids : owner[i] = Of[h]
  BY <1>0, <1>1, <1>a DEF OpenIsOwned, Working
<1>9. \A g \in Handles \ {h} :
        /\ pc'[g] = "claim" => ~view'[g].review
        /\ ~Committing(g)'
        /\ Working(g)' /\ ~view'[g].review =>
             \A i \in journal'[Of[g]].ids : owner'[i] = Of[g]
        /\ pc'[g] = "reclaim" =>
             \A i \in journal'[Of[g]].ids : i \notin view'[g].ids => owner'[i] = Of[g]
        /\ pc'[g] = "conflict" =>
             \E i \in bundle'[g] \cup view'[g].ids :
               /\ owner'[i] \notin {Nobody, Of[g]}
               /\ \A k \in Handles : Committing(k)' => i \notin inserted'[k]
  BY <1>0, <1>1, <1>3, <1>c, <1>d, OthersKeep
<1>4. ClaimInv'
  BY <1>0, <1>9 DEF ClaimInv
<1>5. ClaimLockInv'
  <2> SUFFICES ASSUME Committing(h)'
               PROVE  /\ storeLock' = {h} /\ ~view'[h].review
                      /\ inserted'[h] \subseteq bundle'[h]
                      /\ \A i \in bundle'[h] : owner'[i] = Of[h]
                      /\ \A i \in inserted'[h] : i \notin journal'[Of[h]].ids
    BY <1>9 DEF ClaimLockInv
  <2>1. pc'[h] = "commit"
    BY <1>0 DEF Committing
  <2>2. \A i \in bundle[h] : owner'[i] = Of[h]
    BY <1>1, <1>a, <1>e, <2>1, OwnerEffect
  <2>3. \A i \in inserted'[h] : i \notin journal[Of[h]].ids
    BY <1>a, <1>e, <1>f, <2>1
  <2> QED
    BY <1>0, <1>a, <1>e, <2>1, <2>2, <2>3
<1>6. OpenIsOwned'
  BY <1>0, <1>9, <1>a, <1>c, <1>f DEF OpenIsOwned
<1>7. ReclaimInv'
  BY <1>0, <1>9 DEF ReclaimInv
<1>8. ConflictInv'
  <2> SUFFICES ASSUME pc'[h] = "conflict"
               PROVE  \E i \in bundle'[h] \cup view'[h].ids :
                        /\ owner'[i] \notin {Nobody, Of[h]}
                        /\ \A k \in Handles : Committing(k)' => i \notin inserted'[k]
    BY <1>9 DEF ConflictInv
  <2>1. \A k \in Handles : ~Committing(k)'
    BY <1>9 DEF Committing
  <2> QED
    BY <1>0, <1>b, <2>1 DEF Conflicts
<1> QED
  BY <1>2, <1>4, <1>5, <1>6, <1>7, <1>8 DEF IInv

\* A rewrite that fails, on either side of its rename, is a claim or a withdrawal or nothing.
LEMMA StoreFailsStep ==
  ASSUME IInv, NEW h \in Handles, StoreFails(h)
  PROVE  IInv'
<1> USE OwnersAssumption DEF OwnersAssumption
<1>1. TypeOK /\ ClaimInv /\ ClaimLockInv /\ OpenIsOwned /\ ReclaimInv /\ ConflictInv
  BY DEF IInv
<1>2. TypeOK'
  BY <1>1, StoreFailsTypes
<1>3. \A g \in Handles \ {h} : Same(g)
  BY <1>1, OthersSame
<1>0. /\ pc[h] \in {"claim", "withdraw"} /\ pc'[h] = "open" /\ storeLock' = storeLock \ {h}
      /\ UNCHANGED <<journal, view>>
  BY <1>1 DEF TypeOK, StoreFails, Goto, Leave
<1>a. /\ bundle[h] \in SUBSET Ids /\ inserted[h] \in SUBSET Ids /\ Of[h] \in Workflows
      /\ journal[Of[h]].ids \in SUBSET Ids
  BY <1>1 DEF TypeOK, Journals
<1>b. CASE pc[h] = "claim"
  <2>1. storeLock = {} /\ owner' \in {owner, Claimed(h, bundle[h])}
    BY <1>b DEF StoreFails
  <2>2. \A i \in Ids : owner[i] # Nobody => owner'[i] = owner[i]
    BY <1>1, <1>a, <2>1, OwnerEffect
  <2>3. ~Committing(h)'
    BY <1>0 DEF Committing
<2>4. \A g \in Handles \ {h} :
          /\ pc'[g] = "claim" => ~view'[g].review
          /\ ~Committing(g)'
          /\ Working(g)' /\ ~view'[g].review =>
               \A i \in journal'[Of[g]].ids : owner'[i] = Of[g]
          /\ pc'[g] = "reclaim" =>
               \A i \in journal'[Of[g]].ids : i \notin view'[g].ids => owner'[i] = Of[g]
          /\ pc'[g] = "conflict" =>
               \E i \in bundle'[g] \cup view'[g].ids :
                 /\ owner'[i] \notin {Nobody, Of[g]}
                 /\ \A k \in Handles : Committing(k)' => i \notin inserted'[k]
    BY <1>0, <1>1, <1>3, <2>1, <2>2, <2>3, OthersKeep
  <2>5. \A i \in journal[Of[h]].ids : ~view[h].review => owner[i] = Of[h]
    BY <1>0, <1>1, <1>b DEF OpenIsOwned, Working
  <2>6. ClaimInv'
    BY <1>0, <2>4 DEF ClaimInv
  <2>7. ClaimLockInv'
    BY <2>3, <2>4 DEF ClaimLockInv
  <2>8. OpenIsOwned'
    BY <1>0, <1>a, <2>2, <2>4, <2>5, OwnersAssumption DEF OwnersAssumption, OpenIsOwned
  <2>9. ReclaimInv'
    BY <1>0, <2>4 DEF ReclaimInv
  <2>10. ConflictInv'
    BY <1>0, <2>4 DEF ConflictInv
  <2> QED
    BY <1>2, <2>6, <2>7, <2>8, <2>9, <2>10 DEF IInv
<1>c. CASE pc[h] = "withdraw"
  <2>1. owner' \in {owner, Without(inserted[h])}
    BY <1>c DEF StoreFails
  <2>2. \A i \in Ids : i \notin inserted[h] => owner'[i] = owner[i]
    BY <1>1, <1>a, <2>1, OwnerEffect
  <2>3. \A w \in Workflows : \A i \in journal[w].ids : i \in Ids
    BY <1>1 DEF TypeOK, Journals
  <2>4. \A w \in Workflows : \A i \in journal[w].ids : owner[i] = w => owner'[i] = w
    BY <1>c, <1>1, <2>2, <2>3 DEF ClaimLockInv, Committing
  <2>5. \A g \in Handles : ~Committing(g)'
    BY <1>0, <1>c, <1>1, <1>3, HolderUnique DEF Committing, Same
  <2>6. ClaimInv'
    BY <1>0, <1>1, <1>3 DEF ClaimInv, Same
  <2>7. ClaimLockInv'
    BY <2>5 DEF ClaimLockInv
  <2>8. OpenIsOwned'
    BY <1>0, <1>c, <1>1, <1>3, <2>4 DEF TypeOK, OpenIsOwned, Working, Same
  <2>9. ReclaimInv'
    BY <1>0, <1>1, <1>3, <2>4 DEF TypeOK, ReclaimInv, Same
  <2>10. ConflictInv'
    <3> SUFFICES ASSUME NEW g \in Handles, pc'[g] = "conflict"
                 PROVE  \E i \in bundle'[g] \cup view'[g].ids : owner'[i] \notin {Nobody, Of[g]}
      BY <2>5 DEF ConflictInv
    <3>1. g # h /\ Same(g)
      BY <1>0, <1>3
    <3>2. PICK i \in bundle[g] \cup view[g].ids :
            owner[i] \notin {Nobody, Of[g]} /\ i \notin inserted[h]
      BY <1>c, <1>1, <3>1 DEF ConflictInv, Same, Committing
    <3>3. i \in Ids
      BY <1>1, <3>2 DEF TypeOK, Journals
    <3> QED
      BY <2>2, <3>1, <3>2, <3>3 DEF Same
  <2> QED
    BY <1>2, <2>6, <2>7, <2>8, <2>9, <2>10 DEF IInv
<1> QED
  BY <1>0, <1>b, <1>c

\* The owner file is lost only while nobody is at work, and everybody reclaims.
LEMMA LoseFileStep ==
  ASSUME IInv, LoseFile
  PROVE  IInv'
<1>1. TypeOK'
  BY DEF IInv, TypeOK, LoseFile, Fails
<1>2. ClaimInv' /\ ClaimLockInv' /\ OpenIsOwned' /\ ReclaimInv' /\ ConflictInv'
  BY DEF LoseFile, ClaimInv, ClaimLockInv, OpenIsOwned, ReclaimInv, ConflictInv, Committing, Working
<1> QED
  BY <1>1, <1>2 DEF IInv

\* Every step, and every stutter, keeps the invariant.
LEMMA OwnersStep == IInv /\ [Next]_vars => IInv'
<1> SUFFICES ASSUME IInv, [Next]_vars PROVE IInv'
  OBVIOUS
<1>1. CASE UNCHANGED vars
  BY <1>1 DEF IInv, TypeOK, ClaimInv, ClaimLockInv, OpenIsOwned, ReclaimInv, ConflictInv,
     Committing, Working, vars
<1>2. ASSUME NEW h \in Handles, Open(h) PROVE IInv'
  BY <1>2, OpenStep
<1>3. ASSUME NEW h \in Handles, Reclaim(h) PROVE IInv'
  BY <1>3, ReclaimStep
<1>4. ASSUME NEW h \in Handles, Observe(h) PROVE IInv'
  BY <1>4, ObserveStep
<1>5. ASSUME NEW h \in Handles, Claim(h) PROVE IInv'
  BY <1>5, ClaimStep
<1>6. ASSUME NEW h \in Handles, Commit(h) PROVE IInv'
  BY <1>6, CommitStep
<1>7. ASSUME NEW h \in Handles, Withdraw(h) PROVE IInv'
  BY <1>7, WithdrawStep
<1>8. ASSUME NEW h \in Handles, Conflict(h) PROVE IInv'
  BY <1>8, ConflictStep
<1>9. ASSUME NEW h \in Handles, StoreFails(h) PROVE IInv'
  BY <1>9, StoreFailsStep
<1>10. ASSUME NEW h \in Handles, Close(h) PROVE IInv'
  BY <1>10, CloseStep
<1>11. CASE LoseFile
  BY <1>11, LoseFileStep
<1> QED
  BY <1>1, <1>2, <1>3, <1>4, <1>5, <1>6, <1>7, <1>8, <1>9, <1>10, <1>11 DEF Next

-----------------------------------------------------------------------------
(* The theorems *)

\* So it holds of every reachable state.
LEMMA SpecIInv == Spec => []IInv
<1> QED
  BY InitIInv, OwnersStep, PTL DEF Spec

\* Every variable stays in its type, whatever fails and in whatever order.
THEOREM OwnersTypeCorrect == Spec => []TypeOK
<1>1. IInv => TypeOK
  BY DEF IInv
<1> QED
  BY <1>1, SpecIInv, PTL

\* A workflow at work owns every venue id its journal records.
THEOREM VenueIdsOwned == Spec => []OpenIsOwned
<1>1. IInv => OpenIsOwned
  BY DEF IInv
<1> QED
  BY <1>1, SpecIInv, PTL

\* A step other than the loss of the file takes no committed id from its owner.
LEMMA PermanentStep ==
  ASSUME IInv, Next, NEW w \in Workflows, NEW i \in journal[w].ids, owner[i] = w, ~LoseFile
  PROVE  owner'[i] = w
<1> USE OwnersAssumption DEF OwnersAssumption
<1>1. TypeOK /\ ClaimLockInv
  BY DEF IInv
<1>2. i \in Ids /\ owner[i] # Nobody
  BY <1>1 DEF TypeOK, Journals
<1>3. PICK h \in Handles :
        \/ Open(h) \/ Reclaim(h) \/ Observe(h) \/ Claim(h) \/ Commit(h)
        \/ Withdraw(h) \/ Conflict(h) \/ StoreFails(h) \/ Close(h)
  BY DEF Next
<1>4. /\ bundle[h] \in SUBSET Ids /\ inserted[h] \in SUBSET Ids
      /\ view[h].ids \in SUBSET Ids /\ Of[h] \in Workflows
  BY <1>1 DEF TypeOK, Journals
<1>5. \A S \in SUBSET Ids : Claimed(h, S)[i] = w
  BY <1>1, <1>2, OwnerEffect
<1>6. CASE Open(h) \/ Observe(h) \/ Commit(h) \/ Conflict(h) \/ Close(h)
  BY <1>6 DEF Open, Observe, Commit, Conflict, Close
<1>7. CASE Reclaim(h)
  <2>1. \E S \in SUBSET view[h].ids : owner' = Claimed(h, S)
    BY <1>7 DEF Reclaim
  <2> QED
    BY <1>4, <1>5, <2>1
<1>8. CASE Claim(h)
  BY <1>4, <1>5, <1>8 DEF Claim
<1>9. CASE Withdraw(h) \/ StoreFails(h)
  <2>1. pc[h] = "withdraw" => i \notin inserted[h]
    BY <1>1 DEF ClaimLockInv, Committing
  <2>2. pc[h] = "withdraw" => Without(inserted[h])[i] = w
    BY <1>1, <1>2, <1>4, <2>1, OwnerEffect
  <2> QED
    BY <1>4, <1>5, <1>9, <2>2 DEF Withdraw, StoreFails
<1> QED
  BY <1>3, <1>6, <1>7, <1>8, <1>9

\* Committed ownership is immutable: no rejected, failed or repeated call takes
\* an id from the workflow whose journal records it.
THEOREM OwnershipIsPermanent == Spec => OwnershipPermanent
<1>1. IInv /\ [Next]_vars =>
        [LoseFile \/ \A w \in Workflows : \A i \in journal[w].ids :
           owner[i] = w => owner'[i] = w]_vars
  BY PermanentStep
<1> QED
  BY <1>1, SpecIInv, PTL DEF Spec, OwnershipPermanent

\* A workflow enters review for a conflict only while the conflict stands.
THEOREM ReviewsAreJustified == Spec => ReviewJustified
<1>1. IInv =>
        \A h \in Handles :
          pc[h] = "conflict" => Conflicts(h, bundle[h] \cup view[h].ids)
  BY DEF IInv, ConflictInv, Conflicts
<1>2. IInv /\ [Next]_vars =>
        [\A h \in Handles :
           pc[h] = "conflict" /\ journal'[Of[h]].review /\ ~journal[Of[h]].review =>
             Conflicts(h, bundle[h] \cup view[h].ids)]_vars
  BY <1>1
<1> QED
  BY <1>2, SpecIInv, PTL DEF Spec, ReviewJustified

================================================================================

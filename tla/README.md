# Verification of hype-accumulator

TLA+ models of the parts of `hype-accumulator` that decide whether capital is
spent once, recorded for ever and released for exactly what was bought; TLC
configurations that check them on small instances; and TLAPS proofs of the
properties that matter most for every value of the constants. Source paths are
relative to the repository (`src/src/` is the Rust crate).

## 1. The system

A scheduled command wakes once per eligible UTC day, scans the account's
movements, admits deposits into a paced budget, decides an amount, and (in the
live path) prepares one signed immediate-or-cancel spot order, sends it, and
reconciles it read-only until it is final and the decision's capital is settled.
There is no long-running server: every actor is a command that takes a few file
locks, does a bounded piece of work and exits, so all state that matters is in
files and every interleaving is one of commands, crashes and the venue.

| component | state | operations | interacts with |
|---|---|---|---|
| pacing (`pacing.rs`) | deposits, withdrawals, timeline, decisions, admitted/invested/committed totals | `reconcile_capital`, `decide_bound`, `settle_decision` | the runtime calls it and stores its state |
| capital ledger (`ledger.rs`) | journal, snapshot, pending append, protected anchor, replayed totals | `open`, `append`, `checkpoint`, `restore_clean` | the runtime appends; backup copies |
| signer-free runtime (`runtime.rs`) | state file, pending cycle, proof of the last cycle | `apply_cycle`, `recover_pending_cycle`, `record_live_journal_intent`, `settle_live_decision`, HYPE backfill | one exclusive lock; writes pacing state and ledger |
| workflow journal (`workflow.rs`) | a hash-chained file per decision, pending append, checkpoint | `open_or_create`, append, recovery, peek, terminal scan | protected head store, owner store |
| protected head store (`workflow.rs`) | one head file per journal, out of band | `load`, `compare_and_swap` | every append of the journal |
| exchange owner store (`workflow.rs`) | one file per account: venue order and fill ids with their workflow | `claim`, `claim_and_commit`, fill bundles | open and observation of every workflow |
| order workflow (`workflow.rs`) | stage, pending action, cumulative totals, finality | prepare, observe submission/fill, finalize, absence, eligibility, complete, review | live probe |
| live decision (`live_decision.rs`) | none of its own | `prepare_live_order_workflow` | runtime, journal, order envelope |
| live probe (`live_probe.rs`) | observed-fills accumulator | `submit`, lookup, `record_reconciliation`, `record_conclusive_absence` | the venue, the workflow |
| operator commands (`bin/hype-live-probe.rs`) | command lock, runtime lock | `prepare`, `run-cycle`, `submit`, `reconcile`, `release`, backfill | all of the above |
| backup (`backup.rs`) | bundles | create, verify, restore | ledger |
| HYPE history (`workflow.rs`) | none of its own | aggregation of finished workflows, replay of transfers to the custodian | live decision, journals |
| HYPE inventory (`runtime.rs`, `monitor.rs`) | acquisition rows, recorded movements | attribution, netting of a scan, judgement against the balance | every cycle |
| HYPE status (`monitor.rs`, `status.rs`) | the published document | what is held, what may be sent to the custodian, staking shortfall | every cycle writes it, the owner acts on it |
| history directory (`bin/hype-live-probe.rs`, `live_decision.rs`) | its binding beside the operational config, the runtime's directory and declared journals | bind, record, verify, release by absence | `prepare`, `release` |
| signal (`signal.rs`, `signal_source.rs`) | one snapshot file and its lock | plan, build, publish; select and judge health | the timer's producer writes it, cycles and metrics read it |
| main loop (`main.rs`) | none of its own | signal, account, movements, judgement, halt or commit | all of the above |
| metrics, config, asset identity, scripts, research | inputs and outputs | | read by or written from the runtime |

What is hard here:

* **crashes** between any two of the many small durable writes (an append is
  seven file operations on four files; a cycle is a pending file, several ledger
  appends, a state file and a proof file);
* **power loss**, which undoes what was renamed or written but not yet synced;
* **several commands** with handles on the same journal, all but one stale;
* **ambiguous failure**: an I/O error or a lost response says nothing about
  whether the effect happened, and the call will be repeated;
* **the venue**: answers lag, arrive in parts, carry a skewed clock, and can
  contradict what was said before;
* **the owner**, who moves HYPE and USDC by hand at any moment, the staking
  custodian included, and whom the program sees only through a scan and a balance
  that speak of different moments;
* **storage that lies**: a history directory that is unmounted, recreated, or
  robbed of one file looks like a shorter history;
* **time**: expiry, the end of the decision's UTC day, and the horizon after
  which "no such order" is evidence.

What makes each part correct:

* journal: a reported record survives; the head leads the journal by at most the
  one pending record; what a crash left is never reported as a rollback by an open or
  a scan, and by an append only through a handle that the head has passed; an event is
  committed at most once; what is left after a crash can be repaired by a retry;
* owner store: an id a journal records stays owned by that workflow; nothing is
  withdrawn that may back a record; review only for a conflict that stands;
* live day: nothing is sent before it is durable; absence is never concluded of
  an order that exists or may yet; capital is settled once, for exactly what was
  bought; an honest venue raises no alarm; every decision is settled eventually,
  except on the two kinds of days that the code leaves to an operator;
* pacing: capital is conserved, the reserve is never spent, replays are
  idempotent, no refusal repeats itself for ever, pacing and ledger agree;
* ledger and runtime: a cycle is applied entirely or not at all, once; no movement
  is scanned past; the recurring cycle leaves the live one its boundary;
* backup and restore: a bundle is a state the head once covered, whatever was
  appended meanwhile; a restore that reports success restored it exactly, and one
  that was killed can be run again;
* HYPE: a purchase is split once into residual and eligible; the program stops for
  missing HYPE exactly when some is missing; decisions together reserve no more than
  the configured residual; an owner who follows the published figures leaves that
  residual in place, and a shortfall is reported only when something is not staked;
* history directory: the absence of a journal is taken as proof only when it is one;
  no earlier journal is left out of an inventory;
* signal: one snapshot per decision boundary, the same for every reader.


## 2. Modules

| module | models | kind |
|---|---|---|
| `AppendLog` | what a journal promises: an append-only log with optimistic concurrency | abstract specification |
| `WorkflowJournal` | one journal and its side files, one file operation per step | refines `AppendLog` |
| `OrderOwners` | the owner file shared by the journals of an account | state machine |
| `OrderWorkflow` | every call on one workflow: its guards, its evidence, what it appends | operators |
| `LiveDay` | one decision day across runtime, journal, wire, venue and settlement | composition |
| `Calendar` | ticks, days and the day's decision boundary | operators |
| `Chronology` | the order in which capital and transfers are replayed | operators |
| `Pacing` | `PacingState` and its methods, as functions on a record | operators |
| `CapitalLedger` | the ledger's capital events and what replaying them gives | operators |
| `CapitalCycle` | `apply_cycle` and `settle_live_decision` over both books | composition |
| `CycleLog` | what the runtime promises of its cycles | abstract specification |
| `LedgerStore` | the ledger's four files: open, append, checkpoint, recovery | operators |
| `RuntimeStore` | the pending-cycle protocol over `LedgerStore`, with a backup running beside it | refines `CycleLog` |
| `LedgerRestore` | the clean restore of a bundle, killed and run again | state machine |
| `StoreSystem` | the host that runs and the host that restores | composition |
| `HypeHistory` | lots of finished workflows and the replay of custodian transfers | operators |
| `HypeInventory` | the runtime's claim on the account's HYPE | operators |
| `HypeStatus` | what a cycle publishes of the HYPE: figures and health reasons | operators |
| `Holdings` | decisions, the owner's movements, and both checks against the balance | composition |
| `HistoryRoster` | the history directory, its binding, and the declared journals | state machine |
| `SignalFeed` | the producer of the daily snapshot and its readers | state machine |
| `SharedFiles` | `OrderOwners`, `HistoryRoster` and `SignalFeed`, which share no variable | composition |
| `*Proofs` | inductive invariants and theorems (section 5) | proofs |
| `MC*` | the instances TLC checks | |

Where one run checks several instances of a module, a variable that never changes
picks the instance in the initial state: `world` in `CapitalCycle`, `terms` in
`LiveDay` and `Holdings`, `shelf` in `LedgerRestore`, `site` in `HistoryRoster`,
`subject` in `SharedFiles`.

### WorkflowJournal

The state is the disk as a process sees it (`journal`, `torn`, `pending`, `ckpt`,
`head`), what of it would survive a power loss (`synced`, `unsynced`), the append
lock, and for each process its program counter and the log its handle holds. A
log is a sequence of records; the first record is the binding. The hash chain is
abstracted to the log itself: a head, a checkpoint or a handle that names a hash
names the only log with that hash.

Each step is one file operation of the code: `Check` is the verification at the
top of `write_record_while_locked` together with the rename of the pending file,
`PendSync` the sync of its directory, `SwapHead` and `SwapSync` the protected
head's rename and sync, `TearLine`/`WriteLine` part or all of the line, `SyncLine`
and `SyncLink` its syncs, then the checkpoint and the removal of the marker.
`Recover` takes the verdict of `recover_pending_append` and joins the append at
the step recovery repeats. `Attempt` is `open_or_create`, with or without the
peek that `prepare`, `submit` and `reconcile` make first; `Scan` is the locked
read of the historical aggregation.

Failures: a `Crash` ends a process wherever it is; `IoError` ends a call with an
ambiguous error and leaves the handle to be used again; `PowerLoss` ends all
processes, may keep or lose unsynced bytes (whole or torn) and unsynced renames.
`HeadReverts` says whether a power loss may undo a renamed protected head. The
head file and the journal are taken to share a directory, as
`protected_head_path_for` arranges, so one directory sync covers both.

### OrderOwners

`owner` is the owner file, `journal[w]` what the protected head of workflow `w`
commits to (ids, and whether it is in review), and each handle holds a `view` of
its journal that may be stale. `Claim` is the part of `claim_and_commit` and
`claim_fills_and_commit` before the callback, `Commit` the callback with its three
outcomes (committed, ambiguous, rejected), `Withdraw` the part after a rejection;
the store's lock is held across all three. `Conflict` is the journal's own
`mark_manual_review`, which runs after the store's lock was dropped. `Reclaim` is
the claim that `open_or_create` repeats for whatever its journal records, after
the journal's lock was dropped. One key space stands for order ids and fill ids.
The file may be lost between commands (`LoseFile`), because a missing file reads
as an empty one. An append is atomic here, which is what `WorkflowJournal` shows.

### OrderWorkflow and LiveDay

`OrderWorkflow` has the workflow as a record and each call as a function from it
to the next record and an answer: preparation of an action, submission, fills
reported one by one or cumulatively, finality, conclusive absence, eligibility
with each kind of evidence, the offline staking calls, completion, review. All
identities a call compares (account, asset, hashes, price, watermarks) are one
flag, `exact`: the code refuses a call if any of them differs. Venue ids that
another workflow owns are the set `Taken`.

`LiveDay` is one decision day with at most one order. `runtime` is the runtime's
record of the decision (planned or settled, whether a journal path was declared,
what it was settled for); `journal` is the state the workflow replays to;
`accumulator` the observed-fills file; `wire` whether a signed order is under way;
`venue` the order there; `cmd` the command that holds the journal's command lock.
`release` needs only the runtime lock and is therefore an action of its own that
interleaves with `reconcile`. Every durable write and every venue call is a step
and `Stop` may come before any of them.

Quantities are abstracted to lots: the venue's figure is a number, the journal's
and the ledger's credits are the set of executions they are sums of, so "for
exactly what was bought" is an equality of sets. The clock is this host's; the
venue's differs by `skew`, at most the terms' `lag` either way. `Deliver` accepts a
nonce once and never at or after its signed expiry: that is the venue's contract,
on which the program relies. `lies` is the set of status answers that contradict
the venue's own history; it is empty but in the terms `Lying`.

Two things leave a day open for an operator, and both are modelled. An order that is
not filled ends in one of `ends`: `canceled`, or a status that `finality_from_status`
does not know (`unrecognised`, for instance a margin or self-trade cancellation), which
finalizes nothing (`live_probe.rs:970-987`). And the account's history may reach the
venue's row cap at any moment (`ReachCap`, where the terms allow it), after which
`ReadFillHistory` is refused for good and no absence can be recorded
(`live_probe.rs:738-743`, recovery runbook lines 73 and 158). One flag stands for the
order history and the fill history: either at its cap ends the command the same way.
`EventuallySettled` excepts exactly these days (`LeftOpen`), and nothing else.

### Pacing, CapitalLedger and CapitalCycle

`PacingState` is replaced as a whole by each of its methods or left alone, so
`Pacing` is a set of functions on a record: `Reconcile`
(`reconcile_capital_preserving_admissions`) enters a batch of events and replays
everything that is ready (`ReplayReady`: reset, timeline, `AdmitDeposit`,
`ApplyWithdrawal`), `Decide` (`decide_bound`) plans (`Planned`) and allocates
(`Allocate`, `commit_plan`), `Settle` (`settle_decision`) spreads fill and debit
and releases the rest. `Valid` is what the code validates of every new state; a
refused operation gives a record whose `err` says why. Amounts are small
naturals, checked additions on `u64` plain ones; confirmation and approval of a
deposit, which come from one operator artifact and of which the later counts,
are one time; reasons, alerts and the signal's multiplier are left out (`go` is
whether signal and operator allow a purchase at all).

`CapitalLedger` is the other book: a sequence of events and what `apply_event`
makes of them, with the capital timeline that may at no time show more going out
than had come in. A batch is accepted only if the whole journal with it still
replays (`validate_append_batch`). Orders, fills and fees, which the runtime never
writes, observed balances and staking events are left out.

`CapitalCycle` has the clock (`now`), what the venue has moved (`occurred`), the
operator's admission artifact (`approvals`), the two books and the scan cursor.
A `Cycle` is one call of `apply_cycle`, in `dry`, `observe` or `live` mode, with a
scan that is complete, holds a movement of an unknown kind or failed, and that may
miss what the venue lists late (`late`). `CycleResult` follows the code's branches:
the date is decided already, its boundary can still be decided (reconcile as of
the boundary, defer or decide, reconcile up to now), or it cannot. It yields both
books and the cursor together or leaves all three and names the refusal in
`refused`; how the files behind this survive a crash is `RuntimeStore`'s subject.
`SettleLive` is a settlement with any fill up to the plan. Cycles and settlements
hold the runtime lock throughout and are therefore steps.

### LedgerStore, RuntimeStore, LedgerRestore and StoreSystem

Every record of the capital ledger carries the hash of the one before it, so a
head, a prior length and a digest are modelled by the sequence they stand for. An
operation is a *plan*: the durable writes it makes, worked out from the files it
found, with the file whose content each compares first. `RuntimeStore` runs the
plans of a runtime process (open and recover, commit a cycle: pending file,
`RuntimeCyclePrepared`, capital events, `RuntimeCycleCommitted`, state file,
proof, removal of the pending file) and of a backup process, which takes the
ledger's lock call by call and reads files in between without it. A process may
be killed between any two writes; an appended line is two writes, so that it can
be met torn. A cycle is named by its attempt, because its hash covers its time.
Power loss between a rename and its sync is `WorkflowJournal`'s question and is not
asked again here; I/O errors that do not kill, schema version 1 and linked files
are left out.

`CycleLog` says what comes out: cycles are decided one at a time, once, on top of
a state that has applied the earlier ones, and each is eventually applied. In the
mapping, a cycle is decided when its prepared event is under the ledger's head.

`LedgerRestore` is `restore_clean` on the second host: the intent, the anchor,
journal, snapshot, the removal of the intent; which temporaries of atomic writes
a kill leaves behind, which of them the next run may use or sweep, and which it
must refuse. Bundles are all that passes between the hosts and `BackupIsAHead`
says what a bundle is, so a behaviour of `StoreSystem` is one host's or the
other's.

### OrderWorkflow, HypeHistory, HypeInventory, HypeStatus and Holdings

The same HYPE is described twice: by the workflows (what each bought, split into
residual and eligible, and what the replay of custodian transfers leaves of it)
and by the runtime (acquisition rows of settled purchases, netted with recorded
movements). Each description is compared with the account's balance by a different
command at a different moment, and stops the program when the balance is short.
`Holdings` has the account itself (`Spot`), the owner's movements (`Move`:
deposits, transfers to the custodian or elsewhere, sales, which no scan shows), the
decisions (`Execute`, `Reconcile`, `Resolve`, `Settle`, `Backfill`), the cycle in
two steps (`StartCycle` asks for the balance, `FinishCycle` judges it after other
things happened) and `PrepareDecision`. A connector that does not name the other
party of a transfer yet is `naming = FALSE`; a purchase settled by a build that
recorded no acquisition row is `LegacyDay`. The price is one.

`HypeStatus` is the document a cycle publishes of all this: what the ledger says is
held, what the owner may send to the custodian next, and the reasons for alarm. The
judgement that stops a cycle is read back from that document, as in the code. `offer`
is the figure as the owner reads it who follows the runbook (he waits until what he
sent is counted); a movement is marked `offered` if it was within it. Halting cycles
publish it too, except the live command's, which only refuses. A claim larger than
the balance publishes nothing to send. A scan whose rows the state refuses to record
(`main.rs:304`) needs two contradicting answers about one movement and is left out.

In the "library" world one workflow receives every call of a set with evidence of
every kind, in any order and repeated: the public surface of `OrderWorkflow`
without the command that usually calls it.

### HistoryRoster

`shown[p]` says which volume a path shows (the one with the journals, an empty one
in its place, or none), `file` and `head` what is on each volume. A command works
through `prepare` or `release` step by step: lock beside the journal, check of the
directory binding, creation, first binding by a hard link, the runtime's lock and
recorded directory, the check of declared journals, the peek, the scan, the locked
rewrite of the binding, declaration, creation. Storage changes at any moment
(`LoseDirectory`, `RestoreDirectory`, `LoseJournal`), and so does the config
(`EditConfig`); `steady` remembers whether it did between the check of the
declared journals and the scan. `Conclude` stands for submission, reconciliation
and settlement, which `LiveDay` has step by step. Names are modelled, contents are
not: a volume restored to an older but consistent state is outside both the model
and what the code claims to notice.

### SignalFeed

A producer plans (`PlanSnapshot`), reads the book and judges it as of the boundary
(`BuildSnapshot`), and publishes under the file's lock (`LockSnapshot`,
`WriteSnapshot`): an earlier valid snapshot of the same boundary stays. The cycles
of two runtimes read the file when they begin and apply it when their network
reads are done; metrics read it at any time. The file may be forged, or absent, at
first. A book has one revision, its observation time is the venue's clock (up to
`MaxLag` off), and every date is due; which dates are due is `CapitalCycle`'s.

## 3. Checks

| run | question | result |
|---|---|---|
| `journal_safety` | do records, head and checkpoint survive any three failures, with two owners, a peeker and a scanner; does a command that opens directly get in again | holds, 1 105 806 states |
| `journal_peek` | and one that peeks first | **violated** (finding 1) |
| `day_safety` | write-ahead, conclusive absence, exact settlement, no false alarm; frozen totals and ledger = journal with a contradicting venue | holds, 5 444 543 states |
| `day_settles` | is every decision settled when the day's command is retried the same day, unless its order ended in a status the code does not take for terminal, or only its absence could settle it and the history has reached the row cap | holds, 70 994 states |
| `day_stranded` | and when it is not retried | **violated** (finding 2) |
| `capital_cycle` | do the two capital books agree and accept the same, is the reserve kept, is anything missed, is the boundary honoured, is the live cycle's slot kept | holds, 20 629 states |
| `capital_late` | does the replay call only a broken state corrupt | **violated** (finding 3) |
| `store_recovery` | is a cycle applied wholly and once across kills, what is a backup taken meanwhile, does a restore complete | holds, 466 727 states |
| `holdings` | do the balance check and the history check stop for exactly the HYPE that strayed; is a purchase split once; is what the status offers safe to send | holds, 290 223 states |
| `holdings_offer` | is an owner who only sends what the status offers ever refused an order | **violated** (finding 4) |
| `shared_files` | who owns a venue id; is absence proof when a decision is released by it; one signal per boundary | holds, 1 111 436 states |
| `roster_lost` | does every lost journal block new orders | **violated** (finding 5) |

Every property of a passing run is broken by a plausible bug in the code it is
about; the bugs that need a definition of their own stand beside the definitions
they change (`\* Mutant: ...` or `\* As if ...`).

### Bounds and why they are enough

* `journal_*`: `journal_safety` has two owners of which one peeks, a scanner, two
  bindings and two events, a log of at most three records (`MaxLen`) and three
  failures (`MaxFailures`); `journal_peek` one owner that peeks, two records and
  one failure; in both a power loss undoes no renamed head. An append touches only the last record and its predecessor, so a short
  log has every relation between head, pending append, journal and checkpoint;
  three failures give a crash during the recovery of a crash and one more. The
  theorems lift the bounds.
* `day_*`: two executions; `Skewed` has acceptance of one or two lots, one tick of
  skew either way, a window of three ticks and a day that ends within it, `Lying`
  four answers that end the order early, end it short, overstate it or show it
  where it was not; one stop. Two executions are the fewest for which a partial
  answer, a partial fill and a late fill differ; in `Skewed` an order may also end in
  a status the code does not know. The liveness runs have one execution at an honest,
  punctual venue, an order that may end in such a status, and a history that may reach
  the row cap at any moment.
* `capital_cycle`: days of two ticks with the boundary on the first, years of three
  days of which one is a scheduled weekday (1) and the last a final catch-up day,
  so one decision is scheduled, one is catch-up and one day has none. Amounts 5, 3
  and 2 against an automatic limit of 4, yearly and total caps of 6, a daily limit
  of 2, a reserve of 1 and a fee reserve of a fifth: the first deposit is admitted
  in part, the second meets the caps, the withdrawal takes unadmitted funding
  first and admitted capital after it, and the first decision may still be open
  when the second is due. The world `Tranches` has both deposits and a cycle in
  every tick, `Timing` one deposit and one withdrawal at nearly any time, listed
  up to two ticks late, and cycles that skip ticks or whose scan fails. The scan
  overlap is one tick: `NothingMissed` says that it has to cover the delay of what
  it is to catch, and that this is enough. `Backdated = FALSE` keeps approvals
  later than the withdrawals on record; an approval dated at or before
  one can make the replay refuse its own records, as a late transfer does (finding 3).
  `capital_late` has one deposit, two transfers and an overlap of two.
* `store_recovery`: three attempts at a cycle, the first with two capital events,
  two kills and one backup. Two kills give a kill during the recovery from a kill;
  two capital events are the fewest of which one may be in the ledger and the next
  not. On the second host three kills, one loss of the destination's files, and
  shelves with one bundle, with a bundle and its extension, and with two that
  differ, each with and without an empty one.
* `holdings`: two decisions of four HYPE, of which the venue matches three and credits two
  (the order fills in part, less a fee), with a residual of one; the purchase of an older
  build is of two; two movements of one. Two movements and two lots are the fewest for which it matters which movement
  takes which lot; the clock advances with purchases, movements and recordings only,
  so these bound it. Two transfers to the custodian, each of what a status offered,
  with the books settled before and after, are among the behaviours. `holdings_offer` keeps to
  the runbook instead (`RunbookRoutes`: deposits and transfers to the custodian):
  two purchases of three with a residual of one, and four movements of two. In the library world
  `Calls` has 35 calls and four times, each refused, accepted or repeated at every state.
* `shared_files`: owners, two workflows of which one is opened twice, two ids, two
  failures: a stale handle, a partial conflict of a bundle, a conflict met while
  the claim it meets is being withdrawn. Roster, three installations: two runtimes
  with two and one decisions under two commands at once; the same with a journal
  name that may be used twice and one mishap; one command with two configs and two
  mishaps. Signal, days of four ticks, two boundaries, two producers, two runtimes,
  a venue clock one tick off either way, freshness of two ticks.

### Fairness

`journal_safety` (`DirectRetryOpens`) and `journal_peek`: a process that has begun
a call takes its next step (weak fairness: these are straight-line file
operations), and a command that failed is run again. Nothing is fair about who
gets a lock: it is only *tried*, so two commands may refuse each other for ever in
principle; what is promised holds once the lock is left alone. `day_settles` and
`day_stranded`: a started command runs; the timer and the operator start
`run-cycle`, `reconcile` and `release` again and again (strong fairness: they are
enabled only between commands); a message is eventually delivered or lost; an
immediate-or-cancel order ends, if not filled then in any of the terms' `ends`; and of
infinitely many lookups infinitely many are whole, that is, the fills of an order do
not leave the venue's recent window before a lookup has seen them. Nothing is assumed
about the words the venue uses for an end or about the length of the account's
history: the days these leave open are excepted by the property (`LeftOpen`).
`RetriesSameDay` is the one scheduling assumption the code does not
enforce: that the day's timer is retried before the date changes when its command
stopped between the declared journal path and the journal. Without it the
property fails (finding 2). `store_recovery`: the timer starts the runtime again
and what it started goes on, and so does a backup, whose lock a runtime may be
waiting for (weak fairness of each); nothing has to be killed.

## 4. Findings

1. `journal_peek`: a crash that leaves a torn line is repaired by
   `open_or_create`, but `prepare`, `submit` and `reconcile` call
   `peek_committed_binding` first, which recovers nothing and fails with
   `TruncatedJournal`, for ever. The comment at `live_decision.rs:240` says such a
   crash must be retryable.
2. `day_stranded`: the declared journal path is durable before the journal is
   created, and `release` refuses every decision that declared one, so a command
   that stops in between and is not retried the same UTC day leaves capital that
   neither `reconcile` nor `release` will settle. The recovery runbook (line 473)
   says to release it.
3. `capital_late`: a transfer out that a scan lists only after a later one chooses the
   unadmitted funding it returns (`pacing.rs:1388`) without regard to what the later
   one's frozen allocation took. If that was the same funding, the allocation no
   longer fits, and this and every later cycle fails with `persisted pacing state
   violates an invariant` (`pacing.rs:1788`) though no invariant is violated; the
   comment at `pacing.rs:1246` says that the replay is there for withdrawals that are
   reconciled late.
4. `holdings_offer`: the replay takes an outflow's credit from the cap before it
   knows what the lots in spot can give (`workflow.rs:683`), so an outflow larger than
   they are uses up cap that a later one needs. It happens to an owner who deposits
   HYPE, sends what the status offers, and is offered the same again because the first
   send is netted against his deposit: the two sends together exceed the lots, a
   transfer after the next purchase finds no cap, and every later order is refused for
   a gap of HYPE that the custodian has. The doc comment at `workflow.rs:3454` says
   such an outflow only drops the excess. Without deposits it cannot happen in the
   runs (`NoGapLeft`, part of `TransfersSound`); the premise `Covered` of
   `HistoryExact` leaves it out.
5. `roster_lost`: the runbook (line 505) says that a missing declared journal
   blocks new orders. It does for every decision but the current one: its own
   journal, created and then lost together with its head, looks like the retry of a
   prepare that had not created it, and a second journal is created for one
   decision. (An order signed from the first is not known to the second; what
   remains is the venue's nonce.)

Known and not a run: an append through a handle that is still open can answer
`RollbackDetected` (`workflow.rs:4665-4669`, and 4702-4706 for a refused swap) though
nothing was rolled back: an earlier append, this handle's own or another process's, failed
or was killed between head and line, so the length of the file is what the handle knows
and the head is not. `RollbackOnlyWhenPassed` says that this is the only such case: the
head then strictly extends what the handle has. Opening again recovers the record and
cures it; no open and no scan reports a rollback.

With `HeadReverts` `RollbackOnlyWhenPassed` fails, because
`compare_and_swap` (`workflow.rs:2565`) renames and then syncs its directory: a power
loss in between may undo the rename while an earlier step's journal line survives, and
the journal is then refused as rolled back. The doc comment at `workflow.rs:2477` says a
crash after the rename is indistinguishable from a completed swap, which is true of a
process crash. On a final catch-up day outside the weekdays a deposit that
becomes usable between boundary and cycle makes the live cycle fail with `live
decision slot closed` (`runtime.rs:2518`), because whether a live cycle is due is
judged on the capital of the moment and whether the recurring cycle had to leave
the slot on the capital of the boundary. On a scheduled weekday the slot is kept
(`ScheduledSlotKept`). Also left out by
`Covered`: a purchase enters the replay at the time its last fill was *recorded*
(`workflow.rs:3550`, 1298), so HYPE sent to the custodian between a fill and its
recording takes nothing from that lot and leaves a gap too; no offer of the status
counts such HYPE. Left out by `BoundWithinCap`: `workflow.rs:3451` says that the total
credited is capped, and where signer evidence has netted part of a transfer from a
decision's residual (`workflow.rs:4546`) that part uses up the cap only as far as
there is any left (`:683`). When an earlier transfer of HYPE that was not the
bot's has used it up, both are credited, and a sale of the difference passes the
check of the histories. It needs evidence that only the library's callers and the
tests record (the signer-free binary passes none), and the cycle's judgement of the
balance, which knows no evidence, still halts on the sale (`JudgementExact`). And two halts that pass by themselves: a
transfer between the venue's reading of the balance and the answer's arrival is
taken to be in that balance (`monitor.rs:292`), and one between a live command's
scan and its second balance looks missing until the next cycle records it
(`live_decision.rs:283`). `JudgementExact` and `HistoryExact` state the premises
under which neither happens.


## 5. Proofs

`tlapm` checks all of them; nothing is assumed beyond the named assumptions on
constants and what a theorem's `ASSUME` says.

**WorkflowJournalProofs.** The invariant `IInv` adds to the type invariant:
the lock (`LockOK`: who holds it is exactly who is inside a call), each process's
mode and goal (`ModeOK`, `GoalOK`), what the holder has achieved at each program
counter (`HolderOK`), and what the disk looks like when nobody is inside a call
(`DiskOK`: there is a pending append that has not begun, or has only reached the
head, or is published; or there is none and head, journal and checkpoint agree),
including what it would look like after a power loss (`RebuildOK`). `HeadLeadsByOne`
alone is not inductive: that recovery restores it depends on the pending file
being synced before the head moves. Theorems: `TypeCorrect`, `JournalDurable`
(`ObservedSurvives`, `HeadLeadsByOne`, `RollbackOnlyWhenPassed`; the last two also as
`HeadStaysClose` and `RollbackMeansPassed`), `JournalImplementsAppendLog`
(the refinement, step by step) and `NoDuplicateEvents`. All are stated under
`~HeadReverts`, and need it (section 4).

**SharedFilesProofs.** The roster: any number of configs, runtimes, decisions, commands and
mishaps to storage. `RosterInv` adds to the types: who is about to write a binding
holds the lock beside it, has read what it replaces and replaces it by no less
(`BoundInv`, from which `BindingsGrow` follows: without the lock a prepare writes
back what it read before another added to it); whoever works on a decision holds
its runtime's lock, so that two commands of one runtime are never both past it
(`LockInv`); a journal is declared before it is created, a bound decision is
declared, and a released one is not (`DeclareInv`, hence `ReleasedHadNone`); and
while storage has not changed under its scan, a command counts each journal that
was declared before, none under the name it leaves out, and whatever it missed
belongs to another runtime (`CountInv`, hence `InventoryComplete`). `CountInv` is
what needs the other three: a journal created after the scan would be missed if
another command of the runtime could create one, and one that was passed over as
the current decision's own would be if two decisions could declare one name.

The signal: any number of producers and runtimes, any lengths of day and
freshness, any lag of the venue. That nobody replaces what a decision was made from
does not follow from the lock alone, since the file is replaced every day: the
invariant says that boundaries are published in their order (`FileInv`; producers
of two boundaries are never at work together, which needs `Patience + StaleAfter <=
DayLength`), that who writes holds the lock and a boundary nobody published
(`ProducerInv`), that whatever was seen is the one snapshot of its boundary
(`SeenInv`), and that a cycle read nothing older than what it knew of (`CycleInv`).
`OneSignalForAll` assumes that the freshness window is no longer than the time from
midnight to the boundary (900 seconds before noon, as shipped): with a longer one,
a cycle that is late by most of a day finds the next day's snapshot and decides
without its own.

The owner file: any number of workflows, handles and ids. `IInv` says that whoever is between its claim and the end
of its commit holds the store's lock and has inserted nothing its journal records
(`ClaimLockInv`), that between load and reclaim only what was loaded may lack its owner
(`ReclaimInv`), that a conflict met under the lock is about a claim that nobody
will take back (`ConflictInv`), and that a workflow in review claims nothing
(`ClaimInv`). Theorems: `OwnersTypeCorrect`, `VenueIdsOwned`, `OwnershipIsPermanent`
(an action property) and `ReviewsAreJustified`.

**LiveDayProofs.** Any executions, any quantity, any terms (the sizes the venue may
accept, lag, window, day, the status an order ends in, whether the history reaches the
row cap, what the venue may lie about) and any number of commands that stop half-way. What the properties say of journal, runtime and venue depends between the
steps of a command on what the command carries, so `LiveInv` says what that is worth
at each point: a prepared, undecided action is pending and unexpired
(`JournalInv`); what the venue knows it was sent in time (`VenueInv`); an absence was
concluded past the effective expiry, when a request still on the wire is refused for
its age, because the venue's clock is at most `Lag` behind (`SettledInv`, hence
`AbsenceLasts`); a search for an absence began past it (`CommandInv`); at a venue that
does not lie the rows gathered are rows it made and what is final in the journal is all
of them (`HonestInv`); and a terminal answer, however old, is the whole truth
(`AnswerInv`). The last two support each other: rows that count as many as a terminal
answer says, and are among the venue's, are the venue's (finite sets), so neither a
settlement nor a review can be wrong (`CapitalExact`, `HonestyNeverAlarms`).
`NothingUnprepared`, `LedgerAgrees` and `TotalsFrozen` need no honesty. Any tick, stop
and retry is covered: the bounds `maxTime` and `MaxStops` are arbitrary here.

**StoreProofs.** Any number of cycles of any size, of kills, backups and restores; the
bounds of the run are arbitrary here. The files alone do not show whether a reopened
runtime would refuse: what protects it is that at every write the rest of the plan fits
what is on disk. So `IInv` says, of the ledger's files, that the head has exactly what
the journal has, or else that the pending file names the one record the journal lacks
(`LedgerKept`); of the books, that the ledger under the head is whole cycles, or whole
cycles and the first `k` events of the one written ahead, and that the state file takes
that cycle in only after its last event (`BooksKept`); of each process, for every
program counter, which tail of its plan is left and what of it the disk already shows
(`RecoveryLeft`, `HeadAhead`, `HeadDone`, `Publishing`, ... in `RuntimeKept` and
`BackupKept`); and that no cycle is on disk or in memory that was not minted (`Minted`,
`Within`). A kill keeps only the disk's part, and that is all a recovery needs
(`RecoveryBegins`). Theorems: `StoreInvariant`, `StoreNeverRefuses`,
`StoreHeadRecovers`, `StoreWholeCycles`, `StoreBackupIsAHead` and
`RuntimeImplementsCycleLog` (every step decides one cycle, applies the decided one, or
changes neither; which of them it is, is read off what the write does to the number of
events under the head). For the other host `RInv` says how far a restore can have come
with each intent (`CopyKept`), which temporaries a kill can leave (`TempsKept`) and
which tail of the restore is left (`RestoreLeft`); `StoreRestoredExactly` and
`StoreRefusedForCause` follow. They assume that body sizes are naturals
(`RuntimeStoreAssumption`) and that a bundle is a sequence
(`LedgerRestoreAssumption`).

**CapitalProofs.** Any calendar, limits, deposits, withdrawals, approvals, listing
delays and kinds of cycles. None of the properties is inductive: whether the
reserve survives a withdrawal depends on every tranche giving no more than it has,
and whether a replayed draw was ripe on what the state still says of its deposit.
`CapitalInv` has `Venue` (types of clock, movements and approvals) and, of the pacing
state, `Good`: its shape, the equations `Valid` checks, `Reserve` (nothing was given
yet, or the fixed reserve is free), `Known` (it says of each movement and approval
what happened), `Honoured`, `SlotOpen` (today's boundary is decided, not yet passed by
what is reconciled, or not scheduled) and `Passed` (the cursor passed only what is
known). The argument goes along the operations: a replay admits and withdraws one
entry at a time and keeps shape, bounds and reserve whatever the order
(`ReplayOneKeeps`, `WithdrawKeeps`); a decision draws at most its plan grossed up,
which fits the tranches and what is free above the reserve, although one rounds down
and the other up (`CommitmentFits`, from `DivUnder`: the plan times the denominator stays
below the budget times its complement); a settlement only gives back
(`SettleKeeps`); the batch of a scan says what happened, as of the boundary too
(`ScanBatch`); and a cycle keeps all of it on each of its branches (`CycleGood`).
Theorems: `CapitalSound`, `ReserveStays`, `BoundariesHonoured`, `ScheduledSlotStays`
and `NothingIsMissed`. The last assumes `ListedInTime`: the venue lists a movement
within the overlap of two scans and a tick, which is what the overlap is for.

`BooksAgree` compares the pacing state, which each cycle replays afresh from all
movements, with a ledger that only ever appends. Its invariant `BooksHold` adds to
`CapitalInv` what holds of the journal (`Booked`): it lists distinct events with
distinct ids (`Journal`), it replays without an error, the three totals a commit
compares agree, and the *set* of its events says exactly what the pacing state says
(`Said`: `MovesIn` of deposits and withdrawals, `AdmitsIn` of admissions, which sum to
what is admitted of each deposit, `DecsIn` of decisions). The order of the
journal matters only for errors: a replay that meets none gives per deposit,
commitment and day what the set of events says (`BookGrows`, one lemma per kind of
event, and `ReplayIs`). A batch adds exactly its events (`ExtendedIs`, `OrderedIs`),
and that is what the new pacing state says beyond the old one (`CommitBooked`, one
lemma for each way a cycle ends). What the induction cannot supply, the commit's own
checks do: no reused id, no error in the replay of the whole, no negative admission,
equal totals. So the theorem says more than the checks: three equal totals and a clean
replay make *every* entry agree. Theorem `BooksStay`.

**HoldingsProofs.** Any terms, quantities, outcomes, routes, amounts and calls with any
evidence, any number of decisions and movements, any residual and overlap. The first
part is about one call on one workflow: it repeats, refuses, sends to review, or
appends what its guards allow (`CallLeaves`). `SplitConserved` is not inductive: that a
later fill cannot change a recorded split depends on which stages still take fills, and
that a delegation cannot exceed what was confirmed on which action is pending. So
`FlowOK` says of a workflow what each stage and pending action imply (`StageOK`), how
split and evidence go together (`SplitOK`, and `BoundOK`: what the evidence binds of
all movements together is within the residual), and how far staking has come (`StakeOK`). `RetryHarmless` needs what the log leaves for ever
on top (`LogOK`: a recorded action is pending or its stage is passed, a recorded
eligibility is the basis of the split, a recorded submission was in time and its order
nobody else's), so that a retry is met before it can act, wherever the workflow is. `HoldingsInv` adds the account: movements have distinct ids that are their times
(`MovesOK`); a row of the movement ledger shows a movement, one row for each, and what
the cursor passed is recorded (`LedgerOK`); a balance under judgement is no older than
anything recorded (`CycleOK`); and of each day what the venue did, what was settled and its row (`DaysOK`).
Theorems: `HoldingsSound`, `SplitHolds`, `RetriesHarmless` and `JudgementHolds`. The last
is the identity behind the balance check: what is recorded, netted with what a scan from
the cursor sees as of the balance's time, lists exactly the movements up to that time,
each once and with its amount (`NettedLists`, `RowsSum`), though rows may be scanned
again and be recorded before their other party was known; with purchases and sales the
rest is arithmetic.

`HistoryExact` is about the replay that asks, before an order is signed, whether the
transfers leave enough in spot: a fold over the transfers by time, of which each takes
the lots then in the account, less what the decisions' evidence has bound of it. It
needs a second invariant, `Chronicle`: the decisions follow each other, and of each the
purchase, the record of its split and the transfers its evidence bound came in that
order (`ChronicleKept`). So a lot in spot at a transfer has all its bound transfers
behind it or is the one now bound (`BoundByOne`), and what was credited less what was
bound is what the lots hold (`LotsHold`, `Afford`). `Level` then says what the fold has
taken after each transfer: all that was sent within the cap, less what was bound
(`OneTaken` for one transfer, `NextTaken` for a step, `ReplayTakes` for all), and summed
over transfers or over decisions the bound parts are the same (`SumAcross`); hence the
answer (`ReplayExact`). Theorem `HistoryHolds`. Its premises are those of the property,
under which TLC finds it too: the books complete (`Settled`), the transfers covered by the lots
of their time (`Covered`), the evidence within the cap (`BoundWithinCap`) and no more
gone than was credited. The third is there because the proof asked for it: evidence can bind
more of a transfer than the cap leaves to it, and the replay then takes less than was sent.

**BufferProofs** continues `HoldingsProofs` with what the owner may take and what the
decisions keep. `TransfersSound` is about the owner. Its invariant (`OfferKept`) says of the moves that all
were offered: what has left and what the status now offers is together above the target
(`Keeps`), and what had left by any time had rows of acquisition on record by then
(`Booked`); it needs of a decision that fills without a time credited nothing
(`FillsKnown`). `Keeps` is the part about the buffer (`LeavesBuffer`). `Booked` makes the
premises of `HistoryExact` true, and nothing strayed, so the replay finds no gap
(`LeavesNoGap`). The third part holds in every state: however what left is split, the
custodian got at least what other destinations cannot account for (`SplitLeaves`,
`ShortfallIsReal`). Theorem `TransfersHold`.

`BufferKept` compares the residual with what later decisions reserve of it. Each decision
reserved what was missing to the target *then*, by a replay over the transfers the ledger
knew then. So the proof must compare two replays: one over the decisions before the last
and over what is known *now* of the time of the last decision, the other over all finished
ones and everything known (`MoreHistory`). The second meets the transfers of the first in
the same order, before all others, and they find the same lots, since later lots are later
than they and bind none of them (`HistoryGoesOn`, `Lockstep`); with no less cap it takes no
less of the residual, whatever of the unstaked part it takes (`Ahead`, `StaysAhead`), and it
never gives back (`RunWithin`). So the residual grows by the new lots at most
(`MoreReplayed`), and a lot is no more than its decision reserved (`LotWithin`). The
invariant is `BaseOK`: the first replay's residual and what the last decision reserved are
within the target. It survives what a ledger learns, because the cap only grows
(`CapGrows`) and what a scan adds comes after everything in the ledger (`LedgerGoes`): the
rows a connector named come after the unnamed ones, which no later scan reaches
(`NamingOK`). Theorem `BufferHolds`.

**SeriesProofs.** The lemmas about amounts that `CapitalProofs`, `HoldingsProofs` and `BufferProofs` share: sums of the values of a
function over a finite set (`SumSplit`, `SumMonotone`, `SumPlus`, ...), sums of sums taken
in either order (`SumAcross`), what a fold iterates, and that an order as `InOrder` of
`Chronology` chooses it exists for any finite set of ids and lists all of it.

**Only model-checked.** `NeverAtOdds` of `CapitalCycle`, which says that those checks
of a commit never fire: it depends on the order in which movements, approvals and
boundaries enter the books, and is not inductive without a model of every earlier scan.
All liveness (fairness and ENABLED are outside what the prover
handles), that of `CycleLog` included; and the mutants. The library's induction theorems
take an operator as parameter, which the installed provers cannot instantiate. Where a
proof needs induction on a length, it is had from well-founded sets of numbers (lemmas
`LeastOf` and `Inductive`), which name no operator; so the recursion of each operator
has to be unfolded by lemmas of its own, as `Flattens...` do for `FlattenSeq`.

## 6. Not modelled

* **Delegation and staking in execution.** Every staking call on a workflow is in
  `OrderWorkflow`, and `Holdings` makes them; a signer that would carry them out is
  not, because the shipped policy refuses it.
* **Data.** Formats, hashes, signatures, prices and sizes (one lot count), watermark
  ids, decimals; linked-file and permission checks; schema version 1 of the ledger.
* **I/O errors in the store modules.** There a process is killed between any two
  writes; a write that fails and lets its process go on is in `WorkflowJournal` only.
* **Storage.** A history volume or ledger restored to an older but consistent state.
* **Capital.** Limits that change between cycles, and invalid funding routes.
* **Signal.** The auxiliary input, which has no producer, and the in-memory snapshot
  store, which only tests use.
* **The venue's transport** and the request formats; answers are modelled by what
  they may say and when.
* **Output and input.** Metrics, the USDC side of the status and its mirror, the
  plausibility of the last trade, configuration and policy (validation of constants), asset identity,
  arguments.
* **Around the program.** The research harness and the scripts.

## 7. Plan

In the order of what they would add:

1. `CapitalCycle`: `NeverAtOdds`, from what a cycle has seen of the venue so far.
2. `LiveDay` over `RuntimeStore`: the one place where a crash in the settlement meets
   a crash in the ledger's append is composed of two modules that each take the other
   as atomic.

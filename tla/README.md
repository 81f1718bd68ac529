# Verification of the Personal Task Assistant

TLA+ models of the Personal Task Assistant, the TLC runs that check them on
small instances, and TLAPS proofs of their main properties for every instance.
Line numbers below refer to the repository's files as they are under `src/`.

## 1. The system

A FastAPI server keeps a board of tasks in SQLite (or Firestore). Around it run
processes that only share that server's HTTP API: adapters that turn messages
into tasks, an agent (MCP server and work loops) that claims tasks and reports
on them, and loops that remind and announce. Every process may die at any
point, is restarted by its supervisor, and repeats what it cannot prove done.

| Component | State | Operations | Talks to |
|---|---|---|---|
| SQLite task store and handlers (`app/store.py`, `app/main.py`) | table `tasks`, one session per request | create, patch, delete, `claim_agent_task`, `try_claim` | every client |
| Context ingest (`app/main.py` 311-372) | none of its own: one commit per item | `ingest_context` | adapters, store |
| Source health (`app/ingestion_store.py`) | one row per source | `report_source`, list | adapters |
| Ingestion ledger (`app/ingestion_store.py`) | receipt per (source, external id, fingerprint) | check, record | Telegram adapters |
| Telegram polling adapter (`adapters/telegram_polling_adapter.py`) | offset file | getUpdates loop, text, voice, buttons, replies | Telegram, ingest, ledger |
| Telegram business candidates (`adapters/telegram_business.py`) | state file: buffers, watermarks, candidates | buffer, analyze, card, press | Telegram, ingest, ledger, Claude |
| Agent worker (`adapters/task_assistant_mcp.py`, `automation/work_loop.py`, `claude_work.py`, `work_runner.py`, `work_report.py`) | claims counted, last claim, snapshots of the board | the MCP tools, `run_work` of both backends | claim and task API |
| Buttons and replies (`adapters/telegram_polling_adapter.py`) | the update at hand, its offset | `handle_callback`, `handle_reply_command` | Telegram, task API |
| Reminders, watch loop (`automation/watch.py`, `scripts/reminders.py`) | `reminder_last_sent_at`, watch state file | tick, plan announcements, list and stamp | task API, Telegram |
| Triage (`app/main.py` 411-586) | `last_shown_at` | next, apply | store, history |
| Ranking (`app/main.py`, `app/store.py`) | none | overdue, due soon, smart order, reminder due | triage, reminders |
| History sheet (`app/history.py`) | a spreadsheet, a flag and a lock per server process | `record_task_event` | Google Sheets |
| Scheduler, daily ritual (`automation/scheduler.py`, `daily_ritual.py`, `notify.py`) | next target time, digest file | nap, read, work, write, notify | task API, worker, Telegram |
| Firestore store (`app/store.py` 188-429) | documents, id counter, reservations of external ids | create, patch, delete, claim | server |
| Migrations, UI, authentication, speech to text, setup, evals | - | - | - |

What is hard in each part, and what makes it correct:

- **Task store.** The SQLite driver opens a transaction only when it writes, and
  handlers run in a thread pool: what a handler has SELECTed may be stale when
  it writes. Ids of deleted last tasks are given out again. Claims must stay
  exclusive, external ids unique and `completed_at` in step with the status,
  whatever overlaps.
- **Source health.** Reports come late, out of order and together; two first
  reports race to insert the row. No answered report may be hidden by an older
  one, and the two times kept must be those of reports that were shown.
- **Polling adapter, ingest, ledger.** Ingest, receipt and offset are three
  writes in three places. A death between them must neither skip a message nor
  make its tasks twice, and requests outlive the process that sent them.
- **Business candidates.** The offset is written per update, the state once per
  batch, so a death takes the state back behind the offset. Calls fail with
  and without their effect. Cards must not be repeated, candidates must wait
  for their answer, and no unread message may fall behind the watermark.
- **Firestore store.** Any number of instances share the database. A creation
  looks up the external id, counts an id and writes in three transactions; a
  PATCH reads outside of the transaction it writes in; old databases have no
  reservations. External ids must stay unique, reservations in step with their
  tasks, deleted tasks deleted and claims exclusive.
- **Worker.** The claim budget is tested before an await and counted after it.
  Reports and replies are appended to a description by a GET and a PATCH of all
  of it, by three clients. A session is cut off with requests under way. The
  run then reports what it did by the answers it had, or by what two snapshots
  of a board that others use differ in.
- **Reminders, watch.** A message is sent before it is recorded as sent, and
  recorded with the time the tick began; two senders do not know of each other;
  the watch state is in memory until the end of the tick.
- **Triage.** Two sessions read the board before either marks its batch.
- **History.** Background tasks look the sheet up, create it and write its
  header while others append to it.
- **Scheduler.** Naps are cut at five minutes, and just after the target time
  the next one looks nearly a day away. The digest must be of a board read
  after the ritual's own work.

`PROJECT.json` lists each of these hazards at its line, with the properties
that watch it or the reason why none does.

## 2. Modules

| Module | Models | Abstracts |
|---|---|---|
| `ClaimQueue` | what `POST /api/agent/claim` promises: a queue of tasks, no ids, no requests | |
| `TaskStore` | SQLite store and task handlers, one action per statement | order of candidates, texts, due dates, reminders |
| `LatestReport` | what the health register promises: the latest report is shown | |
| `SourceHealth` | `report_source` on SQLite (statement by statement) and on Firestore (one transaction) | HTTP, other sources |
| `Intake` | what the adapter promises the owner of a source: tasks, receipts and passed messages, no processes and no offsets | |
| `TelegramPolling` | polling adapter, ingest, ledger and Telegram's queue | texts; buttons and replies only move the offset |
| `Business` | business candidates of one chat, with the adapter's main loop | texts, prompts, `_prune`, several chats |
| `FirestoreStore` | Firestore store under the same handlers, one action per transaction or read outside of one | order of candidates, texts, due dates, `mark_shown` |
| `Worker` | a run of either backend with its MCP tools, another agent, the human's buttons and replies | what the model says and why it calls a tool: it calls any; a description is its notes |
| `Ranking` | `_task_rank` and its parts, `is_reminder_due` | modification times |
| `History` | `record_task_event` in several server processes | texts of the rows |
| `Rounds` | watch loop, reminder script, triage, scheduler and ritual, with `Ranking` and `History` | texts; the work run, which is `Worker`'s |
| `MC*` | instances for TLC | |
| `*_proofs` | theorems about the module they are named after | |

`FirestoreStore` and `TaskStore` both implement `ClaimQueue`; `SourceHealth`
implements `LatestReport`; `TelegramPolling` implements `Intake`; `Rounds` extends `Ranking` and composes with
`History`, whose events its triage resolutions begin.

How they correspond to the code:

**TaskStore.** `rows` is the table by id; `uid` is no column, it tells apart
two tasks with one id. A request of a caller is `pc`, `at`, `snap` (the row the
session loaded), `patch` and `cand`. `UpdateLoad` / `UpdateCommit` are the
SELECT and the flush of `update_task`: `Patched` is what the handler sets on
the loaded object, `Flushed` is what the UPDATE really emits, which is only the
columns whose value differs from the loaded one. `ClaimList`, `ClaimTry`,
`ClaimRead` are the list of candidates, the conditional UPDATE and the read by
id after the commit. `Restart` drops every request in flight. `claimed`,
`handed`, `stale` are history. `ClaimQueue` sees the store through `Slot`: a
task is queued, held by the caller that won it, aside or gone.

**SourceHealth.** A report is its time and whether it was healthy; details and
error texts are left out. `ReportRead`, `ReportInsert`, `ReportUpdate` are the
steps of the SQLite version: a report that finds no row inserts one, and goes
on to the update when another one inserted first. The UPDATE is guarded by
`last_checked_at < :checked_at` (`Supersedes`), and the time it does not set
keeps its column's value (`Updated`). `ReportTransaction` is the Firestore
version; `backend` chooses one in `Init`. `answered` and `shown` are history;
`LatestReport` is refined with `shown`.

**TelegramPolling.** Telegram is the sequence `sent` and `confirmed`, the first
update it still delivers. The adapter is `pc`, `offset`, its batch from `pos`
to `end`, and the `call` it waits for; the server is `board`, `made` (every
external id ever made), `receipts` and `orphans`, the requests whose sender died
and that may yet be carried out or dropped. `IngestLine` is one item of the request, with its own commit.
`Truncate` and `WriteOffset` are the two halves of `write_offset`: a death
between them leaves `Torn`, and `Start` cannot pass it until somebody removes
the file (`RemoveFile`). `Intake` sees the
board and the receipts as they are, and `passed` as what Telegram was asked for.

**Business.** `state` is the dictionary in memory and `disk` the file. The main
loop is `pc`: `GetUpdates`, then `ProcessUpdate` and `WriteOffset` for every
update, then `tick` (`AnalysisFails`, `AnalysisReads`, `CheckCandidate`,
`SendCard`, `RecordReview`), then `Save`. `PassPending` moves the watermark
before the candidates are handled, as the code does. `Fault` counts deaths,
failed calls and lost files; a failed call may have had its effect. `minute`
is the clock as far as it is looked at, for the description of a task that is
accepted. `cards`, `read`, `slipped`, `answered` are history.

**FirestoreStore.** `docs` is the collection of tasks, `mapping` the
reservations of external ids, `counter` the document ids are counted in. What
a handler reads outside of a transaction (`find_by_external_id`, the candidate
list, the task a PATCH starts from) is a step of its own and may be stale; a
transaction, serialisable and retried by the client library, is one step.
`Init` takes databases that are older than the reservations.

**Worker.** `status` and `notes` are the board. `pc`, `at` and `body` are the
calls under way of the `Session`'s and the `Others`' slots: `ClaimSend` tests
the budget, `ClaimLand` wins a task and counts when the answer comes;
`FinishGet` reads the description, `FinishLand` writes all of it back. The api
backend has one call at a time and credits by `last_claim` (`Credit`); the
claude backend has several at once, a snapshot `before` and the difference
`WorkedBetween`. A call may fail with its effect (`answered` is false) and may
land after its session was cut off. Telegram's side is `inbox`, with the update
acknowledged last (`WriteOffset`), `Press`, and `ReplyGet` / `ReplyPatch`.
`posted`, `overlapped`, `rewritten`, `moved`, `movedElse` and `unsure` are
history.

**Rounds.** The clock `now` goes on between any two steps, and every actor goes
by what it read of it: `current` and `listed` of the watch loop's tick, `asked`
of a triage session, `looked` of the scheduler. `wpc` is the tick (list, due,
remind, stamp, announce, save), `notified` its state in memory and `file` on
disk; `spc` is the script; `rpc` the ritual (fetch, work, refetch, write,
notify). A message may be delivered, delivered without an answer, or lost;
`Faulty` counts the last two, failed requests and deaths. `setup` is the
installation: which of these actors run, and the board they begin with. `told`,
`again`, `announced`, `card`, `worked` and the like are history.

**History.** `recording` is where the background task of an event is; `ready`
are the processes with `_history_sheet_ready`. Between `ensure` and `append` a
task holds its process's lock (`LockFree`).

## 3. Runs

A run checks the safety properties and, where there are any, the action and
liveness properties of its module. Type correctness is proved (section 4).

| Run | Checks | Shows |
|---|---|---|
| `task_store_board` | `ExternalIdUnique`, `ClaimExclusive`, `ClaimLeavesQueue`, `ClaimAccounted`, `CompletedMeansDone`, `DoneIsStamped`, `ClaimSurvivesPatch`, refinement of `ClaimQueue` | the SQLite store is correct under every interleaving of two callers, with the exceptions below |
| `claim_after_id_reuse` (violation) | `AgentsReceiveDifferentTasks` | a claim reads its task back by id after the commit; if it was deleted and the id given out again, two agents get one task (`docs/API.md` 317-318) |
| `claim_of_reassigned_task` (violation) | `ClaimsOnlyCodexTasks` | `try_claim` does not test the assignee again: a task a human took over is handed to the agent (`README.md` 236-238) |
| `close_races_block` (violation) | `CompletedOnlyWhenDone` | two PATCHes loaded before either is written leave `completed_at` on a blocked task (`task_assistant_mcp.py` 573-574) |
| `firestore` | `ExternalIdUnique`, `DeletedStaysDeleted`, `CompletedOnlyWhenDone`, `ReservationStaysInStep`, refinement of `ClaimQueue` | on Firestore ids are not given out twice and `completed_at` agrees with the status (the assignee is not tested here either), and reservations stay in step from any old database |
| `source_health` | `AnsweredIsShown`, `RowSumsUpReports`, refinement of `LatestReport` | no report is lost to an older one, on either store |
| `telegram_polling` | `NothingLost`, `VoiceDuplicatesNeedFaults`, `ReceiptsKeepDeleted`, refinement of `Intake`, `EveryUpdateIsHandled` | text messages are handled at least once and their tasks made once, in spite of two faults; a voice message is made twice only by a fault |
| `business` | `NoCardAfterReceipt`, `CardTwiceNeedsSlip`, `TaskTwiceNeedsFault`, `ReadBeforePassed`, `CandidateShown`, `CandidateWaits`, `CatchesUp` | receipts keep cards from being repeated although the state may be taken back, no candidate is put aside unseen or becomes a task unseen, candidates wait, nothing unread is passed, the chat is caught up with |
| `business_take` (violation) | `CandidateIsOneTask` | the minute is part of the hash that makes the external id: a repeated ingest of the same candidate makes a second task (`README.md` 265-268) |
| `worker` | `BudgetHolds`, `NotesSurvive`, `Credited`, `ReportsWithinClaims`, `RepliedOnce` | the api worker keeps its budget exactly, the claude worker exceeds it by the calls it has side by side less one; notes are lost only to overlapping writers; what a run reports was moved to review; an api worker reports no more tasks than it claimed; a reply is repeated only by a death |
| `rounds` | `StampedMeansTold`, `RemindedAgainNeedsSlip`, `AnnouncedTwiceNeedsDeath`, `NotifiedMeansAnnounced`, `ShownAgainNeedsCrossing`, `EventsKept`, `DigestNotMissed` | reminders and announcements are not swallowed and are repeated only by the slips that are named; batches of triage repeat only when sessions cross; recorded events reach the sheet; each target time has its digest |
| `ritual_runs_again` (violation) | `RitualOncePerDay` | for half an hour after the target time the scheduler runs the ritual after every nap (`scheduler.py` 4-5) |

### Where the code and its words part

Each violation run above is one such place. Others are in the models as the
code has them, and a property states what does hold:

- A voice message is created without an external id, so a retry makes a second
  task (`docs/ADAPTER_CONTRACT.md` 181-182); `VoiceDuplicatesNeedFaults`.
- `work_loop.py` 12-14, `claude_work.py` 15-18, `docs/MCP.md` 40-53 and
  `README.md` 148-150 ("worker mode: never closes tasks") leave closing to the
  human. A refused status is refused by `update_task` alone
  (`task_assistant_mcp.py` 592): on the api backend that is only `done`, so the
  model can cancel; and on either backend `create_task` and `ingest_context`
  may make a task that is closed from the start (131, 211, 553). `Refused` and
  `CreateTasks` have it so. No property is about it: who may close what is
  decided by one guard of one call.
- `work_loop.py` 190 "Returns the tasks moved to review": a `finish_task` whose
  answer is an error text is credited with the claimed task (143-152), and the
  claude worker is credited with what others moved meanwhile; `Credited`.
- `work_report.py` 10-12 takes the report for the tail of the description; it
  is not once the human has replied. A note is lost when two clients hold a
  read of one description; `NotesSurvive`.
- A claim whose answer is lost leaves its task `in_progress` with nobody, and
  is not counted by the budget.
- `watch.py` 19-21: a review that left and came back between two ticks is not
  announced again (`NotifiedMeansAnnounced`, `blinked`); and 21-23 "never
  crashes": an exception of the work run that is not an HTTP error does end it
  (`WatchDies`).
- `watch.py` 7-9: a reminder is repeated when its target passes between the
  start of the tick, which is its stamp, and the listing
  (`RemindedAgainNeedsSlip`).
- `README.md` 243 "batches never repeat": two triage sessions that both read
  the board before either marks its batch show the same cards;
  `ShownAgainNeedsCrossing`.
- `scripts/reminders.py` stamps its own time and does not look at the exit
  status of the notification: what it did not deliver, or what fell due after
  it listed, is never sent. `StampedMeansTold` excepts the tasks it stamped.
- A removed history sheet loses every event of the processes that took it for
  ready until they restart, and two processes that create the first sheet
  together lose one (`EventsKept`, `excused`).

### Bounds

- `task_store_board`: two callers and two tasks ever created. Every race of
  this code is between two requests, and reuse of an id needs a second birth.
  One external id is enough for a collision. The board run lets PATCHes close a
  task, put it back and move the external id; the violation runs use the
  smallest sets that lead to their trace.
- `firestore`: two callers, two ids of which one may be an old task's, two
  external ids, so that a rename can go to a free or a taken one.
- `source_health`: three reporters at three times, which is the least number
  for an insert race with a third report around it.
- `telegram_polling`: three updates chosen from a message, an edit that adds a
  line, an edit that has none left and a voice message; two faults. One death
  loses a response, the second one can hit the retry.
- `business`: three messages through a buffer of two, so that the buffer
  overflows; four updates, two faults, two minutes. The texts differ in the
  edit only.
- `worker`: two tasks, two calls of the session and one of the other agent at
  once, a budget of one, three calls in all of which at most one is the other
  agent's, one update, one death. The overrun of the budget, the lost note and
  the repeated reply each need two steps of two actors; a report without a claim
  needs three calls of the session (a claim and two finishes). `Settable` has a status that is allowed and one that
  only some are; the theorems are about all of them.
- `rounds`: a day of four units, a cooldown of two and batches of one, two
  tasks, two triage sessions, two events in two processes, two moves by others
  and one fault. An installation runs the actors that share something (watch
  with script, watch with resolutions, triage with resolutions, resolutions
  with history) or the ritual alone over two days: the others touch neither its
  variables nor what it reads. 23.5 hours are half of the day (`Flip`), so that
  the half hour of grace has room for more than one nap.

Counters without a bound in the code are bounded in the guards by `MaxBirths`,
`MaxIds`, `MaxLegacy`, `MaxTime`, `MaxUpdates`, `MaxFaults`, `MaxMinutes`,
`MaxCalls`, `MaxElse`, `MaxTools`, `MaxDeaths`, `MaxMoves` and an installation's `until`.
Callers, tasks, calls and sessions are symmetry sets where no liveness is
checked. Deadlock is not checked in the runs in which everything may be done
and nobody has to send more.

### Fairness

- `TelegramPolling`: weak fairness of the adapter's steps (the supervisor
  restarts it and its loop runs on) and of the server carrying out the call the
  adapter waits for. Nobody has to send, delete or repair; `EveryUpdateIsHandled`
  excepts the one state that needs a repair, the truncated offset file.
- `Business`: weak fairness of the adapter's steps, and strong fairness of
  `Analyze`, because a tick may find the chat not quiet yet but
  `BUSINESS_ANALYZE_MAX_WAIT` after its oldest pending message makes it due,
  whatever is added. That is so as long as the oldest stays: a flood that keeps
  overflowing the buffer keeps dropping it, and could put a tick off for ever.
  The run's sends are finite. A session may fail for ever: it is the third
  failure in a row that gives the messages up.

The stores and the health register promise no progress. Of the rounds, a
tracker that cannot be reached may fail every tick, so no reminder has to
arrive; what is stated is that the program does not believe that one did.

## 4. Proofs

Each `*_proofs` module defines inductive invariants, proves that they hold
initially and are preserved by every action, and derives its theorems from
them. The only assumptions are the `ASSUME`s on the constants, which the runs
evaluate: `ConstantsAssumption` (`TaskStore`, `FirestoreStore`),
`SourceAssumption`, `TelegramAssumption`, `NoJobAssumption`,
`BusinessAssumption`, `CallsAssumption`, `InputsAssumption`,
`BoundsAssumption`, `TimesAssumption`, `RoundsAssumption` and
`ProcessesAssumption`. They ask for disjoint sentinels, for inputs of their
types, for a finite session and for positive bounds; `RoundsAssumption` also
that the longest nap is no longer than the half hour of grace, as 300 s are.

| Module | Proved | Why the invariant is stronger than the properties |
|---|---|---|
| `TaskStore_proofs` | types, `ExternalIdUnique`, `ClaimExclusive`, `ClaimLeavesQueue`, `ClaimAccounted`, `CompletedMeansDone`, `DoneIsStamped`, `ClaimSurvivesPatch`, that a claim answers with a task it did not win only when its own was deleted or put back (`WonTasksAreHandedOut`), and that the store implements `ClaimQueue` | A request that is about to write has loaded a row (`SnapOK`); `uid`s were given out before and name one row each (`Identity`); and the three claim properties hold only together (`Claims`): a claim is exclusive because a won task is not in backlog. |
| `FirestoreStore_proofs` | types and all five properties of the run, with the refinement of `ClaimQueue` | Ids of requests under way were counted and are given to nobody else; what a transaction will write agrees with what it reads then, not with what the request had read. |
| `SourceHealth_proofs` | types, all properties of the run with the refinement of `LatestReport`, and that no step takes the row back (`NeverOlder`) | A report on its way to insert has found no row, and one on its way to update has one (`PcOK`); `NeverOlder` and the refinement follow from what one step does to the row (`ShowsNewer`). |
| `TelegramPolling_proofs` | types, `NothingLost`, `ReceiptsAreEarned`, `ReceiptsKeepDeleted`, `VoiceDuplicatesNeedFaults`, and that adapter, server and Telegram implement `Intake` | The offsets in the file, in memory and at Telegram have only handled updates before them (`OffsetsOK`), and every request still on its way, its sender alive or dead, has made what it no longer has to do (`JobsOK`). For voice messages the tasks made, those asked for and the updates still ahead are summed up: a death adds what was sent once more, no other step adds anything but a sending (`VoiceOK`). The refinement needs besides that every request on its way is for a message somebody sent (`SourcesOK`), and that no offset of the adapter is behind the one Telegram was asked for (`OrderOK`), so that a passed message stays passed. |
| `Business_proofs` | types, `CardTwiceNeedsSlip`, `NoCardAfterReceipt`, `TaskTwiceNeedsFault`, `ReadBeforePassed`, `CandidateShown`, `CandidateWaits`, and that the ledger tells the truth of what was shown, answered and taken (`ReceiptsTellTruth`) | An item that was shown has its receipt, or a fault, or the adapter is about to record it (`CardsOK`); new messages in Telegram's queue are above all ids in the state and in the file (`QueueOK`), so nothing is buffered below the watermark unread. Every candidate's message is marked as suggested, so no card replaces a candidate (`WaitsOK`). The tasks of a candidate and its chance to become one more are counted together: making the task uses the chance up, and only a fault gives it back (`TakesOK`). What the state, the file or the ledger remembers of a candidate was on a card (`SeenOK`), what the ledger has as ignored or taken was answered, and what it has as taken became a task (`EarnedOK`): all three may be older than what happened, none may be ahead of it. |
| `Worker_proofs` | types, all five properties of the run, and that descriptions are append-only, which `work_report.py` 10-12 takes for granted, but where writers overlapped or `update_task` replaced one (`NotesAreAppended`) | `BudgetOK` counts the claims under way with those counted. `ReportOK` says during the run what the report will say after it. `ClaimsOK` counts the claim that is still open with the tasks already reported, which is why a second finish on the same claim adds nothing. In `NotesOK` what anybody is about to write a description back with has all its notes, in their order and before the new one, unless the task counts as overlapped. `RepliesOK` bounds the copies of a reply in every description read or written, by where its update is in the inbox. |
| `History_proofs` | lemmas for the next module | At most one task per process is between taking and releasing the lock (`LockHeld`), and the sheet has its header before the process is ready (`SheetOK`). |
| `Rounds_proofs` | types and all seven properties of the run, `EventsKept` from `History_proofs`; of the smart order, that it is a strict weak order (`SmartOrder`), what its weights amount to (`RankWeights`), and that triage takes the urgent tasks first (`UrgentTasksFirst`); that the ritual starts only in the half hour after its time (`RitualStartsInGrace`) | What a tick has listed, planned or retained is tied to what was told and announced by then (`RemindOK`, `ReviewOK`); a batch read and not marked is on no card, or crossed (`ShowOK`); the digest about to be written is of the last target time (`DigestOK`, with facts about division by the day). |

So every invariant, action property and refinement that a passing run checks
has a theorem. Where a violation run refutes what the code's words say, a
theorem states how much of it holds: `WonTasksAreHandedOut` for
`claim_after_id_reuse`, `CompletedIsDone` for `close_races_block`,
`TasksNeedFaults` for `business_take`, `RitualStartsInGrace` for
`ritual_runs_again`. Some theorems have no run:
`ReceiptsEarned` and `NeverGoesBack` say in one line what the refinements of
`Intake` and `LatestReport` also say, and `TypeCorrect` and its kind,
`WonTasksAreHandedOut`, `ReceiptsTellTruth`, `NotesAreAppended`,
`RitualStartsInGrace` and the theorems about the smart order are proved only.

Only model-checked are the two liveness properties (`EveryUpdateIsHandled`, `CatchesUp`): liveness under fairness is beyond the
prover. The five violations are counterexamples of TLC.

## 5. Not modelled

- Inside modelled components: listing with filters and the context queue
  (reads only); `triage_next` with `mark=false` (changes nothing); boards of
  more than 500 tasks, which the watch loop does not see whole; two writers of
  one receipt, which no two clients here are; `_prune` and several chats of the
  business adapter; the questions a voice note may ask; sort orders other than
  the smart one; what the digest and the prompts say.
- A request that timed out and is carried out after its client has gone on is
  modelled for ingest (`orphans`) and for a session that was cut off, not for
  every client. A watch loop and a ritual that work at the same time are seen
  by a run as another agent.
- Migrations: run once at start-up, before the first request. What survives a
  crash between two DDL statements is decided by alembic and SQLite, not by
  code of the repository.
- The web UI, authentication and configuration check requests and render pages:
  no protocol state of their own. Speech to text runs external programs on a
  temporary file. Setup, release, demo and evaluation scripts are local tools.

# toolog, specified

toolog records what Claude Code did on a machine: every tool call, from two
sources, in one SQLite store that is meant to be an audit trail. This directory
holds TLA+ models of it, the TLC runs that check them on small instances and
TLAPS proofs of the properties that matter most. `PROJECT.json` is the index:
components, runs, the map from each definition to the lines it models, hazards,
findings and theorems.

Paths below are relative to `src/crates/` unless they begin with `docs/` or `ui/`.

## 1. The system

**Inventory.** One resident application (`toolog-app`, a Tauri shell around
`toolog-cli`'s `capture.rs`, with a window written in TypeScript) and, beside it, a
command line (`toolog backfill`, `purge`, `doctor --fix`, `uninstall`, `model` ...) work
on one database file, one preferences file and Claude Code's own settings file.

| Component | State | Operations | Hard part |
|---|---|---|---|
| Evidence store and chain: `toolog-core/src/raw.rs`, `chain.rs` | `raw_event`, one row per distinct body, each with a chain value over its predecessor | insert with deduplication; seal rows written before migration 004; walk | two processes, sealing one row per commit, purged holes |
| Retention: `toolog-core/src/retention.rs` | `session`, `tool_call`, the `deletion` log | preview, purge by session, age or size | the plan is older than the deletion; two halves must go together |
| Writer: `toolog-core/src/writer.rs` | a queue of 256 jobs, one thread | try_submit, submit, submit_blocking | full queue, a job that panics, callers that wait |
| OTLP receiver: `toolog-otlp/src/server.rs`, `ingest.rs` | counters, pause flag | a handler per request | answers 200 before anything is stored |
| Transcript lane: `toolog-ingest/src/tail.rs`, `backfill.rs`, `jsonl.rs`, `discover.rs` | what the watcher told, a burst, a sweep timer; no offsets of its own | watch, sweep, ingest a file from its offset | files that are cut, grow, or change while read; lost events; crashes |
| Capture: `toolog-cli/src/capture.rs` | the threads and the pause flag | start, pause, resume, catch up, shut down | what is in flight when the user pauses or quits |
| Projection: `toolog-core/src/project.rs`, both `projector.rs` | `tool_call`, `session`, `prompt` ... | merge two lanes field by field; re-project | order independence; a rebuild in two transactions |
| Examination: `toolog-cli/src/analysis.rs`, `toolog-app/src/llm.rs`, `toolog-core/src/llm.rs` | a loaded model, three threads, the verdict table | load, pause, stop, replace; ask; record | threads that outlive the handle on them |
| The model: `toolog-llm/src/engine.rs`, `gguf.rs`, `prompt.rs`, `verdict.rs` | a context kept between questions; a file on disk | inspect a file; prefill, sample, parse | what an earlier question left behind; a download that stopped |
| Risk review: `toolog-core/src/rules.rs`, `toolog-app/src/state.rs`, `commands.rs` | sightings, dismissals, a memo keyed on `data_version` | review, dismiss | a memo stamped fresher than it is |
| Preferences: `toolog-cli/src/prefs.rs`, `toolog-app/src/state.rs`, `ui/src/setup.ts` | `prefs.json`, a copy in memory, what is applied, the copies behind the switches | whole-record writes by several writers | each writes all fields from the copy it has |
| Claude Code's settings: `toolog-cli/src/settings.rs`, `uninstall.rs`, `doctor.rs`, `launchagent.rs`, `toolog-otlp/src/port.rs`, `health.rs` | `settings.json`, its backups, the port bound, the login agent | plan and apply a fix, follow a moved port, undo | a file of the user's that others write too |
| Questions: `toolog-core/src/query.rs`, `fts.rs`, halves of `rules.rs` and `llm.rs` | none of its own | a filter's rows, pages, count, chart, facets, figures | seven readers of one selection that must agree |
| Timeline: `capture.rs` live thread, `ui/src/timeline.ts`, `plan.ts`, `histogram.ts`, `detail.ts` | rowids touched by each job; pages, generations, the pill | drain, truncate, emit; ask, show, drop | answers that come late, out of order, or never |
| Filter box and address: `ui/src/filterbar.ts`, `query.ts`, `view.ts`, `main.ts` | one view, kept in five places | type, complete, brush, narrow, go back | a reading that is due while the view changes |
| Reports: `rules.rs` (what a rule catches, what a review counts), `verify.rs`, `export` of `commands.rs` | the user's rules file, dismissals; how far a report has got | review, verify, export, drill through | many statements and no transaction: others commit between two of them |
| Text: `toolog-core/src/normalize.rs`, `redact.rs` | the patterns, the switch for evidence | summarise a call's arguments and result; hide what looks like a secret | two lanes name the same thing differently; one pass hides what another wrote |
| OTLP decoding: `toolog-otlp/src/decode.rs`, `attrs.rs` | none | parsing | unit and golden tests cover it |

**How they interact.** Both lanes and the model's threads hand closures to the one
writer thread, which runs each to completion; everything that changes the store in
the application goes through it. The command line opens the database itself, so it
is a second writer, serialised with the first by SQLite one transaction at a time.
The tailer and the OTLP handlers read the same pause flag before they submit. The
writer's update hook tells the live thread which rows a job touched; the live
thread re-reads them, emits them to the window and offers Bash calls to the model.
The window asks over Tauri commands, each on a thread of its own, and is told nothing
about the order the answers come in. The port the receiver could bind decides what is
written to Claude Code's settings, and those decide whether there is an OTLP lane at all.

**What makes each part correct.** Evidence: stored once, never rewritten, chained
so that a break appears where something is missing and nowhere else. Retention:
removes what it showed, counts what it removed, never leaves one half of a session.
Writer: every submission is run, refused or released. Lanes: every complete line
and every accepted export ends up stored, whole and once. Examination: a verdict
is what that model said of that call; pausing and stopping take effect. The model: an
answer is to the question that was asked, and a verdict only of a whole answer. Settings:
what is not ours is kept, and an uninstall leaves what was there. Preferences: file,
memory and effect agree. Questions: list, count, chart and badges are one answer. Reports: a review's numbers,
table and drill-through are one count, an export is the list it was asked for, a gap is a gap. Window:
nothing is shown under a question it does not answer, and everything is shown in the end. Text: a row says of a
call what the lane that knows best says, and nothing that is hidden is hidden twice.

## 2. The modules

| Module | Models | Extended or instantiated by |
|---|---|---|
| `AuditTrail` | the abstract promise: contents are captured once and leave only with a log entry | `EvidenceStore` |
| `EvidenceStore` | rows, chain, sealing, projection membership, purge; two processes | `MCEvidenceStore`, `MCStore`, `MCIntake`, `EvidenceStoreProofs` |
| `TranscriptTail` | a transcript file cell by cell, the watcher, the tailer, the writer's job on each file | `MCTranscriptTail`, `MCIntake`, `TranscriptTailProofs` |
| `CaptureQueue` | the writer's queue, the OTLP handlers and exporters, commands that wait | `MCCaptureQueue`, `MCThreads`, `CaptureQueueProofs` |
| `Redactor` | the patterns in force, a pass over a text, when evidence and rows go through it | `MCIntake` |
| `Normalize` | the columns a row gets of a call's arguments and result, by lane | `MCIntake` |
| `ToolCallRows` | what projecting one record does to the tables; both projectors; no state of its own | `Projection`, `ProjectionProofs` |
| `Projection` | who projects when: bursts, catch-ups, exports, the command line's backfill and rebuild | `MCProjection`, `MCReports`, `ProjectionProofs` |
| `Examination` | the loader, the engine's worker, the live and backfill threads, the verdict table | `MCExamination`, `MCThreads`, `ExaminationProofs` |
| `ModelAnswers` | a command's block, the worker's context, sampling under the grammar, what becomes a verdict | `MCThreads`, `ExaminationProofs` |
| `ModelFile` | the reader of a model file's header, over a file that ends anywhere | `MCThreads` |
| `RiskReview` | the review's commands, its memo, the sighting ledger | `MCRiskReview`, `MCDecisions`, `DecisionsProofs` |
| `Records` | the rows the reports read, and the commits that change them | `RiskRules`, `Coverage`, `Export` |
| `RiskRules` | which rules are in force, what each catches, a review statement by statement | `Reports` |
| `Coverage` | the calls only one lane told of: lanes, sessions, gaps | `Reports` |
| `Export` | an export, page by page | `Reports` |
| `Reports` | the three over one store that changes | `MCReports` |
| `Settings` | the settings file, fixes and uninstalls by two runners, the port, the login agent | `MCSettings`, `MCDecisions`, `DecisionsProofs` |
| `Preferences` | `prefs.json`, its copies and its writers, the model that is loaded because of it | `MCPreferences`, `MCDecisions`, `DecisionsProofs` |
| `Queries` | the questions asked of the store, over a store that changes | `MCReports` |
| `FilterBar` | the filter box, the views and the address | `MCEnds` |
| `Timeline` | the live thread, and the list, chart, pane, pill and banner of the window | `MCEnds`, `TimelineProofs` |
| `Extremes` | that a bounded set has a least and a greatest member, and that what passes from each number to the next holds throughout (lemmas only) | the proofs about files, rows, settings and the examination |

Definitions carry the source's names where that reads (`Held`, `ChainHead`,
`CutoffFor`, `Resume`, `StopHeld` ...). A definition whose comment says *mutant* is a
plausible bug in the definition after it and is used by no specification; it is
there so that each property can be shown to fail when the code is wrong.

**EvidenceStore.** `rows` is `raw_event`; a row's `chain` is the sequence of digests
it was computed from, that is, SHA-256 is taken as injective. A transaction is one
step: `StoreRow` (`raw::insert`, digest, head and `ON CONFLICT DO NOTHING` together),
`ProjectLines`, `Purge`. What the code does in several transactions is several
steps: `SealRow` is one autocommitted UPDATE of `chain::seal` with the previous value
in memory (`sealer`), a line is stored and then projected (`pending` is the id the
projection resumes from), and a purge is shown, planned and carried out. `Kill` ends
either process between any two of them. `history` is an observation variable that no
guard reads.

**TranscriptTail.** A file is a sequence of cells, a line being at least one cell of
text and its newline, so a write or a truncation may stop inside a line. `ReadFrom` is
`jsonl::read_from`, and `Resume` the choice between the stored offset and zero.
`OpenFile` computes the offset and length, `StoreLines` reads what the file holds *by
then* and commits, `ProjectRows` projects. `Sweep` and `Settle` may happen whenever the
loop turns: the 30 s and 250 ms timers are nondeterminism. The watcher (external) may
tell of a write, or not.

**CaptureQueue.** A handler is two steps, `Admit` (everything it reads, the batch
number included) and `Accept`/`Refuse` (submission, counters, answer), because handlers
run concurrently and the pause flag may change in between. An answer may be lost; an
exporter without a success sends again. `lane` is the tailer's thread and the thread
that resumes capture, both of which wait for room. `Panic` drops the thread with its
queue, which releases callers in `submit_blocking`.

**Redactor.** A pattern is a head, a run of letters of a class, a tail and which of it goes, as the shipped
regular expressions are. `Declared` lays a user's patterns over the shipped ones by id, `Captures` is one
pattern's pass over a text, `Spans` joins the passes, the earlier span winning, and `Text` puts markers in.
A record is stored (`StoreRecord`, redacted only while the switch is on) and projected (`ProjectRecord`, always).

**Normalize.** A string is the key it stood under, a size class and whether it was redacted. `Input` and
`Generic` look keys up in the order of the source, `Result` infers from the shape of a result what nobody said, and the two lanes
(`TranscriptUse`, `TranscriptResult`, `ExporterDecides`) tell of the call in the order they come.

**ToolCallRows.** A record is the fields a projector reads (`Rec`), so `kind` stands for the
shape that decides which method runs, `names` for the agentId in an Agent's result, `spawns`
for the subagent type a use asks for. `db` holds `tool_call`, `session`,
`permission_mode_change` and the number of `file_change` rows of a call; `mem` is the fields of
`TranscriptProjector`. `ProjectTranscript` is `project_envelope` and the methods it calls, in
their order; `Finish` is `finish` with `set_agent_type`, `spread_agent_names` and
`inherit_permission_modes`; `ProjectOtlp` is `project_body`. `Rank` is SQLite's order, NULL last
when descending. A row's columns stand for groups: `result` for all that only a transcript's
result fills, `duration` for what only OTLP's does.

**Projection.** `evidence` is `raw_event` as pairs of a path and a line; what each line says is
fixed by `world`, chosen at the start from `Worlds` and never changed, so that one run covers
several small sessions. A job is the steps of `ingest_and_project`: `Begin` notes the highest
id, `StoreLines` commits what is complete by then, `ProjectRows` projects everything since the
id noted. The application has one writer and so one job at a time; the command line is a process
beside it. `Clear` and `Rebuild` are the two transactions of `reproject`. `owed`, `seer` and `met`
are observations no guard reads: which ids nobody has projected since the last clearing, whether
one projector has seen all the rest, and whether both processes have been at work at once.

**Examination.** One `Instance` per model loaded. `SetModel` stops what is held and
starts a loader; `Loaded` is `Analysis::start`, after which the threads run unpaused;
`Installed` is the rest of the loader, which applies the pause it was *given* and drops
whatever is held by then. The worker answers jobs in order and leaves at `Stop`.
`asked` and `sincePause` are observations, the second counted per examination, because a pause is looked
at between two questions of one backfill loop (`analysis.rs:355`) and two examinations may notice the
same one. `course` says which of three kinds of history is being explored, and never changes.

**ModelAnswers.** The context is the set of its cells, a position and the question whose token is
there, so that "what an earlier question left" is a fact of the state. A question is cleared to
the instructions (`Clears`), fed in chunks (`Feeds`), answered piece by piece (`Samples`,
`Decodes`) and replied to; a decode may fail at each (`DecodeFails`, `RunsOut`). A command is a
short sequence of characters because `sanitize` and the cut at the limit work on characters and
their order matters; an answer is a sequence of pieces of the grammar, a brace inside the summary
being one of its own because the worker looks for one at the end of what it has.

**ModelFile.** A file is its fields by offset, laid out as the format says, and `cut` is where the
download ended. `ReadKey` and `ReadTensor` are one turn each of the loops of `inspect`, with the skip
of a value by kind (`SkipValueOf`), the limits on strings, entries and dimensions and the
saturating product of the elements. A reader that lost its place finds no field where it is: that is
the outcome `lost`, which the code has no name for (it takes one field for another, and may refuse the file or
report what is not there). `WholeOrRefused` allows it only where a length the header states of itself is
wrong (`Lies`), so a wrong width breaks it. Its other exception is `EndsInASkip`: a last value that is skipped,
with no tensor after it, may be missing in part (`Skipped`) or claim any length (`Righted`), and the header is reported as ok.

**RiskReview.** `caught` is what each question (what a rule's fingerprint covers) catches in the
store now. A command is its steps: `Look` (`cached_risk`), `LoadRules`, `Evaluate` and a `Rollup` for each
rule on the connection `reader` names the holder of, `Record` by the writer, `Stamp`, `RememberReview`.
`version` is `PRAGMA data_version`, which every commit of another connection moves. Reading the
memo is one step although it reads two counters: both only grow and a judgement moves both.

**Records.** A call is the columns the reports ask about; texts are short sequences of letters, because
prefixes, parts and first lines of them are compared. `Store`, `Complete`, `Learn`, `Change` and
`PurgeSession` are the commits of others, in any order between any two statements of a report, and
`since` (observation only) says which kinds came since the report began.

**RiskRules.** `Compile` is a match as the condition it becomes, column by column, `WhereFor` adds what a
scope adds (`FirstOf`, `Retries`), and `Load` lays the user's rules over the built-in ones. A review is
`BeginReview`, a `RollUp` for each rule and a `TallySeverity` for each severity, as `evaluate` and
`reconcile` read; `RiskReview` has what is recorded of it. A pattern is the texts it matches.

**Coverage.** `Run` numbers the undecided calls as the window functions of `gaps` do: the difference of
a call's place among all and among the undecided. `Named` and `NamedGaps` are the sets the limits let
through, of which ties leave a choice.

**Export.** `ExportPage` is one turn of the loop: what is left of the limit, one page, the next offset.

**Settings.** A file is its kind (absent, broken, a list, an object), its env block and all else as one
value; five of the six variables have a fixed value and are one (`switch`), the sixth tells where
logs go (`endpoint`). A job of a runner is `ReadStack`, `PlanFix` or `PlanUninstall`, then
`WriteFile` (backup and rename), `Revert`, `RemoveKeys` or `LeaveFile`: what others write between two of
these is not looked for, as in the code; `alone` (observation only) notes it, since comparing the
file with what was read would miss one that was edited and put back. `StartApp` binds the first port that is free and, when that is a
fallback, has the application follow it (`sync_endpoint`). `Edit` is anybody else. A backup is named by
the second, so two within one second are one.

**Preferences.** The record is written whole, by a switch from the copy it was drawn with, by the
application's other commands from `memory`, by the command line from the file. A command is
`ReadMemory`, `Save`, `Apply`, `Remember`, `ApplyModel`, on one of several threads. A model's file is
hashed, then loaded, by a loader; what is at a path may be replaced in between. `drawings` are the
renderings of the Status view that are due, each giving its boxes new copies.

**Queries.** `Selected` is `filter_clauses` with the bound values: the columns, the range, the terms
(the last one a prefix), severity and rule by what the live rules match, score by what a model said.
`TimelineRows`, `TimelineCount`, `Histogram`, `Facets`, `StatsTotals`, `ToolUsage`, `Progress`, `Pending`,
`ScoreTallies`, `TopScoring`, `SecondOpinion` and `Badge` are the questions. SQL's division, which
truncates, is `TowardsZero`; a bucket's width is the narrowest that gives no more than the target.

**FilterBar.** A text is a sequence of characters, because quoting is what can go wrong: `Parse`
and `Format` are `query.ts` token by token. Every way the view can change is an action, and each writes
the copies the code writes, in one event: the box's, the timeline's, the application's and the address's.

**Timeline.** A row is its tool. `LiveThread` is `spawn_live`'s drain with its cut to a batch by row id.
A request carries whether the generation it was sent under is still current; `Answer` is the backend's
reading and `CountArrives` ... `CollectorFails` what the window does when it is delivered, in any order or
never. `Render` is `paint`: the pages the screen needs that are neither there, asked for nor failed.

**Composition.** Four modules put the parts into one run each: `MCEnds` how records get in and how they are looked at
(`MCIntake`, `FilterBar`, `Timeline`), `MCThreads` the threads behind capture and the model (`MCCaptureQueue`,
`MCExamination`, `ModelAnswers`, `ModelFile`), `MCReports` the rows and what is asked of them (`MCProjection`, `Reports`,
`Queries`), `MCKept` what is kept and decided (`MCStore`, `MCDecisions`). `course` or `part` says which is explored and never
changes; parts that share no state would only multiply each other's states without a new behaviour, so the others stand
still, and a property speaks of its own part. Parts that do share state are in one module (`CaptureQueue`:
handlers, exporters, writer, tailer and commands; `Projection`: two processes and two lanes;
`Settings`: two runners, the port, the agent, other editors; `Timeline`: writer, live thread, window).

## 3. What the runs check

Every passing run checks the whole reachable state space of its instance. There are four, each of several parts that
stand still while another is explored; two rows of the table may speak of one run.

| Run | Question | Bounds that matter |
|---|---|---|
| `kept`, evidence | Does a purge remove what it showed and count what it removed, both halves? Does the store walk until purged, are breaks only at holes, and explained by the log (`BreaksAccountedFor`)? Is it an `AuditTrail`? | course `purging`: application closed, one file per session, every kind of scope, 2 purges in a row, 3 clock values, so that time passes between capture, preview and purge; course `both`: both lanes, 2 legacy rows, so that sealing stops before, between and after, 2 purges beside the running application |
| `kept`, decisions | Is what is not ours kept, does an uninstall undo and a fix fix, does what we wrote reach us? Is the ledger kept and nothing announced twice, does a remembered review count what the rules find? Do file, memory and effect of the preferences agree? | settings files of every shape, 2 runners, 2 ports, 3 seconds, edits there and back between two steps of a runner; 2 threads, 1 rule that may ask 2 questions or go, 2 calls, any three events (commands included; the theorems of section 5 are of any number); 2 threads of commands, 2 switches, 2 model files, 5 outings of up to 5 events |
| `ends`, intake | Is only whole evidence stored, once, nothing skipped, and every line stored and projected in the end, events lost or not? What if the application and a backfill seal and store at once? Is a text hidden once, and does a row say what the lane that knows best says? | one file of up to 5 cells and 2 lines, a queue of 1, any two troubles (a truncation at any cell, a quit, a pause, a fault, an exclusion); beside it 2 legacy rows, 2 processes, 5 records on 2 lanes, kills anywhere; texts of up to 4 of 6 pieces under 4 shipped patterns and 3 files of a user's, one switch; calls of tools known, new and of a server, every size, shape of result and verdict |
| `ends`, window | Is anything shown under a question it does not answer, is every row drawn and every new call noticed? Is there one view, and does the box say what the list is filtered by? | four courses of up to 2 rows with a page, a screen and a batch of 1, so that lists have pages and bursts are cut; texts with every special character, 3 addresses |
| `threads`, queue | Does each request show in exactly one counter, is an accepted export kept, its reference its own? Does anybody wait for ever, or get a false answer? | exports that share a record, an empty and a malformed one; commands that wait; a queue of 1; one of a pause, a fault, a panic and an exit |
| `threads`, model | Is every call examined, once per path, does a pause act at once, do verdicts keep their model, does what is stopped end? Is an answer to its own question, and a verdict only of a whole one? Is a header read right or refused? | three courses: 2 calls on 2 lanes each, 2 toggles, a model that may fail; or 2 models, 2 loads, unset, restart, 1 call; or one model started twice and paused, so that two examinations notice one pause; answers: a context of 12, instructions of 2 tokens, chunks of 4, 5 commands with markers in every place, 2 questions; files: 19 headers of every sort, with and without tensors, lengths too long and too short, cut at every byte |
| `projection` | What do the rows say of the evidence, whoever projected it? What do a review, an export and the coverage report say of the rows, while these change? Are list, count, chart, badge and figures one answer? | three sessions as separate initial states (a subagent's transcript in a file of its own; a session that moves and changes its mode; calls both lanes witness); any two of a catch-up, a command-line backfill with or without a rebuild, a quit, a kill, an error; beside it any three of seven rows (alike, tied, without a time, without a session, of a session not known), four rules of every scope under two files, one commit of any kind at any moment, pages of 2, limits of 1 on what is named; for the questions 6 calls, 14 filters, 2 rules, 2 rows of which one may be purged, and a zone off the epoch's |

Bounds are small but each lets its case happen: every action is taken in some passing
run, and each property is violated when the definition named under `mutants` is
replaced by its mutant. A queue of one is full as soon as anything waits, which is what
a queue of 256 is in the end; two processes, two files, two models, two runners, two
threads are the fewest that can interfere, and a third adds no new kind of step. No
passing run uses symmetry.

Liveness is stated without leads-to where that says the same: `Collected`, `NewCallsNoticed` and `NobodyWaitsForever`
are "again and again it is not so that ..." (a state in which nobody waits recurs), and `QueuedIsStored` adds that what is queued
stays queued until it is done.

The properties are few and most are conjunctions of named parts, so that a reader can
follow a run from its name down: `StoreInv`, `QueueInv`, `TailInv`, `ExamInv`, `LedgerInv`, `SettingsInv`,
`TimelineInv`, `FilterBarInv` and `ProjectionInv` join a component's type invariant with one small
uniqueness or accounting invariant. The other conjunctions are listed where they are
defined, at the end of each module. `LinesAreWhole`, `ExaminationKept`, `LedgerHonest`, `LedgerKept`, `SettingsHold`,
`TheirsKept`, `FixedAndUndone`, `AnswersKept`, `PrefsHold` and `SwitchesLeaveTheModel` are defined with their components, so that
the runs check what the theorems state; `PurgesAreHonest` and `PurgeSeparatesNothing` in `MCStore` say of one
course what theorems say under its conditions.

**Eight runs end in a violation.** Each shows a place where the program does not do what
its documentation says (`findings` in `PROJECT.json` quotes both):

- `purge_by_age`: an age purge previews and records OTLP rows that it does not delete,
  because the cutoff is read back from a description that holds a date.
- `tail_regrown`: a file cut short and grown back past the offset it was read to is read
  from the middle of a line, and the fragment is stored as evidence.
- `mode_in_force`: a call carries a permission mode that is not the one in force. A bare change of
  mode has no timestamp, and `last_known_mode` sorts it behind every change that has one, so a
  projector that begins mid-session takes up the mode before it; and the tailer's projector keeps
  its own map while a catch-up reads a change past it.
- `stale_review`: a review is remembered under a watermark read after it was computed, so a commit
  in between (a capture, a purge, a dismissal) is not in the review and does not retire it.
- `redaction_from_cli`: the switch that keeps raw evidence out of the store is applied by the
  application only; `toolog backfill` stores what it reads unredacted whatever the switch says.
- `is_error_trusted`: a result whose shape looks like an error (a bare string, an interruption) is written
  as a failure although the tool reported none; `is_error` is said to be "trusted over anything inferred from
  the payload". `OutcomeSound`, which the passing run checks, says nothing of that case.
- `summary_redaction`: a summary taken from the exporter's own names of a command is written as it came, beside "the
  one point every summary and target passes through", neither cut nor redacted.
- `fix_in_service`: with the application on the fallback port and no endpoint written (or another one), `doctor --fix` looks
  for the receiver where it is not and writes a port nobody listens on, although it is said to write "the port that is
  actually in service". `FixReaches`, in the passing run, names that case (`Missed`) and holds of every other fix.

**What the properties leave out on purpose.** The models contain the following steps
because the code does; the properties are stated, or the instances chosen, so as not to
forbid them, and a reader should not take a passing run for a promise about them:

| Where | What the code does | Left out by |
|---|---|---|
| `backfill.rs:110` | a backfill of an old store links new rows before the legacy ones, which are then out of id order: `verify` reports breaks | `SealsFirst`; the course `both` of `kept` runs no backfill |
| `retention.rs:377` | a purge while legacy rows are still unsealed leaves a break no entry explains | `plain` requires every row sealed |
| `retention.rs:377` | a purge of rows that are not adjacent leaves holes the log does not explain | `plain` in `BreaksAccountedFor` |
| `retention.rs:298` | a session with a subagent's file loses its projection and keeps half of its evidence | one file per session in the course `purging` |
| `retention.rs:309` | a size purge takes exporter's evidence of sessions it keeps | no exporter in `purging` |
| `retention.rs:274` | beside a running application a purge may take a session its preview did not name | application closed in `purging` |
| `backfill.rs:187` | a crash between storing and projecting leaves rows unprojected until `toolog reproject` | a condition in `StoredIsProjected`; `owed` in `Projection` |
| `backfill.rs:138` | a file replaced by a longer one is read from the old offset | `Regrows = FALSE` |
| `tail.rs:154` | a project excluded while its burst waits is ingested all the same | no property |
| `server.rs:282` | an export answered 200 is lost when the application quits with it queued | a condition in `AcceptedIsKept` |
| `server.rs:264` | after a restart two exports share a reference | a condition in `RefNamesOneExport` |
| `capture.rs:179` | what was admitted or queued before a pause is stored after it | no property |
| `capture.rs:158`, `port.rs:8` | the start that gets the preferred port back rewrites no settings file that names the fallback, although port.rs says "Whatever port is chosen must be written into Claude Code's `env` block too" | `MovedReaches` speaks of a fallback port |
| `doctor.rs:240` | a fix by the command line looks for a receiver at the endpoint in force and at the preferred port, so one that moved without anybody writing so is missed (doctor.rs:340 speaks of the port in service) | `Missed` in `FixReaches` and `missed` in `MovedReaches`; the run `fix_in_service` shows it |
| `settings.rs:401` | what another program writes between the reading and the rename is lost | `Alone` in `TheirsKept`: the job was overtaken by no other write since it read, whatever the file is by then; `Alone` and `raced` in `UndoExact` |
| `settings.rs:454` | a second backup within one second replaces the first, and with it the bytes of before toolog | `crowded` in `UndoExact` |
| `redact.rs:206` | a user's `redaction.toml` is read by nobody: `load` is called without a path and nothing installs what it returns, although PRIVACY.md:58, default.toml:4 and redact.rs ("The application installs it at startup") say so | `PatternsInForce` speaks of what `load` would give |
| `redact.rs:128` | a match that overlaps an earlier span is dropped, and what is left of it may match the next time, so such a text is not the same redacted twice; an id outside `[a-z0-9-]` makes a marker that is text like any other | `Crossed` in `HiddenOnce`; `MarkerIds` |
| `raw.rs:54` | evidence is redacted as the text of its JSON, where a match might cross a quote | no pattern of the instance holds one |
| `events.rs:258` | a summary taken from the exporter's own names is neither cut nor redacted | `OwnKeys` in `SummariesFit`; the run `summary_redaction` shows it |
| `normalize.rs:258` | `is_error = false` does not override a failure inferred from the shape, although it is said to be trusted over anything inferred | `OutcomeSound` asks for a failure only where the tool reported one, or reported nothing; the run `is_error_trusted` shows it |
| `capture.rs:316` | rows of several jobs are drained together and cut to 200 by row id: an update of a newer row is not told | `NewCallsNoticed` speaks of the list falling behind |
| `app/llm.rs:173` | a model unset while it loads is installed and runs; a pause given meanwhile has no effect | `StoppedEnds` speaks of what was told to stop |
| `app/llm.rs:168` | the flag that a model is being loaded is cleared by the first of two loaders that ends | no property |
| `analysis.rs:327` | a question behind the stop is recorded as a failed answer and not asked again; it may replace an accepted one | only accepted verdicts in `OkMeansAsked` |
| `core/llm.rs:310` | calls may be pending while the Status screen counts none queued: a verdict of a call that a rule has matched since, or that is gone, counts as done | `OpinionsAgree` (in `AnswersAgree`) bounds one by the other |
| `engine.rs:395` | an answer ends at any piece that ends in a brace, also one inside the summary, and is then refused as incomplete | `FailsForAReason` (in `AnswersKept`) names it |
| `gguf.rs:1`, `lib.rs:66` | only the header is read, so a download cut behind it is adopted, although lib.rs counts "a partial download" among what reading the header catches | `WholeOrRefused` speaks of the header |
| `gguf.rs:410`, `gguf.rs:386` | a seek past the end does not fail, so a last value that is skipped, with no tensor after it, may be cut or claim any length and the header is reported, although gguf.rs:413 has an error for it and lib.rs:68 counts "a partial download" among what is caught | `EndsInASkip` in `WholeOrRefused` |
| `gguf.rs:386` | a length that is too long but ends inside the file makes the reader take one field for another | `Lies` in `WholeOrRefused` |
| `engine.rs:132`, `cli.rs:275` | a file replaced between its hashing and its loading is given the old key | `swapped` in `KeyNamesWeights` |
| `cli.rs:443`, `backfill.rs:186` | a backfill beside the application projects rows the other process stored, and inserts their file changes twice | `met` in `EditsOnce` |
| `project.rs:171` | `called_at`, `success` and a session's path are the newest record's, so the lanes' order decides them | `LiveIsRebuilt` compares one order only |
| `project.rs:505` | a rebuild that dies after clearing leaves tables that hold only what came since | `owed` in every property of `projection` |
| `projector.rs:52` | a restart, a catch-up or an import begins with no subagent types, relocations or modes | `OneEye` in `ModesFollowed`, `AgentsNamed`, `LiveIsRebuilt` |
| `rules.rs:1257` | a call captured while a review is computed gets a sighting the finding does not count | `raced` in `ReviewAgrees` |
| `rules.rs:863` | a commit while a review is computed: totals and table are of that moment statement by statement, the findings of an earlier one, so that a rule may count calls no row of the table has | `since = {}` in `ReviewAddsUp`; that totals are the table's columns holds all the same |
| `rules.rs:424` | a target counts as inside the working directory when it begins with its letters (LIKE, so without regard to case and with `_` and `%` of the directory as wildcards), so `/work/app-old` is inside `/work/app`; `outside_cwd` is said to be "somewhere outside its session's working directory" (rules.rs:122) | `Compile` takes the prefix as the code does, and no property says what is outside |
| `rules.rs:778`, `app.rs:227` | a live notification asks of the new call only: a session's first call that a later change of mode makes match, or a call that a refusal told later makes a retry, is never announced; and a rule that was dismissed still is | no property |
| `commands.rs:500` | an export that arrivals overtake may write a call twice; one that a purge, or a decision that moves a call, overtakes may leave one out | `since` in `ExportWhole` |
| `verify.rs:140` | the figures of the coverage report are several statements, and a commit between two of them may part them | `CoverageAgrees` is of one moment |
| `commands.rs:228` | sightings recorded by a job that fails half-way, or by a review cut short, are never announced as new | `AnnouncedOnce` says at most once |
| `state.rs:206` | of two commands that write the preferences at once, one may win the file and the other the memory, until the next start | `raced` in `PrefsAgree` (in `PrefsHold`) |
| `setup.ts:597`, `setup.ts:652` | a switch writes the copy it was drawn with: clicked while another is being saved it takes that one back | `SwitchLeavesTheModel` speaks of the model and the pause |
| `prefs.rs:133` | a write that is cut leaves a file that cannot be read, and the next start takes the defaults, redaction off | `raced` in `PrefsAgree` (in `PrefsHold`) |
| `plan.ts:127` | a row of the old list drawn between the clearing and the new count asks for a page of the old filter under the new generation | `mixed` in `RowsMatchUnlessDrawn` |
| `plan.ts:136` | the reply to an outdated page removes the entry of the newer request for the same page, which may then be asked for twice | nothing is shown wrongly |
| `timeline.ts:176` | an update of a call that is in the list already counts as a new one on the pill | `NewCallsNoticed` says at least |
| `filterbar.ts:180` | the late reading of a typed text closes the pane that was opened meanwhile | `OneViewOnly` says the copies agree |
| `histogram.ts:177` | brushing a chart whose range begins inside a bucket widens the range to the bucket | `ChartCountsList` counts a bar by its own ends |
| `filterbar.ts` | the box offers agents by name and filters them by id: a name that is taken matches nothing | the values offered for the other keys |
| `setup.ts:33` | the banner is asked for once, when the window opens: after capture was switched on, which "should re-check its banner", it says what was so then | `AnswersOfTheView` leaves the banner out |

## 4. Fairness

Safety runs use `Spec` without fairness. Liveness is checked under:

- `TranscriptTail`: weak fairness of the tailer's start (a login agent or the user
  starts the application again) and of the writer thread; strong fairness of `Sweep`,
  because the loop looks at the timer at every turn and no step can put a sweep that is
  due off for ever, although each burst disables it for a moment. Nothing is assumed of
  the watcher or of the user, so `Collected` excuses a pause that is never lifted. In `MCIntake`
  the same fairness is stated of the steps guarded by `part = "tail"`: where the part is another,
  none of them is ever enabled and nothing is assumed. `MCThreads` and `MCEnds` guard the fairness
  of their parts alike.
- `CaptureQueue`: weak fairness of the writer thread and of each waiting caller. Weak
  fairness of a caller waiting for room suffices because the number of competing
  submissions is bounded in the instance; the channel of the code serves its waiters in
  order. Retries are not assumed.
- `Examination`: weak fairness of the loader, each thread and the worker. The user
  need not resume, so `EveryCallExamined` excuses a pause that recurs for ever.
- `Timeline`: weak fairness of the live thread, of the window's handling of an event, and of
  answers: a request is answered and delivered, in any order, as a Tauri command returns or fails.
  Of the reader nothing is assumed.

## 5. What is proved

Seven modules hold theorems about components, and `Extremes` the lemmas that a bounded set has a
least and a greatest member. A theorem holds for every value of the constants that satisfies the assumptions
of the component's module, without a bound on the number of steps; where it has a condition of its
own, that stands in its statement and below. `PROJECT.json` lists them. Each invariant that makes an
argument inductive was checked with TLC on small instances before it was proved.

**`EvidenceStoreProofs`**

- `TypeCorrect`, `StoredOnce`, `NeverResealed`, `LogKept`: the type invariant, one row per
  body and per id, a sealed row is never rewritten, the log only grows;
- `Implements`: `EvidenceStore` refines `AuditTrail`, step by step;
- `BreaksAtHoles` and `IntactUntilPurged`, under the assumption `SealsFirst`: there are no
  legacy rows, or no backfill runs. Without it both are false (section 3).

*The argument for the chain.* "A break appears only at a hole" is not inductive: it says
nothing of how a row about to be stored relates to the rows there are. The strengthening
`IInv` is `TypeOK`, `OneRowPerBody` and `ChainInv`, which says that along the ids sealed
values get strictly longer; that rows still waiting to be sealed come after all that are
sealed; that the resident does not serve while any waits; and that a seal in progress
holds every waiting row and starts from a value no shorter than any stored. From the first
of these the newest sealed row carries the longest value, so a row linked to it is linked
to the row just below it; a purge takes rows away and leaves the order alone.
`IntactUntilPurged` adds `WalkInv`: while nothing was purged the resident's seal in progress
stands exactly on the chain's head.

- `BreaksExplained`, under `SealsFirst` as well: the run's `BreaksAccountedFor`. Every break is explained
  by the log, as long as each purge found all rows sealed and took adjacent transcript rows;
- `NothingOrphaned`: no projected call is left without evidence, whatever follows or overtakes a purge;
- `PurgesHonest`: a purge removes the number it logs, no session its preview did not name and none
  active since its cutoff;
- `NothingSeparated`: no purge separates a record from its projection, also beside a tail that is storing.

*The argument for purges.* `AccountInv` says that, while every purge was plain, either none was made
or no row waits to be sealed and every break is explained: a row stored later is linked to the newest,
and a further hole swallows, touches or misses an earlier one. `OwnInv` adds to `NoOrphanProjection` that a path named by a session
or a plan is a path of that session, so that a purge takes both halves. `HonestInv` says that what is
shown, and later planned, is what a preview would say now, since with the application closed nobody
stores in between. `Named` says that
a session that is known, or about to go, has a path: with one file for each session it is the file of all its
evidence, so a purge that takes the session's calls takes the evidence too.
The last two have conditions, which the theorems state: a store of transcripts in which a file is of
one session (`retention.rs:15`, "a transcript file *is* a session"), for `NothingSeparated` a session of one file as
well, and for `PurgesHonest` the application closed. Without them the statements are false (section 3).

The proofs assume no collision of hashes (chain values are sequences) and atomic
transactions. They use finite-set lemmas for "the row with the least (greatest) id".

**`CaptureQueueProofs`**, for any batches, contents, askers, depth of the queue and number of faults:

- `QueueTypeCorrect`, `OneRowEach`, `RequestsAccountedFor`, and `QueueHolds`, the three together, which
  is the run's `QueueInv`;
- `RepliesTellTheTruth`, `ReferencesAreOwn`, `AcceptedStays`, and `AnswersHold`, the three together,
  which is the run's `AnswersAreKept`.

*The argument.* `Shape` is the type invariant and that each job in the queue is of its sender's
kind. That the counters add up is not inductive, because nothing in it keeps a
batch from being sent anew while a handler holds it: `Accounts` adds that its exporter then still
waits (`SentWhileHandled`), so that each step of a handler moves one request from one term of the
sum to another. A true reply needs `RunIsReplied`: what the writer has run of a waiting caller it has
replied to, so a caller that is released by the writer's death was not run. That a reference is one
export's needs `DrawnOnce`: a batch number is drawn by one handler and is then in that handler, in
one job or in the rows of one export, and every number drawn is below the counter. An accepted
export is followed through `Settled`: it is in the queue, or stored whole, or its failure was logged.

**`TranscriptTailProofs`**, for any files, lines and their lengths, depth of the queue, faults, cuts and exits, as long
as no file grows past its offset again after it was cut short (`~Regrows`; without it the run `tail_regrown` violates it):

- `LinesStoredWhole`: the run's `LinesAreWhole`, that is, only whole lines are stored, each once,
  resuming skips none, and what is stored is projected unless a pass died in between;
- `ResumesAtLines`: the offset a pass begins at is the beginning of a line.

*The argument.* That only whole lines are stored is not inductive: a pass could begin in the middle of
one. `BeginsAtLine` says that the greatest offset stored of a file is a newline of what the file now holds,
or the file is shorter than that and will be read from zero. A pass decides where it begins before it
reads, and the file may be written or cut between the two; `ReadsOn` ties the offset it holds to the store, and
`WholeWritten` the lines of a file to what was written, at one time or another. Lemmas relate
`ReadFrom` to the newlines of the file: each line it gives is `IsLine`, and every line after the offset is given.

**`ExaminationProofs`**, for any models, calls, starts, limits and courses:

- `PausedAtOnce`: a pause costs an examination's backfill one more question at most, its queues keep their
  limits, and an accepted verdict was given by the model it is recorded for. No condition;
- `NothingAskedTwice`: the run's `ExaminationKept`, with the above that no examination asks about a call twice
  on one path. Its condition is that the live path's memory (`LIVE_SEEN_MAX`, 4096) has room
  for every call: `analysis.rs:221` empties it when it is full, and a call that comes again may then be
  asked about again.

*The argument.* An examination is `Sound`: a question in the worker's queue is one a thread waits for
(`Queued`); what the backfill has before it was not asked, and what it asked about has a verdict, or its
answer is in hand, or the thread has ended (`BackAsks`), which is what makes the next batch leave it out; what the
live path has in its queue it remembers and has not asked (`LiveAsks`). `Lifecycle` says how far each examination
has come, since a loader goes on after the model was replaced.

The same module proves of `ModelAnswers`, for any commands, sizes of context and chunk, and limits:

- `OwnAnswersKept`: the run's `AnswersKept`. Whenever the model is asked for a piece its context is the instructions and its own question and
  answer so far; no command, cut or not, shows a marker; and a verdict is kept of exactly the whole answers.

*The argument.* That the context is one's own is not inductive: it must be known at every chunk (`ContextFollows`: how far the
worker has come says what the context holds), and, when the question before it failed half-way, that nothing but the
instructions is where they are (`InstructionsKept`), which clearing then leaves. That the room is exactly used up
when an answer runs out comes from the count of what was sampled. For the markers, a character that was put in is in no
marker, so replacing one makes no other, nor does what is put behind a cut (`NoneLeft`, `NoneMade`, `NoMarkerInside`); `Replaced` says
position by position what `str::replace` does, since neither marker overlaps itself.

**`TimelineProofs`**: `ShownIsAsked`, the run's `TimelineInv`, for any tools, filters, page, screen and batch size and courses.

*The argument.* Answers are matched to generations, not to filters, so the invariant relates the two:
`Requested` and `Matching` say that a request of the current generation is of the filter or the call the view
now has. Whoever changes the filter makes every request outdated in the same event. A list drawn before its
count has come breaks `Matching` (`plan.ts:127`), which `mixed` records: once a page asked for another filter was taken for
this one, and until the list is laid out anew, `TimelineInv` says nothing of the rows drawn. `Charted` adds that a chart that
is not the view's is on its way, and `AwaitedIsAsked` that what the window waits for was asked for: a covered list's
count, and each page that is awaited, is among the requests under way.

**`DecisionsProofs`**, the decisions of the run `kept`. Of `Settings`, for any ports, settings files, files above them and number of edits, starts, fixes, uninstalls and seized ports:

- `SettingsHeld`: the run's `SettingsHold`. The file and its copies keep their shape, an uninstall finds the plist of
  every job launchd holds, and what toolog configured sends to where the application had to move;
- `TheirsAreKept`: the run's `TheirsKept`, what is not ours is kept by whoever nobody overtook;
- `FixedAndUndoneExactly`: the run's `FixedAndUndone`, a fix leaves nothing to report and writes
  the port in service where that is one of the two it looks at, and an uninstall gives back the bytes there were.

None has a condition beyond what the properties themselves leave out (section 3).

*The argument.* Four things have to be carried. `JobFits`: what a job has decided still fits what it read, and if nobody
overtook it that is the file; so a rename writes a merge of, or takes our keys from, what is there. `ConfiguredByUs` and
`EndpointFollows`: a file that only toolog wrote holds all our keys, and its endpoint is where the application
listens or the application has a job that is about to say so, in each of the steps that job has left. `BeforeFirst`:
the fix that is about to write first has taken the only copy. `SinceFirst`: from then on the
oldest copy is the first file, and it is the present file without our keys, so that both
ways back, restoring and removing keys, lead to it; a file toolog created has no copies until it is written
again, so the third way, removing it, is the one taken. `alone` cannot be replaced by a comparison with the file: TLC found a file edited and
put back, and one replaced by an equal one of the other runner, with its copy lost in the same second.

Of `Preferences`, for any files, contents, threads and outings:

- `FileAndMemoryAgree`: the run's `PrefsHold`. Unless two commands raced, file, memory and what is applied agree whenever
  no command is on its way, and the key of a loaded model is of the bytes that were loaded, unless they were replaced meanwhile;
- `SwitchesKeepTheModel`: the run's `SwitchesLeaveTheModel`, a click that overtakes nothing leaves the model and the pause alone.

*The argument.* Without a race one command at a time is on its way (`OneAtATime`), and how far it has come says what still
disagrees (`Agreement`). `CopiesFollow` and `SwitchesKeep`: a box was drawn with the model and the pause that are in memory, or the
view is about to be drawn anew. `Keyed`: a loader has the key of what is at its path, or that was replaced since it hashed.
The theorems rest on `PreferencesAssumption`, which TLC evaluates in `kept`.

Of `RiskReview`, for any rules, questions, calls, threads and number of events:

- `LedgerSound`: the run's `LedgerInv`, one row in the ledger per call and key;
- `SightingsKept`: the run's `LedgerKept`, no step loses a sighting or changes its date;
- `NewOnce`: a sighting is announced once at most, by whichever of the reviews at work;
- `ServedFromMemory`: the run's `ServedUnlessRaced`, a review served from memory counts what the rules find now;
- `ReviewsAgree`: `ReviewAgrees`, a review that nothing overtook agrees with itself;
- `ReviewsHonest`: the run's `LedgerHonest`, which is `LedgerSound`, `NewOnce` and `ReviewsAgree` together.

*The argument.* A key is a question (a rule's fingerprint) or none, for rows an earlier version
wrote, which `adopt_sightings` gives a question later. One row per call and rule is not inductive
through adoption; `NilAlone` is: a rule's rows are all without a question or none is, because
adoption takes all of a rule's rows in one transaction before the insertion. `HeldKey` says that
what was announced is in the ledger under its question, from where no step takes it
(`SightingsKept`), and a review announces only what its own insertion did not find there. That a remembered
review is current is not inductive, since the memo is stamped long after the counting: `Reviewed` follows every
review to its memo. While nothing overtakes it and the file keeps its time, its rules are the rules there are (`RulesHeld`), what it has
counted is what the store has (`SightingsCounted`), and, once stamped, its findings are current as long as no commit came after the stamp
(`Stamped`). Each step of another review is then either no commit, or moves the version past every stamp, or moves the
time past every time remembered. `FirstOfAll` says that the ledger stays empty until a first review records, which makes all of it
new. The theorems state the assumption that the value for "none" is no question, no thread and no number
(`RiskReviewAssumption`), which TLC evaluates in `kept`.

**`ProjectionProofs`**, for any calls, sessions, subagents and transcript files, any lines and exports that may come
to be written, and any number of catch-ups, imports, rebuilds, failures, kills and restarts:

- `ProvenanceIsHonest`: the run's `ProjectionInv`. A record is stored once, and the lanes a call's row names are exactly
  those whose records about it have been projected;
- `ProjectedIsShown`: the run's `EvidenceShown`. What only one lane can say stands in the row, whatever was projected
  before and after, and a session spans its records from the first to the last;
- `ChangesRecordedOnce`: `EditsOnce`, a part of the run's `ToldOfCalls`. Unless the command line ran beside the application
  the change of a file is recorded once;
- `CallsAreTold`: the run's `ToldOfCalls`, with the above that, once one projector has seen everything, a call has the
  mode told last before it and a subagent's calls have the type it was asked for by, in whatever order the transcripts
  were read.

They assume of the records what the code makes of any JSON (`WellFormed`: a result that names no call is none, a
result changes one file or none); of Claude Code that it does not contradict itself (`OneStory`: one decision and one duration of a
call, and none that was refused succeeds), without which the newest record would win; of a file that it is no other file twice.
`CallsAreTold` alone also rests on `ToldAssumption`: a call is asked for in one record, which does not carry the mode
(`AskedOnce`, `projector.rs:66`), the records of a call name one subagent, and a subagent is asked for with one type
(`SubagentsTold`). A transcript that repeats a call of another in other words is outside it. TLC evaluates all of it in `projection`.

*The argument.* What one record does to the tables is `Effect`: the upserts leave every other call and session alone
(`TranscriptDoes`, `OtlpDoes`), and what needs the whole stream touches a path, a type and a mode (`FinishDoes`), of
which the theorems say nothing. `Faithful` relates tables to a set of records, with no order among them; a record
more keeps it (`FaithfulToo`), because nothing in the same story takes back what another said, and a replay is one record after another
(`Replaying`, by the least number at which it would fail). So every history comes down to which records have been projected, and
`IInv` is that the tables are faithful to `Been`, those that are not owed. A projection that fails writes
nothing, and the next pass over other rows only adds; a cleared table is faithful to no records; a rebuild adds all. That a change is
recorded once needs more: what a job is about to project has not been projected (`AloneHolds`: all rows since the id it noted are
owed, and before a rebuild all rows are), which a second process would break.

What one record tells of another's call depends on the order, so `CallsAreTold` follows the projector too. `Told` has three parts.
`SoundHolds`: whatever a row or a projector has of a subagent was told, by some record, even if that projection was undone; so a
stale memory may lack a type but never has a wrong one. `TailHolds`: a burst under way took over the tailer's memory, and while
that projector has seen everything, all that is stored since is owed. `ToldHolds`: the tailer's projector, as long as it has been
through everything up to a row (`Read`), remembers what those rows told (`MemoryHas`): the last mode of each session, each type asked for
and not yet named, each named; and the projected calls carry it (`ModesStand`, `TypesStand`). What one record adds is
`TellsRows` and `TellsMemory` (`TranscriptTells`, `OtlpTells`), a replay keeps it record by record (`ReplayTold`), and the
types of calls that came before their subagent's name are settled by `NameAgents` at its end (`FinishNames`).

**Only model-checked:** liveness (fairness and ENABLED are outside the prover's reach). Of the projection, that the live
lanes and a rebuild leave the same tables in every column (`LiveIsRebuilt`); its parts that the theorems above state hold of both. The reports and the
questions (`ReviewIsOneCount`, `ReportsAgree`, `AnswersAgree`), and what `Redactor`, `Normalize`, `ModelFile` and `FilterBar` compute: they
are folds over rows, characters and bytes, so that their results are induction over data. And `SealersAgree`, of which the parts
are proved for any store (`StoredOnce`, `NeverResealed`).

## 6. Not modelled, and why

Percentiles and per-session statistics and OTLP decoding are pure functions over text or SQL, tested by golden
files, and no interleaving reaches them. Of redaction the regular expressions themselves are left out, of
normalisation the wording of a summary. How a rule, a row of an export or a figure of a report is written is wording; the chain walk that
`verify` prints is in `EvidenceStore`. Menus, windows, bindings, layout, keyboard focus and logging are wiring and wording.
The full-text indexes are left out as tables, the one over verdicts included; what a search matches is in
`Queries`. The stepper of the migrations runs before anything else; the states it leaves are initial
states. SQLite is taken to be serialisable and durable at
commit (WAL with `synchronous = NORMAL` can lose the last commits in a power failure, not
in a crash of the process). Hash collisions and a corrupted database are left out.
Prompts, API requests and tool sources have tables of their own and no part in what the
projection's properties say. Of inference, which token is likely is a choice, and what llama.cpp and
Tauri do is taken from how the code uses them.

## 7. What could follow

1. Two more sessions for `Projection`: ADR-0009's order independence on `called_at` and `success`, and
   file changes doubled by a backfill beside the application, as runs of their own.
2. The tail composed with a purge, which may store again what was removed.

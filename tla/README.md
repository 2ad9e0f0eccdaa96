# TLA+ models of PawLia

PawLia is a personal assistant that runs as one Python process: chat interfaces
(Matrix, Telegram, Discord, web, voice calls), an LLM agent with tools and skills,
a conversation memory kept in markdown files, and a scheduler that announces
reminders, runs jobs and summarises conversations. All of it shares one asyncio
event loop; skills run as child processes that edit the same files. Paths below
are relative to the repository.

The process is single-threaded, so what makes it hard is not memory but awaits:
every `await` is a place where another turn, a command, a reload or the end of the
process falls in. In the modules an action is the code between two awaits (or, for
a program that shares files with another process, between two file operations).

## Files

| Module | What it models | Instance |
|---|---|---|
| `SessionMemory` | conversation memory: turns, threads, private mode, summaries, compression, crashes | `MCSessionMemory`, `session_memory.cfg`, `recompression.cfg` |
| `Reminders` | `tasks.md` shared by the scheduler and the organizer skill | `MCAgenda`, `agenda.cfg` |
| `JobRunner` | `jobs.json` shared by the job runner and the organizer | `MCAgenda` |
| `Scheduler` | the scheduler's loop, its three passes, background tasks | `MCAgenda` |
| `Automation` | `scheduler_state.json` shared by three checks and the organizer | `MCAutomation`, `automation.cfg`, `weekday_reminder.cfg` |
| `LLMRequest` | abstract: what a chain of models promises a request | |
| `FallbackChain` | `_FallbackLLMWrapper`, which implements it | `MCFallbackChain`, `fallback.cfg` |
| `MemoryWiki` | indexer passes and the Dream Wiki, two processes on the same files | `MCMemoryWiki`, `wiki.cfg` |
| `CallCore` | one voice call: transcription, replies, greeting, hold tone, watchdog | `MCCallCore`, `call.cfg` |
| `Endpointing` | where an utterance begins and ends | `MCCallCore` |
| `Signaling` | how Matrix calls are taken, joined and ended | `MCMatrix`, `matrix.cfg`; `room_answers.cfg` |
| `ChatTurn` | abstract: what a chat message may lead to | |
| `MatrixChat` | the life of a Matrix message, `//stop`; implements `ChatTurn` | `MCMatrix` |
| `DiscordChat` | the life of a Discord message, threads | `MCSettings`, `settings.cfg` |
| `Settings` | models, voice and disabled skills: file, session, cached agents | `MCSettings` |
| `SkillRunner` | one skill call: attempts, workflow, tool loop, breakers | `MCSkills`, `skill.cfg` |
| `SkillStore` | workspace skills: creator, compiler, loader, credentials | `MCSkills` |
| `Memory_proofs` (`SessionMemory` and `MemoryWiki`), `FallbackChain_proofs`, `Call_proofs` (`CallCore` and `Endpointing`), `Automation_proofs`, `Matrix_proofs` (`MatrixChat` and `Signaling`), `Settings_proofs` (`DiscordChat` and `Settings`), `Skills_proofs` (`SkillRunner` and `SkillStore`), `Agenda_proofs` (`Scheduler`, `Reminders` and `JobRunner`) | theorems about the modules they are named after, or name here, checked by TLAPS | |

`PROJECT.json` holds components, runs, mutants, the map from definitions to source
lines, findings, hazards and theorems.

    tlc -workers 2 -config session_memory.cfg MCSessionMemory
    tlapm Memory_proofs.tla               (and so for each module of proofs)

## Inventory

Each entry: the state a part keeps, its operations, what it interacts with, what is
hard, when it is correct.

**Conversation memory** (`pawlia/memory.py`). One `Session` per user in RAM:
`exchanges` (replayed to the model), `daily_history` (text to summarise), `summary`,
`exchange_count`, `thread_contexts`, `private`, `current_date`. On disk one log a
day, `context_summary.md`, marker files. Hard: the summary is awaited while turns go
on; files are rewritten whole. Correct when private exchanges never reach the disk,
nothing logged is forgotten, threads replay their own log, a long session is summarised.

**Chat agent** (`agents/chat.py`, `iteration_budget.py`). Per turn a prompt, which is a
snapshot of the session, the tool rounds, the streamed text. It mutates
`session.exchanges` in place. Hard: the snapshot is used after awaits; cancellation.

**Scheduler** (`scheduler.py`, `background_tasks.py`). A loop over the users: reminders,
events, automation, forced summaries, then idle work. Background tasks are JSON files,
pending, running, done or error. Hard: idle time is read early, tasks are marked
before they run, a reload drops the processors mid-tick. Correct when a task runs at
most once and every queued one settles.

**Organizer** (`skills/organizer/scripts/organizer.py`). A child process per command that
adds, lists, completes and deletes tasks, reminders, events and jobs. Interacts with the
scheduler only through `tasks.md`, `calendar/`, `jobs.json`, `scheduler_state.json`.

**Automation** (`automation.py`). Checklists, jobs, task reminders: read a JSON file,
await scripts or the model, write the file back. Correct when an item fires once and
nobody's change is lost.

**LLM chain** (`llm.py`, `agents/error_classifier.py`). An ordered list of models with a
ledger of failures that concurrent requests share; retries after an overflow; streaming.
Correct when each request ends, bans have a cause, one voice answers.

**Voice calls** (`interfaces/call_core.py`, `audio/vad.py`). Audio pipeline, a coroutine per
utterance, a task that replies, the greeting, the playback buffer with its hold tone,
watchdogs. Hard: they cancel each other. Correct when one reply is spoken at a time, the
caller is always answered, the tone ends, a silent call ends.

**Call transports** (`matrix_call.py`, `matrixrtc_call.py`). Two managers with dictionaries of
sessions; six reasons to end a call interrupt each other at their awaits. Correct when
a call that goes on can be hung up and a hung-up one leaves nothing behind.

**Matrix, Discord** (`interfaces/matrix.py`, `discord.py`, `common.py`). A task per message;
an agent cached per thread with a queue of attachments. Hard: turns of one thread share
the agent; `//stop` meets a task at any await. Correct when outputs stay in their thread.

**Settings** (`memory.py`, `app.py`, `llm.py`, `agents/router.py`, `skills/config`). A choice is in
`config.yaml`, in the `Session`, in the cached agents and in running turns; the bot and a
child process both write the file. Correct when these agree.

**Skill runner** (`agents/skill_runner.py`, `skills/executor.py`, `agents/base.py`). Up to two
attempts of three modes; a message list that is repaired and compacted; circuit breakers.
Correct when what was done is told and is not done again.

**Workspace skills** (`skill-creator`, `skills/compiler.py`, `skills/loader.py`, `credentials.py`).
Files made, edited, compiled, tested and cached by several actors. Correct when a run
follows the instructions and the workflow of one version, and credentials survive.

**Indexer and Dream Wiki** (`memory_indexer.py`, `dream_wiki.py`). Two tracker files, an index,
pages that overlap and are merged, a second process, several file operations per answer.
Correct when every log is noted once and stays so.

**Not stateful enough to model**: AGC, recorder, TTS, transcription, tools, workspace
search, vision probe, browser, files and researcher skills, Telegram, web, the
OpenAI-compatible server and the CLI; see "Not modelled".

## How the modules fit

`Scheduler` decides *when* a user's checks, summaries and tasks run; `Reminders`,
`JobRunner` and `Automation` are *what* a check does, each with the file it shares with
the organizer; `SessionMemory` is what a summary replaces, `MemoryWiki` what indexing
writes. `Endpointing` hands the utterances to `CallCore`; `Signaling` starts and ends
`CallCore`'s calls. `MatrixChat` and `DiscordChat` run turns whose memory is
`SessionMemory`, whose requests are `FallbackChain`'s, whose agents and models are
`Settings`', whose skills are `SkillStore`'s, run by `SkillRunner`.

Components interact through files and awaits that each module represents as free
choices (a command at any time, an answer of any kind), so that each module's
environment includes the behaviour of its neighbours. The MC modules `MCAgenda`,
`MCCallCore`, `MCSkills`, `MCSettings` and `MCMatrix` put modules that share no
variable into one run: a variable `part` chooses in the initial state which of them
moves, so that a behaviour is a behaviour of one module, whole, and its properties
are checked in all of its states. Fairness there is that of the part that moves.

## The modules

Every module says in its head what a state is; `PROJECT.json` maps each definition to
its lines. Variables under "history" are read by no guard. Operators headed "Mutant"
are plausible bugs of the code (a dropped guard, a missing reset) that the mutants of
`PROJECT.json` put in place of the definition they name; with each of them TLC finds
the property violated.

### SessionMemory

| Action | Code |
|---|---|
| `Send` | `run`/`run_streamed` up to the (awaited) description of images: the prompt is a copy of the session |
| `Prepare` | `_prepare_messages_for_context_budget`, before every request |
| `ToolRound`, `LastRound` | tool calls in a reply; the request after the budget is used up |
| `Answer`, `Fail`, `Cancel` | end of the turn: recorded, reported, or cancelled |
| `Persist` | `_persist` with `append_exchange` or `append_thread_exchange` |
| `TogglePrivate`, `ModelCommand`, `Seed` | `/private`, `/model`, threads begun by a notification |
| `SummarizeStart/Done/Fail` | `_summarize_user` around its awaited request |
| `Restart`, `TornDailyWrite`, `TornSummaryWrite`, `Midnight` | crash and `load_session`, a crash inside a rewrite, a new day |

An exchange is the turn that made it, a file the sequence of exchanges in it, a summary
the set of exchanges it covers. The context budget counts messages instead of tokens;
the soft triggers (tokens, limit, repetition) are one. `SummaryCoverage` needs its
exception: an exchange recorded while a successful summary request is under way is in
neither the summary nor `daily_history`, since `summarize` empties it; it stays in
`exchanges` until later turns push it out.

### Reminders, JobRunner, Automation

Files as sequences of lines or records; a writer is a read, a copy carried over its
awaits, and a write of the whole. `Reminders`: `Tick` parses, `Notify` announces,
`MarkRead`/`MarkWrite` tick the remembered line off. `JobRunner`: `JobTick` loads the list,
`Finish` ends one job up to the start of the next or the save. `Automation`: a tick of
three checks, `BeginEvents`-`SendAlert`, `BeginItems`-`OpenEvent`-`RunItem`-`ItemsDone`,
`BeginReminders`-`Remind`-`RemindersDone`, each loading the state anew, with writes that
truncate (`CheckTruncates`) before they write (`CheckWrites`); `AddTask` and the other
commands are steps of the organizer's process with the same two halves. The exceptions
in the properties are counted or recorded, not assumed: crashes, lines moved under a
remembered index, copies written over a newer file. Clocks: minutes of a short day in
`JobRunner`; half periods of `EVENT_REMINDER_MINUTES` in `Automation`, where a check
never reads the clock on the dot.

### Scheduler

The coroutine of `_loop` with a state per awaited piece of work (`TakeUser`,
`SoftSummary`, `AgentEnds`, `Notified`, `Indexed`), beside turns (`Message`, `TurnEnds`),
`/background` (`Enqueue`), the clock (`IdleGrows`, which moves users from one idle tier to
the next), `Reload`, `LoopStop`, `TornUpdate` (the end of the process between truncation and
write of a task file) and `Start`. Only pending tasks are taken up: one marked running
when the process ends stays so, which `QueuedTaskSettles` excepts as `Abandoned` and
`TaskAccountedFor` allows once per end of the process.

### LLMRequest and FallbackChain

`LLMRequest`: a request is passed down the chain, never back, and ends; it fails only
past the end of the chain or when its model breaks off after it began to speak.
`FallbackChain` is the loop of `invoke`, `ainvoke` and `astream` for concurrent requests
over the shared ledger: `Start` (up to the first await), `Fit`, `Chunk`, `Answer`, `Fail`,
`Refit`/`FailRetry` (after an overflow), `Loop`, `PassOn`, `Cancel`. Windows are of two
kinds; a condensed prompt replaces the prompt for the rest of the chain, a forced one
only for the repeated call.

### MemoryWiki

Two processes, the scheduler's indexer and a command of the memory skill, and no lock. A log's
modification time stands for its content, a page is the set of notes on it; what the model
answers is free.

| Action | Code |
|---|---|
| `BeginPass`, `Skip`, `Defer`, `Analyze`, `EndPass` | `process_user`: the logs in order of their dates, the copy of the tracker, chats go first |
| `OpenPage`, `WritePage`, `EndInsert`, `NothingToNote` | `insert`: any number of actions per answer (`MaxPages`), each a read of the page and a write of the whole |
| `InsertFails` | an exception of `insert`, also after pages were written or inside a write; an hour of cooldown (`HoldEnds`) |
| `Merge`, `AppendMerged`, `ReadLinks`, `WriteLinks`, `RemoveMerged`, `AddLinks`, `EndLinks` | `consolidate`: the page that goes is read, appended to the other, links are redirected page by page, the page is removed; missing links are added |
| `MergeFails` | its two `except` clauses: only that page's links, or the rest of that merge |
| `BeginLint` | the commands `consolidate` and `lint` |
| `Stop`, `SaveBreaksOff` | the end of a process between any two steps or inside a write; the tracker truncated and not written, after which every log counts as new |
| `Edit`, `Reload` | a log of a past day changes; `reload_config` forgets failures |

Notes are written twice or lost where the code lets them, and the properties name those cases.
`NotedOnce` excepts `overlapped` processes and logs in `cut`: those of which something was noted
when an insert failed (`memory_indexer.py:220`; the retry an hour later notes it again) or when
the process or the tracker's write ended. `NotesKept` excepts notes in `excused`: the model
answered nothing usable, the page was created anew in place of one that was there, a write
broke off after the truncation, or the writing process ran beside another, whose page it read
before and wrote over. What is left is the hazard the steps expose: a page that is read and
written in several steps by a process alone, with errors and ends between any two of them, must
not drop a note on the way.

### CallCore and Endpointing

`CallCore` has one coroutine per utterance (`speech`), the task that replies (`reply`),
the greeting, the playback buffer and the watchdogs; a cancelled coroutine goes on until
its next await raises (`SpeechCancelled`, `ReplyCancelled`, `Awaited`). Whether a chunk is
noise and when a pause is long enough are choices there. `Endpointing` is the frame loop
that makes them: the noise floor, the relative pause, tolerance that grows with the
chunk (`Tolerance`), frames of speech needed to break a pause (`ResumeFrames`), the cap,
and barge-in while the bot plays. `Frame` is one pass of the loop.

### Signaling

Handlers are sequential, as the client awaits the callback of one event before it
delivers the next (`sync`); the coroutines that end a call run beside them (`ending`, per
session and reason, with the phases telling and closing, and `done` set before the first
await). `HandlerRaises` leaves the handler with an exception, which ends the interface;
`_supervise` starts it again with new managers, and old sessions go on without one.

### MatrixChat and DiscordChat

The life of a message from `Arrive`/`Receive` to its end: registration, agent, run, tool
calls, reply, files, error record. `MatrixChat` has `//stop`, `//stop all`, `//reload`,
shutdown, and the lock of the skill-creator; a cancelled task continues at its next await
(`Cancelled`). A send that fails is logged and the turn goes on, so any of `Post`'s may be
lost; `ChatTurn` is what is left for the user to rely on. In `DiscordChat` nothing cancels; threads are opened for messages, an
agent's callback and queue outlive its turn, and commands drop agents under running
turns. `born` tells the agents of one key apart.

### Settings

The session file, the `Session`, the cached agents and the models a turn is bound to; the
config skill's script reads (`ScriptReads`), writes and prints directives, which the bot
obeys when the skill has returned (`ConfigReturns`) or never (`SkillAborted`). `drift`
records why file and session may differ.

### SkillRunner and SkillStore

`SkillRunner` is one run against every answer of the model: `ModelAnswers`,
`RequestOverflows`, `RequestFails`, `RequestRejected` for each request, then the branch of
the mode that made it. A message is its role and the ids it makes or answers. `SkillStore`
has the files of the workspace skills under `CmdInit` (with its rollback), `EditSkill`,
`CmdCompile` (whose answer is awaited and whose file is opened before it is written),
`CmdTest`, `DeleteSkill`, the cache that compares one modification time (`Collect`), and
the credential file with the move of its older version.

Three points where the code does less than one would expect are part of the model. A workflow
that ends without a word of the model (no answer, an empty one, or `max_steps`) returns the
directives of all blocks and then the raw output of the last, which holds that block's directive
again; what a recovery command prints is shown to the model only (`RunBlock`, `WorkflowEnds`;
`Repeated` and `unheard` in the property). The move of the old credential file may fail, which
`migrate_if_needed` passes over, and a save may break off after the truncation (`Migration`,
`SaveBreaksOff`; `lost`). A `SKILL.md` may have no version, or lose it: then it is compiled as
"1.0" (`CompiledAs`), and its skill follows any workflow (`LoadedWorkflow`); and the file that is
written states the version of the answer (`Stated`), which nobody compares with the one asked for. The
workflow therefore also carries, as history, the version it was made from and whether the answer
kept to it, and `InstructionsCurrent` is about those.

## Runs

Nine runs pass, over the properties named; three find what "Findings" lists.

| Run | Instance and bounds | Properties |
|---|---|---|
| `session_memory` | 2 turns, main timeline and a thread, 2 days, 2 toggles, a note or a tool round, a restart, budget and kept tail of 2 messages | `PrivateStaysInRAM`, `SummaryCoverage`, `ThreadReplayMatchesLog`, `ForcedSummaryHappens` |
| `agenda` | loop: 2 users, 2 tasks, a message or an end; reminders: 2 items, 4 commands, 2 periods, a crash; jobs: an interval and a daily job, 2 commands, a crash, a 3-minute day | `TaskAccountedFor`, `QueuedTaskSettles`, `AnnouncedOnce`, `DueIsAnnounced`, `JobsNotRepeated`, `DueJobRuns` |
| `automation` | an appointment with checklist and a daily event, two file names, a task with a reminder, 2 commands, 2 periods, an end | `RepeatsExplained`, `NothingMissed`, `DueReminderFires` |
| `fallback` | 3 requests, 2 models of which one is small, threshold 2, cooldown 1, a second for the clock that passes while a model is banned | `BannedForCause`, `ChainPromise` (refinement, liveness included) |
| `wiki` | 2 logs, 2 pages, up to 2 pages per answer, any 2 of edits, errors, commands and ends, but a command with neither error nor end | `IndexedIsFresh`, `NotedOnce`, `NotesKept`, `LogsGetIndexed` |
| `call` | call: 3 utterances, one sentence per reply, a follow-up round, with a fault 2 utterances; pipeline: tolerance 2 to 4 frames, resume 2 to 3, caps 8 and 5 | `HoldHasOwner`, `TranscriptHasTaker`, `KeywordEndsReply`, `SilentCallEnds`; `ChunkIsSound`, `GustsDoNotResume` |
| `matrix` | chat: 2 messages, a tool call, a stop, a reload or a lost answer; calls: 2 call sessions, one invite, one room, a fault, at most 3 endings under way | `StopIsExact`, `FilesStayInThread`, `LockServes`, `ChatPromise` (refinement); `ReachableByHangup`, `NothingLeftBehind`, `BrokenCallEnds` |
| `settings` | settings: 2 turns, 2 agent paths, 3 models, 3 skills, any 2 of edits, a reload and a restart; Discord: 2 messages, a command, a file | `SettingsSurvive`, `CachedAgentCurrent`; `ConversationsIsolated`, `FollowUpSees` |
| `skill` | runner: 3 turns of up to 2 calls, 2 attempts, a fault, a directive, limits as small as their order allows; store: 2 skills, 2 credentials, 3 modifications, versions 1, 2 and none, a failure (of a compilation, an init, a move or a save; an answer with another version counts as one) | `ResultsReachModel`, `EffectsAccountedFor`; `InstructionsCurrent`, `CredentialsKept` |
| `recompression` | 3 turns over a budget of 2 messages | finds `CompressionRemovesCondensed` violated |
| `weekday_reminder` | a daily event as `add-reminder` makes it | finds `RecurringRemindersFire` violated |
| `room_answers` | a room, one call, no faults | finds `RoomAnswersAgain` violated |

What the properties say, by the question they answer:

- *Is anything forgotten or told twice?* `SummaryCoverage`, `ThreadReplayMatchesLog`,
  `AnnouncedOnce`, `JobsNotRepeated`, `TaskAccountedFor`, `RepeatsExplained`, `NothingMissed`,
  `IndexedIsFresh`, `NotedOnce`, `NotesKept`, `EffectsAccountedFor`, `ResultsReachModel`,
  `CredentialsKept`.
- *Does anything get where it must not?* `PrivateStaysInRAM`, `FilesStayInThread`,
  `ConversationsIsolated`, `ChatPromise`, `KeywordEndsReply`.
- *Do the places that keep the same thing agree?* `SettingsSurvive`, `CachedAgentCurrent`,
  `InstructionsCurrent`, `FollowUpSees`, `BannedForCause`, `StopIsExact`, `HoldHasOwner`,
  `ReachableByHangup`, `NothingLeftBehind`, `ChunkIsSound`, `GustsDoNotResume`.
- *Does what must happen happen?* `ForcedSummaryHappens`, `DueIsAnnounced`, `DueJobRuns`,
  `QueuedTaskSettles`, `DueReminderFires`, `LogsGetIndexed`, `SilentCallEnds`, `BrokenCallEnds`,
  `ChainPromise`, `TranscriptHasTaker`, `LockServes`.

### Why the bounds are enough

A race needs one actor before, one during and one after; the smallest instance that has
it is the one chosen, and the number of events is bounded where it does not add a new
order of steps:

- `session_memory`: a summary or compression during a turn, another turn recorded
  meanwhile. With `KeepRecent` 1, `SoftAt` and `ForceAt` 2 every threshold is passed by two
  turns; two toggles turn private mode on and off, a restart separates two lives, two
  days make one stale date. `recompression` needs three turns.
- `agenda`: two due items in one tick, both stale lines (moved, deleted), both orders of a
  lost update; a second occurrence of each schedule; a task of another user behind one
  that is interrupted.
- `automation`: two events can share a file name one after the other, both writers can
  meet the other's truncated file, a daily event recurs within the time.
- `fallback`: two requests ban a model while the third waits at it; the clock lifts the ban
  (a clock that moves before there is one changes nothing).
- `wiki`: two processes overlap at every step of a page or a merge; a second action fails after
  the first page was written, and the retry finds its own note; a pass is cut short and
  repeated; an edit falls into an analysis. Two pages are enough for one to go into the other
  while a third party reads either, and for links on both.
- `call`: a barge-in while an earlier one is still awaiting its cancellation needs three
  utterances; the follow-up round is the code's `range(5)` cut to one. In the pipeline the
  tolerance moves, both caps are reachable, and a chunk can close and reopen.
- `matrix`: two messages make one thread or two, the second one waits for the lock or is stopped
  with the first; two sessions make a replaced call and a call after a restart.
- `settings`: two turns give a turn under which the settings change; two posts give two
  threads, a thread and the channel, or two turns in one place.
- `skill`: each breaker fires, nudges come before aborts, a compaction falls between
  two batches; a compilation of one version meets an edit to the next; the one directive can be a
  tool's, a block's, a recovery command's or command mode's; an old file that cannot be moved
  meets a first key.

Symmetry is used in `recompression`, `settings` and `skill`, none of which checks
liveness (`FollowUpSees` and `InstructionsCurrent` are action properties that name
no message or call). A state constraint, `Explored` in the MC module, leaves out
combinations of incidents that meet in no property or that a smaller number of them shows:
in `skill`, credentials are explored while no skill has been modified and tests until the
second modification (neither is read by the other properties); in `wiki`, a
command without errors and ends, after an edit with one page per answer, and overlapping
passes only while the second log rests (`NotedOnce` and `NotesKept` except what overlapping does;
`IndexedIsFresh` and `LogsGetIndexed` speak of one log at a time); in
`session_memory`, `agenda`, `matrix`, `settings` and `call`, the incidents named with "or"
or "any 2" above one at a time; in `matrix`, the second message before the first. A constraint cuts behaviours short and adds none; under
fairness one that is cut counts for nothing. The theorems below know no such bounds.
Deadlock is checked in `automation` and `wiki`, whose systems never stop; in the other runs
a behaviour ends when its messages, calls or turns are used up.

## Fairness

Weak fairness is assumed only of code that runs to its end by itself, and only where a
liveness property needs it. Users, models' contents and clocks owe nothing, but for:

- `SessionMemory`: the `while True` loop reaches the force check (`WF` on `ForcedStart`), and
  the model does not fail every time (`SF` on `SummarizeDone`; a failed request is tried
  again at the next tick).
- `Reminders`, `JobRunner`, `Automation`: the loop's own steps and a begun command.
- `Scheduler`: the loop, whose requests and scripts have timeouts; time passes (`IdleGrows`);
  a process that stopped is started again (`restart: unless-stopped`, `compose.yml:5`).
- `FallbackChain`: replies come or fail, as every client is built with a timeout.
- `MemoryWiki`: the scheduler's pass goes on, and the hour of cooldown passes; what may fail
  is bounded, so the model is reached in the end.
- `CallCore`: as long as a coroutine can go on, one does; the caller ends what they begin
  to say but need not say anything or hang up. `Endpointing`: frames come while the stream
  is open (only `GustsDoNotResume` and invariants are stated, which do not use it).
- `Signaling`: the coroutines that end a call go on and the two watchdogs fire; the handler
  owes nothing.

## Proofs

TLC checks one small instance, TLAPS every value of the constants under the named
assumptions. Each proof has `Init => Inv`, `Inv /\ [Next]_vars => Inv'` with a step per
action, and a last step by PTL.

`Memory_proofs.tla`, for conversations under `DistinctNames` and `NumbersAssumption`, and for
the wiki, with all logs, pages and incidents, under `WikiAssumption`:

- `TypeCorrect`: `Spec => []TypeOK`. Inductive; the work is in the operators on sequences
  (`ReplayType`, `CutType`, `CompressedType`) and in `ThreadHistoryIs`, which unfolds the
  recursive function over the days (`Iterates`: such a function exists).
- `Privacy`: `Spec => []PrivateStaysInRAM`. Not inductive: a hidden exchange must not be
  recorded again, so `PrivacyInv` adds that a recorded exchange's turn is over and that
  what a log, a summary or a prompt holds belongs to such a turn.
- `Coverage`: `Spec => []SummaryCoverage`, by `CoverageInv`, which ties what the log holds
  to the summary prompt while a request is under way.
- `ThreadsReplayTheirLog`: `Spec => []ThreadReplayMatchesLog`. `ReplayInv` adds that the session
  writes to the last file that has entries (`HistoryAppend`: only then is a new entry the last
  of the history) and that a loaded list holds exchanges of finished turns, so that the
  one being recorded is in none; with `PrivacyInv`, a list first read from the logs has
  nothing hidden in it. The lemmas on `Without` say what appending and hiding do to a list.
- `IndexIsNeverAhead`: `WikiSpec => []IndexedIsFresh`. A process writes its own copy of the tracker
  over the file, so `WikiInv` says of both copies and of the file what the property says of the
  file (`Fresh`), and of a log in hand that what was written of it is noted (`Backed`). One lemma
  per operator on a process's record says what it keeps (`OpenedShape`, `MergingShape`, ...);
  `InsertSteps`, `ConsolidateSteps` and `WikiCases` sum the steps up.
- `UpToDateIsNoted`: `WikiSpec => []UpToDate`, which `IndexedIsFresh` leaves open: a recorded time is
  never later than the log's own, so that a log recorded at its present time has had its present
  content noted. It is the part of `WikiInv` that bounds the file and both copies (`Behind`). No run
  checks `UpToDate` by itself.
- `NotesAreKept`: `WikiSpec => []NotesKept`. `KeptInv` says what a process that runs alone may rely
  on (`Trusty`): what it has read of a page is still what the page says when it writes it, and
  once it is about to remove a page, all that page said is on another one. A process beside
  another relies on nothing; what it overwrites is excused, and nothing else.
- `NotesAreNotedOnce`: `WikiSpec => []NotedOnce`. `OnceInv` holds until two processes are at work at
  once: then a process knows of every note there is (`Careful`, `Knows`) but of logs in `cut`, and
  so asks about no content a second time.
- `WikiIsTyped`: `WikiSpec => []WikiTypeOK`. `CountsInv` adds that logs are edited within the bound,
  `PagesInv` that only a page that exists has notes, through updates, merges and torn writes.

`FallbackChain_proofs.tla`, for every chain, threshold, cooldown and set of requests,
under `ChainAssumption`:

- `TypeCorrect`; one lemma per action says what it does to the record of its request
  (`Goes`, `Ends`, `Stays`, `Speaks`, `Starts`), `StepShape` collects them.
- `RaiseCaused`: a request that fails has an error to report: the loop cannot end without
  one, as the test before it has found a model that is not banned.
- `Banned`: `Spec => []BannedForCause`. `BInv` adds that counts are backed by as many
  requests and that those are through with the model, so none counts twice.
- `Voices`: one model speaks to a request, by `VInv`.
- `KeepsPromise`: the refinement of `LLMRequest` without its fairness; it needs `VInv` so
  that a request passed on is not taken as speaking.

`Call_proofs.tla`, for all frame counts, tolerances and caps under `EndpointingAssumption`, and
for all numbers of utterances, sentences and faults under `CallAssumption`:

- `ChunksAreSound`: `PipeSpec => []ChunkIsSound`. `PipeInv` adds the types, that a closed chunk
  has no pause, and that the frames of speech counted in a pause came in a row.
- `PausesSurviveGusts`: `PipeSpec => GustsDoNotResume`, from the same invariant and
  `ResumeAtLeast` (no tolerance makes fewer than `MIN_RESUME_SPEECH_FRAMES` enough).
  `FramePasses` fixes the noise and the verdict on a frame; then one lemma per operator on
  chunks (`TakenShape`, `KeptShape`, `HeardShape`), and the cases that the frame closes the
  chunk (`PausedInv`) or does not (`GoesOnInv`, `GoesOnSteady`). `PausedShape` is the point
  where a frame at the cap might close two chunks at once: it cannot.
- `HoldIsOwned`: `Spec => []HoldHasOwner`, and `TranscriptsAreTaken`: `Spec =>
  []TranscriptHasTaker`. Neither is inductive. `CallInv` says who may be tracked and cancelled:
  the only reply that is not cancelled is the pending one (so no two are generated side by
  side), a coroutine of speech has no reply before it is done, only one that is no candidate for
  a barge-in is tracked and so can be cancelled, and what a keyword ended is cancelled or over.
  `ToneInv` adds what is known of the greeting. Each action is summarised by what it does to the
  coroutine it belongs to (`SpeechStep`, `Cancels`, `ReplyStep`), and one lemma per summary shows
  that the invariant survives it.
- `KeywordsEndReplies`: `Spec => KeywordEndsReply`. `QueueStep` lists what a step can do to the
  playback buffer; whoever adds to it has not been ended (`SpeakersAreUncut`), and a shift or an
  addition of others' sentences makes no more of a reply's own (`FewerInTail`, `SameWithOthers`).

`Matrix_proofs.tla`, for all messages and bounds under `MatrixConstants`, and for all calls,
sessions and faults under `SignalingAssumption`:

- `StopsAreExact`: `Spec => []StopIsExact`. `StopInv` says that a turn is registered for its
  thread exactly while it is at work, that one told to stop has its cancellation before it, and
  that until the shutdown nobody else has.
- `StoppedStaySilent`: `Spec => StopSilences`, from `StopInv` and `PostsShape`: a step that posts
  an answer is one of a turn that nobody has cancelled. No run checks `StopSilences`, as the
  next property implies it: in the phase "broken" nothing but a note is said.
- `TurnsKeepPromise`: `Spec => ChatPromise`, the refinement of `ChatTurn`. The phase of a message is
  read off its task and what has been asked of it (`PhaseOf`), what was said off `posted`
  (`SaidBy`). One lemma per kind of step says which action of `ChatTurn` it is, or that it is none
  (`TakenPromise`, `AnswerPromise`, `FilePromise`, `ConcludePromise`, `NotePromise`, `SilentPromise`);
  `BreakPromise` shows that a `//stop` of many turns is one step. `StopInv` is needed for
  `Undisturbed`: who goes on has not been told to stop.
- `LockLeavesNobodyBehind`: `Spec => []LockServes`. `LockInv` says that the turns that use the
  lock a session has for the skill-creator stand in its queue once each, and no others; whoever
  creates a skill stands first. So the first of the queue waits for nobody, whichever of the others are
  cancelled while they wait (`RemoveFirstShape`).
- `FilesStay`: `Spec => []FilesStayInThread`. `FilesInv` follows a file from the cached agent to
  the turn that runs it, the list that turn begins, the queue a later turn takes over, and the
  outbox: at each of them both ends have arrived in one thread (`Together`), and a message that
  has arrived stays where it is (`Settled`).
- `CallsAreReachable`: `SigSpec => []ReachableByHangup`. `ReachInv` adds that the handler under
  way works on the session its manager has for the key, and that a manager has sessions of its
  own life and key only.
- `HungUpCallsAreGone`: `SigSpec => []NothingLeftBehind`. `LeaveInv` says who still owes what: a
  session hung up is closed or an ending is at it (`Closing`), what ends a call has marked it,
  and while Pawlia is shown as a member there is a session that will clear it or goes on
  (`ShownFor`, `Owes`). It is not implied by the property, which speaks of quiet sessions only.
- `TurnsAreTyped`: `Spec => []TypeOK`, and `CallsAreTyped`: `SigSpec => []SigTypeOK`. For turns, `BoxInv`
  says that only a turn that sends or excuses itself has an outbox, and that no more files of a
  list are sent than it has, since lists only grow (`ListsGrow`); for calls, `Bounded` says that the
  interface is started again by a fault only.

`Skills_proofs.tla`, for all skills, credentials and bounds under `SkillStoreAssumption` (which
says that the marks for "no file" and "torn" are no credentials), and for all setups, tool calls and limits of a
run under `SkillRunnerConstants` (the limits are numbers, and those of a loop that must be able to
begin are not zero, as the constants of the class are):

- `NoCredentialLost`: `StoreSpec => []CredentialsKept`. `SecretsInv` adds that until
  there is a new file everything is in the old one (`OldHasAll`), and that `credentials.py` gets to
  run only after an attempt to move it: it has been moved, or its keys are given up (`MoveTried`).
- `SkillsAreCurrent`: `StoreSpec => InstructionsCurrent`, an action property. `LoadInv` says why one
  modification time is enough: every skill on disk that is not younger than the cache is in
  it as it is, since what is made or edited later gets a later time; and that a workflow, on
  disk or read, states the version it was made from unless the answer did not keep to it
  (`StatesItsOrigin`), and was read for the version of its skill, if that has one
  (`FitsVersion`). `MaxOfBounded` gives the newest time its meaning.
- `RunsAreAccountedFor`: `Spec => []EffectsAccountedFor` (`SkillRunner`). `RunInv` counts: while a run
  goes on, the directives of the run and of the workflow under way are those printed so far, less
  those of recovery commands. `HandOverAgain` is the end of a workflow without text, which may
  return the last block's directive once more. It rests on two facts about the code: a mode hands over to another one only with an empty
  result and no directive (`HandsOver`), and the shell tool prints "(no output)" for nothing,
  so a block that ran leaves a result.
- `ResultsFollowCalls`: `Spec => []ResultsReachModel`. `ReportInv` keeps, for each executed call, a
  result with nothing but results between it and its call, and while the calls of a turn are
  executed no other message follows the answer that made them. The lemmas are about lists:
  what is kept stays in order (`KeepIs`, from `RankGrows` and `RankOnto`), and `_sanitize_messages`
  takes neither a result behind its call nor that call (`SanitizeReports`).
- `RunsStayWithinLimits`: `Spec => []WithinLimits`, the bounds on a run that `TypeOK` names and one more:
  the breaker for repeated calls works on what was asked, and `AskedInv` balances it against what
  was executed (`CountBehind`), so within one loop no call is executed as often as the breaker's
  limit unless a single answer asks for it that often. `Going` tells where the loop can still
  begin a turn; there, and only there, its counters are below the limits (`LoopLimits`).
  `WithinLimits` is no property of a run.

`Agenda_proofs.tla`, for all users, tasks, reminders, jobs and bounds under `SchedulerAssumption`,
`RemindersAssumption` and `JobsAssumption`:

- `TasksAreAccountedFor`: `LoopSpec => []TaskAccountedFor`. `TaskInv` says what is known of the task in
  hand, and that what still waits has not been started. The count of tasks lost is bounded by
  a lemma on sets: a step adds none, the end of a process one (`LostShrinks`, `LostGrowsByOne`).
- `JobsRunOnce`: `JobSpec => []JobsNotRepeated`. `Room` is how often a job was asked for, what crashes
  and overwriting writes allow, less its runs; `JobInv` says that room and occurrences never go
  below zero. To be inductive it must say who may still start a run: an entry of `jobs.json` that
  the pass has not run yet, and an entry of the pass's own list after the one it awaits, is
  `Paid` (it has an occurrence, a request or room left); and what a command is about to write
  derives from what it read. `SelectedIsPaid` and `UpToGrows` are what the two-minute window of
  `_is_due` contributes: a job it selects has an occurrence later than its last run.

- `OccurrencesAnnouncedOnce`: `Spec => []AnnouncedOnce` (`Reminders`). `RemInv` says, for each place
  that can lead to an announcement, how often the occurrence has been announced: a line that
  calls for one (`LinesOK`), a reminder of the tick, which stands on the line it names or is
  paid for by an incident (`TodoOK`), and a line the organizer is about to write, which derives
  from what it read or is new (`WriteOK`). A write over a changed file needs no more than
  `TimesOK`, since it adds one to what is allowed. For the second half of the property
  `PlaceOK` holds until lines move under a tick: the lines, the copy and what the organizer
  writes then agree on where a task stands, and where they differ in its time the older one has
  been announced. That a set of line numbers can be put in order at all (`InOrder`) is
  `OrderExists`, by a smallest counterexample.

`Automation_proofs.tla`, for all events, checklists, tasks, clocks and bounds under
`AutomationAssumption`, by one invariant, `AutoInv`:

- `RepeatsAreExplained`: `Spec => []RepeatsExplained`. Three copies of `scheduler_state.json` are about:
  the file, the check's and the organizer's. `KeptOK` says which of them must hold what: the
  check's copy all that was announced; the file all of it too once the check has saved, but for
  what a command is about to write; and a copy that nobody has overtaken all that the file
  has, so that writing it takes nothing out. `TodoOK` says that what a check is still to do is
  not in its copy, hence not yet announced.
- `NothingIsMissed`: `Spec => []NothingMissed`. `NotesOK` and `NamesOK` say that a key, which names a
  file and a time, tells the event it was noted for, and that of the events a file name has had
  the one present is the latest: an alert held back by a noted key was sent, or its file name is
  reused. That the code then looks at the right occurrence is arithmetic on days (`NextOccurs`).

`Settings_proofs.tla`, for all Discord messages, files and commands under `DiscordAssumption` (the
ids of places differ), and for all selectors, skills and threads under `SettingsConstants` (of
which the proofs use how keys, selectors and paths are shaped, not how many there are):

- `ConversationsStayApart`: `ChatSpec => []ConversationsIsolated`. Agents, their lists of files and
  the turn that speaks for them are shared and outlive a turn. `ChatInv` says of each that it is
  of one place: a cached agent's list and speaker are of its session, the files in a list of the
  place of the turn that began it, and an exchange is recorded under the session and thread of
  its message. `Settles`: the place of a message, once decided, is never decided again, which
  carries all of this from step to step.
- `FollowUpsSee`: `ChatSpec => FollowUpSees`, an action property. `JournalOK` makes what was recorded in
  a place findable by the thread and session of that place; `OnlyStartRuns` says that a turn
  gets to run by being given its context and in no other way.
- `SettingsAreKept`: `Spec => []SettingsSurvive` (`Settings`). What a skill script wrote to the file
  reaches the session as a directive of its result, so the two differ while one is under way.
  `SettingsInv` adds when they agree nevertheless (`Agreed`: no override waits to be obeyed, or a
  drift explains it), what waits only for a turn in a skill (`TurnOK`), and the types.
  `ObeyedBy` sums up what obeying any list of directives does; it is proved by induction over the
  list (`IsObeying`), and says that an override obeyed leaves both sides the same and invalidates
  the cache.
- `CachedAgentsAreCurrent`: `Spec => []CachedAgentCurrent`, and `SettingsAreTyped`: `Spec => []TypeOK`, by
  the same invariant, of which `CacheOK` and the types are conjuncts.

So every safety invariant and every action property of the runs is proved, and both
refinements, that of `LLMRequest` but for its fairness. The type invariants
of `SessionMemory`, `MemoryWiki`, `FallbackChain`, `Settings`, `MatrixChat` and `Signaling` are proved, of
`SkillRunner` the limits in it; the types the other proofs need are conjuncts of their invariants.
Out of the prover's reach here: liveness under fairness (all `~>`, `<>` and `[]<>` properties,
and the liveness half of `ChainPromise`). What a recursive function
computes is proved where its induction runs over an interval of numbers (`SetInduction`, by a
smallest counterexample); an induction theorem that takes an operator as parameter cannot be used.

## Findings

- `recompression`: `chat.py:828` counts exchanges dropped from a prompt that is a snapshot
  and removes as many from a list that may have changed since; exchanges no marker
  condenses disappear from the replay (`chat.py:824` says what it is for).
- `weekday_reminder`: the reminder that `add-reminder` makes of some weekdays has a lead of
  no minutes, and `_check_events` (`scheduler.py:164`, `:755`) fires it only while now equals
  the beginning; `skills/organizer/SKILL.md:37` says it fires on every matching day.
- `room_answers`: a call in a room that ends by itself stays in the manager's dictionary
  and every later membership is refused as "already in this call"
  (`matrixrtc_call.py:566`; docstring at 548).

Met while modelling, and not given a run:

- `run-job` sets `force_run` in a list that `process_user`'s later save overwrites
  (`docs/automation.md:300`).
- Private mode survives a restart by its marker file; `docs/commands.md:26` calls it
  temporary (`memory.py:156`). A private session is never force-summarised
  (`docs/interfaces.md:376`).
- A task ID listed before a deletion names another task after it
  (`tests/test_scheduler_datemath.py:514`).
- The last request of a streamed thread turn condenses the main timeline (`chat.py:1293`).
- The model may create a page whose slug stands for an existing one, which is then
  overwritten (`dream_wiki.py:508`, `:720`).
- A lost hold tone counts as activity and keeps the inactivity hangup away
  (`docs/config.md:315`); it is the exception in `HoldHasOwner` and `SilentCallEnds`.
- The compaction of a skill run drops the task itself (`skill_runner.py:74`), which is why
  `ResultsReachModel` excepts compacted lists.
- `disabled-skills` is not obeyed at once as its `SKILL.md:259` says, but when the skill
  has returned, and never if the turn is stopped.
- A Discord notice is seeded in the channel's session while its thread has another
  (`memory.py:1146`), so a follow-up there does not see it: excepted in `FollowUpSees`.
- A reminder of a daily event that leads by more than a day is sent late: only the next
  occurrence is looked at, so not before the one ahead of it has begun (`scheduler.py:131`,
  `:755`). It is an exception in `NothingMissed`, which the proof showed to be needed.
- A background task starts while a chat turn is under way (`docs/interfaces.md`: "Tasks only
  run when the LLM is free"): idle time is touched at a turn's start only.
- A barge-in reads the active task after it has awaited the pending one; by then the active
  task may be another utterance's, which is cancelled as if it were the reply
  (`call_core.py:881`).

- A directive printed by the last block of a workflow that ends without text is returned twice,
  and so obeyed twice (`executor.py:265-269`, `:297-300`); that of a recovery command never.
  Excepted in `EffectsAccountedFor`.
- A failed move of the old credential file is passed over with the comment that "callers will fall
  back to it" (`pawlia/credentials.py:60-61`), but `load` (65-80) and the script read the new file
  only. The next key that is set creates the new file, after which the old one is never moved
  and its keys are hidden for good. Excepted in `CredentialsKept`, as is a save of the script that
  breaks off after the truncation (`skill-creator/scripts/credentials.py:59`): every further
  command raises on the torn file, and a skill gets no credentials.
- A skill without `metadata.version` follows any workflow (`loader.py:81`), and its workflow, once
  compiled as "1.0" (`compiler.py:157`), is not compiled again after an edit unless forced. The
  version a compiler's answer states is taken at its word (`compiler.py:222-259`): a workflow
  made from version 1 that states 2 is followed after an edit to 2. Excepted in
  `InstructionsCurrent`.
- An insert that fails at a later action is repeated an hour later with the first page already
  written (`memory_indexer.py:220`), and its notes are appended twice: excepted in `NotedOnce`.
- A tracker truncated by a crash (`memory_indexer.py:107`) makes every log count as new.

## Not modelled

Components: AGC, recorder, TTS, transcription, VAD statistics (signal processing and
engines); the Telegram, web, OpenAI-compatible and CLI interfaces (callers of the same
agents, caches and scheduler, whose commands are in `Settings` and `SessionMemory`);
tools, workspace search, attachments' text, the vision probe (one request or one
formatting each); the browser, files and researcher skills (wrappers of external
programs); Discord voice (the same core on another transport).
The `SimpleVectorBackend` of `rag_backend.py` is an index that is rebuilt;
`MarkdownTopicBackend` is created nowhere.

Within modelled components, by module:

- `SessionMemory`: the retry after a context-length error (it compresses the request only),
  nudges, model overrides of threads, `migrate_session`, formatting of logs.
- `Reminders`, `JobRunner`, `Automation`: tasks in project notes, cron, weekly, monthly and
  yearly rules (the same window on other days), scripts and their results, a crash inside
  the rewrite of `tasks.md`, the fuzzy match of `delete-event`.
- `Scheduler`: the deletion of old recordings. `load_session` outside the `try` of the forced
  pass (`scheduler.py:511`) ends the pass of the other users, too.
- `FallbackChain`: the separate ledgers of the wrappers `bind_tools` makes (`llm.py:848`), the
  retry of `invoke` that breaks off and is followed by another model (`llm.py:905`), the text of
  summaries, `LLMFactory`.
- `MemoryWiki`: the text of notes and links (a write that changes links only is a write of the same
  notes), `dreamed_files.json`, `index.md` (shown to the model, whose answer is free) and `log.md`,
  search, the other backends. A page belongs to one name, whatever its type directory. A log
  that cannot be read is passed over like one that is up to date.
- `CallCore`: the deadline before the answer, levels and seconds, attachments in a call;
  speech noted without a task waits for the next one (`call_core.py:1433`).
- `Endpointing`: the statistics of a finished chunk. As in the code the frame that opens a
  chunk is in it twice, the reference level may be set without an open chunk while the
  bot plays, and an open chunk is lost when the stream ends.
- `Signaling`: candidates, SDP, audio conversion, jitter.
- `MatrixChat`: `//clear`, pairing, encryption, status lines, notifications. An attachment
  being downloaded is not registered, so that `//stop` in its thread does not find it; a
  second `//stop` ends a turn without its note; work in `to_thread` goes on after the
  cancellation.
- `DiscordChat`: `//clear`, private mode, `//background`, limits of length. The opening exchange
  of a `//thread` is not in the thread's context and its files are not sent.
- `Settings`: overrides of threads, `skill.<name>` paths, the sections for coding and the
  user. As in the code a `/reload` empties the calling interface's cache only, and agents
  made outside `AgentCache` have no `on_model_change`.
- `SkillRunner`: what the verification of a block decides, prompts, status messages,
  cancellation, and the shortening of old tool results in `_sanitize_messages` (`base.py:257-310`,
  `:360`), which changes their content, not their ids and places. A failing command's output counts as a result (`executor.py:428`).
- `SkillStore`: `validate`, `list`, `package`, required configuration, bundled skills. A compiled
  workflow is used only after a `SKILL.md` has changed.

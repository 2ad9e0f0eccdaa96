--------------------------- MODULE SessionMemory ---------------------------
(***************************************************************************)
(* The conversation memory of one user: pawlia/memory.py with the callers  *)
(* that mutate a Session (agents/chat.py: run, run_streamed, _persist and  *)
(* the context-budget compression; scheduler.py: _summarize_user;          *)
(* interfaces: /private, /model, seeding of notification threads).         *)
(*                                                                         *)
(* Everything runs in one asyncio loop, so an action is the code between   *)
(* two awaits.  A turn (one user message and its answer) is interleaved    *)
(* with other turns, the scheduler and the commands at every LLM call.     *)
(*                                                                         *)
(* An exchange is represented by the turn that produced it, a text file by *)
(* the sequence of the exchanges in it, a summary by the set of exchanges  *)
(* the LLM was given to summarise.                                         *)
(***************************************************************************)
EXTENDS Integers, Sequences, FiniteSets, SequencesExt

CONSTANTS
    Turns,          \* user messages (and seeded bot messages) of the behaviour
    Main,           \* the main timeline (thread_id None)
    Threads,        \* thread ids
    Marker,         \* the ("__compressed__", ...) entry of session.exchanges
    Note,           \* the ("[System]", ...) entry written by /model
    MaxDay,         \* bound: calendar days
    KeepRecent,     \* KEEP_RECENT_EXCHANGES (5)
    SoftAt,         \* fewest replayed exchanges that can trip a soft trigger
    ForceAt,        \* FORCE_SUMMARY_EXCHANGES (30)
    KeepMessages,   \* _CONTEXT_MIN_NON_SYSTEM_KEEP (6)
    ContextBudget,  \* context budget of the model, counted in messages
    MaxRounds,      \* replies with tool calls a turn may get (max_tool_turns and the grace round)
    MaxToggles,     \* bound: /private commands
    MaxNotes,       \* bound: /model commands
    MaxRestarts,    \* bound: crashes and restarts of the process
    MaxTools        \* bound: tool rounds of all turns together

Chats == {Main} \cup Threads
Days == 1 .. MaxDay
Entries == Turns \cup {Marker, Note}

ASSUME DistinctNames ==
    /\ Main \notin Threads
    /\ Marker # Note
    /\ Marker \notin Turns
    /\ Note \notin Turns

ASSUME NumbersAssumption ==
    /\ MaxDay \in Nat \ {0}
    /\ KeepRecent \in Nat \ {0}
    /\ MaxRounds \in Nat \ {0}
    /\ ForceAt \in Nat
    /\ KeepRecent < ForceAt
    /\ {SoftAt, KeepMessages, ContextBudget, MaxToggles, MaxNotes, MaxRestarts, MaxTools} \subseteq Nat

VARIABLES
    \* -- the Session object (RAM) --
    private,         \* chats in private mode: session.private, private_threads
    exchanges,       \* session.exchanges
    exchangeCount,   \* session.exchange_count
    dailyHistory,    \* session.daily_history
    summary,         \* session.summary
    threadContexts,  \* session.thread_contexts: its domain is what is loaded
    currentDate,     \* session.current_date_str
    \* -- the user's directory (disk) --
    log,             \* memory/<date>.md: the main entries and thread sections
    summaryFile,     \* memory/context_summary.md
    privateMarkers,  \* the private_session / private_thread_* marker files
    \* -- actors --
    turn,            \* per turn: where the ChatAgent coroutine stands
    summarizer,      \* the scheduler's _summarize_user coroutine
    today,           \* the server's date
    \* -- bounds --
    toggles, notes, restarts, toolUses,
    \* -- history variables: no action's guard reads them --
    hidden,          \* exchanges recorded while their chat was private
    midSummary,      \* main exchanges recorded while a summary was awaited that did
                     \* not fail, since load_session
    compressedAway,  \* exchanges a compression removed from session.exchanges
    timeline         \* main exchanges since load_session, in order

session == <<private, exchanges, exchangeCount, dailyHistory, summary,
             threadContexts, currentDate>>
disk == <<log, summaryFile, privateMarkers>>
actors == <<turn, summarizer, today>>
bounds == <<toggles, notes, restarts, toolUses>>
history == <<hidden, midSummary, compressedAway, timeline>>
vars == <<session, disk, actors, bounds, history>>

-----------------------------------------------------------------------------
(* Messages of a prompt: only the role and the exchange a message replays    *)
(* matter.  The system prompt is always kept and is left out.                *)

Human(x) == [role |-> "human", of |-> x]
AI(x)    == [role |-> "ai",    of |-> x]
Tool(x)  == [role |-> "tool",  of |-> x]
Messages == [role : {"human", "ai", "tool"}, of : Entries]

\* Replay of session.exchanges: the last compression marker, then the exchanges after it.
Replay(es) ==
    LET marks == {i \in DOMAIN es : es[i] = Marker}
        cutoff == IF marks = {} THEN 0 ELSE CHOOSE i \in marks : \A j \in marks : j <= i
        after == SubSeq(es, cutoff + 1, Len(es))
        pair == [i \in 1 .. 2 * Len(after) |->
                    IF i % 2 = 1 THEN Human(after[(i + 1) \div 2]) ELSE AI(after[i \div 2])]
    IN  IF cutoff = 0 THEN pair ELSE <<Human(Marker)>> \o pair

\* How many leading messages a compression drops: all but the last KeepMessages, and
\* the tool results that would be orphaned at the cut.
Cut(p) ==
    IF Len(p) <= ContextBudget \/ Len(p) <= KeepMessages THEN 0
    ELSE CHOOSE c \in (Len(p) - KeepMessages) .. Len(p) :
            /\ c = Len(p) \/ p[c + 1].role # "tool"
            /\ \A i \in (Len(p) - KeepMessages) .. c - 1 : p[i + 1].role = "tool"

Dropped(p) == SubSeq(p, 1, Cut(p))

HumansIn(p) == Cardinality({i \in DOMAIN p : p[i].role = "human"})

\* The prompt after compression: the summary message is merged into a leading
\* human message, else put in front.
Compressed(p) ==
    LET kept == SubSeq(p, Cut(p) + 1, Len(p))
    IN  IF kept # <<>> /\ kept[1].role = "human" THEN kept ELSE <<Human(Marker)>> \o kept

\* The exchanges of thread h in the daily logs lg, oldest file first.
ThreadHistory(lg, h) ==
    LET upTo[d \in 0 .. MaxDay] == IF d = 0 THEN <<>> ELSE upTo[d - 1] \o lg[d][h]
    IN  upTo[MaxDay]

\* get_thread_context: the cached list, or the logs on first access.
ThreadContext(h) ==
    IF h \in DOMAIN threadContexts THEN threadContexts[h] ELSE ThreadHistory(log, h)

CacheThread(h, s) ==
    [g \in DOMAIN threadContexts \cup {h} |-> IF g = h THEN s ELSE threadContexts[g]]

LastOf(s, n) == SubSeq(s, IF Len(s) > n THEN Len(s) - n + 1 ELSE 1, Len(s))

-----------------------------------------------------------------------------
NewTurn == [pc |-> "unsent", chat |-> Main, streamed |-> FALSE,
            partial |-> FALSE, rounds |-> 0, prompt |-> <<>>]

InFlight(t) == turn[t].pc \in {"prepare", "llm"}

EmptyLog == [d \in Days |-> [c \in Chats |-> <<>>]]

NoSummary == [pc |-> "idle", covers |-> {}]

Init ==
    /\ private = {}
    /\ exchanges = <<>>
    /\ exchangeCount = 0
    /\ dailyHistory = <<>>
    /\ summary = {}
    /\ threadContexts = [h \in {} |-> <<>>]
    /\ currentDate = 1
    /\ log = EmptyLog
    /\ summaryFile = {}
    /\ privateMarkers = {}
    /\ turn = [t \in Turns |-> NewTurn]
    /\ summarizer = NoSummary
    /\ today = 1
    /\ toggles = 0 /\ notes = 0 /\ restarts = 0 /\ toolUses = 0
    /\ hidden = {} /\ midSummary = {} /\ compressedAway = {} /\ timeline = <<>>

-----------------------------------------------------------------------------
(* Recording an exchange: MemoryManager.append_exchange / append_thread_exchange. *)

WriteLog(t, c) == log' = [log EXCEPT ![currentDate][c] = Append(@, t)]

\* Private exchanges stay in session.exchanges; the others also go to
\* session.daily_history and to today's log file.
AppendExchange(t) ==
    /\ exchanges' = Append(exchanges, t)
    /\ exchangeCount' = exchangeCount + 1
    /\ timeline' = Append(timeline, t)
    /\ midSummary' = IF summarizer.pc = "llm" THEN midSummary \cup {t} ELSE midSummary
    /\ UNCHANGED threadContexts
    /\ \/ /\ Main \in private
          /\ hidden' = hidden \cup {t}
          /\ UNCHANGED <<dailyHistory, log>>
       \/ /\ Main \notin private
          /\ dailyHistory' = Append(dailyHistory, t)
          /\ WriteLog(t, Main)
          /\ UNCHANGED hidden

\* Mutant of AppendThreadExchange: the cached list is not extended.
AppendThreadDiskOnly(t, h) ==
    /\ UNCHANGED <<threadContexts, exchanges, exchangeCount, dailyHistory, timeline, midSummary>>
    /\ \/ h \in private /\ hidden' = hidden \cup {t} /\ UNCHANGED log
       \/ h \notin private /\ WriteLog(t, h) /\ UNCHANGED hidden

AppendThreadExchange(t, h) ==
    /\ threadContexts' = CacheThread(h, Append(ThreadContext(h), t))
    /\ UNCHANGED <<exchanges, exchangeCount, dailyHistory, timeline, midSummary>>
    /\ \/ /\ h \in private
          /\ hidden' = hidden \cup {t}
          /\ UNCHANGED log
       \/ /\ h \notin private
          /\ WriteLog(t, h)
          /\ UNCHANGED hidden

\* ChatAgent._persist: the end of the turn.
Persist(t) ==
    /\ turn' = [turn EXCEPT ![t].pc = "done", ![t].prompt = <<>>]
    /\ IF turn[t].chat = Main THEN AppendExchange(t) ELSE AppendThreadExchange(t, turn[t].chat)
    /\ UNCHANGED <<private, summary, currentDate, summaryFile, privateMarkers,
                   summarizer, today, bounds, compressedAway>>

Abandon(t) ==
    /\ turn' = [turn EXCEPT ![t].pc = "lost", ![t].prompt = <<>>]
    /\ UNCHANGED <<session, disk, summarizer, today, bounds, history>>

-----------------------------------------------------------------------------
(* A turn *)

\* A message arrives and run / run_streamed snapshots the chat for its prompt; the
\* images of a message are described before the first request.
Send(t, c, streamed) ==
    /\ turn[t].pc = "unsent"
    /\ turn' = [turn EXCEPT ![t] =
                  [NewTurn EXCEPT !.pc = "prepare", !.chat = c, !.streamed = streamed,
                                  !.prompt = Append(Replay(IF c = Main THEN exchanges
                                                           ELSE ThreadContext(c)),
                                                    Human(t))]]
    /\ threadContexts' = IF c = Main THEN threadContexts ELSE CacheThread(c, ThreadContext(c))
    /\ UNCHANGED <<private, exchanges, exchangeCount, dailyHistory, summary, currentDate,
                   disk, summarizer, today, bounds, history>>

\* session.exchanges with its first n entries replaced by a marker.
Condense(n) == <<Marker>> \o SubSeq(exchanges, n + 1, Len(exchanges))

\* IterationBudget.consume grants max_tool_turns rounds and one grace round.
RoundLeft(t) == turn[t].rounds < MaxRounds

\* The request after the tool budget is used up.
LastRequest(t) == turn[t].rounds > MaxRounds

\* The list _prepare_messages_for_context_budget returns replaces the turn's own,
\* but for the streamed requests and the last one, which get a local copy.
Rebound(t) == ~LastRequest(t) /\ ~(turn[t].streamed /\ turn[t].rounds = 0)

\* A compression is recorded in session.exchanges when it is passed no thread id;
\* the last request of run_streamed passes none, whatever the chat.
Recording(t) == turn[t].chat = Main \/ (turn[t].streamed /\ LastRequest(t))

\* _prepare_messages_for_context_budget: over budget, the oldest messages are
\* condensed and a marker replaces as many entries of session.exchanges as human
\* messages were dropped.
Prepare(t) ==
    LET p == turn[t].prompt
        h == HumansIn(Dropped(p))
        n == IF h < Len(exchanges) THEN h ELSE Len(exchanges)
    IN  /\ turn[t].pc = "prepare"
        /\ turn' = [turn EXCEPT ![t].pc = "llm",
                                ![t].prompt = IF Cut(p) > 0 /\ Rebound(t) THEN Compressed(p) ELSE @]
        /\ \/ /\ h = 0 \/ ~Recording(t)
              /\ UNCHANGED <<exchanges, compressedAway>>
           \/ /\ h > 0 /\ Recording(t)
              /\ exchanges' = Condense(n)
              /\ compressedAway' = compressedAway
                    \cup (ToSet(SubSeq(exchanges, 1, n)) \cap Turns)
        /\ UNCHANGED <<private, exchangeCount, dailyHistory, summary, threadContexts,
                       currentDate, disk, summarizer, today, bounds,
                       hidden, midSummary, timeline>>

\* The model asks for tools; their results are appended and the model is asked
\* again.  _partial_text is the text streamed before the first tool call.
ToolRound(t, said) ==
    /\ turn[t].pc = "llm"
    /\ RoundLeft(t)
    /\ toolUses < MaxTools
    /\ toolUses' = toolUses + 1
    /\ turn' = [turn EXCEPT ![t].pc = "prepare",
                            ![t].rounds = @ + 1,
                            ![t].partial = IF turn[t].streamed /\ turn[t].rounds = 0
                                           THEN said ELSE @,
                            ![t].prompt = @ \o <<AI(t), Tool(t)>>]
    /\ UNCHANGED <<session, disk, summarizer, today, toggles, notes, restarts, history>>

\* The tool budget is used up: run drops the reply and run_streamed executes the
\* tools, and both ask once more with a nudge.
LastRound(t) ==
    /\ turn[t].pc = "llm"
    /\ turn[t].rounds = MaxRounds
    /\ turn' = [turn EXCEPT ![t].pc = "prepare",
                            ![t].rounds = @ + 1,
                            ![t].prompt = @ \o (IF turn[t].streamed
                                               THEN <<AI(t), Tool(t), Human(t)>>
                                               ELSE <<Human(t)>>)]
    /\ UNCHANGED <<session, disk, summarizer, today, bounds, history>>

\* The final answer, or the apology that run_streamed and the Matrix handler
\* record when the agent raises.
Answer(t) ==
    /\ turn[t].pc = "llm"
    /\ turn[t].streamed \/ turn[t].rounds # MaxRounds
    /\ Persist(t)

\* run raised and the interface only reports the error.
Fail(t) == turn[t].pc = "llm" /\ ~turn[t].streamed /\ Abandon(t)

\* CancelledError: barge-in of a call or //stop.  Only run_streamed records, and
\* only what _partial_text holds.
Cancel(t) ==
    /\ InFlight(t)
    /\ IF turn[t].streamed /\ turn[t].partial THEN Persist(t) ELSE Abandon(t)

-----------------------------------------------------------------------------
(* Commands and notifications *)

\* toggle_private / toggle_private_thread, with the marker file.
TogglePrivate(c) ==
    /\ toggles < MaxToggles
    /\ toggles' = toggles + 1
    /\ IF c \in private
       THEN private' = private \ {c} /\ privateMarkers' = privateMarkers \ {c}
       ELSE private' = private \cup {c} /\ privateMarkers' = privateMarkers \cup {c}
    /\ UNCHANGED <<exchanges, exchangeCount, dailyHistory, summary, threadContexts,
                   currentDate, log, summaryFile, actors, notes, restarts, toolUses, history>>

\* /model records a note for the model to read; it is neither counted nor written.
ModelCommand ==
    /\ notes < MaxNotes
    /\ notes' = notes + 1
    /\ exchanges' = Append(exchanges, Note)
    /\ UNCHANGED <<private, exchangeCount, dailyHistory, summary, threadContexts,
                   currentDate, disk, actors, toggles, restarts, toolUses, history>>

\* seed_thread_context: a notification starts the thread named after its event
\* id, which is new; only the log is written.
Seed(t, h) ==
    /\ turn[t].pc = "unsent"
    /\ h \notin private
    /\ h \notin DOMAIN threadContexts
    /\ ThreadHistory(log, h) = <<>>
    /\ turn' = [turn EXCEPT ![t].pc = "done", ![t].chat = h]
    /\ WriteLog(t, h)
    /\ UNCHANGED <<session, summaryFile, privateMarkers, summarizer, today, bounds, history>>

-----------------------------------------------------------------------------
(* Scheduler._summarize_user *)

\* Mutants: the prompt is built from session.exchanges; the prior summary is left out.
PromptFromExchanges == summary \cup (ToSet(exchanges) \cap Turns)
PromptWithoutPrior == ToSet(dailyHistory)

\* What the summary prompt contains.
SummaryPrompt == summary \cup ToSet(dailyHistory)

\* should_summarize gives a reason: the forced one at once, a soft one
\* (tokens, exchange limit, repetition) when the user has been idle.
SummarizeStart ==
    /\ summarizer.pc = "idle"
    /\ exchangeCount >= ForceAt \/ Len(exchanges) >= SoftAt
    /\ dailyHistory # <<>>
    /\ summarizer' = [pc |-> "llm", covers |-> SummaryPrompt]
    /\ UNCHANGED <<session, disk, turn, today, bounds, history>>

\* Mutant of CountAfterSummary: exchange_count is not reset.
CountNotReset == exchangeCount

\* session.exchanges[-KEEP_RECENT_EXCHANGES:] and the new exchange_count.
Kept == LastOf(exchanges, KeepRecent)
CountAfterSummary == Len(Kept)

\* MemoryManager.summarize with the model's answer.
SummarizeDone ==
    /\ summarizer.pc = "llm"
    /\ summary' = summarizer.covers
    /\ summaryFile' = summarizer.covers
    /\ dailyHistory' = <<>>
    /\ exchanges' = Kept
    /\ exchangeCount' = CountAfterSummary
    /\ summarizer' = NoSummary
    /\ UNCHANGED <<private, threadContexts, currentDate, log, privateMarkers,
                   turn, today, bounds, history>>

\* The request failed or the answer was empty: logged, nothing changes.
SummarizeFail ==
    /\ summarizer.pc = "llm"
    /\ summarizer' = NoSummary
    /\ midSummary' = midSummary \ ToSet(dailyHistory)
    /\ UNCHANGED <<session, disk, turn, today, bounds, hidden, compressedAway, timeline>>

-----------------------------------------------------------------------------
(* Crash, restart and the passing of days *)

\* load_session on what the disk holds, lg and sf; running coroutines are gone.
LoadSession(lg, sf) ==
    /\ restarts < MaxRestarts
    /\ restarts' = restarts + 1
    /\ log' = lg
    /\ summaryFile' = sf
    /\ currentDate' = today
    /\ dailyHistory' = lg[today][Main]
    /\ exchanges' = lg[today][Main]
    /\ exchangeCount' = Len(lg[today][Main])
    /\ summary' = sf
    /\ private' = privateMarkers \cap {Main}
    /\ threadContexts' = [h \in {} |-> <<>>]
    /\ turn' = [t \in Turns |-> IF InFlight(t) THEN [turn[t] EXCEPT !.pc = "lost", !.prompt = <<>>]
                                ELSE turn[t]]
    /\ summarizer' = NoSummary
    /\ timeline' = lg[today][Main]
    /\ midSummary' = {}
    /\ UNCHANGED <<privateMarkers, today, toggles, notes, toolUses, hidden, compressedAway>>

Restart == LoadSession(log, summaryFile)

\* The log is rewritten as a whole with open(path, "w"): a crash between the
\* truncation and the write leaves an empty file.
TornDailyWrite(t) ==
    /\ turn[t].pc = "llm"
    /\ turn[t].chat \notin private
    /\ LoadSession([log EXCEPT ![currentDate] = [c \in Chats |-> <<>>]], summaryFile)

TornSummaryWrite ==
    /\ summarizer.pc = "llm"
    /\ LoadSession(log, {})

\* The session keeps the date it was loaded on.
Midnight ==
    /\ today < MaxDay
    /\ today' = today + 1
    /\ UNCHANGED <<session, disk, turn, summarizer, bounds, history>>

TurnStep(t) ==
    \/ \E c \in Chats, streamed \in BOOLEAN : Send(t, c, streamed)
    \/ Prepare(t)
    \/ \E said \in BOOLEAN : ToolRound(t, said)
    \/ LastRound(t)
    \/ Answer(t)
    \/ Fail(t)
    \/ Cancel(t)
    \/ \E h \in Threads : Seed(t, h)
    \/ TornDailyWrite(t)

Next ==
    \/ \E t \in Turns : TurnStep(t)
    \/ \E c \in Chats : TogglePrivate(c)
    \/ ModelCommand
    \/ SummarizeStart
    \/ SummarizeDone
    \/ SummarizeFail
    \/ Restart
    \/ TornSummaryWrite
    \/ Midnight

Spec == Init /\ [][Next]_vars

\* The scheduler's loop runs for ever and retries after a failed request; the
\* model's provider is assumed not to fail every time.
ForcedStart == exchangeCount >= ForceAt /\ SummarizeStart

SchedulerFairness == WF_vars(ForcedStart) /\ SF_vars(SummarizeDone)

FairSpec == Spec /\ SchedulerFairness

-----------------------------------------------------------------------------
(* Properties *)

TurnRecords ==
    [pc : {"unsent", "prepare", "llm", "done", "lost"}, chat : Chats, streamed : BOOLEAN,
     partial : BOOLEAN, rounds : 0 .. MaxRounds + 1, prompt : Seq(Messages)]

\* Every variable has its type: entries of the lists are exchanges, the session's
\* date never runs ahead of the server's.
TypeOK ==
    /\ private \in SUBSET Chats
    /\ exchanges \in Seq(Entries)
    /\ exchangeCount \in Nat
    /\ dailyHistory \in Seq(Turns)
    /\ summary \in SUBSET Turns
    /\ DOMAIN threadContexts \in SUBSET Threads
    /\ \A h \in DOMAIN threadContexts : threadContexts[h] \in Seq(Turns)
    /\ today \in Days /\ currentDate \in 1 .. today
    /\ log \in [Days -> [Chats -> Seq(Turns)]]
    /\ summaryFile \in SUBSET Turns
    /\ privateMarkers \in SUBSET Chats
    /\ turn \in [Turns -> TurnRecords]
    /\ summarizer \in [pc : {"idle", "llm"}, covers : SUBSET Turns]
    /\ toggles \in 0 .. MaxToggles /\ notes \in 0 .. MaxNotes /\ restarts \in 0 .. MaxRestarts
    /\ toolUses \in 0 .. MaxTools
    /\ hidden \in SUBSET Turns /\ midSummary \in SUBSET Turns /\ compressedAway \in SUBSET Turns
    /\ timeline \in Seq(Turns)

Logged == UNION {ToSet(log[d][c]) : d \in Days, c \in Chats}

\* "RAM but not disk" (Session.private): an exchange recorded while its chat was
\* private reaches neither a log nor, through daily_history and the summary prompt,
\* context_summary.md, whatever summaries, restarts and other turns come after.
PrivateStaysInRAM ==
    hidden \cap (Logged \cup ToSet(dailyHistory) \cup summary \cup summaryFile
                 \cup summarizer.covers) = {}

\* Every main exchange in the session's log file is still known to the model, as
\* history to be summarised or through the summary; only one recorded while a
\* summary was being awaited that then succeeded can be missing (summarize empties
\* daily_history, also of what the summary prompt did not contain).
SummaryCoverage ==
    ToSet(log[currentDate][Main]) \subseteq ToSet(dailyHistory) \cup summary \cup midSummary

\* The entries of s that are not in gone, in order.
Without(s, gone) ==
    LET upTo[n \in 0 .. Len(s)] ==
            IF n = 0 THEN <<>>
            ELSE IF s[n] \in gone THEN upTo[n - 1] ELSE Append(upTo[n - 1], s[n])
    IN  upTo[Len(s)]

\* A loaded thread replays its log, all days, in order and once, plus only its own
\* private exchanges.
ThreadReplayMatchesLog ==
    \A h \in DOMAIN threadContexts :
        Without(threadContexts[h], hidden) = ThreadHistory(log, h)

\* At FORCE_SUMMARY_EXCHANGES a session with something to summarise is summarised.
ForcedSummaryHappens ==
    (exchangeCount >= ForceAt /\ dailyHistory # <<>>) ~> (exchangeCount < ForceAt)

\* A compression removes only exchanges its marker condenses ("subsequent turns
\* skip the compressed exchanges ... and don't re-compress the same content").
CompressionRemovesCondensed ==
    [][\A t \in Turns : Prepare(t) =>
         (ToSet(exchanges) \ ToSet(exchanges')) \cap Turns
            \subseteq {Dropped(turn[t].prompt)[i].of : i \in DOMAIN Dropped(turn[t].prompt)}]_vars
=============================================================================

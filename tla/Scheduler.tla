----------------------------- MODULE Scheduler -----------------------------
(***************************************************************************)
(* The scheduler's loop (pawlia/scheduler.py) and the queue of background  *)
(* tasks it serves (pawlia/background_tasks.py), next to the users' chat    *)
(* turns, which run in coroutines of their own.                            *)
(*                                                                         *)
(* A tick goes through the users three times: the checks of high priority, *)
(* the forced summaries, and the work of low priority, which depends on    *)
(* how long the user has been idle.  Idle time is a level: 1, 2 and 3 are  *)
(* the thresholds of summaries, background tasks and memory indexing.      *)
(* Every awaited piece of work is a state of its own, so turns, commands,  *)
(* reloads and the end of the process fall between any two of them.        *)
(* What the checks do is in the modules Reminders, JobRunner and           *)
(* Automation, what a summary replaces in SessionMemory, and what indexing *)
(* writes in MemoryWiki.                                                   *)
(***************************************************************************)
EXTENDS Integers, Sequences, FiniteSets, SequencesExt

CONSTANTS
    Users,
    Tasks,          \* task ids, in the order of their file names
    MaxMessages,    \* bound: chat turns
    MaxStops        \* bound: ends of the process

ASSUME SchedulerAssumption ==
    /\ Users # {} /\ IsFiniteSet(Users)
    /\ Tasks \subseteq Nat \ {0} /\ IsFiniteSet(Tasks)
    /\ {MaxMessages, MaxStops} \subseteq Nat

VARIABLES
    loop,       \* the coroutine of _loop
    idle,        \* level of idle time per user
    talking,     \* users whose chat turn is running
    load,        \* what should_summarize says: 0 nothing, 1 a soft reason, 2 a forced one
    status,      \* the task files
    owner,       \* the user of each task
    built,       \* the processors of the checks and the memory indexer exist
    messages, stops,
    \* -- history variables --
    starts,      \* agent runs per task
    announced    \* notifications per task

loopVars == <<loop, idle, talking, load, status, owner, built, messages, stops, starts, announced>>

NoTask == 0

\* The checks of a user, of each kind one: reminders and events need nothing, while
\* checklists, task reminders and jobs have processors, which a reload drops.
Checks == <<"reminders", "jobs">>
Awaiting == {"forced", "summary", "agent", "notify", "indexing"}
Phases == {"stopped", "asleep", "high", "force", "low"} \cup Awaiting

Resting(pc) == [pc |-> pc, k |-> 0, stage |-> 0, idle |-> 0, task |-> NoTask]

\* The order of the session directory; no user is distinguished in Init.
Order == SetToSeq(Users)

CurrentUser == Order[loop.k]

Up == loop.pc # "stopped"

Pending(u) == {t \in Tasks : owner[t] = u /\ status[t] = "pending"}

LoopInit ==
    /\ loop = Resting("asleep")
    /\ idle = [u \in Users |-> 0]
    /\ talking = {}
    /\ load = [u \in Users |-> 0]
    /\ status = [t \in Tasks |-> "absent"]
    /\ owner = [t \in Tasks |-> Order[1]]
    /\ built = FALSE
    /\ messages = 0 /\ stops = 0
    /\ starts = [t \in Tasks |-> 0]
    /\ announced = [t \in Tasks |-> 0]

-----------------------------------------------------------------------------
(* The tick *)

\* _check_all: the users in the order of the directory, the processors created anew
\* if a reload dropped them.
BeginTick ==
    /\ loop.pc = "asleep"
    /\ loop' = [Resting("high") EXCEPT !.k = 1, !.stage = 1]
    /\ built' = TRUE
    /\ UNCHANGED <<idle, talking, load, status, owner, messages, stops, starts, announced>>

\* On to the next user of this pass, or to the first of the next.
NextUser(s, next) ==
    IF s.k < Len(Order) THEN [Resting(s.pc) EXCEPT !.k = s.k + 1, !.stage = 1]
    ELSE [Resting(next) EXCEPT !.k = 1, !.stage = 1]

\* A check that fails is logged; the next one follows, as after one that succeeds or is
\* left out for want of its processor.
AfterCheck(s) ==
    IF s.stage < Len(Checks) THEN [s EXCEPT !.stage = @ + 1] ELSE NextUser(s, "force")

Check ==
    /\ loop.pc = "high"
    /\ loop' = AfterCheck(loop)
    /\ UNCHANGED <<idle, talking, load, status, owner, built, messages, stops, starts, announced>>

\* Only a forced reason is acted on here.
CheckForce ==
    /\ loop.pc = "force"
    /\ loop' = IF load[CurrentUser] = 2 THEN [loop EXCEPT !.pc = "forced"]
                ELSE NextUser(loop, "low")
    /\ UNCHANGED <<idle, talking, load, status, owner, built, messages, stops, starts, announced>>

\* The model has answered, or failed.
Summarized(answers) ==
    load' = IF answers THEN [load EXCEPT ![CurrentUser] = 0] ELSE load

ForcedSummary(answers) ==
    /\ loop.pc = "forced"
    /\ Summarized(answers)
    /\ loop' = NextUser([loop EXCEPT !.pc = "force"], "low")
    /\ UNCHANGED <<idle, talking, status, owner, built, messages, stops, starts, announced>>

\* The rest of the pass over one user: indexing, before it the first pending task.
NextIdle(s) == IF s.k < Len(Order) THEN NextUser(s, "low") ELSE Resting("asleep")

AfterTask(s) ==
    IF s.idle >= 3 /\ built THEN [s EXCEPT !.pc = "indexing"]
    ELSE NextIdle([s EXCEPT !.pc = "low"])

\* Mutant of AfterSummary: the tiers exclude each other.
AfterSummaryElse(s) ==
    LET waiting == Pending(Order[s.k])
    IN  IF s.idle = 2 /\ waiting # {}
        THEN [s EXCEPT !.pc = "agent", !.task = Min(waiting)]
        ELSE AfterTask(s)

AfterSummary(s) ==
    LET waiting == Pending(Order[s.k])
    IN  IF s.idle >= 2 /\ waiting # {}
        THEN [s EXCEPT !.pc = "agent", !.task = Min(waiting)]
        ELSE AfterTask(s)

\* Mutant of Marked: the file of a task is written when its run has ended.
MarkedLate(s) == status

\* mark_running precedes the run.
Marked(s) == IF s.pc = "agent" THEN [status EXCEPT ![s.task] = "running"] ELSE status

Goes(s) ==
    /\ loop' = s
    /\ status' = Marked(s)
    /\ starts' = IF s.pc = "agent" THEN [starts EXCEPT ![s.task] = @ + 1] ELSE starts

\* _user_idle_minutes, read when the pass comes to the user.
IdleOf(u) == idle[u]

\* The summary is skipped when there is no reason for one.
TakeUser ==
    /\ loop.pc = "low"
    /\ LET s == [loop EXCEPT !.idle = IdleOf(CurrentUser), !.task = NoTask]
       IN  IF s.idle >= 1 /\ load[CurrentUser] > 0
           THEN Goes([s EXCEPT !.pc = "summary"])
           ELSE Goes(AfterSummary(s))
    /\ UNCHANGED <<idle, talking, load, owner, built, messages, stops, announced>>

SoftSummary(answers) ==
    /\ loop.pc = "summary"
    /\ Summarized(answers)
    /\ Goes(AfterSummary(loop))
    /\ UNCHANGED <<idle, talking, owner, built, messages, stops, announced>>

\* Mutant of Outcome: an error leaves the task as it was.
OutcomeOfSuccess(answers) == IF answers THEN "done" ELSE "pending"

\* The status a run ends with: mark_done, or mark_error after an exception.
Outcome(answers) == IF answers THEN "done" ELSE "error"

AgentEnds(answers) ==
    /\ loop.pc = "agent"
    /\ status' = [status EXCEPT ![loop.task] = Outcome(answers)]
    /\ loop' = [loop EXCEPT !.pc = "notify"]
    /\ UNCHANGED <<idle, talking, load, owner, built, messages,
                   stops, starts, announced>>

\* _notify has called every callback; it raises nothing.
Notified ==
    /\ loop.pc = "notify"
    /\ announced' = [announced EXCEPT ![loop.task] = @ + 1]
    /\ loop' = AfterTask(loop)
    /\ UNCHANGED <<idle, talking, load, status, owner, built, messages, stops, starts>>

Indexed ==
    /\ loop.pc = "indexing"
    /\ loop' = NextIdle([loop EXCEPT !.pc = "low"])
    /\ UNCHANGED <<idle, talking, load, status, owner, built, messages, stops, starts, announced>>

-----------------------------------------------------------------------------
(* The users *)

\* touch_activity
Touch(u) == idle' = [idle EXCEPT ![u] = 0]

\* A message starts a turn.
Message(u) ==
    /\ Up
    /\ u \notin talking
    /\ messages < MaxMessages
    /\ messages' = messages + 1
    /\ Touch(u)
    /\ talking' = talking \cup {u}
    /\ UNCHANGED <<loop, load, status, owner, built, stops, starts, announced>>

\* Its end lengthens the history.
TurnEnds(u) ==
    /\ u \in talking
    /\ talking' = talking \ {u}
    /\ \E l \in load[u] .. 2 : load' = [load EXCEPT ![u] = l]
    /\ UNCHANGED <<loop, idle, status, owner, built, messages,
                   stops, starts, announced>>

\* /background; the web chat and Discord's slash command do not count as activity.
Enqueue(u, t, touches) ==
    /\ Up
    /\ status[t] = "absent"
    /\ status' = [status EXCEPT ![t] = "pending"]
    /\ owner' = [owner EXCEPT ![t] = u]
    /\ IF touches THEN Touch(u) ELSE UNCHANGED idle
    /\ UNCHANGED <<loop, talking, load, built, messages, stops, starts, announced>>

\* The clock brings every user closer to the next threshold.
IdleGrows ==
    /\ Up
    /\ idle' = [u \in Users |-> IF idle[u] < 3 THEN idle[u] + 1 ELSE 3]
    /\ idle' # idle
    /\ UNCHANGED <<loop, talking, load, status, owner, built, messages, stops, starts, announced>>

\* /reload drops what depends on the configuration; the next tick creates it again.
\* Between two ticks that makes no difference.
Reload ==
    /\ built
    /\ loop.pc \notin {"stopped", "asleep"}
    /\ built' = FALSE
    /\ UNCHANGED <<loop, idle, talking, load, status, owner, messages, stops,
                   starts, announced>>

-----------------------------------------------------------------------------
(* The process *)

\* What the process kept in memory goes with it.
Down ==
    /\ stops < MaxStops
    /\ stops' = stops + 1
    /\ loop' = Resting("stopped")
    /\ idle' = [u \in Users |-> 0]
    /\ talking' = {}
    /\ built' = FALSE
    /\ UNCHANGED <<load, owner, messages, starts, announced>>

\* stop() cancels the awaited work: CancelledError passes the handlers of Exception.
\* A crash looks the same.
LoopStop == Up /\ Down /\ UNCHANGED status

\* It ends inside _update, which truncates the file before it writes it: the file is
\* skipped from then on.
TornUpdate ==
    /\ loop.pc \in {"agent", "notify"}
    /\ Down
    /\ status' = [status EXCEPT ![loop.task] = "corrupt"]

\* The next process: idle time counts from its start.
Start ==
    /\ ~Up
    /\ loop' = Resting("asleep")
    /\ UNCHANGED <<idle, talking, load, status, owner, built, messages, stops,
                   starts, announced>>

Work ==
    \/ BeginTick
    \/ Check
    \/ CheckForce
    \/ \E answers \in BOOLEAN : ForcedSummary(answers)
    \/ TakeUser
    \/ \E answers \in BOOLEAN : SoftSummary(answers)
    \/ \E answers \in BOOLEAN : AgentEnds(answers)
    \/ Notified
    \/ Indexed

LoopNext ==
    \/ Work
    \/ \E u \in Users : Message(u)
    \/ \E u \in Users : TurnEnds(u)
    \/ \E u \in Users, t \in Tasks, touches \in BOOLEAN : Enqueue(u, t, touches)
    \/ IdleGrows
    \/ Reload
    \/ LoopStop
    \/ TornUpdate
    \/ Start

LoopSpec == LoopInit /\ [][LoopNext]_loopVars

\* The loop goes on and what it awaits ends: requests and scripts have timeouts.  Time
\* passes, and somebody restarts the process.
LoopFairness ==
    /\ WF_loopVars(Work)
    /\ WF_loopVars(IdleGrows)
    /\ WF_loopVars(Start)

LoopFairSpec == LoopSpec /\ LoopFairness

-----------------------------------------------------------------------------
\* Every variable has its type; the scheduler holds a task exactly while it runs one
\* or reports on it.
LoopTypeOK ==
    /\ loop \in [pc : Phases, k : 0 .. Len(Order), stage : 0 .. Len(Checks),
                  idle : 0 .. 3, task : Tasks \cup {NoTask}]
    /\ loop.pc \notin {"stopped", "asleep"} => loop.k # 0
    /\ loop.pc \in {"agent", "notify"} => loop.task \in Tasks
    /\ idle \in [Users -> 0 .. 3]
    /\ talking \in SUBSET Users
    /\ load \in [Users -> 0 .. 2]
    /\ status \in [Tasks -> {"absent", "pending", "running", "done", "error", "corrupt"}]
    /\ owner \in [Tasks -> Users]
    /\ built \in BOOLEAN
    /\ messages \in 0 .. MaxMessages
    /\ stops \in 0 .. MaxStops
    /\ starts \in [Tasks -> Nat]
    /\ announced \in [Tasks -> Nat]

InHand(t) == loop.task = t /\ loop.pc \in {"agent", "notify"}

TaskSettled(t) == status[t] \in {"done", "error"}

\* A background task is run at most once, across failures, stops and restarts: an agent
\* turn has effects that must not be repeated.  What became of it is told once.  A task is
\* left running, or settled in silence, only where the process ended under it: one task per
\* end.
TaskAccountedFor ==
    /\ \A t \in Tasks : starts[t] <= 1
    /\ \A t \in Tasks : announced[t] <= IF TaskSettled(t) THEN 1 ELSE 0
    /\ Cardinality({t \in Tasks : ~InHand(t) /\
                       \/ status[t] \in {"running", "corrupt"}
                       \/ TaskSettled(t) /\ announced[t] = 0}) <= stops

\* Every queued task is run and settled, unless the process ends under it: again and
\* again none waits or is in hand.
Abandoned(t) == status[t] \in {"running", "corrupt"} /\ ~InHand(t)

QueuedTaskSettles ==
    []<>(\A t \in Tasks : status[t] = "absent" \/ TaskSettled(t) \/ Abandoned(t))
=============================================================================

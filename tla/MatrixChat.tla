----------------------------- MODULE MatrixChat -----------------------------
(***************************************************************************)
(* The chat side of the Matrix interface (interfaces/matrix.py): every      *)
(* message becomes a task; the task finds its thread, registers itself for  *)
(* //stop, runs the agent cached for the thread, posts the reply and the    *)
(* files the agent has queued.  Tasks interleave at their awaits, and       *)
(* //stop, //stop all, //reload and the end of the process come in *)
(* between.  A cancelled task goes on as a CancelledError at its next       *)
(* await.                                                                   *)
(*                                                                          *)
(* A thread is named after the message at its root.  What a message says,   *)
(* which model answers and how a status line is worded are left out; a      *)
(* model calls attach_file or skill-creator or no tool at all.  The memory  *)
(* behind the agent is SessionMemory, the agent cache that of Settings.     *)
(***************************************************************************)
EXTENDS Integers, Sequences, FiniteSets, SequencesExt

CONSTANTS
    Messages,      \* messages of users in one room
    None,          \* no value
    MaxCalls,      \* bound: tool calls of a turn
    MaxStops,      \* bound: //stop commands
    MaxReloads     \* bound: //reload commands

ASSUME MatrixConstants ==
    /\ None \notin Messages
    /\ {MaxCalls, MaxStops, MaxReloads} \subseteq Nat

VARIABLES
    at,        \* where the task of each message stands
    thread,    \* the root of its thread
    running,   \* running_turns: the registered tasks of each key
    cancel,    \* tasks that have been cancelled and not yet resumed
    cache,     \* AgentCache: the agent of each thread
    agent,     \* the agent of each turn; an agent is named after its first turn
    pending,   \* pending_attachments of each agent: the list of a turn
    list,      \* the files in the list that a turn's run has begun
    outbox,    \* the list a turn sends from and how many it has sent
    creators,  \* turns at the skill lock of the session, first come first
    calls,     \* bound: tool calls made
    posted,    \* events in the room
    log,       \* how each turn was recorded in the memory
    open,      \* the sync loop runs
    stops, reloads,   \* bounds
    told       \* history: turns that were at work when a //stop meant them

vars == <<at, thread, running, cancel, cache, agent, pending, list, outbox, creators,
          calls, posted, log, open, stops, reloads, told>>
agents == <<cache, agent, pending, list, outbox>>
bounds == <<stops, reloads>>

Threads == Messages
Ended == {"done", "dropped", "stopped"}

\* A turn that has said nothing yet.
Working == {"starting", "running", "queued", "creating", "settling", "failing"}

\* From _register_turn to the end of the task.
AtWork == Working \cup {"replying", "sending", "apologizing", "noting"}

Event(t, what) == [of |-> t, what |-> what, file |-> None]
FileEvent(t, f) == [of |-> t, what |-> "file", file |-> f]

Init ==
    /\ at = [t \in Messages |-> "new"]
    /\ thread = [t \in Messages |-> None]
    /\ running = [h \in Threads |-> {}]
    /\ cancel = {}
    /\ cache = [h \in Threads |-> None]
    /\ agent = [t \in Messages |-> None]
    /\ pending = [t \in Messages |-> None]
    /\ list = [t \in Messages |-> <<>>]
    /\ outbox = [t \in Messages |-> [from |-> None, sent |-> 0]]
    /\ creators = <<>>
    /\ calls = [t \in Messages |-> 0]
    /\ posted = {}
    /\ log = [t \in Messages |-> {}]
    /\ open = TRUE
    /\ stops = 0 /\ reloads = 0
    /\ told = {}

-----------------------------------------------------------------------------
\* A send that fails is logged and the turn goes on.
Post(event) == posted' \in {posted, posted \cup {event}}

\* Mutant: one key for the whole room.
RoomKey(h) == CHOOSE key \in Threads : TRUE

TurnKey(h) == h

Registered(t, h) == [running EXCEPT ![TurnKey(h)] = @ \cup {t}]

\* The done callback of the task.
Unregistered(t) == [h \in Threads |-> running[h] \ {t}]

\* A message in thread h, or one that starts a thread.  Text is registered before
\* the first await; a picture, voice message or file is downloaded and described first.
Arrive(t, h, kind) ==
    /\ open
    /\ at[t] = "new"
    /\ h = t \/ at[h] # "new"
    /\ thread' = [thread EXCEPT ![t] = h]
    /\ at' = [at EXCEPT ![t] = IF kind = "text" THEN "starting" ELSE "preparing"]
    /\ running' = IF kind = "text" THEN Registered(t, h) ELSE running
    /\ UNCHANGED <<cancel, agents, creators, calls, posted, log, open, bounds, told>>

\* Mutant: the turn of an attachment is not registered.
PreparedUnregistered(t) ==
    /\ at[t] = "preparing"
    /\ at' = [at EXCEPT ![t] = "starting"]
    /\ UNCHANGED <<thread, running, cancel, agents, creators, calls, posted, log, open, bounds,
                   told>>

\* The attachment is on disk; its note is a turn of its own.
Prepared(t) ==
    /\ at[t] = "preparing"
    /\ at' = [at EXCEPT ![t] = "starting"]
    /\ running' = Registered(t, thread[t])
    /\ UNCHANGED <<thread, cancel, agents, creators, calls, posted, log, open, bounds, told>>

\* The download failed, or a call is live in the room and takes the note.
Dropped(t) ==
    /\ at[t] = "preparing"
    /\ at' = [at EXCEPT ![t] = "dropped"]
    /\ UNCHANGED <<thread, running, cancel, agents, creators, calls, posted, log, open, bounds,
                   told>>

\* Mutant: one agent for the whole room.
CacheRoom(h) == CHOOSE key \in Threads : TRUE

\* get_agent: an agent per room and thread.
CacheKey(h) == h

\* agent.run begins with an empty queue for attachments.
Begin(t) ==
    LET key == CacheKey(thread[t])
        mine == IF cache[key] = None THEN t ELSE cache[key]
    IN  /\ at[t] = "starting"
        /\ at' = [at EXCEPT ![t] = "running"]
        /\ cache' = [cache EXCEPT ![key] = mine]
        /\ agent' = [agent EXCEPT ![t] = mine]
        /\ pending' = [pending EXCEPT ![mine] = t]
        /\ UNCHANGED <<thread, running, cancel, list, outbox, creators, calls, posted, log, open,
                       bounds, told>>

\* The model calls attach_file: the file goes to the queue that the agent has now.
AttachFile(t) ==
    /\ at[t] = "running"
    /\ calls[t] < MaxCalls
    /\ calls' = [calls EXCEPT ![t] = @ + 1]
    /\ list' = [list EXCEPT ![pending[agent[t]]] = Append(@, t)]
    /\ UNCHANGED <<at, thread, running, cancel, cache, agent, pending, outbox, creators,
                   posted, log, open, bounds, told>>

\* Mutant: each agent has a lock of its own.
AgentLock(t) == SelectSeq(creators, LAMBDA u : agent[u] = agent[t])

\* The lock that skill-creator runs under belongs to the session.
LockQueue(t) == creators

\* The model calls skill-creator: the turn asks for the lock.
CallCreator(t) ==
    /\ at[t] = "running"
    /\ calls[t] < MaxCalls
    /\ calls' = [calls EXCEPT ![t] = @ + 1]
    /\ at' = [at EXCEPT ![t] = "queued"]
    /\ creators' = Append(creators, t)
    /\ UNCHANGED <<thread, running, cancel, agents, posted, log, open, bounds, told>>

CreatorRuns(t) ==
    /\ at[t] = "queued"
    /\ LockQueue(t)[1] = t
    /\ at' = [at EXCEPT ![t] = "creating"]
    /\ UNCHANGED <<thread, running, cancel, agents, creators, calls, posted, log, open, bounds,
                   told>>

CreatorReturns(t) ==
    /\ at[t] = "creating"
    /\ at' = [at EXCEPT ![t] = "running"]
    /\ creators' = RemoveFirst(creators, t)
    /\ UNCHANGED <<thread, running, cancel, agents, calls, posted, log, open, bounds, told>>

\* agent.run has recorded the exchange and returned.
RunReturns(t) ==
    /\ at[t] = "running"
    /\ at' = [at EXCEPT ![t] = "settling"]
    /\ log' = [log EXCEPT ![t] = @ \cup {"turn"}]
    /\ UNCHANGED <<thread, running, cancel, agents, creators, calls, posted, open, bounds, told>>

\* Mutant: an error in the skill does not release the lock.
RaiseKeepsLock(t) ==
    /\ at[t] \in {"starting", "running", "creating", "settling"}
    /\ at' = [at EXCEPT ![t] = "failing"]
    /\ UNCHANGED <<thread, running, cancel, agents, creators, calls, posted, log, open, bounds,
                   told>>

\* Mutant: what fails once the reply is out is an error too.
RaiseAnytime(t) ==
    /\ at[t] \in {"starting", "running", "creating", "settling", "replying", "sending"}
    /\ at' = [at EXCEPT ![t] = "failing"]
    /\ creators' = RemoveFirst(creators, t)
    /\ UNCHANGED <<thread, running, cancel, agents, calls, posted, log, open, bounds, told>>

\* An exception: out of the run or out of a call to the server around it.
Raise(t) ==
    /\ at[t] \in {"starting", "running", "creating", "settling"}
    /\ at' = [at EXCEPT ![t] = "failing"]
    /\ creators' = RemoveFirst(creators, t)
    /\ UNCHANGED <<thread, running, cancel, agents, calls, posted, log, open, bounds, told>>

\* The typing notice is off: the reply goes out.
Reply(t) ==
    /\ at[t] = "settling"
    /\ at' = [at EXCEPT ![t] = "replying"]
    /\ Post(Event(t, "reply"))
    /\ UNCHANGED <<thread, running, cancel, agents, creators, calls, log, open,
                   bounds, told>>

\* The reply is out: the agent's queue is read, as it is now.
Drain(t) ==
    /\ at[t] = "replying"
    /\ at' = [at EXCEPT ![t] = "sending"]
    /\ outbox' = [outbox EXCEPT ![t].from =
                     IF list[pending[agent[t]]] = <<>> THEN None ELSE pending[agent[t]]]
    /\ UNCHANGED <<thread, running, cancel, cache, agent, pending, list, creators, calls, posted,
                   log, open, bounds, told>>

Unsent(t) == outbox[t].from # None /\ outbox[t].sent < Len(list[outbox[t].from])

SendFile(t) ==
    /\ at[t] = "sending"
    /\ Unsent(t)
    /\ outbox' = [outbox EXCEPT ![t].sent = @ + 1]
    /\ Post(FileEvent(t, list[outbox[t].from][outbox[t].sent + 1]))
    /\ UNCHANGED <<at, thread, running, cancel, cache, agent, pending, list, creators, calls,
                   log, open, bounds, told>>

\* The task is over and its locals with it.
End(t, how) ==
    /\ at' = [at EXCEPT ![t] = how]
    /\ running' = Unregistered(t)
    /\ agent' = [agent EXCEPT ![t] = None]
    /\ outbox' = [outbox EXCEPT ![t] = [from |-> None, sent |-> 0]]
    /\ calls' = [calls EXCEPT ![t] = 0]

Finish(t) ==
    /\ at[t] = "sending"
    /\ ~Unsent(t)
    /\ End(t, "done")
    /\ UNCHANGED <<thread, cancel, cache, pending, list, creators, posted, log, open, bounds, told>>

\* What except Exception records: the message and a note instead of an answer.
ErrorRecord == {"error"}

Apologize(t) ==
    /\ at[t] = "failing"
    /\ at' = [at EXCEPT ![t] = "apologizing"]
    /\ log' = [log EXCEPT ![t] = @ \cup ErrorRecord]
    /\ Post(Event(t, "error"))
    /\ UNCHANGED <<thread, running, cancel, agents, creators, calls, open,
                   bounds, told>>

Apologized(t) ==
    /\ at[t] = "apologizing"
    /\ End(t, "done")
    /\ UNCHANGED <<thread, cancel, cache, pending, list, creators, posted, log, open, bounds, told>>

\* The states in which except CancelledError is around the await.
Caught == {"starting", "running", "queued", "creating", "settling", "replying", "sending"}

\* The task resumes with a CancelledError: within the try it posts a note before it
\* ends; elsewhere, in a handler or before the turn, it ends at once.
Cancelled(t) ==
    /\ t \in cancel
    /\ cancel' = cancel \ {t}
    /\ creators' = RemoveFirst(creators, t)
    /\ \/ at[t] \in Caught /\ at' = [at EXCEPT ![t] = "noting"]
                          /\ UNCHANGED <<running, agent, outbox, calls>>
       \/ at[t] \notin Caught /\ End(t, "stopped")
    /\ UNCHANGED <<thread, cache, pending, list, posted, log, open, bounds, told>>

\* "Abgebrochen."
Note(t) ==
    /\ at[t] = "noting"
    /\ Post(Event(t, "note"))
    /\ End(t, "stopped")
    /\ UNCHANGED <<thread, cancel, cache, pending, list, creators, log, open, bounds, told>>

TurnStep(t) ==
    \/ Cancelled(t)
    \/ /\ t \notin cancel
       /\ \/ Prepared(t) \/ Dropped(t) \/ Begin(t) \/ AttachFile(t) \/ CallCreator(t)
          \/ CreatorRuns(t) \/ CreatorReturns(t) \/ RunReturns(t) \/ Raise(t) \/ Reply(t)
          \/ Drain(t) \/ SendFile(t) \/ Finish(t) \/ Apologize(t) \/ Apologized(t) \/ Note(t)

-----------------------------------------------------------------------------
(* Commands.                                                               *)

CancelTasks(tasks) == cancel' = cancel \cup {t \in tasks : at[t] \notin Ended}

\* //stop in a thread.
Stop(h) ==
    /\ open /\ stops < MaxStops
    /\ stops' = stops + 1
    /\ CancelTasks(running[TurnKey(h)])
    /\ told' = told \cup {t \in Messages : thread[t] = h /\ at[t] \in AtWork}
    /\ UNCHANGED <<at, thread, running, agents, creators, calls, posted, log, open, reloads>>

\* //stop all, //stopall
StopAll ==
    /\ open /\ stops < MaxStops
    /\ stops' = stops + 1
    /\ CancelTasks(UNION {running[h] : h \in Threads})
    /\ told' = told \cup {t \in Messages : at[t] \in AtWork}
    /\ UNCHANGED <<at, thread, running, agents, creators, calls, posted, log, open, reloads>>

\* //reload empties the agent cache; a turn keeps the agent it has.
Reload ==
    /\ open /\ reloads < MaxReloads
    /\ reloads' = reloads + 1
    /\ cache' = [h \in Threads |-> None]
    /\ UNCHANGED <<at, thread, running, cancel, agent, pending, list, outbox, creators, calls,
                   posted, log, open, stops, told>>

\* The sync loop ends: every task is cancelled and awaited.
Shutdown ==
    /\ open
    /\ open' = FALSE
    /\ cancel' = cancel \cup {t \in Messages : at[t] \notin Ended \cup {"new"}}
    /\ UNCHANGED <<at, thread, running, agents, creators, calls, posted, log, bounds, told>>

Step == \E t \in Messages : TurnStep(t)

Command ==
    \/ \E t \in Messages, h \in Threads, kind \in {"text", "media"} : Arrive(t, h, kind)
    \/ \E h \in Threads : Stop(h)
    \/ StopAll \/ Reload \/ Shutdown

Next == Step \/ Command

Spec == Init /\ [][Next]_vars

-----------------------------------------------------------------------------
Events == {Event(t, what) : t \in Messages, what \in {"reply", "error", "note"}}
          \cup {FileEvent(t, f) : t, f \in Messages}

TypeOK ==
    /\ at \in [Messages -> {"new", "preparing"} \cup AtWork \cup Ended]
    /\ thread \in [Messages -> Threads \cup {None}]
    /\ running \in [Threads -> SUBSET Messages] /\ cancel \subseteq Messages
    /\ {cache, agent, pending} \subseteq [Messages -> Messages \cup {None}]
    /\ \A t \in Messages : /\ list[t] \in Seq(Messages)
                           /\ outbox[t].sent <= Len(list[t]) \/ outbox[t].from # t
                           /\ outbox[t].from # None => list[outbox[t].from] # <<>>
    /\ IsInjective(creators)
    /\ posted \subseteq Events 
    /\ log \in [Messages -> SUBSET {"turn", "error"}]

\* //stop in a thread cancels what works there, from the moment a turn is registered
\* to the end of its task, and nothing in another thread (running_turns).
StopIsExact ==
    open => \A t \in Messages :
        at[t] \in AtWork => (t \in told <=> t \in cancel \/ at[t] = "noting")

\* A turn that was told to stop posts no reply, file or error any more, at
\* whichever await the command met it, and ends.
Answers == {"reply", "file", "error"}
StopSilences ==
    [][\A e \in posted' \ posted : e.what \in Answers => e.of \notin told]_vars

\* A file is only ever sent into the thread whose turn attached it, while turns in
\* several threads share the session and queue files at the same time.
FilesStayInThread ==
    \A e \in posted : e.what = "file" => thread[e.of] = thread[e.file]

\* skill-creator runs once at a time for a session, across its threads and agents, and
\* whoever waits for the lock waits for a turn at work that waits for nobody: the first in
\* the queue runs the skill or may begin, whatever stops and failures took turns out of it.
OneCreator == Cardinality({t \in Messages : at[t] = "creating"}) <= 1

LockServes ==
    /\ OneCreator
    /\ \A t \in Messages : at[t] = "queued" =>
           \E first \in Messages : /\ LockQueue(t)[1] = first /\ LockQueue(first)[1] = first
                                  /\ at[first] \in {"queued", "creating"}

\* Where a user sees message t.
BrokenOff(t) == at[t] \notin Ended /\ (t \in cancel \cup told \/ at[t] = "noting")

PhaseAt(place) ==
    CASE place = "new"                     -> "new"
      [] place = "preparing"               -> "seen"
      [] place \in Working                 -> "turn"
      [] place \in {"replying", "sending"} -> "replied"
      [] place = "apologizing"             -> "failed"
      [] place \in Ended                   -> "over"

PhaseOf(t) == IF BrokenOff(t) THEN "broken" ELSE PhaseAt(at[t])

SaidBy(t) == {e.what : e \in {e \in posted : e.of = t}}

\* Turns implement what ChatTurn promises of a message, at whichever awaits stops, failures
\* and lost sends meet them: one reply or one error, files after the reply only, and from
\* the moment that a //stop means the turn nothing but its note.
Promise == INSTANCE ChatTurn WITH
    phase <- [t \in Messages |-> PhaseOf(t)],
    said <- [t \in Messages |-> SaidBy(t)]

ChatPromise == Promise!Spec
=============================================================================

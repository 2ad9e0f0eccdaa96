---------------------------- MODULE DiscordChat ----------------------------
(***************************************************************************)
(* The Discord interface (interfaces/discord.py).  The client library runs  *)
(* the handler of every message as a task of its own, so turns interleave   *)
(* at their awaits, also within one thread, and nothing cancels them.       *)
(*                                                                          *)
(* A thread has the id of the message it was opened from, so a place is the *)
(* channel or a message; the session of a place has the place in its name.  *)
(* One text channel of a server.  A message is text, a voice message, a     *)
(* set of pictures and files, one file, a //thread command, or a notice     *)
(* that the scheduler posts.  What is said is left out, and so are limits   *)
(* of length; the memory is the set of recorded exchanges.                  *)
(***************************************************************************)
EXTENDS Integers, Sequences, FiniteSets, TLC

CONSTANTS
    Posts,         \* messages
    Channel,       \* the text channel
    NoPlace,       \* no thread
    MaxOrders,     \* bound: commands other than //thread, and restarts of the process
    MaxFiles       \* bound: files that a turn attaches, and files of a post

ASSUME DiscordAssumption ==
    /\ Channel \notin Posts /\ NoPlace \notin Posts \cup {Channel}
    /\ MaxOrders \in Nat /\ MaxFiles \in Nat

VARIABLES
    stage,     \* where the handler of each message stands
    inner,     \* messages that //thread runs in a thread
    home,      \* where it was posted
    dest,      \* dest_thread: the thread opened for it
    left,      \* files of the message still to be read
    cached,    \* AgentCache: the agents
    helper,    \* the agent of each turn
    queue,     \* pending_attachments of each agent: the list of a turn
    listed,    \* the files in the list that a turn began
    speaker,   \* on_interim of each agent: the turn it speaks for
    outgoing,  \* the list a turn sends from and how many files it has sent
    journal,   \* the recorded exchanges
    context,   \* the exchanges that the turn was given
    shown,     \* files and words between that the bot has posted, and where
    orders     \* bound

turnVars == <<stage, inner, home, dest, left>>
agentVars == <<cached, helper, queue, listed, speaker, outgoing>>
memoryVars == <<journal, context>>
chatVars == <<turnVars, agentVars, memoryVars, shown, orders>>

Places == Posts \cup {Channel}
Messages == {"text", "voice", "pictures", "file", "thread"}
AtRest == {"new", "over", "notice"}

\* A turn's agent before it has one, and a turn's list before there is one.
NoHelper == [session |-> Channel, thread |-> NoPlace, born |-> -1]
NoList == <<Channel, 0>>
NothingOut == [from |-> NoList, sent |-> 0]

ChatInit ==
    /\ stage = [t \in Posts |-> "new"]
    /\ inner = {}
    /\ home = [t \in Posts |-> Channel]
    /\ dest = [t \in Posts |-> NoPlace]
    /\ left = [t \in Posts |-> 0]
    /\ cached = {}
    /\ helper = [t \in Posts |-> NoHelper]
    /\ queue = <<>> /\ speaker = <<>>
    /\ listed = [l \in Posts \X (0..MaxFiles) |-> <<>>]
    /\ outgoing = [t \in Posts |-> NothingOut]
    /\ journal = {}
    /\ context = [t \in Posts |-> {}]
    /\ shown = {}
    /\ orders = 0

-----------------------------------------------------------------------------
(* Where a message belongs.                                                *)

Where(t) == IF dest[t] # NoPlace THEN dest[t] ELSE home[t]

\* A place a user can write in: the channel, or a thread opened from a message there.
Opened(h) == h # Channel => stage[h] # "new" /\ home[h] = Channel

\* Mutant: the session of the place a message was written in.
HomeSession(t) == home[t]

\* _session_id of the place that the turn is answered in.
SessionOf(t) == Where(t)

\* Mutant: the thread a message was written in, not the one opened for it.
HomeThread(t) == IF home[t] = Channel THEN NoPlace ELSE home[t]

\* The context of the turn: the thread, if there is one.
ThreadOf(t) ==
    IF t \notin inner /\ Where(t) # Channel THEN Where(t) ELSE NoPlace

\* Mutant: the agent of the channel for all its threads.
ChannelKey(session, h) == [session |-> Channel, thread |-> NoPlace, born |-> orders]

\* The cache key of an agent made now.  Each command that drops agents counts in orders.
NewAgent(session, h) == [session |-> session, thread |-> h, born |-> orders]

SameKey(a, b) == a.session = b.session /\ a.thread = b.thread

\* get_agent: the cached agent of the key, or a new one.
AgentFor(session, h) ==
    LET new == NewAgent(session, h)
    IN  IF \E a \in cached : SameKey(a, new)
        THEN CHOOSE a \in cached : SameKey(a, new) ELSE new

\* What an agent has is replaced.
With(f, a, x) == [b \in DOMAIN f \cup {a} |-> IF b = a THEN x ELSE f[b]]

\* What the model is given: the thread's exchanges, or those of the session.
Replayed(session, h) == {e.post : e \in {x \in journal : x.session = session /\ x.thread = h}}

-----------------------------------------------------------------------------
(* A message comes in.                                                     *)

\* The bot's own, another bot's, someone else's or another channel's message, one
\* that does not mention the bot where it has to, or an empty one.
Ignore(t) ==
    /\ stage[t] = "new"
    /\ stage' = [stage EXCEPT ![t] = "over"]
    /\ UNCHANGED <<inner, home, dest, left, agentVars, memoryVars, shown, orders>>

\* on_message: in the channel, a message that is no command may get a thread.
Receive(t, h, k, n) ==
    /\ stage[t] = "new" /\ Opened(h)
    /\ n > 0 => k = "pictures"
    /\ home' = [home EXCEPT ![t] = h]
    /\ left' = [left EXCEPT ![t] = n]
    /\ stage' = [stage EXCEPT ![t] = IF k = "text" THEN "starting" ELSE k]
    /\ \/ /\ h = Channel /\ k # "thread"
          /\ dest' = [dest EXCEPT ![t] = t]
       \/ UNCHANGED dest
    /\ UNCHANGED <<inner, agentVars, memoryVars, shown, orders>>

\* A voice message: downloaded and transcribed, the text shown; or not understood;
\* or not downloaded.
Transcribe(t) ==
    /\ stage[t] = "voice"
    /\ \E next \in {"starting", "over"} : stage' = [stage EXCEPT ![t] = next]
    /\ UNCHANGED <<inner, home, dest, left, agentVars, memoryVars, shown, orders>>

\* The next file of the message, or the end of the handler.
Onward(t) == IF left[t] > 0 THEN "file" ELSE "over"
OneLess(t) == left' = [left EXCEPT ![t] = IF @ > 0 THEN @ - 1 ELSE 0]

\* The pictures, downloaded and kept: a turn with those that came; no turn if none did.
ReadPictures(t) ==
    /\ stage[t] = "pictures"
    /\ \/ /\ stage' = [stage EXCEPT ![t] = "starting"]
          /\ UNCHANGED left
       \/ /\ stage' = [stage EXCEPT ![t] = Onward(t)]
          /\ OneLess(t)
    /\ UNCHANGED <<inner, home, dest, agentVars, memoryVars, shown, orders>>

\* A file, downloaded, kept and converted to text: a turn about it, or none.
ReadFile(t) ==
    /\ stage[t] = "file"
    /\ \/ /\ stage' = [stage EXCEPT ![t] = "starting"]
          /\ UNCHANGED left
       \/ /\ stage' = [stage EXCEPT ![t] = Onward(t)]
          /\ OneLess(t)
    /\ UNCHANGED <<inner, home, dest, agentVars, memoryVars, shown, orders>>

\* //thread: the thread is opened and the command's text is run in it.
OpenThread(t) ==
    /\ stage[t] = "thread"
    /\ \/ /\ home[t] = Channel
          /\ dest' = [dest EXCEPT ![t] = t]
          /\ inner' = inner \cup {t}
          /\ stage' = [stage EXCEPT ![t] = "starting"]
       \/ /\ stage' = [stage EXCEPT ![t] = "over"]
          /\ UNCHANGED <<dest, inner>>
    /\ UNCHANGED <<home, left, agentVars, memoryVars, shown, orders>>

-----------------------------------------------------------------------------
(* A turn.                                                                 *)

\* _handle_agent_message up to agent.run, and the start of the run: a new list for
\* attachments, and the context.  Only an ordinary turn takes over on_interim.
Start(t) ==
    LET mine == AgentFor(SessionOf(t), ThreadOf(t))
        l == <<t, left[t]>>
    IN  /\ stage[t] = "starting"
        /\ stage' = [stage EXCEPT ![t] = "running"]
        /\ cached' = cached \cup {mine}
        /\ helper' = [helper EXCEPT ![t] = mine]
        /\ queue' = With(queue, mine, l)
        /\ speaker' = IF t \in inner THEN speaker ELSE With(speaker, mine, t)
        /\ context' = [context EXCEPT ![t] = Replayed(SessionOf(t), ThreadOf(t))]
        /\ UNCHANGED <<inner, home, dest, left, listed, outgoing, journal, shown, orders>>

\* A word of the model before its answer, said by the callback the agent has now.
Interim(t) ==
    /\ stage[t] = "running"
    /\ helper[t] \in DOMAIN speaker
    /\ shown' = shown \cup {[of |-> t, at |-> Where(speaker[helper[t]])]}
    /\ UNCHANGED <<turnVars, agentVars, memoryVars, orders>>

\* The model calls attach_file: the file goes to the list that the agent has now.
Attach(t) ==
    LET l == queue[helper[t]]
    IN  /\ stage[t] = "running"
        /\ Cardinality({x \in DOMAIN listed : \E i \in 1..Len(listed[x]) : listed[x][i] = t}) < MaxFiles
        /\ listed' = [listed EXCEPT ![l] = Append(@, t)]
        /\ UNCHANGED <<turnVars, cached, helper, queue, speaker, outgoing, memoryVars, shown,
                       orders>>

\* agent.run has recorded the exchange and returned.
Return(t) ==
    /\ stage[t] = "running"
    /\ stage' = [stage EXCEPT ![t] = "replying"]
    /\ journal' = journal \cup {[session |-> SessionOf(t), thread |-> ThreadOf(t), post |-> t]}
    /\ UNCHANGED <<inner, home, dest, left, agentVars, context, shown, orders>>

\* The turn is over.  When no other is at work, nothing reads what the agents hold:
\* a run begins with a list and a callback of its own.
LetGo(t) ==
    LET alone == \A u \in Posts \ {t} : helper[u] = NoHelper
    IN  /\ helper' = [helper EXCEPT ![t] = NoHelper]
        /\ outgoing' = [outgoing EXCEPT ![t] = NothingOut]
        /\ context' = [context EXCEPT ![t] = {}]
        /\ queue' = IF alone THEN <<>> ELSE queue
        /\ speaker' = IF alone THEN <<>> ELSE speaker
        /\ listed' = IF alone THEN [l \in DOMAIN listed |-> <<>>] ELSE listed

\* This part of the message is over.
EndPart(t) ==
    /\ stage' = [stage EXCEPT ![t] = Onward(t)]
    /\ OneLess(t)
    /\ LetGo(t)

\* agent.run raised: the error is the answer, and nothing is recorded.
Fault(t) ==
    /\ stage[t] = "running"
    /\ EndPart(t)
    /\ UNCHANGED <<inner, home, dest, cached, journal, shown, orders>>

\* The answer is out and the agent's list is taken, as it is now; a //thread run
\* sends no files.
Answer(t) ==
    /\ stage[t] = "replying" /\ t \notin inner
    /\ stage' = [stage EXCEPT ![t] = "sending"]
    /\ outgoing' = [outgoing EXCEPT ![t] = [from |-> queue[helper[t]], sent |-> 0]]
    /\ UNCHANGED <<inner, home, dest, left, cached, helper, queue, listed, speaker, memoryVars,
                   shown, orders>>

AnswerInNewThread(t) ==
    /\ stage[t] = "replying" /\ t \in inner
    /\ EndPart(t)
    /\ UNCHANGED <<inner, home, dest, cached, journal, shown, orders>>

\* An answer or an error that cannot be posted ends the handler, the files still to be
\* read with it.
AnswerFails(t) ==
    /\ stage[t] \in {"running", "replying"}
    /\ stage' = [stage EXCEPT ![t] = "over"]
    /\ left' = [left EXCEPT ![t] = 0]
    /\ LetGo(t)
    /\ UNCHANGED <<inner, home, dest, cached, journal, shown, orders>>

Waiting(t) == outgoing[t].sent < Len(listed[outgoing[t].from])

\* One file: sent, or given up when the upload fails.
SendNext(t) ==
    LET f == listed[outgoing[t].from][outgoing[t].sent + 1]
    IN  /\ stage[t] = "sending" /\ Waiting(t)
        /\ outgoing' = [outgoing EXCEPT ![t].sent = @ + 1]
        /\ \/ shown' = shown \cup {[of |-> f, at |-> Where(t)]}
           \/ UNCHANGED shown
        /\ UNCHANGED <<turnVars, cached, helper, queue, listed, speaker, memoryVars, orders>>

AllSent(t) ==
    /\ stage[t] = "sending" /\ ~Waiting(t)
    /\ EndPart(t)
    /\ UNCHANGED <<inner, home, dest, cached, journal, shown, orders>>

-----------------------------------------------------------------------------
(* Commands and the scheduler's notices.                                   *)

Ordered == orders < MaxOrders /\ orders' = orders + 1

\* //status makes the agent it asks, under the key of the place.
AskStatus(h) ==
    /\ Ordered
    /\ cached' = cached \cup {AgentFor(h, IF h = Channel THEN NoPlace ELSE h)}
    /\ UNCHANGED <<turnVars, helper, queue, listed, speaker, outgoing, memoryVars, shown>>

\* //model: the agents of the place are dropped; a turn keeps the one it has.
ChangeModel(h) ==
    /\ Ordered
    /\ cached' = {a \in cached : a.session # h}
    /\ UNCHANGED <<turnVars, helper, queue, listed, speaker, outgoing, memoryVars, shown>>

\* //reload
ReloadAll ==
    /\ Ordered
    /\ cached' = {}
    /\ UNCHANGED <<turnVars, helper, queue, listed, speaker, outgoing, memoryVars, shown>>

\* The text commands in a place, and the slash commands that do the same.
TextOrder(h) == AskStatus(h) \/ ChangeModel(h) \/ ReloadAll
SlashOrder(h) == TextOrder(h)

\* _discord_notify: the notice is posted to the channel of the session it is for, and
\* its text recorded there as the first exchange of the thread that it may become.
Notify(t, h) ==
    /\ stage[t] = "new" /\ Opened(h)
    /\ stage' = [stage EXCEPT ![t] = "notice"]
    /\ home' = [home EXCEPT ![t] = h]
    /\ journal' = journal \cup {[session |-> h, thread |-> t, post |-> t]}
    /\ UNCHANGED <<inner, dest, left, agentVars, context, shown, orders>>

\* The process ends and starts again: handlers and agents are gone, the logs are read.
RestartBot ==
    /\ Ordered
    /\ stage' = [t \in Posts |-> IF stage[t] \in AtRest THEN stage[t] ELSE "over"]
    /\ cached' = {}
    /\ helper' = [t \in Posts |-> NoHelper]
    /\ queue' = <<>> /\ speaker' = <<>>
    /\ outgoing' = [t \in Posts |-> NothingOut]
    /\ context' = [t \in Posts |-> {}]
    /\ listed' = [l \in DOMAIN listed |-> <<>>]
    /\ left' = [t \in Posts |-> 0]
    /\ UNCHANGED <<inner, home, dest, journal, shown>>

ChatNext ==
    \/ \E t \in Posts :
        \/ Ignore(t) \/ Transcribe(t) \/ ReadPictures(t) \/ ReadFile(t) \/ OpenThread(t)
        \/ Start(t) \/ Interim(t) \/ Attach(t) \/ Return(t) \/ Fault(t)
        \/ Answer(t) \/ AnswerInNewThread(t) \/ AnswerFails(t) \/ SendNext(t) \/ AllSent(t)
        \/ \E h \in Places :
            \/ \E k \in Messages, n \in 0..MaxFiles : Receive(t, h, k, n)
            \/ Notify(t, h)
    \/ \E h \in Places : Opened(h) /\ (TextOrder(h) \/ SlashOrder(h))
    \/ RestartBot

ChatSpec == ChatInit /\ [][ChatNext]_chatVars

-----------------------------------------------------------------------------
Answered(t) == \E e \in journal : e.post = t /\ stage[t] # "notice"

\* Conversations do not run into each other, although turns of several threads run at once,
\* an agent's callback and queue outlive a turn, and agents are dropped under running turns:
\* the files of a turn and what it says before its answer appear where the message belongs,
\* and a turn is given exchanges of its own place only.  "so concurrent conversations don't
\* share mutable agent state" (AgentCache)
ConversationsIsolated ==
    /\ \A s \in shown : s.at = Where(s.of)
    /\ \A t \in Posts : \A u \in context[t] : stage[u] # "notice" => Where(u) = Where(t)

\* A turn is given every exchange that was recorded in its place before it began, also
\* after a restart and when the first message got its thread from the bot.  (The
\* opening of a //thread is not: it is recorded under the session and not the thread.)
FollowUpSees ==
    [][\A t \in Posts :
        stage[t] = "starting" /\ stage'[t] = "running" /\ t \notin inner =>
            \A u \in Posts \ inner :
                Answered(u) /\ Where(u) = Where(t) => u \in context'[t]]_chatVars
=============================================================================

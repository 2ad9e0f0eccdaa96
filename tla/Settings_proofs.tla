--------------------------- MODULE Settings_proofs ---------------------------
(***************************************************************************)
(* Theorems about DiscordChat, for all messages, files and commands: what  *)
(* keeps conversations apart and what a turn is given.  And about Settings *)
(* for all selectors, skills, commands and restarts.                       *)
(***************************************************************************)
EXTENDS Settings, DiscordChat, SequenceTheorems, WellFoundedInduction, TLAPS

-----------------------------------------------------------------------------
(* Discord: where a message belongs *)

AtWork == {"running", "replying", "sending"}
Stages == AtRest \cup Messages \cup AtWork \cup {"starting"}
Lists == Posts \X (0 .. MaxFiles)
Agents == [session : Places, thread : Places \cup {NoPlace}, born : Nat]
Exchanges == [session : Places, thread : Places \cup {NoPlace}, post : Posts]

ChatType ==
    /\ stage \in [Posts -> Stages]
    /\ inner \subseteq Posts
    /\ home \in [Posts -> Places] /\ dest \in [Posts -> Posts \cup {NoPlace}]
    /\ left \in [Posts -> 0 .. MaxFiles]
    /\ cached \subseteq Agents
    /\ helper \in [Posts -> Agents \cup {NoHelper}]
    /\ listed \in [Lists -> Seq(Posts)]
    /\ outgoing \in [Posts -> [from : Lists \cup {NoList}, sent : Nat]]
    /\ journal \subseteq Exchanges
    /\ context \in [Posts -> SUBSET Posts]
    /\ orders \in Nat

\* The place of a message is decided once it is neither awaited nor a command that is
\* about to open a thread.
Decided(t) == stage[t] \notin {"new", "thread"}
Belongs(t, h) == Decided(t) /\ Where(t) = h

\* A turn at work has an agent of the session of its place, and the agent its list.
HelperOK(t) ==
    stage[t] \in AtWork =>
        /\ helper[t] \in Agents /\ helper[t].session = Where(t)
        /\ stage[t] # "sending" => helper[t] \in DOMAIN queue

\* The list of an agent, and the turn it speaks for, are of the agent's session, ...
QueueOK ==
    \A a \in DOMAIN queue : queue[a] \in Lists /\ Belongs(queue[a][1], a.session)
SpeakerOK ==
    \A a \in DOMAIN speaker : speaker[a] \in Posts /\ Belongs(speaker[a], a.session)

\* ... the files in a list are of the place of the turn that began it, ...
ListedOK ==
    \A l \in Lists : \A i \in 1 .. Len(listed[l]) :
        Decided(l[1]) /\ Belongs(listed[l][i], Where(l[1]))

\* ... and a list is sent to the place it is of.
OutgoingOK(t) ==
    stage[t] = "sending" =>
        outgoing[t].from \in Lists /\ Belongs(outgoing[t].from[1], Where(t))

ShownOK == \A x \in shown : x.of \in Posts /\ Belongs(x.of, x.at)

\* An exchange is recorded under the session and thread its turn is given the context of.
JournalOK ==
    \A e \in journal :
        /\ Decided(e.post)
        /\ \/ stage[e.post] = "notice"
           \/ e.session = Where(e.post) /\ e.thread = ThreadOf(e.post)

ContextOK ==
    \A t \in Posts : \A u \in context[t] :
        Decided(t) /\ Decided(u) /\ (stage[u] = "notice" \/ Where(u) = Where(t))

ChatInv ==
    /\ ChatType
    /\ \A t \in Posts : HelperOK(t) /\ OutgoingOK(t)
    /\ QueueOK /\ SpeakerOK /\ ListedOK /\ ShownOK /\ JournalOK /\ ContextOK

\* No step moves a message whose place is decided.
Settles ==
    \A t \in Posts : Decided(t) =>
        /\ Decided(t)' /\ Where(t)' = Where(t) /\ ThreadOf(t)' = ThreadOf(t)
        /\ stage[t] = "notice" => stage'[t] = "notice"

\* A handler that goes on settles, ...
LEMMA MoveSettles ==
    ASSUME stage \in [Posts -> Stages], NEW t \in Posts,
           stage[t] \notin {"new", "notice"}, NEW x, x \notin {"new", "thread"},
           stage' = [stage EXCEPT ![t] = x], UNCHANGED <<home, dest, inner>>
    PROVE  Settles
<1>1. \A u \in Posts : stage'[u] = IF u = t THEN x ELSE stage[u]
    OBVIOUS
<1>2. \A u \in Posts : Where(u)' = Where(u) /\ ThreadOf(u)' = ThreadOf(u)
    BY DEF Where, ThreadOf
<1>. QED  BY <1>1, <1>2 DEF Settles, Decided

\* ... so does one whose place is decided now, ...
LEMMA ArrivalSettles ==
    ASSUME ChatType, NEW t \in Posts, ~Decided(t),
           \A u \in Posts \ {t} : /\ stage'[u] = stage[u] /\ home'[u] = home[u]
                                  /\ dest'[u] = dest[u] /\ (u \in inner' <=> u \in inner)
    PROVE  Settles
BY Zenon DEF Settles, Decided, Where, ThreadOf

\* ... and a step that leaves the handlers alone.
LEMMA SameSettles ==
    ASSUME UNCHANGED turnVars
    PROVE  Settles
<1>1. \A u \in Posts : Where(u)' = Where(u) /\ ThreadOf(u)' = ThreadOf(u)
    BY DEF Where, ThreadOf, turnVars
<1>. QED  BY <1>1 DEF Settles, Decided, turnVars

\* What belongs to a place goes on belonging to it.
LEMMA BelongsStays ==
    ASSUME Settles, NEW u \in Posts, NEW h, Belongs(u, h)
    PROVE  Belongs(u, h)'
BY DEF Belongs, Settles

\* What is recorded, shown, listed and given stays where it is.
LEMMA MemoryStays ==
    ASSUME ChatInv, Settles
    PROVE  /\ shown' = shown => ShownOK'
           /\ journal' = journal => JournalOK'
           /\ context' = context => ContextOK'
           /\ listed' = listed => ListedOK'
           /\ queue' = queue => QueueOK'
           /\ speaker' = speaker => SpeakerOK'
<1>1. ASSUME shown' = shown PROVE ShownOK'
    BY <1>1 DEF ChatInv, ShownOK, Belongs, Settles
<1>2. ASSUME journal' = journal PROVE JournalOK'
  <2>1. \A e \in journal : e.post \in Posts
    BY DEF ChatInv, ChatType, Exchanges
  <2>. QED  BY <1>2, <2>1, Zenon DEF ChatInv, JournalOK, Settles
<1>3. ASSUME context' = context PROVE ContextOK'
  <2>1. ASSUME NEW t \in Posts, NEW u \in context'[t]
        PROVE  /\ Decided(t)' /\ Decided(u)'
               /\ stage'[u] = "notice" \/ Where(u)' = Where(t)'
    <3>1. u \in Posts /\ u \in context[t]
        BY <1>3, <2>1 DEF ChatInv, ChatType
    <3>2. Decided(t) /\ Decided(u) /\ (stage[u] = "notice" \/ Where(u) = Where(t))
        BY <3>1 DEF ChatInv, ContextOK
    <3>. QED  BY <3>1, <3>2 DEF Settles
  <2>. QED  BY <2>1 DEF ContextOK
<1>4. ASSUME listed' = listed PROVE ListedOK'
  <2>1. ASSUME NEW l \in Lists, NEW i \in 1 .. Len(listed[l]),
               NEW f \in Posts, listed[l][i] = f
        PROVE  Decided(l[1])' /\ Belongs(f, Where(l[1]))'
    <3>1. l[1] \in Posts
        BY DEF Lists
    <3>2. Decided(l[1]) /\ Belongs(f, Where(l[1]))
        BY <2>1 DEF ChatInv, ListedOK
    <3>. QED  BY <3>1, <3>2 DEF Settles, Belongs
  <2>2. \A l \in Lists : listed[l] \in Seq(Posts)
    BY DEF ChatInv, ChatType
  <2>3. \A l \in Lists : \A i \in 1 .. Len(listed[l]) : listed[l][i] \in Posts
    BY <2>2, ElementOfSeq
  <2>. QED  BY <1>4, <2>1, <2>3 DEF ListedOK
<1>5. ASSUME queue' = queue PROVE QueueOK'
  <2>1. ASSUME NEW a \in DOMAIN queue
        PROVE  queue[a] \in Lists /\ Belongs(queue[a][1], a.session)'
    <3>1. queue[a] \in Lists /\ Belongs(queue[a][1], a.session)
        BY DEF ChatInv, QueueOK
    <3>2. queue[a][1] \in Posts
        BY <3>1 DEF Lists
    <3>. QED  BY <1>5, <3>1, <3>2 DEF Settles, Belongs
  <2>. QED  BY <1>5, <2>1 DEF QueueOK
<1>6. ASSUME speaker' = speaker PROVE SpeakerOK'
    BY <1>6 DEF ChatInv, SpeakerOK, Settles, Belongs
<1>. QED  BY <1>1, <1>2, <1>3, <1>4, <1>5, <1>6

\* A turn that is as it was goes on having its agent and its list.
LEMMA TurnStays ==
    ASSUME ChatInv, Settles, NEW t \in Posts,
           stage'[t] \notin AtWork \/ (stage'[t] = stage[t] /\ helper'[t] = helper[t]
                                      /\ outgoing'[t].from = outgoing[t].from),
           DOMAIN queue \subseteq DOMAIN queue' \/ stage'[t] \notin AtWork
    PROVE  HelperOK(t)' /\ OutgoingOK(t)'
<1>1. CASE stage'[t] \notin AtWork
    BY <1>1 DEF HelperOK, OutgoingOK, AtWork
<1>2. CASE stage'[t] \in AtWork
  <2>1. Decided(t) /\ Where(t)' = Where(t)
    BY <1>2 DEF AtWork, Decided, Settles
  <2>2. HelperOK(t)'
    BY <1>2, <2>1 DEF ChatInv, HelperOK
  <2>3. OutgoingOK(t)'
    <3>1. CASE stage'[t] # "sending"
        BY <3>1 DEF OutgoingOK
    <3>2. CASE stage'[t] = "sending"
      <4>1. outgoing[t].from \in Lists /\ Belongs(outgoing[t].from[1], Where(t))
        BY <1>2, <3>2 DEF ChatInv, OutgoingOK
      <4>2. PICK w \in Posts : w = outgoing[t].from[1]
        BY <4>1 DEF Lists
      <4>3. Belongs(w, Where(t))'
        BY <2>1, <4>1, <4>2 DEF Belongs, Settles
      <4>4. outgoing'[t].from = outgoing[t].from
        BY <1>2
      <4>. QED  BY <4>1, <4>2, <4>3, <4>4 DEF OutgoingOK
    <3>. QED  BY <3>1, <3>2
  <2>. QED  BY <2>2, <2>3
<1>. QED  BY <1>1, <1>2

-----------------------------------------------------------------------------
(* Discord: every step *)

\* The agent of a place is of its session.
LEMMA AgentIs ==
    ASSUME ChatType, NEW s \in Places, NEW h \in Places \cup {NoPlace}
    PROVE  AgentFor(s, h) \in Agents /\ AgentFor(s, h).session = s
<1>. DEFINE new == NewAgent(s, h)
<1>1. new \in Agents /\ new.session = s
    BY DEF NewAgent, ChatType, Agents
<1>2. CASE \E a \in cached : SameKey(a, new)
  <2>1. AgentFor(s, h) = CHOOSE a \in cached : SameKey(a, new)
    BY <1>2 DEF AgentFor
  <2>2. AgentFor(s, h) \in cached /\ SameKey(AgentFor(s, h), new)
    BY <1>2, <2>1
  <2>. QED  BY <1>1, <2>2 DEF SameKey, ChatType
<1>3. CASE ~\E a \in cached : SameKey(a, new)
    BY <1>1, <1>3 DEF AgentFor
<1>. QED  BY <1>2, <1>3

\* Where a turn belongs and what thread it is of.
LEMMA WhereIs ==
    ASSUME ChatType, NEW t \in Posts
    PROVE  Where(t) \in Places /\ ThreadOf(t) \in Places \cup {NoPlace}
BY DEF ChatType, Where, ThreadOf, Places

\* A handler that reads on, or ends, without an agent.
LEMMA QuietStep ==
    ASSUME ChatInv, Settles, NEW t \in Posts, NEW x \in Stages \ AtWork,
           stage' = [stage EXCEPT ![t] = x],
           inner' \subseteq Posts, home' \in [Posts -> Places],
           dest' \in [Posts -> Posts \cup {NoPlace}], left' \in [Posts -> 0 .. MaxFiles],
           journal' = journal \/ (JournalOK' /\ journal' \subseteq Exchanges),
           UNCHANGED <<agentVars, context, shown, orders>>
    PROVE  ChatInv'
<1>1. ChatType'
    BY DEF ChatInv, ChatType, agentVars
<1>2. /\ \A u \in Posts \ {t} : stage'[u] = stage[u]
      /\ stage'[t] \notin AtWork
    BY DEF ChatInv, ChatType
<1>3. ASSUME NEW u \in Posts PROVE HelperOK(u)' /\ OutgoingOK(u)'
    BY <1>2, TurnStays DEF agentVars
<1>. QED  BY <1>1, <1>3, MemoryStays DEF ChatInv, agentVars

LEMMA IgnoreStep ==
    ASSUME ChatInv, NEW t \in Posts, Ignore(t)
    PROVE  ChatInv'
<1>1. stage[t] = "new" /\ stage' = [stage EXCEPT ![t] = "over"]
    BY DEF Ignore
<1>2. Settles
    BY <1>1, ArrivalSettles DEF ChatInv, ChatType, Ignore, Decided
<1>3. "over" \in Stages \ AtWork
    BY DEF Stages, AtRest, AtWork
<1>. QED  BY <1>1, <1>2, <1>3, QuietStep DEF ChatInv, ChatType, Ignore, memoryVars

LEMMA ReceiveStep ==
    ASSUME ChatInv, NEW t \in Posts, NEW h \in Places, NEW k \in Messages,
           NEW n \in 0 .. MaxFiles, Receive(t, h, k, n)
    PROVE  ChatInv'
<1>. DEFINE x == IF k = "text" THEN "starting" ELSE k
<1>1. stage[t] = "new" /\ stage' = [stage EXCEPT ![t] = x] /\ x \in Stages \ AtWork
  <2>1. x \in {"starting"} \cup Messages
    OBVIOUS
  <2>2. {"starting"} \cup Messages \subseteq Stages \ AtWork
    BY DEF Stages, AtWork, Messages
  <2>. QED  BY <2>1, <2>2 DEF Receive
<1>2. /\ home' = [home EXCEPT ![t] = h] /\ left' = [left EXCEPT ![t] = n]
      /\ (dest' = [dest EXCEPT ![t] = t] \/ dest' = dest)
      /\ UNCHANGED <<inner, agentVars, memoryVars, shown, orders>>
    BY DEF Receive
<1>3. Settles
  <2>1. x \notin {"new"} /\ ~Decided(t)
    BY <1>1 DEF Decided, Messages
  <2>2. ASSUME NEW u \in Posts \ {t}
        PROVE  stage'[u] = stage[u] /\ home'[u] = home[u] /\ dest'[u] = dest[u]
    BY <1>1, <1>2 DEF ChatInv, ChatType
  <2>3. inner' = inner
    BY <1>2
  <2>. QED  BY <2>1, <2>2, <2>3, ArrivalSettles DEF ChatInv
<1>4. /\ inner' \subseteq Posts /\ home' \in [Posts -> Places]
      /\ dest' \in [Posts -> Posts \cup {NoPlace}] /\ left' \in [Posts -> 0 .. MaxFiles]
  <2>1. inner' \subseteq Posts /\ home' \in [Posts -> Places]
    BY <1>2 DEF ChatInv, ChatType
  <2>2. dest' \in [Posts -> Posts \cup {NoPlace}]
    BY <1>2 DEF ChatInv, ChatType
  <2>3. left' \in [Posts -> 0 .. MaxFiles]
    BY <1>2 DEF ChatInv, ChatType
  <2>. QED  BY <2>1, <2>2, <2>3
<1>. HIDE DEF x
<1>. QED  BY <1>1, <1>2, <1>3, <1>4, QuietStep DEF memoryVars

LEMMA TranscribeStep ==
    ASSUME ChatInv, NEW t \in Posts, Transcribe(t)
    PROVE  ChatInv'
<1>1. PICK x \in {"starting", "over"} : stage' = [stage EXCEPT ![t] = x]
    BY DEF Transcribe
<1>2. x \in Stages \ AtWork /\ x \notin {"new", "thread"} /\ stage[t] = "voice"
    BY DEF Transcribe, Stages, AtWork, AtRest
<1>3. UNCHANGED <<inner, home, dest, left, agentVars, memoryVars, shown, orders>>
    BY DEF Transcribe
<1>4. Settles
    BY <1>1, <1>2, <1>3, MoveSettles DEF ChatInv, ChatType
<1>. QED  BY <1>1, <1>2, <1>3, <1>4, QuietStep DEF ChatInv, ChatType, memoryVars

\* The handler goes on with the next file, or ends.
LEMMA OnwardIs ==
    ASSUME ChatType, NEW t \in Posts
    PROVE  /\ Onward(t) \in Stages \ AtWork /\ Onward(t) \notin {"new", "thread"}
           /\ OneLess(t) => left' \in [Posts -> 0 .. MaxFiles]
<1>1. Onward(t) \in {"file", "over"}
    BY DEF Onward
<1>2. ASSUME OneLess(t) PROVE left' \in [Posts -> 0 .. MaxFiles]
  <2>1. left \in [Posts -> 0 .. MaxFiles]
    BY DEF ChatType
  <2>2. (IF left[t] > 0 THEN left[t] - 1 ELSE 0) \in 0 .. MaxFiles
    BY <2>1, DiscordAssumption
  <2>. QED  BY <1>2, <2>1, <2>2 DEF OneLess
<1>. QED  BY <1>1, <1>2 DEF Stages, AtWork, AtRest, Messages

LEMMA ReadStep ==
    ASSUME ChatInv, NEW t \in Posts, ReadPictures(t) \/ ReadFile(t)
    PROVE  ChatInv'
<1>1. PICK x : /\ x \in Stages \ AtWork /\ x \notin {"new", "thread"}
               /\ stage' = [stage EXCEPT ![t] = x]
  <2>1. stage' = [stage EXCEPT ![t] = "starting"] \/ stage' = [stage EXCEPT ![t] = Onward(t)]
    BY DEF ReadPictures, ReadFile
  <2>2. "starting" \in Stages \ AtWork
    BY DEF Stages, AtWork
  <2>. QED  BY <2>1, <2>2, OnwardIs DEF ChatInv
<1>2. /\ stage[t] \in {"pictures", "file"}
      /\ left' = left \/ OneLess(t)
      /\ UNCHANGED <<inner, home, dest, agentVars, memoryVars, shown, orders>>
    BY DEF ReadPictures, ReadFile
<1>3. Settles
    BY <1>1, <1>2, MoveSettles DEF ChatInv, ChatType
<1>4. left' \in [Posts -> 0 .. MaxFiles]
    BY <1>2, OnwardIs DEF ChatInv, ChatType
<1>. QED  BY <1>1, <1>2, <1>3, <1>4, QuietStep DEF ChatInv, ChatType, memoryVars

LEMMA OpenThreadStep ==
    ASSUME ChatInv, NEW t \in Posts, OpenThread(t)
    PROVE  ChatInv'
<1>1. PICK x \in {"starting", "over"} : stage' = [stage EXCEPT ![t] = x]
    BY DEF OpenThread
<1>2. x \in Stages \ AtWork /\ x \notin {"new", "thread"} /\ stage[t] = "thread"
    BY DEF OpenThread, Stages, AtWork, AtRest
<1>3. /\ \/ dest' = [dest EXCEPT ![t] = t] /\ inner' = inner \cup {t}
         \/ UNCHANGED <<dest, inner>>
      /\ UNCHANGED <<home, left, agentVars, memoryVars, shown, orders>>
    BY DEF OpenThread
<1>4. Settles
    BY <1>1, <1>2, <1>3, ArrivalSettles DEF ChatInv, ChatType, Decided
<1>5. /\ inner' \subseteq Posts /\ home' \in [Posts -> Places]
      /\ dest' \in [Posts -> Posts \cup {NoPlace}] /\ left' \in [Posts -> 0 .. MaxFiles]
    BY <1>3 DEF ChatInv, ChatType
<1>. QED  BY <1>1, <1>2, <1>3, <1>4, <1>5, QuietStep DEF memoryVars

LEMMA NotifyStep ==
    ASSUME ChatInv, NEW t \in Posts, NEW h \in Places, Notify(t, h)
    PROVE  ChatInv'
<1>1. stage[t] = "new" /\ stage' = [stage EXCEPT ![t] = "notice"]
    BY DEF Notify
<1>2. /\ home' = [home EXCEPT ![t] = h]
      /\ journal' = journal \cup {[session |-> h, thread |-> t, post |-> t]}
      /\ UNCHANGED <<inner, dest, left, agentVars, context, shown, orders>>
    BY DEF Notify
<1>3. Settles
    BY <1>1, <1>2, ArrivalSettles DEF ChatInv, ChatType, Decided
<1>4. journal' \subseteq Exchanges
    BY <1>2 DEF ChatInv, ChatType, Exchanges, Places
<1>5. JournalOK'
  <2>1. ASSUME NEW e \in journal
        PROVE  /\ Decided(e.post)'
               /\ \/ stage'[e.post] = "notice"
                  \/ e.session = Where(e.post)' /\ e.thread = ThreadOf(e.post)'
    <3>1. e.post \in Posts
        BY DEF ChatInv, ChatType, Exchanges
    <3>2. /\ Decided(e.post)
          /\ stage[e.post] = "notice" \/ (e.session = Where(e.post) /\ e.thread = ThreadOf(e.post))
        BY DEF ChatInv, JournalOK
    <3>. QED  BY <1>3, <3>1, <3>2, Zenon DEF Settles
  <2>2. stage'[t] = "notice" /\ Decided(t)'
    BY <1>1 DEF ChatInv, ChatType, Decided
  <2>. QED  BY <1>2, <2>1, <2>2 DEF JournalOK
<1>. QED  BY <1>1, <1>2, <1>3, <1>4, <1>5, QuietStep DEF ChatInv, ChatType, Stages, AtRest, AtWork

-----------------------------------------------------------------------------
(* Discord: the steps of a turn *)

LEMMA StartStep ==
    ASSUME ChatInv, NEW t \in Posts, Start(t)
    PROVE  ChatInv'
<1>. PICK s \in Places : s = Where(t)
    BY WhereIs DEF ChatInv
<1>. PICK h \in Places \cup {NoPlace} : h = ThreadOf(t)
    BY WhereIs DEF ChatInv
<1>. PICK mine \in Agents : mine = AgentFor(s, h) /\ mine.session = s
    BY AgentIs DEF ChatInv
<1>. PICK l \in Lists : l = <<t, left[t]>> /\ l[1] = t
  <2>1. left[t] \in 0 .. MaxFiles
    BY DEF ChatInv, ChatType
  <2>2. PICK n \in 0 .. MaxFiles : n = left[t]
    BY <2>1
  <2>3. <<t, n>> \in Lists /\ <<t, n>>[1] = t
    BY DEF Lists
  <2>. QED  BY <2>2, <2>3
<1>1. /\ stage[t] = "starting" /\ stage' = [stage EXCEPT ![t] = "running"]
      /\ cached' = cached \cup {mine}
      /\ helper' = [helper EXCEPT ![t] = mine]
      /\ queue' = With(queue, mine, l)
      /\ speaker' = speaker \/ speaker' = With(speaker, mine, t)
      /\ context' = [context EXCEPT ![t] = Replayed(s, h)]
      /\ UNCHANGED <<inner, home, dest, left, listed, outgoing, journal, shown, orders>>
    BY DEF Start, SessionOf
<1>0. /\ DOMAIN queue' = DOMAIN queue \cup {mine} /\ queue'[mine] = l
      /\ \A a \in DOMAIN queue : a # mine => queue'[a] = queue[a]
    BY <1>1 DEF With
<1>2. "running" \in Stages /\ "running" \notin {"new", "thread"}
    BY DEF Stages, AtWork
<1>3. Settles
    BY <1>1, <1>2, MoveSettles DEF ChatInv, ChatType
<1>4. Belongs(t, s) /\ Belongs(t, s)' /\ stage'[t] = "running"
  <2>1. Belongs(t, s)
    BY <1>1 DEF Belongs, Decided
  <2>. QED  BY <1>1, <1>3, <2>1, BelongsStays DEF ChatInv, ChatType
<1>5. ChatType'
  <2>1. Replayed(s, h) \subseteq Posts
    BY DEF ChatInv, ChatType, Exchanges, Replayed
  <2>2. context' \in [Posts -> SUBSET Posts]
    BY <1>1, <2>1 DEF ChatInv, ChatType
  <2>. QED  BY <1>1, <1>2, <2>2 DEF ChatInv, ChatType
<1>6. ASSUME NEW u \in Posts PROVE HelperOK(u)' /\ OutgoingOK(u)'
  <2>1. CASE u = t
    <3>1. helper'[t] = mine /\ mine \in DOMAIN queue'
        BY <1>1, <1>0 DEF ChatInv, ChatType
    <3>2. Where(t)' = s
        BY <1>4 DEF Belongs
    <3>. QED  BY <1>4, <2>1, <3>1, <3>2 DEF HelperOK, OutgoingOK
  <2>2. CASE u # t
    <3>1. DOMAIN queue \subseteq DOMAIN queue'
        BY <1>0
    <3>2. stage'[u] = stage[u] /\ helper'[u] = helper[u] /\ outgoing'[u].from = outgoing[u].from
        BY <1>1, <2>2 DEF ChatInv, ChatType
    <3>. QED  BY <1>3, <3>1, <3>2, TurnStays
  <2>. QED  BY <2>1, <2>2
<1>7. QueueOK'
  <2>1. ASSUME NEW a \in DOMAIN queue, a # mine, NEW x \in Lists, queue[a] = x
        PROVE  Belongs(x[1], a.session)'
    <3>1. PICK w \in Posts : w = x[1]
        BY DEF Lists
    <3>. QED  BY <1>3, <2>1, <3>1, BelongsStays DEF ChatInv, QueueOK
  <2>2. \A a \in DOMAIN queue : queue[a] \in Lists
    BY DEF ChatInv, QueueOK
  <2>4. ASSUME NEW a \in DOMAIN queue'
        PROVE  queue'[a] \in Lists /\ Belongs(queue[a][1], a.session)'
    <3>1. CASE a = mine
        BY <1>0, <1>4, <3>1
    <3>2. CASE a # mine
        BY <1>0, <2>1, <2>2, <2>4, <3>2
    <3>. QED  BY <3>1, <3>2
  <2>. QED  BY <2>4 DEF QueueOK
<1>8. SpeakerOK'
  <2>1. CASE speaker' = speaker
    BY <1>3, <2>1, MemoryStays
  <2>2. CASE speaker' = With(speaker, mine, t)
    <3>1. \A a \in DOMAIN speaker : speaker[a] \in Posts /\ Belongs(speaker[a], a.session)
        BY DEF ChatInv, SpeakerOK
    <3>2. ASSUME NEW a \in DOMAIN speaker, a # mine, NEW w \in Posts, speaker[a] = w
          PROVE  Belongs(w, a.session)'
        BY <1>3, <3>1, <3>2, BelongsStays
    <3>3. DOMAIN speaker' = DOMAIN speaker \cup {mine} /\ speaker'[mine] = t
          /\ \A a \in DOMAIN speaker : a # mine => speaker'[a] = speaker[a]
        BY <2>2 DEF With
    <3>4. ASSUME NEW a \in DOMAIN speaker'
          PROVE  speaker'[a] \in Posts /\ Belongs(speaker[a], a.session)'
      <4>1. CASE a = mine
        BY <1>4, <3>3, <4>1
      <4>2. CASE a # mine
        BY <3>1, <3>2, <3>3, <3>4, <4>2
      <4>. QED  BY <4>1, <4>2
    <3>. QED  BY <3>4 DEF SpeakerOK
  <2>. QED  BY <1>1, <2>1, <2>2
<1>9. ContextOK'
  <2>1. ASSUME NEW v \in Posts, v # t, NEW u \in context[v]
        PROVE  Decided(v)' /\ Decided(u)' /\ (stage'[u] = "notice" \/ Where(u)' = Where(v)')
    <3>1. u \in Posts
        BY DEF ChatInv, ChatType
    <3>2. Decided(v) /\ Decided(u) /\ (stage[u] = "notice" \/ Where(u) = Where(v))
        BY DEF ChatInv, ContextOK
    <3>. QED  BY <1>3, <3>1, <3>2 DEF Settles
  <2>2. ASSUME NEW u \in Replayed(s, h)
        PROVE  Decided(u)' /\ (stage'[u] = "notice" \/ Where(u)' = s)
    <3>1. PICK e \in journal : e.session = s /\ e.post = u
        BY DEF Replayed
    <3>2. u \in Posts
        BY <3>1 DEF ChatInv, ChatType, Exchanges
    <3>3. Decided(u) /\ (stage[u] = "notice" \/ Where(u) = s)
        BY <3>1 DEF ChatInv, JournalOK
    <3>. QED  BY <1>3, <3>2, <3>3 DEF Settles
  <2>3. Where(t)' = s /\ Decided(t)'
    BY <1>4 DEF Belongs
  <2>4. context'[t] = Replayed(s, h) /\ \A v \in Posts : v # t => context'[v] = context[v]
    BY <1>1 DEF ChatInv, ChatType
  <2>. QED  BY <2>1, <2>2, <2>3, <2>4 DEF ContextOK
<1>. QED  BY <1>1, <1>3, <1>5, <1>6, <1>7, <1>8, <1>9, MemoryStays DEF ChatInv

LEMMA InterimStep ==
    ASSUME ChatInv, NEW t \in Posts, Interim(t)
    PROVE  ChatInv'
<1>. PICK a \in Agents : a = helper[t] /\ a \in DOMAIN speaker /\ a.session = Where(t)
    BY DEF Interim, ChatInv, HelperOK, AtWork
<1>. PICK w \in Posts : w = speaker[a] /\ Belongs(w, a.session)
    BY DEF ChatInv, SpeakerOK
<1>1. /\ stage[t] = "running"
      /\ shown' = shown \cup {[of |-> t, at |-> Where(w)]}
      /\ UNCHANGED <<turnVars, agentVars, memoryVars, orders>>
    BY DEF Interim
<1>2. Settles
    BY <1>1, SameSettles
<1>3. ChatType'
    BY <1>1 DEF ChatInv, ChatType, turnVars, agentVars, memoryVars
<1>4. ASSUME NEW u \in Posts PROVE HelperOK(u)' /\ OutgoingOK(u)'
    BY <1>1, <1>2, TurnStays DEF turnVars, agentVars
<1>5. Belongs(t, Where(w)) /\ Where(w) = Where(t)
    BY <1>1 DEF Belongs, Decided
<1>6. ShownOK'
  <2>1. PICK p : p = Where(w)
    OBVIOUS
  <2>2. Belongs(t, p)'
    BY <1>2, <1>5, <2>1, BelongsStays
  <2>3. ASSUME NEW x \in shown PROVE x.of \in Posts /\ Belongs(x.of, x.at)'
    BY <1>2, BelongsStays DEF ChatInv, ShownOK
  <2>. QED  BY <1>1, <2>1, <2>2, <2>3 DEF ShownOK
<1>. QED  BY <1>1, <1>2, <1>3, <1>4, <1>6, MemoryStays DEF ChatInv, turnVars, agentVars, memoryVars

LEMMA AttachStep ==
    ASSUME ChatInv, NEW t \in Posts, Attach(t)
    PROVE  ChatInv'
<1>. PICK a \in Agents : a = helper[t] /\ a \in DOMAIN queue /\ a.session = Where(t)
    BY DEF Attach, ChatInv, HelperOK, AtWork
<1>. PICK l \in Lists : l = queue[a] /\ Belongs(l[1], a.session)
    BY DEF ChatInv, QueueOK
<1>1. /\ stage[t] = "running"
      /\ listed' = [listed EXCEPT ![l] = Append(@, t)]
      /\ UNCHANGED <<turnVars, cached, helper, queue, speaker, outgoing, memoryVars, shown, orders>>
    BY DEF Attach
<1>2. Settles
    BY <1>1, SameSettles
<1>3. listed \in [Lists -> Seq(Posts)] /\ listed' \in [Lists -> Seq(Posts)]
    BY <1>1 DEF ChatInv, ChatType
<1>4. ChatType'
    BY <1>1, <1>3 DEF ChatInv, ChatType, turnVars, memoryVars
<1>5. ASSUME NEW u \in Posts PROVE HelperOK(u)' /\ OutgoingOK(u)'
    BY <1>1, <1>2, TurnStays DEF turnVars
<1>6. \A u \in Posts : Where(u)' = Where(u) /\ (Decided(u)' <=> Decided(u))
    BY <1>1 DEF turnVars, Where, Decided
<1>7. ListedOK'
  <2>1. ASSUME NEW k \in Lists, NEW i \in 1 .. Len(listed'[k])
        PROVE  Decided(k[1])' /\ Belongs(listed[k][i], Where(k[1]))'
    <3>1. k[1] \in Posts /\ l[1] \in Posts
        BY DEF Lists
    <3>2. CASE k = l /\ i = Len(listed[l]) + 1
      <4>1. listed'[k][i] = t
        BY <1>1, <1>3, <3>2, AppendProperties
      <4>2. Decided(t)' /\ Decided(l[1])' /\ Where(t)' = Where(l[1])'
        BY <1>1, <1>6, <3>1 DEF Belongs, Decided
      <4>. QED  BY <3>2, <4>1, <4>2 DEF Belongs
    <3>3. CASE ~(k = l /\ i = Len(listed[l]) + 1)
      <4>1. i \in 1 .. Len(listed[k]) /\ listed'[k][i] = listed[k][i]
        BY <1>1, <1>3, <3>3, AppendProperties
      <4>2. PICK f \in Posts : f = listed[k][i]
        BY <1>3, <4>1, ElementOfSeq
      <4>3. Decided(k[1]) /\ Belongs(f, Where(k[1]))
        BY <4>1, <4>2 DEF ChatInv, ListedOK
      <4>. QED  BY <1>6, <3>1, <4>1, <4>2, <4>3 DEF Belongs
    <3>. QED  BY <3>2, <3>3
  <2>. QED  BY <2>1 DEF ListedOK
<1>. QED  BY <1>1, <1>2, <1>4, <1>5, <1>7, MemoryStays DEF ChatInv, memoryVars

LEMMA ReturnStep ==
    ASSUME ChatInv, NEW t \in Posts, Return(t)
    PROVE  ChatInv'
<1>. PICK s \in Places : s = Where(t)
    BY WhereIs DEF ChatInv
<1>. PICK h \in Places \cup {NoPlace} : h = ThreadOf(t)
    BY WhereIs DEF ChatInv
<1>. PICK e \in Exchanges : e = [session |-> s, thread |-> h, post |-> t]
    BY DEF Exchanges
<1>1. /\ stage[t] = "running" /\ stage' = [stage EXCEPT ![t] = "replying"]
      /\ journal' = journal \cup {e}
      /\ UNCHANGED <<inner, home, dest, left, agentVars, context, shown, orders>>
    BY DEF Return, SessionOf
<1>2. "replying" \in Stages /\ "replying" \in AtWork /\ "replying" \notin {"new", "thread"}
    BY DEF Stages, AtWork
<1>3. Settles
    BY <1>1, <1>2, MoveSettles DEF ChatInv, ChatType
<1>4. ChatType'
    BY <1>1, <1>2 DEF ChatInv, ChatType, agentVars
<1>5. ASSUME NEW u \in Posts PROVE HelperOK(u)' /\ OutgoingOK(u)'
  <2>1. CASE u = t
    <3>1. stage'[t] = "replying" /\ Where(t)' = Where(t)
        BY <1>1 DEF ChatInv, ChatType, Where
    <3>2. helper[t] \in Agents /\ helper[t].session = Where(t) /\ helper[t] \in DOMAIN queue
        BY <1>1 DEF ChatInv, HelperOK, AtWork
    <3>. QED  BY <1>1, <2>1, <3>1, <3>2 DEF HelperOK, OutgoingOK, agentVars
  <2>2. CASE u # t
    <3>1. stage'[u] = stage[u] /\ UNCHANGED <<helper, outgoing, queue>>
        BY <1>1, <2>2 DEF ChatInv, ChatType, agentVars
    <3>. QED  BY <1>3, <3>1, TurnStays
  <2>. QED  BY <2>1, <2>2
<1>6. JournalOK'
  <2>1. ASSUME NEW x \in journal
        PROVE  /\ Decided(x.post)'
               /\ \/ stage'[x.post] = "notice"
                  \/ x.session = Where(x.post)' /\ x.thread = ThreadOf(x.post)'
    <3>1. x.post \in Posts
        BY DEF ChatInv, ChatType, Exchanges
    <3>2. /\ Decided(x.post)
          /\ stage[x.post] = "notice" \/ (x.session = Where(x.post) /\ x.thread = ThreadOf(x.post))
        BY DEF ChatInv, JournalOK
    <3>. QED  BY <1>3, <3>1, <3>2, Zenon DEF Settles
  <2>2. Decided(t) /\ Decided(t)' /\ Where(t)' = s /\ ThreadOf(t)' = h
    BY <1>1, <1>3 DEF Decided, Settles
  <2>. QED  BY <1>1, <2>1, <2>2 DEF JournalOK
<1>. QED  BY <1>1, <1>3, <1>4, <1>5, <1>6, MemoryStays DEF ChatInv, agentVars

\* A turn is over, and the agents' lists with it when no other is at work.
LEMMA LetGoStep ==
    ASSUME ChatInv, NEW t \in Posts, stage[t] \in AtWork,
           NEW x \in Stages \ AtWork, x \notin {"new", "thread"},
           stage' = [stage EXCEPT ![t] = x], left' \in [Posts -> 0 .. MaxFiles], LetGo(t),
           UNCHANGED <<inner, home, dest, cached, journal, shown, orders>>
    PROVE  ChatInv'
<1>1. stage[t] \notin {"new", "notice"}
    BY DEF AtWork
<1>2. Settles
    BY <1>1, MoveSettles DEF ChatInv, ChatType
<1>3. /\ helper' = [helper EXCEPT ![t] = NoHelper]
      /\ outgoing' = [outgoing EXCEPT ![t] = NothingOut]
      /\ context' = [context EXCEPT ![t] = {}]
    BY DEF LetGo
<1>4. \/ queue' = queue /\ speaker' = speaker /\ listed' = listed
      \/ /\ \A u \in Posts \ {t} : helper[u] = NoHelper
         /\ queue' = <<>> /\ speaker' = <<>> /\ listed' = [l \in DOMAIN listed |-> <<>>]
    BY DEF LetGo
<1>5. ChatType'
  <2>1. NothingOut \in [from : Lists \cup {NoList}, sent : Nat]
    BY DEF NothingOut
  <2>2. outgoing' \in [Posts -> [from : Lists \cup {NoList}, sent : Nat]]
    BY <1>3, <2>1 DEF ChatInv, ChatType
  <2>3. listed' \in [Lists -> Seq(Posts)]
    <3>1. listed \in [Lists -> Seq(Posts)] /\ <<>> \in Seq(Posts)
        BY EmptySeq DEF ChatInv, ChatType
    <3>2. CASE listed' = listed
        BY <3>1, <3>2
    <3>3. CASE listed' = [l \in DOMAIN listed |-> <<>>]
        BY <3>1, <3>3
    <3>. QED  BY <1>4, <3>2, <3>3
  <2>4. /\ stage' \in [Posts -> Stages] /\ helper' \in [Posts -> Agents \cup {NoHelper}]
        /\ context' \in [Posts -> SUBSET Posts]
    BY <1>3 DEF ChatInv, ChatType
  <2>. QED  BY <2>2, <2>3, <2>4 DEF ChatInv, ChatType
<1>6. /\ stage'[t] \notin AtWork
      /\ \A u \in Posts \ {t} : /\ stage'[u] = stage[u] /\ helper'[u] = helper[u]
                                /\ outgoing'[u].from = outgoing[u].from
    BY <1>3 DEF ChatInv, ChatType
<1>7. NoHelper \notin Agents
    BY DEF NoHelper, Agents
<1>8. ASSUME NEW u \in Posts PROVE HelperOK(u)' /\ OutgoingOK(u)'
  <2>1. CASE queue' = queue
    BY <1>2, <1>6, <2>1, TurnStays
  <2>2. CASE \A v \in Posts \ {t} : helper[v] = NoHelper
    <3>1. u # t => stage[u] \notin AtWork
        BY <1>7, <2>2 DEF ChatInv, HelperOK
    <3>2. stage'[u] \notin AtWork
        BY <1>6, <3>1
    <3>. QED  BY <1>2, <3>2, TurnStays
  <2>. QED  BY <1>4, <2>1, <2>2
<1>9. QueueOK' /\ SpeakerOK' /\ ListedOK'
  <2>1. CASE queue' = queue /\ speaker' = speaker /\ listed' = listed
    BY <1>2, <2>1, MemoryStays
  <2>2. CASE queue' = <<>> /\ speaker' = <<>> /\ listed' = [l \in DOMAIN listed |-> <<>>]
    <3>1. DOMAIN queue' = {} /\ DOMAIN speaker' = {}
        BY <2>2
    <3>2. \A l \in Lists : Len(listed'[l]) = 0
        BY <2>2 DEF ChatInv, ChatType
    <3>. QED  BY <3>1, <3>2 DEF QueueOK, SpeakerOK, ListedOK
  <2>. QED  BY <1>4, <2>1, <2>2
<1>10. ContextOK'
  <2>1. ASSUME NEW v \in Posts, NEW u \in context'[v]
        PROVE  Decided(v)' /\ Decided(u)' /\ (stage'[u] = "notice" \/ Where(u)' = Where(v)')
    <3>1. u \in Posts /\ u \in context[v]
        BY <1>3, <2>1 DEF ChatInv, ChatType
    <3>2. Decided(v) /\ Decided(u) /\ (stage[u] = "notice" \/ Where(u) = Where(v))
        BY <3>1 DEF ChatInv, ContextOK
    <3>. QED  BY <1>2, <3>1, <3>2 DEF Settles
  <2>. QED  BY <2>1 DEF ContextOK
<1>. QED  BY <1>2, <1>5, <1>8, <1>9, <1>10, MemoryStays DEF ChatInv

LEMMA EndStep ==
    ASSUME ChatInv, NEW t \in Posts, Fault(t) \/ AnswerInNewThread(t) \/ AllSent(t)
    PROVE  ChatInv'
<1>1. /\ stage[t] \in AtWork
      /\ stage' = [stage EXCEPT ![t] = Onward(t)] /\ OneLess(t) /\ LetGo(t)
      /\ UNCHANGED <<inner, home, dest, cached, journal, shown, orders>>
    BY DEF Fault, AnswerInNewThread, AllSent, EndPart, AtWork
<1>. PICK x \in Stages \ AtWork : x = Onward(t) /\ x \notin {"new", "thread"}
    BY OnwardIs DEF ChatInv
<1>2. left' \in [Posts -> 0 .. MaxFiles]
    BY <1>1, OnwardIs DEF ChatInv
<1>. QED  BY <1>1, <1>2, LetGoStep

LEMMA AnswerFailsStep ==
    ASSUME ChatInv, NEW t \in Posts, AnswerFails(t)
    PROVE  ChatInv'
<1>1. /\ stage[t] \in AtWork
      /\ stage' = [stage EXCEPT ![t] = "over"] /\ left' = [left EXCEPT ![t] = 0] /\ LetGo(t)
      /\ UNCHANGED <<inner, home, dest, cached, journal, shown, orders>>
    BY DEF AnswerFails, AtWork
<1>2. "over" \in Stages \ AtWork /\ "over" \notin {"new", "thread"}
    BY DEF Stages, AtRest, AtWork
<1>3. left' \in [Posts -> 0 .. MaxFiles]
  <2>1. 0 \in 0 .. MaxFiles
    BY DiscordAssumption
  <2>. QED  BY <1>1, <2>1 DEF ChatInv, ChatType
<1>. QED  BY <1>1, <1>2, <1>3, LetGoStep

LEMMA AnswerStep ==
    ASSUME ChatInv, NEW t \in Posts, Answer(t)
    PROVE  ChatInv'
<1>. PICK a \in Agents : a = helper[t] /\ a \in DOMAIN queue /\ a.session = Where(t)
    BY DEF Answer, ChatInv, HelperOK, AtWork
<1>. PICK l \in Lists : l = queue[a] /\ Belongs(l[1], a.session)
    BY DEF ChatInv, QueueOK
<1>. PICK w \in Posts : w = l[1]
    BY DEF Lists
<1>1. /\ stage[t] = "replying" /\ stage' = [stage EXCEPT ![t] = "sending"]
      /\ outgoing' = [outgoing EXCEPT ![t] = [from |-> l, sent |-> 0]]
      /\ UNCHANGED <<inner, home, dest, left, cached, helper, queue, listed, speaker, memoryVars,
                     shown, orders>>
    BY DEF Answer
<1>2. "sending" \in Stages /\ "sending" \in AtWork /\ "sending" \notin {"new", "thread"}
    BY DEF Stages, AtWork
<1>3. Settles
    BY <1>1, <1>2, MoveSettles DEF ChatInv, ChatType
<1>4. outgoing' \in [Posts -> [from : Lists \cup {NoList}, sent : Nat]]
    BY <1>1 DEF ChatInv, ChatType
<1>5. ChatType'
    BY <1>1, <1>2, <1>4 DEF ChatInv, ChatType, memoryVars
<1>6. ASSUME NEW u \in Posts PROVE HelperOK(u)' /\ OutgoingOK(u)'
  <2>1. CASE u = t
    <3>1. stage'[t] = "sending" /\ Where(t)' = Where(t)
        BY <1>1 DEF ChatInv, ChatType, Where
    <3>2. outgoing'[t].from = l
        BY <1>1 DEF ChatInv, ChatType
    <3>3. Belongs(w, Where(t))'
        BY <1>3, <3>1, BelongsStays DEF Belongs
    <3>4. HelperOK(t)'
        BY <1>1, <3>1 DEF HelperOK
    <3>5. OutgoingOK(t)'
        BY <3>2, <3>3 DEF OutgoingOK
    <3>. QED  BY <2>1, <3>4, <3>5
  <2>2. CASE u # t
    <3>1. stage'[u] = stage[u] /\ helper'[u] = helper[u] /\ outgoing'[u].from = outgoing[u].from
        BY <1>1, <2>2 DEF ChatInv, ChatType
    <3>. QED  BY <1>1, <1>3, <3>1, TurnStays
  <2>. QED  BY <2>1, <2>2
<1>. QED  BY <1>1, <1>3, <1>5, <1>6, MemoryStays DEF ChatInv, memoryVars

LEMMA SendNextStep ==
    ASSUME ChatInv, NEW t \in Posts, SendNext(t)
    PROVE  ChatInv'
<1>. PICK l \in Lists : l = outgoing[t].from /\ Belongs(l[1], Where(t))
    BY DEF SendNext, ChatInv, OutgoingOK
<1>. PICK n \in Nat : n = outgoing[t].sent
    BY DEF ChatInv, ChatType
<1>1. n + 1 \in 1 .. Len(listed[l]) /\ listed[l] \in Seq(Posts)
  <2>1. listed[l] \in Seq(Posts)
    BY DEF ChatInv, ChatType
  <2>2. Len(listed[l]) \in Nat /\ n < Len(listed[l])
    BY <2>1, LenProperties DEF SendNext, Waiting
  <2>. QED  BY <2>1, <2>2
<1>. PICK f \in Posts : f = listed[l][n + 1] /\ Belongs(f, Where(t))
  <2>1. listed[l][n + 1] \in Posts
    BY <1>1, ElementOfSeq
  <2>2. Belongs(listed[l][n + 1], Where(l[1]))
    BY <1>1 DEF ChatInv, ListedOK
  <2>3. Where(l[1]) = Where(t)
    BY DEF Belongs
  <2>. QED  BY <2>1, <2>2, <2>3
<1>2. /\ outgoing' = [outgoing EXCEPT ![t].sent = @ + 1]
      /\ shown' = shown \cup {[of |-> f, at |-> Where(t)]} \/ shown' = shown
      /\ UNCHANGED <<turnVars, cached, helper, queue, listed, speaker, memoryVars, orders>>
    BY DEF SendNext
<1>3. Settles
    BY <1>2, SameSettles
<1>4. /\ outgoing' \in [Posts -> [from : Lists \cup {NoList}, sent : Nat]]
      /\ \A u \in Posts : outgoing'[u].from = outgoing[u].from
  <2>1. outgoing \in [Posts -> [from : Lists \cup {NoList}, sent : Nat]]
    BY DEF ChatInv, ChatType
  <2>2. outgoing' = [outgoing EXCEPT ![t] = [outgoing[t] EXCEPT !.sent = n + 1]]
    BY <1>2
  <2>3. PICK r \in [from : Lists \cup {NoList}, sent : Nat] :
            r = [outgoing[t] EXCEPT !.sent = n + 1] /\ r.from = outgoing[t].from
    <3>1. PICK q \in [from : Lists \cup {NoList}, sent : Nat] : q = outgoing[t]
        BY <2>1
    <3>2. /\ [q EXCEPT !.sent = n + 1] \in [from : Lists \cup {NoList}, sent : Nat]
          /\ [q EXCEPT !.sent = n + 1].from = q.from
        OBVIOUS
    <3>. QED  BY <3>1, <3>2
  <2>. QED  BY <2>1, <2>2, <2>3
<1>5. ChatType'
    BY <1>2, <1>4 DEF ChatInv, ChatType, turnVars, memoryVars
<1>6. ASSUME NEW u \in Posts PROVE HelperOK(u)' /\ OutgoingOK(u)'
    BY <1>2, <1>3, <1>4, TurnStays DEF turnVars
<1>7. ShownOK'
  <2>. PICK p : p = Where(t)
    OBVIOUS
  <2>1. Belongs(f, p)'
    BY <1>3, BelongsStays
  <2>2. ASSUME NEW x \in shown PROVE x.of \in Posts /\ Belongs(x.of, x.at)'
    BY <1>3, BelongsStays DEF ChatInv, ShownOK
  <2>. QED  BY <1>2, <2>1, <2>2 DEF ShownOK
<1>. QED  BY <1>2, <1>3, <1>5, <1>6, <1>7, MemoryStays DEF ChatInv, memoryVars

-----------------------------------------------------------------------------
(* Discord: commands, restarts, and the theorems *)

\* A command changes the cache; a turn keeps its agent.
LEMMA OrderStep ==
    ASSUME ChatInv, NEW h \in Places, TextOrder(h) \/ SlashOrder(h)
    PROVE  ChatInv'
<1>1. AskStatus(h) \/ ChangeModel(h) \/ ReloadAll
    BY DEF TextOrder, SlashOrder
<1>2. /\ orders' = orders + 1
      /\ UNCHANGED <<turnVars, helper, queue, listed, speaker, outgoing, memoryVars, shown>>
    BY <1>1 DEF AskStatus, ChangeModel, ReloadAll, Ordered
<1>3. cached' \subseteq Agents
  <2>1. CASE AskStatus(h)
    <3>1. PICK th \in Places \cup {NoPlace} : cached' = cached \cup {AgentFor(h, th)}
      <4>1. (IF h = Channel THEN NoPlace ELSE h) \in Places \cup {NoPlace}
        OBVIOUS
      <4>. QED  BY <2>1, <4>1 DEF AskStatus
    <3>. QED  BY <3>1, AgentIs DEF ChatInv, ChatType
  <2>2. CASE ChangeModel(h) \/ ReloadAll
    BY <2>2 DEF ChangeModel, ReloadAll, ChatInv, ChatType
  <2>. QED  BY <1>1, <2>1, <2>2
<1>4. Settles
    BY <1>2, SameSettles
<1>5. ChatType'
    BY <1>2, <1>3 DEF ChatInv, ChatType, turnVars, memoryVars
<1>6. ASSUME NEW u \in Posts PROVE HelperOK(u)' /\ OutgoingOK(u)'
    BY <1>2, <1>4, TurnStays DEF turnVars
<1>. QED  BY <1>2, <1>4, <1>5, <1>6, MemoryStays DEF ChatInv, memoryVars

LEMMA RestartStep ==
    ASSUME ChatInv, RestartBot
    PROVE  ChatInv'
<1>1. /\ stage' = [t \in Posts |-> IF stage[t] \in AtRest THEN stage[t] ELSE "over"]
      /\ helper' = [t \in Posts |-> NoHelper]
      /\ queue' = <<>> /\ speaker' = <<>> /\ cached' = {}
      /\ outgoing' = [t \in Posts |-> NothingOut]
      /\ context' = [t \in Posts |-> {}]
      /\ listed' = [l \in DOMAIN listed |-> <<>>]
      /\ left' = [t \in Posts |-> 0] /\ orders' = orders + 1
      /\ UNCHANGED <<inner, home, dest, journal, shown>>
    BY DEF RestartBot, Ordered
<1>2. Settles
  <2>1. \A u \in Posts : Where(u)' = Where(u) /\ ThreadOf(u)' = ThreadOf(u)
    BY <1>1 DEF Where, ThreadOf
  <2>2. \A u \in Posts : stage'[u] = stage[u] \/ (stage'[u] = "over" /\ stage[u] # "notice")
    BY <1>1 DEF AtRest
  <2>. QED  BY <2>1, <2>2 DEF Settles, Decided
<1>3. ChatType'
  <2>1. NothingOut \in [from : Lists \cup {NoList}, sent : Nat] /\ 0 \in 0 .. MaxFiles
    BY DiscordAssumption DEF NothingOut
  <2>2. listed' \in [Lists -> Seq(Posts)]
    BY <1>1, EmptySeq DEF ChatInv, ChatType
  <2>3. stage' \in [Posts -> Stages]
    BY <1>1 DEF ChatInv, ChatType, Stages, AtRest
  <2>4. outgoing' \in [Posts -> [from : Lists \cup {NoList}, sent : Nat]]
    BY <1>1, <2>1
  <2>. QED  BY <1>1, <2>1, <2>2, <2>3, <2>4 DEF ChatInv, ChatType
<1>4. ASSUME NEW u \in Posts PROVE HelperOK(u)' /\ OutgoingOK(u)'
  <2>1. stage'[u] \notin AtWork
    BY <1>1 DEF AtRest, AtWork
  <2>. QED  BY <1>2, <2>1, TurnStays
<1>5. QueueOK' /\ SpeakerOK' /\ ListedOK' /\ ContextOK'
  <2>1. DOMAIN queue' = {} /\ DOMAIN speaker' = {}
    BY <1>1
  <2>2. \A l \in Lists : Len(listed'[l]) = 0
    BY <1>1 DEF ChatInv, ChatType
  <2>3. \A t \in Posts : context'[t] = {}
    BY <1>1
  <2>. QED  BY <2>1, <2>2, <2>3 DEF QueueOK, SpeakerOK, ListedOK, ContextOK
<1>. QED  BY <1>1, <1>2, <1>3, <1>4, <1>5, MemoryStays DEF ChatInv

LEMMA ChatStarts ==
    ChatInit => ChatInv
<1>. SUFFICES ASSUME ChatInit PROVE ChatInv
    OBVIOUS
<1>1. /\ stage = [t \in Posts |-> "new"] /\ queue = <<>> /\ speaker = <<>>
      /\ listed = [l \in Lists |-> <<>>] /\ shown = {} /\ journal = {}
      /\ context = [t \in Posts |-> {}]
    BY DEF ChatInit, Lists
<1>2. ChatType
  <2>1. NothingOut \in [from : Lists \cup {NoList}, sent : Nat] /\ 0 \in 0 .. MaxFiles
    BY DiscordAssumption DEF NothingOut
  <2>2. listed \in [Lists -> Seq(Posts)]
    BY <1>1, EmptySeq
  <2>3. "new" \in Stages
    BY DEF Stages, AtRest
  <2>4. outgoing \in [Posts -> [from : Lists \cup {NoList}, sent : Nat]]
    BY <2>1 DEF ChatInit
  <2>5. home \in [Posts -> Places] /\ dest \in [Posts -> Posts \cup {NoPlace}]
    BY DEF ChatInit, Places
  <2>6. helper \in [Posts -> Agents \cup {NoHelper}]
    BY DEF ChatInit
  <2>. QED  BY <1>1, <2>1, <2>2, <2>3, <2>4, <2>5, <2>6 DEF ChatInit, ChatType
<1>3. \A t \in Posts : HelperOK(t) /\ OutgoingOK(t)
    BY <1>1 DEF HelperOK, OutgoingOK, AtWork
<1>4. DOMAIN queue = {} /\ DOMAIN speaker = {} /\ \A l \in Lists : Len(listed[l]) = 0
    BY <1>1
<1>. QED  BY <1>1, <1>2, <1>3, <1>4 DEF ChatInv, QueueOK, SpeakerOK, ListedOK, ShownOK,
             JournalOK, ContextOK

LEMMA ChatStep ==
    ChatInv /\ [ChatNext]_chatVars => ChatInv'
<1>. SUFFICES ASSUME ChatInv, [ChatNext]_chatVars PROVE ChatInv'
    OBVIOUS
<1>1. CASE UNCHANGED chatVars
  <2>1. UNCHANGED <<turnVars, agentVars, memoryVars, shown, orders>>
    BY <1>1 DEF chatVars
  <2>2. Settles
    BY <2>1, SameSettles
  <2>3. ChatType'
    BY <2>1 DEF ChatInv, ChatType, turnVars, agentVars, memoryVars
  <2>4. ASSUME NEW u \in Posts PROVE HelperOK(u)' /\ OutgoingOK(u)'
    BY <2>1, <2>2, TurnStays DEF turnVars, agentVars
  <2>. QED  BY <2>1, <2>2, <2>3, <2>4, MemoryStays DEF ChatInv, agentVars, memoryVars
<1>2. ASSUME NEW t \in Posts,
             Ignore(t) \/ Transcribe(t) \/ ReadPictures(t) \/ ReadFile(t) \/ OpenThread(t)
      PROVE  ChatInv'
    BY <1>2, IgnoreStep, TranscribeStep, ReadStep, OpenThreadStep
<1>3. ASSUME NEW t \in Posts, NEW h \in Places, NEW k \in Messages, NEW n \in 0 .. MaxFiles,
             Receive(t, h, k, n) \/ Notify(t, h)
      PROVE  ChatInv'
    BY <1>3, ReceiveStep, NotifyStep
<1>4. ASSUME NEW t \in Posts,
             \/ Start(t) \/ Interim(t) \/ Attach(t) \/ Return(t) \/ Fault(t)
             \/ Answer(t) \/ AnswerInNewThread(t) \/ AnswerFails(t) \/ SendNext(t) \/ AllSent(t)
      PROVE  ChatInv'
    BY <1>4, StartStep, InterimStep, AttachStep, ReturnStep, EndStep, AnswerStep,
       AnswerFailsStep, SendNextStep
<1>5. ASSUME NEW t \in Posts, NEW h \in Places, Notify(t, h) PROVE ChatInv'
    BY <1>5, NotifyStep
<1>. QED  BY <1>1, <1>2, <1>3, <1>4, <1>5, OrderStep, RestartStep DEF ChatNext

\* Only the start of a run lets a turn run.
LEMMA OnlyStartRuns ==
    ASSUME stage \in [Posts -> Stages], ChatNext, NEW t \in Posts,
           stage[t] = "starting", stage'[t] = "running"
    PROVE  Start(t)
<1>1. ASSUME NEW u \in Posts, NEW x, x # "running", stage' = [stage EXCEPT ![u] = x]
      PROVE  FALSE
    BY <1>1
<1>2. ASSUME NEW u \in Posts,
             \/ Ignore(u) \/ Transcribe(u) \/ ReadPictures(u) \/ ReadFile(u) \/ OpenThread(u)
             \/ Return(u) \/ Answer(u) \/ Fault(u) \/ AnswerInNewThread(u)
             \/ AnswerFails(u) \/ AllSent(u)
      PROVE  FALSE
  <2>1. Onward(u) # "running"
    BY DEF Onward
  <2>2. \/ stage' = [stage EXCEPT ![u] = "over"] \/ stage' = [stage EXCEPT ![u] = "starting"]
        \/ stage' = [stage EXCEPT ![u] = "replying"] \/ stage' = [stage EXCEPT ![u] = "sending"]
        \/ stage' = [stage EXCEPT ![u] = Onward(u)]
    BY <1>2 DEF Ignore, Transcribe, ReadPictures, ReadFile, OpenThread, Return, Answer, Fault,
       AnswerInNewThread, AnswerFails, AllSent, EndPart
  <2>. QED  BY <1>1, <2>1, <2>2
<1>3. ASSUME NEW u \in Posts, Interim(u) \/ Attach(u) \/ SendNext(u)
      PROVE  FALSE
    BY <1>3 DEF Interim, Attach, SendNext, turnVars
<1>4. ASSUME NEW u \in Posts, NEW h \in Places, NEW k \in Messages, NEW n \in 0 .. MaxFiles,
             Receive(u, h, k, n)
      PROVE  FALSE
  <2>1. (IF k = "text" THEN "starting" ELSE k) # "running"
    BY DEF Messages
  <2>. QED  BY <1>1, <1>4, <2>1 DEF Receive
<1>5. ASSUME NEW u \in Posts, NEW h \in Places, Notify(u, h) PROVE FALSE
    BY <1>1, <1>5 DEF Notify
<1>6. ASSUME NEW h \in Places, TextOrder(h) \/ SlashOrder(h) PROVE FALSE
    BY <1>6 DEF TextOrder, SlashOrder, AskStatus, ChangeModel, ReloadAll, turnVars
<1>7. ASSUME RestartBot PROVE FALSE
    BY <1>7 DEF RestartBot, AtRest
<1>8. ASSUME NEW u \in Posts, Start(u) PROVE Start(t)
    BY <1>8 DEF Start
<1>. QED  BY <1>2, <1>3, <1>4, <1>5, <1>6, <1>7, <1>8 DEF ChatNext

\* For every number of messages, threads, files and commands and every interleaving of the
\* handlers: what a turn says before its answer and the files it attaches appear in the
\* place where its message belongs, and a turn is given exchanges of its own place only.
THEOREM ConversationsStayApart == ChatSpec => []ConversationsIsolated
<1>1. ChatInv => ConversationsIsolated
    BY DEF ChatInv, ShownOK, ContextOK, Belongs, ConversationsIsolated
<1>. QED  BY <1>1, ChatStarts, ChatStep, PTL DEF ChatSpec

\* A turn that starts is given every exchange that was recorded in its place, also after a
\* restart: an exchange is recorded under the session and the thread by which a later
\* turn of the place looks for it, and it stays there.
THEOREM FollowUpsSee == ChatSpec => FollowUpSees
<1>1. ASSUME ChatInv, ChatNext, NEW t \in Posts, stage[t] = "starting", stage'[t] = "running",
             t \notin inner, NEW u \in Posts \ inner, Answered(u), Where(u) = Where(t)
      PROVE  u \in context'[t]
  <2>1. Start(t)
    BY <1>1, OnlyStartRuns DEF ChatInv, ChatType
  <2>2. PICK e \in journal : e.post = u
    BY <1>1 DEF Answered
  <2>3. stage[u] # "notice"
    BY <1>1 DEF Answered
  <2>4. e.session = Where(u) /\ e.thread = ThreadOf(u)
    BY <1>1, <2>2, <2>3 DEF ChatInv, JournalOK
  <2>5. ThreadOf(u) = ThreadOf(t)
    BY <1>1 DEF ThreadOf
  <2>6. context'[t] = Replayed(SessionOf(t), ThreadOf(t))
    BY <1>1, <2>1 DEF Start, ChatInv, ChatType
  <2>. QED  BY <1>1, <2>2, <2>4, <2>5, <2>6 DEF Replayed, SessionOf
<1>2. ChatInv /\ [ChatNext]_chatVars =>
        [\A t \in Posts :
            stage[t] = "starting" /\ stage'[t] = "running" /\ t \notin inner =>
                \A u \in Posts \ inner :
                    Answered(u) /\ Where(u) = Where(t) => u \in context'[t]]_chatVars
    BY <1>1
<1>. QED  BY <1>2, ChatStarts, ChatStep, PTL DEF ChatSpec, FollowUpSees

-----------------------------------------------------------------------------
(* Settings: the directives of a result, obeyed *)

Stored == [agents : Overrides, disabled : SUBSET Skills, voice : Voices \cup {None}]
Globals == [Paths -> Selectors \cup {None, <<KeyOrder[1]>>}]
AgentChains == {<<>>} \cup {Candidates("chat", o, g) : o \in Overrides, g \in Globals}

\* An agent that has been made.
Made == [made : {TRUE}, overrides : Overrides, config : Globals, chain : AgentChains,
         all : SUBSET Skills, skills : SUBSET Skills, shared : BOOLEAN]

Directives ==
    [do : {"set_agent_override"}, path : Paths, value : Selectors \cup {None}]
        \cup [do : {"set_voice"}, voice : Voices \cup {None}]
        \cup [do : {"reload_skills"}]

ObeyStates == [session : Stored, file : Stored, agent : Made, invalid : BOOLEAN]

SaysOverride(d) == d.do = "set_agent_override"

\* What obeying may change: the overrides, which are then the same in the file and in
\* the session and invalidate the cache, the voice in both, and the agent's skills.
ObeyedBy(s, r, overriding) ==
    /\ r \in ObeyStates
    /\ r.session.disabled = s.session.disabled /\ r.file.disabled = s.file.disabled
    /\ r.agent.overrides = s.agent.overrides
    /\ s.agent.skills \cap s.session.disabled = {} => r.agent.skills \cap s.session.disabled = {}
    /\ s.session.voice = s.file.voice => r.session.voice = r.file.voice
    /\ s.invalid = TRUE \/ overriding => r.invalid = TRUE
    /\ overriding => r.session.agents = r.file.agents
    /\ s.session.agents = s.file.agents => r.session.agents = r.file.agents
    /\ ~overriding => r.session.agents = s.session.agents /\ r.file.agents = s.file.agents

LEMMA ObeySetsOverride ==
    ASSUME NEW s \in ObeyStates, NEW p \in Paths, NEW v \in Selectors \cup {None}
    PROVE  \E r \in ObeyStates :
               /\ r = SetOverride(s, p, v)
               /\ r.session.disabled = s.session.disabled /\ r.file.disabled = s.file.disabled
               /\ r.session.voice = s.session.voice /\ r.file.voice = s.file.voice
               /\ r.session.agents = r.file.agents /\ r.agent = s.agent
               /\ r.invalid = s.invalid
<1>. PICK a \in Overrides : a = [s.session.agents EXCEPT ![p] = v]
  <2>1. s.session.agents \in [Paths -> Selectors \cup {None}]
    BY DEF ObeyStates, Stored, Overrides
  <2>. QED  BY <2>1 DEF Overrides
<1>. PICK x \in Stored : x = [s.session EXCEPT !.agents = a] /\ x.agents = a
                         /\ x.disabled = s.session.disabled /\ x.voice = s.session.voice
  <2>. PICK q \in Stored : q = s.session
    BY DEF ObeyStates
  <2>1. [q EXCEPT !.agents = a] \in Stored
    BY DEF Stored
  <2>. QED  BY <2>1 DEF Stored
<1>. PICK y \in Stored : y = [s.file EXCEPT !.agents = a] /\ y.agents = a
                         /\ y.disabled = s.file.disabled /\ y.voice = s.file.voice
  <2>. PICK q \in Stored : q = s.file
    BY DEF ObeyStates
  <2>1. [q EXCEPT !.agents = a] \in Stored
    BY DEF Stored
  <2>. QED  BY <2>1 DEF Stored
<1>1. SetOverride(s, p, v) = [[s EXCEPT !.session = x] EXCEPT !.file = y]
  <2>1. s.file = [s EXCEPT !.session = x].file
    BY DEF ObeyStates
  <2>. QED  BY <2>1 DEF SetOverride
<1>2. [[s EXCEPT !.session = x] EXCEPT !.file = y] \in ObeyStates
    BY DEF ObeyStates
<1>3. PICK r \in ObeyStates : r = SetOverride(s, p, v)
    BY <1>1, <1>2
<1>4. r.session = x /\ r.file = y /\ r.agent = s.agent /\ r.invalid = s.invalid
    BY <1>1, <1>3 DEF ObeyStates
<1>5. /\ r.session.disabled = s.session.disabled /\ r.file.disabled = s.file.disabled
      /\ r.session.voice = s.session.voice /\ r.file.voice = s.file.voice
      /\ r.session.agents = r.file.agents
    BY <1>4
<1>. QED  BY <1>3, <1>4, <1>5

\* One directive.
LEMMA ObeyOne ==
    ASSUME NEW s \in ObeyStates, NEW d \in Directives
    PROVE  ObeyedBy(s, Obey(s, d), SaysOverride(d))
<1>1. CASE d \in [do : {"set_agent_override"}, path : Paths, value : Selectors \cup {None}]
  <2>1. d.do = "set_agent_override" /\ d.path \in Paths /\ d.value \in Selectors \cup {None}
    BY <1>1
  <2>2. PICK q \in ObeyStates :
        /\ q = SetOverride(s, d.path, d.value)
        /\ q.session.disabled = s.session.disabled /\ q.file.disabled = s.file.disabled
        /\ q.session.voice = s.session.voice /\ q.file.voice = s.file.voice
        /\ q.session.agents = q.file.agents /\ q.agent = s.agent
    BY <2>1, ObeySetsOverride
  <2>3. PICK r \in ObeyStates : /\ r = [q EXCEPT !.invalid = TRUE] /\ r.invalid = TRUE
                                /\ r.session = q.session /\ r.file = q.file /\ r.agent = q.agent
    <3>1. [q EXCEPT !.invalid = TRUE] \in ObeyStates
        BY DEF ObeyStates
    <3>2. /\ [q EXCEPT !.invalid = TRUE].invalid = TRUE
          /\ [q EXCEPT !.invalid = TRUE].session = q.session
          /\ [q EXCEPT !.invalid = TRUE].file = q.file
          /\ [q EXCEPT !.invalid = TRUE].agent = q.agent
        BY DEF ObeyStates
    <3>. QED  BY <3>1, <3>2
  <2>4. Obey(s, d) = r
    BY <2>1, <2>2, <2>3 DEF Obey
  <2>5. SaysOverride(d)
    BY <2>1 DEF SaysOverride
  <2>6. ObeyedBy(s, r, SaysOverride(d))
    BY <2>2, <2>3, <2>5 DEF ObeyedBy
  <2>. QED  BY <2>4, <2>6
<1>2. CASE d \in [do : {"set_voice"}, voice : Voices \cup {None}]
  <2>1. d.do = "set_voice" /\ d.voice \in Voices \cup {None}
    BY <1>2
  <2>. PICK v \in Voices \cup {None} : v = d.voice
    BY <2>1
  <2>2. PICK x \in Stored : /\ x = [s.session EXCEPT !.voice = v] /\ x.voice = v
                            /\ x.disabled = s.session.disabled /\ x.agents = s.session.agents
    <3>. PICK q \in Stored : q = s.session
        BY DEF ObeyStates
    <3>1. [q EXCEPT !.voice = v] \in Stored
        BY DEF Stored
    <3>. QED  BY <3>1 DEF Stored
  <2>3. PICK y \in Stored : /\ y = [s.file EXCEPT !.voice = v] /\ y.voice = v
                            /\ y.disabled = s.file.disabled /\ y.agents = s.file.agents
    <3>. PICK q \in Stored : q = s.file
        BY DEF ObeyStates
    <3>1. [q EXCEPT !.voice = v] \in Stored
        BY DEF Stored
    <3>. QED  BY <3>1 DEF Stored
  <2>4. PICK r \in ObeyStates : /\ r = [[s EXCEPT !.session = x] EXCEPT !.file = y]
                                /\ r.session = x /\ r.file = y /\ r.agent = s.agent
                                /\ r.invalid = s.invalid
    <3>1. [[s EXCEPT !.session = x] EXCEPT !.file = y] \in ObeyStates
        BY DEF ObeyStates
    <3>. QED  BY <3>1 DEF ObeyStates
  <2>5. Obey(s, d) = r
    <3>1. s.file = [s EXCEPT !.session = x].file
        BY DEF ObeyStates
    <3>2. SetVoice(s, v) = r
        BY <2>2, <2>3, <2>4, <3>1 DEF SetVoice
    <3>. QED  BY <2>1, <3>2 DEF Obey
  <2>6. ~SaysOverride(d)
    BY <2>1 DEF SaysOverride
  <2>7. ObeyedBy(s, r, SaysOverride(d))
    BY <2>2, <2>3, <2>4, <2>6 DEF ObeyedBy
  <2>. QED  BY <2>5, <2>7
<1>3. CASE d \in [do : {"reload_skills"}]
  <2>1. d.do = "reload_skills"
    BY <1>3
  <2>2. PICK a \in Made : /\ a = ApplyDisabled(s.agent, s.session.disabled)
                          /\ a.overrides = s.agent.overrides
                          /\ a.skills = s.agent.all \ s.session.disabled
    <3>. PICK q \in Made : q = s.agent
        BY DEF ObeyStates
    <3>1. q.all \ s.session.disabled \in SUBSET Skills
        BY DEF Made
    <3>2. PICK k \in SUBSET Skills : k = q.all \ s.session.disabled
        BY <3>1
    <3>3. [[q EXCEPT !.skills = k] EXCEPT !.shared = FALSE] \in Made
        BY DEF Made
    <3>. QED  BY <3>2, <3>3 DEF ApplyDisabled, Made
  <2>3. PICK r \in ObeyStates : /\ r = [s EXCEPT !.agent = a] /\ r.agent = a
                                /\ r.session = s.session /\ r.file = s.file
                                /\ r.invalid = s.invalid
    <3>1. [s EXCEPT !.agent = a] \in ObeyStates
        BY DEF ObeyStates
    <3>. QED  BY <3>1 DEF ObeyStates
  <2>4. Obey(s, d) = r
    BY <2>1, <2>2, <2>3 DEF Obey
  <2>5. ~SaysOverride(d)
    BY <2>1 DEF SaysOverride
  <2>6. ObeyedBy(s, r, SaysOverride(d))
    BY <2>2, <2>3, <2>5 DEF ObeyedBy
  <2>. QED  BY <2>4, <2>6
<1>. QED  BY <1>1, <1>2, <1>3 DEF Directives

-----------------------------------------------------------------------------
(* Settings: all directives of a result *)

\* A non-empty set of natural numbers has a least element.
LEMMA LeastOfSet ==
    ASSUME NEW T, T \subseteq Nat, T # {}
    PROVE  \E x \in T : \A y \in T : x <= y
<1>1. PICK x \in T : \A y \in T : ~(<<y, x>> \in OpToRel(<, Nat))
    BY NatLessThanWellFounded, WFMin
<1>2. \A y \in T : ~(y < x)
    BY <1>1 DEF OpToRel
<1>. QED  BY <1>2

\* Induction up to a bound, for a set of numbers.
LEMMA SetInduction ==
    ASSUME NEW N \in Nat, NEW G, 0 \in G, \A n \in 1 .. N : n - 1 \in G => n \in G
    PROVE  0 .. N \subseteq G
<1>. DEFINE Bad == (0 .. N) \ G
<1>1. SUFFICES ASSUME Bad # {} PROVE FALSE
    OBVIOUS
<1>2. Bad \subseteq Nat
    OBVIOUS
<1>3. PICK m \in Bad : \A y \in Bad : m <= y
    BY <1>1, <1>2, LeastOfSet
<1>4. m \in 1 .. N
    BY <1>3
<1>5. m - 1 \notin Bad
    BY <1>3, <1>4
<1>. QED  BY <1>3, <1>4, <1>5

\* f starts at z and goes from each value in S to the next by step.
IsIteration(f, N, S, z, step) ==
    /\ f \in [0 .. N -> S]
    /\ f[0] = z
    /\ \A n \in 1 .. N : f[n] = step[<<n, f[n - 1]>>]

\* A function of the numbers up to a bound can be defined by its first value and
\* by how each value follows from the one before.
LEMMA Iterates ==
    ASSUME NEW N \in Nat, NEW S, NEW z \in S, NEW step \in [(1 .. N) \X S -> S]
    PROVE  \E f : IsIteration(f, N, S, z, step)
<1>. DEFINE UpTo(f, m) == f[0] = z /\ \A n \in 1 .. m : f[n] = step[<<n, f[n - 1]>>]
            G == {m \in 0 .. N : \E f \in [0 .. m -> S] : UpTo(f, m)}
<1>1. 0 \in G
  <2>. DEFINE f == [d \in 0 .. 0 |-> z]
  <2>1. f \in [0 .. 0 -> S] /\ UpTo(f, 0)
    OBVIOUS
  <2>2. 0 \in 0 .. N
    OBVIOUS
  <2>. HIDE DEF f, UpTo
  <2>. QED  BY <2>1, <2>2
<1>2. ASSUME NEW m \in 1 .. N, m - 1 \in G PROVE m \in G
  <2>1. PICK f \in [0 .. m - 1 -> S] : UpTo(f, m - 1)
    BY <1>2
  <2>. DEFINE g == [d \in 0 .. m |-> IF d = m THEN step[<<m, f[m - 1]>>] ELSE f[d]]
  <2>2. step[<<m, f[m - 1]>>] \in S
    OBVIOUS
  <2>3. g \in [0 .. m -> S]
    BY <2>2
  <2>4. g[0] = z
    BY <2>1
  <2>5. ASSUME NEW n \in 1 .. m PROVE g[n] = step[<<n, g[n - 1]>>]
    <3>1. n - 1 \in 0 .. m /\ n - 1 # m /\ g[n - 1] = f[n - 1]
        OBVIOUS
    <3>2. CASE n = m
        BY <3>1, <3>2
    <3>3. CASE n # m
      <4>1. n \in 1 .. m - 1 /\ g[n] = f[n]
        BY <3>3
      <4>. QED  BY <2>1, <3>1, <4>1
    <3>. QED  BY <3>2, <3>3
  <2>. HIDE DEF g
  <2>6. UpTo(g, m)
    BY <2>4, <2>5
  <2>. HIDE DEF UpTo
  <2>. QED  BY <2>3, <2>6
<1>3. 0 .. N \subseteq G
  <2>. HIDE DEF G
  <2>. QED  BY <1>1, <1>2, SetInduction
<1>4. \E f \in [0 .. N -> S] : UpTo(f, N)
    BY <1>3
<1>. QED  BY <1>4 DEF IsIteration

\* f obeys the directives one by one.
IsObeying(f, start, said) ==
    /\ f \in [0 .. Len(said) -> ObeyStates]
    /\ f[0] = start
    /\ \A n \in 1 .. Len(said) : f[n] = Obey(f[n - 1], said[n])

\* Obeyed is the last value of such a function.
LEMMA ObeyedIs ==
    ASSUME NEW start \in ObeyStates, NEW said \in Seq(Directives)
    PROVE  \E f : IsObeying(f, start, said) /\ Obeyed(start, said) = f[Len(said)]
<1>. DEFINE Body(f) == [n \in 0 .. Len(said) |->
                           IF n = 0 THEN start ELSE Obey(f[n - 1], said[n])]
            after == CHOOSE f : f = Body(f)
            step == [q \in (1 .. Len(said)) \X ObeyStates |-> Obey(q[2], said[q[1]])]
<1>1. Len(said) \in Nat /\ \A n \in 1 .. Len(said) : said[n] \in Directives
    BY LenProperties, ElementOfSeq
<1>2. step \in [(1 .. Len(said)) \X ObeyStates -> ObeyStates]
  <2>1. \A q \in (1 .. Len(said)) \X ObeyStates : Obey(q[2], said[q[1]]) \in ObeyStates
    BY <1>1, ObeyOne DEF ObeyedBy
  <2>. QED  BY <2>1
<1>3. PICK f \in [0 .. Len(said) -> ObeyStates] :
            f[0] = start /\ \A n \in 1 .. Len(said) : f[n] = step[<<n, f[n - 1]>>]
  <2>1. \E f : IsIteration(f, Len(said), ObeyStates, start, step)
    <3>. HIDE DEF step
    <3>. QED  BY <1>1, <1>2, Iterates
  <2>. QED  BY <2>1 DEF IsIteration
<1>4. ASSUME NEW n \in 1 .. Len(said) PROVE f[n] = Obey(f[n - 1], said[n])
  <2>1. f[n - 1] \in ObeyStates
    <3>1. n - 1 \in 0 .. Len(said)
        BY <1>1
    <3>. QED  BY <3>1
  <2>2. <<n, f[n - 1]>> \in (1 .. Len(said)) \X ObeyStates
    BY <2>1
  <2>. QED  BY <1>3, <2>2
<1>. HIDE DEF step
<1>5. f = Body(f)
  <2>1. ASSUME NEW n \in 0 .. Len(said)
        PROVE  f[n] = IF n = 0 THEN start ELSE Obey(f[n - 1], said[n])
    <3>1. n = 0 \/ (n \in 1 .. Len(said) /\ n # 0)
        BY <1>1
    <3>2. f[0] = start
        BY <1>3
    <3>. QED  BY <1>4, <3>1, <3>2, Zenon
  <2>. QED  BY <2>1
<1>6. after = Body(after)
    BY <1>5
<1>7. Obeyed(start, said) = after[Len(said)]
    BY DEF Obeyed
<1>. HIDE DEF after
<1>8. after[0] = start /\ \A n \in 1 .. Len(said) : after[n] = Obey(after[n - 1], said[n])
  <2>1. ASSUME NEW n \in 0 .. Len(said)
        PROVE  after[n] = Body(after)[n]
    BY <1>6
  <2>2. \A n \in 0 .. Len(said) : after[n] = IF n = 0 THEN start ELSE Obey(after[n - 1], said[n])
    BY <2>1
  <2>3. 0 \in 0 .. Len(said) /\ \A n \in 1 .. Len(said) : n \in 0 .. Len(said) /\ n # 0
    BY <1>1
  <2>. QED  BY <2>2, <2>3, Zenon
<1>9. \A n \in 0 .. Len(said) : after[n] = f[n]
  <2>. DEFINE G == {n \in 0 .. Len(said) : after[n] = f[n]}
  <2>1. 0 \in G
    BY <1>1, <1>3, <1>8
  <2>2. ASSUME NEW n \in 1 .. Len(said), n - 1 \in G PROVE n \in G
    <3>1. after[n - 1] = f[n - 1]
        BY <2>2
    <3>2. after[n] = f[n]
        BY <1>4, <1>8, <3>1, Zenon
    <3>3. n \in 0 .. Len(said)
        BY <1>1
    <3>. QED  BY <3>2, <3>3
  <2>3. 0 .. Len(said) \subseteq G
    <3>. HIDE DEF G
    <3>. QED  BY <1>1, <2>1, <2>2, SetInduction
  <2>. QED  BY <2>3
<1>10. Obeyed(start, said) = f[Len(said)]
    BY <1>1, <1>7, <1>9
<1>. QED  BY <1>3, <1>4, <1>10 DEF IsObeying

\* A result that sets an override.
Overriding(said) == \E i \in 1 .. Len(said) : SaysOverride(said[i])

\* What obeying a whole result may change.
LEMMA ObeyedAll ==
    ASSUME NEW start \in ObeyStates, NEW said \in Seq(Directives)
    PROVE  ObeyedBy(start, Obeyed(start, said), Overriding(said))
<1>1. PICK f : IsObeying(f, start, said) /\ Obeyed(start, said) = f[Len(said)]
    BY ObeyedIs
<1>2. Len(said) \in Nat /\ \A n \in 1 .. Len(said) : said[n] \in Directives
    BY LenProperties, ElementOfSeq
<1>. DEFINE Over(n) == \E i \in 1 .. n : SaysOverride(said[i])
            G == {n \in 0 .. Len(said) : ObeyedBy(start, f[n], Over(n))}
<1>3. 0 \in G
  <2>1. f[0] = start /\ 0 \in 0 .. Len(said) /\ ~Over(0)
    BY <1>1, <1>2 DEF IsObeying
  <2>. QED  BY <2>1 DEF ObeyedBy
<1>4. ASSUME NEW n \in 1 .. Len(said), n - 1 \in G PROVE n \in G
  <2>1. n \in 0 .. Len(said) /\ n - 1 \in 0 .. Len(said)
    BY <1>2
  <2>2. PICK s \in ObeyStates : s = f[n - 1] /\ ObeyedBy(start, s, Over(n - 1))
    BY <1>1, <1>4, <2>1 DEF IsObeying
  <2>3. PICK d \in Directives : d = said[n]
    BY <1>2
  <2>4. PICK r \in ObeyStates : r = f[n] /\ ObeyedBy(s, r, SaysOverride(d))
    <3>1. f[n] = Obey(s, d)
        BY <1>1, <2>2, <2>3 DEF IsObeying
    <3>2. ObeyedBy(s, f[n], SaysOverride(d))
        BY <3>1, ObeyOne
    <3>. QED  BY <3>2 DEF ObeyedBy
  <2>5. Over(n) <=> (Over(n - 1) \/ SaysOverride(d))
    BY <1>2, <2>3
  <2>6. ObeyedBy(start, r, Over(n))
    <3>. HIDE DEF Over
    <3>1. s.invalid = TRUE => r.invalid = TRUE
        BY <2>4 DEF ObeyedBy
    <3>. QED  BY <2>2, <2>4, <2>5, <3>1 DEF ObeyedBy
  <2>. QED  BY <2>1, <2>4, <2>6
<1>5. Len(said) \in G
  <2>1. 0 .. Len(said) \subseteq G
    <3>. HIDE DEF G
    <3>. QED  BY <1>2, <1>3, <1>4, SetInduction
  <2>2. Len(said) \in 0 .. Len(said)
    BY <1>2
  <2>. QED  BY <2>1, <2>2
<1>. QED  BY <1>1, <1>5 DEF Overriding

-----------------------------------------------------------------------------
(* Settings: the inductive invariant *)

Busy == {"model", "config", "script", "creator"}
Stands == {"new", "remote", "done"} \cup Busy

\* A turn that a skill may serve has a made agent, and a script the file it has read.
\* Only a turn in a skill can have directives that wait.
TurnOK(t) ==
    /\ {"at", "agent", "read", "said", "chain"} \subseteq DOMAIN turn[t]
    /\ turn[t].at \in Stands /\ turn[t].said \in Seq(Directives)
    /\ turn[t].at = "new" => turn[t].said = <<>>
    /\ turn[t].at \in Busy => turn[t].agent \in Turns /\ agent[turn[t].agent] \in Made
    /\ turn[t].at = "script" => turn[t].read \in Stored

StoreType ==
    /\ file \in Stored /\ session \in Stored
    /\ voiceFile \in Voices \cup {None}
    /\ configFile \in Globals /\ config \in Globals
    /\ Bundled \subseteq disk /\ disk \subseteq Skills
    /\ asked \subseteq Skills /\ drift \subseteq {"raced", "file only", "unheard"}

AgentsType ==
    /\ cache \in [Threads -> Turns \cup {None}]
    /\ agent \in [Turns -> Made \cup {NoAgent}]
    /\ DOMAIN turn = Turns

\* A cached agent is the agent of a turn that is no longer new, was made with the
\* overrides in force and knows no disabled skill.
IsCurrent(a) ==
    a \in Made /\ a.overrides = session.agents /\ a.skills \cap session.disabled = {}

CacheOK ==
    \A h \in Threads : cache[h] # None => turn[cache[h]].at # "new" /\ IsCurrent(agent[cache[h]])

Pending == \E t \in Turns : Overriding(turn[t].said)

\* Where file and session agree: the overrides when none waits to be taken over, the
\* voice always; and the disabled skills are those asked for.
Agreed ==
    /\ drift = {} /\ ~Pending => session.agents = file.agents
    /\ "raced" \notin drift => session.voice = file.voice /\ file.disabled = asked

SettingsInv ==
    /\ StoreType /\ AgentsType
    /\ \A t \in Turns : TurnOK(t)
    /\ CacheOK /\ Agreed

\* The stored settings and the agents stay as they are, and one turn goes on.
LEMMA TurnGoesOn ==
    ASSUME SettingsInv, NEW t \in Turns, NEW r, turn' = [turn EXCEPT ![t] = r],
           {"at", "agent", "read", "said", "chain"} \subseteq DOMAIN r,
           r.at \in Stands \ {"new"}, r.agent = turn[t].agent,
           r.at \in Busy => turn[t].at \in Busy,
           r.said = turn[t].said, r.at = "script" => r.read \in Stored,
           UNCHANGED <<file, voiceFile, session, configFile, config, disk, cache, agent,
                       asked, drift>>
    PROVE  SettingsInv'
<1>1. turn'[t] = r /\ \A u \in Turns : u # t => turn'[u] = turn[u]
    BY DEF SettingsInv, AgentsType
<1>2. StoreType' /\ AgentsType'
    BY DEF SettingsInv, StoreType, AgentsType
<1>3. ASSUME NEW u \in Turns PROVE TurnOK(u)'
    BY <1>1 DEF SettingsInv, TurnOK
<1>4. CacheOK'
  <2>1. \A u \in Turns : turn[u].at # "new" => turn'[u].at # "new"
    BY <1>1
  <2>. QED  BY <2>1 DEF SettingsInv, AgentsType, CacheOK, IsCurrent
<1>5. Pending' <=> Pending
  <2>1. \A u \in Turns : turn'[u].said = turn[u].said
    BY <1>1
  <2>. QED  BY <2>1 DEF Pending
<1>6. Agreed'
    BY <1>5 DEF SettingsInv, Agreed
<1>. QED  BY <1>2, <1>3, <1>4, <1>6 DEF SettingsInv

LEMMA CallSkillStep ==
    ASSUME SettingsInv, NEW t \in Turns, NEW s, NEW at \in {"config", "creator"},
           CallSkill(t, s, at)
    PROVE  SettingsInv'
<1>. DEFINE r == [turn[t] EXCEPT !.at = at]
<1>1. /\ turn[t].at = "model" /\ turn' = [turn EXCEPT ![t] = r]
      /\ UNCHANGED <<file, voiceFile, session, configFile, config, disk, cache, agent,
                     asked, drift>>
    BY DEF CallSkill
<1>2. {"at", "agent", "read", "said", "chain"} \subseteq DOMAIN turn[t]
    BY DEF SettingsInv, TurnOK
<1>3. /\ {"at", "agent", "read", "said", "chain"} \subseteq DOMAIN r
      /\ r.at = at /\ r.agent = turn[t].agent /\ r.said = turn[t].said
    BY <1>2
<1>. HIDE DEF r
<1>4. at \in Stands \ {"new"} /\ at # "script" /\ turn[t].at \in Busy
    BY <1>1 DEF Stands, Busy
<1>. QED  BY <1>1, <1>3, <1>4, TurnGoesOn

LEMMA EndTurnStep ==
    ASSUME SettingsInv, NEW t \in Turns, EndTurn(t)
    PROVE  SettingsInv'
<1>. DEFINE r == [turn[t] EXCEPT !.at = "done"]
<1>1. /\ turn' = [turn EXCEPT ![t] = r]
      /\ UNCHANGED <<file, voiceFile, session, configFile, config, disk, cache, agent,
                     asked, drift>>
    BY DEF EndTurn
<1>2. {"at", "agent", "read", "said", "chain"} \subseteq DOMAIN turn[t]
    BY DEF SettingsInv, TurnOK
<1>3. /\ {"at", "agent", "read", "said", "chain"} \subseteq DOMAIN r
      /\ r.at = "done" /\ r.agent = turn[t].agent /\ r.said = turn[t].said
    BY <1>2
<1>. HIDE DEF r
<1>4. "done" \in Stands \ {"new"} /\ "done" \notin Busy /\ "done" # "script"
    BY DEF Stands, Busy
<1>. QED  BY <1>1, <1>3, <1>4, TurnGoesOn

LEMMA ScriptReadsStep ==
    ASSUME SettingsInv, NEW t \in Turns, ScriptReads(t)
    PROVE  SettingsInv'
<1>. DEFINE r == [turn[t] EXCEPT !.at = "script", !.read = file]
<1>1. /\ turn[t].at = "config" /\ turn' = [turn EXCEPT ![t] = r]
      /\ UNCHANGED <<file, voiceFile, session, configFile, config, disk, cache, agent,
                     asked, drift>>
  <2>1. turn' = [turn EXCEPT ![t] = [[turn[t] EXCEPT !.at = "script"] EXCEPT !.read = file]]
    BY DEF ScriptReads, SettingsInv, AgentsType
  <2>. QED  BY <2>1 DEF ScriptReads
<1>2. {"at", "agent", "read", "said", "chain"} \subseteq DOMAIN turn[t]
    BY DEF SettingsInv, TurnOK
<1>3. /\ {"at", "agent", "read", "said", "chain"} \subseteq DOMAIN r
      /\ r.at = "script" /\ r.agent = turn[t].agent /\ r.said = turn[t].said /\ r.read = file
    BY <1>2
<1>. HIDE DEF r
<1>4. "script" \in Stands \ {"new"} /\ turn[t].at \in Busy /\ file \in Stored
    BY <1>1 DEF Stands, Busy, SettingsInv, StoreType
<1>. QED  BY <1>1, <1>3, <1>4, TurnGoesOn

LEMMA StartTurnStep ==
    ASSUME SettingsInv, NEW t \in Turns, NEW h \in Threads, NEW k \in Kinds, StartTurn(t, h, k)
    PROVE  SettingsInv'
<1>. DEFINE id == IF cache[h] = None THEN t ELSE cache[h]
            mine == IF cache[h] = None THEN MakeAgent ELSE agent[cache[h]]
<1>1. id \in Turns /\ (cache[h] # None => id = cache[h])
    BY DEF SettingsInv, AgentsType
<1>2. PICK a : /\ IsCurrent(a)
               /\ agent' = [agent EXCEPT ![id] = a]
  <2>1. mine \in Made /\ IsCurrent(mine)
    <3>1. CASE cache[h] = None
      <4>1. /\ session.agents \in Overrides /\ config \in Globals
            /\ disk \ session.disabled \in SUBSET Skills
        BY DEF SettingsInv, StoreType, Stored
      <4>2. <<>> \in AgentChains
        BY DEF AgentChains
      <4>3. MakeAgent \in Made
        BY <4>1, <4>2 DEF Made, MakeAgent
      <4>4. MakeAgent.overrides = session.agents /\ MakeAgent.skills = disk \ session.disabled
        BY DEF MakeAgent
      <4>. QED  BY <3>1, <4>3, <4>4 DEF IsCurrent
    <3>2. CASE cache[h] # None
        BY <3>2 DEF SettingsInv, CacheOK, IsCurrent
    <3>. QED  BY <3>1, <3>2
  <2>2. IsCurrent(EnsureLocal(mine))
    <3>1. CASE mine.chain # <<>>
        BY <2>1, <3>1 DEF EnsureLocal
    <3>2. CASE mine.chain = <<>>
      <4>1. PICK c \in AgentChains : c = Candidates("chat", session.agents, config)
        <5>1. session.agents \in Overrides /\ config \in Globals
            BY DEF SettingsInv, StoreType, Stored
        <5>. QED  BY <5>1 DEF AgentChains
      <4>2. PICK m \in Made : m = mine
        BY <2>1
      <4>3. EnsureLocal(mine) = [m EXCEPT !.chain = c]
        BY <3>2, <4>1, <4>2 DEF EnsureLocal
      <4>4. [m EXCEPT !.chain = c] \in Made
        BY DEF Made
      <4>5. /\ [m EXCEPT !.chain = c].overrides = m.overrides
            /\ [m EXCEPT !.chain = c].skills = m.skills
        BY DEF Made
      <4>. QED  BY <2>1, <4>2, <4>3, <4>4, <4>5 DEF IsCurrent
    <3>. QED  BY <3>1, <3>2
  <2>. HIDE DEF id, mine
  <2>3. agent' = [agent EXCEPT ![id] = mine] \/ agent' = [agent EXCEPT ![id] = EnsureLocal(mine)]
    BY DEF StartTurn, id, mine
  <2>. QED  BY <2>1, <2>2, <2>3
<1>. HIDE DEF id, mine
<1>3. /\ turn[t].at = "new" /\ cache' = [cache EXCEPT ![h] = id]
      /\ UNCHANGED <<file, voiceFile, session, configFile, config, disk, asked, drift>>
    BY DEF StartTurn, id
<1>4. PICK r : /\ turn' = [turn EXCEPT ![t] = r]
               /\ {"at", "agent", "read", "said", "chain"} \subseteq DOMAIN r
               /\ r.at \in {"model", "remote"} /\ r.agent = id /\ r.said = <<>>
  <2>. DEFINE local == IsLocalTurn(k, session.agents, mine.config)
              at == IF local THEN "model" ELSE "remote"
              name == DefaultModelName(k, session.agents, mine.config)
              chain == IF local THEN Candidates(k, session.agents, config) ELSE <<>>
              fresh == mine.config = config
  <2>0. at \in {"model", "remote"}
    OBVIOUS
  <2>1. turn' = [turn EXCEPT ![t] =
                    [NoTurn EXCEPT !.at = at, !.kind = k, !.agent = id, !.name = name,
                                   !.chain = chain, !.fresh = fresh]]
    BY Zenon DEF StartTurn, id, mine
  <2>. HIDE DEF at, name, chain, fresh
  <2>2. PICK r : r = [NoTurn EXCEPT !.at = at, !.kind = k, !.agent = id, !.name = name,
                                    !.chain = chain, !.fresh = fresh]
    OBVIOUS
  <2>3. /\ {"at", "agent", "read", "said", "chain"} \subseteq DOMAIN r
        /\ r.at = at /\ r.agent = id /\ r.said = <<>>
    BY <2>2 DEF NoTurn
  <2>. QED  BY <2>0, <2>1, <2>2, <2>3
<1>5. turn'[t] = r /\ \A u \in Turns : u # t => turn'[u] = turn[u]
    BY <1>4 DEF SettingsInv, AgentsType
<1>6. agent'[id] = a /\ \A u \in Turns : u # id => agent'[u] = agent[u]
    BY <1>1, <1>2 DEF SettingsInv, AgentsType
<1>7. StoreType'
    BY <1>3 DEF SettingsInv, StoreType
<1>8. AgentsType'
    BY <1>1, <1>2, <1>3, <1>4 DEF SettingsInv, AgentsType, IsCurrent
<1>9. ASSUME NEW u \in Turns PROVE TurnOK(u)'
  <2>1. \A v \in Turns : agent[v] \in Made => agent'[v] \in Made
    BY <1>2, <1>6 DEF IsCurrent
  <2>2. CASE u = t
    <3>1. r.at \in Stands /\ r.at # "new" /\ r.at # "script" /\ <<>> \in Seq(Directives)
        BY <1>4, EmptySeq DEF Stands, Busy
    <3>2. agent'[id] \in Made
        BY <1>2, <1>6 DEF IsCurrent
    <3>. QED  BY <1>1, <1>4, <1>5, <2>2, <3>1, <3>2 DEF TurnOK
  <2>3. CASE u # t
    BY <1>5, <2>1, <2>3 DEF SettingsInv, TurnOK
  <2>. QED  BY <2>2, <2>3
<1>10. CacheOK'
  <2>1. ASSUME NEW g \in Threads, cache'[g] # None
        PROVE  turn'[cache'[g]].at # "new" /\ IsCurrent(agent'[cache'[g]])
    <3>1. \A u \in Turns : turn[u].at # "new" => turn'[u].at # "new"
        BY <1>4, <1>5
    <3>2. CASE cache'[g] = id
      <4>1. turn'[id].at # "new"
        <5>1. CASE cache[h] = None
            BY <1>4, <1>5, <5>1 DEF id
        <5>2. CASE cache[h] # None
            BY <1>1, <3>1, <5>2 DEF SettingsInv, CacheOK
        <5>. QED  BY <5>1, <5>2
      <4>. QED  BY <1>2, <1>6, <3>2, <4>1
    <3>3. CASE cache'[g] # id
      <4>1. cache'[g] = cache[g] /\ cache[g] \in Turns
        BY <1>3, <2>1, <3>3 DEF SettingsInv, AgentsType
      <4>. QED  BY <1>6, <2>1, <3>1, <3>3, <4>1 DEF SettingsInv, CacheOK
    <3>. QED  BY <3>2, <3>3
  <2>2. session' = session
    BY <1>3
  <2>. QED  BY <2>1, <2>2 DEF CacheOK, IsCurrent
<1>11. Pending' <=> Pending
  <2>1. turn[t].said = <<>> /\ turn'[t].said = <<>>
    BY <1>3, <1>4, <1>5 DEF SettingsInv, TurnOK
  <2>2. \A u \in Turns : turn'[u].said = turn[u].said
    BY <1>5, <2>1
  <2>. QED  BY <2>2 DEF Pending
<1>12. Agreed'
    BY <1>3, <1>11 DEF SettingsInv, Agreed
<1>. QED  BY <1>7, <1>8, <1>9, <1>10, <1>12 DEF SettingsInv

-----------------------------------------------------------------------------
(* Settings: the script *)

\* A concatenation overrides when one of its parts does.
LEMMA OverridingBoth ==
    ASSUME NEW s \in Seq(Directives), NEW u \in Seq(Directives), Overriding(s) \/ Overriding(u)
    PROVE  Overriding(s \o u)
<1>1. Len(s) \in Nat /\ Len(u) \in Nat /\ Len(s \o u) = Len(s) + Len(u)
    BY LenProperties, ConcatProperties
<1>2. CASE Overriding(s)
  <2>1. PICK i \in 1 .. Len(s) : SaysOverride(s[i])
    BY <1>2 DEF Overriding
  <2>2. i \in 1 .. Len(s \o u) /\ (s \o u)[i] = s[i]
    BY <1>1, ConcatProperties
  <2>. QED  BY <2>1, <2>2 DEF Overriding
<1>3. CASE Overriding(u)
  <2>1. PICK i \in 1 .. Len(u) : SaysOverride(u[i])
    BY <1>3 DEF Overriding
  <2>2. /\ Len(s) + i \in 1 .. Len(s) + Len(u) /\ ~(Len(s) + i <= Len(s))
        /\ Len(s) + i - Len(s) = i
    BY <1>1
  <2>3. (s \o u)[Len(s) + i] = u[i]
    BY <2>2, ConcatProperties
  <2>. QED  BY <1>1, <2>1, <2>2, <2>3 DEF Overriding
<1>. QED  BY <1>2, <1>3

\* The script replaces the file and says what it has done.
LEMMA ScriptWritesStep ==
    ASSUME SettingsInv, NEW t \in Turns, NEW new \in Stored, NEW ds \in Seq(Directives),
           ScriptWrites(t, new, ds),
           voiceFile' \in Voices \cup {None}, configFile' \in Globals, asked' \subseteq Skills,
           drift \subseteq drift', drift' \subseteq {"raced", "file only", "unheard"},
           new.agents = file.agents \/ drift' # {} \/ Overriding(ds),
           "raced" \notin drift' =>
               new.voice = file.voice /\ (file.disabled = asked => new.disabled = asked')
    PROVE  SettingsInv'
<1>. PICK said \in Seq(Directives) : said = turn[t].said
    BY DEF SettingsInv, TurnOK
<1>1. PICK r : /\ turn' = [turn EXCEPT ![t] = r]
               /\ {"at", "agent", "read", "said", "chain"} \subseteq DOMAIN r
               /\ r.at = "config" /\ r.agent = turn[t].agent /\ r.said = said \o ds
  <2>1. {"at", "agent", "read", "said", "chain"} \subseteq DOMAIN turn[t]
    BY DEF SettingsInv, TurnOK
  <2>. DEFINE r == [[[turn[t] EXCEPT !.at = "config"] EXCEPT !.read = None]
                        EXCEPT !.said = said \o ds]
  <2>2. turn' = [turn EXCEPT ![t] = r]
    BY <2>1 DEF ScriptWrites, SettingsInv, AgentsType
  <2>3. /\ {"at", "agent", "read", "said", "chain"} \subseteq DOMAIN r
        /\ r.at = "config" /\ r.agent = turn[t].agent /\ r.said = said \o ds
    BY <2>1
  <2>. HIDE DEF r
  <2>. QED  BY <2>2, <2>3
<1>2. /\ turn[t].at = "script" /\ file' = new
      /\ UNCHANGED <<session, config, disk, cache, agent>>
    BY DEF ScriptWrites
<1>3. turn'[t] = r /\ \A u \in Turns : u # t => turn'[u] = turn[u]
    BY <1>1 DEF SettingsInv, AgentsType
<1>4. StoreType' /\ AgentsType'
    BY <1>1, <1>2 DEF SettingsInv, StoreType, AgentsType
<1>5. ASSUME NEW u \in Turns PROVE TurnOK(u)'
  <2>1. CASE u = t
    <3>1. said \o ds \in Seq(Directives)
        BY ConcatProperties
    <3>2. turn[t].at \in Busy /\ r.at \in Stands /\ r.at # "new" /\ r.at # "script"
        BY <1>1, <1>2 DEF Stands, Busy
    <3>. QED  BY <1>1, <1>2, <1>3, <2>1, <3>1, <3>2 DEF SettingsInv, TurnOK
  <2>2. CASE u # t
    BY <1>2, <1>3, <2>2 DEF SettingsInv, TurnOK
  <2>. QED  BY <2>1, <2>2
<1>6. CacheOK'
  <2>1. \A u \in Turns : turn[u].at # "new" => turn'[u].at # "new"
    BY <1>1, <1>3
  <2>. QED  BY <1>2, <2>1 DEF SettingsInv, AgentsType, CacheOK, IsCurrent
<1>7. Pending \/ Overriding(ds) => Pending'
  <2>1. Overriding(ds) \/ Overriding(said) => Overriding(said \o ds)
    BY OverridingBoth
  <2>2. turn'[t].said = said \o ds
    BY <1>1, <1>3
  <2>. QED  BY <1>3, <2>1, <2>2 DEF Pending
<1>8. Agreed'
  <2>1. ASSUME drift' = {}, ~Pending' PROVE session'.agents = file'.agents
    BY <1>2, <1>7, <2>1 DEF SettingsInv, Agreed
  <2>2. ASSUME "raced" \notin drift'
        PROVE  session'.voice = file'.voice /\ file'.disabled = asked'
    BY <1>2, <2>2 DEF SettingsInv, Agreed
  <2>. QED  BY <2>1, <2>2 DEF Agreed
<1>. QED  BY <1>4, <1>5, <1>6, <1>8 DEF SettingsInv

\* A stored configuration with other disabled skills.
LEMMA StoredWithout ==
    ASSUME NEW s \in Stored, NEW d \in SUBSET Skills
    PROVE  /\ [s EXCEPT !.disabled = d] \in Stored
           /\ [s EXCEPT !.disabled = d].voice = s.voice
           /\ [s EXCEPT !.disabled = d].agents = s.agents
           /\ [s EXCEPT !.disabled = d].disabled = d
BY DEF Stored

LEMMA ScriptAgentStep ==
    ASSUME SettingsInv, NEW t \in Turns, NEW p \in Paths, NEW v \in Selectors \cup {None},
           ScriptAgent(t, p, v) \/ ScriptSession(t, p, v)
    PROVE  SettingsInv'
<1>. PICK read \in Stored : read = turn[t].read
    BY DEF ScriptAgent, ScriptSession, ScriptWrites, SettingsInv, TurnOK
<1>. PICK a \in Overrides : a = [read.agents EXCEPT ![p] = v]
    BY DEF Stored, Overrides
<1>. PICK new \in Stored : /\ new = [read EXCEPT !.agents = a]
                           /\ new.voice = read.voice /\ new.disabled = read.disabled
  <2>1. [read EXCEPT !.agents = a] \in Stored
    BY DEF Stored
  <2>. QED  BY <2>1 DEF Stored
<1>. DEFINE d == [do |-> "set_agent_override", path |-> p, value |-> v]
<1>1. /\ voiceFile' \in Voices \cup {None} /\ configFile' \in Globals /\ asked' = asked
      /\ asked' \subseteq Skills
    BY DEF ScriptAgent, ScriptSession, SettingsInv, StoreType
<1>2. /\ drift' = drift \cup Raced(t) \/ drift' = drift \cup Raced(t) \cup {"file only"}
      /\ Raced(t) \subseteq {"raced"} /\ (read # file => "raced" \in Raced(t))
    BY DEF ScriptAgent, ScriptSession, Raced
<1>3. drift \subseteq drift' /\ drift' \subseteq {"raced", "file only", "unheard"}
    BY <1>2 DEF SettingsInv, StoreType
<1>4. "raced" \notin drift' =>
            new.voice = file.voice /\ (file.disabled = asked => new.disabled = asked')
    BY <1>1, <1>2
<1>5. CASE ScriptAgent(t, p, v)
  <2>1. <<d>> \in Seq(Directives) /\ Overriding(<<d>>)
    <3>1. d \in Directives /\ SaysOverride(d)
        BY DEF Directives, SaysOverride
    <3>. HIDE DEF d
    <3>. QED  BY <3>1 DEF Overriding
  <2>2. ScriptWrites(t, new, <<d>>)
    BY <1>5 DEF ScriptAgent
  <2>. HIDE DEF d
  <2>. QED  BY <1>1, <1>3, <1>4, <2>1, <2>2, ScriptWritesStep
<1>6. CASE ScriptSession(t, p, v)
  <2>1. <<>> \in Seq(Directives) /\ drift' # {}
    BY <1>6, EmptySeq DEF ScriptSession
  <2>2. ScriptWrites(t, new, <<>>)
    BY <1>6 DEF ScriptSession
  <2>. QED  BY <1>1, <1>3, <1>4, <2>1, <2>2, ScriptWritesStep
<1>. QED  BY <1>5, <1>6

LEMMA ScriptSkillsStep ==
    ASSUME SettingsInv, NEW t \in Turns, NEW d \in SUBSET Skills, NEW writes \in BOOLEAN,
           writes = FALSE => d = turn[t].read.disabled,
           ScriptSkills(t, d, writes)
    PROVE  SettingsInv'
<1>. DEFINE ds == <<[do |-> "reload_skills"]>>
<1>0. ds \in Seq(Directives)
  <2>1. [do |-> "reload_skills"] \in Directives
    BY DEF Directives
  <2>. QED  BY <2>1
<1>. PICK read \in Stored : read = turn[t].read
    BY DEF ScriptSkills, ScriptWrites, SettingsInv, TurnOK
<1>1. /\ voiceFile' = voiceFile /\ configFile' = configFile
      /\ asked' = IF d = read.disabled THEN asked ELSE d
    BY DEF ScriptSkills
<1>2. /\ voiceFile' \in Voices \cup {None} /\ configFile' \in Globals /\ asked' \subseteq Skills
    BY <1>1 DEF SettingsInv, StoreType
<1>3. CASE writes = TRUE
  <2>1. PICK new \in Stored : /\ new = [read EXCEPT !.disabled = d] /\ new.voice = read.voice
                              /\ new.agents = read.agents /\ new.disabled = d
    BY StoredWithout
  <2>2. drift' = drift \cup Raced(t)
    BY <1>3 DEF ScriptSkills
  <2>3. Raced(t) \subseteq {"raced"} /\ (read # file => "raced" \in Raced(t))
    BY DEF Raced
  <2>4. drift \subseteq drift' /\ drift' \subseteq {"raced", "file only", "unheard"}
    BY <2>2, <2>3 DEF SettingsInv, StoreType
  <2>5. ScriptWrites(t, new, ds)
    BY <1>3, <2>1 DEF ScriptSkills
  <2>6. /\ new.agents = file.agents \/ drift' # {} \/ Overriding(ds)
        /\ "raced" \notin drift' =>
                new.voice = file.voice /\ (file.disabled = asked => new.disabled = asked')
    BY <1>1, <2>1, <2>2, <2>3
  <2>. HIDE DEF ds
  <2>. QED  BY <1>0, <1>2, <2>4, <2>5, <2>6, ScriptWritesStep
<1>4. CASE writes = FALSE
  <2>1. ScriptWrites(t, file, ds) /\ drift' = drift /\ asked' = asked
    BY <1>1, <1>4 DEF ScriptSkills
  <2>2. file \in Stored /\ drift' \subseteq {"raced", "file only", "unheard"}
    BY <2>1 DEF SettingsInv, StoreType
  <2>. HIDE DEF ds
  <2>. QED  BY <1>0, <1>2, <2>1, <2>2, ScriptWritesStep
<1>. QED  BY <1>3, <1>4

LEMMA ScriptVoiceStep ==
    ASSUME SettingsInv, NEW t \in Turns, NEW v \in Voices \cup {None}, ScriptVoice(t, v)
    PROVE  SettingsInv'
<1>. DEFINE ds == <<[do |-> "set_voice", voice |-> v]>>
<1>1. ds \in Seq(Directives)
  <2>1. [do |-> "set_voice", voice |-> v] \in Directives
    BY DEF Directives
  <2>. QED  BY <2>1
<1>2. ScriptWrites(t, file, ds) /\ voiceFile' = v /\ UNCHANGED <<configFile, asked, drift>>
    BY DEF ScriptVoice
<1>3. /\ file \in Stored /\ configFile' \in Globals /\ asked' \subseteq Skills
      /\ drift' \subseteq {"raced", "file only", "unheard"}
    BY <1>2 DEF SettingsInv, StoreType
<1>. HIDE DEF ds
<1>. QED  BY <1>1, <1>2, <1>3, ScriptWritesStep

LEMMA ScriptSetStep ==
    ASSUME SettingsInv, NEW t \in Turns, NEW p \in Paths, NEW v \in Selectors,
           ScriptSet(t, p, v)
    PROVE  SettingsInv'
<1>1. /\ ScriptWrites(t, file, <<>>) /\ configFile' = [configFile EXCEPT ![p] = v]
      /\ UNCHANGED <<voiceFile, asked, drift>>
    BY DEF ScriptSet
<1>2. /\ file \in Stored /\ configFile' \in Globals /\ asked' \subseteq Skills
      /\ voiceFile' \in Voices \cup {None} /\ drift' \subseteq {"raced", "file only", "unheard"}
    BY <1>1 DEF SettingsInv, StoreType, Globals
<1>3. <<>> \in Seq(Directives)
    BY EmptySeq
<1>. QED  BY <1>1, <1>2, <1>3, ScriptWritesStep

LEMMA ScriptStep ==
    ASSUME SettingsInv, NEW t \in Turns, Script(t)
    PROVE  SettingsInv'
<1>1. ASSUME NEW s \in Skills, ScriptSkills(t, turn[t].read.disabled \cup {s},
                                            s \notin turn[t].read.disabled)
      PROVE  SettingsInv'
  <2>1. turn[t].read \in Stored
    BY <1>1 DEF ScriptSkills, ScriptWrites, SettingsInv, TurnOK
  <2>2. turn[t].read.disabled \cup {s} \in SUBSET Skills
    BY <2>1 DEF Stored
  <2>3. PICK w \in BOOLEAN : w = (s \notin turn[t].read.disabled)
    OBVIOUS
  <2>4. w = FALSE => turn[t].read.disabled \cup {s} = turn[t].read.disabled
    BY <2>3
  <2>. QED  BY <1>1, <2>2, <2>3, <2>4, ScriptSkillsStep
<1>2. ASSUME NEW s \in Skills, ScriptSkills(t, turn[t].read.disabled \ {s}, TRUE)
      PROVE  SettingsInv'
  <2>1. turn[t].read \in Stored
    BY <1>2 DEF ScriptSkills, ScriptWrites, SettingsInv, TurnOK
  <2>2. turn[t].read.disabled \ {s} \in SUBSET Skills
    BY <2>1 DEF Stored
  <2>. QED  BY <1>2, <2>2, ScriptSkillsStep
<1>. QED  BY <1>1, <1>2, ScriptAgentStep, ScriptVoiceStep, ScriptSetStep DEF Script

-----------------------------------------------------------------------------
(* Settings: the bot, restarts, and the theorems *)

LEMMA ConfigReturnsStep ==
    ASSUME SettingsInv, NEW t \in Turns, ConfigReturns(t)
    PROVE  SettingsInv'
<1>. PICK id \in Turns : id = turn[t].agent /\ agent[id] \in Made
    BY DEF ConfigReturns, SettingsInv, TurnOK, Busy
<1>. PICK said \in Seq(Directives) : said = turn[t].said
    BY DEF SettingsInv, TurnOK
<1>. PICK start \in ObeyStates : start = [session |-> session, file |-> file,
                                          agent |-> agent[id], invalid |-> FALSE]
    BY DEF ObeyStates, SettingsInv, StoreType
<1>. PICK new \in ObeyStates : /\ new = Obeyed(start, said)
                               /\ ObeyedBy(start, new, Overriding(said))
  <2>1. ObeyedBy(start, Obeyed(start, said), Overriding(said))
    BY ObeyedAll
  <2>2. Obeyed(start, said) \in ObeyStates
    BY <2>1 DEF ObeyedBy
  <2>. QED  BY <2>1, <2>2
<1>1. /\ turn[t].at = "config"
      /\ session' = new.session /\ file' = new.file
      /\ agent' = [agent EXCEPT ![id] = new.agent]
      /\ cache' = Invalidate(new.invalid)
      /\ UNCHANGED <<voiceFile, configFile, config, disk, asked, drift>>
    BY DEF ConfigReturns
<1>2. PICK r : /\ turn' = [turn EXCEPT ![t] = r]
               /\ {"at", "agent", "read", "said", "chain"} \subseteq DOMAIN r
               /\ r.at = "model" /\ r.agent = id /\ r.said = <<>>
  <2>1. {"at", "agent", "read", "said", "chain"} \subseteq DOMAIN turn[t]
    BY DEF SettingsInv, TurnOK
  <2>. DEFINE r == [[turn[t] EXCEPT !.at = "model"] EXCEPT !.said = <<>>]
  <2>2. turn' = [turn EXCEPT ![t] = r]
    BY <2>1 DEF ConfigReturns, SettingsInv, AgentsType
  <2>3. /\ {"at", "agent", "read", "said", "chain"} \subseteq DOMAIN r
        /\ r.at = "model" /\ r.agent = turn[t].agent /\ r.said = <<>>
    BY <2>1
  <2>. HIDE DEF r
  <2>. QED  BY <2>2, <2>3
<1>3. turn'[t] = r /\ \A u \in Turns : u # t => turn'[u] = turn[u]
    BY <1>2 DEF SettingsInv, AgentsType
<1>4. /\ new.session \in Stored /\ new.file \in Stored /\ new.agent \in Made
      /\ start.session = session /\ start.file = file /\ start.agent = agent[id]
    BY DEF ObeyStates
<1>5. agent'[id] = new.agent /\ \A u \in Turns : u # id => agent'[u] = agent[u]
    BY <1>1 DEF SettingsInv, AgentsType
<1>6. /\ cache' \in [Threads -> Turns \cup {None}]
      /\ cache' = cache \/ \A h \in Threads : cache'[h] = None
    BY <1>1 DEF Invalidate, SettingsInv, AgentsType
<1>7. StoreType' /\ AgentsType'
  <2>1. StoreType'
    BY <1>1, <1>4 DEF SettingsInv, StoreType
  <2>2. AgentsType'
    BY <1>1, <1>2, <1>4, <1>6 DEF SettingsInv, AgentsType
  <2>. QED  BY <2>1, <2>2
<1>8. ASSUME NEW u \in Turns PROVE TurnOK(u)'
  <2>1. \A v \in Turns : agent[v] \in Made => agent'[v] \in Made
    BY <1>4, <1>5
  <2>2. CASE u = t
    <3>1. r.at \in Stands /\ r.at # "new" /\ r.at # "script" /\ <<>> \in Seq(Directives)
        BY <1>2, EmptySeq DEF Stands, Busy
    <3>. QED  BY <1>2, <1>3, <1>4, <1>5, <2>2, <3>1 DEF TurnOK
  <2>3. CASE u # t
    BY <1>3, <2>1, <2>3 DEF SettingsInv, TurnOK
  <2>. QED  BY <2>2, <2>3
<1>9. CacheOK'
  <2>1. CASE \A h \in Threads : cache'[h] = None
    BY <2>1 DEF CacheOK
  <2>2. CASE ~\A h \in Threads : cache'[h] = None
    <3>1. cache' = cache /\ new.invalid # TRUE
        BY <1>1, <1>6, <2>2 DEF Invalidate
    <3>2. /\ session'.agents = session.agents /\ session'.disabled = session.disabled
        BY <1>1, <1>4, <3>1 DEF ObeyedBy
    <3>3. ASSUME NEW h \in Threads, cache[h] # None
          PROVE  /\ turn'[cache[h]].at # "new"
                 /\ agent'[cache[h]] \in Made /\ agent'[cache[h]].overrides = session'.agents
                 /\ agent'[cache[h]].skills \cap session'.disabled = {}
      <4>1. cache[h] \in Turns /\ turn[cache[h]].at # "new" /\ IsCurrent(agent[cache[h]])
        BY <3>3 DEF SettingsInv, AgentsType, CacheOK
      <4>2. turn'[cache[h]].at # "new"
        BY <1>2, <1>3, <4>1
      <4>3. CASE cache[h] = id
        <5>1. agent[id].overrides = session.agents /\ agent[id].skills \cap session.disabled = {}
            BY <4>1, <4>3 DEF IsCurrent
        <5>2. new.agent.overrides = session.agents /\ new.agent.skills \cap session.disabled = {}
            BY <1>4, <5>1 DEF ObeyedBy
        <5>. QED  BY <1>4, <1>5, <3>2, <4>2, <4>3, <5>2
      <4>4. CASE cache[h] # id
        BY <1>5, <3>2, <4>1, <4>2, <4>4 DEF IsCurrent
      <4>. QED  BY <4>3, <4>4
    <3>. QED  BY <3>1, <3>3 DEF CacheOK, IsCurrent
  <2>. QED  BY <2>1, <2>2
<1>10. Agreed'
  <2>1. ASSUME drift = {}, ~Pending' PROVE session'.agents = file'.agents
    <3>1. CASE Overriding(said)
        BY <1>1, <3>1 DEF ObeyedBy
    <3>2. CASE ~Overriding(said)
      <4>1. ~Pending
        BY <1>3, <2>1, <3>2 DEF Pending
      <4>2. session.agents = file.agents
        BY <2>1, <4>1 DEF SettingsInv, Agreed
      <4>. QED  BY <1>1, <1>4, <4>2 DEF ObeyedBy
    <3>. QED  BY <3>1, <3>2
  <2>2. ASSUME "raced" \notin drift PROVE session'.voice = file'.voice /\ file'.disabled = asked'
    <3>1. session.voice = file.voice /\ file.disabled = asked
        BY <2>2 DEF SettingsInv, Agreed
    <3>. QED  BY <1>1, <1>4, <3>1 DEF ObeyedBy
  <2>. QED  BY <1>1, <2>1, <2>2 DEF Agreed
<1>. QED  BY <1>7, <1>8, <1>9, <1>10 DEF SettingsInv

LEMMA SkillAbortedStep ==
    ASSUME SettingsInv, NEW t \in Turns, SkillAborted(t)
    PROVE  SettingsInv'
<1>1. /\ drift' = IF turn[t].said = <<>> THEN drift ELSE drift \cup {"unheard"}
      /\ UNCHANGED <<file, voiceFile, session, configFile, config, disk, cache, agent, asked>>
    BY DEF SkillAborted
<1>2. PICK r : /\ turn' = [turn EXCEPT ![t] = r]
               /\ {"at", "agent", "read", "said", "chain"} \subseteq DOMAIN r
               /\ r.at = "done" /\ r.said = <<>>
  <2>1. {"at", "agent", "read", "said", "chain"} \subseteq DOMAIN turn[t]
    BY DEF SettingsInv, TurnOK
  <2>. DEFINE r == [[turn[t] EXCEPT !.at = "done"] EXCEPT !.said = <<>>]
  <2>2. turn' = [turn EXCEPT ![t] = r]
    BY <2>1 DEF SkillAborted, SettingsInv, AgentsType
  <2>3. /\ {"at", "agent", "read", "said", "chain"} \subseteq DOMAIN r
        /\ r.at = "done" /\ r.said = <<>>
    BY <2>1
  <2>. HIDE DEF r
  <2>. QED  BY <2>2, <2>3
<1>3. turn'[t] = r /\ \A u \in Turns : u # t => turn'[u] = turn[u]
    BY <1>2 DEF SettingsInv, AgentsType
<1>4. StoreType' /\ AgentsType'
    BY <1>1, <1>2 DEF SettingsInv, StoreType, AgentsType
<1>5. ASSUME NEW u \in Turns PROVE TurnOK(u)'
  <2>1. "done" \in Stands \ Busy /\ <<>> \in Seq(Directives)
    BY EmptySeq DEF Stands, Busy
  <2>2. CASE u = t
    BY <1>2, <1>3, <2>1, <2>2 DEF TurnOK
  <2>3. CASE u # t
    BY <1>1, <1>3, <2>3 DEF SettingsInv, TurnOK
  <2>. QED  BY <2>2, <2>3
<1>6. CacheOK'
  <2>1. \A u \in Turns : turn[u].at # "new" => turn'[u].at # "new"
    BY <1>2, <1>3
  <2>. QED  BY <1>1, <2>1 DEF SettingsInv, AgentsType, CacheOK, IsCurrent
<1>7. Agreed'
  <2>1. ASSUME drift' = {}, ~Pending' PROVE drift = {} /\ ~Pending
    <3>1. drift = {} /\ turn[t].said = <<>>
        BY <1>1, <2>1
    <3>2. \A u \in Turns : turn'[u].said = turn[u].said
        BY <1>2, <1>3, <3>1
    <3>. QED  BY <2>1, <3>1, <3>2 DEF Pending
  <2>2. "raced" \notin drift' => "raced" \notin drift
    BY <1>1
  <2>. QED  BY <1>1, <2>1, <2>2 DEF SettingsInv, Agreed
<1>. QED  BY <1>4, <1>5, <1>6, <1>7 DEF SettingsInv

LEMMA CreatorReturnsStep ==
    ASSUME SettingsInv, NEW t \in Turns, NEW s \in Skills, CreatorReturns(t, s)
    PROVE  SettingsInv'
<1>. PICK id \in Turns : id = turn[t].agent /\ agent[id] \in Made
    BY DEF CreatorReturns, SettingsInv, TurnOK, Busy
<1>. PICK a \in Made : a = agent[id]
    OBVIOUS
<1>. DEFINE found == IF a.shared THEN disk \cup {s} ELSE a.skills
            known == [a EXCEPT !.all = @ \cup found]
<1>1. PICK new \in Made : /\ new = ApplyDisabled(known, session.disabled)
                          /\ new.overrides = a.overrides
                          /\ new.skills \cap session.disabled = {}
  <2>1. found \in SUBSET Skills
    BY DEF SettingsInv, StoreType, Made
  <2>. HIDE DEF found
  <2>2. PICK l \in SUBSET Skills : l = a.all \cup found
    BY <2>1 DEF Made
  <2>3. known \in Made /\ known.overrides = a.overrides /\ known.all = l
    BY <2>2 DEF Made
  <2>. HIDE DEF known
  <2>4. PICK k \in SUBSET Skills : k = known.all \ session.disabled
    BY <2>3
  <2>5. [[known EXCEPT !.skills = k] EXCEPT !.shared = FALSE] \in Made
    BY <2>3 DEF Made
  <2>6. /\ [[known EXCEPT !.skills = k] EXCEPT !.shared = FALSE].overrides = known.overrides
        /\ [[known EXCEPT !.skills = k] EXCEPT !.shared = FALSE].skills = k
    BY <2>3 DEF Made
  <2>. QED  BY <2>3, <2>4, <2>5, <2>6 DEF ApplyDisabled
<1>2. /\ turn[t].at = "creator" /\ disk' = disk \cup {s}
      /\ agent' = [agent EXCEPT ![id] = new]
      /\ UNCHANGED <<file, voiceFile, session, configFile, config, cache, asked, drift>>
    BY <1>1 DEF CreatorReturns
<1>3. PICK r : /\ turn' = [turn EXCEPT ![t] = r]
               /\ {"at", "agent", "read", "said", "chain"} \subseteq DOMAIN r
               /\ r.at = "model" /\ r.agent = id /\ r.said = turn[t].said
  <2>1. {"at", "agent", "read", "said", "chain"} \subseteq DOMAIN turn[t]
    BY DEF SettingsInv, TurnOK
  <2>. DEFINE r(c) == [[turn[t] EXCEPT !.at = "model"] EXCEPT !.chain = c]
  <2>2. \E c : turn' = [turn EXCEPT ![t] = r(c)]
    BY <2>1 DEF CreatorReturns, SettingsInv, AgentsType
  <2>3. \A c : /\ {"at", "agent", "read", "said", "chain"} \subseteq DOMAIN r(c)
               /\ r(c).at = "model" /\ r(c).agent = turn[t].agent /\ r(c).said = turn[t].said
    BY <2>1
  <2>. HIDE DEF r
  <2>. QED  BY <2>2, <2>3
<1>. HIDE DEF known, found
<1>4. turn'[t] = r /\ \A u \in Turns : u # t => turn'[u] = turn[u]
    BY <1>3 DEF SettingsInv, AgentsType
<1>5. agent'[id] = new /\ \A u \in Turns : u # id => agent'[u] = agent[u]
    BY <1>2 DEF SettingsInv, AgentsType
<1>6. StoreType' /\ AgentsType'
    BY <1>2, <1>3 DEF SettingsInv, StoreType, AgentsType
<1>7. ASSUME NEW u \in Turns PROVE TurnOK(u)'
  <2>1. \A v \in Turns : agent[v] \in Made => agent'[v] \in Made
    BY <1>5
  <2>2. CASE u = t
    <3>1. r.at \in Stands /\ r.at # "new" /\ r.at # "script"
        BY <1>3 DEF Stands, Busy
    <3>. QED  BY <1>3, <1>4, <1>5, <2>2, <3>1 DEF SettingsInv, TurnOK
  <2>3. CASE u # t
    BY <1>4, <2>1, <2>3 DEF SettingsInv, TurnOK
  <2>. QED  BY <2>2, <2>3
<1>8. CacheOK'
  <2>1. ASSUME NEW h \in Threads, cache[h] # None
        PROVE  turn'[cache[h]].at # "new" /\ IsCurrent(agent'[cache[h]])
    <3>1. cache[h] \in Turns /\ turn[cache[h]].at # "new" /\ IsCurrent(agent[cache[h]])
        BY <2>1 DEF SettingsInv, AgentsType, CacheOK
    <3>2. turn'[cache[h]].at # "new"
        BY <1>3, <1>4, <3>1
    <3>3. CASE cache[h] = id
        BY <1>1, <1>5, <3>1, <3>2, <3>3 DEF IsCurrent
    <3>4. CASE cache[h] # id
        BY <1>5, <3>1, <3>2, <3>4
    <3>. QED  BY <3>3, <3>4
  <2>. QED  BY <1>2, <2>1 DEF CacheOK, IsCurrent
<1>9. Agreed'
  <2>1. \A u \in Turns : turn'[u].said = turn[u].said
    BY <1>3, <1>4
  <2>2. Pending' <=> Pending
    BY <2>1 DEF Pending
  <2>. QED  BY <1>2, <2>2 DEF SettingsInv, Agreed
<1>. QED  BY <1>6, <1>7, <1>8, <1>9 DEF SettingsInv

\* A step that leaves the turns and agents alone.
LEMMA TurnsAlone ==
    ASSUME SettingsInv, UNCHANGED <<turn, agent>>
    PROVE  (\A t \in Turns : TurnOK(t)') /\ (Pending' <=> Pending)
BY DEF SettingsInv, TurnOK, Pending

LEMMA ModelCommandStep ==
    ASSUME SettingsInv, NEW p \in Paths, NEW v \in Selectors \cup {None}, ModelCommand(p, v)
    PROVE  SettingsInv'
<1>. PICK a \in Overrides : a = [session.agents EXCEPT ![p] = v]
    BY DEF SettingsInv, StoreType, Stored, Overrides
<1>. PICK x \in Stored : x = [session EXCEPT !.agents = a] /\ x.agents = a
                         /\ x.disabled = session.disabled /\ x.voice = session.voice
  <2>. PICK q \in Stored : q = session
    BY DEF SettingsInv, StoreType
  <2>1. [q EXCEPT !.agents = a] \in Stored
    BY DEF Stored
  <2>. QED  BY <2>1 DEF Stored
<1>. PICK y \in Stored : y = [file EXCEPT !.agents = a] /\ y.agents = a
                         /\ y.disabled = file.disabled /\ y.voice = file.voice
  <2>. PICK q \in Stored : q = file
    BY DEF SettingsInv, StoreType
  <2>1. [q EXCEPT !.agents = a] \in Stored
    BY DEF Stored
  <2>. QED  BY <2>1 DEF Stored
<1>1. /\ session' = x /\ file' = y /\ cache' = [h \in Threads |-> None]
      /\ UNCHANGED <<voiceFile, configFile, config, disk, agent, turn, asked, drift>>
  <2>. DEFINE s == [session |-> session, file |-> file]
              new == [[s EXCEPT !.session = x] EXCEPT !.file = y]
  <2>1. s.session = session /\ s.file = file /\ DOMAIN s = {"session", "file"}
    OBVIOUS
  <2>. HIDE DEF s
  <2>2. [s EXCEPT !.session = x].file = file /\ new.session = x /\ new.file = y
    BY <2>1
  <2>3. SetOverride(s, p, v) = new
    BY <2>1, <2>2 DEF SetOverride
  <2>. HIDE DEF new
  <2>. QED  BY <2>2, <2>3 DEF ModelCommand, Invalidate, s
<1>2. StoreType' /\ AgentsType' /\ CacheOK'
    BY <1>1 DEF SettingsInv, StoreType, AgentsType, CacheOK
<1>3. Agreed'
    BY <1>1 DEF SettingsInv, Agreed
<1>. QED  BY <1>1, <1>2, <1>3, TurnsAlone DEF SettingsInv

LEMMA ReloadStep ==
    ASSUME SettingsInv, NEW here \in BOOLEAN, Reload(here)
    PROVE  SettingsInv'
<1>1. /\ config' = configFile
      /\ cache' = cache \/ cache' = [h \in Threads |-> None]
      /\ UNCHANGED <<file, voiceFile, session, configFile, disk, agent, turn, asked, drift>>
    BY DEF Reload, Invalidate
<1>2. StoreType' /\ AgentsType'
    BY <1>1 DEF SettingsInv, StoreType, AgentsType
<1>3. CacheOK'
    BY <1>1 DEF SettingsInv, CacheOK, IsCurrent
<1>4. Agreed'
    BY <1>1, TurnsAlone DEF SettingsInv, Agreed
<1>. QED  BY <1>1, <1>2, <1>3, <1>4, TurnsAlone DEF SettingsInv

LEMMA RestartSettingsStep ==
    ASSUME SettingsInv, Restart
    PROVE  SettingsInv'
<1>1. PICK loaded \in Stored :
        /\ file' = loaded /\ session' = loaded /\ loaded.disabled = file.disabled
        /\ voiceFile' \in Voices \cup {None}
  <2>. PICK q \in Stored : q = file
    BY DEF SettingsInv, StoreType
  <2>. PICK v \in Voices \cup {None} : v = voiceFile
    BY DEF SettingsInv, StoreType
  <2>1. [q EXCEPT !.voice = v] \in Stored /\ [q EXCEPT !.voice = v].disabled = q.disabled
    BY DEF Stored
  <2>. QED  BY <2>1 DEF Restart
<1>2. /\ config' = configFile /\ cache' = [h \in Threads |-> None]
      /\ drift' = drift \cap {"raced"}
      /\ UNCHANGED <<configFile, disk, agent, asked>>
    BY DEF Restart, Invalidate
<1>3. StoreType' /\ CacheOK'
    BY <1>1, <1>2 DEF SettingsInv, StoreType, CacheOK
<1>4. AgentsType'
    BY <1>2 DEF Restart, SettingsInv, AgentsType
<1>5. ASSUME NEW t \in Turns PROVE TurnOK(t)'
  <2>1. CASE turn[t].at = "new"
    <3>1. turn'[t] = turn[t]
        BY <2>1 DEF Restart
    <3>. QED  BY <1>2, <3>1 DEF SettingsInv, TurnOK
  <2>2. CASE turn[t].at # "new"
    <3>. DEFINE r == [[turn[t] EXCEPT !.at = "done"] EXCEPT !.said = <<>>]
    <3>1. {"at", "agent", "read", "said", "chain"} \subseteq DOMAIN turn[t]
        BY DEF SettingsInv, TurnOK
    <3>2. turn'[t] = r
        BY <2>2, <3>1 DEF Restart
    <3>3. /\ {"at", "agent", "read", "said", "chain"} \subseteq DOMAIN r
          /\ r.at = "done" /\ r.said = <<>>
        BY <3>1
    <3>. HIDE DEF r
    <3>4. "done" \in Stands \ Busy /\ <<>> \in Seq(Directives)
        BY EmptySeq DEF Stands, Busy
    <3>. QED  BY <3>2, <3>3, <3>4 DEF TurnOK
  <2>. QED  BY <2>1, <2>2
<1>6. Agreed'
    BY <1>1, <1>2 DEF SettingsInv, Agreed
<1>. QED  BY <1>3, <1>4, <1>5, <1>6 DEF SettingsInv

LEMMA SettingsStart ==
    Init => SettingsInv
<1>. SUFFICES ASSUME Init PROVE SettingsInv
    OBVIOUS
<1>1. /\ file = [agents |-> NoOverrides, disabled |-> {}, voice |-> None] /\ session = file
      /\ voiceFile = None /\ config = configFile /\ disk = Bundled
      /\ configFile = [NoOverrides EXCEPT !["default"] = <<KeyOrder[1]>>]
      /\ cache = [h \in Threads |-> None] /\ agent = [t \in Turns |-> NoAgent]
      /\ turn = [t \in Turns |-> NoTurn] /\ asked = {} /\ drift = {}
    BY DEF Init
<1>2. file \in Stored
    BY <1>1 DEF Stored, Overrides, NoOverrides
<1>3. configFile \in Globals
    BY <1>1 DEF Globals, NoOverrides
<1>4. StoreType
    BY <1>1, <1>2, <1>3, SettingsConstants DEF StoreType
<1>5. AgentsType /\ CacheOK
    BY <1>1 DEF AgentsType, CacheOK
<1>6. ASSUME NEW t \in Turns PROVE TurnOK(t)
  <2>1. turn[t] = NoTurn
    BY <1>1
  <2>2. /\ {"at", "agent", "read", "said", "chain"} \subseteq DOMAIN NoTurn
        /\ NoTurn.at = "new" /\ NoTurn.said = <<>>
    BY DEF NoTurn
  <2>3. "new" \in Stands \ Busy /\ <<>> \in Seq(Directives)
    BY EmptySeq DEF Stands, Busy
  <2>. QED  BY <2>1, <2>2, <2>3 DEF TurnOK
<1>7. Agreed
    BY <1>1 DEF Agreed
<1>. QED  BY <1>4, <1>5, <1>6, <1>7 DEF SettingsInv

LEMMA SettingsStep ==
    SettingsInv /\ [Next]_vars => SettingsInv'
<1>. SUFFICES ASSUME SettingsInv, [Next]_vars PROVE SettingsInv'
    OBVIOUS
<1>1. CASE UNCHANGED vars
  <2>1. UNCHANGED <<file, voiceFile, session, configFile, config, disk, cache, agent, turn,
                    asked, drift>>
    BY <1>1 DEF vars
  <2>2. StoreType' /\ AgentsType' /\ CacheOK'
    BY <2>1 DEF SettingsInv, StoreType, AgentsType, CacheOK, IsCurrent
  <2>3. Agreed'
    BY <2>1, TurnsAlone DEF SettingsInv, Agreed
  <2>. QED  BY <2>1, <2>2, <2>3, TurnsAlone DEF SettingsInv
<1>2. CASE \E t \in Turns, h \in Threads, k \in Kinds : StartTurn(t, h, k)
    BY <1>2, StartTurnStep
<1>3. ASSUME NEW t \in Turns,
             \/ CallSkill(t, "config", "config") \/ CallSkill(t, "skill-creator", "creator")
             \/ ScriptReads(t) \/ Script(t)
             \/ ConfigReturns(t) \/ SkillAborted(t) \/ EndTurn(t)
      PROVE  SettingsInv'
  <2>1. ASSUME CallSkill(t, "config", "config") \/ CallSkill(t, "skill-creator", "creator")
        PROVE  SettingsInv'
    <3>1. "config" \in {"config", "creator"} /\ "creator" \in {"config", "creator"}
        OBVIOUS
    <3>. QED  BY <2>1, <3>1, CallSkillStep
  <2>. QED  BY <1>3, <2>1, ScriptReadsStep, ScriptStep, ConfigReturnsStep, SkillAbortedStep,
               EndTurnStep
<1>4. CASE \E t \in Turns, s \in Skills \ Bundled : CreatorReturns(t, s)
    BY <1>4, CreatorReturnsStep
<1>5. CASE \E p \in Paths, v \in Selectors \cup {None} : ModelCommand(p, v)
    BY <1>5, ModelCommandStep
<1>6. CASE \E here \in BOOLEAN : Reload(here)
    BY <1>6, ReloadStep
<1>. QED  BY <1>1, <1>2, <1>3, <1>4, <1>5, <1>6, RestartSettingsStep DEF Next

\* For every set of selectors, skills and threads and every interleaving of the script with
\* the bot: once the directives of every skill have been obeyed, session and file hold the
\* same overrides and the same voice, unless the file was written between the script's read
\* and its write, a result was never looked at, or the script changed the file alone; and
\* no save of one section loses the disabled skills the user asked for.
THEOREM SettingsAreKept == Spec => []SettingsSurvive
<1>1. SettingsInv => SettingsSurvive
  <2>. SUFFICES ASSUME SettingsInv PROVE SettingsSurvive
    OBVIOUS
  <2>1. ASSUME \A t \in Turns : turn[t].said = <<>> PROVE ~Pending
    <3>1. ~Overriding(<<>>)
        BY DEF Overriding
    <3>. QED  BY <2>1, <3>1 DEF Pending
  <2>2. drift = {} => "raced" \notin drift
    OBVIOUS
  <2>. QED  BY <2>1, <2>2 DEF SettingsInv, Agreed, SettingsSurvive
<1>. QED  BY <1>1, SettingsStart, SettingsStep, PTL DEF Spec

\* A cached agent was made with the overrides in force and offers no disabled skill.
THEOREM CachedAgentsAreCurrent == Spec => []CachedAgentCurrent
<1>1. SettingsInv => CachedAgentCurrent
    BY DEF SettingsInv, CacheOK, IsCurrent, CachedAgentCurrent
<1>. QED  BY <1>1, SettingsStart, SettingsStep, PTL DEF Spec

\* The settings, the files, the cache and the history are of their types.
THEOREM SettingsAreTyped == Spec => []TypeOK
<1>1. SettingsInv => TypeOK
  <2>. SUFFICES ASSUME SettingsInv PROVE TypeOK
    OBVIOUS
  <2>1. \A h \in Threads : cache[h] # None => agent[cache[h]].made
    BY Zenon DEF SettingsInv, CacheOK, IsCurrent, Made
  <2>2. \A t \in Turns : turn[t].at \in Stands
    BY DEF SettingsInv, TurnOK
  <2>. QED  BY <2>1, <2>2 DEF SettingsInv, StoreType, AgentsType, Stored, Globals, Stands, Busy,
               TypeOK
<1>. QED  BY <1>1, SettingsStart, SettingsStep, PTL DEF Spec
=============================================================================

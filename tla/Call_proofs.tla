----------------------------- MODULE Call_proofs -----------------------------
(***************************************************************************)
(* Theorems about the voice call, for all values of the constants of       *)
(* CallCore and of Endpointing.  The call: the hold tone has somebody who  *)
(* ends it, what the caller said has somebody who replies to it, and a     *)
(* keyword ends the reply.  The pipeline: whatever the frames, the noise   *)
(* and the playback, a chunk is sound and gusts do not break a pause.      *)
(***************************************************************************)
EXTENDS CallCore, Endpointing, SequenceTheorems, FiniteSetTheorems, TLAPS

SpeechFields == {"at", "barge", "cancelled", "waitsFor"}
ReplyFields == {"at", "cancelled", "pre", "begun", "said", "rounds"}

\* The types that the updates of single fields need, and who may be tracked: only replies
\* are pending.
CallTypes ==
    /\ DOMAIN speech = Utterances /\ \A u \in Utterances : SpeechFields \subseteq DOMAIN speech[u]
    /\ DOMAIN reply = Utterances
    /\ \A u \in Utterances : ReplyFields \subseteq DOMAIN reply[u] /\ reply[u].pre \in Nat
    /\ pending = NoTask \/ \E v \in Utterances : pending = Task("reply", v)
    /\ active = NoTask \/ \E v \in Utterances : active = Task("reply", v) \/ active = Task("speech", v)
    /\ speaking \in Utterances \cup {None}
    /\ transcripts \in Seq(Utterances)
    /\ cut \subseteq Utterances

\* A speech coroutine is replied to only when it has ended, and only the one that is
\* tracked and no candidate for a barge-in can be cancelled.
SpeechInv ==
    /\ speaking # None => speech[speaking].at = "spoken"
    /\ \A u \in Utterances :
        /\ speech[u].at # "done" => reply[u].at = "none"
        /\ speech[u].cancelled =>
              speech[u].at = "announcing" \/ (speech[u].at = "transcribing" /\ ~speech[u].barge)
        /\ active = Task("speech", u) =>
              speech[u].at = "announcing" \/ (speech[u].at = "transcribing" /\ ~speech[u].barge)

Live(v) == reply[v].at \in {"waiting", "thinking", "sending"}

\* The reply that is not cancelled is the pending one, there is something it waits for, and
\* those a keyword has ended are cancelled or over.
ReplyInv ==
    /\ \A v \in Utterances :
        /\ Live(v) /\ ~reply[v].cancelled => pending = Task("reply", v)
        /\ reply[v].cancelled => Live(v)
        /\ reply[v].at = "waiting" /\ ~reply[v].cancelled => transcripts # <<>>
    /\ \A v \in cut : (Live(v) /\ reply[v].cancelled) \/ reply[v].at = "done"

\* Somebody who is going to reply to what has been said, and who nobody has cancelled.
Takes(u) ==
    \/ speech[u].at \in {"awaitsPending", "awaitsActive"}
    \/ speech[u].at = "announcing" /\ ~speech[u].cancelled
    \/ reply[u].at = "waiting" /\ ~reply[u].cancelled

Unanswered == \E i \in DOMAIN transcripts : speech[transcripts[i]].at # "noted"

TakerInv == Unanswered /\ ~done /\ "answer" \notin lost => \E u \in Utterances : Takes(u)

\* Inductive.
CallInv == CallTypes /\ SpeechInv /\ ReplyInv /\ TakerInv

OwnsTone(u) ==
    \/ speech[u].at \in {"awaitsPending", "awaitsActive", "announcing"}
    \/ speech[u].at = "transcribing" /\ ~speech[u].barge /\ ~speech[u].cancelled
    \/ reply[u].at = "waiting" /\ ~reply[u].cancelled
    \/ reply[u].at = "thinking"

GreetingOwns == greeting.send \in {"awaiting", "prepared", "fresh"} /\ greeting.flushed = 0

\* No more of the greeting is played than there is.
GreetingInv ==
    /\ {"prepared", "send", "pcm", "flushed"} \subseteq DOMAIN greeting
    /\ greeting.pcm \in Nat /\ greeting.flushed \in 0 .. greeting.pcm

\* Inductive, next to CallInv.
ToneInv == GreetingInv /\ hold \in BOOLEAN /\ HoldHasOwner

-----------------------------------------------------------------------------
(* What the steps do to a coroutine *)

LEMMA TaskIs ==
    /\ \A k, u : Task(k, u).kind = k /\ Task(k, u).u = u
    /\ \A k, u, l, v : Task(k, u) = Task(l, v) => k = l /\ u = v
    /\ \A k, u : k # "none" => Task(k, u) # NoTask
    /\ NoTask.kind = "none"
<1>1. \A k, u : Task(k, u).kind = k /\ Task(k, u).u = u
    BY DEF Task
<1>2. NoTask.kind = "none"
    BY <1>1 DEF NoTask
<1>3. \A k, u, l, v : Task(k, u) = Task(l, v) => k = l /\ u = v
  <2>. TAKE k, u, l, v
  <2>. HAVE Task(k, u) = Task(l, v)
  <2>1. Task(k, u).kind = Task(l, v).kind /\ Task(k, u).u = Task(l, v).u
      OBVIOUS
  <2>. QED  BY <1>1, <2>1
<1>. QED  BY <1>1, <1>2, <1>3 DEF NoTask

\* Who is alive, by kind.
LEMMA AliveIs ==
    /\ ~Alive(NoTask)
    /\ \A v \in Utterances : Alive(Task("reply", v)) <=> Live(v)
    /\ \A v \in Utterances : Alive(Task("speech", v)) <=>
          speech[v].at \in {"transcribing", "awaitsPending", "awaitsActive", "announcing", "noting"}
<1>1. ~Alive(NoTask)
    BY TaskIs DEF Alive
<1>2. ASSUME NEW v \in Utterances
      PROVE Alive(Task("reply", v)) <=> Live(v)
    BY TaskIs DEF Alive, Live
<1>3. ASSUME NEW v \in Utterances
      PROVE Alive(Task("speech", v)) <=>
          speech[v].at \in {"transcribing", "awaitsPending", "awaitsActive", "announcing", "noting"}
    BY TaskIs DEF Alive
<1>. QED  BY <1>1, <1>2, <1>3

LEMMA Numbers == None \notin Utterances /\ Greeting \notin Utterances
BY CallAssumption DEF None, Greeting, Utterances

\* A coroutine of speech at a point, fresh.
Spoke(at, barge) == [NoSpeech EXCEPT !.at = at, !.barge = barge]
SpokeAt(at) == [NoSpeech EXCEPT !.at = at]

LEMMA SpokeShape ==
    /\ \A at, barge : /\ Spoke(at, barge).at = at /\ Spoke(at, barge).barge = barge
                      /\ ~Spoke(at, barge).cancelled
                      /\ SpeechFields \subseteq DOMAIN Spoke(at, barge)
    /\ \A at : /\ SpokeAt(at).at = at /\ ~SpokeAt(at).cancelled
               /\ SpeechFields \subseteq DOMAIN SpokeAt(at)
BY DEF Spoke, SpokeAt, NoSpeech, SpeechFields

\* A coroutine of speech goes on to another point.
Onwards(f, u, at) == [f EXCEPT ![u].at = at]
OnwardsAs(f, u, at, t) == [f EXCEPT ![u].at = at, ![u].waitsFor = t]
WithCancelled(f, u) == [f EXCEPT ![u].cancelled = TRUE]

LEMMA OnwardsShape ==
    ASSUME NEW f, DOMAIN f = Utterances, \A w \in Utterances : SpeechFields \subseteq DOMAIN f[w],
           NEW u \in Utterances, NEW at
    PROVE  LET g == Onwards(f, u, at)
           IN  /\ DOMAIN g = Utterances /\ \A w \in Utterances : SpeechFields \subseteq DOMAIN g[w]
               /\ g[u].at = at /\ g[u].barge = f[u].barge /\ g[u].cancelled = f[u].cancelled
               /\ \A w \in Utterances \ {u} : g[w] = f[w]
<1>. DEFINE g == Onwards(f, u, at)
<1>1. DOMAIN g = Utterances /\ \A w \in Utterances \ {u} : g[w] = f[w]
    BY DEF Onwards
<1>2. g[u] = [f[u] EXCEPT !.at = at] /\ SpeechFields \subseteq DOMAIN f[u]
    BY DEF Onwards
<1>3. SpeechFields \subseteq DOMAIN g[u] /\ g[u].at = at /\ g[u].barge = f[u].barge /\ g[u].cancelled = f[u].cancelled
    BY <1>2 DEF SpeechFields
<1>. HIDE DEF g
<1>. QED  BY <1>1, <1>3 DEF g

LEMMA OnwardsAsShape ==
    ASSUME NEW f, DOMAIN f = Utterances, \A w \in Utterances : SpeechFields \subseteq DOMAIN f[w],
           NEW u \in Utterances, NEW at, NEW t
    PROVE  LET g == OnwardsAs(f, u, at, t)
           IN  /\ DOMAIN g = Utterances /\ \A w \in Utterances : SpeechFields \subseteq DOMAIN g[w]
               /\ g[u].at = at /\ g[u].barge = f[u].barge /\ g[u].cancelled = f[u].cancelled
               /\ \A w \in Utterances \ {u} : g[w] = f[w]
<1>. DEFINE g == OnwardsAs(f, u, at, t)
<1>1. DOMAIN g = Utterances /\ \A w \in Utterances \ {u} : g[w] = f[w]
    BY DEF OnwardsAs
<1>2. g[u] = [[f[u] EXCEPT !.at = at] EXCEPT !.waitsFor = t] /\ SpeechFields \subseteq DOMAIN f[u]
    BY DEF OnwardsAs
<1>3. SpeechFields \subseteq DOMAIN g[u] /\ g[u].at = at /\ g[u].barge = f[u].barge /\ g[u].cancelled = f[u].cancelled
    BY <1>2 DEF SpeechFields
<1>. HIDE DEF g
<1>. QED  BY <1>1, <1>3 DEF g

LEMMA CancelSpeechShape ==
    ASSUME NEW f, DOMAIN f = Utterances, \A w \in Utterances : SpeechFields \subseteq DOMAIN f[w], NEW u \in Utterances
    PROVE  LET g == WithCancelled(f, u)
           IN  /\ DOMAIN g = Utterances /\ \A w \in Utterances : SpeechFields \subseteq DOMAIN g[w]
               /\ g[u].cancelled /\ g[u].at = f[u].at /\ g[u].barge = f[u].barge
               /\ \A w \in Utterances \ {u} : g[w] = f[w]
<1>. DEFINE g == WithCancelled(f, u)
<1>1. DOMAIN g = Utterances /\ \A w \in Utterances \ {u} : g[w] = f[w]
    BY DEF WithCancelled
<1>2. g[u] = [f[u] EXCEPT !.cancelled = TRUE] /\ SpeechFields \subseteq DOMAIN f[u]
    BY DEF WithCancelled
<1>3. SpeechFields \subseteq DOMAIN g[u] /\ g[u].cancelled /\ g[u].at = f[u].at /\ g[u].barge = f[u].barge
    BY <1>2 DEF SpeechFields
<1>. HIDE DEF g
<1>. QED  BY <1>1, <1>3 DEF g

LEMMA CancelReplyShape ==
    ASSUME NEW f, DOMAIN f = Utterances, \A w \in Utterances : ReplyFields \subseteq DOMAIN f[w], NEW u \in Utterances
    PROVE  LET g == WithCancelled(f, u)
           IN  /\ DOMAIN g = Utterances /\ \A w \in Utterances : ReplyFields \subseteq DOMAIN g[w]
               /\ g[u].cancelled /\ g[u].at = f[u].at /\ g[u].pre = f[u].pre
               /\ \A w \in Utterances \ {u} : g[w] = f[w]
<1>. DEFINE g == WithCancelled(f, u)
<1>1. DOMAIN g = Utterances /\ \A w \in Utterances \ {u} : g[w] = f[w]
    BY DEF WithCancelled
<1>2. g[u] = [f[u] EXCEPT !.cancelled = TRUE] /\ ReplyFields \subseteq DOMAIN f[u]
    BY DEF WithCancelled
<1>3. ReplyFields \subseteq DOMAIN g[u] /\ g[u].cancelled /\ g[u].at = f[u].at /\ g[u].pre = f[u].pre
    BY <1>2 DEF ReplyFields
<1>. HIDE DEF g
<1>. QED  BY <1>1, <1>3 DEF g

-----------------------------------------------------------------------------
(* The steps of one coroutine of speech that leave the others alone *)

SpeechTyped == DOMAIN speech = Utterances /\ \A w \in Utterances : SpeechFields \subseteq DOMAIN speech[w]

\* What a keyword ends has been cancelled with it.
CutStep ==
    /\ cut' \subseteq Utterances
    /\ \A v \in cut' \ cut : reply'[v].at = "thinking" /\ reply'[v].cancelled

\* That of u goes on, uncancelled, and tracks itself or is no longer tracked.
SpeechStep(u) ==
    /\ SpeechTyped'
    /\ \A w \in Utterances \ {u} : speech'[w] = speech[w]
    /\ speech[u].at \notin {"done", "noted"} /\ ~speech'[u].cancelled
    /\ UNCHANGED <<reply, pending>> /\ CutStep
    /\ active' \in {active, NoTask, Task("speech", u)}
    /\ active' = Task("speech", u) =>
           speech'[u].at = "announcing" \/ (speech'[u].at = "transcribing" /\ ~speech'[u].barge)
    /\ speaking' \in Utterances \cup {None}
    /\ speaking' # None => speech'[speaking'].at = "spoken"
    /\ transcripts' = transcripts \/ (transcripts' = Append(transcripts, u) /\ speech'[u].at = "noted")
    /\ (done => done') /\ lost \subseteq lost'
    /\ Takes(u) => Takes(u)' \/ done' \/ "answer" \in lost'

\* An utterance that is only noted does not make the others answered.
LEMMA UnansweredStays ==
    ASSUME CallInv, NEW u \in Utterances, SpeechStep(u), Unanswered' PROVE Unanswered
<1>1. transcripts \in Seq(Utterances)
    BY DEF CallInv, CallTypes
<1>2. PICK i \in DOMAIN transcripts' : speech'[transcripts'[i]].at # "noted"
    BY DEF Unanswered
<1>3. i \in DOMAIN transcripts /\ transcripts'[i] = transcripts[i]
  <2>1. CASE transcripts' = transcripts
      BY <2>1
  <2>2. CASE transcripts' = Append(transcripts, u) /\ speech'[u].at = "noted"
      BY <1>1, <1>2, <2>2
  <2>. QED  BY <2>1, <2>2 DEF SpeechStep
<1>4. transcripts[i] \in Utterances
    BY <1>1, <1>3
<1>5. speech[transcripts[i]].at # "noted"
    BY <1>2, <1>3, <1>4 DEF SpeechStep
<1>. QED  BY <1>3, <1>5 DEF Unanswered

LEMMA SpeechStepKeeps ==
    ASSUME CallInv, NEW u \in Utterances, SpeechStep(u) PROVE CallInv'
<1>1. CallTypes'
  <2>1. transcripts' \in Seq(Utterances)
      BY DEF CallInv, CallTypes, SpeechStep
  <2>2. active' = NoTask \/ \E v \in Utterances : active' = Task("reply", v) \/ active' = Task("speech", v)
      BY DEF CallInv, CallTypes, SpeechStep
  <2>. QED  BY <2>1, <2>2 DEF CallInv, CallTypes, SpeechStep, SpeechTyped, CutStep
<1>2. SpeechInv'
  <2>1. ASSUME NEW w \in Utterances, speech'[w].at # "done" PROVE reply'[w].at = "none"
      BY <2>1 DEF CallInv, SpeechInv, SpeechStep
  <2>2. ASSUME NEW w \in Utterances, speech'[w].cancelled
        PROVE  speech'[w].at = "announcing" \/ (speech'[w].at = "transcribing" /\ ~speech'[w].barge)
      BY <2>2 DEF CallInv, SpeechInv, SpeechStep
  <2>3. ASSUME NEW w \in Utterances, active' = Task("speech", w)
        PROVE  speech'[w].at = "announcing" \/ (speech'[w].at = "transcribing" /\ ~speech'[w].barge)
    <3>1. CASE w = u
        BY <2>3, <3>1 DEF SpeechStep
    <3>2. CASE w # u
      <4>1. active' # NoTask /\ active' # Task("speech", u)
          BY <2>3, <3>2, TaskIs
      <4>. QED  BY <2>3, <3>2, <4>1 DEF CallInv, SpeechInv, SpeechStep
    <3>. QED  BY <3>1, <3>2
  <2>. QED  BY <2>1, <2>2, <2>3 DEF SpeechInv, SpeechStep
<1>3. ReplyInv'
  <2>1. transcripts # <<>> => transcripts' # <<>>
      BY DEF CallInv, CallTypes, SpeechStep
  <2>. QED  BY <2>1 DEF CallInv, ReplyInv, SpeechStep, CutStep, Live
<1>4. TakerInv'
  <2>. SUFFICES ASSUME Unanswered', ~done', "answer" \notin lost' PROVE \E w \in Utterances : Takes(w)'
      BY DEF TakerInv
  <2>1. PICK w \in Utterances : Takes(w)
      BY UnansweredStays DEF CallInv, TakerInv, SpeechStep
  <2>2. Takes(w)'
    <3>1. CASE w = u
        BY <2>1, <3>1 DEF SpeechStep
    <3>2. CASE w # u
        BY <2>1, <3>2 DEF SpeechStep, Takes
    <3>. QED  BY <3>1, <3>2
  <2>. QED  BY <2>2
<1>. QED  BY <1>1, <1>2, <1>3, <1>4 DEF CallInv

\* The tone passes from one owner to another: nobody but u gives it up, and u only if it is
\* silent by then, somebody has it, or its loss is recorded.
LEMMA TonePasses ==
    ASSUME ToneInv, NEW u,
           \A w \in Utterances \ {u} : OwnsTone(w) => OwnsTone(w)',
           GreetingOwns => GreetingOwns' \/ done' \/ ~hold',
           GreetingInv', hold' \in BOOLEAN, done => done', lost \subseteq lost',
           hold' /\ ~done' => Owned' \/ "tone" \in lost' \/ (hold /\ (u \in Utterances => ~OwnsTone(u)))
    PROVE  ToneInv'
<1>. SUFFICES ASSUME hold', ~done', "tone" \notin lost', hold, u \in Utterances => ~OwnsTone(u) PROVE Owned'
    BY DEF ToneInv, HoldHasOwner
<1>1. Owned
    BY DEF ToneInv, HoldHasOwner
<1>2. CASE \E w \in Utterances : OwnsTone(w)
  <2>1. PICK w \in Utterances : OwnsTone(w)
      BY <1>2
  <2>2. OwnsTone(w)'
      BY <2>1
  <2>. QED  BY <2>2 DEF Owned, OwnsTone
<1>3. CASE GreetingOwns
    BY <1>3 DEF Owned, GreetingOwns
<1>. QED  BY <1>1, <1>2, <1>3 DEF Owned, OwnsTone, GreetingOwns

\* What TonePasses asks of a step of one coroutine of speech.
ToneStep(u) ==
    /\ greeting' = greeting \/ done'
    /\ GreetingInv'
    /\ hold' \in BOOLEAN
    /\ hold' /\ ~done' => Owned' \/ "tone" \in lost' \/ (hold /\ ~OwnsTone(u))

LEMMA SpeechStepTone ==
    ASSUME CallInv, ToneInv, NEW u \in Utterances, SpeechStep(u), ToneStep(u) PROVE ToneInv'
<1>1. \A w \in Utterances \ {u} : OwnsTone(w) => OwnsTone(w)'
    BY DEF SpeechStep, OwnsTone
<1>2. GreetingOwns => GreetingOwns' \/ done' \/ ~hold'
    BY DEF ToneStep, GreetingOwns
<1>. QED  BY <1>1, <1>2, TonePasses DEF SpeechStep, ToneStep

LEMMA SpeechMade ==
    ASSUME CallTypes, NEW u \in Utterances, NEW r, SpeechFields \subseteq DOMAIN r,
           speech' = [speech EXCEPT ![u] = r]
    PROVE  SpeechTyped' /\ speech'[u] = r /\ \A w \in Utterances \ {u} : speech'[w] = speech[w]
BY DEF CallTypes, SpeechTyped

LEMMA SpeechGoes ==
    ASSUME CallTypes, NEW u \in Utterances, NEW at, speech' = Onwards(speech, u, at)
    PROVE  /\ SpeechTyped' /\ speech'[u].at = at
           /\ speech'[u].barge = speech[u].barge /\ speech'[u].cancelled = speech[u].cancelled
           /\ \A w \in Utterances \ {u} : speech'[w] = speech[w]
<1>. DEFINE g == Onwards(speech, u, at)
<1>1. /\ DOMAIN g = Utterances /\ \A w \in Utterances : SpeechFields \subseteq DOMAIN g[w]
      /\ g[u].at = at /\ g[u].barge = speech[u].barge /\ g[u].cancelled = speech[u].cancelled
      /\ \A w \in Utterances \ {u} : g[w] = speech[w]
    BY OnwardsShape DEF CallTypes
<1>. HIDE DEF g
<1>. QED  BY <1>1 DEF SpeechTyped, g

\* Whoever is at one of these points is nobody the rest depends on.
LEMMA NotTracked ==
    ASSUME CallInv, NEW u \in Utterances, speech[u].at \notin {"announcing", "transcribing"}
    PROVE  ~speech[u].cancelled /\ active # Task("speech", u)
BY DEF CallInv, SpeechInv

LEMMA SpeechStartsStep ==
    ASSUME CallInv, ToneInv, SpeechStarts PROVE \E u \in Utterances : SpeechStep(u) /\ ToneStep(u)
<1>1. PICK u \in Utterances : speech[u].at = "none" /\ speaking' = u /\ speech' = Onwards(speech, u, "spoken")
    BY DEF SpeechStarts, Onwards
<1>2. ~speech[u].cancelled /\ active # Task("speech", u)
    BY <1>1, NotTracked
<1>3. /\ SpeechTyped' /\ speech'[u].at = "spoken" /\ ~speech'[u].cancelled
      /\ \A w \in Utterances \ {u} : speech'[w] = speech[w]
    BY <1>1, <1>2, SpeechGoes DEF CallInv
<1>4. UNCHANGED <<reply, transcripts, pending, active, cut, done, lost, greeting, hold>>
    BY DEF SpeechStarts, playback
<1>5. SpeechStep(u)
  <2>1. ~Takes(u)
      BY <1>1 DEF Takes, CallInv, SpeechInv
  <2>. QED  BY <1>1, <1>2, <1>3, <1>4, <2>1 DEF SpeechStep, CutStep, CallInv, CallTypes
<1>6. ~OwnsTone(u)
    BY <1>1 DEF OwnsTone, CallInv, SpeechInv
<1>. QED  BY <1>4, <1>5, <1>6 DEF ToneStep, ToneInv, GreetingInv

\* What is spoken when a chunk ends or is dropped.
LEMMA SpeakerIs ==
    ASSUME CallInv, speaking # None
    PROVE  /\ speaking \in Utterances /\ speech[speaking].at = "spoken"
           /\ ~speech[speaking].cancelled /\ active # Task("speech", speaking)
           /\ ~Takes(speaking) /\ ~OwnsTone(speaking)
<1>1. speaking \in Utterances /\ speech[speaking].at = "spoken"
    BY DEF CallInv, CallTypes, SpeechInv
<1>2. reply[speaking].at = "none"
    BY <1>1 DEF CallInv, SpeechInv
<1>. QED  BY <1>1, <1>2, NotTracked DEF Takes, OwnsTone

LEMMA ChunkDroppedStep ==
    ASSUME CallInv, ToneInv, ChunkDropped PROVE \E u \in Utterances : SpeechStep(u) /\ ToneStep(u)
<1>1. PICK u : u = speaking
    OBVIOUS
<1>2. /\ u # None /\ speaking' = None /\ speech' = Onwards(speech, u, "done")
      /\ UNCHANGED <<reply, transcripts, pending, active, cut, done, lost, greeting, hold>>
    BY <1>1 DEF ChunkDropped, Onwards, playback
<1>3. /\ u \in Utterances /\ speech[u].at = "spoken" /\ ~speech[u].cancelled
      /\ active # Task("speech", u) /\ ~Takes(u) /\ ~OwnsTone(u)
    BY <1>1, <1>2, SpeakerIs
<1>4. /\ SpeechTyped' /\ speech'[u].at = "done" /\ ~speech'[u].cancelled
      /\ \A w \in Utterances \ {u} : speech'[w] = speech[w]
    BY <1>2, <1>3, SpeechGoes DEF CallInv
<1>5. SpeechStep(u)
    BY <1>2, <1>3, <1>4 DEF SpeechStep, CutStep, CallInv, CallTypes
<1>. QED  BY <1>2, <1>3, <1>5 DEF ToneStep, ToneInv, GreetingInv

LEMMA ChunkEndsStep ==
    ASSUME CallInv, ToneInv, ChunkEnds PROVE \E u \in Utterances : SpeechStep(u) /\ ToneStep(u)
<1>1. PICK u, forced : u = speaking /\ Captured(u, IsPlaying /\ ~forced)
    BY DEF ChunkEnds
<1>. DEFINE barge == IsPlaying /\ ~forced
            r == Spoke("transcribing", barge)
<1>2. /\ speech' = [speech EXCEPT ![u] = r] /\ u # None /\ speaking' = None
      /\ active' = IF barge THEN active ELSE Task("speech", u)
      /\ hold' = (hold \/ ~barge)
      /\ UNCHANGED <<reply, transcripts, pending, cut, done, lost, greeting>>
    BY <1>1 DEF ChunkEnds, Captured, Spoke
<1>. HIDE DEF barge
<1>3. r.at = "transcribing" /\ r.barge = barge /\ ~r.cancelled /\ SpeechFields \subseteq DOMAIN r
    BY SpokeShape
<1>. HIDE DEF r
<1>4. /\ u \in Utterances /\ speech[u].at = "spoken" /\ ~speech[u].cancelled
      /\ active # Task("speech", u) /\ ~Takes(u) /\ ~OwnsTone(u)
    BY <1>1, <1>2, SpeakerIs
<1>5. SpeechTyped' /\ speech'[u] = r /\ \A w \in Utterances \ {u} : speech'[w] = speech[w]
    BY <1>2, <1>3, <1>4, SpeechMade DEF CallInv
<1>6. SpeechStep(u)
    BY <1>2, <1>3, <1>4, <1>5 DEF SpeechStep, CutStep, CallInv, CallTypes
<1>7. ~barge => OwnsTone(u)'
    BY <1>3, <1>5 DEF OwnsTone
<1>8. ~barge => Owned'
    BY <1>4, <1>7 DEF Owned, OwnsTone
<1>. QED  BY <1>2, <1>4, <1>6, <1>8 DEF ToneStep, ToneInv, GreetingInv

\* A coroutine of speech ends, and is no longer tracked.
LEMMA SpeechDoneShape ==
    ASSUME CallTypes, NEW u \in Utterances, SpeechDone(u)
    PROVE  /\ SpeechTyped' /\ speech'[u].at = "done" /\ ~speech'[u].cancelled
           /\ \A w \in Utterances \ {u} : speech'[w] = speech[w]
           /\ active' \in {active, NoTask} /\ active' # Task("speech", u)
           /\ UNCHANGED <<reply, transcripts, pending>>
<1>1. speech' = [speech EXCEPT ![u] = SpokeAt("done")]
    BY DEF SpeechDone, SpeechEndsWith, SpokeAt
<1>2. SpokeAt("done").at = "done" /\ ~SpokeAt("done").cancelled /\ SpeechFields \subseteq DOMAIN SpokeAt("done")
    BY SpokeShape
<1>3. SpeechTyped' /\ speech'[u] = SpokeAt("done") /\ \A w \in Utterances \ {u} : speech'[w] = speech[w]
    BY <1>1, <1>2, SpeechMade
<1>4. active' = IF active = Task("speech", u) THEN NoTask ELSE active
    BY DEF SpeechDone, SpeechEndsWith, Untracked
<1>5. active' \in {active, NoTask} /\ active' # Task("speech", u)
    BY <1>4, TaskIs
<1>6. UNCHANGED <<reply, transcripts, pending>>
    BY DEF SpeechDone, SpeechEndsWith
<1>. QED  BY <1>2, <1>3, <1>5, <1>6

\* So it is with a coroutine that nobody needed, or whose end is recorded.
LEMMA SpeechDoneStep ==
    ASSUME CallInv, NEW u \in Utterances, SpeechDone(u), speech[u].at \notin {"done", "noted", "spoken"},
           UNCHANGED <<speaking, cut, done>>, lost \subseteq lost', Takes(u) => "answer" \in lost'
    PROVE  SpeechStep(u)
<1>1. speaking # u
    BY Numbers DEF CallInv, SpeechInv
<1>2. speaking' # None => speech'[speaking'].at = "spoken"
    BY <1>1, SpeechDoneShape DEF CallInv, CallTypes, SpeechInv
<1>. QED  BY <1>2, SpeechDoneShape DEF SpeechStep, CutStep, CallInv, CallTypes

LEMMA TranscribingIs ==
    ASSUME CallInv, NEW u \in Utterances, Transcribing(u)
    PROVE  /\ ~Takes(u) /\ speaking # u /\ (speech[u].barge => active # Task("speech", u) /\ ~OwnsTone(u))
           /\ reply[u].at = "none"
<1>1. reply[u].at = "none" /\ speech[u].at = "transcribing"
    BY DEF Transcribing, CallInv, SpeechInv
<1>. QED  BY <1>1, Numbers DEF Takes, OwnsTone, CallInv, SpeechInv

LEMMA TranscribedNothingStep ==
    ASSUME CallInv, ToneInv, NEW u \in Utterances, TranscribedNothing(u) PROVE SpeechStep(u) /\ ToneStep(u)
<1>1. /\ SpeechDone(u) /\ speech[u].at = "transcribing" /\ hold' = (hold /\ speech[u].barge)
      /\ UNCHANGED <<speaking, cut, done, lost, greeting>> /\ Transcribing(u)
    BY DEF TranscribedNothing, Transcribing, NothingHeard
<1>2. SpeechStep(u)
    BY <1>1, TranscribingIs, SpeechDoneStep
<1>. QED  BY <1>1, <1>2, TranscribingIs DEF ToneStep, ToneInv, GreetingInv

LEMMA TranscribedSpeechStep ==
    ASSUME CallInv, ToneInv, NEW u \in Utterances, TranscribedSpeech(u) PROVE SpeechStep(u) /\ ToneStep(u)
<1>1. /\ speech' = Onwards(speech, u, "announcing") /\ Transcribing(u) /\ ~speech[u].barge /\ hold' = TRUE
      /\ UNCHANGED <<speaking, cut, done, lost, greeting, reply, transcripts, pending, active>>
    BY DEF TranscribedSpeech, Onwards
<1>2. /\ SpeechTyped' /\ speech'[u].at = "announcing" /\ ~speech'[u].cancelled
      /\ \A w \in Utterances \ {u} : speech'[w] = speech[w]
    BY <1>1, SpeechGoes DEF CallInv, Transcribing
<1>3. SpeechStep(u)
  <2>1. speaking' # None => speech'[speaking'].at = "spoken"
      BY <1>1, <1>2, TranscribingIs DEF CallInv, CallTypes, SpeechInv
  <2>. QED  BY <1>1, <1>2, <2>1, TranscribingIs DEF SpeechStep, CutStep, CallInv, CallTypes, Transcribing
<1>4. Owned'
    BY <1>2 DEF Owned
<1>. QED  BY <1>1, <1>3, <1>4 DEF ToneStep, ToneInv, GreetingInv

LEMMA TranscribedChatterStep ==
    ASSUME CallInv, ToneInv, NEW u \in Utterances, TranscribedChatter(u) PROVE SpeechStep(u) /\ ToneStep(u)
<1>1. /\ Transcribing(u) /\ speech[u].at = "transcribing" /\ ~speech[u].cancelled /\ speech[u].barge
      /\ UNCHANGED <<hold, speaking, cut, done, lost, greeting>>
    BY DEF TranscribedChatter, Transcribing, playback
<1>2. SpeechStep(u)
  <2>1. CASE SpeechDone(u)
      BY <1>1, <2>1, TranscribingIs, SpeechDoneStep
  <2>2. CASE speech' = Onwards(speech, u, "noting") /\ UNCHANGED <<reply, transcripts, pending, active>>
    <3>1. /\ SpeechTyped' /\ speech'[u].at = "noting" /\ ~speech'[u].cancelled
          /\ \A w \in Utterances \ {u} : speech'[w] = speech[w]
        BY <1>1, <2>2, SpeechGoes DEF CallInv
    <3>2. speaking' # None => speech'[speaking'].at = "spoken"
        BY <1>1, <3>1, TranscribingIs DEF CallInv, CallTypes, SpeechInv
    <3>. QED  BY <1>1, <2>2, <3>1, <3>2, TranscribingIs DEF SpeechStep, CutStep, CallInv, CallTypes
  <2>. QED  BY <2>1, <2>2 DEF TranscribedChatter, Onwards
<1>. QED  BY <1>1, <1>2, TranscribingIs DEF ToneStep, ToneInv, GreetingInv

LEMMA NotedStep ==
    ASSUME CallInv, ToneInv, NEW u \in Utterances, Noted(u) PROVE SpeechStep(u) /\ ToneStep(u)
<1>1. /\ speech[u].at = "noting" /\ transcripts' = Append(transcripts, u)
      /\ speech' = [speech EXCEPT ![u] = SpokeAt("noted")]
      /\ UNCHANGED <<hold, speaking, reply, pending, active, cut, done, lost, greeting>>
    BY DEF Noted, SpokeAt, playback
<1>2. SpokeAt("noted").at = "noted" /\ ~SpokeAt("noted").cancelled /\ SpeechFields \subseteq DOMAIN SpokeAt("noted")
    BY SpokeShape
<1>3. SpeechTyped' /\ speech'[u] = SpokeAt("noted") /\ \A w \in Utterances \ {u} : speech'[w] = speech[w]
    BY <1>1, <1>2, SpeechMade DEF CallInv
<1>4. reply[u].at = "none" /\ speaking # u /\ active # Task("speech", u)
    BY <1>1, Numbers, NotTracked DEF CallInv, SpeechInv
<1>5. SpeechStep(u)
  <2>1. speaking' # None => speech'[speaking'].at = "spoken"
      BY <1>1, <1>3, <1>4 DEF CallInv, CallTypes, SpeechInv
  <2>2. ~Takes(u)
      BY <1>1, <1>4 DEF Takes
  <2>. QED  BY <1>1, <1>2, <1>3, <1>4, <2>1, <2>2 DEF SpeechStep, CutStep, CallInv, CallTypes
<1>6. ~OwnsTone(u)
    BY <1>1, <1>4 DEF OwnsTone
<1>. QED  BY <1>1, <1>5, <1>6 DEF ToneStep, ToneInv, GreetingInv

LEMMA AnnounceFailsStep ==
    ASSUME CallInv, ToneInv, NEW u \in Utterances, AnnounceFails(u) PROVE SpeechStep(u) /\ ToneStep(u)
<1>1. /\ SpeechDone(u) /\ speech[u].at = "announcing" /\ lost' = LostTone \cup {"answer"}
      /\ UNCHANGED <<hold, speaking, cut, done, greeting>>
    BY DEF AnnounceFails, playback
<1>2. lost \subseteq lost' /\ "answer" \in lost'
    BY <1>1 DEF LostTone
<1>3. hold' => Owned' \/ "tone" \in lost'
    BY <1>1 DEF LostTone
<1>4. SpeechStep(u)
    BY <1>1, <1>2, SpeechDoneStep
<1>. QED  BY <1>1, <1>3, <1>4 DEF ToneStep, ToneInv, GreetingInv

LEMMA SpeechCancelledStep ==
    ASSUME CallInv, ToneInv, NEW u \in Utterances, SpeechCancelled(u) PROVE SpeechStep(u) /\ ToneStep(u)
<1>1. /\ SpeechDone(u) /\ speech[u].cancelled /\ hold' = (hold /\ speech[u].at = "transcribing")
      /\ UNCHANGED <<speaking, cut, done, lost, greeting>>
    BY DEF SpeechCancelled
<1>2. speech[u].at \in {"announcing", "transcribing"} /\ reply[u].at = "none"
    BY <1>1 DEF CallInv, SpeechInv
<1>3. SpeechStep(u)
  <2>1. ~Takes(u)
      BY <1>1, <1>2 DEF Takes
  <2>. QED  BY <1>1, <1>2, <2>1, SpeechDoneStep
<1>4. speech[u].at = "transcribing" => ~OwnsTone(u)
    BY <1>1, <1>2 DEF OwnsTone
<1>. QED  BY <1>1, <1>3, <1>4 DEF ToneStep, ToneInv, GreetingInv

-----------------------------------------------------------------------------
(* A keyword *)

ReplyTyped ==
    /\ DOMAIN reply = Utterances
    /\ \A v \in Utterances : ReplyFields \subseteq DOMAIN reply[v] /\ reply[v].pre \in Nat

\* That of u waits for t, and only t is cancelled.
Cancels(u, t, at) ==
    /\ SpeechTyped' /\ ReplyTyped'
    /\ speech'[u].at = at /\ ~speech'[u].cancelled
    /\ \A w \in Utterances \ {u} :
          /\ speech'[w].at = speech[w].at /\ speech'[w].barge = speech[w].barge
          /\ speech'[w].cancelled => speech[w].cancelled \/ t = Task("speech", w)
    /\ \A v \in Utterances :
          /\ reply'[v].at = reply[v].at
          /\ reply[v].cancelled => reply'[v].cancelled
          /\ reply'[v].cancelled => reply[v].cancelled \/ t = Task("reply", v)
          /\ t = Task("reply", v) => reply'[v].cancelled
    /\ active' = active

LEMMA CancelAndAwaitShape ==
    ASSUME CallTypes, NEW u \in Utterances, NEW t \in {pending, active}, NEW at,
           Alive(t), t # Task("speech", u), ~speech[u].cancelled, CancelAndAwait(u, t, at)
    PROVE  Cancels(u, t, at)
<1>1. CASE \E w \in Utterances : t = Task("speech", w)
  <2>1. PICK w \in Utterances : t = Task("speech", w) /\ w # u
      BY <1>1
  <2>2. t.kind = "speech" /\ t.u = w
      BY <2>1, TaskIs
  <2>. DEFINE marked == WithCancelled(speech, w)
              goes == OnwardsAs(marked, u, at, t)
  <2>3. speech' = goes /\ reply' = reply /\ active' = active
      BY <2>2 DEF CancelAndAwait, WithCancelled, OnwardsAs
  <2>4. /\ DOMAIN marked = Utterances /\ \A x \in Utterances : SpeechFields \subseteq DOMAIN marked[x]
        /\ marked[w].at = speech[w].at /\ marked[w].barge = speech[w].barge
        /\ \A x \in Utterances \ {w} : marked[x] = speech[x]
      BY CancelSpeechShape DEF CallTypes
  <2>. HIDE DEF marked
  <2>5. /\ DOMAIN goes = Utterances /\ \A x \in Utterances : SpeechFields \subseteq DOMAIN goes[x]
        /\ goes[u].at = at /\ goes[u].cancelled = marked[u].cancelled
        /\ \A x \in Utterances \ {u} : goes[x] = marked[x]
      BY <2>4, OnwardsAsShape
  <2>. HIDE DEF goes
  <2>6. \A v \in Utterances : t # Task("reply", v)
      BY <2>1, TaskIs
  <2>7. ~speech'[u].cancelled
      BY <2>1, <2>3, <2>4, <2>5
  <2>8. SpeechTyped'
      BY <2>3, <2>5 DEF SpeechTyped
  <2>9. ASSUME NEW x \in Utterances \ {u}
        PROVE  /\ speech'[x].at = speech[x].at /\ speech'[x].barge = speech[x].barge
               /\ speech'[x].cancelled => speech[x].cancelled \/ t = Task("speech", x)
    <3>1. CASE x = w
        BY <2>1, <2>3, <2>4, <2>5, <2>9, <3>1
    <3>2. CASE x # w
        BY <2>3, <2>4, <2>5, <2>9, <3>2
    <3>. QED  BY <3>1, <3>2
  <2>. QED  BY <2>3, <2>5, <2>6, <2>7, <2>8, <2>9 DEF Cancels, CallTypes, ReplyTyped
<1>2. CASE \E v \in Utterances : t = Task("reply", v)
  <2>1. PICK v \in Utterances : t = Task("reply", v)
      BY <1>2
  <2>2. t.kind = "reply" /\ t.u = v
      BY <2>1, TaskIs
  <2>. DEFINE marked == WithCancelled(reply, v)
              goes == OnwardsAs(speech, u, at, t)
  <2>3. speech' = goes /\ reply' = marked /\ active' = active
      BY <2>2 DEF CancelAndAwait, WithCancelled, OnwardsAs
  <2>4. /\ DOMAIN marked = Utterances /\ \A x \in Utterances : ReplyFields \subseteq DOMAIN marked[x]
        /\ marked[v].at = reply[v].at /\ marked[v].cancelled /\ marked[v].pre = reply[v].pre
        /\ \A x \in Utterances \ {v} : marked[x] = reply[x]
      BY CancelReplyShape DEF CallTypes
  <2>. HIDE DEF marked
  <2>5. /\ DOMAIN goes = Utterances /\ \A x \in Utterances : SpeechFields \subseteq DOMAIN goes[x]
        /\ goes[u].at = at /\ goes[u].cancelled = speech[u].cancelled
        /\ \A x \in Utterances \ {u} : goes[x] = speech[x]
      BY OnwardsAsShape DEF CallTypes
  <2>. HIDE DEF goes
  <2>6. \A x \in Utterances : t = Task("reply", x) => x = v
      BY <2>1, TaskIs
  <2>7. \A x \in Utterances :
          /\ reply'[x].at = reply[x].at
          /\ reply[x].cancelled => reply'[x].cancelled
          /\ reply'[x].cancelled => reply[x].cancelled \/ t = Task("reply", x)
          /\ t = Task("reply", x) => reply'[x].cancelled
      BY <2>1, <2>3, <2>4, <2>6
  <2>8. ReplyTyped'
      BY <2>3, <2>4 DEF ReplyTyped, CallTypes
  <2>. QED  BY <2>3, <2>5, <2>7, <2>8 DEF Cancels, SpeechTyped
<1>3. t # NoTask
    BY AliveIs
<1>. QED  BY <1>1, <1>2, <1>3 DEF CallTypes

\* What it cancels leaves u to take what has been said.
LEMMA CancelsKeeps ==
    ASSUME CallInv, NEW u \in Utterances, NEW t \in {pending, active}, NEW at \in {"awaitsPending", "awaitsActive"},
           Alive(t), Cancels(u, t, at), reply[u].at = "none", speaking # u, speech[u].at # "noted",
           active # Task("speech", u),
           UNCHANGED <<speaking, transcripts, pending>>, CutStep
    PROVE  CallInv'
<1>1. CallTypes'
    BY DEF CallInv, CallTypes, Cancels, SpeechTyped, ReplyTyped, CutStep
<1>2. SpeechInv'
  <2>1. speaking' # None => speech'[speaking'].at = "spoken"
      BY DEF CallInv, CallTypes, SpeechInv, Cancels
  <2>2. ASSUME NEW w \in Utterances, speech'[w].at # "done" PROVE reply'[w].at = "none"
      BY <2>2 DEF CallInv, SpeechInv, Cancels
  <2>3. ASSUME NEW w \in Utterances, speech'[w].cancelled
        PROVE  speech'[w].at = "announcing" \/ (speech'[w].at = "transcribing" /\ ~speech'[w].barge)
    <3>1. w # u
        BY <2>3 DEF Cancels
    <3>2. speech[w].cancelled \/ active = Task("speech", w)
      <4>1. \A v \in Utterances : pending # Task("speech", v)
          BY TaskIs DEF CallInv, CallTypes
      <4>. QED  BY <2>3, <3>1, <4>1 DEF Cancels
    <3>. QED  BY <3>1, <3>2 DEF CallInv, SpeechInv, Cancels
  <2>4. ASSUME NEW w \in Utterances, active' = Task("speech", w)
        PROVE  speech'[w].at = "announcing" \/ (speech'[w].at = "transcribing" /\ ~speech'[w].barge)
    <3>1. w # u /\ active = Task("speech", w)
        BY <2>4 DEF Cancels
    <3>. QED  BY <3>1 DEF CallInv, SpeechInv, Cancels
  <2>. QED  BY <2>1, <2>2, <2>3, <2>4 DEF SpeechInv
<1>3. ReplyInv'
  <2>1. ASSUME NEW v \in Utterances, Live(v)', ~reply'[v].cancelled PROVE pending' = Task("reply", v)
      BY <2>1 DEF CallInv, ReplyInv, Cancels, Live
  <2>2. ASSUME NEW v \in Utterances, reply'[v].cancelled PROVE Live(v)'
    <3>1. CASE reply[v].cancelled
        BY <3>1 DEF CallInv, ReplyInv, Cancels, Live
    <3>2. CASE t = Task("reply", v)
        BY <3>2, AliveIs DEF Cancels, Live
    <3>. QED  BY <2>2, <3>1, <3>2 DEF Cancels
  <2>3. ASSUME NEW v \in Utterances, reply'[v].at = "waiting", ~reply'[v].cancelled PROVE transcripts' # <<>>
      BY <2>3 DEF CallInv, ReplyInv, Cancels
  <2>4. ASSUME NEW v \in cut' PROVE (Live(v)' /\ reply'[v].cancelled) \/ reply'[v].at = "done"
    <3>1. CASE v \in cut
        BY <3>1 DEF CallInv, CallTypes, ReplyInv, Cancels, Live
    <3>2. CASE v \notin cut
        BY <3>2 DEF CutStep, Live
    <3>. QED  BY <3>1, <3>2
  <2>. QED  BY <2>1, <2>2, <2>3, <2>4 DEF ReplyInv, Live
<1>4. TakerInv'
    BY DEF Cancels, TakerInv, Takes
<1>. QED  BY <1>1, <1>2, <1>3, <1>4 DEF CallInv

\* GoOn of the coroutine u.
LEMMA GoOnStep ==
    ASSUME CallInv, NEW u \in Utterances, GoOn(u), ~speech[u].cancelled,
           speech[u].at \notin {"done", "noted"}, speaking # u,
           UNCHANGED <<speaking, transcripts, pending, done, lost>>, CutStep
    PROVE  SpeechStep(u) /\ OwnsTone(u)'
<1>1. /\ speech' = OnwardsAs(speech, u, "announcing", NoTask) /\ active' = Task("speech", u)
      /\ reply' = reply
    BY DEF GoOn, OnwardsAs
<1>. DEFINE goes == OnwardsAs(speech, u, "announcing", NoTask)
<1>2. /\ DOMAIN goes = Utterances /\ \A x \in Utterances : SpeechFields \subseteq DOMAIN goes[x]
      /\ goes[u].at = "announcing" /\ goes[u].cancelled = speech[u].cancelled
      /\ \A x \in Utterances \ {u} : goes[x] = speech[x]
    BY OnwardsAsShape DEF CallInv, CallTypes
<1>. HIDE DEF goes
<1>3. speech' = goes
    BY <1>1 DEF goes
<1>4. SpeechTyped' /\ speech'[u].at = "announcing" /\ ~speech'[u].cancelled
    BY <1>2, <1>3 DEF SpeechTyped
<1>5. speaking' # None => speech'[speaking'].at = "spoken"
    BY <1>2, <1>3 DEF CallInv, CallTypes, SpeechInv
<1>6. Takes(u)' /\ OwnsTone(u)'
    BY <1>4 DEF Takes, OwnsTone
<1>. QED  BY <1>1, <1>2, <1>3, <1>4, <1>5, <1>6 DEF SpeechStep, CallInv, CallTypes

\* CancelActive of u: somebody takes what has been said, and owns the tone.
LEMMA CancelActiveKeeps ==
    ASSUME CallInv, NEW u \in Utterances, CancelActive(u), ~speech[u].cancelled,
           speech[u].at \notin {"done", "noted"}, reply[u].at = "none", speaking # u,
           active # Task("speech", u),
           UNCHANGED <<speaking, transcripts, pending, done, lost>>, cut' \subseteq Utterances,
           \A v \in cut' \ cut : reply[v].at = "thinking" /\ reply[v].cancelled
    PROVE  CallInv' /\ Owned'
<1>1. CASE Alive(active)
  <2>1. CancelAndAwait(u, active, "awaitsActive")
      BY <1>1 DEF CancelActive
  <2>2. Cancels(u, active, "awaitsActive")
      BY <1>1, <2>1, CancelAndAwaitShape DEF CallInv
  <2>3. CutStep
      BY <2>2 DEF CutStep, Cancels
  <2>4. CallInv'
      BY <1>1, <2>2, <2>3, CancelsKeeps
  <2>5. Owned'
      BY <2>2 DEF Cancels, Owned
  <2>. QED  BY <2>4, <2>5
<1>2. CASE ~Alive(active)
  <2>1. GoOn(u)
      BY <1>2 DEF CancelActive
  <2>2. CutStep
      BY <2>1 DEF GoOn, CutStep
  <2>3. SpeechStep(u) /\ OwnsTone(u)'
      BY <2>1, <2>2, GoOnStep
  <2>. QED  BY <2>3, SpeechStepKeeps DEF Owned, OwnsTone
<1>. QED  BY <1>1, <1>2

\* A tone that somebody owns at the end of a step.
LEMMA OwnedTone ==
    ASSUME ToneInv, hold' \in BOOLEAN, UNCHANGED greeting, hold' => Owned' PROVE ToneInv'
BY DEF ToneInv, GreetingInv, HoldHasOwner

LEMMA AwaitedKeeps ==
    ASSUME CallInv, ToneInv, NEW u \in Utterances, Awaited(u) PROVE CallInv' /\ ToneInv'
<1>1. /\ speech[u].at \in {"awaitsPending", "awaitsActive"}
      /\ UNCHANGED <<hold, speaking, transcripts, pending, greeting, done, lost, cut>>
    BY DEF Awaited, playback
<1>2. reply[u].at = "none" /\ speaking # u /\ ~speech[u].cancelled /\ active # Task("speech", u)
    BY <1>1, Numbers, NotTracked DEF CallInv, SpeechInv
<1>3. CallInv' /\ Owned'
  <2>1. CASE CancelActive(u)
      BY <1>1, <1>2, <2>1, CancelActiveKeeps DEF CallInv, CallTypes
  <2>2. CASE GoOn(u)
    <3>1. CutStep
        BY <1>1 DEF CutStep, CallInv, CallTypes
    <3>2. SpeechStep(u) /\ OwnsTone(u)'
        BY <1>1, <1>2, <2>2, <3>1, GoOnStep
    <3>. QED  BY <3>2, SpeechStepKeeps DEF Owned, OwnsTone
  <2>. QED  BY <2>1, <2>2 DEF Awaited
<1>. QED  BY <1>1, <1>3, OwnedTone DEF ToneInv

\* With the keyword, every reply that is being generated has been cancelled.
LEMMA KeywordKeeps ==
    ASSUME CallInv, ToneInv, NEW u \in Utterances, TranscribedKeyword(u) PROVE CallInv' /\ ToneInv'
<1>1. /\ Transcribing(u) /\ speech[u].barge /\ speech[u].at = "transcribing" /\ ~speech[u].cancelled
      /\ hold' = FALSE /\ cut' = cut \cup {v \in Utterances : reply[v].at = "thinking"}
      /\ CancelActiveResponse(u)
      /\ UNCHANGED <<speaking, transcripts, pending, greeting, done, lost>>
    BY DEF TranscribedKeyword, Transcribing
<1>2. reply[u].at = "none" /\ speaking # u /\ active # Task("speech", u)
    BY <1>1, TranscribingIs
<1>3. cut' \subseteq Utterances /\ \A v \in cut' \ cut : v \in Utterances /\ reply[v].at = "thinking"
    BY <1>1 DEF CallInv, CallTypes
<1>4. \A v \in cut' \ cut : reply[v].cancelled \/ pending = Task("reply", v)
    BY <1>3 DEF CallInv, ReplyInv, Live
<1>5. CallInv'
  <2>1. CASE Alive(pending)
    <3>1. CancelAndAwait(u, pending, "awaitsPending")
        BY <1>1, <2>1 DEF CancelActiveResponse
    <3>2. pending # Task("speech", u)
        BY TaskIs DEF CallInv, CallTypes
    <3>3. Cancels(u, pending, "awaitsPending")
        BY <1>1, <2>1, <3>1, <3>2, CancelAndAwaitShape DEF CallInv
    <3>4. CutStep
        BY <1>3, <1>4, <3>3 DEF CutStep, Cancels
    <3>. QED  BY <1>1, <1>2, <2>1, <3>3, <3>4, CancelsKeeps
  <2>2. CASE ~Alive(pending)
    <3>1. CancelActive(u)
        BY <1>1, <2>2 DEF CancelActiveResponse
    <3>2. \A v \in cut' \ cut : pending # Task("reply", v)
        BY <1>3, <2>2, AliveIs DEF Live
    <3>. QED  BY <1>1, <1>2, <1>3, <1>4, <3>1, <3>2, CancelActiveKeeps
  <2>. QED  BY <2>1, <2>2
<1>6. ToneInv'
    BY <1>1, OwnedTone
<1>. QED  BY <1>5, <1>6

-----------------------------------------------------------------------------
(* Replies *)

Replying(at, rounds) == [NoReply EXCEPT !.at = at, !.rounds = rounds]
ReplyAs(at) == [NoReply EXCEPT !.at = at]

LEMMA ReplyingShape ==
    /\ \A at, rounds : /\ Replying(at, rounds).at = at /\ ~Replying(at, rounds).cancelled
                       /\ ReplyFields \subseteq DOMAIN Replying(at, rounds) /\ Replying(at, rounds).pre = 0
    /\ \A at : /\ ReplyAs(at).at = at /\ ~ReplyAs(at).cancelled
               /\ ReplyFields \subseteq DOMAIN ReplyAs(at) /\ ReplyAs(at).pre = 0
BY DEF Replying, ReplyAs, NoReply, ReplyFields

\* The response that a new utterance overtakes is cancelled, and no other.
LEMMA SupersededShape ==
    ASSUME CallTypes
    PROVE  LET after == Superseded(pending)
           IN  /\ DOMAIN after = Utterances
               /\ \A v \in Utterances : ReplyFields \subseteq DOMAIN after[v] /\ after[v].pre \in Nat
               /\ \A v \in Utterances :
                    /\ after[v].at = reply[v].at
                    /\ reply[v].cancelled => after[v].cancelled
                    /\ after[v].cancelled => reply[v].cancelled \/ Live(v)
                    /\ pending = Task("reply", v) /\ Live(v) => after[v].cancelled
<1>1. CASE ~Alive(pending)
  <2>1. Superseded(pending) = reply
      BY <1>1 DEF Superseded
  <2>2. \A v \in Utterances : pending = Task("reply", v) => ~Live(v)
      BY <1>1, AliveIs
  <2>. QED  BY <2>1, <2>2 DEF CallTypes
<1>2. CASE Alive(pending)
  <2>1. PICK w \in Utterances : pending = Task("reply", w)
      BY <1>2, AliveIs DEF CallTypes
  <2>2. pending.u = w /\ Live(w)
      BY <1>2, <2>1, TaskIs, AliveIs
  <2>. DEFINE after == WithCancelled(reply, w)
  <2>3. Superseded(pending) = after
      BY <1>2, <2>2 DEF Superseded, WithCancelled
  <2>4. /\ DOMAIN after = Utterances /\ \A v \in Utterances : ReplyFields \subseteq DOMAIN after[v]
        /\ after[w].at = reply[w].at /\ after[w].cancelled /\ after[w].pre = reply[w].pre
        /\ \A v \in Utterances \ {w} : after[v] = reply[v]
      BY CancelReplyShape DEF CallTypes
  <2>. HIDE DEF after
  <2>5. \A v \in Utterances : pending = Task("reply", v) => v = w
      BY <2>1, TaskIs
  <2>6. \A v \in Utterances : after[v].pre \in Nat
      BY <2>4 DEF CallTypes
  <2>. QED  BY <2>2, <2>3, <2>4, <2>5, <2>6
<1>. QED  BY <1>1, <1>2

LEMMA AnnouncedKeeps ==
    ASSUME CallInv, ToneInv, NEW u \in Utterances, Announced(u) PROVE CallInv' /\ ToneInv'
<1>. DEFINE after == Superseded(pending)
<1>1. /\ speech[u].at = "announcing" /\ ~speech[u].cancelled
      /\ transcripts' = Append(transcripts, u)
      /\ reply' = [after EXCEPT ![u] = ReplyAs("waiting")]
      /\ pending' = Task("reply", u) /\ active' = Task("reply", u)
      /\ speech' = [speech EXCEPT ![u] = SpokeAt("done")]
      /\ UNCHANGED <<hold, speaking, greeting, done, lost, cut>>
    BY DEF Announced, ReplyAs, SpokeAt, playback
<1>2. reply[u].at = "none" /\ speaking # u
    BY <1>1, Numbers DEF CallInv, SpeechInv
<1>3. /\ DOMAIN after = Utterances
      /\ \A v \in Utterances : ReplyFields \subseteq DOMAIN after[v] /\ after[v].pre \in Nat
      /\ \A v \in Utterances :
            /\ after[v].at = reply[v].at
            /\ reply[v].cancelled => after[v].cancelled
            /\ after[v].cancelled => reply[v].cancelled \/ Live(v)
            /\ pending = Task("reply", v) /\ Live(v) => after[v].cancelled
    BY SupersededShape DEF CallInv
<1>. HIDE DEF after
<1>4. SpokeAt("done").at = "done" /\ ~SpokeAt("done").cancelled /\ SpeechFields \subseteq DOMAIN SpokeAt("done")
    BY SpokeShape
<1>5. SpeechTyped' /\ speech'[u] = SpokeAt("done") /\ \A w \in Utterances \ {u} : speech'[w] = speech[w]
    BY <1>1, <1>4, SpeechMade DEF CallInv
<1>6. /\ ReplyAs("waiting").at = "waiting" /\ ~ReplyAs("waiting").cancelled
      /\ ReplyFields \subseteq DOMAIN ReplyAs("waiting") /\ ReplyAs("waiting").pre = 0
    BY ReplyingShape
<1>7. reply'[u] = ReplyAs("waiting") /\ \A v \in Utterances \ {u} : reply'[v] = after[v]
    BY <1>1, <1>3
<1>8. ReplyTyped'
    BY <1>1, <1>3, <1>6, <1>7 DEF ReplyTyped
<1>9. CallTypes'
  <2>1. transcripts' \in Seq(Utterances)
      BY <1>1 DEF CallInv, CallTypes
  <2>. QED  BY <1>1, <1>5, <1>8, <2>1 DEF CallInv, CallTypes, SpeechTyped, ReplyTyped
<1>10. SpeechInv'
  <2>1. speaking' # None => speech'[speaking'].at = "spoken"
      BY <1>1, <1>2, <1>5 DEF CallInv, CallTypes, SpeechInv
  <2>2. ASSUME NEW w \in Utterances, speech'[w].at # "done" PROVE reply'[w].at = "none"
      BY <1>3, <1>4, <1>5, <1>7, <2>2 DEF CallInv, SpeechInv
  <2>3. ASSUME NEW w \in Utterances, speech'[w].cancelled
        PROVE  speech'[w].at = "announcing" \/ (speech'[w].at = "transcribing" /\ ~speech'[w].barge)
      BY <1>4, <1>5, <2>3 DEF CallInv, SpeechInv
  <2>4. \A w \in Utterances : active' # Task("speech", w)
      BY <1>1, TaskIs
  <2>. QED  BY <2>1, <2>2, <2>3, <2>4 DEF SpeechInv
<1>11. ReplyInv'
  <2>1. ASSUME NEW v \in Utterances, Live(v)', ~reply'[v].cancelled PROVE pending' = Task("reply", v)
    <3>1. CASE v = u
        BY <1>1, <3>1
    <3>2. CASE v # u
      <4>1. Live(v) /\ ~reply[v].cancelled
          BY <1>3, <1>7, <2>1, <3>2 DEF Live
      <4>2. pending = Task("reply", v)
          BY <4>1 DEF CallInv, ReplyInv
      <4>. QED  BY <1>3, <1>7, <2>1, <3>2, <4>1, <4>2
    <3>. QED  BY <3>1, <3>2
  <2>2. ASSUME NEW v \in Utterances, reply'[v].cancelled PROVE Live(v)'
    <3>1. v # u
        BY <1>6, <1>7, <2>2
    <3>2. Live(v)
        BY <1>3, <1>7, <2>2, <3>1 DEF CallInv, ReplyInv
    <3>. QED  BY <1>3, <1>7, <3>1, <3>2 DEF Live
  <2>3. transcripts' # <<>>
      BY <1>1 DEF CallInv, CallTypes
  <2>4. ASSUME NEW v \in cut' PROVE (Live(v)' /\ reply'[v].cancelled) \/ reply'[v].at = "done"
    <3>1. v \in cut /\ v \in Utterances /\ v # u
        BY <1>1, <1>2 DEF CallInv, CallTypes, ReplyInv, Live
    <3>. QED  BY <1>3, <1>7, <3>1 DEF CallInv, ReplyInv, Live
  <2>. QED  BY <2>1, <2>2, <2>3, <2>4 DEF ReplyInv, Live
<1>12. TakerInv'
    BY <1>6, <1>7 DEF TakerInv, Takes
<1>13. Owned'
    BY <1>6, <1>7 DEF Owned
<1>14. ToneInv'
    BY <1>1, <1>13, OwnedTone DEF ToneInv
<1>. QED  BY <1>9, <1>10, <1>11, <1>12, <1>14 DEF CallInv

\* The coroutine of v goes on with its reply, uncancelled, or ends.
ReplyGoesOn(v) ==
    /\ ~reply[v].cancelled /\ ~reply'[v].cancelled
    /\ reply'[v].at \in {"thinking", "sending"}
    /\ UNCHANGED <<pending, active>>
    /\ transcripts' = transcripts \/ transcripts' = <<>>

ReplyEnds(v) ==
    /\ reply'[v].at = "done" /\ ~reply'[v].cancelled
    /\ pending' = pending \/ (pending = Task("reply", v) /\ pending' = NoTask)
    /\ active' \in {active, NoTask}
    /\ transcripts' = transcripts

ReplyStep(v) ==
    /\ Live(v) /\ ReplyTyped'
    /\ \A w \in Utterances \ {v} : reply'[w] = reply[w]
    /\ ReplyGoesOn(v) \/ ReplyEnds(v)
    /\ reply[v].at = "waiting" /\ ~reply[v].cancelled => done' \/ transcripts' = <<>>
    /\ UNCHANGED <<speech, speaking, cut>>
    /\ (done => done') /\ lost \subseteq lost'

LEMMA ReplyStepKeeps ==
    ASSUME CallInv, NEW v \in Utterances, ReplyStep(v) PROVE CallInv'
<1>1. CallTypes'
  <2>1. transcripts' \in Seq(Utterances)
    <3>1. transcripts' \in {transcripts, <<>>}
        BY DEF ReplyStep, ReplyGoesOn, ReplyEnds
    <3>. QED  BY <3>1, EmptySeq DEF CallInv, CallTypes
  <2>2. pending' \in {pending, NoTask} /\ active' \in {active, NoTask}
      BY DEF ReplyStep, ReplyGoesOn, ReplyEnds
  <2>3. ReplyTyped' /\ UNCHANGED <<speech, speaking, cut>>
      BY DEF ReplyStep
  <2>. QED  BY <2>1, <2>2, <2>3 DEF CallInv, CallTypes, ReplyTyped
<1>2. SpeechInv'
  <2>1. \A w \in Utterances : speech'[w].at # "done" => reply'[w].at = "none"
      BY DEF CallInv, SpeechInv, ReplyStep, Live
  <2>2. \A w \in Utterances : active' = Task("speech", w) => active = Task("speech", w)
      BY TaskIs DEF ReplyStep, ReplyGoesOn, ReplyEnds
  <2>. QED  BY <2>1, <2>2 DEF CallInv, SpeechInv, ReplyStep
<1>3. ReplyInv'
  <2>1. ASSUME NEW w \in Utterances, Live(w)', ~reply'[w].cancelled PROVE pending' = Task("reply", w)
    <3>1. CASE w = v
        BY <2>1, <3>1 DEF CallInv, ReplyInv, ReplyStep, ReplyGoesOn, ReplyEnds, Live
    <3>2. CASE w # v
      <4>1. pending = Task("reply", w)
          BY <2>1, <3>2 DEF CallInv, ReplyInv, ReplyStep, Live
      <4>2. pending # Task("reply", v)
          BY <3>2, <4>1, TaskIs
      <4>. QED  BY <4>1, <4>2 DEF ReplyStep, ReplyGoesOn, ReplyEnds
    <3>. QED  BY <3>1, <3>2
  <2>2. ASSUME NEW w \in Utterances, reply'[w].cancelled PROVE Live(w)'
    <3>1. w # v
        BY <2>2 DEF ReplyStep, ReplyGoesOn, ReplyEnds
    <3>. QED  BY <2>2, <3>1 DEF CallInv, ReplyInv, ReplyStep, Live
  <2>3. ASSUME NEW w \in Utterances, reply'[w].at = "waiting", ~reply'[w].cancelled PROVE transcripts' # <<>>
    <3>1. w # v
        BY <2>3 DEF ReplyStep, ReplyGoesOn, ReplyEnds
    <3>2. pending = Task("reply", w) /\ transcripts # <<>>
        BY <2>3, <3>1 DEF CallInv, ReplyInv, ReplyStep, Live
    <3>3. pending # Task("reply", v)
        BY <3>1, <3>2, TaskIs
    <3>4. reply[v].cancelled
        BY <3>3 DEF CallInv, ReplyInv, ReplyStep
    <3>. QED  BY <3>2, <3>4 DEF ReplyStep, ReplyGoesOn, ReplyEnds
  <2>4. ASSUME NEW w \in cut' PROVE (Live(w)' /\ reply'[w].cancelled) \/ reply'[w].at = "done"
    <3>1. w \in cut /\ w \in Utterances
        BY DEF ReplyStep, CallInv, CallTypes
    <3>2. CASE w = v
        BY <3>1, <3>2 DEF CallInv, ReplyInv, ReplyStep, ReplyGoesOn, ReplyEnds, Live
    <3>3. CASE w # v
        BY <3>1, <3>3 DEF CallInv, ReplyInv, ReplyStep, Live
    <3>. QED  BY <3>2, <3>3
  <2>. QED  BY <2>1, <2>2, <2>3, <2>4 DEF ReplyInv, Live
<1>4. TakerInv'
  <2>. SUFFICES ASSUME Unanswered', ~done', "answer" \notin lost' PROVE \E w \in Utterances : Takes(w)'
      BY DEF TakerInv
  <2>1. transcripts' # <<>>
      BY DEF Unanswered
  <2>2. transcripts' = transcripts
      BY <2>1 DEF ReplyStep, ReplyGoesOn, ReplyEnds
  <2>3. Unanswered
      BY <2>2 DEF Unanswered, ReplyStep
  <2>4. PICK w \in Utterances : Takes(w)
      BY <2>3 DEF CallInv, TakerInv, ReplyStep
  <2>5. Takes(w)'
    <3>1. CASE w = v
        BY <2>1, <2>4, <3>1 DEF ReplyStep, Takes
    <3>2. CASE w # v
        BY <2>4, <3>2 DEF ReplyStep, Takes
    <3>. QED  BY <3>1, <3>2
  <2>. QED  BY <2>5
<1>. QED  BY <1>1, <1>2, <1>3, <1>4 DEF CallInv

\* A reply that thinks owns the tone; one that ends has ended it.
LEMMA ReplyStepTone ==
    ASSUME CallInv, ToneInv, NEW v \in Utterances, ReplyStep(v), UNCHANGED greeting, hold' \in BOOLEAN,
           hold' /\ ~done' => reply'[v].at = "thinking" \/ (hold /\ reply[v].at = "sending")
                              \/ (hold /\ reply[v].at = "waiting" /\ reply[v].cancelled)
    PROVE  ToneInv'
<1>1. \A w \in Utterances \ {v} : OwnsTone(w) => OwnsTone(w)'
    BY DEF ReplyStep, OwnsTone
<1>2. speech[v].at = "done"
    BY DEF CallInv, SpeechInv, ReplyStep, Live
<1>3. reply[v].at = "sending" => ~OwnsTone(v)
    BY <1>2 DEF OwnsTone
<1>4. reply[v].at = "waiting" /\ reply[v].cancelled => ~OwnsTone(v)
    BY <1>2 DEF OwnsTone
<1>5. reply'[v].at = "thinking" => Owned'
    BY DEF Owned
<1>6. GreetingInv' /\ (GreetingOwns => GreetingOwns')
    BY DEF ToneInv, GreetingInv, GreetingOwns
<1>. QED  BY <1>1, <1>3, <1>4, <1>5, <1>6, TonePasses DEF ReplyStep

LEMMA ReplyMade ==
    ASSUME CallTypes, NEW v \in Utterances, NEW r, ReplyFields \subseteq DOMAIN r, r.pre = 0,
           reply' = [reply EXCEPT ![v] = r]
    PROVE  ReplyTyped' /\ reply'[v] = r /\ \A w \in Utterances \ {v} : reply'[w] = reply[w]
BY DEF CallTypes, ReplyTyped

\* The coroutine of v ends.
LEMMA ReplyDoneShape ==
    ASSUME CallTypes, NEW v \in Utterances, ReplyDone(v)
    PROVE  /\ ReplyTyped' /\ ReplyEnds(v) /\ UNCHANGED speech
           /\ \A w \in Utterances \ {v} : reply'[w] = reply[w]
<1>1. reply' = [reply EXCEPT ![v] = ReplyAs("done")]
    BY DEF ReplyDone, ReplyAs
<1>2. /\ ReplyAs("done").at = "done" /\ ~ReplyAs("done").cancelled
      /\ ReplyFields \subseteq DOMAIN ReplyAs("done") /\ ReplyAs("done").pre = 0
    BY ReplyingShape
<1>3. ReplyTyped' /\ reply'[v] = ReplyAs("done") /\ \A w \in Utterances \ {v} : reply'[w] = reply[w]
    BY <1>1, <1>2, ReplyMade
<1>4. /\ pending' = pending \/ (pending = Task("reply", v) /\ pending' = NoTask)
      /\ active' \in {active, NoTask} /\ UNCHANGED <<speech, transcripts>>
    BY DEF ReplyDone, Untracked
<1>. QED  BY <1>2, <1>3, <1>4 DEF ReplyEnds

\* It takes the transcripts.
LEMMA TakeShape ==
    ASSUME CallTypes, NEW v \in Utterances, NEW rounds, TakeTranscripts(v, rounds), ~reply[v].cancelled
    PROVE  /\ ReplyTyped' /\ ReplyGoesOn(v) /\ UNCHANGED speech /\ transcripts' = <<>>
           /\ reply'[v].at = "thinking" /\ hold' = TRUE
           /\ \A w \in Utterances \ {v} : reply'[w] = reply[w]
<1>1. /\ reply' = [reply EXCEPT ![v] = Replying("thinking", rounds)]
      /\ transcripts' = <<>> /\ hold' = TRUE /\ UNCHANGED <<speech, pending, active>>
    BY DEF TakeTranscripts, Replying
<1>2. /\ Replying("thinking", rounds).at = "thinking" /\ ~Replying("thinking", rounds).cancelled
      /\ ReplyFields \subseteq DOMAIN Replying("thinking", rounds)
      /\ Replying("thinking", rounds).pre = 0
    BY ReplyingShape
<1>3. /\ ReplyTyped' /\ reply'[v] = Replying("thinking", rounds)
      /\ \A w \in Utterances \ {v} : reply'[w] = reply[w]
    BY <1>1, <1>2, ReplyMade
<1>. QED  BY <1>1, <1>2, <1>3 DEF ReplyGoesOn

LEMMA ReplyStartsStep ==
    ASSUME CallInv, ToneInv, NEW v \in Utterances, ReplyStarts(v) PROVE CallInv' /\ ToneInv'
<1>1. /\ reply[v].at = "waiting" /\ ~reply[v].cancelled /\ TakeTranscripts(v, 0)
      /\ UNCHANGED <<speaking, greeting, done, cut, lost>>
    BY DEF ReplyStarts
<1>2. /\ ReplyTyped' /\ ReplyGoesOn(v) /\ UNCHANGED speech /\ transcripts' = <<>>
      /\ reply'[v].at = "thinking" /\ hold' = TRUE
      /\ \A w \in Utterances \ {v} : reply'[w] = reply[w]
    BY <1>1, TakeShape DEF CallInv
<1>3. ReplyStep(v)
    BY <1>1, <1>2 DEF ReplyStep, Live
<1>. QED  BY <1>1, <1>2, <1>3, ReplyStepKeeps, ReplyStepTone

\* A reply that waits has something to wait for, so it ends in silence only with the call.
LEMMA ReplyIdleStep ==
    ASSUME CallInv, ToneInv, NEW v \in Utterances, ReplyIdle(v) PROVE CallInv' /\ ToneInv'
<1>1. /\ reply[v].at = "waiting" /\ ~reply[v].cancelled /\ ReplyDone(v)
      /\ UNCHANGED <<hold, speaking, greeting, done, cut, lost>>
    BY DEF ReplyIdle, playback
<1>2. done'
    BY <1>1 DEF ReplyIdle, CallInv, ReplyInv
<1>3. ReplyStep(v)
    BY <1>1, <1>2, ReplyDoneShape DEF CallInv, ReplyStep, Live
<1>. QED  BY <1>1, <1>2, <1>3, ReplyStepKeeps, ReplyStepTone DEF ToneInv

\* The counters of a reply, which nothing above depends on.
Counted(f, v, said, pre, begun) == [f EXCEPT ![v].said = said, ![v].pre = pre, ![v].begun = begun]
SentAs(f, v) == [f EXCEPT ![v].at = "sending", ![v].pre = 0, ![v].begun = FALSE, ![v].said = 0]

LEMMA CountedShape ==
    ASSUME CallTypes, NEW v \in Utterances, NEW said, NEW pre \in Nat, NEW begun,
           reply' = Counted(reply, v, said, pre, begun)
    PROVE  /\ ReplyTyped' /\ reply'[v].at = reply[v].at /\ reply'[v].cancelled = reply[v].cancelled
           /\ \A w \in Utterances \ {v} : reply'[w] = reply[w]
<1>. DEFINE r == [[[reply[v] EXCEPT !.said = said] EXCEPT !.pre = pre] EXCEPT !.begun = begun]
<1>1. ReplyFields \subseteq DOMAIN reply[v] /\ DOMAIN reply = Utterances
    BY DEF CallTypes
<1>2. ReplyFields \subseteq DOMAIN r /\ r.at = reply[v].at /\ r.cancelled = reply[v].cancelled /\ r.pre = pre
    BY <1>1 DEF ReplyFields
<1>3. reply'[v] = r /\ DOMAIN reply' = Utterances /\ \A w \in Utterances \ {v} : reply'[w] = reply[w]
    BY <1>1 DEF Counted
<1>. HIDE DEF r
<1>. QED  BY <1>2, <1>3 DEF ReplyTyped, CallTypes

LEMMA SentShape ==
    ASSUME CallTypes, NEW v \in Utterances, reply' = SentAs(reply, v)
    PROVE  /\ ReplyTyped' /\ reply'[v].at = "sending" /\ reply'[v].cancelled = reply[v].cancelled
           /\ \A w \in Utterances \ {v} : reply'[w] = reply[w]
<1>. DEFINE r == [[[[reply[v] EXCEPT !.at = "sending"] EXCEPT !.pre = 0] EXCEPT !.begun = FALSE] EXCEPT !.said = 0]
<1>1. ReplyFields \subseteq DOMAIN reply[v] /\ DOMAIN reply = Utterances
    BY DEF CallTypes
<1>2. ReplyFields \subseteq DOMAIN r /\ r.at = "sending" /\ r.cancelled = reply[v].cancelled /\ r.pre = 0
    BY <1>1 DEF ReplyFields
<1>3. reply'[v] = r /\ DOMAIN reply' = Utterances /\ \A w \in Utterances \ {v} : reply'[w] = reply[w]
    BY <1>1 DEF SentAs
<1>. HIDE DEF r
<1>. QED  BY <1>2, <1>3 DEF ReplyTyped, CallTypes

LEMMA ReplySpeaksStep ==
    ASSUME CallInv, ToneInv, NEW v \in Utterances, ReplySpeaks(v) PROVE CallInv' /\ ToneInv'
<1>1. /\ reply[v].at = "thinking" /\ ~reply[v].cancelled /\ Sentence(v)
      /\ UNCHANGED <<speaking, speech, transcripts, pending, active, greeting, done, cut, lost>>
    BY DEF ReplySpeaks, Thinking
<1>2. \E said, begun : \E pre \in Nat : reply' = Counted(reply, v, said, pre, begun)
  <2>. DEFINE collects == ~reply[v].begun /\ reply[v].pre + 1 < Prebuffer
  <2>1. reply' = Counted(reply, v, reply[v].said + 1, IF collects THEN reply[v].pre + 1 ELSE 0, ~collects)
      BY <1>1 DEF Sentence, Counted
  <2>2. (IF collects THEN reply[v].pre + 1 ELSE 0) \in Nat
      BY DEF CallInv, CallTypes
  <2>. QED  BY <2>1, <2>2
<1>3. /\ ReplyTyped' /\ reply'[v].at = reply[v].at /\ reply'[v].cancelled = reply[v].cancelled
      /\ \A w \in Utterances \ {v} : reply'[w] = reply[w]
    BY <1>2, CountedShape DEF CallInv
<1>4. hold' \in BOOLEAN
    BY <1>1 DEF Sentence, Play, ToneInv, playback
<1>5. ReplyStep(v)
    BY <1>1, <1>3 DEF ReplyStep, ReplyGoesOn, Live
<1>. QED  BY <1>1, <1>3, <1>4, <1>5, ReplyStepKeeps, ReplyStepTone

LEMMA RepliedStep ==
    ASSUME CallInv, ToneInv, NEW v \in Utterances, Replied(v) PROVE CallInv' /\ ToneInv'
<1>1. /\ reply[v].at = "thinking" /\ ~reply[v].cancelled /\ hold' = FALSE /\ reply' = SentAs(reply, v)
      /\ UNCHANGED <<speaking, speech, transcripts, pending, active, greeting, done, cut, lost>>
    BY DEF Replied, Thinking, ReplyEnd, SentAs
<1>2. /\ ReplyTyped' /\ reply'[v].at = "sending" /\ reply'[v].cancelled = reply[v].cancelled
      /\ \A w \in Utterances \ {v} : reply'[w] = reply[w]
    BY <1>1, SentShape DEF CallInv
<1>3. ReplyStep(v)
    BY <1>1, <1>2 DEF ReplyStep, ReplyGoesOn, Live
<1>. QED  BY <1>1, <1>3, ReplyStepKeeps, ReplyStepTone

LEMMA ReplyFailsStep ==
    ASSUME CallInv, ToneInv, NEW v \in Utterances, ReplyFails(v) PROVE CallInv' /\ ToneInv'
<1>1. /\ reply[v].at = "thinking" /\ ~reply[v].cancelled /\ hold' = FALSE /\ ReplyDone(v)
      /\ UNCHANGED <<speaking, greeting, done, cut, lost>>
    BY DEF ReplyFails, Thinking
<1>2. ReplyStep(v)
    BY <1>1, ReplyDoneShape DEF CallInv, ReplyStep, Live
<1>. QED  BY <1>1, <1>2, ReplyStepKeeps, ReplyStepTone

LEMMA ReplySentStep ==
    ASSUME CallInv, ToneInv, NEW v \in Utterances, ReplySent(v) PROVE CallInv' /\ ToneInv'
<1>1. /\ reply[v].at = "sending" /\ ~reply[v].cancelled
      /\ UNCHANGED <<speaking, greeting, done, cut, lost>>
    BY DEF ReplySent
<1>2. CASE TakeTranscripts(v, reply[v].rounds + 1)
  <2>1. /\ ReplyTyped' /\ ReplyGoesOn(v) /\ UNCHANGED speech /\ transcripts' = <<>>
        /\ reply'[v].at = "thinking" /\ hold' = TRUE
        /\ \A w \in Utterances \ {v} : reply'[w] = reply[w]
      BY <1>1, <1>2, TakeShape DEF CallInv
  <2>2. ReplyStep(v)
      BY <1>1, <2>1 DEF ReplyStep, Live
  <2>. QED  BY <1>1, <2>1, <2>2, ReplyStepKeeps, ReplyStepTone
<1>3. CASE ReplyDone(v) /\ UNCHANGED hold
  <2>1. ReplyStep(v)
      BY <1>1, <1>3, ReplyDoneShape DEF CallInv, ReplyStep, Live
  <2>. QED  BY <1>1, <1>3, <2>1, ReplyStepKeeps, ReplyStepTone DEF ToneInv
<1>. QED  BY <1>2, <1>3 DEF ReplySent

LEMMA ReplyCancelledStep ==
    ASSUME CallInv, ToneInv, NEW v \in Utterances, ReplyCancelled(v) PROVE CallInv' /\ ToneInv'
<1>1. /\ reply[v].cancelled /\ hold' = (hold /\ reply[v].at # "thinking") /\ ReplyDone(v)
      /\ UNCHANGED <<speaking, greeting, done, cut, lost>>
    BY DEF ReplyCancelled
<1>2. Live(v)
    BY <1>1 DEF CallInv, ReplyInv
<1>3. ReplyStep(v)
    BY <1>1, <1>2, ReplyDoneShape DEF CallInv, ReplyStep
<1>4. hold' /\ ~done' => reply'[v].at = "thinking" \/ (hold /\ reply[v].at = "sending")
                              \/ (hold /\ reply[v].at = "waiting" /\ reply[v].cancelled)
    BY <1>1, <1>2 DEF Live
<1>. QED  BY <1>1, <1>3, <1>4, ReplyStepKeeps, ReplyStepTone

-----------------------------------------------------------------------------
(* The greeting, the playback and the call *)

\* Steps that leave the coroutines alone.
LEMMA RestKeeps ==
    ASSUME CallInv, UNCHANGED <<speech, reply, transcripts, pending, active, speaking, cut>>,
           done => done', lost \subseteq lost'
    PROVE  CallInv'
<1>1. CallTypes'
    BY DEF CallInv, CallTypes
<1>2. SpeechInv'
    BY DEF CallInv, SpeechInv
<1>3. ReplyInv'
    BY DEF CallInv, ReplyInv, Live
<1>4. TakerInv'
    BY DEF CallInv, TakerInv, Takes, Unanswered
<1>. QED  BY <1>1, <1>2, <1>3, <1>4 DEF CallInv

LEMMA RestTone ==
    ASSUME ToneInv, UNCHANGED <<speech, reply>>, GreetingInv', hold' \in BOOLEAN, done => done', lost \subseteq lost',
           GreetingOwns => GreetingOwns' \/ done' \/ ~hold',
           hold' /\ ~done' => Owned' \/ "tone" \in lost' \/ hold
    PROVE  ToneInv'
<1>1. \A w \in Utterances \ {None} : OwnsTone(w) => OwnsTone(w)'
    BY DEF OwnsTone
<1>. QED  BY <1>1, Numbers, TonePasses

LEMMA PlaybackStep ==
    ASSUME CallInv, ToneInv, NextSentence \/ SentenceEnds \/ Connected \/ \E v \in Utterances : SkillRuns(v)
    PROVE  CallInv' /\ ToneInv'
<1>1. UNCHANGED <<speech, reply, transcripts, pending, active, speaking, cut, greeting, done, lost>>
    BY DEF NextSentence, SentenceEnds, Connected, SkillRuns, tasks, playback
<1>2. hold' \in BOOLEAN /\ (hold' => hold \/ Owned')
  <2>1. CASE \E v \in Utterances : SkillRuns(v)
      BY <1>1, <2>1 DEF SkillRuns, Thinking, Owned
  <2>2. CASE hold' = hold
      BY <2>2 DEF ToneInv
  <2>. QED  BY <2>1, <2>2 DEF NextSentence, SentenceEnds, Connected, playback
<1>3. GreetingInv' /\ (GreetingOwns => GreetingOwns')
    BY <1>1 DEF ToneInv, GreetingInv, GreetingOwns
<1>. QED  BY <1>1, <1>2, <1>3, RestKeeps, RestTone

\* The call ends, and with it what was being said.
LEMMA EndedShape ==
    ASSUME ToneInv, Ended PROVE done' /\ GreetingInv'
<1>. DEFINE sent(p) == [[greeting EXCEPT !.prepared = p] EXCEPT !.send = "done"]
<1>1. done' /\ \E p : greeting' = sent(p)
    BY DEF Ended
<1>2. ASSUME NEW p
      PROVE  /\ {"prepared", "send", "pcm", "flushed"} \subseteq DOMAIN sent(p)
             /\ sent(p).pcm = greeting.pcm /\ sent(p).flushed = greeting.flushed
    BY DEF ToneInv, GreetingInv
<1>. HIDE DEF sent
<1>. QED  BY <1>1, <1>2 DEF ToneInv, GreetingInv

LEMMA CallOverStep ==
    ASSUME CallInv, ToneInv, InactivityHangup \/ ConnectTimeout PROVE CallInv' /\ ToneInv'
<1>1. Ended /\ UNCHANGED <<hold, speech, reply, transcripts, pending, active, speaking, cut, lost>>
    BY DEF InactivityHangup, ConnectTimeout, tasks, playback
<1>2. done' /\ GreetingInv'
    BY <1>1, EndedShape
<1>. QED  BY <1>1, <1>2, RestKeeps, RestTone DEF ToneInv

LEMMA CallEndsStep ==
    ASSUME CallInv, ToneInv, CallEnds PROVE CallInv' /\ ToneInv'
<1>1. /\ Ended /\ speaking' = None
      /\ speech' = [u \in Utterances |-> IF u = speaking THEN SpokeAt("done") ELSE speech[u]]
      /\ UNCHANGED <<hold, reply, transcripts, pending, active, cut, lost>>
    BY DEF CallEnds, SpokeAt, playback
<1>2. done' /\ GreetingInv'
    BY <1>1, EndedShape
<1>3. SpokeAt("done").at = "done" /\ ~SpokeAt("done").cancelled /\ SpeechFields \subseteq DOMAIN SpokeAt("done")
    BY SpokeShape
<1>4. /\ SpeechTyped'
      /\ \A u \in Utterances : speech'[u] = IF u = speaking THEN SpokeAt("done") ELSE speech[u]
    BY <1>1, <1>3 DEF SpeechTyped, CallInv, CallTypes
<1>5. speaking \in Utterances => speech[speaking].at = "spoken"
    BY Numbers DEF CallInv, CallTypes, SpeechInv
<1>6. CallTypes'
    BY <1>1, <1>4 DEF CallInv, CallTypes, SpeechTyped
<1>7. SpeechInv'
    BY <1>1, <1>3, <1>4, <1>5 DEF CallInv, SpeechInv
<1>8. ReplyInv'
    BY <1>1 DEF CallInv, ReplyInv, Live
<1>9. CallInv'
    BY <1>2, <1>6, <1>7, <1>8 DEF CallInv, TakerInv
<1>10. ToneInv'
    BY <1>1, <1>2 DEF ToneInv, HoldHasOwner
<1>. QED  BY <1>9, <1>10

\* The greeting at a point, prepared, and with a sentence more.
SendAt(g, point) == [g EXCEPT !.send = point]
PreparedAs(g, point) == [g EXCEPT !.prepared = point]
Longer(g) == [g EXCEPT !.pcm = @ + 1]
Flushed(g) == [g EXCEPT !.flushed = g.pcm]

GreetingFields == {"prepared", "send", "pcm", "flushed"}

LEMMA GreetingShapes ==
    ASSUME NEW g, GreetingFields \subseteq DOMAIN g, NEW point
    PROVE  /\ GreetingFields \subseteq DOMAIN SendAt(g, point)
           /\ SendAt(g, point).send = point /\ SendAt(g, point).prepared = g.prepared
           /\ SendAt(g, point).pcm = g.pcm /\ SendAt(g, point).flushed = g.flushed
           /\ GreetingFields \subseteq DOMAIN PreparedAs(g, point)
           /\ PreparedAs(g, point).send = g.send
           /\ PreparedAs(g, point).pcm = g.pcm /\ PreparedAs(g, point).flushed = g.flushed
           /\ GreetingFields \subseteq DOMAIN Longer(g)
           /\ Longer(g).send = g.send /\ Longer(g).pcm = g.pcm + 1 /\ Longer(g).flushed = g.flushed
           /\ GreetingFields \subseteq DOMAIN Flushed(g)
           /\ Flushed(g).send = g.send /\ Flushed(g).pcm = g.pcm /\ Flushed(g).flushed = g.pcm
<1>1. /\ GreetingFields \subseteq DOMAIN SendAt(g, point)
      /\ SendAt(g, point).send = point /\ SendAt(g, point).prepared = g.prepared
      /\ SendAt(g, point).pcm = g.pcm /\ SendAt(g, point).flushed = g.flushed
    BY DEF GreetingFields, SendAt
<1>2. /\ GreetingFields \subseteq DOMAIN PreparedAs(g, point)
      /\ PreparedAs(g, point).send = g.send
      /\ PreparedAs(g, point).pcm = g.pcm /\ PreparedAs(g, point).flushed = g.flushed
    BY DEF GreetingFields, PreparedAs
<1>3. /\ GreetingFields \subseteq DOMAIN Longer(g)
      /\ Longer(g).send = g.send /\ Longer(g).pcm = g.pcm + 1 /\ Longer(g).flushed = g.flushed
    BY DEF GreetingFields, Longer
<1>4. /\ GreetingFields \subseteq DOMAIN Flushed(g)
      /\ Flushed(g).send = g.send /\ Flushed(g).pcm = g.pcm /\ Flushed(g).flushed = g.pcm
    BY DEF GreetingFields, Flushed
<1>. QED  BY <1>1, <1>2, <1>3, <1>4

LEMMA PrepareStep ==
    ASSUME CallInv, ToneInv, Prepare PROVE CallInv' /\ ToneInv'
<1>1. UNCHANGED <<speech, reply, transcripts, pending, active, speaking, cut, done, lost>>
    BY DEF Prepare, GreetingSentence, GreetingPrepared, GreetingFails, tasks
<1>2. GreetingFields \subseteq DOMAIN greeting /\ greeting.pcm \in Nat /\ greeting.flushed \in 0 .. greeting.pcm
    BY DEF ToneInv, GreetingInv, GreetingFields
<1>3. CASE GreetingPrepared \/ GreetingFails
  <2>1. PICK point : greeting' = PreparedAs(greeting, point) /\ hold' = hold
      BY <1>3 DEF GreetingPrepared, GreetingFails, PreparedAs, playback
  <2>2. /\ GreetingFields \subseteq DOMAIN greeting' /\ greeting'.send = greeting.send
        /\ greeting'.pcm = greeting.pcm /\ greeting'.flushed = greeting.flushed
      BY <1>2, <2>1, GreetingShapes
  <2>3. GreetingInv' /\ (GreetingOwns => GreetingOwns')
      BY <1>2, <2>2 DEF GreetingInv, GreetingOwns, GreetingFields
  <2>. QED  BY <1>1, <2>1, <2>3, RestKeeps, RestTone DEF ToneInv
<1>4. CASE GreetingSentence
  <2>. DEFINE g == Longer(greeting)
  <2>1. greeting.pcm < 1 /\ Flush(g, FALSE)
      BY <1>4 DEF GreetingSentence, Longer
  <2>2. /\ GreetingFields \subseteq DOMAIN g /\ g.send = greeting.send
        /\ g.pcm = greeting.pcm + 1 /\ g.flushed = greeting.flushed
      BY <1>2, GreetingShapes
  <2>3. greeting.pcm = 0 /\ greeting.flushed = 0
      BY <1>2, <2>1
  <2>. HIDE DEF g
  <2>4. CASE media
    <3>1. greeting' = Flushed(g) /\ hold' = (hold /\ ~(g.flushed = 0 /\ g.pcm > 0))
        BY <2>1, <2>4 DEF Flush, Flushed
    <3>2. ~hold' /\ hold' \in BOOLEAN
      <4>1. g.flushed = 0 /\ g.pcm > 0
          BY <2>2, <2>3
      <4>2. hold' = FALSE
          BY <3>1, <4>1
      <4>. QED  BY <4>2
    <3>3. GreetingFields \subseteq DOMAIN greeting' /\ greeting'.pcm = 1 /\ greeting'.flushed = 1
        BY <2>2, <2>3, <3>1, GreetingShapes
    <3>4. GreetingInv'
        BY <3>3 DEF GreetingInv, GreetingFields
    <3>. QED  BY <1>1, <3>2, <3>4, RestKeeps, RestTone
  <2>5. CASE ~media
    <3>1. greeting' = g /\ hold' = hold
        BY <2>1, <2>5 DEF Flush
    <3>2. GreetingInv' /\ (GreetingOwns => GreetingOwns')
        BY <2>2, <2>3, <3>1 DEF GreetingInv, GreetingOwns, GreetingFields
    <3>. QED  BY <1>1, <3>1, <3>2, RestKeeps, RestTone DEF ToneInv
  <2>. QED  BY <2>4, <2>5
<1>. QED  BY <1>3, <1>4 DEF Prepare

LEMMA GreetStep ==
    ASSUME CallInv, ToneInv, Greet PROVE CallInv' /\ ToneInv'
<1>1. UNCHANGED <<speech, reply, transcripts, pending, active, speaking, cut, done>> /\ lost \subseteq lost'
    BY DEF Greet, GreetingBegins, GreetingAwaited, GreetingSent, FreshGreeting, tasks, LostTone
<1>2. GreetingFields \subseteq DOMAIN greeting /\ greeting.pcm \in Nat /\ greeting.flushed \in 0 .. greeting.pcm
    BY DEF ToneInv, GreetingInv, GreetingFields
<1>3. CallInv'
    BY <1>1, RestKeeps
<1>4. CASE GreetingBegins
  <2>1. PICK point, covers :
            /\ point \in {"prepared", "awaiting"} /\ covers \in BOOLEAN /\ (covers => greeting.pcm = 0)
            /\ greeting.send = "waiting" /\ media /\ Flush(SendAt(greeting, point), covers)
    <3>1. Flush(SendAt(greeting, IF Prepared THEN "prepared" ELSE "awaiting"), ~Prepared /\ greeting.pcm = 0)
        BY <1>4 DEF GreetingBegins, SendAt
    <3>2. greeting.send = "waiting" /\ media
        BY <1>4 DEF GreetingBegins
    <3>3. (IF Prepared THEN "prepared" ELSE "awaiting") \in {"prepared", "awaiting"}
        OBVIOUS
    <3>4. (~Prepared /\ greeting.pcm = 0) \in BOOLEAN
        OBVIOUS
    <3>. QED  BY <3>1, <3>2, <3>3, <3>4
  <2>. DEFINE g == SendAt(greeting, point)
  <2>2. /\ GreetingFields \subseteq DOMAIN g /\ g.send = point
        /\ g.pcm = greeting.pcm /\ g.flushed = greeting.flushed
      BY <1>2, GreetingShapes
  <2>. HIDE DEF g
  <2>3. greeting' = Flushed(g) /\ hold' = (covers \/ (hold /\ ~(g.flushed = 0 /\ g.pcm > 0)))
      BY <2>1 DEF Flush, Flushed, g
  <2>4. /\ GreetingFields \subseteq DOMAIN greeting' /\ greeting'.send = point
        /\ greeting'.pcm = greeting.pcm /\ greeting'.flushed = greeting.pcm
      BY <2>2, <2>3, GreetingShapes
  <2>5. GreetingInv'
      BY <1>2, <2>4 DEF GreetingInv, GreetingFields
  <2>6. covers => GreetingOwns'
      BY <2>1, <2>4 DEF GreetingOwns
  <2>7. hold' \in BOOLEAN
      BY <2>1, <2>3 DEF ToneInv
  <2>8. hold' => hold \/ Owned'
      BY <2>3, <2>6 DEF Owned, GreetingOwns
  <2>9. ~GreetingOwns
      BY <2>1 DEF GreetingOwns
  <2>. QED  BY <1>1, <1>3, <2>5, <2>7, <2>8, <2>9, RestTone
<1>5. CASE GreetingAwaited
  <2>1. greeting' = SendAt(greeting, "prepared") /\ greeting.send = "awaiting" /\ hold' = hold
      BY <1>5 DEF GreetingAwaited, SendAt, playback
  <2>2. /\ GreetingFields \subseteq DOMAIN greeting' /\ greeting'.send = "prepared"
        /\ greeting'.pcm = greeting.pcm /\ greeting'.flushed = greeting.flushed
      BY <1>2, <2>1, GreetingShapes
  <2>3. GreetingInv' /\ (GreetingOwns => GreetingOwns')
      BY <1>2, <2>2 DEF GreetingInv, GreetingFields, GreetingOwns
  <2>. QED  BY <1>1, <1>3, <2>1, <2>3, RestTone DEF ToneInv
<1>6. CASE GreetingSent
  <2>. DEFINE heard == greeting.prepared = "ready" \/ greeting.flushed > 0
  <2>1. PICK point : /\ greeting' = SendAt(greeting, point) /\ hold' = hold
                     /\ point = IF heard THEN "done" ELSE "fresh"
                     /\ lost' = IF heard THEN LostTone ELSE lost
      BY <1>6 DEF GreetingSent, SendAt, playback
  <2>. HIDE DEF heard
  <2>2. /\ GreetingFields \subseteq DOMAIN greeting' /\ greeting'.send = point
        /\ greeting'.pcm = greeting.pcm /\ greeting'.flushed = greeting.flushed
      BY <1>2, <2>1, GreetingShapes
  <2>3. GreetingInv'
      BY <1>2, <2>2 DEF GreetingInv, GreetingFields
  <2>4. CASE heard
    <3>1. hold' /\ ~done' => Owned' \/ "tone" \in lost'
        BY <2>1, <2>4 DEF LostTone
    <3>. QED  BY <1>1, <1>3, <2>1, <2>3, <3>1 DEF ToneInv, HoldHasOwner
  <2>5. CASE ~heard
    <3>1. GreetingOwns => GreetingOwns'
        BY <2>1, <2>2, <2>5 DEF GreetingOwns
    <3>. QED  BY <1>1, <1>3, <2>1, <2>3, <3>1, RestTone DEF ToneInv
  <2>. QED  BY <2>4, <2>5
<1>7. CASE FreshGreeting
  <2>1. greeting' = SendAt(greeting, "done") /\ hold' \in {hold, FALSE} /\ lost' = LostTone
      BY <1>7 DEF FreshGreeting, SendAt
  <2>2. /\ GreetingFields \subseteq DOMAIN greeting'
        /\ greeting'.pcm = greeting.pcm /\ greeting'.flushed = greeting.flushed
      BY <1>2, <2>1, GreetingShapes
  <2>3. GreetingInv'
      BY <1>2, <2>2 DEF GreetingInv, GreetingFields
  <2>4. hold' /\ ~done' => Owned' \/ "tone" \in lost'
      BY <2>1 DEF LostTone
  <2>5. hold' \in BOOLEAN
      BY <2>1 DEF ToneInv
  <2>. QED  BY <1>3, <2>3, <2>4, <2>5 DEF ToneInv, HoldHasOwner
<1>. QED  BY <1>4, <1>5, <1>6, <1>7 DEF Greet

-----------------------------------------------------------------------------
(* The theorems *)

LEMMA CallStart == Init => CallInv /\ ToneInv
<1>. SUFFICES ASSUME Init PROVE CallInv /\ ToneInv
    OBVIOUS
<1>1. /\ NoSpeech.at = "none" /\ ~NoSpeech.cancelled /\ SpeechFields \subseteq DOMAIN NoSpeech
      /\ NoReply.at = "none" /\ ~NoReply.cancelled /\ ReplyFields \subseteq DOMAIN NoReply /\ NoReply.pre = 0
    BY DEF NoSpeech, NoReply, SpeechFields, ReplyFields
<1>2. /\ DOMAIN speech = Utterances /\ \A u \in Utterances : speech[u] = NoSpeech
      /\ DOMAIN reply = Utterances /\ \A u \in Utterances : reply[u] = NoReply
    BY DEF Init
<1>3. CallTypes
    BY <1>1, <1>2, EmptySeq DEF Init, CallTypes
<1>4. SpeechInv
  <2>1. \A u \in Utterances : active # Task("speech", u)
      BY TaskIs DEF Init
  <2>. QED  BY <1>1, <1>2, <2>1 DEF Init, SpeechInv
<1>5. ReplyInv
    BY <1>1, <1>2 DEF Init, ReplyInv, Live
<1>6. TakerInv
    BY DEF Init, TakerInv, Unanswered
<1>7. ToneInv
  <2>1. GreetingInv
      BY DEF Init, GreetingInv
  <2>2. hold = FALSE
      BY DEF Init
  <2>. QED  BY <2>1, <2>2 DEF ToneInv, HoldHasOwner
<1>. QED  BY <1>3, <1>4, <1>5, <1>6, <1>7 DEF CallInv

LEMMA SpeechSteps ==
    ASSUME CallInv, ToneInv, NEW u \in Utterances, Speech(u) PROVE CallInv' /\ ToneInv'
<1>1. CASE \/ TranscribedNothing(u) \/ TranscribedSpeech(u) \/ TranscribedChatter(u)
           \/ Noted(u) \/ AnnounceFails(u) \/ SpeechCancelled(u)
  <2>1. SpeechStep(u) /\ ToneStep(u)
      BY <1>1, TranscribedNothingStep, TranscribedSpeechStep, TranscribedChatterStep, NotedStep,
         AnnounceFailsStep, SpeechCancelledStep
  <2>. QED  BY <2>1, SpeechStepKeeps, SpeechStepTone
<1>2. CASE TranscribedKeyword(u)
    BY <1>2, KeywordKeeps
<1>3. CASE Awaited(u)
    BY <1>3, AwaitedKeeps
<1>4. CASE Announced(u)
    BY <1>4, AnnouncedKeeps
<1>. QED  BY <1>1, <1>2, <1>3, <1>4 DEF Speech

\* Every step keeps the invariant.
LEMMA CallSteps == CallInv /\ ToneInv /\ [Next]_vars => (CallInv /\ ToneInv)'
<1>. SUFFICES ASSUME CallInv, ToneInv, [Next]_vars PROVE CallInv' /\ ToneInv'
    OBVIOUS
<1>1. CASE NextSentence \/ SentenceEnds \/ Connected \/ \E v \in Utterances : SkillRuns(v)
    BY <1>1, PlaybackStep
<1>2. CASE SpeechStarts \/ ChunkDropped \/ ChunkEnds
  <2>1. \E u \in Utterances : SpeechStep(u) /\ ToneStep(u)
      BY <1>2, SpeechStartsStep, ChunkDroppedStep, ChunkEndsStep
  <2>. QED  BY <2>1, SpeechStepKeeps, SpeechStepTone
<1>3. CASE \E u \in Utterances : Speech(u)
    BY <1>3, SpeechSteps
<1>4. CASE \E v \in Utterances : Reply(v)
    BY <1>4, ReplyStartsStep, ReplyIdleStep, ReplySpeaksStep, RepliedStep, ReplyFailsStep, ReplySentStep,
       ReplyCancelledStep DEF Reply
<1>5. CASE Prepare \/ Greet
    BY <1>5, PrepareStep, GreetStep
<1>6. CASE InactivityHangup \/ ConnectTimeout \/ CallEnds
    BY <1>6, CallOverStep, CallEndsStep
<1>7. CASE UNCHANGED vars
  <2>1. UNCHANGED <<speech, reply, transcripts, pending, active, speaking, cut, greeting, done, lost, hold>>
      BY <1>7 DEF vars, tasks, playback
  <2>2. GreetingInv' /\ (GreetingOwns => GreetingOwns')
      BY <2>1 DEF ToneInv, GreetingInv, GreetingOwns
  <2>. QED  BY <2>1, <2>2, RestKeeps, RestTone DEF ToneInv
<1>. QED  BY <1>1, <1>2, <1>3, <1>4, <1>5, <1>6, <1>7 DEF Next, Core

\* The hold tone never outlives those who would end it, for any interleaving of utterances,
\* keywords, replies, faults and the greeting (Core: _hold_active, stop_hold).
THEOREM HoldIsOwned == Spec => []HoldHasOwner
<1>1. ToneInv => HoldHasOwner
    BY DEF ToneInv
<1>. QED  BY <1>1, CallStart, CallSteps, PTL DEF Spec

\* What the caller has said is waited for by a task that will reply to it, and no two
\* replies are generated side by side (_queue_transcript_response, _cancel_active_response).
THEOREM TranscriptsAreTaken == Spec => []TranscriptHasTaker
<1>1. CallInv => TranscriptHasTaker
  <2>. SUFFICES ASSUME CallInv PROVE TranscriptHasTaker
      OBVIOUS
  <2>1. OneReplyAtATime
    <3>1. ASSUME NEW v \in Utterances, NEW w \in Utterances, Thinking(v), Thinking(w) PROVE v = w
      <4>1. pending = Task("reply", v) /\ pending = Task("reply", w)
          BY <3>1 DEF CallInv, ReplyInv, Thinking, Live
      <4>. QED  BY <4>1, TaskIs
    <3>. QED  BY <3>1 DEF OneReplyAtATime
  <2>2. Unanswered /\ ~done /\ "answer" \notin lost => \E u \in Utterances : Takes(u)
      BY DEF CallInv, TakerInv
  <2>. QED  BY <2>1, <2>2 DEF TranscriptHasTaker, Takes, Unanswered
<1>. QED  BY <1>1, CallStart, CallSteps, PTL DEF Spec

-----------------------------------------------------------------------------
(* A keyword ends the reply *)

Sentences == Utterances \cup {Greeting}

QueueInv == queue \in Seq(Sentences)

With(q, w, n) == q \o [i \in 1..n |-> w]

\* What a step may do to the playback buffer: it takes a sentence out, empties it, or adds
\* sentences of somebody whom no keyword has ended.
QueueStep ==
    \/ queue' = queue
    \/ queue' = <<>>
    \/ queue # <<>> /\ queue' = Tail(queue)
    \/ \E n \in Nat, w \in Sentences \ cut : queue' = With(queue, w, n)

Places(q, v) == {i \in DOMAIN q : q[i] = v}

LEMMA PlacesFinite ==
    ASSUME NEW S, NEW q \in Seq(S), NEW v
    PROVE  IsFiniteSet(Places(q, v)) /\ Of(q, v) = Cardinality(Places(q, v)) /\ Of(q, v) \in Nat
<1>1. Len(q) \in Nat /\ DOMAIN q = 1 .. Len(q)
    BY LenProperties
<1>2. IsFiniteSet(1 .. Len(q))
    BY <1>1, FS_Interval
<1>3. Places(q, v) \in SUBSET (1 .. Len(q))
    BY <1>1 DEF Places
<1>4. IsFiniteSet(Places(q, v))
    BY <1>2, <1>3, FS_Subset
<1>5. Of(q, v) = Cardinality(Places(q, v))
    BY DEF Of, Places
<1>. QED  BY <1>4, <1>5, FS_CardinalityType

\* The sentences of v in what is left of the buffer are, each a place earlier, among those
\* that were in it.
LEMMA FewerInTail ==
    ASSUME NEW S, NEW q \in Seq(S), q # <<>>, NEW v
    PROVE  Of(Tail(q), v) <= Of(q, v)
<1>. DEFINE A == Places(q, v)
            B == Places(Tail(q), v)
            f == [i \in B |-> i + 1]
<1>1. /\ Tail(q) \in Seq(S) /\ Len(q) \in Nat /\ DOMAIN q = 1 .. Len(q)
      /\ Len(Tail(q)) = Len(q) - 1 /\ DOMAIN Tail(q) = 1 .. Len(Tail(q))
      /\ \A i \in 1 .. Len(Tail(q)) : Tail(q)[i] = q[i + 1]
    BY HeadTailProperties, LenProperties
<1>2. B \subseteq 1 .. (Len(q) - 1) /\ \A i \in B : q[i + 1] = v
    BY <1>1 DEF Places
<1>3. \A i \in B : i + 1 \in A
  <2>1. \A i \in B : i + 1 \in 1 .. Len(q)
      BY <1>1, <1>2
  <2>. QED  BY <1>1, <1>2, <2>1 DEF Places
<1>4. \A i, j \in B : i + 1 = j + 1 => i = j
    BY <1>1, <1>2
<1>5. IsFiniteSet(A) /\ Of(q, v) = Cardinality(A) /\ Of(Tail(q), v) = Cardinality(B)
    BY <1>1, PlacesFinite
<1>. HIDE DEF A, B
<1>6. f \in Injection(B, A)
    BY <1>3, <1>4 DEF Injection, IsInjective
<1>7. Cardinality(B) <= Cardinality(A)
  <2>. HIDE DEF f
  <2>. QED  BY <1>5, <1>6, FS_Injection
<1>. QED  BY <1>5, <1>7

\* The sentences of somebody else that are added are none of v.
LEMMA SameWithOthers ==
    ASSUME NEW S, NEW q \in Seq(S), NEW w \in S, NEW n \in Nat
    PROVE  With(q, w, n) \in Seq(S) /\ \A v : v # w => Of(With(q, w, n), v) = Of(q, v)
<1>. DEFINE t == [i \in 1..n |-> w]
<1>1. t \in Seq(S) /\ Len(t) = n /\ \A i \in 1..n : t[i] = w
  <2>1. t \in [1..n -> S]
      OBVIOUS
  <2>2. t \in Seq(S)
      BY <2>1, SeqDef
  <2>3. Len(t) = n
      BY <2>2, LenProperties
  <2>. QED  BY <2>2, <2>3
<1>. HIDE DEF t
<1>2. /\ q \o t \in Seq(S) /\ Len(q \o t) = Len(q) + n
      /\ \A i \in 1 .. Len(q) + n : (q \o t)[i] = IF i <= Len(q) THEN q[i] ELSE t[i - Len(q)]
    BY <1>1, ConcatProperties
<1>3. Len(q) \in Nat /\ DOMAIN q = 1 .. Len(q) /\ DOMAIN (q \o t) = 1 .. Len(q) + n
    BY <1>2, LenProperties
<1>4. \A i \in 1 .. Len(q) : i \in 1 .. Len(q) + n /\ (q \o t)[i] = q[i]
    BY <1>2, <1>3
<1>5. \A i \in 1 .. Len(q) + n : i \notin 1 .. Len(q) => (q \o t)[i] = w
  <2>. TAKE i \in 1 .. Len(q) + n
  <2>. HAVE i \notin 1 .. Len(q)
  <2>1. ~(i <= Len(q)) /\ i - Len(q) \in 1..n
      BY <1>3
  <2>. QED  BY <1>1, <1>2, <2>1
<1>6. ASSUME NEW v, v # w PROVE Of(q \o t, v) = Of(q, v)
  <2>1. Places(q \o t, v) = Places(q, v)
      BY <1>3, <1>4, <1>5, <1>6 DEF Places
  <2>. QED  BY <2>1 DEF Of, Places
<1>. QED  BY <1>2, <1>6 DEF With, t

LEMMA QueueStepKeeps ==
    ASSUME QueueInv, QueueStep, CallTypes
    PROVE  QueueInv' /\ \A v \in cut : Of(queue', v) <= Of(queue, v)
<1>1. \A v : Of(queue, v) \in Nat /\ Of(<<>>, v) = 0
  <2>1. \A v : Of(queue, v) \in Nat
      BY PlacesFinite DEF QueueInv
  <2>2. \A v : {i \in DOMAIN <<>> : <<>>[i] = v} = {}
      OBVIOUS
  <2>3. \A v : Of(<<>>, v) = 0
      BY <2>2, FS_EmptySet DEF Of
  <2>. QED  BY <2>1, <2>3
<1>2. CASE queue' = queue
    BY <1>1, <1>2 DEF QueueInv
<1>3. CASE queue' = <<>>
  <2>1. QueueInv'
      BY <1>3, EmptySeq DEF QueueInv, Sentences
  <2>. QED  BY <1>1, <1>3, <2>1
<1>4. CASE queue # <<>> /\ queue' = Tail(queue)
  <2>1. Tail(queue) \in Seq(Sentences)
      BY <1>4, HeadTailProperties DEF QueueInv
  <2>2. \A v : Of(Tail(queue), v) <= Of(queue, v)
      BY <1>4, FewerInTail DEF QueueInv
  <2>3. QueueInv'
      BY <1>4, <2>1 DEF QueueInv, Sentences
  <2>. QED  BY <1>4, <2>2, <2>3
<1>5. CASE \E n \in Nat, w \in Sentences \ cut : queue' = With(queue, w, n)
  <2>1. PICK n \in Nat : \E w \in Sentences \ cut : queue' = With(queue, w, n)
      BY <1>5
  <2>2. PICK w \in Sentences \ cut : queue' = With(queue, w, n)
      BY <2>1
  <2>3. \A v \in cut : Of(With(queue, w, n), v) = Of(queue, v)
      BY SameWithOthers DEF QueueInv
  <2>4. With(queue, w, n) \in Seq(Sentences)
      BY SameWithOthers DEF QueueInv
  <2>. QED  BY <1>1, <2>2, <2>3, <2>4 DEF QueueInv, Sentences
<1>. QED  BY <1>2, <1>3, <1>4, <1>5 DEF QueueStep

\* A reply that is being generated is not one that a keyword has ended.
LEMMA SpeakersAreUncut ==
    ASSUME CallInv, NEW v \in Utterances, Thinking(v)
    PROVE  v \in Sentences \ cut
BY DEF CallInv, ReplyInv, Thinking, Sentences

LEMMA GreetingIsUncut ==
    ASSUME CallInv PROVE Greeting \in Sentences \ cut
BY Numbers DEF CallInv, CallTypes, Sentences

LEMMA ReplySpeaksQueue ==
    ASSUME CallInv, NEW v \in Utterances, ReplySpeaks(v) PROVE QueueStep
<1>1. v \in Sentences \ cut
    BY SpeakersAreUncut DEF ReplySpeaks
<1>2. reply[v].pre \in Nat
    BY DEF CallInv, CallTypes
<1>3. CASE ~reply[v].begun /\ reply[v].pre + 1 < Prebuffer
    BY <1>3 DEF ReplySpeaks, Sentence, playback, QueueStep
<1>4. CASE ~(~reply[v].begun /\ reply[v].pre + 1 < Prebuffer)
  <2>1. queue' = With(queue, v, reply[v].pre + 1)
      BY <1>4 DEF ReplySpeaks, Sentence, Play, With
  <2>2. reply[v].pre + 1 \in Nat
      BY <1>2
  <2>. QED  BY <1>1, <2>1, <2>2 DEF QueueStep
<1>. QED  BY <1>3, <1>4

LEMMA RepliedQueue ==
    ASSUME CallInv, NEW v \in Utterances, Replied(v) PROVE QueueStep
<1>1. v \in Sentences \ cut
    BY SpeakersAreUncut DEF Replied
<1>2. reply[v].pre \in Nat
    BY DEF CallInv, CallTypes
<1>3. queue' = With(queue, v, reply[v].pre)
    BY DEF Replied, ReplyEnd, With
<1>. QED  BY <1>1, <1>2, <1>3 DEF QueueStep

LEMMA FlushQueue ==
    ASSUME CallInv, NEW g, NEW covers, Flush(g, covers), g.pcm - g.flushed \in Nat PROVE QueueStep
<1>1. CASE media
  <2>1. queue' = With(queue, Greeting, g.pcm - g.flushed)
      BY <1>1 DEF Flush, With
  <2>. QED  BY <2>1, GreetingIsUncut DEF QueueStep
<1>2. CASE ~media
    BY <1>2 DEF Flush, QueueStep
<1>. QED  BY <1>1, <1>2

LEMMA GreetingQueue ==
    ASSUME CallInv, ToneInv, QueueInv, Prepare \/ Greet PROVE QueueStep
<1>1. /\ {"prepared", "send", "pcm", "flushed"} \subseteq DOMAIN greeting
      /\ greeting.pcm \in Nat /\ greeting.flushed \in 0 .. greeting.pcm
    BY DEF ToneInv, GreetingInv
<1>2. CASE GreetingSentence
  <2>. DEFINE g == Longer(greeting)
  <2>1. g.pcm = greeting.pcm + 1 /\ g.flushed = greeting.flushed
      BY <1>1 DEF Longer
  <2>2. Flush(g, FALSE)
      BY <1>2 DEF GreetingSentence, Longer
  <2>. HIDE DEF g
  <2>3. g.pcm - g.flushed \in Nat
      BY <1>1, <2>1
  <2>. QED  BY <2>2, <2>3, FlushQueue
<1>3. CASE GreetingBegins
  <2>. DEFINE g == SendAt(greeting, IF Prepared THEN "prepared" ELSE "awaiting")
              covers == ~Prepared /\ greeting.pcm = 0
  <2>1. g.pcm = greeting.pcm /\ g.flushed = greeting.flushed
      BY <1>1 DEF SendAt
  <2>2. Flush(g, covers)
      BY <1>3 DEF GreetingBegins, SendAt
  <2>. HIDE DEF g, covers
  <2>3. g.pcm - g.flushed \in Nat
      BY <1>1, <2>1
  <2>. QED  BY <2>2, <2>3, FlushQueue
<1>4. CASE GreetingPrepared \/ GreetingFails \/ GreetingAwaited \/ GreetingSent
    BY <1>4 DEF GreetingPrepared, GreetingFails, GreetingAwaited, GreetingSent, playback, QueueStep
<1>5. CASE FreshGreeting
  <2>1. CASE queue' = queue
      BY <2>1 DEF QueueStep
  <2>2. CASE queue' = Append(queue, Greeting)
    <3>. DEFINE t == [i \in 1..1 |-> Greeting]
    <3>1. Append(queue, Greeting) = queue \o <<Greeting>>
        BY AppendProperties, ConcatProperties, GreetingIsUncut DEF QueueInv
    <3>2. t = <<Greeting>>
        OBVIOUS
    <3>3. queue' = With(queue, Greeting, 1)
        BY <2>2, <3>1, <3>2 DEF With
    <3>. QED  BY <3>3, GreetingIsUncut DEF QueueStep
  <2>. QED  BY <1>5, <2>1, <2>2 DEF FreshGreeting
<1>. QED  BY <1>2, <1>3, <1>4, <1>5 DEF Prepare, Greet

\* The other steps of the coroutines leave the buffer, but for the keyword, which empties it.
LEMMA SpeechQueue ==
    ASSUME NEW u \in Utterances, Speech(u) PROVE QueueStep
<1>1. CASE TranscribedKeyword(u)
    BY <1>1 DEF TranscribedKeyword, QueueStep
<1>2. CASE TranscribedNothing(u) \/ TranscribedSpeech(u) \/ TranscribedChatter(u) \/ Noted(u)
    BY <1>2 DEF TranscribedNothing, TranscribedSpeech, TranscribedChatter, Noted, playback, QueueStep
<1>3. CASE Awaited(u) \/ Announced(u) \/ AnnounceFails(u) \/ SpeechCancelled(u)
    BY <1>3 DEF Awaited, Announced, AnnounceFails, SpeechCancelled, playback, QueueStep
<1>. QED  BY <1>1, <1>2, <1>3 DEF Speech

LEMMA ReplyQueue ==
    ASSUME CallInv, NEW v \in Utterances, Reply(v) PROVE QueueStep
<1>1. CASE ReplySpeaks(v) \/ Replied(v)
    BY <1>1, ReplySpeaksQueue, RepliedQueue
<1>2. CASE ReplyStarts(v) \/ ReplyIdle(v) \/ ReplyFails(v) \/ ReplySent(v) \/ ReplyCancelled(v)
    BY <1>2 DEF ReplyStarts, ReplyIdle, ReplyFails, ReplySent, ReplyCancelled, playback, QueueStep
<1>. QED  BY <1>1, <1>2 DEF Reply

LEMMA QueueSteps ==
    ASSUME CallInv, ToneInv, QueueInv, [Next]_vars PROVE QueueStep
<1>1. CASE NextSentence \/ SentenceEnds \/ Connected \/ \E v \in Utterances : SkillRuns(v)
    BY <1>1 DEF NextSentence, SentenceEnds, Connected, SkillRuns, playback, QueueStep
<1>2. CASE SpeechStarts \/ ChunkDropped \/ ChunkEnds
    BY <1>2 DEF SpeechStarts, ChunkDropped, ChunkEnds, playback, QueueStep
<1>3. CASE \E u \in Utterances : Speech(u) \/ Reply(u)
    BY <1>3, SpeechQueue, ReplyQueue
<1>4. CASE Prepare \/ Greet
    BY <1>4, GreetingQueue
<1>5. CASE InactivityHangup \/ ConnectTimeout \/ CallEnds
    BY <1>5 DEF InactivityHangup, ConnectTimeout, CallEnds, playback, QueueStep
<1>6. CASE UNCHANGED vars
    BY <1>6 DEF vars, playback, QueueStep
<1>. QED  BY <1>1, <1>2, <1>3, <1>4, <1>5, <1>6 DEF Next, Core

\* Once the caller has said a keyword, no further sentence of the reply that was being
\* generated gets into the playback buffer, whichever task is tracked as active
\* (stop_after_current_sentence, _cancel_active_response).
THEOREM KeywordsEndReplies == Spec => KeywordEndsReply
<1>1. Init => QueueInv
    BY EmptySeq DEF Init, QueueInv, Sentences
<1>2. CallInv /\ ToneInv /\ QueueInv /\ [Next]_vars => QueueInv'
    BY QueueSteps, QueueStepKeeps DEF CallInv
<1>3. CallInv /\ ToneInv /\ QueueInv /\ [Next]_vars => [\A v \in cut : Of(queue', v) <= Of(queue, v)]_vars
    BY QueueSteps, QueueStepKeeps DEF CallInv
<1>. QED  BY <1>1, <1>2, <1>3, CallStart, CallSteps, PTL DEF Spec, KeywordEndsReply

-----------------------------------------------------------------------------
(* The audio pipeline (Endpointing) *)

Chunks == [open : BOOLEAN, len : Nat, pre : 0 .. PreFrames, rest : Nat, back : Nat, turn : {0, 1}]

\* A chunk that is not open has no frames and no pause.
Settled(c) == ~c.open => c.len = 0 /\ c.rest = 0 /\ c.back = 0

\* Bounded before the next frame is taken.
Short(c) == Cap > 0 => c.len < Most(Cap, CapLoud)

PipeType ==
    /\ chunk \in Chunks
    /\ noisy \in BOOLEAN /\ playing \in BOOLEAN /\ voice \in BOOLEAN
    /\ reference \in Levels
    /\ steady \in 0 .. ResumeMax
    /\ apart \in 0 .. PreFrames

\* Inductive: the frames counted in the pause (back) came in a row, as steady has it.
PipeInv ==
    /\ PipeType
    /\ Settled(chunk)
    /\ FramesInOneChunk
    /\ SpeakingIsOpenChunk
    /\ ChunkIsBounded
    /\ Least(chunk.back, ResumeMax) <= steady

-----------------------------------------------------------------------------
(* The detector's numbers *)

\* A quotient of a product of naturals is natural.
LEMMA Quotient ==
    ASSUME NEW a \in Nat, NEW b \in Nat, NEW d \in Nat \ {0}
    PROVE  (a * b) \div d \in Nat
<1>1. a * b \in Nat
    OBVIOUS
<1>2. ASSUME NEW n \in Nat PROVE n \div d \in Nat
    OBVIOUS
<1>. QED  BY <1>1, <1>2

\* The tolerance of a chunk is a number of frames.
LEMMA ToleranceType ==
    ASSUME NEW len \in Nat, NEW noise \in BOOLEAN
    PROVE  Tolerance(len, noise) \in Nat
<1>1. len \div Growth \in Nat
    BY EndpointingAssumption
<1>. QED  BY <1>1, EndpointingAssumption DEF Tolerance, Least

\* It never takes fewer than MIN_RESUME_SPEECH_FRAMES frames to break a pause.
LEMMA ResumeAtLeast ==
    ASSUME NEW tolerance \in Nat, NEW noise \in BOOLEAN
    PROVE  ResumeFrames(tolerance, noise) \in Nat /\ ResumeFrames(tolerance, noise) >= Resume
<1>. DEFINE longer == Most(0, Least(tolerance, TrailMax) - Trail)
            growth == (longer * (ResumeMax - Resume)) \div (TrailMax - Trail)
            scaled == Resume + growth
            floor == IF noise THEN ResumeLoud ELSE Resume
<1>1. longer \in Nat /\ ResumeMax - Resume \in Nat /\ TrailMax - Trail \in Nat \ {0}
    BY EndpointingAssumption DEF Most, Least
<1>2. growth \in Nat
    BY <1>1, Quotient
<1>3. Resume \in Nat /\ floor \in Nat
    BY EndpointingAssumption
<1>4. ResumeFrames(tolerance, noise) = Most(scaled, floor)
    BY DEF ResumeFrames
<1>. QED  BY <1>2, <1>3, <1>4 DEF Most

\* No cap is above the larger of the two.
LEMMA CapBound ==
    ASSUME NEW noise \in BOOLEAN, Cap > 0
    PROVE  MaxChunk(noise) \in Nat /\ MaxChunk(noise) > 0 /\ MaxChunk(noise) <= Most(Cap, CapLoud)
    BY EndpointingAssumption DEF MaxChunk, Most

-----------------------------------------------------------------------------
(* A frame, with the noise and the verdict on the frame fixed *)

Kept(noise) == IF Overlong(Taken(chunk), noise) THEN Closed(Taken(chunk)) ELSE Taken(chunk)

FrameTolerance(noise) == Tolerance(Taken(chunk).len, noise)

Heard(noise, voiced) ==
    IF voiced THEN WithSpeech(Kept(noise), ResumeFrames(FrameTolerance(noise), noise))
    ELSE WithPause(Kept(noise))

Paused(noise, voiced) ==
    /\ Heard(noise, voiced).open /\ ~voiced
    /\ Heard(noise, voiced).rest >= FrameTolerance(noise)

Passes(noise, voiced) ==
    /\ noisy' = noise
    /\ chunk' = IF Paused(noise, voiced) THEN Closed(Heard(noise, voiced)) ELSE Heard(noise, voiced)
    /\ voice' = IF Paused(noise, voiced) THEN FALSE
                ELSE IF Heard(noise, voiced).open /\ ~Kept(noise).open THEN TRUE
                ELSE IF Kept(noise) # Taken(chunk) THEN FALSE ELSE voice
    /\ steady' = IF voiced THEN Least(steady + 1, ResumeMax) ELSE 0
    /\ apart' = IF Kept(noise) # Taken(chunk) \/ Paused(noise, voiced) THEN 0
                ELSE IF chunk.open THEN apart ELSE Least(apart + 1, PreFrames)

\* The running level of speech is a level.
LEMMA ReferenceType ==
    ASSUME reference \in Levels, NEW level \in Levels
    PROVE  ReferenceAfter(level) \subseteq Levels
    BY DEF ReferenceAfter, Levels, Least, Most

\* Every frame passes in that way.
LEMMA FramePasses ==
    ASSUME PipeType, NEW level \in Levels, NEW tonal \in BOOLEAN, Frame(level, tonal)
    PROVE  /\ \E noise \in BOOLEAN, voiced \in BOOLEAN : Passes(noise, voiced)
           /\ reference' \in Levels /\ playing' = playing
<1>1. noisy' \in BOOLEAN
    BY DEF Frame, NoiseAfter, PipeType
<1>2. PICK noise \in BOOLEAN : noisy' = noise
    BY <1>1
<1>. DEFINE counted == settled = SettleFrames /\ SpeechLike(level, tonal, noise) /\ ~Dropped(level, noise)
            said == counted /\ (playing => level = Shout)
<1>3. PICK voiced \in BOOLEAN : voiced = said
    OBVIOUS
<1>4. Passes(noise, voiced)
    BY <1>2, <1>3 DEF Frame, Passes, Paused, Heard, FrameTolerance, Kept, EndedSpeaking
<1>5. reference' \in Levels
  <2>1. ReferenceAfter(level) \subseteq Levels
    BY ReferenceType DEF PipeType
  <2>2. reference' = 0 \/ reference' \in ReferenceAfter(level) \/ reference' = reference
    BY DEF Frame
  <2>. QED  BY <2>1, <2>2 DEF PipeType, Levels
<1>6. playing' = playing
    BY DEF Frame
<1>. QED  BY <1>4, <1>5, <1>6

-----------------------------------------------------------------------------
(* What a frame does to the chunk *)

\* The frame is counted in the open chunk, or kept for the pre-roll.
LEMMA TakenShape ==
    ASSUME NEW c \in Chunks
    PROVE  /\ Taken(c) \in Chunks
           /\ Taken(c).open = c.open /\ Taken(c).turn = c.turn
           /\ Taken(c).rest = c.rest /\ Taken(c).back = c.back
           /\ c.open => Taken(c).len = c.len + 1 /\ Taken(c).pre = c.pre
           /\ ~c.open => Taken(c).len = c.len /\ Taken(c).pre = Least(c.pre + 1, PreFrames)
<1>1. Least(c.pre + 1, PreFrames) \in 0 .. PreFrames
    BY EndpointingAssumption DEF Chunks, Least
<1>. QED  BY <1>1 DEF Taken, Chunks

\* A closed chunk is empty, and its successor is told apart from it.
LEMMA ClosedShape ==
    ASSUME NEW c \in Chunks
    PROVE  /\ Closed(c) \in Chunks
           /\ ~Closed(c).open /\ Closed(c).len = 0 /\ Closed(c).pre = 0
           /\ Closed(c).rest = 0 /\ Closed(c).back = 0 /\ Closed(c).turn # c.turn
    BY EndpointingAssumption DEF Closed, Fresh, Chunks

\* The chunk opened by a frame of speech.
Opened(c) == [c EXCEPT !.open = TRUE]

\* It is a chunk that differs in that alone.
LEMMA OpenedShape ==
    ASSUME NEW c \in Chunks
    PROVE  /\ Opened(c) \in Chunks
           /\ Opened(c).open
           /\ Opened(c).len = c.len
           /\ Opened(c).pre = c.pre
           /\ Opened(c).rest = c.rest
           /\ Opened(c).back = c.back
           /\ Opened(c).turn = c.turn
    BY DEF Opened, Chunks

\* The chunk with another pause, without speech in it.
Rested(c, rest) == [c EXCEPT !.rest = rest, !.back = 0]

\* It is a chunk that differs in that alone.
LEMMA RestedShape ==
    ASSUME NEW c \in Chunks, NEW rest \in Nat
    PROVE  /\ Rested(c, rest) \in Chunks
           /\ (Rested(c, rest).open <=> c.open)
           /\ Rested(c, rest).len = c.len
           /\ Rested(c, rest).pre = c.pre
           /\ Rested(c, rest).rest = rest
           /\ Rested(c, rest).back = 0
           /\ Rested(c, rest).turn = c.turn
    BY DEF Rested, Chunks

\* The chunk with other frames of speech in its pause.
Gusted(c, back) == [c EXCEPT !.back = back]

\* It is a chunk that differs in that alone.
LEMMA GustedShape ==
    ASSUME NEW c \in Chunks, NEW back \in Nat
    PROVE  /\ Gusted(c, back) \in Chunks
           /\ (Gusted(c, back).open <=> c.open)
           /\ Gusted(c, back).len = c.len
           /\ Gusted(c, back).pre = c.pre
           /\ Gusted(c, back).rest = c.rest
           /\ Gusted(c, back).back = back
           /\ Gusted(c, back).turn = c.turn
    BY DEF Gusted, Chunks

\* Speech leaves the chunk open; it breaks a pause only after the frames it takes.
LEMMA SpeechShape ==
    ASSUME NEW c \in Chunks, Settled(c), NEW needed \in Nat
    PROVE  /\ WithSpeech(c, needed) \in Chunks
           /\ WithSpeech(c, needed).open /\ WithSpeech(c, needed).turn = c.turn
           /\ WithSpeech(c, needed).len = c.len /\ WithSpeech(c, needed).pre = c.pre
           /\ WithSpeech(c, needed).back = 0 \/ WithSpeech(c, needed).back = c.back + 1
           /\ c.rest > 0 /\ WithSpeech(c, needed).rest = 0 => c.back + 1 >= needed
<1>1. c.rest \in Nat /\ c.back \in Nat /\ c.back + 1 \in Nat /\ c.open \in BOOLEAN
    BY DEF Chunks
<1>2. CASE ~c.open
  <2>1. WithSpeech(c, needed) = Opened(c)
    BY <1>2 DEF WithSpeech, Opened
  <2>2. c.rest = 0 /\ c.back = 0
    BY <1>2 DEF Settled
  <2>. QED  BY <1>1, <2>1, <2>2, OpenedShape
<1>3. CASE c.open /\ c.rest > 0 /\ c.back + 1 < needed
  <2>2. PICK back \in Nat : back = c.back + 1
    BY <1>1
  <2>1. WithSpeech(c, needed) = Gusted(c, back)
    BY <1>3, <2>2 DEF WithSpeech, Gusted
  <2>3. Gusted(c, back) \in Chunks
    BY GustedShape
  <2>4. Gusted(c, back).open /\ Gusted(c, back).rest > 0
    BY <1>3, GustedShape
  <2>5. Gusted(c, back).turn = c.turn /\ Gusted(c, back).len = c.len /\ Gusted(c, back).pre = c.pre
    BY GustedShape
  <2>6. Gusted(c, back).back = c.back + 1
    BY <2>2, GustedShape
  <2>. QED  BY <1>1, <2>1, <2>3, <2>4, <2>5, <2>6
<1>4. CASE c.open /\ ~(c.rest > 0 /\ c.back + 1 < needed)
  <2>1. WithSpeech(c, needed) = Rested(c, 0)
    BY <1>4 DEF WithSpeech, Rested
  <2>2. c.rest > 0 => c.back + 1 >= needed
    BY <1>1, <1>4
  <2>. QED  BY <1>1, <1>4, <2>1, <2>2, RestedShape
<1>. QED  BY <1>1, <1>2, <1>3, <1>4

\* A frame without speech adds to the pause of an open chunk.
LEMMA PauseShape ==
    ASSUME NEW c \in Chunks, Settled(c)
    PROVE  /\ WithPause(c) \in Chunks
           /\ (WithPause(c).open <=> c.open) /\ WithPause(c).turn = c.turn
           /\ WithPause(c).len = c.len /\ WithPause(c).pre = c.pre
           /\ WithPause(c).back = 0
           /\ WithPause(c).rest = IF c.open THEN c.rest + 1 ELSE 0
<1>1. c.rest \in Nat /\ c.rest + 1 \in Nat /\ c.open \in BOOLEAN
    BY DEF Chunks
<1>2. CASE ~c.open
  <2>1. WithPause(c) = c
    BY <1>2 DEF WithPause
  <2>. QED  BY <1>2, <2>1 DEF Settled
<1>3. CASE c.open
  <2>2. PICK rest \in Nat : rest = c.rest + 1
    BY <1>1
  <2>1. WithPause(c) = Rested(c, rest)
    BY <1>3, <2>2 DEF WithPause, Rested
  <2>3. Rested(c, rest) \in Chunks
    BY RestedShape
  <2>4. Rested(c, rest).open
    BY <1>3, RestedShape
  <2>5. /\ Rested(c, rest).turn = c.turn /\ Rested(c, rest).len = c.len
        /\ Rested(c, rest).pre = c.pre /\ Rested(c, rest).back = 0
    BY RestedShape
  <2>6. Rested(c, rest).rest = c.rest + 1
    BY <2>2, RestedShape
  <2>. QED  BY <1>3, <2>1, <2>3, <2>4, <2>5, <2>6
<1>. QED  BY <1>1, <1>2, <1>3

\* At the cap the chunk is closed, so that what goes on is short.
LEMMA KeptShape ==
    ASSUME PipeInv, NEW noise \in BOOLEAN
    PROVE  /\ Kept(noise) \in Chunks /\ Settled(Kept(noise)) /\ Short(Kept(noise))
           /\ \/ Kept(noise) = Taken(chunk)
              \/ /\ chunk.open /\ ~Kept(noise).open
                 /\ Kept(noise).turn # chunk.turn /\ Kept(noise).pre = 0
                 /\ Kept(noise).back = 0 /\ Kept(noise).rest = 0
<1>1. chunk \in Chunks /\ Settled(chunk) /\ Short(chunk)
    BY DEF PipeInv, PipeType, ChunkIsBounded, Short
<1>2. Taken(chunk) \in Chunks /\ Settled(Taken(chunk))
    BY <1>1, TakenShape DEF Settled
<1>3. CASE Overlong(Taken(chunk), noise)
  <2>1. Kept(noise) = Closed(Taken(chunk))
    BY <1>3 DEF Kept
  <2>2. chunk.open
    BY <1>1, <1>3, TakenShape DEF Overlong
  <2>3. Cap > 0 => 0 < Most(Cap, CapLoud)
    BY EndpointingAssumption DEF Most
  <2>. QED  BY <1>1, <1>2, <2>1, <2>2, <2>3, TakenShape, ClosedShape DEF Settled, Short
<1>4. CASE ~Overlong(Taken(chunk), noise)
  <2>1. Kept(noise) = Taken(chunk)
    BY <1>4 DEF Kept
  <2>2. ASSUME Cap > 0 PROVE Taken(chunk).len < Most(Cap, CapLoud)
    <3>1. MaxChunk(noise) \in Nat /\ MaxChunk(noise) > 0 /\ MaxChunk(noise) <= Most(Cap, CapLoud)
        BY <2>2, CapBound
    <3>2. Taken(chunk).len \in Nat /\ Most(Cap, CapLoud) \in Nat
        BY <1>2, EndpointingAssumption DEF Chunks, Most
    <3>3. CASE Taken(chunk).open
        BY <1>4, <3>1, <3>2, <3>3 DEF Overlong
    <3>4. CASE ~Taken(chunk).open
        BY <1>2, <3>1, <3>2, <3>4 DEF Settled
    <3>. QED  BY <3>3, <3>4
  <2>. QED  BY <1>2, <2>1, <2>2 DEF Short
<1>. QED  BY <1>3, <1>4

\* After the verdict on the frame: speech has an open chunk, and a pause grows unless the
\* frames of speech it takes have come.
LEMMA HeardShape ==
    ASSUME PipeInv, NEW noise \in BOOLEAN, NEW voiced \in BOOLEAN
    PROVE  /\ Heard(noise, voiced) \in Chunks
           /\ Heard(noise, voiced).turn = Kept(noise).turn
           /\ Heard(noise, voiced).len = Kept(noise).len
           /\ Heard(noise, voiced).pre = Kept(noise).pre
           /\ voiced => /\ Heard(noise, voiced).open
                        /\ \/ Heard(noise, voiced).back = 0
                           \/ Heard(noise, voiced).back = Kept(noise).back + 1
                        /\ Kept(noise).rest > 0 /\ Heard(noise, voiced).rest = 0
                                => Kept(noise).back + 1 >= Resume
           /\ ~voiced => /\ Heard(noise, voiced).open <=> Kept(noise).open
                         /\ Heard(noise, voiced).back = 0
                         /\ Heard(noise, voiced).rest = IF Kept(noise).open THEN Kept(noise).rest + 1 ELSE 0
<1>1. Kept(noise) \in Chunks /\ Settled(Kept(noise))
    BY KeptShape
<1>2. CASE voiced
  <2>1. Taken(chunk).len \in Nat
    BY TakenShape DEF PipeInv, PipeType, Chunks
  <2>2. FrameTolerance(noise) \in Nat
    BY <2>1, ToleranceType DEF FrameTolerance
  <2>3. PICK needed \in Nat : needed = ResumeFrames(FrameTolerance(noise), noise) /\ needed >= Resume
    BY <2>2, ResumeAtLeast
  <2>4. Heard(noise, voiced) = WithSpeech(Kept(noise), needed)
    BY <1>2, <2>3 DEF Heard
  <2>5. Kept(noise).back \in Nat /\ Resume \in Nat
    BY <1>1, EndpointingAssumption DEF Chunks
  <2>6. Kept(noise).back + 1 >= needed => Kept(noise).back + 1 >= Resume
    BY <2>3, <2>5
  <2>7. PICK k \in Chunks : k = Kept(noise)
    BY <1>1
  <2>8. Settled(k)
    BY <1>1, <2>7
  <2>9. PICK h : h = WithSpeech(k, needed)
    OBVIOUS
  <2>10. h \in Chunks /\ h.open /\ h.turn = k.turn
    BY <2>8, <2>9, SpeechShape
  <2>11. h.len = k.len /\ h.pre = k.pre /\ (h.back = 0 \/ h.back = k.back + 1)
    BY <2>8, <2>9, SpeechShape
  <2>12. k.rest > 0 /\ h.rest = 0 => k.back + 1 >= needed
    BY <2>8, <2>9, SpeechShape
  <2>13. Heard(noise, voiced) = h
    BY <2>4, <2>7, <2>9
  <2>. QED  BY <1>2, <2>6, <2>7, <2>10, <2>11, <2>12, <2>13
<1>3. CASE ~voiced
  <2>1. Heard(noise, voiced) = WithPause(Kept(noise))
    BY <1>3 DEF Heard
  <2>. QED  BY <1>1, <1>3, <2>1, PauseShape
<1>. QED  BY <1>2, <1>3

\* The pause that closes a chunk is the pause of the chunk the frame was taken into: no
\* chunk is skipped.
LEMMA PausedShape ==
    ASSUME PipeInv, NEW noise \in BOOLEAN, NEW voiced \in BOOLEAN, Paused(noise, voiced)
    PROVE  ~voiced /\ chunk.open /\ Kept(noise) = Taken(chunk) /\ Kept(noise).turn = chunk.turn
<1>1. ~voiced /\ Heard(noise, voiced).open
    BY DEF Paused
<1>2. Kept(noise).open
    BY <1>1, HeardShape
<1>3. Kept(noise) = Taken(chunk)
    BY <1>2, KeptShape
<1>. QED  BY <1>1, <1>2, <1>3, TakenShape DEF PipeInv, PipeType

\* The types after a frame.
LEMMA FrameTypes ==
    ASSUME PipeInv, NEW noise \in BOOLEAN, NEW voiced \in BOOLEAN, Passes(noise, voiced),
           reference' \in Levels, playing' = playing
    PROVE  PipeType'
<1>1. Heard(noise, voiced) \in Chunks
    BY HeardShape
<1>2. Closed(Heard(noise, voiced)) \in Chunks
    BY <1>1, ClosedShape
<1>3. chunk' \in Chunks
    BY <1>1, <1>2 DEF Passes
<1>4. noisy' \in BOOLEAN /\ playing' \in BOOLEAN
    BY DEF Passes, PipeInv, PipeType
<1>5. voice' = FALSE \/ voice' = TRUE \/ voice' = voice
    BY DEF Passes
<1>6. voice' \in BOOLEAN
    BY <1>5 DEF PipeInv, PipeType
<1>7. Least(steady + 1, ResumeMax) \in 0 .. ResumeMax /\ 0 \in 0 .. ResumeMax
    BY EndpointingAssumption DEF Least, PipeInv, PipeType
<1>8. steady' \in 0 .. ResumeMax
    BY <1>7 DEF Passes
<1>9. Least(apart + 1, PreFrames) \in 0 .. PreFrames /\ 0 \in 0 .. PreFrames
    BY EndpointingAssumption DEF Least, PipeInv, PipeType
<1>10. apart' = 0 \/ apart' = apart \/ apart' = Least(apart + 1, PreFrames)
    BY DEF Passes
<1>11. apart' \in 0 .. PreFrames
    BY <1>9, <1>10 DEF PipeInv, PipeType
<1>. QED  BY <1>3, <1>4, <1>6, <1>8, <1>11 DEF PipeType

\* The chunk after the frame, when the frame closes it at a pause.
LEMMA PausedInv ==
    ASSUME PipeInv, NEW noise \in BOOLEAN, NEW voiced \in BOOLEAN, Passes(noise, voiced),
           Paused(noise, voiced), PipeType'
    PROVE  /\ PipeInv'
           /\ chunk'.turn # chunk.turn
<1>1. chunk' = Closed(Heard(noise, voiced)) /\ voice' = FALSE /\ Heard(noise, voiced) \in Chunks
    BY HeardShape DEF Passes
<1>2. /\ ~chunk'.open /\ chunk'.len = 0 /\ chunk'.pre = 0 /\ chunk'.rest = 0 /\ chunk'.back = 0
      /\ chunk'.turn # Heard(noise, voiced).turn
    BY <1>1, ClosedShape
<1>3. chunk'.turn # chunk.turn
    BY <1>2, PausedShape, HeardShape
<1>4. Cap > 0 => 0 < Most(Cap, CapLoud)
    BY EndpointingAssumption DEF Most
<1>5. (Settled(chunk))' /\ SpeakingIsOpenChunk' /\ ChunkIsBounded'
    BY <1>1, <1>2, <1>4 DEF Settled, SpeakingIsOpenChunk, ChunkIsBounded
<1>6. FramesInOneChunk'
  <2>1. apart' \in 0 .. PreFrames
    BY DEF PipeType
  <2>. QED  BY <1>2, <2>1, EndpointingAssumption DEF FramesInOneChunk
<1>7. Least(chunk'.back, ResumeMax) <= steady'
  <2>1. steady' \in 0 .. ResumeMax
    BY DEF PipeType
  <2>. QED  BY <1>2, <2>1, EndpointingAssumption DEF Least
<1>. QED  BY <1>3, <1>5, <1>6, <1>7 DEF PipeInv

\* The frames of speech in a pause came in a row, and so did those that break it.
LEMMA GoesOnSteady ==
    ASSUME PipeInv, NEW noise \in BOOLEAN, NEW voiced \in BOOLEAN, Passes(noise, voiced),
           ~Paused(noise, voiced), PipeType'
    PROVE  /\ Least(chunk'.back, ResumeMax) <= steady'
           /\ chunk.rest > 0 /\ chunk'.rest = 0 /\ chunk'.turn = chunk.turn => steady' >= Resume
<1>1. chunk' = Heard(noise, voiced)
    BY DEF Passes
<1>2. chunk.back \in Nat /\ Kept(noise).back \in Nat /\ Kept(noise).rest \in Nat
    BY KeptShape DEF PipeInv, PipeType, Chunks
<1>3. Kept(noise).back = 0 \/ Kept(noise).back = chunk.back
    BY KeptShape, TakenShape DEF PipeInv, PipeType
<1>4. steady \in 0 .. ResumeMax /\ Least(chunk.back, ResumeMax) <= steady
    BY DEF PipeInv, PipeType
<1>5. ResumeMax \in Nat /\ Resume \in Nat /\ Resume <= ResumeMax
    BY EndpointingAssumption
<1>6. CASE voiced
  <2>1. steady' = Least(steady + 1, ResumeMax)
    BY <1>6 DEF Passes
  <2>2. chunk'.back = 0 \/ chunk'.back = Kept(noise).back + 1
    BY <1>1, <1>6, HeardShape
  <2>3. Least(chunk'.back, ResumeMax) <= steady'
    <3>1. PICK back \in Nat : back = chunk'.back
        BY <1>2, <2>2
    <3>2. back = 0 \/ back = 1 \/ back = chunk.back + 1
        BY <1>2, <1>3, <2>2, <3>1
    <3>3. Least(back, ResumeMax) <= Least(steady + 1, ResumeMax)
        BY <1>2, <1>4, <1>5, <3>2 DEF Least
    <3>. QED  BY <2>1, <3>1, <3>3
  <2>4. ASSUME chunk.rest > 0, chunk'.rest = 0, chunk'.turn = chunk.turn
        PROVE  steady' >= Resume
    <3>1. Kept(noise) = Taken(chunk)
        BY <1>1, <2>4, KeptShape, HeardShape
    <3>2. Kept(noise).rest > 0 /\ Kept(noise).back = chunk.back
        BY <2>4, <3>1, TakenShape DEF PipeInv, PipeType
    <3>3. chunk.back + 1 >= Resume
        BY <1>1, <1>6, <2>4, <3>2, HeardShape
    <3>4. Least(steady + 1, ResumeMax) >= Resume
        BY <1>2, <1>4, <1>5, <3>3 DEF Least
    <3>. QED  BY <2>1, <3>4
  <2>. QED  BY <2>3, <2>4
<1>7. CASE ~voiced
  <2>1. chunk'.back = 0 /\ steady' = 0
    BY <1>1, <1>7, HeardShape DEF Passes
  <2>2. ASSUME chunk.rest > 0, chunk'.rest = 0, chunk'.turn = chunk.turn
        PROVE  FALSE
    <3>1. Kept(noise) = Taken(chunk)
        BY <1>1, <2>2, KeptShape, HeardShape
    <3>2. chunk.open
        BY <2>2 DEF PipeInv, Settled
    <3>3. Kept(noise).open
        BY <3>1, <3>2, TakenShape DEF PipeInv, PipeType
    <3>4. chunk'.rest = Kept(noise).rest + 1
        BY <1>1, <1>7, <3>3, HeardShape
    <3>. QED  BY <1>2, <2>2, <3>4
  <2>. QED  BY <1>5, <2>1, <2>2 DEF Least
<1>. QED  BY <1>6, <1>7

\* The chunk after the frame, when the frame does not close it.
LEMMA GoesOnInv ==
    ASSUME PipeInv, NEW noise \in BOOLEAN, NEW voiced \in BOOLEAN, Passes(noise, voiced),
           ~Paused(noise, voiced), PipeType'
    PROVE  PipeInv'
<1>1. chunk' = Heard(noise, voiced) /\ chunk' \in Chunks
    BY DEF Passes, PipeType
<1>2. Kept(noise) \in Chunks /\ Settled(Kept(noise)) /\ Short(Kept(noise))
    BY KeptShape
<1>3. chunk'.len = Kept(noise).len /\ chunk'.pre = Kept(noise).pre
    BY <1>1, HeardShape
<1>4. ~chunk'.open => ~voiced /\ ~Kept(noise).open /\ chunk'.rest = 0 /\ chunk'.back = 0
    BY <1>1, HeardShape
<1>5. (Settled(chunk))'
    BY <1>2, <1>3, <1>4 DEF Settled
<1>6. ChunkIsBounded'
    BY <1>2, <1>3 DEF ChunkIsBounded, Short
<1>7. FramesInOneChunk'
  <2>1. SUFFICES ASSUME ~chunk'.open PROVE chunk'.pre <= apart'
    BY DEF FramesInOneChunk
  <2>2. apart' \in 0 .. PreFrames /\ PreFrames \in Nat
    BY EndpointingAssumption DEF PipeType
  <2>3. CASE Kept(noise) # Taken(chunk)
    BY <1>3, <2>2, <2>3, KeptShape
  <2>4. CASE Kept(noise) = Taken(chunk)
    <3>1. ~chunk.open
        BY <1>4, <2>1, <2>4, TakenShape DEF PipeInv, PipeType
    <3>2. apart' = Least(apart + 1, PreFrames)
        BY <2>4, <3>1 DEF Passes
    <3>3. chunk'.pre = Least(chunk.pre + 1, PreFrames)
        BY <1>3, <2>4, <3>1, TakenShape DEF PipeInv, PipeType
    <3>4. chunk.pre \in Nat /\ apart \in Nat /\ chunk.pre <= apart
        BY <2>2, <3>1 DEF PipeInv, PipeType, Chunks, FramesInOneChunk
    <3>. QED  BY <2>2, <3>2, <3>3, <3>4 DEF Least
  <2>. QED  BY <2>3, <2>4
<1>8. SpeakingIsOpenChunk'
  <2>1. voiced => chunk'.open
    BY <1>1, HeardShape
  <2>2. ~voiced => (chunk'.open <=> Kept(noise).open)
    BY <1>1, HeardShape
  <2>3. CASE chunk'.open /\ ~Kept(noise).open
    BY <1>1, <2>3 DEF Passes, SpeakingIsOpenChunk
  <2>4. CASE ~(chunk'.open /\ ~Kept(noise).open) /\ Kept(noise) # Taken(chunk)
    <3>1. ~Kept(noise).open
        BY <2>4, KeptShape
    <3>2. voice' = FALSE
        BY <1>1, <2>4 DEF Passes
    <3>. QED  BY <2>4, <3>1, <3>2 DEF SpeakingIsOpenChunk
  <2>5. CASE ~(chunk'.open /\ ~Kept(noise).open) /\ Kept(noise) = Taken(chunk)
    <3>1. voice' = voice
        BY <1>1, <2>5 DEF Passes
    <3>2. Kept(noise).open <=> chunk.open
        BY <2>5, TakenShape DEF PipeInv, PipeType
    <3>3. chunk'.open <=> Kept(noise).open
        BY <2>1, <2>2, <2>5
    <3>4. voice <=> chunk.open
        BY DEF PipeInv, SpeakingIsOpenChunk
    <3>. QED  BY <3>1, <3>2, <3>3, <3>4 DEF SpeakingIsOpenChunk
  <2>. QED  BY <2>3, <2>4, <2>5
<1>. QED  BY <1>5, <1>6, <1>7, <1>8, GoesOnSteady DEF PipeInv

-----------------------------------------------------------------------------
(* The pipeline *)

\* A pause in an open chunk is broken by Resume frames of speech in a row.
NoGust == chunk.rest > 0 /\ chunk'.rest = 0 /\ chunk'.turn = chunk.turn => steady' >= Resume

\* It starts without a chunk.
LEMMA PipeStarts == PipeInit => PipeInv
<1>. SUFFICES ASSUME PipeInit PROVE PipeInv
    OBVIOUS
<1>1. chunk = [open |-> FALSE, len |-> 0, pre |-> 0, rest |-> 0, back |-> 0, turn |-> 0]
    BY DEF PipeInit, Fresh
<1>2. chunk \in Chunks /\ Settled(chunk)
    BY <1>1, EndpointingAssumption DEF Chunks, Settled
<1>3. PipeType
  <2>1. reference \in Levels
    BY DEF PipeInit, Levels
  <2>2. noisy \in BOOLEAN /\ playing \in BOOLEAN /\ voice \in BOOLEAN
    BY Zenon DEF PipeInit
  <2>3. steady \in 0 .. ResumeMax /\ apart \in 0 .. PreFrames
    BY EndpointingAssumption DEF PipeInit
  <2>. QED  BY <1>2, <2>1, <2>2, <2>3 DEF PipeType
<1>4. FramesInOneChunk /\ SpeakingIsOpenChunk
    BY <1>1 DEF PipeInit, FramesInOneChunk, SpeakingIsOpenChunk
<1>5. ChunkIsBounded
    BY <1>1, EndpointingAssumption DEF ChunkIsBounded, Most
<1>6. Least(chunk.back, ResumeMax) <= steady
    BY <1>1, EndpointingAssumption DEF PipeInit, Least
<1>. QED  BY <1>2, <1>3, <1>4, <1>5, <1>6 DEF PipeInv

\* Every step of the pipeline keeps the invariant, and breaks no pause by a gust.
LEMMA PipeSteps ==
    ASSUME PipeInv, [PipeNext]_pipeVars
    PROVE  PipeInv' /\ NoGust
<1>1. ASSUME SomeFrame PROVE PipeInv' /\ NoGust
  <2>1. PICK level \in Levels, tonal \in BOOLEAN : Frame(level, tonal)
    BY <1>1 DEF SomeFrame
  <2>2. /\ \E noise \in BOOLEAN, voiced \in BOOLEAN : Passes(noise, voiced)
        /\ reference' \in Levels /\ playing' = playing
    BY <2>1, FramePasses DEF PipeInv
  <2>3. PICK noise \in BOOLEAN, voiced \in BOOLEAN : Passes(noise, voiced)
    BY <2>2
  <2>4. PipeType'
    BY <2>2, <2>3, FrameTypes
  <2>5. CASE Paused(noise, voiced)
    BY <2>3, <2>4, <2>5, PausedInv DEF NoGust
  <2>6. CASE ~Paused(noise, voiced)
    BY <2>3, <2>4, <2>6, GoesOnInv, GoesOnSteady DEF NoGust
  <2>. QED  BY <2>5, <2>6
<1>2. ASSUME UNCHANGED <<noisy, reference, chunk, voice, steady, apart>>, playing' \in BOOLEAN
      PROVE  PipeInv' /\ NoGust
  <2>1. PipeType'
    BY <1>2 DEF PipeInv, PipeType
  <2>2. /\ (Settled(chunk))' /\ FramesInOneChunk' /\ SpeakingIsOpenChunk' /\ ChunkIsBounded'
        /\ Least(chunk'.back, ResumeMax) <= steady'
    BY <1>2 DEF PipeInv, Settled, FramesInOneChunk, SpeakingIsOpenChunk, ChunkIsBounded
  <2>3. NoGust
    BY <1>2 DEF NoGust
  <2>. QED  BY <2>1, <2>2, <2>3 DEF PipeInv
<1>3. CASE Playback
    BY <1>2, <1>3 DEF Playback, PipeInv, PipeType
<1>4. CASE PipelineEnds
    BY <1>2, <1>4 DEF PipelineEnds, PipeInv, PipeType
<1>5. CASE UNCHANGED pipeVars
    BY <1>2, <1>5 DEF pipeVars, PipeInv, PipeType
<1>. QED  BY <1>1, <1>3, <1>4, <1>5 DEF PipeNext

\* In every run of the pipeline the invariant holds.
LEMMA PipeHolds == PipeSpec => []PipeInv
<1>1. PipeInv /\ [PipeNext]_pipeVars => PipeInv'
    BY PipeSteps
<1>. QED  BY <1>1, PipeStarts, PTL DEF PipeSpec

\* Whatever the frames, the noise floor and the playback: no frame is in two chunks, the
\* call waits with its answers exactly while a chunk is open, and no chunk outgrows the
\* larger cap (_audio_pipeline).
THEOREM ChunksAreSound == PipeSpec => []ChunkIsSound
<1>1. PipeInv => ChunkIsSound
    BY DEF PipeInv, ChunkIsSound
<1>. QED  BY <1>1, PipeHolds, PTL

\* A pause is broken only by MIN_RESUME_SPEECH_FRAMES frames of speech in a row, however
\* often shorter gusts hit it and the tolerance changes (resume_after_pause).
THEOREM PausesSurviveGusts == PipeSpec => GustsDoNotResume
<1>1. PipeInv /\ [PipeNext]_pipeVars => [NoGust]_pipeVars
    BY PipeSteps
<1>. QED  BY <1>1, PipeHolds, PTL DEF PipeSpec, GustsDoNotResume, NoGust
=============================================================================

------------------------------ MODULE CallCore ------------------------------
(***************************************************************************)
(* One voice call (pawlia/interfaces/call_core.py): the audio pipeline     *)
(* that cuts the caller's speech into utterances, the coroutine that       *)
(* transcribes each of them, the coroutine that waits for a pause and      *)
(* replies, the greeting, the playback buffer with its hold tone, and the  *)
(* watchdog.  They share one event loop: every await is a place where the  *)
(* others go on, and a cancelled coroutine goes on until its next await    *)
(* raises.                                                                 *)
(*                                                                         *)
(* Utterances are numbered in the order in which they are spoken.  A       *)
(* sentence of synthesized speech is the name of the reply it belongs to:  *)
(* the utterance whose task produced it, or Greeting.  Samples, noise      *)
(* levels and pauses in seconds are left out: whether a chunk is dropped   *)
(* as noise, and when the pause is long enough, is not determined.         *)
(***************************************************************************)
EXTENDS Integers, Sequences, FiniteSets, SequencesExt

CONSTANTS
    MaxUtterances,       \* bound: utterances of the caller
    MaxSentences,        \* bound: sentences of a reply
    Prebuffer,           \* TTS_PREBUFFER_SENTENCES
    QueueSpeech,         \* QUEUE_SPEECH_WHILE_THINKING
    Followups,           \* rounds a reply may append, 5 in the code
    MaxFaults            \* bound: requests and syntheses that fail

ASSUME CallAssumption ==
    /\ {MaxUtterances, MaxSentences, MaxFaults, Followups} \subseteq Nat
    /\ Prebuffer \in Nat \ {0}
    /\ QueueSpeech \in BOOLEAN

Utterances == 1..MaxUtterances
None == 0
Greeting == MaxUtterances + 1

VARIABLES
    hold,          \* _hold_active
    queue,         \* sentences in the playback buffer, by reply
    current,       \* the sentence being played
    speaking,      \* the utterance being spoken
    speech,        \* per utterance: the coroutine _process_speech
    reply,         \* per utterance: the coroutine _delayed_pending_response it started
    transcripts,   \* _pending_transcripts
    pending,       \* _pending_response_task
    active,        \* _active_response_task
    greeting,      \* the coroutines of the greeting and what they share
    media,         \* media_connected
    done,          \* _done, set by every end of the call
    faults,
    \* -- history variables --
    cut,           \* replies a keyword has ended
    lost           \* what a coroutine that gave up has left behind: the tone, or transcripts

playback == <<hold, queue, current>>
tasks == <<speech, reply, transcripts, pending, active>>
vars == <<playback, speaking, tasks, greeting, media, done, faults, cut, lost>>

Task(kind, u) == [kind |-> kind, u |-> u]
NoTask == Task("none", None)

NoSpeech == [at |-> "none", barge |-> FALSE, cancelled |-> FALSE, waitsFor |-> NoTask]
NoReply == [at |-> "none", cancelled |-> FALSE, pre |-> 0, begun |-> FALSE, said |-> 0, rounds |-> 0]

SpeechAt == {"none", "spoken", "transcribing", "awaitsPending", "awaitsActive", "announcing", "noting", "noted", "done"}
ReplyAt == {"none", "waiting", "thinking", "sending", "done"}

\* The preparation of the greeting runs before the call is answered.
Init ==
    /\ hold = FALSE /\ queue = <<>> /\ current = None
    /\ speaking = None
    /\ speech = [u \in Utterances |-> NoSpeech]
    /\ reply = [u \in Utterances |-> NoReply]
    /\ transcripts = <<>>
    /\ pending = NoTask /\ active = NoTask
    /\ greeting = [prepared |-> "running", send |-> "waiting", pcm |-> 0, flushed |-> 0]
    /\ media = FALSE /\ done = FALSE
    /\ faults = 0
    /\ cut = {} /\ lost = {}

-----------------------------------------------------------------------------
(* The playback buffer *)

\* is_tts_playing, is_playing
TtsPlaying == queue # <<>> \/ current # None
IsPlaying == TtsPlaying \/ hold

\* next_frame_960: the first frame of the next sentence, and the last of the current one.
NextSentence ==
    /\ media /\ current = None /\ queue # <<>>
    /\ current' = Head(queue) /\ queue' = Tail(queue)
    /\ UNCHANGED <<hold, speaking, tasks, greeting, media, done, faults, cut, lost>>

SentenceEnds ==
    /\ current # None
    /\ current' = None
    /\ UNCHANGED <<hold, queue, speaking, tasks, greeting, media, done, faults, cut, lost>>

-----------------------------------------------------------------------------
(* Tasks *)

Alive(t) ==
    CASE t.kind = "speech" -> speech[t.u].at \in {"transcribing", "awaitsPending", "awaitsActive", "announcing", "noting"}
      [] t.kind = "reply" -> reply[t.u].at \in {"waiting", "thinking", "sending"}
      [] OTHER -> FALSE

BotIsActive == IsPlaying \/ Alive(active)

\* The callback of _track_response_task.
Untracked(t) == IF active = t THEN NoTask ELSE active

SpeechEndsWith(u, act) ==
    /\ speech' = [speech EXCEPT ![u] = [NoSpeech EXCEPT !.at = "done"]]
    /\ active' = act
    /\ UNCHANGED <<reply, transcripts, pending>>

SpeechDone(u) == SpeechEndsWith(u, Untracked(Task("speech", u)))

ReplyDone(u) ==
    /\ reply' = [reply EXCEPT ![u] = [NoReply EXCEPT !.at = "done"]]
    /\ pending' = IF pending = Task("reply", u) THEN NoTask ELSE pending
    /\ active' = Untracked(Task("reply", u))
    /\ UNCHANGED <<speech, transcripts>>

\* Somebody is going to end the hold tone: a transcription that has just begun, what
\* follows a transcript, a reply, or a greeting that has not been heard yet.
Owned ==
    \/ \E u \in Utterances :
        \/ speech[u].at \in {"awaitsPending", "awaitsActive", "announcing"}
        \/ speech[u].at = "transcribing" /\ ~speech[u].barge /\ ~speech[u].cancelled
        \/ reply[u].at = "waiting" /\ ~reply[u].cancelled
        \/ reply[u].at = "thinking"
    \/ greeting.send \in {"awaiting", "prepared", "fresh"} /\ greeting.flushed = 0

\* What is lost when a coroutine gives up: the end of the tone, if nobody is left to stop it.
LostTone == lost \cup (IF hold' /\ ~Owned' THEN {"tone"} ELSE {})

Fault ==
    /\ faults < MaxFaults
    /\ faults' = faults + 1

-----------------------------------------------------------------------------
(* The caller and the audio pipeline *)

SpeechStarts ==
    /\ media /\ ~done /\ speaking = None
    /\ \E u \in Utterances :
        /\ \A v \in 1..(u - 1) : speech[v].at # "none"
        /\ speech[u].at = "none"
        /\ speaking' = u
        /\ speech' = [speech EXCEPT ![u].at = "spoken"]
    /\ UNCHANGED <<playback, reply, transcripts, pending, active, greeting, media, done, faults, cut, lost>>

\* Mutant of Captured: the tone is started for every chunk.
CapturedHeld(u, barge) ==
    /\ speech' = [speech EXCEPT ![u] = [NoSpeech EXCEPT !.at = "transcribing", !.barge = barge]]
    /\ active' = IF barge THEN active ELSE Task("speech", u)
    /\ hold' = TRUE

\* _finalize_speech_chunk: speech during playback is a barge-in candidate, which is not
\* tracked; for other speech the caller starts the hold tone.
Captured(u, barge) ==
    /\ speech' = [speech EXCEPT ![u] = [NoSpeech EXCEPT !.at = "transcribing", !.barge = barge]]
    /\ active' = IF barge THEN active ELSE Task("speech", u)
    /\ hold' = (hold \/ ~barge)

\* The chunk ends in a pause, or is cut at its maximal length, whatever is playing.
ChunkEnds ==
    /\ speaking # None /\ ~done
    /\ \E forced \in BOOLEAN : Captured(speaking, IsPlaying /\ ~forced)
    /\ speaking' = None
    /\ UNCHANGED <<queue, current, reply, transcripts, pending, greeting, media, done, faults, cut, lost>>

\* Too short, or taken for noise.
ChunkDropped ==
    /\ speaking # None
    /\ speech' = [speech EXCEPT ![speaking].at = "done"]
    /\ speaking' = None
    /\ UNCHANGED <<playback, reply, transcripts, pending, active, greeting, media, done, faults, cut, lost>>

-----------------------------------------------------------------------------
(* _process_speech *)

Transcribing(u) == speech[u].at = "transcribing" /\ ~speech[u].cancelled

\* Mutant of NothingHeard: the tone is stopped only for a barge-in candidate.
NothingHeardHeld(u) == hold' = (hold /\ ~speech[u].barge)

\* The transcription failed, is empty or is taken for a hallucination.
NothingHeard(u) == hold' = (hold /\ speech[u].barge)

TranscribedNothing(u) ==
    /\ Transcribing(u)
    /\ NothingHeard(u)
    /\ SpeechDone(u)
    /\ UNCHANGED <<queue, current, speaking, greeting, media, done, faults, cut, lost>>

TranscribedSpeech(u) ==
    /\ Transcribing(u) /\ ~speech[u].barge
    /\ hold' = TRUE
    /\ speech' = [speech EXCEPT ![u].at = "announcing"]
    /\ UNCHANGED <<queue, current, speaking, reply, transcripts, pending, active, greeting, media, done, faults, cut, lost>>

\* Speech into the bot's own without an interrupt keyword is discarded; while the bot
\* only thinks, it is kept if the configuration says so.
TranscribedChatter(u) ==
    /\ Transcribing(u) /\ speech[u].barge
    /\ IF ~TtsPlaying /\ QueueSpeech
       THEN /\ speech' = [speech EXCEPT ![u].at = "noting"]
            /\ UNCHANGED <<reply, transcripts, pending, active>>
       ELSE SpeechDone(u)
    /\ UNCHANGED <<playback, speaking, greeting, media, done, faults, cut, lost>>

\* It is shown in the chat, then appended, without a task of its own.
Noted(u) ==
    /\ speech[u].at = "noting"
    /\ transcripts' = Append(transcripts, u)
    /\ speech' = [speech EXCEPT ![u] = [NoSpeech EXCEPT !.at = "noted"]]
    /\ UNCHANGED <<playback, speaking, reply, pending, active, greeting, media, done, faults, cut, lost>>

\* The coroutine of u cancels t and waits for its end, unless t has ended or is itself.
CancelAndAwait(u, t, at) ==
    LET marked == IF t.kind = "speech" THEN [speech EXCEPT ![t.u].cancelled = TRUE] ELSE speech IN
    /\ speech' = [marked EXCEPT ![u].at = at, ![u].waitsFor = t]
    /\ reply' = IF t.kind = "reply" THEN [reply EXCEPT ![t.u].cancelled = TRUE] ELSE reply
    /\ UNCHANGED active

\* Mutant of GoOn: a keyword is a command, nothing to reply to.
GoOnSilently(u) ==
    /\ speech' = [speech EXCEPT ![u] = [NoSpeech EXCEPT !.at = "done"]]
    /\ UNCHANGED <<active, reply>>

\* Nothing is left to wait for: the coroutine tracks itself and announces what it heard.
GoOn(u) ==
    /\ speech' = [speech EXCEPT ![u].at = "announcing", ![u].waitsFor = NoTask]
    /\ active' = Task("speech", u)
    /\ UNCHANGED reply

CancelActive(u) == IF Alive(active) THEN CancelAndAwait(u, active, "awaitsActive") ELSE GoOn(u)

\* Mutant of CancelActiveResponse: only the task that is tracked as active is cancelled.
CancelActiveOnly(u) == CancelActive(u)

\* _cancel_active_response: the response that waits or speaks, then whatever is tracked
\* as active by then.
CancelActiveResponse(u) ==
    IF Alive(pending) THEN CancelAndAwait(u, pending, "awaitsPending") ELSE CancelActive(u)

\* A keyword: stop_after_current_sentence, then the responses are cancelled.
TranscribedKeyword(u) ==
    /\ Transcribing(u) /\ speech[u].barge
    /\ hold' = FALSE /\ queue' = <<>>
    /\ cut' = cut \cup {v \in Utterances : reply[v].at = "thinking"}
    /\ CancelActiveResponse(u)
    /\ UNCHANGED <<current, speaking, transcripts, pending, greeting, media, done, faults, lost>>

\* The awaited task has ended.
Awaited(u) ==
    /\ speech[u].at \in {"awaitsPending", "awaitsActive"}
    /\ ~Alive(speech[u].waitsFor)
    /\ IF speech[u].at = "awaitsPending" THEN CancelActive(u) ELSE GoOn(u)
    /\ UNCHANGED <<playback, speaking, transcripts, pending, greeting, media, done, faults, cut, lost>>

\* Mutant of Superseded: the response that is under way goes on beside the new one.
SupersededNot(t) == reply

\* A new utterance cancels the pending response, without waiting for its end.
Superseded(t) == IF Alive(t) THEN [reply EXCEPT ![t.u].cancelled = TRUE] ELSE reply

\* _queue_transcript_response, once the chat has shown the transcript.
Announced(u) ==
    /\ speech[u].at = "announcing" /\ ~speech[u].cancelled
    /\ transcripts' = Append(transcripts, u)
    /\ reply' = [Superseded(pending) EXCEPT ![u] = [NoReply EXCEPT !.at = "waiting"]]
    /\ pending' = Task("reply", u) /\ active' = Task("reply", u)
    /\ speech' = [speech EXCEPT ![u] = [NoSpeech EXCEPT !.at = "done"]]
    /\ UNCHANGED <<playback, speaking, greeting, media, done, faults, cut, lost>>

\* The message could not be sent: the error is logged, the hold tone goes on.
AnnounceFails(u) ==
    /\ speech[u].at = "announcing" /\ ~speech[u].cancelled
    /\ Fault
    /\ SpeechDone(u)
    /\ UNCHANGED <<playback, speaking, greeting, media, done, cut>>
    /\ lost' = LostTone \cup {"answer"}

\* CancelledError: raised as it is from the transcription, with stop_hold later on.
SpeechCancelled(u) ==
    /\ speech[u].cancelled
    /\ hold' = (hold /\ speech[u].at = "transcribing")
    /\ SpeechDone(u)
    /\ UNCHANGED <<queue, current, speaking, greeting, media, done, faults, cut, lost>>

-----------------------------------------------------------------------------
(* _delayed_pending_response and _respond_to_transcript *)

Thinking(v) == reply[v].at = "thinking" /\ ~reply[v].cancelled

\* The transcripts are taken; with the reply the hold tone begins.
TakeTranscripts(v, rounds) ==
    /\ reply' = [reply EXCEPT ![v] = [NoReply EXCEPT !.at = "thinking", !.rounds = rounds]]
    /\ transcripts' = <<>>
    /\ hold' = TRUE
    /\ UNCHANGED <<speech, pending, active>>

\* The pause was long enough, nobody speaks and nothing spoken is left to play.
ReplyStarts(v) ==
    /\ reply[v].at = "waiting" /\ ~reply[v].cancelled
    /\ ~done /\ transcripts # <<>>
    /\ speaking = None /\ ~TtsPlaying
    /\ TakeTranscripts(v, 0)
    /\ UNCHANGED <<queue, current, speaking, greeting, media, done, faults, cut, lost>>

\* The call is over, or another reply has taken the transcripts.
ReplyIdle(v) ==
    /\ reply[v].at = "waiting" /\ ~reply[v].cancelled
    /\ done \/ (transcripts = <<>> /\ speaking = None /\ ~TtsPlaying)
    /\ ReplyDone(v)
    /\ UNCHANGED <<playback, speaking, greeting, media, done, faults, cut, lost>>

\* n sentences of v are handed to the buffer; the first of a reply ends the hold tone.
Play(v, n) ==
    /\ queue' = queue \o [i \in 1..n |-> v]
    /\ hold' = (hold /\ reply[v].begun)
    /\ UNCHANGED current

\* _on_sentence: before playback begins, Prebuffer sentences are collected.
Sentence(v) ==
    LET r == reply[v]
        collects == ~r.begun /\ r.pre + 1 < Prebuffer IN
    /\ IF collects THEN UNCHANGED playback ELSE Play(v, r.pre + 1)
    /\ reply' = [reply EXCEPT ![v].said = @ + 1,
                              ![v].pre = IF collects THEN @ + 1 ELSE 0,
                              ![v].begun = ~collects]

ReplySpeaks(v) ==
    /\ Thinking(v) /\ reply[v].said < MaxSentences
    /\ Sentence(v)
    /\ UNCHANGED <<speaking, speech, transcripts, pending, active, greeting, media, done, faults, cut, lost>>

\* _on_skill_start, _on_skill_done
SkillRuns(v) ==
    /\ Thinking(v) /\ ~hold
    /\ hold' = TRUE
    /\ UNCHANGED <<queue, current, speaking, tasks, greeting, media, done, faults, cut, lost>>

\* The end of run_streamed: the sentences still collected are played; finally, stop_hold.
ReplyEnd(v) == /\ hold' = FALSE
               /\ queue' = queue \o [i \in 1..reply[v].pre |-> v]
               /\ UNCHANGED current

Replied(v) ==
    /\ Thinking(v)
    /\ ReplyEnd(v)
    /\ reply' = [reply EXCEPT ![v].at = "sending", ![v].pre = 0, ![v].begun = FALSE, ![v].said = 0]
    /\ UNCHANGED <<speaking, speech, transcripts, pending, active, greeting, media, done, faults, cut, lost>>

\* The request failed: finally, stop_hold, and the coroutine ends with the exception.
ReplyFails(v) ==
    /\ Thinking(v) /\ Fault
    /\ hold' = FALSE
    /\ ReplyDone(v)
    /\ UNCHANGED <<queue, current, speaking, greeting, media, done, cut, lost>>

MoreRounds(v) == reply[v].rounds < Followups

\* The text of the reply is sent; what was said meanwhile is replied to in a round of
\* its own.
ReplySent(v) ==
    /\ reply[v].at = "sending" /\ ~reply[v].cancelled
    /\ IF ~done /\ transcripts # <<>> /\ MoreRounds(v)
       THEN TakeTranscripts(v, reply[v].rounds + 1)
       ELSE ReplyDone(v) /\ UNCHANGED hold
    /\ UNCHANGED <<queue, current, speaking, greeting, media, done, faults, cut, lost>>

\* The cancelled coroutine unwinds: run_streamed stores what there is and raises; then,
\* finally, stop_hold.
ReplyCancelled(v) ==
    /\ reply[v].cancelled
    /\ hold' = (hold /\ reply[v].at # "thinking")
    /\ ReplyDone(v)
    /\ UNCHANGED <<queue, current, speaking, greeting, media, done, faults, cut, lost>>

-----------------------------------------------------------------------------
(* The greeting *)

\* _flush_greeting_pcm for g: sentences go to the buffer once media is up, and the first
\* ends the hold tone; after it the tone may be started to cover a gap.
Flush(g, covers) ==
    IF media
    THEN /\ queue' = queue \o [i \in 1..(g.pcm - g.flushed) |-> Greeting]
         /\ hold' = (covers \/ (hold /\ ~(g.flushed = 0 /\ g.pcm > 0)))
         /\ greeting' = [g EXCEPT !.flushed = g.pcm]
    ELSE /\ greeting' = g
         /\ UNCHANGED <<queue, hold>>

\* _prepare_greeting: a sentence has been synthesized.
GreetingSentence ==
    /\ greeting.prepared = "running" /\ greeting.pcm < 1
    /\ Flush([greeting EXCEPT !.pcm = @ + 1], FALSE)
    /\ UNCHANGED <<current, speaking, tasks, media, done, faults, cut, lost>>

\* The answer is complete; a synthesis that fails only leaves its sentence out.
GreetingPrepared ==
    /\ greeting.prepared = "running"
    /\ IF greeting.pcm = 0 THEN Fault ELSE UNCHANGED faults
    /\ greeting' = [greeting EXCEPT !.prepared = "ready"]
    /\ UNCHANGED <<playback, speaking, tasks, media, done, cut, lost>>

GreetingFails ==
    /\ greeting.prepared = "running" /\ Fault
    /\ greeting' = [greeting EXCEPT !.prepared = "failed"]
    /\ UNCHANGED <<playback, speaking, tasks, media, done, cut, lost>>

Prepared == greeting.prepared # "running"

\* _send_greeting once the media is up: what is there is played; while the rest is being
\* prepared and nothing has been heard yet, the hold tone covers the gap.
GreetingBegins ==
    /\ media /\ ~done /\ greeting.send = "waiting"
    /\ Flush([greeting EXCEPT !.send = IF Prepared THEN "prepared" ELSE "awaiting"],
             ~Prepared /\ greeting.pcm = 0)
    /\ UNCHANGED <<current, speaking, tasks, media, done, faults, cut, lost>>

\* The text follows the sound; without either, a fresh greeting is attempted.
GreetingAwaited ==
    /\ greeting.send = "awaiting" /\ Prepared
    /\ greeting' = [greeting EXCEPT !.send = "prepared"]
    /\ UNCHANGED <<playback, speaking, tasks, media, done, faults, cut, lost>>

GreetingSent ==
    LET heard == greeting.prepared = "ready" \/ greeting.flushed > 0 IN
    /\ greeting.send = "prepared"
    /\ greeting' = [greeting EXCEPT !.send = IF heard THEN "done" ELSE "fresh"]
    /\ UNCHANGED <<playback, speaking, tasks, media, done, faults, cut>>
    /\ lost' = IF heard THEN LostTone ELSE lost

\* The second attempt speaks each sentence as it comes, and fails on its own.
FreshGreeting ==
    /\ greeting.send = "fresh"
    /\ greeting' = [greeting EXCEPT !.send = "done"]
    /\ \/ queue' = Append(queue, Greeting) /\ hold' = FALSE /\ UNCHANGED faults
       \/ Fault /\ UNCHANGED <<queue, hold>>
    /\ UNCHANGED <<current, speaking, tasks, media, done, cut>>
    /\ lost' = LostTone

-----------------------------------------------------------------------------
(* The call *)

Connected ==
    /\ ~media /\ ~done
    /\ media' = TRUE
    /\ UNCHANGED <<playback, speaking, tasks, greeting, done, faults, cut, lost>>

\* hangup: both coroutines of the greeting are cancelled, the responses are not.
Ended ==
    /\ done' = TRUE
    /\ greeting' = [greeting EXCEPT !.prepared = IF @ = "running" THEN "failed" ELSE @, !.send = "done"]

\* The caller hangs up, the media ends, or it did not connect in time.
CallEnds ==
    /\ ~done /\ Ended
    /\ speaking' = None
    /\ speech' = [u \in Utterances |-> IF u = speaking THEN [NoSpeech EXCEPT !.at = "done"] ELSE speech[u]]
    /\ UNCHANGED <<playback, reply, transcripts, pending, active, media, faults, cut, lost>>

\* _watchdog: nothing has been heard for CALL_INACTIVITY_SECONDS; as long as the bot is
\* active, that counts as activity.
InactivityHangup ==
    /\ media /\ ~done
    /\ speaking = None /\ ~BotIsActive
    /\ Ended
    /\ UNCHANGED <<playback, speaking, tasks, media, faults, cut, lost>>

ConnectTimeout ==
    /\ ~media /\ ~done /\ Ended
    /\ UNCHANGED <<playback, speaking, tasks, media, faults, cut, lost>>

-----------------------------------------------------------------------------

Speech(u) ==
    TranscribedNothing(u) \/ TranscribedSpeech(u) \/ TranscribedChatter(u) \/ TranscribedKeyword(u)
        \/ Noted(u) \/ Awaited(u) \/ Announced(u) \/ AnnounceFails(u) \/ SpeechCancelled(u)

Reply(v) ==
    ReplyStarts(v) \/ ReplyIdle(v) \/ ReplySpeaks(v) \/ Replied(v) \/ ReplyFails(v)
        \/ ReplySent(v) \/ ReplyCancelled(v)

Prepare == GreetingSentence \/ GreetingPrepared \/ GreetingFails
Greet == GreetingBegins \/ GreetingAwaited \/ GreetingSent \/ FreshGreeting

\* What goes on without the caller.
Core ==
    \/ NextSentence \/ SentenceEnds
    \/ ChunkEnds \/ ChunkDropped
    \/ \E u \in Utterances : Speech(u) \/ Reply(u)
    \/ Prepare \/ Greet
    \/ Connected \/ InactivityHangup \/ ConnectTimeout

Next == Core \/ SpeechStarts \/ CallEnds \/ \E v \in Utterances : SkillRuns(v)

Spec == Init /\ [][Next]_vars

\* As long as a coroutine can go on, one does.  The caller ends what they have begun to
\* say, but need not say anything, nor hang up.
FairSpec == Spec /\ WF_vars(Core)

-----------------------------------------------------------------------------
(* Properties *)

\* Every part of the state has its type.
TypeOK ==
    LET TaskType == [kind : {"none", "speech", "reply"}, u : Utterances \cup {None}]
        Sentences == Utterances \cup {Greeting} IN
    /\ hold \in BOOLEAN /\ queue \in Seq(Sentences) /\ current \in Sentences \cup {None}
    /\ speaking \in Utterances \cup {None}
    /\ speech \in [Utterances -> [at : SpeechAt, barge : BOOLEAN, cancelled : BOOLEAN, waitsFor : TaskType]]
    /\ reply \in [Utterances -> [at : ReplyAt, cancelled : BOOLEAN, pre : 0..Prebuffer, begun : BOOLEAN,
                                 said : 0..MaxSentences, rounds : 0..Followups]]
    /\ transcripts \in Seq(Utterances)
    /\ pending \in TaskType /\ active \in TaskType
    /\ greeting \in [prepared : {"running", "ready", "failed"},
                     send : {"waiting", "awaiting", "prepared", "fresh", "done"}, pcm : 0..1, flushed : 0..1]
    /\ media \in BOOLEAN /\ done \in BOOLEAN /\ faults \in 0..MaxFaults
    /\ cut \subseteq Utterances /\ lost \subseteq {"tone", "answer"}

\* The hold tone never outlives those who would end it: as long as it sounds, a
\* coroutine is under way that stops it on every path.  While it sounds, everything the
\* caller says counts as a barge-in and the watchdog takes the bot for active, so a tone
\* nobody stops holds the call open and the caller unheard.  The exceptions are the ones
\* `lost` names: a transcript that could not be sent, a greeting that stayed silent.
HoldHasOwner == hold /\ ~done /\ "tone" \notin lost => Owned

\* Once the caller has said a keyword, no further sentence of the reply that was being
\* generated is put into the playback buffer, whichever task the core tracks as active.
Of(q, v) == Cardinality({i \in DOMAIN q : q[i] = v})

KeywordEndsReply ==
    [][\A v \in cut : Of(queue', v) <= Of(queue, v)]_vars

\* What the caller has said and seen in the chat is waited for by a task that will reply
\* to it, however the tasks cancelled each other, unless a message could not be sent;
\* chatter that was only noted waits for the next reply.  And a new utterance may overtake
\* the reply to the one before, but no two replies are ever generated side by side.
OneReplyAtATime == \A v, w \in Utterances : Thinking(v) /\ Thinking(w) => v = w

TranscriptHasTaker ==
    /\ OneReplyAtATime
    /\ (\E i \in DOMAIN transcripts : speech[transcripts[i]].at # "noted") /\ ~done /\ "answer" \notin lost =>
          \E u \in Utterances :
              \/ speech[u].at \in {"awaitsPending", "awaitsActive", "announcing"}
              \/ reply[u].at = "waiting" /\ ~reply[u].cancelled

\* A call in which the caller falls silent ends by itself, whatever was being said,
\* transcribed and answered, unless the tone was left behind.
SilentCallEnds == <>(done \/ "tone" \in lost)
=============================================================================

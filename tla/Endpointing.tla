---------------------------- MODULE Endpointing ----------------------------
(***************************************************************************)
(* Where an utterance begins and ends in a call: the loop over audio frames *)
(* of CallSession (_audio_pipeline, interfaces/call_core.py) with the       *)
(* detector it asks (audio/vad.py).  Frames that sound like speech open a   *)
(* chunk; a pause or the cap on its length closes it and hands it to the    *)
(* transcription.                                                           *)
(*                                                                          *)
(* A frame is its loudness and whether its spectrum is that of a voice.     *)
(* Loudness has a few levels, the noise floor two (noise_is_high) and times *)
(* are counted in frames; averages move anywhere between the old and the    *)
(* new value.  What is said, and the statistics by which a finished chunk   *)
(* is taken for speech or noise, are left out.                              *)
(***************************************************************************)
EXTENDS Integers

CONSTANTS
    SettleFrames,              \* VAD_SETTLE_FRAMES
    PreFrames,                 \* PRE_SPEECH_SECONDS
    MinFrames,                 \* MIN_SPEECH_SECONDS
    Trail, TrailMax, Growth,   \* SILENCE_SECONDS, .._MAX; frames for one more of tolerance
    TrailLoud,                 \* HIGH_NOISE_SILENCE_SECONDS_MAX
    Resume, ResumeMax,         \* MIN_RESUME_SPEECH_FRAMES, RESUME_FRAMES_AT_MAX
    ResumeLoud,                \* MIN_RESUME_SPEECH_FRAMES raised by the noise floor
    Cap, CapLoud               \* VAD_MAX_CHUNK_SECONDS, HIGH_NOISE_MAX_CHUNK_SECONDS; 0 is none

ASSUME EndpointingAssumption ==
    /\ {SettleFrames, PreFrames, MinFrames, TrailLoud, ResumeLoud, Cap, CapLoud} \subseteq Nat
    /\ Trail \in Nat /\ TrailMax \in Nat /\ Trail < TrailMax
    /\ Growth \in Nat \ {0}
    /\ Resume \in Nat /\ ResumeMax \in Nat /\ Resume <= ResumeMax

VARIABLES
    settled,     \* frames received, up to SettleFrames
    noisy,       \* noise_is_high
    reference,   \* speech_ref: the running level of speech
    chunk,       \* the speech buffer, its pre-roll, and the counters of the pause
    voice,       \* _speaking
    playing,     \* the transport plays the bot's voice
    handed,      \* what became of the last chunk
    over,        \* the pipeline has ended
    steady,      \* history: frames of speech in a row, up to ResumeMax
    apart        \* history: frames since the last chunk was closed, up to PreFrames

pipeVars == <<settled, noisy, reference, chunk, voice, playing, handed, over, steady, apart>>

Levels == 0..3
Shout == 3      \* from BARGEIN_RMS_THRESHOLD on

Least(a, b) == IF a <= b THEN a ELSE b
Most(a, b) == IF a <= b THEN b ELSE a

\* turn tells a chunk from the next one.
Fresh(turn) == [open |-> FALSE, len |-> 0, pre |-> 0, rest |-> 0, back |-> 0, turn |-> turn]

PipeInit ==
    /\ settled = 0
    /\ noisy \in BOOLEAN
    /\ reference = 0
    /\ chunk = Fresh(0)
    /\ voice = FALSE /\ playing = FALSE
    /\ handed = "none" /\ over = FALSE
    /\ steady = 0 /\ apart = 0

-----------------------------------------------------------------------------
(* The detector.                                                           *)

\* The noise floor after a frame.  While a chunk is open it follows only what is not
\* much above it.
NoiseAfter(level) ==
    {noisy} \cup (IF level = 0 THEN {FALSE} ELSE {})
            \cup (IF level >= 1 /\ (chunk.open => level < Shout) THEN {TRUE} ELSE {})

\* is_speech_like_frame: above the floor, and the spectrum of a voice.
SpeechLike(level, tonal, noise) == tonal /\ level > (IF noise THEN 1 ELSE 0)

\* effective_pause_ratio: far below the level of the speech so far; in noise a smaller
\* drop is enough.
Dropped(level, noise) == reference > 0 /\ level + (IF noise THEN 1 ELSE 2) <= reference

ReferenceAfter(level) ==
    IF reference = 0 THEN {level}
    ELSE Least(level, reference) .. Most(level, reference)

\* adaptive_silence_seconds, for a chunk of so many frames.
Tolerance(len, noise) ==
    IF noise THEN TrailLoud ELSE Least(TrailMax, Trail + len \div Growth)

\* resume_frames_for_silence, and its raise by the noise floor.
ResumeFrames(tolerance, noise) ==
    LET longer == Most(0, Least(tolerance, TrailMax) - Trail)
        scaled == Resume + (longer * (ResumeMax - Resume)) \div (TrailMax - Trail)
    IN  Most(scaled, IF noise THEN ResumeLoud ELSE Resume)

\* effective_max_chunk_seconds
MaxChunk(noise) == IF noise /\ Cap > 0 /\ CapLoud > 0 THEN CapLoud ELSE Cap

\* Mutant: the cap comes after the branch for a bot that plays.
OverlongWhenSilent(c, noise) ==
    c.open /\ ~playing /\ MaxChunk(noise) > 0 /\ c.len >= MaxChunk(noise)

Overlong(c, noise) == c.open /\ MaxChunk(noise) > 0 /\ c.len >= MaxChunk(noise)

-----------------------------------------------------------------------------
(* A frame.                                                                *)

\* Counted in the open chunk, or kept for the pre-roll of the next one.
Taken(c) ==
    IF c.open THEN [c EXCEPT !.len = @ + 1]
    ELSE [c EXCEPT !.pre = Least(@ + 1, PreFrames)]

\* Mutant: the pre-roll outlives the chunk.
ClosedWithPreRoll(c) == [Fresh(1 - c.turn) EXCEPT !.pre = c.pre]

Closed(c) == Fresh(1 - c.turn)

\* A frame of speech opens a chunk, or breaks the pause in it when enough frames of
\* speech came in a row (resume_after_pause).
WithSpeech(c, needed) ==
    IF ~c.open THEN [c EXCEPT !.open = TRUE]
    ELSE IF c.rest > 0 /\ c.back + 1 < needed THEN [c EXCEPT !.back = @ + 1]
    ELSE [c EXCEPT !.rest = 0, !.back = 0]

\* Mutant: a gust counts towards the next one.
WithPauseAndGusts(c) == IF c.open THEN [c EXCEPT !.rest = @ + 1] ELSE c

WithPause(c) == IF c.open THEN [c EXCEPT !.rest = @ + 1, !.back = 0] ELSE c

\* _finalize_speech_chunk, of a chunk as long as it is now; the frame that opened it is
\* in its pre-roll, too.  At the cap it is never an interruption.
Verdicts(c, paused) ==
    IF c.pre + 1 + c.len < MinFrames THEN {"short"}
    ELSE {"noise", IF paused /\ playing THEN "interruption" ELSE "speech"}

\* Mutant: the flush at the cap forgets that the user has ended.
StillSpeaking(said) == said

\* _mark_user_speech_ended, at the cap
EndedSpeaking(said) == FALSE

\* One pass of the loop: the cap first, then the frame; when the bot plays only a loud
\* frame is speech.
Frame(level, tonal) ==
    LET counted == /\ settled = SettleFrames
                   /\ SpeechLike(level, tonal, noisy')
                   /\ ~Dropped(level, noisy')
        speech == counted /\ (playing => level = Shout)
        taken == Taken(chunk)
        kept == IF Overlong(taken, noisy') THEN Closed(taken) ELSE taken
        tolerance == Tolerance(taken.len, noisy')
        next == IF speech THEN WithSpeech(kept, ResumeFrames(tolerance, noisy'))
                ELSE WithPause(kept)
        capped == kept # taken
        paused == next.open /\ ~speech /\ next.rest >= tolerance
    IN  /\ ~over
        /\ noisy' \in NoiseAfter(level)
        /\ settled' = Least(settled + 1, SettleFrames)
        /\ chunk' = IF paused THEN Closed(next) ELSE next
        /\ IF capped \/ paused THEN reference' = 0
           ELSE IF counted THEN reference' \in ReferenceAfter(level)
           ELSE UNCHANGED reference
        /\ IF paused THEN handed' \in Verdicts(taken, TRUE)
           ELSE IF capped THEN handed' \in Verdicts(chunk, FALSE)
           ELSE UNCHANGED handed
        /\ voice' = IF paused THEN FALSE
                    ELSE IF next.open /\ ~kept.open THEN TRUE
                    ELSE IF capped THEN EndedSpeaking(voice) ELSE voice
        /\ steady' = IF speech THEN Least(steady + 1, ResumeMax) ELSE 0
        /\ apart' = IF capped \/ paused THEN 0 ELSE IF chunk.open THEN apart ELSE Least(apart + 1, PreFrames)
        /\ UNCHANGED <<playing, over>>

\* The bot starts or ends to play.
Playback ==
    /\ ~over
    /\ playing' = ~playing
    /\ UNCHANGED <<settled, noisy, reference, chunk, voice, handed, over, steady, apart>>

\* The stream ends, or the loop fails.
PipelineEnds ==
    /\ ~over
    /\ over' = TRUE
    /\ UNCHANGED <<settled, noisy, reference, chunk, voice, playing, handed, steady, apart>>

SomeFrame == \E level \in Levels, tonal \in BOOLEAN : Frame(level, tonal)

PipeNext == SomeFrame \/ Playback \/ PipelineEnds

\* Frames arrive as long as the stream is open.
PipeFairness == WF_pipeVars(SomeFrame)

PipeSpec == PipeInit /\ [][PipeNext]_pipeVars /\ PipeFairness

-----------------------------------------------------------------------------
\* "a short wind gust ... can no longer cancel a long pause": a pause in an open chunk
\* is broken only by frames of speech that came in a row, across changes of the noise,
\* of the playback and of the tolerance (resume_after_pause).
GustsDoNotResume ==
    [][chunk.rest > 0 /\ chunk'.rest = 0 /\ chunk'.turn = chunk.turn => steady' >= Resume]_pipeVars

\* No frame gets into two chunks: the pre-roll of the next chunk does not reach back
\* before the end of the last one.
FramesInOneChunk == ~chunk.open => chunk.pre <= apart

\* A chunk does not go on for ever: noise that never pauses runs into the cap, whether the
\* bot plays or not and however the noise floor moves, so that the reply that waits for
\* the caller's silence gets its turn (_chunk_flush).
ChunkIsBounded == Cap > 0 => chunk.len < Most(Cap, CapLoud)

\* The call waits with its answers exactly while an utterance is open (_speaking).
SpeakingIsOpenChunk == voice <=> chunk.open

\* What holds of every chunk, whatever the frames (_audio_pipeline): it shares no frame
\* with the next one, it holds back the answers while it is open, and it ends.
ChunkIsSound == FramesInOneChunk /\ SpeakingIsOpenChunk /\ ChunkIsBounded
=============================================================================

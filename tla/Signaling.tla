------------------------------ MODULE Signaling ------------------------------
(***************************************************************************)
(* How a voice call comes and goes on the Matrix side                      *)
(* (pawlia/interfaces/matrix_call.py, matrixrtc_call.py): CallManager      *)
(* takes calls that are offered by invite and carried by aiortc,           *)
(* MatrixRTCManager joins the calls it sees in a room's membership events  *)
(* and carries them over LiveKit.  Each keeps the sessions it has taken in *)
(* a dictionary, by call id and by room.                                   *)
(*                                                                         *)
(* The client awaits the callback of one event before it delivers the      *)
(* next, so at most one handler is under way (sync).  A session's own      *)
(* coroutines run beside it: those that end a call are the ones modelled,  *)
(* by the reason they end it for.  What is said during a call is CallCore. *)
(* An exception that leaves a handler ends the interface, which the        *)
(* supervisor starts again with new managers; the coroutines of its calls  *)
(* go on.                                                                  *)
(***************************************************************************)
EXTENDS Naturals, FiniteSets

CONSTANTS
    Calls,         \* ids of the calls offered by invite
    Room,          \* the room, as MatrixRTCManager's key
    MaxSessions,   \* bound: calls taken
    MaxFaults      \* bound: failures of a handler or of an audio pipeline

ASSUME SignalingAssumption ==
    /\ Room \notin Calls
    /\ MaxSessions \in Nat /\ MaxFaults \in Nat

Keys == Calls \cup {Room}
Ids == 1..MaxSessions
NoId == 0

Reasons == {"connection", "reconnect", "timeout", "media", "idle", "remote"}
Phases == {"none", "waiting", "telling", "closing"}

VARIABLES
    sync,       \* the handler under way, the key it is about and its session
    managed,    \* _sessions of both managers
    session,    \* every session that was created
    ending,     \* per session and reason: the coroutine that ends the call
    member,     \* Pawlia's membership stands in the room's state
    lives,      \* how often the interface was started again
    faults

sigVars == <<sync, managed, session, ending, member, lives, faults>>

Idle == [at |-> "idle", key |-> Room, s |-> NoId]

NoSession == [key |-> Room, life |-> 0, running |-> FALSE, answered |-> FALSE, hungup |-> FALSE,
              done |-> FALSE, link |-> "none", media |-> FALSE]

SigInit ==
    /\ sync = Idle
    /\ managed = [k \in Keys |-> NoId]
    /\ session = [s \in Ids |-> NoSession]
    /\ ending = [s \in Ids |-> [r \in Reasons |-> "none"]]
    /\ member = FALSE
    /\ lives = 0 /\ faults = 0

Created == {s \in Ids : session[s].life > 0}

\* CallCore.finished, with is_transport_finished of the two transports
Finished(s) ==
    \/ session[s].hungup \/ session[s].done
    \/ session[s].link \in {"failed", "closed"}

Fault == faults < MaxFaults /\ faults' = faults + 1

At(point) == sync.at = point

\* The handler goes on to its next await.
Goto(point) == sync' = [sync EXCEPT !.at = point]

-----------------------------------------------------------------------------
(* Taking a call *)

\* Mutant: a repeated invite is taken as a new call.
InviteAlwaysTaken(c) ==
    /\ At("idle")
    /\ managed' = [managed EXCEPT ![c] = NoId]
    /\ sync' = [at |-> "root", key |-> c, s |-> NoId]
    /\ UNCHANGED <<session, ending, member, lives, faults>>

\* CallManager.on_invite up to its first await: a finished session is replaced.
InviteArrives(c) ==
    /\ At("idle")
    /\ managed[c] # NoId => Finished(managed[c])
    /\ managed' = [managed EXCEPT ![c] = NoId]
    /\ sync' = [at |-> "root", key |-> c, s |-> NoId]
    /\ UNCHANGED <<session, ending, member, lives, faults>>

\* MatrixRTCManager.on_member_event: somebody else is in a call in the room.
MemberJoined ==
    /\ At("idle")
    /\ managed[Room] = NoId
    /\ sync' = [at |-> "root", key |-> Room, s |-> NoId]
    /\ UNCHANGED <<managed, session, ending, member, lives, faults>>

\* The thread root has been sent, or could not be: the session is made and registered.
SessionCreated ==
    /\ At("root")
    /\ \E s \in Ids \ Created :
        /\ \A r \in 1..(s - 1) : r \in Created
        /\ session' = [session EXCEPT ![s] = [NoSession EXCEPT !.key = sync.key, !.life = lives + 1]]
        /\ managed' = [managed EXCEPT ![sync.key] = s]
        /\ sync' = [sync EXCEPT !.s = s, !.at = IF sync.key = Room THEN "credentials" ELSE "warming"]
    /\ UNCHANGED <<ending, member, lives, faults>>

\* _join's end when start returned False.
JoinGivenUp ==
    /\ managed' = [managed EXCEPT ![Room] = NoId]
    /\ member' = FALSE
    /\ sync' = Idle

\* MatrixRTCSession.start: the OpenID token and the LiveKit credentials.
Credentials ==
    /\ At("credentials")
    /\ \/ Goto("warming") /\ UNCHANGED <<managed, member, faults>>
       \/ Fault /\ JoinGivenUp
    /\ UNCHANGED <<session, ending, lives>>

\* _run_preanswer_warmup has ended: an Element X call is announced before it is joined.
Warmed ==
    /\ At("warming")
    /\ IF sync.key = Room
       THEN /\ member' = TRUE
            /\ Goto("connecting")
            /\ UNCHANGED session
       ELSE /\ session' = [session EXCEPT ![sync.s].link = "open"]
            /\ Goto("describing")
            /\ UNCHANGED member
    /\ UNCHANGED <<managed, ending, lives, faults>>

\* LiveKitTransport.start: the room is connected, and then the track is published.
Connected ==
    /\ At("connecting")
    /\ \/ /\ session' = [session EXCEPT ![sync.s].link = "open"]
          /\ Goto("publishing")
          /\ UNCHANGED <<managed, member, faults>>
       \/ /\ Fault
          /\ session' = [session EXCEPT ![sync.s].link = "closed"]
          /\ JoinGivenUp
    /\ UNCHANGED <<ending, lives>>

Published ==
    /\ At("publishing")
    /\ session' = [session EXCEPT ![sync.s].media = TRUE, ![sync.s].answered = TRUE,
                                  ![sync.s].running = TRUE]
    /\ sync' = Idle
    /\ UNCHANGED <<managed, ending, member, lives, faults>>

\* CallSession.start: the offer has been taken up and the coroutines of the call started.
Described ==
    /\ At("describing")
    /\ session' = [session EXCEPT ![sync.s].running = TRUE]
    /\ Goto("answering")
    /\ UNCHANGED <<managed, ending, member, lives, faults>>

Answered ==
    /\ At("answering")
    /\ session' = [session EXCEPT ![sync.s].answered = TRUE]
    /\ sync' = Idle
    /\ UNCHANGED <<managed, ending, member, lives, faults>>

\* An offer that cannot be taken up, an answer that cannot be sent, a track that cannot be
\* published: nothing catches the exception before the supervisor, which starts anew.
HandlerRaises ==
    /\ sync.at \in {"describing", "answering", "publishing"}
    /\ Fault
    /\ lives' = lives + 1
    /\ managed' = [k \in Keys |-> NoId]
    /\ sync' = Idle
    /\ UNCHANGED <<session, ending, member>>

-----------------------------------------------------------------------------
(* Ending a call *)

Ends(s, r, phase) == ending' = [ending EXCEPT ![s][r] = phase]

\* ICE fails, or LiveKit's room is disconnected: _on_transport_ice_failed
ConnectionFails(s) ==
    /\ session[s].link \in {"open", "shaky"}
    /\ ending[s]["connection"] = "none"
    /\ session' = [session EXCEPT ![s].media = TRUE,
                                  ![s].link = IF session[s].key = Room THEN "closed" ELSE "failed"]
    /\ Ends(s, "connection", "telling")
    /\ UNCHANGED <<sync, managed, member, lives, faults>>

\* ICE is disconnected: _ice_reconnect_watchdog gets started unless one is at work.
Disconnects(s) ==
    /\ session[s].link = "open" /\ session[s].key # Room /\ session[s].media
    /\ session' = [session EXCEPT ![s].link = "shaky"]
    /\ IF ending[s]["reconnect"] = "none" THEN Ends(s, "reconnect", "waiting") ELSE UNCHANGED ending
    /\ UNCHANGED <<sync, managed, member, lives, faults>>

\* ICE is connected again: the watchdog is cancelled, even while it tells the other side.
Recovers(s) ==
    /\ session[s].link = "shaky" /\ ~session[s].hungup
    /\ session' = [session EXCEPT ![s].link = "open"]
    /\ Ends(s, "reconnect", "none")
    /\ UNCHANGED <<sync, managed, member, lives, faults>>

\* Thirty seconds have passed.
ReconnectTimesOut(s) ==
    /\ ending[s]["reconnect"] = "waiting"
    /\ Ends(s, "reconnect", IF session[s].link = "shaky" THEN "telling" ELSE "none")
    /\ UNCHANGED <<sync, managed, session, member, lives, faults>>

\* on_conn_state: the caller's end is there.
MediaConnects(s) ==
    /\ session[s].answered /\ session[s].link = "open" /\ ~session[s].media
    /\ session' = [session EXCEPT ![s].media = TRUE]
    /\ UNCHANGED <<sync, managed, ending, member, lives, faults>>

\* _connect_timeout_watchdog
ConnectTimesOut(s) ==
    /\ session[s].running /\ session[s].answered /\ ~session[s].media
    /\ ~session[s].done /\ ~session[s].hungup
    /\ ending[s]["timeout"] = "none"
    /\ Ends(s, "timeout", "telling")
    /\ UNCHANGED <<sync, managed, session, member, lives, faults>>

\* The audio track ends, which only aiortc's reader reports: the last lines of _audio_pipeline.
MediaEnds(s) ==
    /\ session[s].running /\ session[s].key # Room /\ session[s].media
    /\ ~session[s].done
    /\ session' = [session EXCEPT ![s].done = TRUE]
    /\ Ends(s, "media", IF session[s].hungup THEN "none" ELSE "telling")
    /\ UNCHANGED <<sync, managed, member, lives, faults>>

\* _audio_pipeline ends by an exception.
PipelineFails(s) ==
    /\ session[s].running /\ ~session[s].done
    /\ Fault
    /\ session' = [session EXCEPT ![s].done = TRUE]
    /\ UNCHANGED <<sync, managed, ending, member, lives>>

\* Mutant: a call that is done counts as hung up.
HangsUpUnlessDone(s, r) ==
    /\ session' = [session EXCEPT ![s].hungup = TRUE, ![s].done = TRUE]
    /\ Ends(s, r, IF session[s].done THEN "none" ELSE "closing")

\* CallCore.hangup up to the closing of the transport, by the coroutine r.
HangsUp(s, r) ==
    /\ session' = [session EXCEPT ![s].hungup = TRUE, ![s].done = TRUE]
    /\ Ends(s, r, IF session[s].hungup THEN "none" ELSE "closing")

\* _watchdog: it hangs up before it tells the other side.
Inactive(s) ==
    /\ session[s].running /\ ~session[s].done
    /\ ending[s]["idle"] = "none"
    /\ session' = [session EXCEPT ![s].hungup = TRUE, ![s].done = TRUE]
    /\ Ends(s, "idle", "closing")
    /\ UNCHANGED <<sync, managed, member, lives, faults>>

\* Mutant: the other side is told, and nobody hangs up.
ToldOnly(s, r) ==
    /\ ending[s][r] = "telling"
    /\ member' = (member /\ session[s].key # Room)
    /\ Ends(s, r, "none")
    /\ UNCHANGED <<sync, managed, session, lives, faults>>

\* _send_hangup_event has been awaited: m.call.hangup is sent, or the membership cleared.
Told(s, r) ==
    /\ ending[s][r] = "telling"
    /\ member' = (member /\ session[s].key # Room)
    /\ IF r = "idle"
       THEN Ends(s, r, "none") /\ UNCHANGED session
       ELSE HangsUp(s, r)
    /\ UNCHANGED <<sync, managed, lives, faults>>

\* The transport has been closed.  LiveKit then reports that the room is disconnected.
Closed(s, r) ==
    /\ ending[s][r] = "closing"
    /\ session' = [session EXCEPT ![s].link = IF @ = "none" THEN "none" ELSE "closed",
                                  ![s].media = TRUE]
    /\ ending' = [ending EXCEPT
         ![s] = [q \in Reasons |->
             IF q = r THEN IF r = "idle" THEN "telling" ELSE "none"
             ELSE IF q = "connection" /\ session[s].key = Room /\ session[s].link = "open" /\ @[q] = "none"
                  THEN "telling" ELSE @[q]]]
    /\ sync' = IF r = "remote" THEN Idle ELSE sync
    /\ UNCHANGED <<managed, member, lives, faults>>

\* The other side has hung up: on_hangup, and on_member_event with _leave_session, which
\* leaves a session that has finished where it is.  The handler waits for hangup.
RemoteHangsUp(k) ==
    /\ At("idle")
    /\ LET s == managed[k] IN
        /\ s # NoId
        /\ k = Room => ~Finished(s)
        /\ managed' = [managed EXCEPT ![k] = NoId]
        /\ HangsUp(s, "remote")
        /\ sync' = IF session[s].hungup THEN Idle ELSE [at |-> "hanging", key |-> k, s |-> s]
    /\ UNCHANGED <<member, lives, faults>>

Coroutine(s) == \E r \in Reasons : Told(s, r) \/ Closed(s, r)

Handler ==
    \/ SessionCreated \/ Credentials \/ Warmed \/ Connected \/ Published
    \/ Described \/ Answered

SigNext ==
    \/ \E c \in Calls : InviteArrives(c)
    \/ MemberJoined
    \/ Handler
    \/ HandlerRaises
    \/ \E s \in Created :
        \/ ConnectionFails(s) \/ Disconnects(s) \/ Recovers(s) \/ MediaConnects(s)
        \/ ConnectTimesOut(s) \/ ReconnectTimesOut(s)
        \/ MediaEnds(s) \/ PipelineFails(s) \/ Inactive(s)
        \/ Coroutine(s)
    \/ \E k \in Keys : RemoteHangsUp(k)

\* The coroutines that end a call go on, and time passes for the watchdogs.
SigFairness(s) ==
    /\ WF_sigVars(Coroutine(s))
    /\ WF_sigVars(ConnectTimesOut(s))
    /\ WF_sigVars(ReconnectTimesOut(s))

SigSpec == SigInit /\ [][SigNext]_sigVars /\ \A s \in Ids : SigFairness(s)

-----------------------------------------------------------------------------
(* Properties *)

SigTypeOK ==
    /\ sync \in [at : {"idle", "root", "credentials", "warming", "connecting", "publishing",
                       "describing", "answering", "hanging"}, key : Keys, s : Ids \cup {NoId}]
    /\ managed \in [Keys -> Ids \cup {NoId}]
    /\ session \in [Ids -> [key : Keys, life : 0..(lives + 1), running : BOOLEAN, answered : BOOLEAN,
                            hungup : BOOLEAN, done : BOOLEAN,
                            link : {"none", "open", "shaky", "failed", "closed"}, media : BOOLEAN]]
    /\ ending \in [Ids -> [Reasons -> Phases]]
    /\ member \in BOOLEAN
    /\ lives \in 0..MaxFaults /\ faults \in 0..MaxFaults

Quiet(s) == sync.s # s /\ \A r \in Reasons : ending[s][r] \in {"none", "waiting"}

\* A call that is still going on, and was taken since the interface was last started, is the
\* one its manager would hang up: no repeated invite, no second member and no failed join
\* leaves a call running that the other side can no longer end.
ReachableByHangup ==
    \A s \in Created :
        session[s].running /\ ~Finished(s) /\ session[s].life = lives + 1
            => managed[session[s].key] = s

\* When a call has been hung up and the coroutines that did it have ended, its transport is
\* closed; and if no Element X call is under way, Pawlia is no longer shown as a member,
\* whichever of the endings came first or interrupted the other.
NothingLeftBehind ==
    \A s \in Created :
        session[s].hungup /\ Quiet(s) =>
            /\ session[s].link \in {"none", "closed"}
            /\ session[s].key = Room /\ member =>
                \E t \in Created \ {s} : session[t].key = Room /\ (session[t].running \/ ~Quiet(t) \/ session[t].life < lives + 1)

Broken(s) ==
    \/ session[s].link \in {"shaky", "failed"}
    \/ session[s].key = Room /\ session[s].link = "closed" /\ session[s].running
    \/ session[s].running /\ session[s].answered /\ ~session[s].media
Over(s) == session[s].hungup /\ session[s].link = "closed"

\* A call whose connection fails or stays interrupted, or whose media never connect after the
\* answer, is hung up and its transport closed in the end, unless it recovers, the media do
\* connect, or its pipeline has died before they did.
BrokenCallEnds ==
    \A s \in Ids : Broken(s) ~> (Over(s) \/ (session[s].link = "open" /\ (session[s].media \/ session[s].done)))

\* "A non-empty membership from another user in an allowed room triggers us to join"
\* (on_member_event): a session for which the event is refused ("already in this call") is
\* one that is still going on, or that is just being ended.
RoomAnswersAgain ==
    managed[Room] # NoId => ~Finished(managed[Room]) \/ ~Quiet(managed[Room])

=============================================================================

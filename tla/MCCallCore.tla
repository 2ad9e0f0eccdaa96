----------------------------- MODULE MCCallCore -----------------------------
(***************************************************************************)
(* Small instances of CallCore and Endpointing for TLC.  CallCore takes    *)
(* the utterances as they come and Endpointing finds them; the two share   *)
(* no state: a behaviour is a behaviour of one of them.  The frames stay   *)
(* where they start; a call that is not looked at ends at once.            *)
(***************************************************************************)
EXTENDS CallCore, Endpointing

VARIABLE part

MCInit ==
    /\ Init /\ PipeInit
    /\ \/ part = "call" /\ ~noisy
       \/ part = "pipeline"

MCNext ==
    \/ part = "call" /\ Next /\ UNCHANGED <<pipeVars, part>>
    \/ part = "pipeline" /\ ConnectTimeout /\ UNCHANGED <<pipeVars, part>>
    \/ part = "pipeline" /\ done /\ PipeNext /\ UNCHANGED <<vars, part>>

MCSpec ==
    /\ MCInit /\ [][MCNext]_<<vars, pipeVars, part>>
    /\ WF_vars((part = "pipeline" => ConnectTimeout) /\ Core)
    /\ WF_pipeVars(part = "pipeline" /\ done /\ SomeFrame)

\* Faults come with two utterances, three utterances without.
Explored == faults = 0 \/ speech[MaxUtterances].at = "none"
=============================================================================

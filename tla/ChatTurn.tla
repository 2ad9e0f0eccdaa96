------------------------------ MODULE ChatTurn ------------------------------
(***************************************************************************)
(* What a user may rely on when a message is sent (the comments around     *)
(* _process_turn in interfaces/matrix.py): a message is looked at and, if   *)
(* it is not dropped, answered once, by a reply that files may follow or by *)
(* an error and never by both.  A turn that is broken off leaves at most a  *)
(* note from then on, and one that is over leaves nothing any more.  Any    *)
(* single send may be lost.                                                 *)
(***************************************************************************)
CONSTANT Messages

VARIABLES
    phase,   \* of each message
    said     \* what kinds of event it has led to

vars == <<phase, said>>

Phases == {"new", "seen", "turn", "replied", "failed", "broken", "over"}

Init ==
    /\ phase = [m \in Messages |-> "new"]
    /\ said = [m \in Messages |-> {}]

Goes(m, next) == phase' = [phase EXCEPT ![m] = next]

Says(m, what) == said' \in {said, [said EXCEPT ![m] = @ \cup {what}]}

\* A message with an attachment is looked at before it is a turn.
See(m) == phase[m] = "new" /\ Goes(m, "seen") /\ UNCHANGED said

Take(m) == phase[m] \in {"new", "seen"} /\ Goes(m, "turn") /\ UNCHANGED said

Drop(m) == phase[m] = "seen" /\ Goes(m, "over") /\ UNCHANGED said

Answer(m) ==
    /\ phase[m] = "turn"
    /\ \/ Goes(m, "replied") /\ Says(m, "reply")
       \/ Goes(m, "failed") /\ Says(m, "error")

SendFile(m) == phase[m] = "replied" /\ Says(m, "file") /\ UNCHANGED phase

Conclude(m) == phase[m] \in {"replied", "failed"} /\ Goes(m, "over") /\ UNCHANGED said

BreakOff(some) ==
    /\ \A m \in some : phase[m] \notin {"new", "over"}
    /\ phase' = [m \in Messages |-> IF m \in some THEN "broken" ELSE phase[m]]
    /\ UNCHANGED said

LeaveNote(m) == phase[m] = "broken" /\ Goes(m, "over") /\ Says(m, "note")

Next ==
    \/ \E m \in Messages : \/ See(m) \/ Take(m) \/ Drop(m) \/ Answer(m) \/ SendFile(m)
                           \/ Conclude(m) \/ LeaveNote(m)
    \/ \E some \in SUBSET Messages : BreakOff(some)

Spec == Init /\ [][Next]_vars
=============================================================================

------------------------------ MODULE MCAgenda ------------------------------
(***************************************************************************)
(* Small instances of Scheduler, Reminders and JobRunner for TLC: the loop *)
(* of the scheduler, and the two lists it works on in each tick while the  *)
(* organizer edits them.  How a check is reached in a tick is a matter of  *)
(* the loop, what it does one of the list; the three share no state: a     *)
(* behaviour is a behaviour of one of them, and the others stay where they *)
(* started, the lists empty.                                               *)
(***************************************************************************)
EXTENDS Scheduler, Reminders, JobRunner

VARIABLES
    part

MCInit ==
    /\ Init /\ JobInit /\ LoopInit
    /\ part \in {"loop", "reminders", "jobs"}
    /\ part # "reminders" => file = <<>>
    /\ part # "jobs" => jobs = <<>>

MCNext ==
    \/ part = "loop" /\ LoopNext /\ UNCHANGED <<vars, jobVars, part>>
    \/ part = "reminders" /\ Next /\ UNCHANGED <<jobVars, loopVars, part>>
    \/ part = "jobs" /\ JobNext /\ UNCHANGED <<vars, loopVars, part>>

\* In an empty list nothing is due, while the loop always goes on.
MCSpec ==
    /\ MCInit /\ [][MCNext]_<<vars, jobVars, loopVars, part>>
    /\ Fairness
    /\ JobFairness
    /\ WF_loopVars(part = "loop" /\ Work)
    /\ WF_loopVars(part = "loop" /\ IdleGrows)
    /\ WF_loopVars(part = "loop" /\ Start)

\* The loop meets a message or its end.
Explored == messages + stops <= 1
=============================================================================

------------------------------ MODULE MCSkills ------------------------------
(***************************************************************************)
(* Small instances of SkillRunner and SkillStore for TLC.  The two share   *)
(* no state: a behaviour is a behaviour of one of them, and the other one  *)
(* stays where it started.                                                 *)
(***************************************************************************)
EXTENDS SkillRunner, SkillStore, TLC

VARIABLE part

\* A skill with a workflow as the bot builds it, one as a caller without the
\* command fallback would, and skill-creator.
MCSetups ==
    {[creator |-> FALSE, workflow |-> TRUE, fallback |-> TRUE],
     [creator |-> FALSE, workflow |-> FALSE, fallback |-> FALSE],
     [creator |-> TRUE, workflow |-> FALSE, fallback |-> FALSE]}

\* No property names a call.
CallSymmetry == Permutations(Calls)

\* Credentials and tests touch nothing that the other properties of SkillStore are about,
\* and are explored before the second modification of a skill only.
Explored ==
    /\ clock > 0 => store = NoFile /\ legacy = NoFile
    /\ clock > 1 => tested = Red

MCInit ==
    /\ Init /\ StoreInit
    /\ \/ part = "runner" /\ legacy = NoFile
       \/ part = "store" /\ setup.creator

MCNext ==
    \/ part = "runner" /\ Next /\ UNCHANGED <<storeVars, part>>
    \/ part = "store" /\ StoreNext /\ UNCHANGED <<vars, part>>

MCSpec == MCInit /\ [][MCNext]_<<vars, storeVars, part>>
=============================================================================

------------------------------ MODULE MCMatrix ------------------------------
(***************************************************************************)
(* Small instances of MatrixChat and Signaling for TLC: two messages, in   *)
(* one thread or in two, and two calls of a room.  The two share no state: *)
(* a behaviour is a behaviour of one of them, and the other one stays      *)
(* where it started.                                                       *)
(***************************************************************************)
EXTENDS MatrixChat, Signaling

VARIABLE part

MCInit == Init /\ SigInit /\ part \in {"chat", "calls"}

MCNext ==
    \/ part = "chat" /\ Next /\ UNCHANGED <<sigVars, part>>
    \/ part = "calls" /\ SigNext /\ UNCHANGED <<vars, part>>

MCSpec ==
    /\ MCInit /\ [][MCNext]_<<vars, sigVars, part>>
    /\ \A s \in Ids : SigFairness(s)

\* Turns whose answer was lost on its way.
Unheard ==
    {t \in Messages : /\ at[t] \in {"replying", "sending", "apologizing", "done"}
                      /\ ~\E e \in posted : e.of = t /\ e.what \in {"reply", "error"}}

\* Messages are alike: one of them arrives first.
First == CHOOSE t \in Messages : TRUE

\* The coroutines that are ending a call.
Endings == {x \in Ids \X Reasons : ending[x[1]][x[2]] \in {"telling", "closing"}}

\* A //stop, a //reload or a lost answer; three endings of calls at once.
Explored ==
    /\ at[First] # "new" \/ \A t \in Messages : at[t] = "new"
    /\ stops + reloads + Cardinality(Unheard) <= 1
    /\ Cardinality(Endings) <= 3
=============================================================================

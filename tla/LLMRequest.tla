---------------------------- MODULE LLMRequest -----------------------------
(***************************************************************************)
(* What a chain of models promises its callers (docs/config.md: "models    *)
(* are tried in order when an invocation fails"): a request is passed down *)
(* the chain, never back, and ends as answered or failed.  It fails only   *)
(* when the whole chain has been passed, or when the model it is at breaks *)
(* off after it began to speak.                                            *)
(***************************************************************************)
EXTENDS Integers

CONSTANTS Requests, Last     \* the chain is 1 .. Last

VARIABLES
    status,   \* per request
    at,       \* the model a request is at; Last + 1 when the chain is passed
    speaking  \* pending requests whose model has begun to speak

vars == <<status, at, speaking>>

Statuses == {"new", "pending", "answered", "failed", "cancelled"}

Init ==
    /\ status = [r \in Requests |-> "new"]
    /\ at = [r \in Requests |-> 1]
    /\ speaking = {}

\* The request goes to model m, or past the chain.
GoTo(r, m) ==
    /\ at' = [at EXCEPT ![r] = m]
    /\ status' = [status EXCEPT ![r] = IF m = Last + 1 THEN "failed" ELSE "pending"]
    /\ speaking' = speaking \ {r}

Issue(r) == status[r] = "new" /\ \E m \in 1 .. Last + 1 : GoTo(r, m)

PassOn(r) == status[r] = "pending" /\ \E m \in at[r] + 1 .. Last + 1 : GoTo(r, m)

Speak(r) ==
    /\ status[r] = "pending"
    /\ speaking' = speaking \cup {r}
    /\ UNCHANGED <<status, at>>

End(r, how) ==
    /\ status[r] = "pending"
    /\ status' = [status EXCEPT ![r] = how]
    /\ speaking' = speaking \ {r}
    /\ UNCHANGED at

Answer(r) == End(r, "answered")

BreakOff(r) == r \in speaking /\ End(r, "failed")

Cancel(r) == End(r, "cancelled")

Progress(r) == PassOn(r) \/ Answer(r) \/ BreakOff(r)

Next == \E r \in Requests : Issue(r) \/ Speak(r) \/ Progress(r) \/ Cancel(r)

SafeSpec == Init /\ [][Next]_vars

Spec == SafeSpec /\ \A r \in Requests : WF_vars(Progress(r))
=============================================================================

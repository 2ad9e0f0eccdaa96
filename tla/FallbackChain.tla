--------------------------- MODULE FallbackChain ---------------------------
(***************************************************************************)
(* The chain of models behind one agent: _FallbackLLMWrapper of            *)
(* pawlia/llm.py (invoke, ainvoke, astream), shared by the concurrent      *)
(* requests of all turns that use it.                                      *)
(*                                                                         *)
(* An action is the code between two awaits: a call of a model or of the   *)
(* summariser.  A prompt is long (it does not fit the models with a small  *)
(* window) or not.  An error is an outage (rate limit, timeout, server     *)
(* error or unclassified: it counts against the model), an overflow (the   *)
(* provider rejects the size) or a fault of the request.                   *)
(***************************************************************************)
EXTENDS Integers, FiniteSets, FiniteSetsExt

CONSTANTS
    Requests,
    Last,           \* the chain is 1 .. Last
    Small,          \* models with a small context window
    Threshold,      \* _BLACKLIST_THRESHOLD (3)
    Cooldown,       \* _BLACKLIST_COOLDOWN_SECONDS
    MaxTime         \* bound: the clock

Models == 1 .. Last

ASSUME ChainAssumption ==
    /\ Last \in Nat \ {0}
    /\ Small \subseteq Models
    /\ Threshold \in Nat \ {0}
    /\ Cooldown \in Nat /\ MaxTime \in Nat

VARIABLES
    failures,       \* _failures
    benchedUntil,   \* _blacklisted_until, 0 when the model is not blacklisted
    now,
    req,            \* per request: where invoke / ainvoke / astream stands
    \* -- history variables --
    lapses          \* requests a model failed with an outage since its last success

vars == <<failures, benchedUntil, now, req, lapses>>
ledger == <<failures, benchedUntil, lapses>>

Errors == {"outage", "overflow", "request"}
Waiting == {"fit", "call", "refit", "retry"}

NewRequest == [pc |-> "new", at |-> 1, long |-> FALSE, said |-> {}, lastExc |-> FALSE]

Init ==
    /\ failures = [m \in Models |-> 0]
    /\ benchedUntil = [m \in Models |-> 0]
    /\ now = 1
    /\ req = [r \in Requests |-> NewRequest]
    /\ lapses = [m \in Models |-> {}]

Benched(m) == benchedUntil[m] > now

\* The end of a request: of its record, only how and where it ended matters.
Ended(rec, pc) == [rec EXCEPT !.pc = pc, !.long = FALSE, !.said = {}]

\* The loop over the chain from model m on: blacklisted models are skipped; one whose
\* window is too small for the prompt waits for a summary; past the last model the
\* last error is raised.
Loop(r, m, rec) ==
    LET open == {n \in m .. Last : ~Benched(n)}
    IN  \/ /\ open = {}
           /\ req' = [req EXCEPT ![r] = [Ended(rec, "raised") EXCEPT !.at = Last + 1]]
        \/ /\ open # {}
           /\ req' = [req EXCEPT ![r] =
                 [rec EXCEPT !.at = Min(open),
                             !.pc = IF rec.long /\ Min(open) \in Small THEN "fit" ELSE "call"]]

\* Mutant of PassOn: the loop starts over.
StartOver(r) == Loop(r, 1, [req[r] EXCEPT !.lastExc = TRUE])

\* The model is given up: last_exc is set and the loop goes on.
PassOn(r) == Loop(r, req[r].at + 1, [req[r] EXCEPT !.lastExc = TRUE])

NoteSuccess(m) ==
    /\ failures' = [failures EXCEPT ![m] = 0]
    /\ benchedUntil' = [benchedUntil EXCEPT ![m] = 0]
    /\ lapses' = [lapses EXCEPT ![m] = {}]

\* Mutant of Counts: every error counts.
CountsAlways(error) == TRUE

\* _BLACKLIST_ELIGIBLE_CATEGORIES, and the threshold with this failure counted.
Counts(error) == error = "outage"
AtThreshold(m) == failures[m] + 1 >= Threshold

NoteFailure(r, m, error) ==
    /\ lapses' = IF error = "outage" THEN [lapses EXCEPT ![m] = @ \cup {r}] ELSE lapses
    /\ \/ /\ ~Counts(error)
          /\ UNCHANGED <<failures, benchedUntil>>
       \/ /\ Counts(error)
          /\ failures' = [failures EXCEPT ![m] = IF AtThreshold(m) THEN 0 ELSE @ + 1]
          /\ benchedUntil' = [benchedUntil EXCEPT ![m] = IF AtThreshold(m) THEN now + Cooldown ELSE @]

-----------------------------------------------------------------------------
AllBenched == \A m \in Models : Benched(m)

\* _raise_if_all_blacklisted, then the loop.
Start(r, long) ==
    LET rec == [NewRequest EXCEPT !.long = long]
    IN  /\ req[r].pc = "new"
        /\ IF AllBenched
           THEN req' = [req EXCEPT ![r] = [Ended(rec, "raised") EXCEPT !.at = Last + 1,
                                                                     !.lastExc = TRUE]]
           ELSE Loop(r, 1, rec)
        /\ UNCHANGED <<ledger, now>>

\* The summary of a prompt that does not fit replaces it for the rest of the chain; if
\* it does not fit either, the next model is tried.
Fit(r, fits) ==
    /\ req[r].pc = "fit"
    /\ IF fits THEN req' = [req EXCEPT ![r].pc = "call", ![r].long = FALSE]
       ELSE PassOn(r)
    /\ UNCHANGED <<ledger, now>>

\* astream hands a piece of the answer on; a request that never does is one of invoke
\* or ainvoke.
Chunk(r) ==
    /\ req[r].pc \in {"call", "retry"}
    /\ req' = [req EXCEPT ![r].said = @ \cup {<<req[r].at, req[r].pc>>}]
    /\ UNCHANGED <<ledger, now>>

Answer(r) ==
    /\ req[r].pc \in {"call", "retry"}
    /\ req' = [req EXCEPT ![r] = Ended(@, "answered")]
    /\ NoteSuccess(req[r].at)
    /\ UNCHANGED now

\* yielded_any
Spoke(r) == <<req[r].at, "call">> \in req[r].said

\* The call fails: raised at once after output, retried after an overflow with a
\* summary of the prompt, else passed on.
Fail(r, error) ==
    /\ req[r].pc = "call"
    /\ NoteFailure(r, req[r].at, error)
    /\ \/ /\ Spoke(r)
          /\ req' = [req EXCEPT ![r] = [Ended(@, "raised") EXCEPT !.lastExc = TRUE]]
       \/ /\ ~Spoke(r)
          /\ error = "overflow"
          /\ req' = [req EXCEPT ![r].pc = "refit", ![r].lastExc = TRUE]
       \/ /\ ~Spoke(r)
          /\ error # "overflow"
          /\ PassOn(r)
    /\ UNCHANGED now

Refit(r, fits) ==
    /\ req[r].pc = "refit"
    /\ IF fits THEN req' = [req EXCEPT ![r].pc = "retry"] ELSE PassOn(r)
    /\ UNCHANGED <<ledger, now>>

FailRetry(r, error) ==
    /\ req[r].pc = "retry"
    /\ NoteFailure(r, req[r].at, error)
    /\ PassOn(r)
    /\ UNCHANGED now

\* The turn is cancelled: CancelledError is no Exception, nothing is noted.
Cancel(r) ==
    /\ req[r].pc \in Waiting
    /\ req' = [req EXCEPT ![r] = Ended(@, "cancelled")]
    /\ UNCHANGED <<ledger, now>>

Advance ==
    /\ now < MaxTime
    /\ now' = now + 1
    /\ UNCHANGED <<ledger, req>>

\* What the models and the summariser answer to a waiting request.
Reply(r) ==
    \/ \E fits \in BOOLEAN : Fit(r, fits)
    \/ Answer(r)
    \/ \E error \in Errors : Fail(r, error)
    \/ \E fits \in BOOLEAN : Refit(r, fits)
    \/ \E error \in Errors : FailRetry(r, error)

Step(r) ==
    \/ \E long \in BOOLEAN : Start(r, long)
    \/ Chunk(r)
    \/ Reply(r)
    \/ Cancel(r)

Next == Advance \/ \E r \in Requests : Step(r)

Spec == Init /\ [][Next]_vars

\* Every call of a provider returns or times out.
FairSpec == Spec /\ \A r \in Requests : WF_vars(Reply(r))

-----------------------------------------------------------------------------
RequestRecords ==
    [pc : Waiting \cup {"new", "answered", "raised", "cancelled"}, at : 1 .. Last + 1,
     long : BOOLEAN, said : SUBSET (Models \X {"call", "retry"}),
     lastExc : BOOLEAN]

\* Every variable has its type; a request that waits is at a model, and a count that
\* reaches the threshold is turned into a ban.
TypeOK ==
    /\ failures \in [Models -> 0 .. Threshold - 1]
    /\ benchedUntil \in [Models -> Nat]
    /\ now \in Nat
    /\ req \in [Requests -> RequestRecords]
    /\ \A r \in Requests : req[r].pc \in Waiting => req[r].at \in Models
    /\ lapses \in [Models -> SUBSET Requests]

\* "assert last_exc is not None" before the last raise: with bans set and lifted by
\* concurrent requests, a request that passes the whole chain has met an error.
RaiseHasCause == \A r \in Requests : req[r].pc = "raised" => req[r].lastExc

\* "After three failed requests, a model is skipped" (_FallbackLLMWrapper): a ban means
\* as many different requests failed there for lack of the model, not for what they
\* asked, with no success since.
BannedForCause ==
    \A m \in Models : Benched(m) => Cardinality(lapses[m]) >= Threshold

\* What a caller hears comes from one model, unless a retry after an overflow broke off
\* and the chain went on.
OneVoice ==
    \A r \in Requests :
        Cardinality({v[1] : v \in req[r].said}) <=
            1 + Cardinality({v \in req[r].said : v[2] = "retry"})

StatusOf(r) ==
    CASE req[r].pc \in Waiting -> "pending"
      [] req[r].pc = "raised"  -> "failed"
      [] OTHER                 -> req[r].pc

\* The wrapper implements the promise of a chain.
Promise == INSTANCE LLMRequest WITH
    status <- [r \in Requests |-> StatusOf(r)],
    at <- [r \in Requests |-> req[r].at],
    speaking <- {r \in Requests : Spoke(r)}

ChainPromise == Promise!Spec

ChainSafety == Promise!SafeSpec
=============================================================================

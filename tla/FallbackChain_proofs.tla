------------------------ MODULE FallbackChain_proofs ------------------------
(***************************************************************************)
(* Theorems about FallbackChain for every chain, threshold, cooldown and   *)
(* set of requests: types, the cause of a raise, the cause of a ban, the   *)
(* single voice of an answer, and the refinement of LLMRequest (safety).   *)
(***************************************************************************)
EXTENDS FallbackChain, FiniteSetTheorems, WellFoundedInduction, TLAPS

-----------------------------------------------------------------------------
(* The loop over the chain *)

\* A non-empty set of models has a first one.
LEMMA MinModel ==
    ASSUME NEW S \in SUBSET Models, S # {}
    PROVE  Min(S) \in S
<1>1. S \subseteq Nat
    BY ChainAssumption DEF Models
<1>2. PICK x \in S : \A y \in S : ~(<<y, x>> \in OpToRel(<, Nat))
    BY <1>1, NatLessThanWellFounded, WFMin
<1>3. \A y \in S : ~(y < x)
    BY <1>1, <1>2 DEF OpToRel
<1>4. \A y \in S : x <= y
    BY <1>1, <1>3
<1>. QED  BY <1>4 DEF Min

\* The end of a request keeps the type and where it stood.
LEMMA EndedShape ==
    ASSUME NEW rec \in RequestRecords, NEW pc \in {"answered", "raised", "cancelled"}
    PROVE  /\ Ended(rec, pc) \in RequestRecords
           /\ Ended(rec, pc).pc = pc /\ Ended(rec, pc).at = rec.at
           /\ Ended(rec, pc).lastExc = rec.lastExc /\ Ended(rec, pc).said = {}
<1>1. {} \in SUBSET (Models \X {"call", "retry"})
    OBVIOUS
<1>. QED  BY <1>1 DEF Ended, RequestRecords

\* The records the loop and _raise_if_all_blacklisted leave.
Moved(rec, m, pc) == [rec EXCEPT !.at = m, !.pc = pc]
Noted(rec, m) == [rec EXCEPT !.at = m, !.lastExc = TRUE]

WithError(rec) == [rec EXCEPT !.lastExc = TRUE]

\* Moving a request changes its place only.
LEMMA MovedShape ==
    ASSUME NEW rec \in RequestRecords, NEW m \in 1 .. Last + 1, NEW pc \in Waiting
    PROVE  /\ Moved(rec, m, pc) \in RequestRecords
           /\ Moved(rec, m, pc).at = m /\ Moved(rec, m, pc).pc = pc
           /\ Moved(rec, m, pc).said = rec.said
           /\ Moved(rec, m, pc).lastExc = rec.lastExc
BY DEF RequestRecords, Moved

\* Nor does the error noted with a move past the chain change anything else.
LEMMA NotedShape ==
    ASSUME NEW rec \in RequestRecords, NEW m \in 1 .. Last + 1
    PROVE  /\ Noted(rec, m) \in RequestRecords
           /\ Noted(rec, m).at = m /\ Noted(rec, m).pc = rec.pc
           /\ Noted(rec, m).said = rec.said /\ Noted(rec, m).lastExc
BY DEF RequestRecords, Noted

\* Noting an error changes nothing else.
LEMMA WithErrorShape ==
    ASSUME NEW rec \in RequestRecords
    PROVE  /\ WithError(rec) \in RequestRecords
           /\ WithError(rec).at = rec.at /\ WithError(rec).pc = rec.pc
           /\ WithError(rec).said = rec.said /\ WithError(rec).lastExc
BY DEF RequestRecords, WithError

\* Where the loop takes a request: past the chain when every model left is blacklisted,
\* else to a model at or after m.
LEMMA LoopShape ==
    ASSUME NEW r \in Requests, NEW m \in 1 .. Last + 1, NEW rec \in RequestRecords,
           req \in [Requests -> RequestRecords], Loop(r, m, rec)
    PROVE  /\ req' = [req EXCEPT ![r] = req'[r]]
           /\ req'[r] \in RequestRecords
           /\ req'[r].lastExc = rec.lastExc
           /\ \/ /\ \A n \in m .. Last : Benched(n)
                 /\ req'[r].pc = "raised" /\ req'[r].at = Last + 1 /\ req'[r].said = {}
              \/ /\ req'[r].at \in m .. Last
                 /\ req'[r].pc \in {"fit", "call"} /\ req'[r].said = rec.said
<1>. DEFINE open == {n \in m .. Last : ~Benched(n)}
<1>1. Last \in Nat \ {0}
    BY ChainAssumption
<1>2. CASE open = {}
  <2>1. req' = [req EXCEPT ![r] = [Ended(rec, "raised") EXCEPT !.at = Last + 1]]
    BY <1>2 DEF Loop
  <2>2. req'[r] = [Ended(rec, "raised") EXCEPT !.at = Last + 1]
    BY <2>1
  <2>3. \A n \in m .. Last : Benched(n)
    BY <1>2
  <2>4. req' = [req EXCEPT ![r] = req'[r]]
    BY <2>1, <2>2
  <2>5. Ended(rec, "raised") \in RequestRecords /\ Ended(rec, "raised").pc = "raised"
        /\ Ended(rec, "raised").lastExc = rec.lastExc /\ Ended(rec, "raised").said = {}
    BY EndedShape
  <2>6. req'[r] \in RequestRecords /\ req'[r].pc = "raised" /\ req'[r].at = Last + 1
        /\ req'[r].lastExc = rec.lastExc /\ req'[r].said = {}
    BY <1>1, <2>2, <2>5 DEF RequestRecords
  <2>. QED  BY <2>3, <2>4, <2>6
<1>3. CASE open # {}
  <2>1. Min(open) \in m .. Last
    <3>1. open \in SUBSET Models
        BY <1>1 DEF Models
    <3>2. Min(open) \in open
        BY <1>3, <3>1, MinModel
    <3>. QED  BY <3>2
  <2>. DEFINE new == [rec EXCEPT !.at = Min(open),
                                 !.pc = IF rec.long /\ Min(open) \in Small THEN "fit" ELSE "call"]
  <2>2. req' = [req EXCEPT ![r] = new]
    BY <1>3 DEF Loop
  <2>. HIDE DEF open
  <2>3. req'[r] = new
    BY <2>2
  <2>4. new \in RequestRecords /\ new.at = Min(open) /\ new.pc \in {"fit", "call"}
        /\ new.said = rec.said /\ new.lastExc = rec.lastExc
    <3>. DEFINE pc == IF rec.long /\ Min(open) \in Small THEN "fit" ELSE "call"
    <3>1. pc \in Waiting /\ pc \in {"fit", "call"}
        BY DEF Waiting
    <3>2. Min(open) \in 1 .. Last + 1
        BY <1>1, <2>1
    <3>. HIDE DEF pc
    <3>3. new = Moved(rec, Min(open), pc)
        BY DEF Moved, pc
    <3>. HIDE DEF new
    <3>. QED  BY <3>1, <3>2, <3>3, MovedShape
  <2>5. req' = [req EXCEPT ![r] = req'[r]]
    BY <2>2, <2>3
  <2>. HIDE DEF new
  <2>. QED  BY <2>1, <2>3, <2>4, <2>5
<1>. QED  BY <1>2, <1>3

\* What a step does to the record of its request, the others unchanged: the chain goes
\* on, the request ends, it stays at its model, its model speaks.
Changes(r) == req' = [req EXCEPT ![r] = req'[r]] /\ req'[r] \in RequestRecords

Goes(r) ==
    /\ Changes(r)
    /\ req'[r].lastExc
    /\ \/ req'[r].pc = "raised" /\ req'[r].at = Last + 1 /\ req'[r].said = {}
       \/ /\ req'[r].at \in req[r].at + 1 .. Last
          /\ req'[r].pc \in {"fit", "call"} /\ req'[r].said = req[r].said

Ends(r, pc) ==
    /\ Changes(r)
    /\ req'[r].pc = pc /\ req'[r].at = req[r].at /\ req'[r].said = {}
    /\ pc = "raised" => req'[r].lastExc

Stays(r, pc) ==
    /\ Changes(r)
    /\ req'[r].pc = pc /\ req'[r].at = req[r].at /\ req'[r].said = req[r].said

Speaks(r) ==
    /\ Changes(r)
    /\ req'[r].pc = req[r].pc /\ req'[r].at = req[r].at
    /\ req'[r].said = req[r].said \cup {<<req[r].at, req[r].pc>>}

Starts(r) ==
    /\ Changes(r)
    /\ req'[r].said = {}
    /\ \/ req'[r].pc = "raised" /\ req'[r].at = Last + 1 /\ req'[r].lastExc
       \/ req'[r].pc \in {"fit", "call"} /\ req'[r].at \in Models

\* PassOn goes to a later model or past the chain, with an error noted.
LEMMA PassOnShape ==
    ASSUME NEW r \in Requests, req \in [Requests -> RequestRecords],
           req[r].at \in Models, PassOn(r)
    PROVE  Goes(r)
<1>. DEFINE rec == [req[r] EXCEPT !.lastExc = TRUE]
<1>1. rec \in RequestRecords /\ rec.lastExc = TRUE /\ rec.said = req[r].said
    BY DEF RequestRecords
<1>2. req[r].at + 1 \in 1 .. Last + 1
    BY ChainAssumption DEF Models
<1>3. Loop(r, req[r].at + 1, rec)
    BY DEF PassOn
<1>. HIDE DEF rec
<1>. QED  BY <1>1, <1>2, <1>3, LoopShape DEF Goes, Changes

-----------------------------------------------------------------------------
(* Steps of a request *)

\* A request starts at a model, or is raised with an error when all are blacklisted.
LEMMA StartShape ==
    ASSUME TypeOK, NEW r \in Requests, NEW long \in BOOLEAN, Start(r, long)
    PROVE  Starts(r)
<1>. DEFINE rec == [NewRequest EXCEPT !.long = long]
<1>1. Last \in Nat \ {0}
    BY ChainAssumption
<1>2. rec \in RequestRecords /\ rec.said = {}
  <2>1. {} \in SUBSET (Models \X {"call", "retry"})
    OBVIOUS
  <2>2. 1 \in 1 .. Last + 1
    BY <1>1
  <2>. QED  BY <2>1, <2>2 DEF NewRequest, RequestRecords
<1>3. req \in [Requests -> RequestRecords]
    BY DEF TypeOK
<1>4. CASE AllBenched
  <2>1. req' = [req EXCEPT ![r] = [Ended(rec, "raised") EXCEPT !.at = Last + 1, !.lastExc = TRUE]]
    BY <1>4 DEF Start
  <2>2. req'[r] = [Ended(rec, "raised") EXCEPT !.at = Last + 1, !.lastExc = TRUE]
    BY <1>3, <2>1
  <2>3. Ended(rec, "raised") \in RequestRecords /\ Ended(rec, "raised").pc = "raised"
        /\ Ended(rec, "raised").said = {}
    BY <1>2, EndedShape
  <2>4. req'[r] \in RequestRecords /\ req'[r].pc = "raised" /\ req'[r].at = Last + 1
        /\ req'[r].lastExc /\ req'[r].said = {}
    <3>1. req'[r] = Noted(Ended(rec, "raised"), Last + 1)
        BY <2>2 DEF Noted
    <3>2. Last + 1 \in 1 .. Last + 1
        BY <1>1
    <3>. HIDE DEF rec
    <3>. QED  BY <2>3, <3>1, <3>2, NotedShape
  <2>5. req' = [req EXCEPT ![r] = req'[r]]
    BY <2>1, <2>2
  <2>. HIDE DEF rec
  <2>. QED  BY <1>2, <2>4, <2>5 DEF Starts, Changes
<1>5. CASE ~AllBenched
  <2>1. Loop(r, 1, rec)
    BY <1>5 DEF Start
  <2>2. ~(\A n \in 1 .. Last : Benched(n))
    BY <1>5 DEF AllBenched, Models
  <2>3. 1 \in 1 .. Last + 1
    BY <1>1
  <2>. HIDE DEF rec
  <2>. QED  BY <1>2, <1>3, <2>1, <2>2, <2>3, LoopShape DEF Models, Starts, Changes
<1>. QED  BY <1>4, <1>5

\* A summary that fits lets the call begin; one that does not passes the request on.
LEMMA FitShape ==
    ASSUME TypeOK, NEW r \in Requests, NEW fits \in BOOLEAN, Fit(r, fits)
    PROVE  Stays(r, "call") \/ Goes(r)
<1>1. req \in [Requests -> RequestRecords] /\ req[r].at \in Models
    BY DEF TypeOK, Fit, Waiting
<1>2. CASE fits
  <2>1. req' = [req EXCEPT ![r] = [req[r] EXCEPT !.pc = "call", !.long = FALSE]]
    BY <1>1, <1>2 DEF Fit
  <2>2. req'[r] = [req[r] EXCEPT !.pc = "call", !.long = FALSE]
    BY <1>1, <2>1
  <2>3. req'[r] \in RequestRecords /\ req'[r].pc = "call" /\ req'[r].at = req[r].at
        /\ req'[r].said = req[r].said
    <3>1. PICK old \in RequestRecords : old = req[r]
        BY <1>1
    <3>2. PICK new : new = [old EXCEPT !.pc = "call", !.long = FALSE]
        OBVIOUS
    <3>3. new \in RequestRecords /\ new.pc = "call" /\ new.at = old.at /\ new.said = old.said
        BY <3>2 DEF RequestRecords, Waiting
    <3>4. req'[r] = new
        BY <2>2, <3>1, <3>2
    <3>. QED  BY <3>1, <3>3, <3>4
  <2>. QED  BY <2>1, <2>2, <2>3 DEF Stays, Changes
<1>3. CASE ~fits
    BY <1>1, <1>3, PassOnShape DEF Fit
<1>. QED  BY <1>2, <1>3

\* Output adds to what the caller has heard.
LEMMA ChunkShape ==
    ASSUME TypeOK, NEW r \in Requests, Chunk(r)
    PROVE  Speaks(r)
<1>1. req \in [Requests -> RequestRecords] /\ req[r].at \in Models
    BY DEF TypeOK, Chunk, Waiting
<1>2. req' = [req EXCEPT ![r] = [req[r] EXCEPT !.said = @ \cup {<<req[r].at, req[r].pc>>}]]
    BY <1>1 DEF Chunk
<1>3. req'[r] = [req[r] EXCEPT !.said = @ \cup {<<req[r].at, req[r].pc>>}]
    BY <1>1, <1>2
<1>4. req[r].said \cup {<<req[r].at, req[r].pc>>} \in SUBSET (Models \X {"call", "retry"})
    BY <1>1 DEF RequestRecords, Chunk
<1>5. req'[r] \in RequestRecords /\ req'[r].pc = req[r].pc /\ req'[r].at = req[r].at
      /\ req'[r].said = req[r].said \cup {<<req[r].at, req[r].pc>>}
    BY <1>1, <1>3, <1>4 DEF RequestRecords
<1>. QED  BY <1>2, <1>3, <1>5 DEF Speaks, Changes

\* An answer ends the request at its model.
LEMMA AnswerShape ==
    ASSUME TypeOK, NEW r \in Requests, Answer(r)
    PROVE  Ends(r, "answered")
<1>1. req \in [Requests -> RequestRecords]
    BY DEF TypeOK
<1>2. req' = [req EXCEPT ![r] = Ended(req[r], "answered")] /\ req'[r] = Ended(req[r], "answered")
    BY <1>1 DEF Answer
<1>. QED  BY <1>1, <1>2, EndedShape DEF Ends, Changes

\* So does a cancellation.
LEMMA CancelShape ==
    ASSUME TypeOK, NEW r \in Requests, Cancel(r)
    PROVE  Ends(r, "cancelled")
<1>1. req \in [Requests -> RequestRecords]
    BY DEF TypeOK
<1>2. req' = [req EXCEPT ![r] = Ended(req[r], "cancelled")] /\ req'[r] = Ended(req[r], "cancelled")
    BY <1>1 DEF Cancel
<1>. QED  BY <1>1, <1>2, EndedShape DEF Ends, Changes

\* A failed call ends the request only after output, and waits for a summary only
\* after an overflow.
LEMMA FailShape ==
    ASSUME TypeOK, NEW r \in Requests, NEW error \in Errors, Fail(r, error)
    PROVE  \/ Spoke(r) /\ Ends(r, "raised")
           \/ ~Spoke(r) /\ error = "overflow" /\ Stays(r, "refit")
           \/ ~Spoke(r) /\ Goes(r)
<1>1. req \in [Requests -> RequestRecords] /\ req[r].at \in Models /\ req[r] \in RequestRecords
    BY DEF TypeOK, Fail, Waiting
<1>2. CASE Spoke(r) /\ req' = [req EXCEPT ![r] = [Ended(@, "raised") EXCEPT !.lastExc = TRUE]]
  <2>1. req' = [req EXCEPT ![r] = [Ended(req[r], "raised") EXCEPT !.lastExc = TRUE]]
        /\ req'[r] = [Ended(req[r], "raised") EXCEPT !.lastExc = TRUE]
    BY <1>1, <1>2
  <2>2. Ended(req[r], "raised") \in RequestRecords /\ Ended(req[r], "raised").pc = "raised"
        /\ Ended(req[r], "raised").at = req[r].at /\ Ended(req[r], "raised").said = {}
    BY <1>1, EndedShape
  <2>3. req'[r] \in RequestRecords /\ req'[r].pc = "raised" /\ req'[r].at = req[r].at
        /\ req'[r].said = {} /\ req'[r].lastExc
    <3>1. req'[r] = WithError(Ended(req[r], "raised"))
        BY <2>1 DEF WithError
    <3>. QED  BY <2>2, <3>1, WithErrorShape
  <2>. QED  BY <1>2, <2>1, <2>3 DEF Ends, Changes
<1>3. CASE ~Spoke(r) /\ error = "overflow" /\ req' = [req EXCEPT ![r].pc = "refit", ![r].lastExc = TRUE]
  <2>1. req' = [req EXCEPT ![r] = [req[r] EXCEPT !.pc = "refit", !.lastExc = TRUE]]
        /\ req'[r] = [req[r] EXCEPT !.pc = "refit", !.lastExc = TRUE]
    BY <1>1, <1>3
  <2>2. req'[r] \in RequestRecords /\ req'[r].pc = "refit" /\ req'[r].at = req[r].at
        /\ req'[r].said = req[r].said
    BY <1>1, <2>1 DEF RequestRecords, Waiting
  <2>. QED  BY <1>3, <2>1, <2>2 DEF Stays, Changes
<1>4. CASE ~Spoke(r) /\ PassOn(r)
    BY <1>1, <1>4, PassOnShape
<1>. QED  BY <1>2, <1>3, <1>4 DEF Fail

\* A summary after an overflow lets the call be repeated or passes the request on.
LEMMA RefitShape ==
    ASSUME TypeOK, NEW r \in Requests, NEW fits \in BOOLEAN, Refit(r, fits)
    PROVE  Stays(r, "retry") \/ Goes(r)
<1>1. req \in [Requests -> RequestRecords] /\ req[r].at \in Models /\ req[r] \in RequestRecords
    BY DEF TypeOK, Refit, Waiting
<1>2. CASE fits
  <2>1. req' = [req EXCEPT ![r] = [req[r] EXCEPT !.pc = "retry"]]
        /\ req'[r] = [req[r] EXCEPT !.pc = "retry"]
    BY <1>1, <1>2 DEF Refit
  <2>2. req'[r] \in RequestRecords /\ req'[r].pc = "retry" /\ req'[r].at = req[r].at
        /\ req'[r].said = req[r].said
    BY <1>1, <2>1 DEF RequestRecords, Waiting
  <2>. QED  BY <2>1, <2>2 DEF Stays, Changes
<1>3. CASE ~fits
    BY <1>1, <1>3, PassOnShape DEF Refit
<1>. QED  BY <1>2, <1>3

\* A repeated call that fails passes the request on.
LEMMA FailRetryShape ==
    ASSUME TypeOK, NEW r \in Requests, NEW error \in Errors, FailRetry(r, error)
    PROVE  Goes(r)
<1>1. req \in [Requests -> RequestRecords] /\ req[r].at \in Models
    BY DEF TypeOK, FailRetry, Waiting
<1>. QED  BY <1>1, PassOnShape DEF FailRetry

-----------------------------------------------------------------------------
(* Types *)

\* The ledger keeps its types when a failure or a success is noted.
LEMMA LedgerType ==
    ASSUME TypeOK, NEW r \in Requests, NEW m \in Models,
           (\E error \in Errors : NoteFailure(r, m, error)) \/ NoteSuccess(m)
    PROVE  /\ failures' \in [Models -> 0 .. Threshold - 1]
           /\ benchedUntil' \in [Models -> Nat]
           /\ lapses' \in [Models -> SUBSET Requests]
<1>1. /\ failures \in [Models -> 0 .. Threshold - 1] /\ benchedUntil \in [Models -> Nat]
      /\ lapses \in [Models -> SUBSET Requests] /\ now + Cooldown \in Nat
      /\ Threshold \in Nat \ {0}
    BY ChainAssumption DEF TypeOK
<1>2. CASE NoteSuccess(m)
    BY <1>1, <1>2 DEF NoteSuccess
<1>3. ASSUME NEW error \in Errors, NoteFailure(r, m, error)
      PROVE  /\ failures' \in [Models -> 0 .. Threshold - 1]
             /\ benchedUntil' \in [Models -> Nat]
             /\ lapses' \in [Models -> SUBSET Requests]
  <2>1. lapses' \in [Models -> SUBSET Requests]
    BY <1>1, <1>3 DEF NoteFailure
  <2>2. failures' \in [Models -> 0 .. Threshold - 1]
    BY <1>1, <1>3 DEF NoteFailure, AtThreshold
  <2>3. benchedUntil' \in [Models -> Nat]
    BY <1>1, <1>3 DEF NoteFailure
  <2>. QED  BY <2>1, <2>2, <2>3
<1>. QED  BY <1>2, <1>3

\* The record of a request keeps its type, and a waiting one stays at a model.
LEMMA ReqType ==
    ASSUME TypeOK, NEW r \in Requests,
           Goes(r) \/ Starts(r) \/ Speaks(r) \/ (req[r].pc \in Waiting /\ \E pc : Ends(r, pc) \/ Stays(r, pc))
    PROVE  /\ req' \in [Requests -> RequestRecords]
           /\ \A q \in Requests : req'[q].pc \in Waiting => req'[q].at \in Models
<1>1. req \in [Requests -> RequestRecords] /\ Last \in Nat \ {0}
      /\ \A q \in Requests : req[q].pc \in Waiting => req[q].at \in Models
    BY ChainAssumption DEF TypeOK
<1>2. Changes(r)
    BY DEF Goes, Starts, Speaks, Ends, Stays
<1>3. req' \in [Requests -> RequestRecords]
      /\ \A q \in Requests \ {r} : req'[q] = req[q]
    BY <1>1, <1>2 DEF Changes
<1>4. req'[r].pc \in Waiting => req'[r].at \in Models
  <2>1. req[r].at \in 1 .. Last + 1
    BY <1>1 DEF RequestRecords
  <2>2. CASE Goes(r)
    BY <1>1, <2>1, <2>2 DEF Goes, Models, Waiting
  <2>3. CASE Starts(r)
    BY <2>3 DEF Starts, Waiting
  <2>4. CASE Speaks(r)
    BY <1>1, <2>4 DEF Speaks
  <2>5. CASE req[r].pc \in Waiting /\ \E pc : Ends(r, pc) \/ Stays(r, pc)
    BY <1>1, <2>5 DEF Ends, Stays
  <2>. QED  BY <2>2, <2>3, <2>4, <2>5
<1>. QED  BY <1>1, <1>3, <1>4

\* The types hold in the initial state.
LEMMA TypeInit == Init => TypeOK
<1>1. ASSUME Init PROVE TypeOK
  <2>1. 1 \in 1 .. Last + 1 /\ 0 \in 0 .. Threshold - 1 /\ {} \in SUBSET Requests
        /\ {} \in SUBSET (Models \X {"call", "retry"})
    BY ChainAssumption
  <2>2. NewRequest \in RequestRecords /\ NewRequest.pc \notin Waiting
    BY <2>1 DEF NewRequest, RequestRecords, Waiting
  <2>. QED  BY <1>1, <2>1, <2>2 DEF Init, TypeOK
<1>. QED  BY <1>1

\* A step of the clock or of a request keeps the types.
LEMMA TypeStep == TypeOK /\ [Next]_vars => TypeOK'
<1>. SUFFICES ASSUME TypeOK, [Next]_vars PROVE TypeOK'
    OBVIOUS
<1>1. CASE UNCHANGED vars
    BY <1>1 DEF vars, TypeOK
<1>2. CASE Advance
    BY <1>2 DEF Advance, ledger, TypeOK
<1>3. ASSUME NEW r \in Requests, Step(r) PROVE TypeOK'
  <2>. DEFINE ReqOK == /\ req' \in [Requests -> RequestRecords]
                       /\ \A q \in Requests : req'[q].pc \in Waiting => req'[q].at \in Models
              Kept == UNCHANGED ledger
              Noted1 == \E m \in Models : (\E error \in Errors : NoteFailure(r, m, error)) \/ NoteSuccess(m)
  <2>1. ReqOK /\ now' = now /\ (Kept \/ Noted1)
    <3>1. ASSUME NEW long \in BOOLEAN, Start(r, long) PROVE ReqOK /\ now' = now /\ Kept
        BY <3>1, StartShape, ReqType DEF Start
    <3>2. ASSUME NEW fits \in BOOLEAN, Fit(r, fits) PROVE ReqOK /\ now' = now /\ Kept
      <4>1. req[r].pc \in Waiting /\ now' = now /\ Kept
        BY <3>2 DEF Fit, Waiting
      <4>. QED  BY <3>2, <4>1, FitShape, ReqType
    <3>3. CASE Chunk(r)
        BY <3>3, ChunkShape, ReqType DEF Chunk
    <3>4. CASE Answer(r)
      <4>1. req[r].pc \in Waiting /\ now' = now /\ NoteSuccess(req[r].at) /\ req[r].at \in Models
        BY <3>4 DEF Answer, Waiting, TypeOK
      <4>2. ReqOK
        BY <3>4, <4>1, AnswerShape, ReqType
      <4>. QED  BY <4>1, <4>2
    <3>5. ASSUME NEW error \in Errors, Fail(r, error) PROVE ReqOK /\ now' = now /\ Noted1
      <4>1. req[r].pc \in Waiting /\ now' = now /\ NoteFailure(r, req[r].at, error) /\ req[r].at \in Models
        BY <3>5 DEF Fail, Waiting, TypeOK
      <4>2. ReqOK
        BY <3>5, <4>1, FailShape, ReqType
      <4>. QED  BY <4>1, <4>2
    <3>6. ASSUME NEW fits \in BOOLEAN, Refit(r, fits) PROVE ReqOK /\ now' = now /\ Kept
      <4>1. req[r].pc \in Waiting /\ now' = now /\ Kept
        BY <3>6 DEF Refit, Waiting
      <4>. QED  BY <3>6, <4>1, RefitShape, ReqType
    <3>7. ASSUME NEW error \in Errors, FailRetry(r, error) PROVE ReqOK /\ now' = now /\ Noted1
      <4>1. req[r].pc \in Waiting /\ now' = now /\ NoteFailure(r, req[r].at, error) /\ req[r].at \in Models
        BY <3>7 DEF FailRetry, Waiting, TypeOK
      <4>2. ReqOK
        BY <3>7, <4>1, FailRetryShape, ReqType
      <4>. QED  BY <4>1, <4>2
    <3>8. CASE Cancel(r)
      <4>1. req[r].pc \in Waiting /\ now' = now /\ Kept
        BY <3>8 DEF Cancel
      <4>. QED  BY <3>8, <4>1, CancelShape, ReqType
    <3>. HIDE DEF ReqOK, Kept, Noted1
    <3>. QED  BY <1>3, <3>1, <3>2, <3>3, <3>4, <3>5, <3>6, <3>7, <3>8 DEF Step, Reply
  <2>2. /\ failures' \in [Models -> 0 .. Threshold - 1]
        /\ benchedUntil' \in [Models -> Nat]
        /\ lapses' \in [Models -> SUBSET Requests]
    BY <2>1, LedgerType DEF ledger, TypeOK
  <2>. QED  BY <2>1, <2>2 DEF TypeOK
<1>. QED  BY <1>1, <1>2, <1>3 DEF Next

\* Every variable has its type (failure counts stay below the threshold, a waiting
\* request is at a model), for every chain and set of requests.
THEOREM TypeCorrect == Spec => []TypeOK
<1>. QED  BY TypeInit, TypeStep, PTL DEF Spec

-----------------------------------------------------------------------------
(* What a step of a request is *)

\* A step starts a request, passes it on, keeps it at its model, hands output on, or
\* ends it; it is neither passed on nor kept waiting once its first call has spoken.
LEMMA StepShape ==
    ASSUME TypeOK, NEW r \in Requests, Step(r)
    PROVE  /\ now' = now
           /\ \/ req[r].pc = "new" /\ Starts(r)
              \/ req[r].pc \in Waiting /\ ~(req[r].pc = "call" /\ Spoke(r)) /\ Goes(r)
              \/ /\ req[r].pc \in Waiting /\ ~(req[r].pc = "call" /\ Spoke(r))
                 /\ \E pc \in Waiting : Stays(r, pc)
              \/ req[r].pc \in {"call", "retry"} /\ Speaks(r)
              \/ req[r].pc \in Waiting /\ (Ends(r, "answered") \/ Ends(r, "cancelled"))
              \/ req[r].pc \in Waiting /\ Spoke(r) /\ Ends(r, "raised")
<1>1. CASE \E long \in BOOLEAN : Start(r, long)
    BY <1>1, StartShape DEF Start
<1>2. CASE Chunk(r)
    BY <1>2, ChunkShape DEF Chunk
<1>3. CASE \E fits \in BOOLEAN : Fit(r, fits)
    BY <1>3, FitShape DEF Fit, Waiting
<1>4. CASE Answer(r)
    BY <1>4, AnswerShape DEF Answer, Waiting
<1>5. CASE \E error \in Errors : Fail(r, error)
    BY <1>5, FailShape DEF Fail, Waiting
<1>6. CASE \E fits \in BOOLEAN : Refit(r, fits)
    BY <1>6, RefitShape DEF Refit, Waiting
<1>7. CASE \E error \in Errors : FailRetry(r, error)
    BY <1>7, FailRetryShape DEF FailRetry, Waiting
<1>8. CASE Cancel(r)
    BY <1>8, CancelShape DEF Cancel
<1>. QED  BY <1>1, <1>2, <1>3, <1>4, <1>5, <1>6, <1>7, <1>8 DEF Step, Reply

\* A step leaves the ledger alone, or notes what became of the call of the model the
\* request is at; after an outage it does not stay there.
LEMMA StepLedger ==
    ASSUME TypeOK, NEW r \in Requests, Step(r)
    PROVE  \/ UNCHANGED ledger
           \/ /\ req[r].pc \in Waiting
              /\ \/ NoteSuccess(req[r].at)
                 \/ \E error \in Errors :
                        /\ NoteFailure(r, req[r].at, error)
                        /\ error = "outage" => Goes(r) \/ Ends(r, "raised")
<1>1. CASE Answer(r)
    BY <1>1 DEF Answer, Waiting
<1>2. ASSUME NEW error \in Errors, Fail(r, error)
      PROVE  /\ req[r].pc \in Waiting /\ NoteFailure(r, req[r].at, error)
             /\ error = "outage" => Goes(r) \/ Ends(r, "raised")
    BY <1>2, FailShape DEF Fail, Waiting
<1>3. ASSUME NEW error \in Errors, FailRetry(r, error)
      PROVE  req[r].pc \in Waiting /\ NoteFailure(r, req[r].at, error) /\ Goes(r)
    BY <1>3, FailRetryShape DEF FailRetry, Waiting
<1>4. ASSUME \/ \E long \in BOOLEAN : Start(r, long)
             \/ Chunk(r) \/ Cancel(r)
             \/ \E fits \in BOOLEAN : Fit(r, fits) \/ Refit(r, fits)
      PROVE  UNCHANGED ledger
    BY <1>4 DEF Start, Chunk, Cancel, Fit, Refit
<1>. QED  BY <1>1, <1>2, <1>3, <1>4 DEF Step, Reply

-----------------------------------------------------------------------------
(* The cause of a raise *)

\* A raise without an error would come from a loop that found every model blacklisted,
\* which _raise_if_all_blacklisted has excluded with no await in between.
LEMMA RaiseStep == TypeOK /\ RaiseHasCause /\ [Next]_vars => RaiseHasCause'
<1>. SUFFICES ASSUME TypeOK, RaiseHasCause, [Next]_vars PROVE RaiseHasCause'
    OBVIOUS
<1>1. CASE UNCHANGED req
    BY <1>1 DEF RaiseHasCause
<1>2. ASSUME NEW r \in Requests, Step(r) PROVE RaiseHasCause'
  <2>1. Changes(r) /\ (req'[r].pc = "raised" => req'[r].lastExc)
    BY <1>2, StepShape DEF Goes, Starts, Speaks, Ends, Stays, Waiting
  <2>2. \A q \in Requests \ {r} : req'[q] = req[q]
    BY <2>1 DEF Changes, TypeOK
  <2>. QED  BY <2>1, <2>2 DEF RaiseHasCause
<1>. QED  BY <1>1, <1>2 DEF Next, Advance, vars

\* A request that fails has met an error: "assert last_exc is not None" cannot fail,
\* whatever concurrent requests do to the ledger meanwhile.
THEOREM RaiseCaused == Spec => []RaiseHasCause
<1>1. Init => RaiseHasCause
    BY DEF Init, NewRequest, RaiseHasCause
<1>. QED  BY <1>1, TypeInit, TypeStep, RaiseStep, PTL DEF Spec

-----------------------------------------------------------------------------
(* The voice of an answer *)

\* What a first call has said is of the model the request is at, during that call.
VInv == \A r \in Requests : \A v \in req[r].said :
            v[2] = "call" => req[r].pc = "call" /\ v = <<req[r].at, "call">>

\* A request that leaves its first call has heard nothing from it.
LEMMA VStep == TypeOK /\ VInv /\ [Next]_vars => VInv'
<1>. SUFFICES ASSUME TypeOK, VInv, [Next]_vars PROVE VInv'
    OBVIOUS
<1>1. CASE UNCHANGED req
    BY <1>1 DEF VInv
<1>2. ASSUME NEW r \in Requests, Step(r) PROVE VInv'
  <2>1. Changes(r)
    BY <1>2, StepShape DEF Goes, Starts, Speaks, Ends, Stays
  <2>2. \A q \in Requests \ {r} : req'[q] = req[q]
    BY <2>1 DEF Changes, TypeOK
  <2>. DEFINE Heard(rec) == \A v \in rec.said : v[2] = "call" => rec.pc = "call" /\ v = <<rec.at, "call">>
  <2>3. Heard(req[r])
    BY DEF VInv
  <2>4. Heard(req'[r])
    <3>1. CASE req'[r].said = {}
        BY <3>1
    <3>2. CASE req'[r].said = req[r].said /\ ~(req[r].pc = "call" /\ Spoke(r))
      <4>1. \A v \in req[r].said : v[2] # "call"
        BY <2>3, <3>2 DEF Spoke
      <4>. QED  BY <3>2, <4>1
    <3>3. CASE req[r].pc \in {"call", "retry"} /\ Speaks(r)
      <4>1. ASSUME NEW v \in req'[r].said, v[2] = "call"
            PROVE  req'[r].pc = "call" /\ v = <<req'[r].at, "call">>
        <5>1. CASE v \in req[r].said
            BY <2>3, <3>3, <4>1, <5>1 DEF Speaks
        <5>2. CASE v = <<req[r].at, req[r].pc>>
            BY <3>3, <4>1, <5>2 DEF Speaks
        <5>. QED  BY <3>3, <4>1, <5>1, <5>2 DEF Speaks
      <4>. QED  BY <4>1
    <3>4. \/ req'[r].said = {}
          \/ req'[r].said = req[r].said /\ ~(req[r].pc = "call" /\ Spoke(r))
          \/ req[r].pc \in {"call", "retry"} /\ Speaks(r)
        BY <1>2, StepShape DEF Goes, Starts, Ends, Stays
    <3>. QED  BY <3>1, <3>2, <3>3, <3>4
  <2>. QED  BY <2>2, <2>4 DEF VInv
<1>. QED  BY <1>1, <1>2 DEF Next, Advance, vars

\* VInv bounds the voices: the first components of what was said in retries, and one more.
LEMMA VImplies == TypeOK /\ VInv => OneVoice
<1>. SUFFICES ASSUME TypeOK, VInv, NEW r \in Requests
              PROVE  Cardinality({v[1] : v \in req[r].said}) <=
                         1 + Cardinality({v \in req[r].said : v[2] = "retry"})
    BY DEF OneVoice
<1>. DEFINE R == {v \in req[r].said : v[2] = "retry"}
            F == {v[1] : v \in R}
            H == {v[1] : v \in req[r].said}
<1>1. req[r].said \in SUBSET (Models \X {"call", "retry"})
    BY DEF TypeOK, RequestRecords
<1>2. IsFiniteSet(R)
  <2>1. IsFiniteSet(Models) /\ IsFiniteSet({"call", "retry"})
    <3>1. IsFiniteSet(Models)
        BY ChainAssumption, FS_Interval DEF Models
    <3>2. IsFiniteSet({"call"} \cup {"retry"})
        BY FS_Singleton, FS_Union
    <3>. QED  BY <3>1, <3>2
  <2>2. IsFiniteSet(Models \X {"call", "retry"})
    BY <2>1, FS_Product
  <2>3. R \in SUBSET (Models \X {"call", "retry"})
    BY <1>1
  <2>. QED  BY <2>2, <2>3, FS_Subset
<1>3. IsFiniteSet(F) /\ Cardinality(F) <= Cardinality(R)
  <2>. DEFINE f == [v \in R |-> v[1]]
  <2>1. f \in [R -> F] /\ \A x \in F : \E v \in R : f[v] = x
    OBVIOUS
  <2>. HIDE DEF R, F, f
  <2>2. f \in Surjection(R, F)
    BY <2>1 DEF Surjection
  <2>. QED  BY <1>2, <2>2, FS_Surjection
<1>4. H \subseteq F \cup {req[r].at}
  <2>1. ASSUME NEW v \in req[r].said PROVE v[1] \in F \cup {req[r].at}
    <3>1. CASE v[2] = "retry"
        BY <3>1
    <3>2. CASE v[2] = "call"
        BY <3>2 DEF VInv
    <3>. QED  BY <1>1, <3>1, <3>2
  <2>. QED  BY <2>1
<1>. HIDE DEF F, H, R
<1>5. IsFiniteSet(F \cup {req[r].at}) /\ Cardinality(F \cup {req[r].at}) <= Cardinality(F) + 1
  <2>1. IsFiniteSet(F \cup {req[r].at})
        /\ Cardinality(F \cup {req[r].at}) =
               IF req[r].at \in F THEN Cardinality(F) ELSE Cardinality(F) + 1
    BY <1>3, FS_AddElement, Zenon
  <2>2. Cardinality(F) \in Nat
    BY <1>3, FS_CardinalityType
  <2>. QED  BY <2>1, <2>2
<1>6. Cardinality(H) <= Cardinality(F \cup {req[r].at}) /\ IsFiniteSet(H)
    BY <1>4, <1>5, FS_Subset
<1>7. Cardinality(H) <= 1 + Cardinality(R)
    BY <1>2, <1>3, <1>5, <1>6, FS_CardinalityType
<1>. QED  BY <1>7 DEF H, R

\* A caller hears one model, or one more for every retry that spoke and broke off.
THEOREM Voices == Spec => []OneVoice
<1>1. Init => VInv
    BY DEF Init, NewRequest, VInv
<1>. QED  BY <1>1, TypeInit, TypeStep, VStep, VImplies, PTL DEF Spec

-----------------------------------------------------------------------------
(* The cause of a ban *)

\* Request r has been through with model m: it fails there at most once.
Past(r, m) ==
    \/ req[r].pc \in {"answered", "raised", "cancelled"}
    \/ req[r].pc \in Waiting /\ req[r].at > m

\* The counts and the bans are backed by requests that failed at the model since its
\* last success, and that are through with it.
BInv == \A m \in Models :
            /\ IsFiniteSet(lapses[m])
            /\ failures[m] <= Cardinality(lapses[m])
            /\ benchedUntil[m] > 0 => Cardinality(lapses[m]) >= Threshold
            /\ \A r \in lapses[m] : Past(r, m)

\* No step takes a request back to a model it is through with.
LEMMA PastKept ==
    ASSUME TypeOK, NEW r \in Requests, Step(r), NEW q \in Requests, NEW m \in Models, Past(q, m)
    PROVE  Past(q, m)'
<1>1. Changes(r) /\ m \in Nat /\ Last \in Nat /\ m <= Last
    BY ChainAssumption, StepShape DEF Goes, Starts, Speaks, Ends, Stays, Models
<1>2. CASE q # r
    BY <1>1, <1>2 DEF Changes, Past, TypeOK
<1>3. CASE q = r
  <2>1. req[r].pc # "new" /\ req[r].at \in 1 .. Last + 1
    BY <1>3 DEF Past, Waiting, TypeOK, RequestRecords
  <2>2. CASE req[r].pc \in Waiting /\ Goes(r)
    BY <1>1, <1>3, <2>1, <2>2 DEF Past, Goes, Waiting
  <2>3. CASE req[r].pc \in Waiting /\ \E pc \in Waiting : Stays(r, pc)
    BY <1>1, <1>3, <2>1, <2>3 DEF Past, Stays, Waiting
  <2>4. CASE req[r].pc \in {"call", "retry"} /\ Speaks(r)
    BY <1>1, <1>3, <2>1, <2>4 DEF Past, Speaks, Waiting
  <2>5. CASE Ends(r, "answered") \/ Ends(r, "cancelled") \/ Ends(r, "raised")
    BY <1>3, <2>5 DEF Past, Ends
  <2>. QED  BY <2>1, <2>2, <2>3, <2>4, <2>5, StepShape
<1>. QED  BY <1>2, <1>3

\* Noting a failure counts one more request, or a ban that as many requests back.
LEMMA NoteKept ==
    ASSUME TypeOK, BInv, NEW r \in Requests, NEW error \in Errors, NEW n \in Models,
           NoteFailure(r, n, error), ~Past(r, n), NEW m \in Models
    PROVE  /\ IsFiniteSet(lapses'[m])
           /\ failures'[m] <= Cardinality(lapses'[m])
           /\ benchedUntil'[m] > 0 => Cardinality(lapses'[m]) >= Threshold
           /\ lapses'[m] \subseteq lapses[m] \cup (IF m = n /\ error = "outage" THEN {r} ELSE {})
<1>1. /\ failures \in [Models -> 0 .. Threshold - 1] /\ benchedUntil \in [Models -> Nat]
      /\ lapses \in [Models -> SUBSET Requests] /\ Threshold \in Nat \ {0}
    BY ChainAssumption DEF TypeOK
<1>2. /\ IsFiniteSet(lapses[m]) /\ failures[m] <= Cardinality(lapses[m])
      /\ benchedUntil[m] > 0 => Cardinality(lapses[m]) >= Threshold
      /\ Cardinality(lapses[m]) \in Nat
    BY FS_CardinalityType DEF BInv
<1>3. CASE error # "outage"
    BY <1>1, <1>2, <1>3 DEF NoteFailure, Counts
<1>4. CASE error = "outage" /\ m # n
    BY <1>1, <1>2, <1>4 DEF NoteFailure, Counts
<1>5. CASE error = "outage" /\ m = n
  <2>1. r \notin lapses[m] /\ lapses'[m] = lapses[m] \cup {r}
    BY <1>1, <1>5 DEF NoteFailure, BInv
  <2>2. IsFiniteSet(lapses'[m]) /\ Cardinality(lapses'[m]) = Cardinality(lapses[m]) + 1
    <3>1. IsFiniteSet(lapses[m])
        BY <1>2
    <3>2. IsFiniteSet(lapses[m] \cup {r})
          /\ Cardinality(lapses[m] \cup {r}) =
                 IF r \in lapses[m] THEN Cardinality(lapses[m]) ELSE Cardinality(lapses[m]) + 1
        BY <3>1, FS_AddElement, Zenon
    <3>. QED  BY <2>1, <3>2
  <2>3. /\ failures'[m] = IF AtThreshold(m) THEN 0 ELSE failures[m] + 1
        /\ ~AtThreshold(m) => benchedUntil'[m] = benchedUntil[m]
    BY <1>1, <1>5 DEF NoteFailure, Counts
  <2>4. failures[m] \in Nat /\ (AtThreshold(m) => failures[m] + 1 >= Threshold)
    BY <1>1 DEF AtThreshold
  <2>. QED  BY <1>1, <1>2, <1>5, <2>1, <2>2, <2>3, <2>4
<1>. QED  BY <1>3, <1>4, <1>5

\* Every step keeps the bans backed.
LEMMA BStep == TypeOK /\ BInv /\ [Next]_vars => BInv'
<1>. SUFFICES ASSUME TypeOK, BInv, [Next]_vars PROVE BInv'
    OBVIOUS
<1>1. CASE UNCHANGED <<ledger, req>>
    BY <1>1 DEF BInv, ledger, Past
<1>2. ASSUME NEW r \in Requests, Step(r), NEW m \in Models
      PROVE  /\ IsFiniteSet(lapses'[m])
             /\ failures'[m] <= Cardinality(lapses'[m])
             /\ benchedUntil'[m] > 0 => Cardinality(lapses'[m]) >= Threshold
             /\ \A q \in lapses'[m] : Past(q, m)'
  <2>1. \A q \in lapses[m] : Past(q, m)'
    BY <1>2, PastKept DEF BInv, TypeOK
  <2>2. CASE UNCHANGED ledger
    BY <2>1, <2>2 DEF ledger, BInv
  <2>3. CASE req[r].pc \in Waiting /\ NoteSuccess(req[r].at)
    <3>1. req[r].at \in Models /\ failures \in [Models -> 0 .. Threshold - 1]
          /\ benchedUntil \in [Models -> Nat] /\ lapses \in [Models -> SUBSET Requests]
        BY <2>3 DEF TypeOK
    <3>2. CASE m = req[r].at
      <4>1. failures'[m] = 0 /\ benchedUntil'[m] = 0 /\ lapses'[m] = {}
        BY <2>3, <3>1, <3>2 DEF NoteSuccess
      <4>. QED  BY <4>1, FS_EmptySet
    <3>3. CASE m # req[r].at
      <4>1. failures'[m] = failures[m] /\ benchedUntil'[m] = benchedUntil[m] /\ lapses'[m] = lapses[m]
        BY <2>3, <3>1, <3>3 DEF NoteSuccess
      <4>. QED  BY <2>1, <4>1 DEF BInv
    <3>. QED  BY <3>2, <3>3
  <2>4. ASSUME NEW error \in Errors, req[r].pc \in Waiting, NoteFailure(r, req[r].at, error),
               error = "outage" => Goes(r) \/ Ends(r, "raised")
        PROVE  /\ IsFiniteSet(lapses'[m])
               /\ failures'[m] <= Cardinality(lapses'[m])
               /\ benchedUntil'[m] > 0 => Cardinality(lapses'[m]) >= Threshold
               /\ \A q \in lapses'[m] : Past(q, m)'
    <3>1. PICK n \in Models : n = req[r].at /\ n \in Nat
        BY <2>4, ChainAssumption DEF TypeOK, Models
    <3>2. ~Past(r, n)
        BY <2>4, <3>1 DEF Past, Waiting
    <3>3. error = "outage" => Past(r, n)'
      <4>1. Goes(r) => req'[r].pc = "raised" \/ (req'[r].at > n /\ req'[r].pc \in Waiting)
        BY <3>1, ChainAssumption DEF Goes, Waiting
      <4>2. Ends(r, "raised") => req'[r].pc = "raised"
        BY DEF Ends
      <4>. QED  BY <2>4, <4>1, <4>2 DEF Past
    <3>4. /\ IsFiniteSet(lapses'[m])
          /\ failures'[m] <= Cardinality(lapses'[m])
          /\ benchedUntil'[m] > 0 => Cardinality(lapses'[m]) >= Threshold
          /\ lapses'[m] \subseteq lapses[m] \cup (IF m = n /\ error = "outage" THEN {r} ELSE {})
        BY <2>4, <3>1, <3>2, NoteKept
    <3>5. \A q \in lapses'[m] : Past(q, m)'
        BY <2>1, <3>3, <3>4
    <3>. QED  BY <3>4, <3>5
  <2>. QED  BY <1>2, <2>2, <2>3, <2>4, StepLedger
<1>3. (\E r \in Requests : Step(r)) => BInv'
    BY <1>2 DEF BInv
<1>. QED  BY <1>1, <1>3 DEF Next, Advance, vars, ledger

\* A ban is never an accident of concurrent requests: while a model is blacklisted, as
\* many different requests as the threshold failed there with an outage, one time each.
THEOREM Banned == Spec => []BannedForCause
<1>1. ASSUME Init PROVE BInv
  <2>1. \A m \in Models : failures[m] = 0 /\ benchedUntil[m] = 0 /\ lapses[m] = {}
    BY <1>1 DEF Init
  <2>2. IsFiniteSet({}) /\ Cardinality({}) = 0
    BY FS_EmptySet
  <2>. QED  BY <2>1, <2>2 DEF BInv
<1>2. TypeOK /\ BInv => BannedForCause
  <2>1. ASSUME TypeOK, BInv, NEW m \in Models, Benched(m) PROVE Cardinality(lapses[m]) >= Threshold
    <3>1. benchedUntil[m] > 0
        BY <2>1 DEF TypeOK, Benched
    <3>. QED  BY <2>1, <3>1 DEF BInv
  <2>. QED  BY <2>1 DEF BannedForCause
<1>. QED  BY <1>1, <1>2, TypeInit, TypeStep, BStep, PTL DEF Spec

-----------------------------------------------------------------------------
(* The promise of a chain *)

status == [r \in Requests |-> StatusOf(r)]
at == [r \in Requests |-> req[r].at]
speaking == {r \in Requests : Spoke(r)}

\* The abstract state moves with the request that steps.
LEMMA AbstractFrame ==
    ASSUME TypeOK, NEW r \in Requests, Step(r)
    PROVE  /\ status' = [status EXCEPT ![r] = (StatusOf(r))']
           /\ at' = [at EXCEPT ![r] = req'[r].at]
           /\ speaking' = IF (Spoke(r))' THEN speaking \cup {r} ELSE speaking \ {r}
<1>1. Changes(r)
    BY StepShape DEF Goes, Starts, Speaks, Ends, Stays
<1>2. \A q \in Requests \ {r} : req'[q] = req[q]
    BY <1>1 DEF Changes, TypeOK
<1>3. \A q \in Requests \ {r} : (Spoke(q))' = Spoke(q) /\ (StatusOf(q))' = StatusOf(q)
    BY <1>2 DEF Spoke, StatusOf
<1>. QED  BY <1>2, <1>3 DEF status, at, speaking

\* Every step of the wrapper is a step of the promise or a stutter.
LEMMA PromiseStep ==
    TypeOK /\ VInv /\ VInv' /\ [Next]_vars => [Promise!Next]_(Promise!vars)
<1>. SUFFICES ASSUME TypeOK, VInv, VInv', [Next]_vars
              PROVE  Promise!Next \/ UNCHANGED <<status, at, speaking>>
    BY DEF Promise!vars, status, at, speaking
<1>1. CASE UNCHANGED req
    BY <1>1 DEF status, at, speaking, Spoke, StatusOf
<1>2. ASSUME NEW r \in Requests, Step(r)
      PROVE  Promise!Next \/ UNCHANGED <<status, at, speaking>>
  <2>1. /\ status' = [status EXCEPT ![r] = (StatusOf(r))']
        /\ at' = [at EXCEPT ![r] = req'[r].at]
        /\ speaking' = IF (Spoke(r))' THEN speaking \cup {r} ELSE speaking \ {r}
    BY <1>2, AbstractFrame
  <2>2. /\ status[r] = StatusOf(r) /\ at[r] = req[r].at /\ (r \in speaking <=> Spoke(r))
        /\ Last \in Nat \ {0} /\ req[r].at \in 1 .. Last + 1
    BY ChainAssumption DEF status, at, speaking, TypeOK, RequestRecords
  <2>3. CASE req[r].pc = "new" /\ Starts(r)
    <3>1. StatusOf(r) = "new"
        BY <2>3 DEF StatusOf, Waiting
    <3>2. ~(Spoke(r))'
        BY <2>3 DEF Starts, Spoke
    <3>3. req'[r].at \in 1 .. Last + 1
          /\ (StatusOf(r))' = IF req'[r].at = Last + 1 THEN "failed" ELSE "pending"
        BY <2>2, <2>3 DEF Starts, StatusOf, Waiting, Models
    <3>4. Promise!Issue(r)
        BY <2>1, <2>2, <3>1, <3>2, <3>3 DEF Promise!Issue, Promise!GoTo, status, at, speaking
    <3>. QED  BY <3>4 DEF Promise!Next
  <2>4. CASE req[r].pc \in Waiting /\ Goes(r)
    <3>1. StatusOf(r) = "pending"
        BY <2>4 DEF StatusOf, Waiting
    <3>2. req'[r].at \in req[r].at + 1 .. Last + 1
          /\ (StatusOf(r))' = IF req'[r].at = Last + 1 THEN "failed" ELSE "pending"
        BY <1>2, <2>2, <2>4 DEF Goes, StatusOf, Waiting, Models, TypeOK
    <3>3. ~(Spoke(r))'
      <4>1. CASE req'[r].said = {}
        BY <4>1 DEF Spoke
      <4>2. CASE req'[r].said = req[r].said
        <5>1. ASSUME (Spoke(r))' PROVE req'[r].at = req[r].at
            BY <4>2, <5>1 DEF Spoke, VInv
        <5>. QED  BY <2>2, <3>2, <5>1
      <4>. QED  BY <2>4, <4>1, <4>2 DEF Goes
    <3>4. Promise!PassOn(r)
        BY <2>1, <2>2, <3>1, <3>2, <3>3 DEF Promise!PassOn, Promise!GoTo, status, at, speaking
    <3>. QED  BY <3>4 DEF Promise!Next, Promise!Progress
  <2>5. CASE req[r].pc \in Waiting /\ \E pc \in Waiting : Stays(r, pc)
    <3>1. (StatusOf(r))' = StatusOf(r) /\ req'[r].at = req[r].at /\ (Spoke(r))' = Spoke(r)
        BY <2>5 DEF StatusOf, Stays, Spoke, Waiting
    <3>. QED  BY <2>1, <2>2, <3>1 DEF status, at, speaking
  <2>6. CASE req[r].pc \in {"call", "retry"} /\ Speaks(r)
    <3>1. StatusOf(r) = "pending" /\ (StatusOf(r))' = StatusOf(r) /\ req'[r].at = req[r].at
        BY <2>6 DEF StatusOf, Speaks, Waiting
    <3>2. Spoke(r) => (Spoke(r))'
        BY <2>6 DEF Speaks, Spoke
    <3>3. CASE (Spoke(r))'
      <4>1. Promise!Speak(r)
        BY <2>1, <2>2, <3>1, <3>3 DEF Promise!Speak, status, at, speaking
      <4>. QED  BY <4>1 DEF Promise!Next
    <3>4. CASE ~(Spoke(r))'
        BY <2>1, <2>2, <3>1, <3>2, <3>4 DEF status, at, speaking
    <3>. QED  BY <3>3, <3>4
  <2>7. ASSUME NEW how \in {"answered", "cancelled", "raised"}, req[r].pc \in Waiting, Ends(r, how),
               how = "raised" => Spoke(r)
        PROVE  Promise!Next
    <3>1. StatusOf(r) = "pending" /\ ~(Spoke(r))' /\ req'[r].at = req[r].at
          /\ (StatusOf(r))' = IF how = "raised" THEN "failed" ELSE how
        BY <2>7 DEF StatusOf, Ends, Spoke, Waiting
    <3>2. /\ status[r] = "pending" /\ speaking' = speaking \ {r} /\ at' = at
          /\ status' = [status EXCEPT ![r] = IF how = "raised" THEN "failed" ELSE how]
        BY <2>1, <2>2, <3>1 DEF at
    <3>3. Promise!Answer(r) \/ Promise!Cancel(r) \/ Promise!BreakOff(r)
        BY <2>2, <2>7, <3>2
        DEF Promise!Answer, Promise!Cancel, Promise!BreakOff, Promise!End, status, at, speaking
    <3>. QED  BY <3>3 DEF Promise!Next, Promise!Progress
  <2>. QED  BY <1>2, <2>3, <2>4, <2>5, <2>6, <2>7, StepShape
<1>. QED  BY <1>1, <1>2 DEF Next, Advance, vars

\* The wrapper keeps the promise of a chain of models, for every chain: requests move
\* down it only, fail only past its end or after a break in the output.
THEOREM KeepsPromise == Spec => ChainSafety
<1>1. Init => VInv
    BY DEF Init, NewRequest, VInv
<1>2. Init => Promise!Init
    BY DEF Init, NewRequest, Promise!Init, StatusOf, Spoke, Waiting
<1>. QED  BY <1>1, <1>2, TypeInit, TypeStep, VStep, PromiseStep, PTL DEF Spec, ChainSafety, Promise!SafeSpec
=============================================================================

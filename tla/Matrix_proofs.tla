---------------------------- MODULE Matrix_proofs ----------------------------
(***************************************************************************)
(* Theorems about MatrixChat for all messages, tool calls, stops and       *)
(* reloads: what //stop reaches and silences, and where files go.  And     *)
(* about Signaling for all calls, sessions and failures: a call that goes  *)
(* on can be ended by the other side, and one that was hung up leaves      *)
(* nothing behind.                                                         *)
(***************************************************************************)
EXTENDS MatrixChat, Signaling, SequenceTheorems, FiniteSetTheorems, TLAPS

Places == {"new", "preparing"} \cup AtWork \cup Ended

TurnType ==
    /\ at \in [Messages -> Places]
    /\ thread \in [Messages -> Threads \cup {None}]
    /\ \A t \in Messages : at[t] \in {"preparing"} \cup AtWork => thread[t] \in Threads
    /\ running \in [Threads -> SUBSET Messages]
    /\ cancel \subseteq Messages /\ told \subseteq Messages

\* A turn is registered for its thread, and only there, exactly while it is at work.
RegisteredAtWork ==
    \A t \in Messages, h \in Threads : t \in running[h] <=> at[t] \in AtWork /\ thread[t] = h

\* A turn that was told to stop and is at work still has its cancellation before it, or is
\* at the note it leaves.
ToldAreCancelled ==
    \A t \in told : /\ at[t] \in AtWork => t \in cancel \/ at[t] = "noting"
                    /\ at[t] \notin {"new", "preparing"}

\* Until the end of the process nobody else is cancelled.
CancelledWereTold ==
    open => \A t \in Messages :
        /\ at[t] \in AtWork /\ (t \in cancel \/ at[t] = "noting") => t \in told
        /\ at[t] \in {"new", "preparing"} => t \notin cancel

\* Inductive.
StopInv == TurnType /\ RegisteredAtWork /\ ToldAreCancelled /\ CancelledWereTold

-----------------------------------------------------------------------------
(* Who is stopped *)

\* A turn at work that nobody has cancelled goes on to its next await.
LEMMA MovesOn ==
    ASSUME StopInv, NEW t \in Messages, t \notin cancel, at[t] \in AtWork \ {"noting"},
           NEW where \in AtWork \ {"noting"}, at' = [at EXCEPT ![t] = where],
           UNCHANGED <<thread, running, cancel, open, told>>
    PROVE  StopInv'
<1>1. TurnType'
    BY DEF StopInv, TurnType, Places
<1>2. at'[t] = where /\ \A u \in Messages \ {t} : at'[u] = at[u]
    BY DEF StopInv, TurnType
<1>3. where \notin {"new", "preparing"}
    BY DEF AtWork, Working
<1>4. RegisteredAtWork'
    BY <1>2 DEF StopInv, RegisteredAtWork
<1>5. t \notin told
    BY DEF StopInv, ToldAreCancelled
<1>6. ToldAreCancelled'
    BY <1>2, <1>5 DEF StopInv, ToldAreCancelled, TurnType
<1>7. CancelledWereTold'
    BY <1>2, <1>3 DEF StopInv, CancelledWereTold
<1>. QED  BY <1>1, <1>4, <1>6, <1>7 DEF StopInv

\* A task ends and leaves the register.
LEMMA EndsInv ==
    ASSUME StopInv, NEW t \in Messages, NEW how \in Ended, End(t, how),
           cancel' = cancel \/ cancel' = cancel \ {t}, UNCHANGED <<thread, open, told>>
    PROVE  StopInv'
<1>1. at' = [at EXCEPT ![t] = how] /\ running' = [h \in Threads |-> running[h] \ {t}]
    BY DEF End, Unregistered
<1>2. at'[t] = how /\ \A u \in Messages \ {t} : at'[u] = at[u]
    BY <1>1 DEF StopInv, TurnType
<1>3. how \notin AtWork /\ how \notin {"new", "preparing"}
    BY DEF Ended, AtWork, Working
<1>4. TurnType'
  <2>1. at' \in [Messages -> Places] /\ running' \in [Threads -> SUBSET Messages]
      BY <1>1 DEF StopInv, TurnType, Places
  <2>2. \A u \in Messages : at'[u] \in {"preparing"} \cup AtWork => thread'[u] \in Threads
      BY <1>2, <1>3 DEF StopInv, TurnType
  <2>. QED  BY <2>1, <2>2 DEF StopInv, TurnType
<1>5. ASSUME NEW u \in Messages, NEW h \in Threads
      PROVE  u \in running'[h] <=> at'[u] \in AtWork /\ thread[u] = h
  <2>1. CASE u = t
      BY <1>1, <1>2, <1>3, <2>1
  <2>2. CASE u # t
      BY <1>1, <1>2, <2>2 DEF StopInv, RegisteredAtWork
  <2>. QED  BY <2>1, <2>2
<1>6. RegisteredAtWork'
    BY <1>5 DEF RegisteredAtWork
<1>7. \A u \in Messages \ {t} : u \in cancel' <=> u \in cancel
    OBVIOUS
<1>8. ToldAreCancelled'
    BY <1>2, <1>3, <1>7 DEF StopInv, ToldAreCancelled, TurnType
<1>9. CancelledWereTold'
    BY <1>2, <1>3, <1>7 DEF StopInv, CancelledWereTold
<1>. QED  BY <1>4, <1>6, <1>8, <1>9 DEF StopInv

\* A turn that gets registered was not yet told anything.
LEMMA RegisteredInv ==
    ASSUME StopInv, NEW t \in Messages, NEW h \in Threads, at[t] \in {"new", "preparing"},
           at' = [at EXCEPT ![t] = "starting"], thread' = [thread EXCEPT ![t] = h],
           running' = Registered(t, h), UNCHANGED <<cancel, open, told>>, open \/ t \notin cancel
    PROVE  StopInv'
<1>1. at'[t] = "starting" /\ \A u \in Messages \ {t} : at'[u] = at[u]
    BY DEF StopInv, TurnType
<1>2. "starting" \in AtWork \ {"noting"} /\ at[t] \notin AtWork
    BY DEF AtWork, Working
<1>3. running' = [running EXCEPT ![h] = running[h] \cup {t}]
    BY DEF Registered, TurnKey
<1>4. thread'[t] = h /\ \A u \in Messages \ {t} : thread'[u] = thread[u]
    BY DEF StopInv, TurnType
<1>5. TurnType'
  <2>1. at' \in [Messages -> Places] /\ thread' \in [Messages -> Threads \cup {None}]
      BY <1>2 DEF StopInv, TurnType, Places
  <2>2. running' \in [Threads -> SUBSET Messages]
      BY <1>3 DEF StopInv, TurnType
  <2>. QED  BY <2>1, <2>2 DEF StopInv, TurnType
<1>6. ASSUME NEW u \in Messages, NEW k \in Threads
      PROVE  u \in running'[k] <=> at'[u] \in AtWork /\ thread'[u] = k
  <2>1. u \in running'[k] <=> u \in running[k] \/ (u = t /\ k = h)
      BY <1>3 DEF StopInv, TurnType
  <2>2. CASE u = t
      BY <1>1, <1>2, <1>4, <2>1, <2>2 DEF StopInv, RegisteredAtWork
  <2>3. CASE u # t
      BY <1>1, <1>4, <2>1, <2>3 DEF StopInv, RegisteredAtWork
  <2>. QED  BY <2>2, <2>3
<1>7. RegisteredAtWork'
    BY <1>6 DEF RegisteredAtWork
<1>8. t \notin told
    BY DEF StopInv, ToldAreCancelled
<1>9. ToldAreCancelled'
    BY <1>1, <1>8 DEF StopInv, ToldAreCancelled, TurnType
<1>10. t \notin cancel
    BY DEF StopInv, CancelledWereTold
<1>11. CancelledWereTold'
    BY <1>1, <1>10 DEF StopInv, CancelledWereTold
<1>. QED  BY <1>5, <1>7, <1>9, <1>11 DEF StopInv

\* A message with an attachment is not registered until it has been looked at.
LEMMA PreparesInv ==
    ASSUME StopInv, NEW t \in Messages, NEW h \in Threads, at[t] = "new",
           at' = [at EXCEPT ![t] = "preparing"], thread' = [thread EXCEPT ![t] = h],
           UNCHANGED <<running, cancel, open, told>>
    PROVE  StopInv'
<1>1. at'[t] = "preparing" /\ \A u \in Messages \ {t} : at'[u] = at[u]
    BY DEF StopInv, TurnType
<1>2. at[t] \notin AtWork /\ at'[t] \notin AtWork
    BY <1>1 DEF AtWork, Working
<1>3. \A u \in Messages \ {t} : thread'[u] = thread[u]
    BY DEF StopInv, TurnType
<1>4. TurnType'
    BY DEF StopInv, TurnType, Places
<1>5. RegisteredAtWork'
    BY <1>1, <1>2, <1>3 DEF StopInv, RegisteredAtWork
<1>6. ToldAreCancelled'
    BY <1>1, <1>2 DEF StopInv, ToldAreCancelled, TurnType
<1>7. CancelledWereTold'
    BY <1>1, <1>2 DEF StopInv, CancelledWereTold
<1>. QED  BY <1>4, <1>5, <1>6, <1>7 DEF StopInv

\* One that comes to nothing ends without having been registered.
LEMMA DroppedInv ==
    ASSUME StopInv, NEW t \in Messages, Dropped(t) PROVE StopInv'
<1>1. at[t] = "preparing" /\ at' = [at EXCEPT ![t] = "dropped"]
      /\ UNCHANGED <<thread, running, cancel, open, told>>
    BY DEF Dropped
<1>2. at'[t] = "dropped" /\ \A u \in Messages \ {t} : at'[u] = at[u]
    BY <1>1 DEF StopInv, TurnType
<1>3. at[t] \notin AtWork /\ at'[t] \notin AtWork
    BY <1>1, <1>2 DEF AtWork, Working
<1>4. TurnType'
    BY <1>1 DEF StopInv, TurnType, Places, Ended
<1>5. RegisteredAtWork'
    BY <1>1, <1>2, <1>3 DEF StopInv, RegisteredAtWork
<1>6. ToldAreCancelled'
    BY <1>1, <1>2, <1>3 DEF StopInv, ToldAreCancelled, TurnType
<1>7. CancelledWereTold'
    BY <1>1, <1>2, <1>3 DEF StopInv, CancelledWereTold
<1>. QED  BY <1>4, <1>5, <1>6, <1>7 DEF StopInv

\* The error that a cancellation raises is caught, for a note, or ends the task.
LEMMA CancelledInv ==
    ASSUME StopInv, NEW t \in Messages, Cancelled(t) PROVE StopInv'
<1>1. t \in cancel /\ cancel' = cancel \ {t} /\ UNCHANGED <<thread, open, told>>
    BY DEF Cancelled
<1>2. CASE at[t] \notin Caught /\ End(t, "stopped")
    BY <1>1, <1>2, EndsInv DEF Ended
<1>3. CASE at[t] \in Caught /\ at' = [at EXCEPT ![t] = "noting"] /\ running' = running
  <2>1. at'[t] = "noting" /\ \A u \in Messages \ {t} : at'[u] = at[u]
      BY <1>3 DEF StopInv, TurnType
  <2>2. at[t] \in AtWork /\ "noting" \in AtWork
      BY <1>3 DEF Caught, AtWork, Working
  <2>3. TurnType'
      BY <1>1, <1>3, <2>2 DEF StopInv, TurnType, Places
  <2>4. RegisteredAtWork'
      BY <1>1, <1>3, <2>1, <2>2 DEF StopInv, RegisteredAtWork
  <2>5. ToldAreCancelled'
    <3>1. "noting" \notin {"new", "preparing"}
        OBVIOUS
    <3>. QED  BY <1>1, <2>1, <3>1 DEF StopInv, ToldAreCancelled, TurnType
  <2>6. open => t \in told
      BY <1>1, <2>2 DEF StopInv, CancelledWereTold
  <2>7. CancelledWereTold'
      BY <1>1, <2>1, <2>6 DEF StopInv, CancelledWereTold
  <2>. QED  BY <2>3, <2>4, <2>5, <2>7 DEF StopInv
<1>. QED  BY <1>2, <1>3 DEF Cancelled

\* A stop reaches the turns at work that it means.
LEMMA StoppedInv ==
    ASSUME StopInv, NEW meant \in SUBSET Messages, NEW tasks \in SUBSET Messages,
           \A t \in Messages : at[t] \in AtWork => (t \in tasks <=> t \in meant),
           \A t \in tasks \cup meant : at[t] \in AtWork,
           CancelTasks(tasks), told' = told \cup meant, UNCHANGED <<at, thread, running, open>>
    PROVE  StopInv'
<1>1. \A t \in Messages : at[t] \in AtWork => at[t] \notin Ended \cup {"new", "preparing"}
    BY DEF AtWork, Working, Ended
<1>2. cancel' = cancel \cup tasks /\ tasks = meant
    BY <1>1 DEF CancelTasks
<1>3. TurnType'
    BY <1>2 DEF StopInv, TurnType
<1>4. RegisteredAtWork'
    BY DEF StopInv, RegisteredAtWork
<1>5. ToldAreCancelled'
    BY <1>1, <1>2 DEF StopInv, ToldAreCancelled, TurnType
<1>6. CancelledWereTold'
    BY <1>1, <1>2 DEF StopInv, CancelledWereTold
<1>. QED  BY <1>3, <1>4, <1>5, <1>6 DEF StopInv

\* The end of the process cancels everybody.
LEMMA ShutdownInv ==
    ASSUME StopInv, Shutdown PROVE StopInv'
<1>1. ~open' /\ cancel \subseteq cancel' /\ cancel' \subseteq Messages
      /\ UNCHANGED <<at, thread, running, told>>
    BY DEF Shutdown, StopInv, TurnType
<1>. QED  BY <1>1 DEF StopInv, TurnType, RegisteredAtWork, ToldAreCancelled, CancelledWereTold

\* The variables above.
turnVars == <<at, thread, running, cancel, open, told>>

\* Steps within an await.
LEMMA SameTurns ==
    ASSUME StopInv, UNCHANGED turnVars PROVE StopInv'
    BY DEF StopInv, turnVars, TurnType, RegisteredAtWork, ToldAreCancelled, CancelledWereTold

\* A message arrives.
LEMMA ArriveInv ==
    ASSUME StopInv, NEW t \in Messages, NEW h \in Threads, NEW kind, Arrive(t, h, kind)
    PROVE  StopInv'
<1>1. open /\ at[t] = "new" /\ thread' = [thread EXCEPT ![t] = h] /\ UNCHANGED <<cancel, open, told>>
    BY DEF Arrive
<1>2. CASE kind = "text"
  <2>1. at' = [at EXCEPT ![t] = "starting"] /\ running' = Registered(t, h)
      BY <1>2 DEF Arrive
  <2>. QED  BY <1>1, <2>1, RegisteredInv
<1>3. CASE kind # "text"
  <2>1. at' = [at EXCEPT ![t] = "preparing"] /\ running' = running
      BY <1>3 DEF Arrive
  <2>. QED  BY <1>1, <2>1, PreparesInv
<1>. QED  BY <1>2, <1>3

\* The moves of a turn that nobody has cancelled.
LEMMA TurnMoves ==
    ASSUME StopInv, NEW t \in Messages, t \notin cancel,
           \/ Begin(t) \/ CallCreator(t) \/ CreatorRuns(t) \/ CreatorReturns(t) \/ RunReturns(t)
           \/ Raise(t) \/ Reply(t) \/ Drain(t) \/ Apologize(t)
    PROVE  StopInv'
<1>1. PICK where \in AtWork \ {"noting"} :
          /\ at[t] \in AtWork \ {"noting"} /\ at' = [at EXCEPT ![t] = where]
          /\ UNCHANGED <<thread, running, cancel, open, told>>
  <2>1. CASE Begin(t)
      BY <2>1 DEF Begin, AtWork, Working
  <2>2. CASE CallCreator(t) \/ CreatorRuns(t) \/ CreatorReturns(t)
      BY <2>2 DEF CallCreator, CreatorRuns, CreatorReturns, AtWork, Working
  <2>3. CASE RunReturns(t) \/ Raise(t) \/ Reply(t)
      BY <2>3 DEF RunReturns, Raise, Reply, AtWork, Working
  <2>4. CASE Drain(t) \/ Apologize(t)
      BY <2>4 DEF Drain, Apologize, AtWork, Working
  <2>. QED  BY <2>1, <2>2, <2>3, <2>4
<1>. QED  BY <1>1, MovesOn

\* And what is left: its files, and its end.
LEMMA TurnEnds ==
    ASSUME StopInv, NEW t \in Messages, t \notin cancel,
           Prepared(t) \/ AttachFile(t) \/ SendFile(t) \/ Finish(t) \/ Apologized(t) \/ Note(t)
    PROVE  StopInv'
<1>1. CASE Prepared(t)
  <2>1. at[t] = "preparing" /\ at' = [at EXCEPT ![t] = "starting"] /\ running' = Registered(t, thread[t])
        /\ UNCHANGED <<thread, cancel, open, told>>
      BY <1>1 DEF Prepared
  <2>2. thread[t] \in Threads /\ thread' = [thread EXCEPT ![t] = thread[t]]
      BY <2>1 DEF StopInv, TurnType
  <2>. QED  BY <2>1, <2>2, RegisteredInv
<1>2. CASE AttachFile(t) \/ SendFile(t)
    BY <1>2, SameTurns DEF AttachFile, SendFile, turnVars
<1>3. CASE Finish(t) \/ Apologized(t)
  <2>1. End(t, "done") /\ UNCHANGED <<thread, cancel, open, told>>
      BY <1>3 DEF Finish, Apologized
  <2>. QED  BY <2>1, EndsInv DEF Ended
<1>4. CASE Note(t)
  <2>1. End(t, "stopped") /\ UNCHANGED <<thread, cancel, open, told>>
      BY <1>4 DEF Note
  <2>. QED  BY <2>1, EndsInv DEF Ended
<1>. QED  BY <1>1, <1>2, <1>3, <1>4

\* Every step keeps the invariant.
LEMMA StopStep == StopInv /\ [Next]_vars => StopInv'
<1>. SUFFICES ASSUME StopInv, [Next]_vars PROVE StopInv'
    OBVIOUS
<1>1. ASSUME NEW t \in Messages, TurnStep(t) PROVE StopInv'
  <2>1. CASE Cancelled(t)
      BY <2>1, CancelledInv
  <2>2. CASE t \notin cancel /\ ~Cancelled(t)
      BY <1>1, <2>2, DroppedInv, TurnMoves, TurnEnds DEF TurnStep
  <2>. QED  BY <1>1, <2>1, <2>2 DEF TurnStep
<1>2. ASSUME NEW t \in Messages, NEW h \in Threads, NEW kind, Arrive(t, h, kind) PROVE StopInv'
    BY <1>2, ArriveInv
<1>3. ASSUME NEW h \in Threads, Stop(h) PROVE StopInv'
  <2>. DEFINE meant == {t \in Messages : thread[t] = h /\ at[t] \in AtWork}
  <2>1. CancelTasks(running[h]) /\ told' = told \cup meant /\ UNCHANGED <<at, thread, running, open>>
      BY <1>3 DEF Stop, TurnKey
  <2>2. running[h] \in SUBSET Messages /\ running[h] = meant
      BY DEF StopInv, TurnType, RegisteredAtWork
  <2>3. \A t \in running[h] \cup meant : at[t] \in AtWork
      BY <2>2
  <2>. QED  BY <2>1, <2>2, <2>3, StoppedInv
<1>4. CASE StopAll
  <2>. DEFINE meant == {t \in Messages : at[t] \in AtWork}
              tasks == UNION {running[h] : h \in Threads}
  <2>1. CancelTasks(tasks) /\ told' = told \cup meant /\ UNCHANGED <<at, thread, running, open>>
      BY <1>4 DEF StopAll
  <2>2. \A t \in meant : thread[t] \in Threads
      BY DEF StopInv, TurnType, AtWork, Working
  <2>3. tasks = meant
      BY <2>2 DEF StopInv, TurnType, RegisteredAtWork
  <2>4. \A t \in tasks \cup meant : at[t] \in AtWork
      BY <2>3
  <2>5. meant \in SUBSET Messages /\ tasks \in SUBSET Messages
      BY <2>3
  <2>. HIDE DEF meant, tasks
  <2>. QED  BY <2>1, <2>3, <2>4, <2>5, StoppedInv
<1>5. CASE Reload \/ UNCHANGED vars
    BY <1>5, SameTurns DEF Reload, vars, turnVars
<1>6. CASE Shutdown
    BY <1>6, ShutdownInv
<1>. QED  BY <1>1, <1>2, <1>3, <1>4, <1>5, <1>6 DEF Next, Step, Command

\* Nobody has been told anything at first.
LEMMA StopStart == Init => StopInv
    BY DEF Init, StopInv, TurnType, RegisteredAtWork, ToldAreCancelled, CancelledWereTold, Places, AtWork, Working

\* //stop cancels every turn at work in its thread, from registration to the end of its task,
\* and no other, whatever the interleaving of turns, tool calls, failures and other stops.
THEOREM StopsAreExact == Spec => []StopIsExact
<1>1. StopInv => StopIsExact
    BY DEF StopInv, ToldAreCancelled, CancelledWereTold, StopIsExact
<1>. QED  BY StopStart, StopStep, <1>1, PTL DEF Spec

\* A step that posts is one of a turn at work that nobody has cancelled, or leaves a note.
LEMMA PostsShape ==
    ASSUME StopInv, Next, NEW e \in posted' \ posted, e.what \in Answers
    PROVE  \E t \in Messages : e.of = t /\ t \notin cancel /\ at[t] \in AtWork \ {"noting"} /\ told' = told
<1>1. ASSUME NEW t \in Messages, TurnStep(t), e \in posted' \ posted, e.what \in Answers
      PROVE  e.of = t /\ t \notin cancel /\ at[t] \in AtWork \ {"noting"} /\ told' = told
  <2>1. CASE Reply(t)
    <3>1. at[t] = "settling" /\ posted' \subseteq posted \cup {Event(t, "reply")} /\ told' = told
        BY <2>1 DEF Reply, Post
    <3>2. t \notin cancel
        BY <1>1, <3>1 DEF TurnStep, Cancelled
    <3>. QED  BY <1>1, <3>1, <3>2 DEF Event, AtWork, Working
  <2>2. CASE SendFile(t)
    <3>1. PICK f : at[t] = "sending" /\ told' = told
                   /\ posted' \subseteq posted \cup {FileEvent(t, f)}
        BY <2>2 DEF SendFile, Post
    <3>2. t \notin cancel
        BY <1>1, <3>1 DEF TurnStep, Cancelled
    <3>. QED  BY <1>1, <3>1, <3>2 DEF FileEvent, AtWork, Working
  <2>3. CASE Apologize(t)
    <3>1. at[t] = "failing" /\ posted' \subseteq posted \cup {Event(t, "error")} /\ told' = told
        BY <2>3 DEF Apologize, Post
    <3>2. t \notin cancel
        BY <1>1, <3>1 DEF TurnStep, Cancelled
    <3>. QED  BY <1>1, <3>1, <3>2 DEF Event, AtWork, Working
  <2>4. CASE Note(t)
    <3>1. posted' \subseteq posted \cup {Event(t, "note")}
        BY <2>4 DEF Note, Post
    <3>. QED  BY <1>1, <3>1 DEF Event, Answers
  <2>5. CASE \/ Cancelled(t) \/ Prepared(t) \/ Dropped(t) \/ Begin(t) \/ AttachFile(t) \/ CallCreator(t)
             \/ CreatorRuns(t) \/ CreatorReturns(t) \/ RunReturns(t) \/ Raise(t) \/ Drain(t)
             \/ Finish(t) \/ Apologized(t)
    <3>1. posted' = posted
        BY <2>5 DEF Cancelled, Prepared, Dropped, Begin, AttachFile, CallCreator, CreatorRuns, CreatorReturns,
                    RunReturns, Raise, Drain, Finish, Apologized
    <3>. QED  BY <1>1, <3>1
  <2>. QED  BY <1>1, <2>1, <2>2, <2>3, <2>4, <2>5 DEF TurnStep
<1>2. CASE Command
  <2>1. posted' = posted
      BY <1>2 DEF Command, Arrive, Stop, StopAll, Reload, Shutdown
  <2>. QED  BY <2>1
<1>. QED  BY <1>1, <1>2 DEF Next, Step

\* A turn that was told to stop answers nothing any more: no reply, no file, no error.
THEOREM StoppedStaySilent == Spec => StopSilences
<1>1. StopInv /\ [Next]_vars => [\A e \in posted' \ posted : e.what \in Answers => e.of \notin told]_vars
  <2>. SUFFICES ASSUME StopInv, [Next]_vars, NEW e \in posted' \ posted, e.what \in Answers
                PROVE  e.of \notin told
      OBVIOUS
  <2>1. CASE Next
    <3>1. PICK t \in Messages : e.of = t /\ t \notin cancel /\ at[t] \in AtWork \ {"noting"}
        BY <2>1, PostsShape
    <3>. QED  BY <3>1 DEF StopInv, ToldAreCancelled
  <2>2. CASE UNCHANGED vars
      BY <2>2 DEF vars
  <2>. QED  BY <2>1, <2>2
<1>. QED  BY StopStart, StopStep, <1>1, PTL DEF Spec, StopSilences
-----------------------------------------------------------------------------
(* What a message may lead to *)

phases == [t \in Messages |-> PhaseOf(t)]
saids == [t \in Messages |-> SaidBy(t)]

\* One message moves on: its phase changes, no other's does.
LEMMA PhaseMoves ==
    ASSUME at \in [Messages -> Places], NEW t \in Messages, NEW where \in Places,
           at' = [at EXCEPT ![t] = where],
           \A u \in Messages \ {t} : u \in cancel' \cup told' <=> u \in cancel \cup told
    PROVE  /\ at'[t] = where
           /\ phases' = [phases EXCEPT ![t] = PhaseOf(t)']
<1>1. at'[t] = where /\ \A u \in Messages \ {t} : at'[u] = at[u]
    OBVIOUS
<1>2. ASSUME NEW u \in Messages \ {t} PROVE PhaseOf(u)' = PhaseOf(u)
  <2>1. at'[u] = at[u]
      BY <1>1
  <2>2. BrokenOff(u)' <=> BrokenOff(u)
      BY <2>1 DEF BrokenOff
  <2>. QED  BY <2>1, <2>2 DEF PhaseOf
<1>. QED  BY <1>1, <1>2 DEF phases

\* What a message has led to follows what is posted.
LEMMA SaidStays == posted' = posted => saids' = saids
    BY DEF saids, SaidBy

LEMMA SaysMore ==
    ASSUME NEW t \in Messages, NEW e, e.of = t, posted' \in {posted, posted \cup {e}}
    PROVE  saids' \in {saids, [saids EXCEPT ![t] = @ \cup {e.what}]}
<1>1. CASE posted' = posted
    BY <1>1, SaidStays
<1>2. CASE posted' = posted \cup {e}
  <2>1. SaidBy(t)' = SaidBy(t) \cup {e.what}
      BY <1>2 DEF SaidBy
  <2>2. \A u \in Messages \ {t} : SaidBy(u)' = SaidBy(u)
      BY <1>2 DEF SaidBy
  <2>. QED  BY <2>1, <2>2 DEF saids
<1>. QED  BY <1>1, <1>2

\* A message that nobody has stopped is where its task stands.
LEMMA Undisturbed ==
    ASSUME StopInv, NEW t \in Messages, t \notin cancel, at[t] # "noting"
    PROVE  t \notin told \/ at[t] \in Ended
<1>1. at[t] \in {"new", "preparing"} \cup AtWork \cup Ended
    BY DEF StopInv, TurnType, Places
<1>. QED  BY <1>1 DEF StopInv, ToldAreCancelled

LEMMA PhaseStands ==
    ASSUME NEW t \in Messages, t \notin cancel, t \notin told
    PROVE  /\ at[t] = "new" => PhaseOf(t) = "new"
           /\ at[t] = "preparing" => PhaseOf(t) = "seen"
           /\ at[t] \in Working => PhaseOf(t) = "turn"
           /\ at[t] \in {"replying", "sending"} => PhaseOf(t) = "replied"
           /\ at[t] = "apologizing" => PhaseOf(t) = "failed"
           /\ at[t] \in Ended => PhaseOf(t) = "over"
    BY DEF PhaseOf, PhaseAt, BrokenOff, Working, Ended

LEMMA PhaseBroken ==
    ASSUME NEW t \in Messages
    PROVE  /\ at[t] \in Ended => PhaseOf(t) = "over"
           /\ at[t] \notin Ended /\ (t \in cancel \cup told \/ at[t] = "noting") => PhaseOf(t) = "broken"
    BY DEF PhaseOf, PhaseAt, BrokenOff, Ended, Working

\* A turn that goes on without a word.
LEMMA SilentPromise ==
    ASSUME StopInv, NEW t \in Messages, t \notin cancel,
           \/ Begin(t) \/ CallCreator(t) \/ CreatorRuns(t) \/ CreatorReturns(t) \/ RunReturns(t)
           \/ Raise(t) \/ Drain(t)
    PROVE  UNCHANGED <<phases, saids>>
<1>1. PICK where \in Places :
          /\ \/ at[t] \in Working /\ where \in Working
             \/ at[t] = "replying" /\ where = "sending"
          /\ at' = [at EXCEPT ![t] = where] /\ UNCHANGED <<cancel, told, posted>>
  <2>1. CASE Begin(t) \/ CallCreator(t) \/ CreatorRuns(t)
      BY <2>1 DEF Begin, CallCreator, CreatorRuns, Places, AtWork, Working
  <2>2. CASE CreatorReturns(t) \/ RunReturns(t) \/ Raise(t)
      BY <2>2 DEF CreatorReturns, RunReturns, Raise, Places, AtWork, Working
  <2>3. CASE Drain(t)
      BY <2>3 DEF Drain, Places, AtWork
  <2>. QED  BY <2>1, <2>2, <2>3
<1>2. t \notin told
    BY <1>1, Undisturbed DEF Working, Ended
<1>3. at'[t] = where /\ phases' = [phases EXCEPT ![t] = PhaseOf(t)']
    BY <1>1, PhaseMoves DEF StopInv, TurnType
<1>4. PhaseOf(t)' = PhaseOf(t)
  <2>1. t \notin cancel' /\ t \notin told'
      BY <1>1, <1>2
  <2>. QED  BY <1>1, <1>2, <1>3, <2>1 DEF PhaseOf, PhaseAt, BrokenOff, Working, Ended
<1>. QED  BY <1>1, <1>3, <1>4, SaidStays DEF phases

\* A message arrives, is looked at, and is taken or dropped.
LEMMA TakenPromise ==
    ASSUME StopInv, NEW t \in Messages, t \notin cancel, t \notin told,
           NEW where \in {"preparing", "starting", "dropped"}, at' = [at EXCEPT ![t] = where],
           \/ at[t] = "new" /\ where # "dropped"
           \/ at[t] = "preparing" /\ where # "preparing",
           UNCHANGED <<cancel, told, posted>>
    PROVE  Promise!Next
<1>1. at'[t] = where /\ phases' = [phases EXCEPT ![t] = PhaseOf(t)'] /\ saids' = saids
    BY PhaseMoves, SaidStays DEF StopInv, TurnType, Places, AtWork, Working, Ended
<1>2. phases[t] = PhaseOf(t)
    BY DEF phases
<1>3. CASE where = "preparing"
  <2>1. PhaseOf(t) = "new" /\ PhaseOf(t)' = "seen"
      BY <1>1, <1>3 DEF PhaseOf, PhaseAt, BrokenOff, Working, Ended
  <2>2. Promise!See(t)
      BY <1>1, <1>2, <2>1 DEF Promise!See, Promise!Goes, phases, saids
  <2>. QED  BY <2>2 DEF Promise!Next
<1>4. CASE where = "starting"
  <2>1. PhaseOf(t) \in {"new", "seen"} /\ PhaseOf(t)' = "turn"
      BY <1>1, <1>4 DEF PhaseOf, PhaseAt, BrokenOff, Working, Ended
  <2>2. Promise!Take(t)
      BY <1>1, <1>2, <2>1 DEF Promise!Take, Promise!Goes, phases, saids
  <2>. QED  BY <2>2 DEF Promise!Next
<1>5. CASE where = "dropped"
  <2>1. PhaseOf(t) = "seen" /\ PhaseOf(t)' = "over"
      BY <1>1, <1>5 DEF PhaseOf, PhaseAt, BrokenOff, Working, Ended
  <2>2. Promise!Drop(t)
      BY <1>1, <1>2, <2>1 DEF Promise!Drop, Promise!Goes, phases, saids
  <2>. QED  BY <2>2 DEF Promise!Next
<1>. QED  BY <1>3, <1>4, <1>5

\* It is answered, by a reply or an error.
LEMMA AnswerPromise ==
    ASSUME StopInv, NEW t \in Messages, t \notin cancel, Reply(t) \/ Apologize(t)
    PROVE  Promise!Next
<1>1. PICK where \in {"replying", "apologizing"}, what \in {"reply", "error"} :
          /\ where = "replying" <=> what = "reply"
          /\ at[t] \in Working /\ at' = [at EXCEPT ![t] = where] /\ UNCHANGED <<cancel, told>>
          /\ posted' \in {posted, posted \cup {Event(t, what)}}
    BY DEF Reply, Apologize, Post, Working
<1>2. t \notin told
    BY <1>1, Undisturbed DEF Working, Ended
<1>3. at'[t] = where /\ phases' = [phases EXCEPT ![t] = PhaseOf(t)']
    BY <1>1, PhaseMoves DEF StopInv, TurnType, Places, AtWork
<1>4. saids' \in {saids, [saids EXCEPT ![t] = @ \cup {what}]}
  <2>1. Event(t, what).of = t /\ Event(t, what).what = what
      BY DEF Event
  <2>. QED  BY <1>1, <2>1, SaysMore
<1>5. phases[t] = "turn"
    BY <1>1, <1>2, PhaseStands DEF phases
<1>6. PhaseOf(t)' = IF what = "reply" THEN "replied" ELSE "failed"
    BY <1>1, <1>2, <1>3 DEF PhaseOf, PhaseAt, BrokenOff, Working, Ended
<1>7. Promise!Answer(t)
    BY <1>1, <1>3, <1>4, <1>5, <1>6 DEF Promise!Answer, Promise!Goes, Promise!Says, phases, saids
<1>. QED  BY <1>7 DEF Promise!Next

\* Its files follow.
LEMMA FilePromise ==
    ASSUME StopInv, NEW t \in Messages, t \notin cancel, SendFile(t)
    PROVE  Promise!Next
<1>1. PICK f : /\ at[t] = "sending" /\ UNCHANGED <<at, cancel, told>>
               /\ posted' \in {posted, posted \cup {FileEvent(t, f)}}
    BY DEF SendFile, Post
<1>2. t \notin told
    BY <1>1, Undisturbed DEF Ended
<1>3. phases' = phases /\ phases[t] = "replied"
    BY <1>1, <1>2, PhaseStands DEF phases, PhaseOf, BrokenOff
<1>4. saids' \in {saids, [saids EXCEPT ![t] = @ \cup {"file"}]}
  <2>1. FileEvent(t, f).of = t /\ FileEvent(t, f).what = "file"
      BY DEF FileEvent
  <2>. QED  BY <1>1, <2>1, SaysMore
<1>5. Promise!SendFile(t)
    BY <1>3, <1>4 DEF Promise!SendFile, Promise!Says, phases, saids
<1>. QED  BY <1>5 DEF Promise!Next

\* It is over, answered.
LEMMA ConcludePromise ==
    ASSUME StopInv, NEW t \in Messages, t \notin cancel, Finish(t) \/ Apologized(t)
    PROVE  Promise!Next
<1>1. /\ at[t] \in {"sending", "apologizing"} /\ at' = [at EXCEPT ![t] = "done"]
      /\ UNCHANGED <<cancel, told, posted>>
    BY DEF Finish, Apologized, End
<1>2. t \notin told
    BY <1>1, Undisturbed DEF Ended
<1>3. at'[t] = "done" /\ phases' = [phases EXCEPT ![t] = PhaseOf(t)'] /\ saids' = saids
    BY <1>1, PhaseMoves, SaidStays DEF StopInv, TurnType, Places, Ended
<1>4. phases[t] \in {"replied", "failed"}
    BY <1>1, <1>2, PhaseStands DEF phases
<1>5. PhaseOf(t)' = "over"
    BY <1>3 DEF PhaseOf, PhaseAt, BrokenOff, Ended, Working
<1>6. Promise!Conclude(t)
    BY <1>3, <1>4, <1>5 DEF Promise!Conclude, Promise!Goes, phases, saids
<1>. QED  BY <1>6 DEF Promise!Next

\* A turn that was broken off: it goes to its note, or ends with it or without.
LEMMA NotePromise ==
    ASSUME StopInv, NEW t \in Messages, Cancelled(t) \/ (t \notin cancel /\ Note(t))
    PROVE  Promise!Next \/ UNCHANGED <<phases, saids>>
<1>1. PICK where \in {"noting", "stopped"} :
          /\ at' = [at EXCEPT ![t] = where] /\ told' = told
          /\ where = "noting" => at[t] \in Caught
          /\ t \in cancel \/ at[t] = "noting"
          /\ cancel' = cancel \/ cancel' = cancel \ {t}
          /\ posted' \in {posted, posted \cup {Event(t, "note")}}
    BY DEF Cancelled, Note, Post, End
<1>2. at'[t] = where /\ phases' = [phases EXCEPT ![t] = PhaseOf(t)']
    BY <1>1, PhaseMoves DEF StopInv, TurnType, Places, AtWork, Ended
<1>3. saids' \in {saids, [saids EXCEPT ![t] = @ \cup {"note"}]}
  <2>1. Event(t, "note").of = t /\ Event(t, "note").what = "note"
      BY DEF Event
  <2>. QED  BY <1>1, <2>1, SaysMore
<1>4. CASE Cancelled(t) /\ where = "noting"
  <2>1. PhaseOf(t) = "broken" /\ PhaseOf(t)' = "broken"
      BY <1>1, <1>2, <1>4 DEF PhaseOf, PhaseAt, BrokenOff, Caught, Ended
  <2>2. saids' = saids
      BY <1>4, SaidStays DEF Cancelled
  <2>. QED  BY <1>2, <2>1, <2>2 DEF phases
<1>5. CASE where = "stopped" /\ at[t] \notin Ended
  <2>1. PhaseOf(t) = "broken" /\ PhaseOf(t)' = "over"
      BY <1>1, <1>2, <1>5 DEF PhaseOf, PhaseAt, BrokenOff, Ended, Working
  <2>2. Promise!LeaveNote(t)
      BY <1>2, <1>3, <2>1 DEF Promise!LeaveNote, Promise!Goes, Promise!Says, phases, saids
  <2>. QED  BY <2>2 DEF Promise!Next
<1>6. CASE Cancelled(t) /\ where = "stopped" /\ at[t] \in Ended
  <2>1. PhaseOf(t) = "over" /\ PhaseOf(t)' = "over"
      BY <1>2, <1>6 DEF PhaseOf, PhaseAt, BrokenOff, Ended, Working
  <2>2. saids' = saids
      BY <1>6, SaidStays DEF Cancelled
  <2>. QED  BY <1>2, <2>1, <2>2 DEF phases
<1>7. CASE ~Cancelled(t)
  <2>1. at[t] = "noting" /\ at' = [at EXCEPT ![t] = "stopped"]
      BY <1>7 DEF Note, End
  <2>2. where = "stopped" /\ at[t] \notin Ended
      BY <1>2, <2>1 DEF Ended, StopInv, TurnType
  <2>. QED  BY <1>5, <2>2
<1>. QED  BY <1>4, <1>5, <1>6, <1>7

\* A command or the end of the process breaks off turns at work.
LEMMA BreakPromise ==
    ASSUME at \in [Messages -> Places], UNCHANGED <<at, posted>>, cancel \subseteq cancel', told \subseteq told',
           \A t \in Messages : t \in cancel' \cup told' =>
               t \in cancel \cup told \/ at[t] \notin Ended \cup {"new"}
    PROVE  Promise!Next
<1>. DEFINE some == {t \in Messages : BrokenOff(t)'}
<1>1. saids' = saids
    BY SaidStays
<1>2. ASSUME NEW t \in some PROVE phases[t] \notin {"new", "over"} /\ PhaseOf(t)' = "broken"
  <2>1. at[t] \notin Ended /\ (t \in cancel \cup told \/ at[t] = "noting" \/ at[t] # "new")
      BY <1>2 DEF BrokenOff
  <2>2. PhaseOf(t) \notin {"new", "over"}
    <3>1. at[t] \in Places \ ({"new"} \cup Ended) \/ BrokenOff(t)
        BY <1>2, <2>1 DEF BrokenOff, some
    <3>2. CASE BrokenOff(t)
        BY <3>2 DEF PhaseOf
    <3>3. CASE ~BrokenOff(t) /\ at[t] \in Places \ ({"new"} \cup Ended)
      <4>1. at[t] \in {"preparing", "replying", "sending", "apologizing"} \cup Working
          BY <2>1, <3>3 DEF Places, AtWork, BrokenOff
      <4>2. PhaseAt(at[t]) \notin {"new", "over"}
          BY <4>1 DEF PhaseAt, Working, Ended
      <4>. QED  BY <3>3, <4>2 DEF PhaseOf
    <3>. QED  BY <3>1, <3>2, <3>3
  <2>. QED  BY <1>2, <2>2 DEF phases, PhaseOf
<1>3. ASSUME NEW t \in Messages \ some PROVE PhaseOf(t)' = PhaseOf(t)
  <2>1. ~BrokenOff(t)' /\ ~BrokenOff(t)
      BY <1>3 DEF BrokenOff
  <2>2. at'[t] = at[t]
      OBVIOUS
  <2>. QED  BY <2>1, <2>2 DEF PhaseOf
<1>. HIDE DEF some
<1>4. phases' = [t \in Messages |-> IF t \in some THEN "broken" ELSE phases[t]]
    BY <1>2, <1>3 DEF phases, some
<1>5. Promise!BreakOff(some)
    BY <1>1, <1>2, <1>4 DEF Promise!BreakOff, phases, saids
<1>6. some \in SUBSET Messages
    BY DEF some
<1>. QED  BY <1>5, <1>6 DEF Promise!Next

\* Every step is one that ChatTurn allows, or none.
LEMMA PromiseStep == StopInv /\ [Next]_vars => [Promise!Next]_(Promise!vars)
<1>. SUFFICES ASSUME StopInv, [Next]_vars
              PROVE  Promise!Next \/ UNCHANGED <<phases, saids>>
    BY DEF Promise!vars, phases, saids
<1>1. CASE UNCHANGED <<at, cancel, told, posted>>
    BY <1>1 DEF phases, saids, PhaseOf, BrokenOff, SaidBy
<1>2. ASSUME NEW t \in Messages, TurnStep(t) PROVE Promise!Next \/ UNCHANGED <<phases, saids>>
  <2>1. CASE Cancelled(t) \/ (t \notin cancel /\ Note(t))
      BY <2>1, NotePromise
  <2>2. CASE t \notin cancel /\ (Prepared(t) \/ Dropped(t))
    <3>1. PICK where \in {"starting", "dropped"} :
              at[t] = "preparing" /\ at' = [at EXCEPT ![t] = where] /\ UNCHANGED <<cancel, told, posted>>
        BY <2>2 DEF Prepared, Dropped
    <3>2. t \notin told
        BY <2>2, <3>1, Undisturbed DEF Ended
    <3>. QED  BY <2>2, <3>1, <3>2, TakenPromise
  <2>3. CASE AttachFile(t)
      BY <1>1, <2>3 DEF AttachFile
  <2>4. CASE t \notin cancel /\ (\/ Begin(t) \/ CallCreator(t) \/ CreatorRuns(t) \/ CreatorReturns(t)
                                 \/ RunReturns(t) \/ Raise(t) \/ Drain(t))
      BY <2>4, SilentPromise
  <2>5. CASE t \notin cancel /\ (Reply(t) \/ Apologize(t) \/ SendFile(t) \/ Finish(t) \/ Apologized(t))
      BY <2>5, AnswerPromise, FilePromise, ConcludePromise
  <2>. QED  BY <1>2, <2>1, <2>2, <2>3, <2>4, <2>5 DEF TurnStep
<1>3. ASSUME NEW t \in Messages, NEW h \in Threads, NEW kind, Arrive(t, h, kind) PROVE Promise!Next
  <2>1. PICK where \in {"preparing", "starting"} :
            /\ open /\ at[t] = "new" /\ at' = [at EXCEPT ![t] = where]
            /\ UNCHANGED <<cancel, told, posted>>
      BY <1>3 DEF Arrive
  <2>2. t \notin cancel /\ t \notin told
      BY <2>1 DEF StopInv, ToldAreCancelled, CancelledWereTold
  <2>. QED  BY <2>1, <2>2, TakenPromise
<1>4. \A t \in Messages : at[t] \in AtWork => at[t] \notin Ended \cup {"new"}
    BY DEF AtWork, Working, Ended
<1>5. ASSUME NEW h \in Threads, Stop(h) PROVE Promise!Next
  <2>1. /\ cancel' = cancel \cup {t \in running[h] : at[t] \notin Ended}
        /\ told' = told \cup {t \in Messages : thread[t] = h /\ at[t] \in AtWork}
        /\ UNCHANGED <<at, posted>>
      BY <1>5 DEF Stop, CancelTasks, TurnKey
  <2>2. \A t \in Messages : t \in running[h] => at[t] \in AtWork
      BY DEF StopInv, RegisteredAtWork
  <2>. QED  BY <1>4, <2>1, <2>2, BreakPromise DEF StopInv, TurnType
<1>6. CASE StopAll
  <2>1. /\ cancel' = cancel \cup {t \in UNION {running[h] : h \in Threads} : at[t] \notin Ended}
        /\ told' = told \cup {t \in Messages : at[t] \in AtWork}
        /\ UNCHANGED <<at, posted>>
      BY <1>6 DEF StopAll, CancelTasks
  <2>2. \A t \in Messages : t \in UNION {running[h] : h \in Threads} => at[t] \in AtWork
      BY DEF StopInv, RegisteredAtWork
  <2>. QED  BY <1>4, <2>1, <2>2, BreakPromise DEF StopInv, TurnType
<1>7. CASE Shutdown
  <2>1. /\ cancel' = cancel \cup {t \in Messages : at[t] \notin Ended \cup {"new"}}
        /\ UNCHANGED <<at, posted, told>>
      BY <1>7 DEF Shutdown
  <2>. QED  BY <2>1, BreakPromise DEF StopInv, TurnType
<1>8. CASE Reload \/ UNCHANGED vars
    BY <1>1, <1>8 DEF Reload, vars
<1>. QED  BY <1>2, <1>3, <1>5, <1>6, <1>7, <1>8 DEF Next, Step, Command

LEMMA PromiseStart == Init => Promise!Init
<1>. SUFFICES ASSUME Init PROVE Promise!Init
    OBVIOUS
<1>1. \A t \in Messages : PhaseOf(t) = "new" /\ SaidBy(t) = {}
  <2>. SUFFICES ASSUME NEW t \in Messages PROVE PhaseOf(t) = "new" /\ SaidBy(t) = {}
      OBVIOUS
  <2>1. at[t] = "new" /\ ~BrokenOff(t) /\ posted = {}
      BY DEF Init, BrokenOff
  <2>2. PhaseAt("new") = "new"
      BY DEF PhaseAt, Working, Ended
  <2>. QED  BY <2>1, <2>2 DEF PhaseOf, SaidBy
<1>. QED  BY <1>1 DEF Promise!Init

\* The turns of the Matrix interface implement ChatTurn: whatever stops, failures, lost sends
\* and other turns come in between, a message is answered once, by a reply or by an error,
\* files come after the reply, and a turn that is broken off leaves a note at most.
THEOREM TurnsKeepPromise == Spec => ChatPromise
    BY StopStart, StopStep, PromiseStart, PromiseStep, PTL DEF Spec, ChatPromise, Promise!Spec

-----------------------------------------------------------------------------
(* Who waits for the skill lock *)

Stands(u, s) == \E i \in 1 .. Len(s) : s[i] = u

\* What is left when one is taken out of a queue in which everybody stands once.
LEMMA RemoveFirstShape ==
    ASSUME NEW S, NEW s \in Seq(S), IsInjective(s), NEW t
    PROVE  LET g == RemoveFirst(s, t)
           IN  /\ g \in Seq(S) /\ IsInjective(g)
               /\ \A u : Stands(u, g) <=> Stands(u, s) /\ u # t
               /\ s # <<>> /\ s[1] # t => g # <<>> /\ g[1] = s[1]
<1>0. Len(s) \in Nat /\ DOMAIN s = 1 .. Len(s)
    BY LenProperties
<1>1. CASE ~Stands(t, s)
  <2>1. RemoveFirst(s, t) = s
      BY <1>1 DEF RemoveFirst, Stands
  <2>. QED  BY <1>1, <2>1 DEF Stands
<1>2. CASE Stands(t, s)
  <2>1. PICK k \in 1 .. Len(s) : s[k] = t
      BY <1>2 DEF Stands
  <2>2. \A i \in 1 .. Len(s) : s[i] = t <=> i = k
      BY <1>0, <2>1 DEF IsInjective
  <2>. DEFINE g == RemoveAt(s, k)
  <2>3. RemoveFirst(s, t) = g
    <3>1. {i \in 1 .. Len(s) : s[i] = t} = {k}
        BY <2>2
    <3>2. Min({k}) = k
        BY <1>0 DEF Min
    <3>3. SelectInSeq(s, LAMBDA v : v = t) = k
        BY <3>1, <3>2 DEF SelectInSeq
    <3>. QED  BY <2>1, <3>3 DEF RemoveFirst
  <2>4. /\ g \in Seq(S) /\ Len(g) = Len(s) - 1
        /\ \A p \in 1 .. Len(s) - 1 : g[p] = IF p < k THEN s[p] ELSE s[p + 1]
    <3>. DEFINE a == SubSeq(s, 1, k - 1)
                b == SubSeq(s, k + 1, Len(s))
    <3>1. a \in Seq(S) /\ Len(a) = k - 1 /\ \A i \in 1 .. k - 1 : a[i] = s[i]
        BY <1>0, SubSeqProperties
    <3>2. b \in Seq(S) /\ Len(b) = Len(s) - k /\ \A i \in 1 .. Len(s) - k : b[i] = s[k + i]
      <4>1. /\ k + 1 \in Int /\ Len(s) \in Int
            /\ \A i \in k + 1 .. Len(s) : s[i] \in S
          BY <1>0
      <4>2. /\ b \in Seq(S) /\ Len(b) = IF k + 1 <= Len(s) THEN Len(s) - (k + 1) + 1 ELSE 0
            /\ \A i \in 1 .. Len(s) - (k + 1) + 1 : b[i] = s[(k + 1) + i - 1]
          BY <4>1, SubSeqProperties
      <4>3. Len(s) - (k + 1) + 1 = Len(s) - k /\ \A i \in Int : (k + 1) + i - 1 = k + i
          BY <1>0
      <4>. HIDE DEF b
      <4>6. ASSUME NEW n \in Nat, k \in 1 .. n
            PROVE  (IF k + 1 <= n THEN n - (k + 1) + 1 ELSE 0) = n - k
          BY <4>6
      <4>4. Len(b) = Len(s) - k
          BY <1>0, <4>2, <4>6, Zenon
      <4>5. ASSUME NEW i \in 1 .. Len(s) - k PROVE b[i] = s[k + i]
        <5>1. i \in Int /\ i \in 1 .. Len(s) - (k + 1) + 1
            BY <1>0, <4>3
        <5>2. b[i] = s[(k + 1) + i - 1]
            BY <4>2, <5>1
        <5>. QED  BY <4>3, <5>1, <5>2
      <4>. QED  BY <4>2, <4>4, <4>5
    <3>3. g = a \o b
        BY DEF RemoveAt
    <3>. HIDE DEF a, b, g
    <3>4. /\ g \in Seq(S) /\ Len(g) = Len(a) + Len(b)
          /\ \A i \in 1 .. Len(a) + Len(b) : g[i] = IF i <= Len(a) THEN a[i] ELSE b[i - Len(a)]
        BY <3>1, <3>2, <3>3, ConcatProperties
    <3>5. Len(a) + Len(b) = Len(s) - 1
        BY <1>0, <3>1, <3>2
    <3>6. ASSUME NEW p \in 1 .. Len(s) - 1 PROVE g[p] = IF p < k THEN s[p] ELSE s[p + 1]
      <4>1. CASE p < k
          BY <1>0, <3>1, <3>4, <3>5, <4>1
      <4>2. CASE ~(p < k)
        <5>1. g[p] = b[p - (k - 1)] /\ p - (k - 1) \in 1 .. Len(s) - k
            BY <1>0, <3>1, <3>4, <3>5, <4>2
        <5>2. b[p - (k - 1)] = s[k + (p - (k - 1))]
            BY <3>2, <5>1
        <5>3. k + (p - (k - 1)) = p + 1
            BY <1>0
        <5>. QED  BY <4>2, <5>1, <5>2, <5>3
      <4>. QED  BY <4>1, <4>2
    <3>. QED  BY <3>4, <3>5, <3>6
  <2>. HIDE DEF g
  <2>5. DOMAIN g = 1 .. Len(s) - 1
      BY <2>4, LenProperties
  <2>6. IsInjective(g)
    <3>1. ASSUME NEW p \in 1 .. Len(s) - 1, NEW q \in 1 .. Len(s) - 1, g[p] = g[q] PROVE p = q
      <4>1. PICK i \in 1 .. Len(s) : i = IF p < k THEN p ELSE p + 1
          BY <1>0
      <4>2. PICK j \in 1 .. Len(s) : j = IF q < k THEN q ELSE q + 1
          BY <1>0
      <4>3. s[i] = g[p] /\ s[j] = g[q]
          BY <2>4, <4>1, <4>2
      <4>4. i = j
          BY <1>0, <3>1, <4>3 DEF IsInjective
      <4>. QED  BY <1>0, <4>1, <4>2, <4>4
    <3>. QED  BY <2>5, <3>1 DEF IsInjective
  <2>7. ASSUME NEW u PROVE Stands(u, g) <=> Stands(u, s) /\ u # t
    <3>1. ASSUME NEW p \in 1 .. Len(g), g[p] = u PROVE Stands(u, s) /\ u # t
      <4>1. PICK i \in 1 .. Len(s) : i = IF p < k THEN p ELSE p + 1
          BY <1>0, <2>4, <3>1
      <4>2. s[i] = u /\ i # k
          BY <1>0, <2>4, <3>1, <4>1
      <4>. QED  BY <2>2, <4>2 DEF Stands
    <3>2. ASSUME NEW i \in 1 .. Len(s), s[i] = u, u # t PROVE Stands(u, g)
      <4>1. PICK p \in 1 .. Len(s) - 1 : i = IF p < k THEN p ELSE p + 1
        <5>1. i # k
            BY <2>1, <3>2
        <5>2. CASE i < k
            BY <1>0, <2>1, <5>2
        <5>3. CASE i > k
          <6>1. i - 1 \in 1 .. Len(s) - 1 /\ ~(i - 1 < k) /\ i = (i - 1) + 1
              BY <1>0, <2>1, <5>3
          <6>. QED  BY <6>1
        <5>. QED  BY <1>0, <5>1, <5>2, <5>3
      <4>2. g[p] = u /\ p \in 1 .. Len(g)
          BY <2>4, <3>2, <4>1
      <4>. QED  BY <4>2 DEF Stands
    <3>. QED  BY <3>1, <3>2 DEF Stands
  <2>8. ASSUME s # <<>>, s[1] # t PROVE g # <<>> /\ g[1] = s[1]
    <3>1. 1 < k /\ 1 \in 1 .. Len(s) - 1
        BY <1>0, <2>1, <2>8
    <3>2. g[1] = s[1] /\ Len(g) # 0
        BY <1>0, <2>4, <3>1
    <3>. QED  BY <3>2
  <2>. QED  BY <2>3, <2>4, <2>6, <2>7, <2>8
<1>. QED  BY <1>1, <1>2

AtLock == {"queued", "creating"}

\* The queue holds exactly the turns that want the lock or have it, each once, and only its
\* first has it.  Inductive.
LockInv ==
    /\ at \in [Messages -> Places]
    /\ creators \in Seq(Messages) /\ IsInjective(creators)
    /\ \A t \in Messages : at[t] \in AtLock <=> Stands(t, creators)
    /\ \A t \in Messages : at[t] = "creating" => creators # <<>> /\ creators[1] = t

\* A turn moves elsewhere, and the queue stays.
LEMMA SameQueue ==
    ASSUME LockInv, NEW t \in Messages, NEW where \in Places \ AtLock, at[t] \notin AtLock,
           at' = [at EXCEPT ![t] = where], creators' = creators
    PROVE  LockInv'
<1>1. at'[t] = where /\ (\A u \in Messages \ {t} : at'[u] = at[u]) /\ at' \in [Messages -> Places]
    BY DEF LockInv
<1>2. \A u \in Messages : at'[u] \in AtLock <=> Stands(u, creators')
    BY <1>1 DEF LockInv
<1>3. \A u \in Messages : at'[u] = "creating" => creators' # <<>> /\ creators'[1] = u
    BY <1>1 DEF LockInv, AtLock
<1>. QED  BY <1>1, <1>2, <1>3 DEF LockInv

\* A turn leaves the queue, or was not in it.
LEMMA LeavesQueue ==
    ASSUME LockInv, NEW t \in Messages, NEW where \in Places \ AtLock,
           at' = [at EXCEPT ![t] = where], creators' = RemoveFirst(creators, t)
    PROVE  LockInv'
<1>1. at'[t] = where /\ (\A u \in Messages \ {t} : at'[u] = at[u]) /\ at' \in [Messages -> Places]
    BY DEF LockInv
<1>2. /\ creators' \in Seq(Messages) /\ IsInjective(creators')
      /\ \A u : Stands(u, creators') <=> Stands(u, creators) /\ u # t
      /\ creators # <<>> /\ creators[1] # t => creators' # <<>> /\ creators'[1] = creators[1]
    BY RemoveFirstShape DEF LockInv
<1>3. \A u \in Messages : at'[u] \in AtLock <=> Stands(u, creators')
    BY <1>1, <1>2 DEF LockInv
<1>4. \A u \in Messages : at'[u] = "creating" => creators' # <<>> /\ creators'[1] = u
    BY <1>1, <1>2 DEF LockInv, AtLock
<1>. QED  BY <1>1, <1>2, <1>3, <1>4 DEF LockInv

\* A turn goes to the end of the queue.
LEMMA JoinsQueue ==
    ASSUME LockInv, NEW t \in Messages, CallCreator(t) PROVE LockInv'
<1>1. at[t] = "running" /\ at' = [at EXCEPT ![t] = "queued"] /\ creators' = Append(creators, t)
    BY DEF CallCreator
<1>2. at'[t] = "queued" /\ (\A u \in Messages \ {t} : at'[u] = at[u]) /\ at' \in [Messages -> Places]
    BY <1>1 DEF LockInv, Places, AtWork, Working
<1>3. ~Stands(t, creators)
    BY <1>1 DEF LockInv, AtLock
<1>4. /\ creators' \in Seq(Messages) /\ Len(creators) \in Nat /\ Len(creators') = Len(creators) + 1
      /\ creators'[Len(creators) + 1] = t
      /\ \A i \in 1 .. Len(creators) : creators'[i] = creators[i]
    BY <1>1, AppendProperties, LenProperties DEF LockInv
<1>5. \A u : Stands(u, creators') <=> Stands(u, creators) \/ u = t
    BY <1>4 DEF Stands
<1>6. IsInjective(creators')
  <2>1. DOMAIN creators' = 1 .. Len(creators) + 1 /\ DOMAIN creators = 1 .. Len(creators)
      BY <1>4, LenProperties DEF LockInv
  <2>2. ASSUME NEW i \in 1 .. Len(creators) + 1, NEW j \in 1 .. Len(creators) + 1,
               creators'[i] = creators'[j]
        PROVE  i = j
    <3>1. CASE i \in 1 .. Len(creators) /\ j \in 1 .. Len(creators)
        BY <1>4, <2>1, <2>2, <3>1 DEF LockInv, IsInjective
    <3>2. CASE i \in 1 .. Len(creators) /\ j = Len(creators) + 1
        BY <1>3, <1>4, <2>2, <3>2 DEF Stands
    <3>3. CASE i = Len(creators) + 1 /\ j \in 1 .. Len(creators)
        BY <1>3, <1>4, <2>2, <3>3 DEF Stands
    <3>. QED  BY <1>4, <3>1, <3>2, <3>3
  <2>. QED  BY <2>1, <2>2 DEF IsInjective
<1>7. \A u \in Messages : at'[u] \in AtLock <=> Stands(u, creators')
    BY <1>2, <1>5 DEF LockInv, AtLock
<1>8. ASSUME NEW u \in Messages, at'[u] = "creating" PROVE creators' # <<>> /\ creators'[1] = u
  <2>1. creators # <<>> /\ creators[1] = u
      BY <1>2, <1>8 DEF LockInv
  <2>2. 1 \in 1 .. Len(creators)
      BY <1>4, <2>1 DEF LockInv
  <2>. QED  BY <1>4, <2>1, <2>2
<1>. QED  BY <1>2, <1>4, <1>6, <1>7, <1>8 DEF LockInv

\* The first takes the lock, which nobody has.
LEMMA TakesLock ==
    ASSUME LockInv, NEW t \in Messages, CreatorRuns(t) PROVE LockInv'
<1>1. /\ at[t] = "queued" /\ creators[1] = t /\ at' = [at EXCEPT ![t] = "creating"]
      /\ creators' = creators
    BY DEF CreatorRuns, LockQueue
<1>2. at'[t] = "creating" /\ (\A u \in Messages \ {t} : at'[u] = at[u]) /\ at' \in [Messages -> Places]
    BY <1>1 DEF LockInv, Places, AtWork, Working
<1>3. Stands(t, creators)
    BY <1>1 DEF LockInv, AtLock
<1>4. creators # <<>>
    BY <1>3 DEF Stands
<1>5. \A u \in Messages : at'[u] \in AtLock <=> Stands(u, creators')
    BY <1>1, <1>2, <1>3 DEF LockInv, AtLock
<1>6. \A u \in Messages : at'[u] = "creating" => creators' # <<>> /\ creators'[1] = u
    BY <1>1, <1>2, <1>4 DEF LockInv
<1>. QED  BY <1>1, <1>2, <1>5, <1>6 DEF LockInv

LEMMA LockStep == LockInv /\ [Next]_vars => LockInv'
<1>. SUFFICES ASSUME LockInv, [Next]_vars PROVE LockInv'
    OBVIOUS
<1>1. CASE UNCHANGED <<at, creators>>
    BY <1>1 DEF LockInv
<1>2. ASSUME NEW t \in Messages, TurnStep(t) PROVE LockInv'
  <2>1. CASE CallCreator(t) \/ CreatorRuns(t)
      BY <2>1, JoinsQueue, TakesLock
  <2>2. CASE Cancelled(t) \/ CreatorReturns(t) \/ Raise(t)
    <3>1. PICK where \in Places \ AtLock :
              at' = [at EXCEPT ![t] = where] /\ creators' = RemoveFirst(creators, t)
      <4>1. CASE Cancelled(t)
          BY <4>1 DEF Cancelled, End, Places, AtWork, Working, Ended, AtLock
      <4>2. CASE CreatorReturns(t) \/ Raise(t)
          BY <4>2 DEF CreatorReturns, Raise, Places, AtWork, Working, AtLock
      <4>. QED  BY <2>2, <4>1, <4>2
    <3>. QED  BY <3>1, LeavesQueue
  <2>3. CASE AttachFile(t) \/ SendFile(t)
      BY <1>1, <2>3 DEF AttachFile, SendFile
  <2>4. CASE \/ Prepared(t) \/ Dropped(t) \/ Begin(t) \/ RunReturns(t) \/ Reply(t) \/ Drain(t)
             \/ Finish(t) \/ Apologize(t) \/ Apologized(t) \/ Note(t)
    <3>1. PICK where \in Places \ AtLock :
              at[t] \notin AtLock /\ at' = [at EXCEPT ![t] = where] /\ creators' = creators
      <4>1. CASE Prepared(t) \/ Dropped(t) \/ Begin(t) \/ RunReturns(t)
          BY <4>1 DEF Prepared, Dropped, Begin, RunReturns, Places, AtWork, Working, Ended, AtLock
      <4>2. CASE Reply(t) \/ Drain(t) \/ Apologize(t)
          BY <4>2 DEF Reply, Drain, Apologize, Places, AtWork, Working, AtLock
      <4>3. CASE Finish(t) \/ Apologized(t) \/ Note(t)
          BY <4>3 DEF Finish, Apologized, Note, End, Places, Ended, AtLock
      <4>. QED  BY <2>4, <4>1, <4>2, <4>3
    <3>. QED  BY <3>1, SameQueue
  <2>. QED  BY <1>2, <2>1, <2>2, <2>3, <2>4 DEF TurnStep
<1>3. ASSUME NEW t \in Messages, NEW h \in Threads, NEW kind, Arrive(t, h, kind) PROVE LockInv'
  <2>1. PICK where \in Places \ AtLock :
            at[t] \notin AtLock /\ at' = [at EXCEPT ![t] = where] /\ creators' = creators
      BY <1>3 DEF Arrive, Places, AtWork, Working, AtLock
  <2>. QED  BY <2>1, SameQueue
<1>4. CASE \/ \E h \in Threads : Stop(h)
           \/ StopAll \/ Reload \/ Shutdown \/ UNCHANGED vars
    BY <1>1, <1>4 DEF Stop, StopAll, Reload, Shutdown, vars
<1>. QED  BY <1>2, <1>3, <1>4 DEF Next, Step, Command

LEMMA LockStart == Init => LockInv
<1>. SUFFICES ASSUME Init PROVE LockInv
    OBVIOUS
<1>1. creators = <<>> /\ \A t \in Messages : at[t] = "new"
    BY DEF Init
<1>2. creators \in Seq(Messages) /\ IsInjective(creators) /\ \A t : ~Stands(t, creators)
    BY <1>1 DEF IsInjective, Stands
<1>. QED  BY <1>1, <1>2 DEF Init, LockInv, Places, AtLock

\* One turn at most runs the skill, and the one that the others wait for waits for nobody.
LEMMA QueueServes == LockInv => LockServes
<1>. SUFFICES ASSUME LockInv PROVE LockServes
    OBVIOUS
<1>1. OneCreator
  <2>. DEFINE C == {t \in Messages : at[t] = "creating"}
  <2>1. \A t \in C : t = creators[1]
      BY DEF LockInv
  <2>. HIDE DEF C
  <2>3. C = {} \/ \E t : C = {t}
    <3>1. CASE \E t : t \in C
        BY <2>1, <3>1
    <3>2. CASE ~\E t : t \in C
        BY <3>2
    <3>. QED  BY <3>1, <3>2
  <2>2. Cardinality(C) = 0 \/ Cardinality(C) = 1
      BY <2>3, FS_EmptySet, FS_Singleton
  <2>. QED  BY <2>2 DEF OneCreator, C
<1>2. ASSUME NEW t \in Messages, at[t] = "queued"
      PROVE  \E first \in Messages : creators[1] = first /\ at[first] \in {"queued", "creating"}
  <2>1. Stands(t, creators)
      BY <1>2 DEF LockInv, AtLock
  <2>2. Len(creators) \in Nat /\ 1 \in 1 .. Len(creators)
      BY <2>1, LenProperties DEF LockInv, Stands
  <2>3. creators[1] \in Messages /\ Stands(creators[1], creators)
      BY <2>2 DEF LockInv, Stands
  <2>. QED  BY <2>3 DEF LockInv, AtLock
<1>. QED  BY <1>1, <1>2 DEF LockServes, LockQueue

\* The skill lock of a session is held by one turn at a time, and whatever stops and failures
\* take turns out of its queue, nobody waits for a turn that is gone or waits itself.
THEOREM LockLeavesNobodyBehind == Spec => []LockServes
    BY LockStart, LockStep, QueueServes, PTL DEF Spec

-----------------------------------------------------------------------------
(* Where files go *)

Outbox == [from : Messages \cup {None}, sent : Nat]

AgentType ==
    /\ cache \in [Threads -> Messages \cup {None}]
    /\ agent \in [Messages -> Messages \cup {None}]
    /\ pending \in [Messages -> Messages \cup {None}]
    /\ list \in [Messages -> Seq(Messages)]
    /\ outbox \in [Messages -> Outbox]
    /\ posted \subseteq Events

\* Both have arrived, in one thread.
Together(t, u) == at[t] # "new" /\ at[u] # "new" /\ thread[t] = thread[u]

\* From the start of its run to the last file a turn has the agent it began with.
WithAgent == {"running", "queued", "creating", "settling", "replying", "sending"}

\* The agent cached for a thread was made there.
CachedAtHome ==
    \A h \in Threads : cache[h] # None => at[cache[h]] # "new" /\ thread[cache[h]] = h

\* A turn runs an agent of its own thread, which has begun a list.
AgentAtHome ==
    \A t \in Messages :
        /\ at[t] \in WithAgent => agent[t] # None
        /\ agent[t] # None => pending[agent[t]] # None /\ Together(agent[t], t)

\* That list was begun by a turn of the agent's thread.
ListAtHome == \A a \in Messages : pending[a] # None => Together(pending[a], a)

\* What stands in a list was attached in the thread of the turn that began it.
FilesAtHome == \A p \in Messages, i \in Nat : i \in 1..Len(list[p]) => Together(list[p][i], p)

\* A turn sends from a list of its own thread.
OutboxAtHome == \A t \in Messages : outbox[t].from # None => Together(outbox[t].from, t)

\* What was sent.
SentAtHome == \A e \in posted : e.what = "file" => Together(e.of, e.file)

\* Inductive, next to StopInv.
FilesInv == /\ AgentType /\ CachedAtHome /\ AgentAtHome /\ ListAtHome
            /\ FilesAtHome /\ OutboxAtHome /\ SentAtHome

\* A message that has arrived stays in its thread.
Settled == \A t \in Messages : at[t] # "new" => at'[t] # "new" /\ thread'[t] = thread[t]

LEMMA SettledStep == StopInv /\ [Next]_vars => Settled
<1>. SUFFICES ASSUME StopInv, [Next]_vars, NEW u \in Messages, at[u] # "new"
              PROVE  at'[u] # "new" /\ thread'[u] = thread[u]
    BY DEF Settled
<1>1. ASSUME NEW t \in Messages, TurnStep(t) PROVE at'[u] # "new" /\ thread' = thread
  <2>1. PICK where \in Places \ {"new"} :
            at' = at \/ at' = [at EXCEPT ![t] = where]
    <3>1. CASE Cancelled(t)
        BY <3>1 DEF Cancelled, End, Places, AtWork, Working, Ended
    <3>2. CASE Prepared(t) \/ Dropped(t) \/ Begin(t) \/ AttachFile(t) \/ CallCreator(t)
        BY <3>2 DEF Prepared, Dropped, Begin, AttachFile, CallCreator, Places, AtWork, Working, Ended
    <3>3. CASE CreatorRuns(t) \/ CreatorReturns(t) \/ RunReturns(t) \/ Raise(t) \/ Reply(t)
        BY <3>3 DEF CreatorRuns, CreatorReturns, RunReturns, Raise, Reply, Places, AtWork, Working
    <3>4. CASE Drain(t) \/ SendFile(t) \/ Finish(t) \/ Apologize(t) \/ Apologized(t) \/ Note(t)
        BY <3>4 DEF Drain, SendFile, Finish, Apologize, Apologized, Note, End, Places, AtWork, Working, Ended
    <3>. QED  BY <1>1, <3>1, <3>2, <3>3, <3>4 DEF TurnStep
  <2>2. thread' = thread
    <3>1. CASE Cancelled(t) \/ Prepared(t) \/ Dropped(t) \/ Begin(t) \/ AttachFile(t) \/ CallCreator(t)
        BY <3>1 DEF Cancelled, Prepared, Dropped, Begin, AttachFile, CallCreator
    <3>2. CASE CreatorRuns(t) \/ CreatorReturns(t) \/ RunReturns(t) \/ Raise(t) \/ Reply(t)
        BY <3>2 DEF CreatorRuns, CreatorReturns, RunReturns, Raise, Reply
    <3>3. CASE Drain(t) \/ SendFile(t) \/ Finish(t) \/ Apologize(t) \/ Apologized(t) \/ Note(t)
        BY <3>3 DEF Drain, SendFile, Finish, Apologize, Apologized, Note
    <3>. QED  BY <1>1, <3>1, <3>2, <3>3 DEF TurnStep
  <2>. QED  BY <2>1, <2>2 DEF StopInv, TurnType
<1>2. ASSUME NEW t \in Messages, NEW h \in Threads, NEW kind, Arrive(t, h, kind)
      PROVE  at'[u] # "new" /\ thread'[u] = thread[u]
  <2>1. at[t] = "new" /\ thread' = [thread EXCEPT ![t] = h]
        /\ at' = [at EXCEPT ![t] = IF kind = "text" THEN "starting" ELSE "preparing"]
      BY <1>2 DEF Arrive
  <2>. QED  BY <2>1 DEF StopInv, TurnType
<1>3. CASE \/ \E h \in Threads : Stop(h)
           \/ StopAll \/ Reload \/ Shutdown \/ UNCHANGED vars
    BY <1>3 DEF Stop, StopAll, Reload, Shutdown, vars
<1>. QED  BY <1>1, <1>2, <1>3 DEF Next, Step, Command

\* Together in the state after a step.
TogetherNext(t, u) == at'[t] # "new" /\ at'[u] # "new" /\ thread'[t] = thread'[u]

LEMMA TogetherStays ==
    ASSUME Settled, NEW t \in Messages, NEW u \in Messages, Together(t, u) PROVE TogetherNext(t, u)
    BY DEF Settled, Together, TogetherNext

\* Each part lasts as long as what it speaks of.
LEMMA CachedStays ==
    ASSUME FilesInv, Settled, NEW h \in Threads, cache[h] # None
    PROVE  at'[cache[h]] # "new" /\ thread'[cache[h]] = h
<1>1. cache[h] \in Messages
    BY DEF FilesInv, AgentType
<1>2. at[cache[h]] # "new" /\ thread[cache[h]] = h
    BY DEF FilesInv, CachedAtHome
<1>. QED  BY <1>1, <1>2 DEF Settled

LEMMA AgentStays ==
    ASSUME FilesInv, Settled, NEW t \in Messages, agent[t] # None
    PROVE  agent[t] \in Messages /\ pending[agent[t]] \in Messages /\ TogetherNext(agent[t], t)
<1>1. agent[t] \in Messages /\ pending[agent[t]] # None /\ Together(agent[t], t)
    BY DEF FilesInv, AgentType, AgentAtHome
<1>2. pending[agent[t]] \in Messages
    BY <1>1 DEF FilesInv, AgentType
<1>. QED  BY <1>1, <1>2, TogetherStays

LEMMA ListStays ==
    ASSUME FilesInv, Settled, NEW a \in Messages, pending[a] # None
    PROVE  pending[a] \in Messages /\ TogetherNext(pending[a], a)
<1>1. pending[a] \in Messages /\ Together(pending[a], a)
    BY DEF FilesInv, AgentType, ListAtHome
<1>. QED  BY <1>1, TogetherStays

LEMMA FilesStayAtHome ==
    ASSUME FilesInv, Settled, NEW p \in Messages, NEW i \in Nat, i \in 1..Len(list[p])
    PROVE  list[p][i] \in Messages /\ TogetherNext(list[p][i], p)
<1>1. list[p] \in Seq(Messages)
    BY DEF FilesInv, AgentType
<1>2. list[p][i] \in Messages
    BY <1>1
<1>3. Together(list[p][i], p)
    BY DEF FilesInv, FilesAtHome
<1>. QED  BY <1>2, <1>3, TogetherStays

LEMMA OutboxStays ==
    ASSUME FilesInv, Settled, NEW t \in Messages, outbox[t].from # None
    PROVE  TogetherNext(outbox[t].from, t)
<1>1. outbox[t].from \in Messages
    BY DEF FilesInv, AgentType, Outbox
<1>2. Together(outbox[t].from, t)
    BY DEF FilesInv, OutboxAtHome
<1>. QED  BY <1>1, <1>2, TogetherStays

LEMMA SentStays ==
    ASSUME FilesInv, Settled, NEW e \in posted, e.what = "file" PROVE TogetherNext(e.of, e.file)
<1>1. e \in Events
    BY DEF FilesInv, AgentType
<1>2. e.of \in Messages /\ e.file \in Messages
    BY <1>1 DEF Events, Event, FileEvent
<1>3. Together(e.of, e.file)
    BY DEF FilesInv, SentAtHome
<1>. QED  BY <1>2, <1>3, TogetherStays

\* As a whole.
LEMMA CachedKept == FilesInv /\ Settled /\ cache' = cache => CachedAtHome'
    BY CachedStays DEF CachedAtHome

LEMMA AgentKept ==
    ASSUME FilesInv, Settled, UNCHANGED <<agent, pending>>,
           \A t \in Messages : at'[t] \in WithAgent => at[t] \in WithAgent
    PROVE  AgentAtHome'
<1>1. \A t \in Messages : at'[t] \in WithAgent => agent'[t] # None
    BY DEF FilesInv, AgentAtHome
<1>2. \A t \in Messages : agent[t] # None => pending[agent[t]] # None
    BY DEF FilesInv, AgentAtHome
<1>. QED  BY <1>1, <1>2, AgentStays DEF AgentAtHome, Together, TogetherNext

LEMMA ListKept == FilesInv /\ Settled /\ pending' = pending => ListAtHome'
    BY ListStays DEF ListAtHome, Together, TogetherNext

LEMMA FilesKept == FilesInv /\ Settled /\ list' = list => FilesAtHome'
    BY FilesStayAtHome DEF FilesAtHome, Together, TogetherNext

LEMMA OutboxKept == FilesInv /\ Settled /\ outbox' = outbox => OutboxAtHome'
    BY OutboxStays DEF OutboxAtHome, Together, TogetherNext

LEMMA SentKept ==
    FilesInv /\ Settled /\ (\A e \in posted' \ posted : e.what # "file") => SentAtHome'
    BY SentStays DEF SentAtHome, Together, TogetherNext

\* A step in which no agent, list or outbox changes and no file is sent.
LEMMA SameAgents ==
    ASSUME FilesInv, Settled, UNCHANGED agents, posted' \subseteq Events,
           \A t \in Messages : at'[t] \in WithAgent => at[t] \in WithAgent,
           \A e \in posted' \ posted : e.what # "file"
    PROVE  FilesInv'
<1>1. UNCHANGED <<cache, agent, pending, list, outbox>>
    BY DEF agents
<1>2. AgentType'
    BY <1>1 DEF FilesInv, AgentType
<1>3. CachedAtHome' /\ AgentAtHome' /\ ListAtHome'
    BY <1>1, CachedKept, AgentKept, ListKept
<1>4. FilesAtHome' /\ OutboxAtHome' /\ SentAtHome'
    BY <1>1, FilesKept, OutboxKept, SentKept
<1>. QED  BY <1>2, <1>3, <1>4 DEF FilesInv

\* A run begins: its agent is the thread's, and the agent's list is its own.
LEMMA BeginFiles ==
    ASSUME StopInv, FilesInv, Settled, NEW t \in Messages, Begin(t) PROVE FilesInv'
<1>. DEFINE key == thread[t]
            mine == IF cache[key] = None THEN t ELSE cache[key]
<1>1. /\ at[t] = "starting" /\ at' = [at EXCEPT ![t] = "running"]
      /\ cache' = [cache EXCEPT ![key] = mine]
      /\ agent' = [agent EXCEPT ![t] = mine]
      /\ pending' = [pending EXCEPT ![mine] = t]
      /\ UNCHANGED <<thread, list, outbox, posted>>
    BY DEF Begin, CacheKey
<1>2. key \in Threads
    BY <1>1 DEF StopInv, TurnType, AtWork, Working
<1>3. mine \in Messages /\ at[mine] # "new" /\ thread[mine] = key
    BY <1>1, <1>2 DEF FilesInv, AgentType, CachedAtHome
<1>4. mine # None /\ t # None
    BY <1>3, MatrixConstants
<1>5. TogetherNext(mine, t) /\ TogetherNext(t, mine)
    BY <1>1, <1>3 DEF Settled, TogetherNext
<1>. HIDE DEF mine, key
<1>6. AgentType'
    BY <1>1, <1>2, <1>3 DEF FilesInv, AgentType
<1>7. CachedAtHome'
  <2>. SUFFICES ASSUME NEW h \in Threads, cache'[h] # None
                PROVE  at'[cache'[h]] # "new" /\ thread'[cache'[h]] = h
      BY DEF CachedAtHome
  <2>1. CASE h = key
    <3>1. cache'[h] = mine
        BY <1>1, <1>2, <2>1 DEF FilesInv, AgentType
    <3>. QED  BY <1>3, <2>1, <3>1 DEF Settled
  <2>2. CASE h # key
    <3>1. cache'[h] = cache[h]
        BY <1>1, <1>2, <2>2 DEF FilesInv, AgentType
    <3>. QED  BY <3>1, CachedStays
  <2>. QED  BY <2>1, <2>2
<1>8. ListAtHome'
  <2>. SUFFICES ASSUME NEW a \in Messages, pending'[a] # None
                PROVE  TogetherNext(pending'[a], a)
      BY DEF ListAtHome, Together, TogetherNext
  <2>1. CASE a = mine
    <3>1. pending'[a] = t
        BY <1>1, <1>3, <2>1 DEF FilesInv, AgentType
    <3>. QED  BY <1>5, <2>1, <3>1
  <2>2. CASE a # mine
    <3>1. pending'[a] = pending[a]
        BY <1>1, <1>3, <2>2 DEF FilesInv, AgentType
    <3>. QED  BY <3>1, ListStays
  <2>. QED  BY <2>1, <2>2
<1>9. AgentAtHome'
  <2>. SUFFICES ASSUME NEW u \in Messages
                PROVE  /\ at'[u] \in WithAgent => agent'[u] # None
                       /\ agent'[u] # None => pending'[agent'[u]] # None /\ TogetherNext(agent'[u], u)
      BY DEF AgentAtHome, Together, TogetherNext
  <2>1. CASE u = t
    <3>1. agent'[u] = mine /\ pending'[mine] = t
        BY <1>1, <1>3, <2>1 DEF FilesInv, AgentType
    <3>. QED  BY <1>4, <1>5, <2>1, <3>1
  <2>2. CASE u # t
    <3>1. agent'[u] = agent[u] /\ at'[u] = at[u]
        BY <1>1, <2>2 DEF FilesInv, AgentType, StopInv, TurnType
    <3>2. at'[u] \in WithAgent => agent'[u] # None
        BY <3>1 DEF FilesInv, AgentAtHome
    <3>3. ASSUME agent[u] # None PROVE pending'[agent[u]] # None /\ TogetherNext(agent[u], u)
      <4>1. agent[u] \in Messages /\ TogetherNext(agent[u], u) /\ pending[agent[u]] # None
          BY <3>3, AgentStays DEF FilesInv, AgentAtHome
      <4>2. pending'[agent[u]] = t \/ pending'[agent[u]] = pending[agent[u]]
          BY <1>1, <4>1 DEF FilesInv, AgentType
      <4>. QED  BY <1>4, <4>1, <4>2
    <3>. QED  BY <3>1, <3>2, <3>3
  <2>. QED  BY <2>1, <2>2
<1>10. FilesAtHome' /\ OutboxAtHome' /\ SentAtHome'
  <2>1. posted' \ posted = {}
      BY <1>1
  <2>. QED  BY <1>1, <2>1, FilesKept, OutboxKept, SentKept
<1>. QED  BY <1>6, <1>7, <1>8, <1>9, <1>10 DEF FilesInv

\* A file goes into the list that the turn's agent has begun last.
LEMMA AttachFiles ==
    ASSUME StopInv, FilesInv, Settled, NEW t \in Messages, AttachFile(t) PROVE FilesInv'
<1>. DEFINE p == pending[agent[t]]
<1>1. /\ at[t] = "running" /\ list' = [list EXCEPT ![p] = Append(list[p], t)]
      /\ UNCHANGED <<at, thread, cache, agent, pending, outbox, posted>>
    BY DEF AttachFile
<1>2. agent[t] # None
    BY <1>1 DEF FilesInv, AgentAtHome, WithAgent
<1>3. /\ agent[t] \in Messages /\ p \in Messages
      /\ TogetherNext(agent[t], t) /\ TogetherNext(p, agent[t])
    BY <1>2, AgentStays, ListStays DEF FilesInv, AgentAtHome
<1>4. TogetherNext(t, p)
    BY <1>3 DEF TogetherNext
<1>. HIDE DEF p
<1>5. list[p] \in Seq(Messages)
    BY <1>3 DEF FilesInv, AgentType
<1>6. AgentType'
  <2>1. Append(list[p], t) \in Seq(Messages)
      BY <1>5
  <2>. QED  BY <1>1, <2>1 DEF FilesInv, AgentType
<1>7. FilesAtHome'
  <2>. SUFFICES ASSUME NEW q \in Messages, NEW i \in Nat, i \in 1..Len(list'[q])
                PROVE  TogetherNext(list'[q][i], q)
      BY DEF FilesAtHome, Together, TogetherNext
  <2>1. CASE q # p
    <3>1. list'[q] = list[q]
        BY <1>1, <2>1 DEF FilesInv, AgentType
    <3>. QED  BY <3>1, FilesStayAtHome
  <2>2. CASE q = p
    <3>1. list'[q] = Append(list[p], t)
        BY <1>1, <1>3, <2>2 DEF FilesInv, AgentType
    <3>2. CASE i = Len(list[p]) + 1
      <4>1. list'[q][i] = t
          BY <1>5, <3>1, <3>2
      <4>. QED  BY <1>4, <2>2, <4>1
    <3>3. CASE i # Len(list[p]) + 1
      <4>1. i \in 1..Len(list[p]) /\ list'[q][i] = list[p][i]
          BY <1>5, <3>1, <3>3
      <4>. QED  BY <1>3, <2>2, <4>1, FilesStayAtHome
    <3>. QED  BY <3>2, <3>3
  <2>. QED  BY <2>1, <2>2
<1>8. CachedAtHome' /\ AgentAtHome' /\ ListAtHome' /\ OutboxAtHome' /\ SentAtHome'
  <2>1. posted' \ posted = {}
      BY <1>1
  <2>. QED  BY <1>1, <2>1, CachedKept, AgentKept, ListKept, OutboxKept, SentKept
<1>. QED  BY <1>6, <1>7, <1>8 DEF FilesInv

\* A turn's outbox changes, to nothing or to a list of its thread.
LEMMA OutboxFiles ==
    ASSUME FilesInv, Settled, NEW t \in Messages, NEW box \in Outbox,
           outbox' = [outbox EXCEPT ![t] = box],
           box.from # None => TogetherNext(box.from, t)
    PROVE  OutboxAtHome' /\ outbox' \in [Messages -> Outbox]
<1>1. outbox \in [Messages -> Outbox]
    BY DEF FilesInv, AgentType
<1>2. ASSUME NEW u \in Messages, outbox'[u].from # None PROVE TogetherNext(outbox'[u].from, u)
  <2>1. CASE u = t
      BY <1>1, <1>2, <2>1
  <2>2. CASE u # t
    <3>1. outbox'[u] = outbox[u]
        BY <1>1, <2>2
    <3>. QED  BY <1>2, <3>1, OutboxStays
  <2>. QED  BY <2>1, <2>2
<1>3. outbox' \in [Messages -> Outbox]
    BY <1>1
<1>. QED  BY <1>2, <1>3 DEF OutboxAtHome, Together, TogetherNext

\* The reply is out: the turn sends from the list its agent has now.
LEMMA DrainFiles ==
    ASSUME StopInv, FilesInv, Settled, NEW t \in Messages, Drain(t) PROVE FilesInv'
<1>1. /\ at[t] = "replying" /\ at' = [at EXCEPT ![t] = "sending"]
      /\ UNCHANGED <<thread, cache, agent, pending, list, posted>>
    BY DEF Drain
<1>2. agent[t] # None
    BY <1>1 DEF FilesInv, AgentAtHome, WithAgent
<1>3. PICK p \in Messages : p = pending[agent[t]] /\ TogetherNext(p, t)
  <2>1. /\ agent[t] \in Messages /\ pending[agent[t]] \in Messages
        /\ TogetherNext(agent[t], t) /\ TogetherNext(pending[agent[t]], agent[t])
      BY <1>2, AgentStays, ListStays DEF FilesInv, AgentAtHome
  <2>. QED  BY <2>1 DEF TogetherNext
<1>4. PICK from \in {None, p} : outbox' = [outbox EXCEPT ![t].from = from]
    BY <1>3 DEF Drain
<1>. DEFINE box == [outbox[t] EXCEPT !.from = from]
<1>5. outbox[t] \in Outbox
    BY DEF FilesInv, AgentType
<1>6. box \in Outbox /\ box.from = from
    BY <1>4, <1>5 DEF Outbox
<1>7. outbox' = [outbox EXCEPT ![t] = box]
    BY <1>4
<1>. HIDE DEF box
<1>8. OutboxAtHome' /\ outbox' \in [Messages -> Outbox]
    BY <1>3, <1>4, <1>6, <1>7, OutboxFiles
<1>9. AgentType'
    BY <1>1, <1>8 DEF FilesInv, AgentType
<1>10. \A u \in Messages : at'[u] \in WithAgent => at[u] \in WithAgent
    BY <1>1 DEF StopInv, TurnType, WithAgent
<1>11. CachedAtHome' /\ AgentAtHome' /\ ListAtHome' /\ FilesAtHome' /\ SentAtHome'
  <2>1. posted' \ posted = {}
      BY <1>1
  <2>. QED  BY <1>1, <1>10, <2>1, CachedKept, AgentKept, ListKept, FilesKept, SentKept
<1>. QED  BY <1>8, <1>9, <1>11 DEF FilesInv

\* A file is sent into the thread of the turn that sends it: the one where it was attached.
LEMMA SendFiles ==
    ASSUME StopInv, FilesInv, Settled, NEW t \in Messages, SendFile(t) PROVE FilesInv'
<1>1. /\ at[t] = "sending" /\ Unsent(t)
      /\ outbox' = [outbox EXCEPT ![t].sent = outbox[t].sent + 1]
      /\ UNCHANGED <<at, thread, cache, agent, pending, list>>
    BY DEF SendFile
<1>2. outbox[t] \in Outbox
    BY DEF FilesInv, AgentType
<1>3. outbox[t].from # None /\ outbox[t].sent < Len(list[outbox[t].from])
    BY <1>1 DEF Unsent
<1>4. outbox[t].from \in Messages /\ outbox[t].sent \in Nat /\ TogetherNext(outbox[t].from, t)
    BY <1>2, <1>3, OutboxStays DEF Outbox
<1>. DEFINE box == [outbox[t] EXCEPT !.sent = outbox[t].sent + 1]
            i == outbox[t].sent + 1
            p == outbox[t].from
            f == list[p][i]
<1>5. box \in Outbox /\ box.from = outbox[t].from
    BY <1>2 DEF Outbox
<1>6. outbox' = [outbox EXCEPT ![t] = box]
    BY <1>1
<1>7. OutboxAtHome' /\ outbox' \in [Messages -> Outbox]
  <2>. HIDE DEF box
  <2>. QED  BY <1>4, <1>5, <1>6, OutboxFiles
<1>8. i \in Nat /\ i \in 1..Len(list[p])
  <2>1. list[p] \in Seq(Messages)
      BY <1>4 DEF FilesInv, AgentType
  <2>. QED  BY <1>3, <1>4, <2>1
<1>9. f \in Messages /\ TogetherNext(f, p)
  <2>1. p \in Messages
      BY <1>4
  <2>. HIDE DEF i, p
  <2>. QED  BY <1>8, <2>1, FilesStayAtHome
<1>10. posted' = posted \cup {FileEvent(t, f)} \/ posted' = posted
    BY DEF SendFile, Post
<1>11. TogetherNext(t, f)
    BY <1>4, <1>9 DEF TogetherNext
<1>. HIDE DEF f, i, p, box
<1>12. FileEvent(t, f) \in Events /\ FileEvent(t, f).of = t /\ FileEvent(t, f).file = f
    BY <1>9 DEF Events, FileEvent
<1>13. SentAtHome'
  <2>1. ASSUME NEW e \in posted', e.what = "file" PROVE TogetherNext(e.of, e.file)
    <3>1. CASE e \in posted
        BY <2>1, <3>1, SentStays
    <3>2. CASE e = FileEvent(t, f)
        BY <1>11, <1>12, <3>2
    <3>. QED  BY <1>10, <2>1, <3>1, <3>2
  <2>. QED  BY <2>1 DEF SentAtHome, Together, TogetherNext
<1>14. AgentType'
    BY <1>1, <1>7, <1>10, <1>12 DEF FilesInv, AgentType
<1>15. CachedAtHome' /\ AgentAtHome' /\ ListAtHome' /\ FilesAtHome'
    BY <1>1, CachedKept, AgentKept, ListKept, FilesKept
<1>. QED  BY <1>7, <1>13, <1>14, <1>15 DEF FilesInv

\* A task ends: it has no agent and sends nothing any more.
LEMMA EndFiles ==
    ASSUME StopInv, FilesInv, Settled, NEW t \in Messages, NEW how \in Ended, End(t, how),
           UNCHANGED <<cache, pending, list>>, posted' \subseteq Events,
           \A e \in posted' \ posted : e.what # "file"
    PROVE  FilesInv'
<1>. DEFINE box == [from |-> None, sent |-> 0]
<1>1. at' = [at EXCEPT ![t] = how] /\ agent' = [agent EXCEPT ![t] = None]
      /\ outbox' = [outbox EXCEPT ![t] = box]
    BY DEF End
<1>2. box \in Outbox /\ box.from = None
    BY DEF Outbox
<1>. HIDE DEF box
<1>3. OutboxAtHome' /\ outbox' \in [Messages -> Outbox]
    BY <1>1, <1>2, OutboxFiles
<1>4. AgentType'
    BY <1>1, <1>3 DEF FilesInv, AgentType
<1>5. AgentAtHome'
  <2>. SUFFICES ASSUME NEW u \in Messages
                PROVE  /\ at'[u] \in WithAgent => agent'[u] # None
                       /\ agent'[u] # None => pending'[agent'[u]] # None /\ TogetherNext(agent'[u], u)
      BY DEF AgentAtHome, Together, TogetherNext
  <2>1. CASE u = t
    <3>1. at'[u] = how /\ agent'[u] = None
        BY <1>1, <2>1 DEF FilesInv, AgentType, StopInv, TurnType
    <3>. QED  BY <3>1 DEF Ended, WithAgent
  <2>2. CASE u # t
    <3>1. at'[u] = at[u] /\ agent'[u] = agent[u]
        BY <1>1, <2>2 DEF FilesInv, AgentType, StopInv, TurnType
    <3>2. at[u] \in WithAgent => agent[u] # None
        BY DEF FilesInv, AgentAtHome
    <3>3. agent[u] # None => pending[agent[u]] # None /\ TogetherNext(agent[u], u)
        BY AgentStays DEF FilesInv, AgentAtHome
    <3>. QED  BY <3>1, <3>2, <3>3
  <2>. QED  BY <2>1, <2>2
<1>6. CachedAtHome' /\ ListAtHome' /\ FilesAtHome' /\ SentAtHome'
    BY CachedKept, ListKept, FilesKept, SentKept
<1>. QED  BY <1>3, <1>4, <1>5, <1>6 DEF FilesInv

\* The agent cache is emptied.
LEMMA ReloadFiles == ASSUME FilesInv, Settled, Reload PROVE FilesInv'
<1>1. cache' = [h \in Threads |-> None] /\ UNCHANGED <<at, agent, pending, list, outbox, posted>>
    BY DEF Reload
<1>2. AgentType' /\ CachedAtHome'
    BY <1>1 DEF FilesInv, AgentType, CachedAtHome
<1>3. AgentAtHome' /\ ListAtHome' /\ FilesAtHome' /\ OutboxAtHome' /\ SentAtHome'
  <2>1. posted' \ posted = {}
      BY <1>1
  <2>. QED  BY <1>1, <2>1, AgentKept, ListKept, FilesKept, OutboxKept, SentKept
<1>. QED  BY <1>2, <1>3 DEF FilesInv

\* Every other move of a turn leaves agents and files alone.
LEMMA OtherMoves ==
    ASSUME StopInv, FilesInv, Settled, NEW t \in Messages,
           \/ Prepared(t) \/ Dropped(t) \/ CallCreator(t) \/ CreatorRuns(t) \/ CreatorReturns(t)
           \/ RunReturns(t) \/ Raise(t) \/ Reply(t) \/ Apologize(t)
    PROVE  FilesInv'
<1>1. UNCHANGED agents
    BY DEF Prepared, Dropped, CallCreator, CreatorRuns, CreatorReturns, RunReturns, Raise, Reply, Apologize
<1>2. PICK where \in Places : at' = [at EXCEPT ![t] = where] /\ (where \in WithAgent => at[t] \in WithAgent)
  <2>1. CASE Prepared(t) \/ Dropped(t) \/ Raise(t) \/ Apologize(t)
      BY <2>1 DEF Prepared, Dropped, Raise, Apologize, Places, AtWork, Working, Ended, WithAgent
  <2>2. CASE CallCreator(t) \/ CreatorRuns(t) \/ CreatorReturns(t)
      BY <2>2 DEF CallCreator, CreatorRuns, CreatorReturns, Places, AtWork, Working, WithAgent
  <2>3. CASE RunReturns(t) \/ Reply(t)
      BY <2>3 DEF RunReturns, Reply, Places, AtWork, Working, WithAgent
  <2>. QED  BY <2>1, <2>2, <2>3
<1>3. \A u \in Messages : at'[u] \in WithAgent => at[u] \in WithAgent
    BY <1>2 DEF StopInv, TurnType
<1>4. PICK what \in {"reply", "error"} : posted' \subseteq posted \cup {Event(t, what)}
  <2>1. CASE Reply(t) \/ Apologize(t)
      BY <2>1 DEF Reply, Apologize, Post
  <2>2. CASE \/ Prepared(t) \/ Dropped(t) \/ CallCreator(t) \/ CreatorRuns(t) \/ CreatorReturns(t)
             \/ RunReturns(t) \/ Raise(t)
      BY <2>2 DEF Prepared, Dropped, CallCreator, CreatorRuns, CreatorReturns, RunReturns, Raise
  <2>. QED  BY <2>1, <2>2
<1>5. Event(t, what) \in Events /\ Event(t, what).what # "file"
    BY DEF Events, Event
<1>6. posted' \subseteq Events /\ \A e \in posted' \ posted : e.what # "file"
    BY <1>4, <1>5 DEF FilesInv, AgentType
<1>. QED  BY <1>1, <1>3, <1>6, SameAgents

\* A step that moves no file: what was posted stays.
LEMMA NothingPosted ==
    ASSUME FilesInv, posted' = posted
    PROVE  posted' \subseteq Events /\ \A e \in posted' \ posted : e.what # "file"
    BY DEF FilesInv, AgentType

\* A cancellation is caught, or ends the task.
LEMMA CancelledFiles ==
    ASSUME StopInv, FilesInv, Settled, NEW t \in Messages, Cancelled(t) PROVE FilesInv'
<1>1. UNCHANGED <<cache, pending, list, posted>>
    BY DEF Cancelled
<1>2. CASE End(t, "stopped")
    BY <1>1, <1>2, EndFiles, NothingPosted DEF Ended
<1>3. CASE at' = [at EXCEPT ![t] = "noting"] /\ UNCHANGED <<agent, outbox>>
  <2>1. \A u \in Messages : at'[u] \in WithAgent => at[u] \in WithAgent
      BY <1>3 DEF StopInv, TurnType, WithAgent
  <2>2. UNCHANGED agents
      BY <1>1, <1>3 DEF agents
  <2>. QED  BY <1>1, <2>1, <2>2, SameAgents, NothingPosted
<1>. QED  BY <1>2, <1>3 DEF Cancelled

\* The ends of a task.
LEMMA EndingFiles ==
    ASSUME StopInv, FilesInv, Settled, NEW t \in Messages, Finish(t) \/ Apologized(t) \/ Note(t)
    PROVE  FilesInv'
<1>1. CASE Finish(t) \/ Apologized(t)
  <2>1. End(t, "done") /\ UNCHANGED <<cache, pending, list, posted>>
      BY <1>1 DEF Finish, Apologized
  <2>. QED  BY <2>1, EndFiles, NothingPosted DEF Ended
<1>2. CASE Note(t)
  <2>1. End(t, "stopped") /\ UNCHANGED <<cache, pending, list>> /\ posted' \subseteq posted \cup {Event(t, "note")}
      BY <1>2 DEF Note, Post
  <2>2. Event(t, "note") \in Events /\ Event(t, "note").what # "file"
      BY DEF Events, Event
  <2>3. posted' \subseteq Events /\ \A e \in posted' \ posted : e.what # "file"
      BY <2>1, <2>2 DEF FilesInv, AgentType
  <2>. QED  BY <2>1, <2>3, EndFiles DEF Ended
<1>. QED  BY <1>1, <1>2

\* Commands and arrivals.
LEMMA CommandFiles ==
    ASSUME StopInv, FilesInv, Settled, Command \/ UNCHANGED vars PROVE FilesInv'
<1>1. ASSUME NEW t \in Messages, NEW h \in Threads, NEW kind, Arrive(t, h, kind) PROVE FilesInv'
  <2>1. at' = [at EXCEPT ![t] = IF kind = "text" THEN "starting" ELSE "preparing"]
        /\ UNCHANGED agents /\ posted' = posted
      BY <1>1 DEF Arrive
  <2>2. \A u \in Messages : at'[u] \in WithAgent => at[u] \in WithAgent
      BY <2>1 DEF StopInv, TurnType, WithAgent
  <2>. QED  BY <2>1, <2>2, SameAgents, NothingPosted
<1>2. CASE (\E h \in Threads : Stop(h)) \/ StopAll \/ Shutdown \/ UNCHANGED vars
  <2>1. UNCHANGED agents /\ posted' = posted /\ at' = at
      BY <1>2 DEF Stop, StopAll, Shutdown, vars, agents
  <2>. QED  BY <2>1, SameAgents, NothingPosted
<1>. QED  BY <1>1, <1>2, ReloadFiles DEF Command

LEMMA FilesStep == StopInv /\ FilesInv /\ [Next]_vars => FilesInv'
<1>. SUFFICES ASSUME StopInv, FilesInv, [Next]_vars PROVE FilesInv'
    OBVIOUS
<1>1. Settled
    BY SettledStep
<1>2. ASSUME NEW t \in Messages, TurnStep(t) PROVE FilesInv'
    BY <1>1, <1>2, CancelledFiles, OtherMoves, BeginFiles, AttachFiles, DrainFiles, SendFiles, EndingFiles
       DEF TurnStep
<1>. QED  BY <1>1, <1>2, CommandFiles DEF Next, Step

LEMMA FilesStart == Init => FilesInv
<1>. SUFFICES ASSUME Init PROVE FilesInv
    OBVIOUS
<1>1. [from |-> None, sent |-> 0] \in Outbox
    BY DEF Outbox
<1>2. AgentType
    BY <1>1 DEF Init, AgentType
<1>3. CachedAtHome /\ ListAtHome /\ OutboxAtHome /\ SentAtHome
    BY DEF Init, CachedAtHome, ListAtHome, OutboxAtHome, SentAtHome
<1>4. AgentAtHome
    BY DEF Init, AgentAtHome, WithAgent
<1>5. FilesAtHome
  <2>1. \A p \in Messages : list[p] = <<>>
      BY DEF Init
  <2>. QED  BY <2>1 DEF FilesAtHome
<1>. QED  BY <1>2, <1>3, <1>4, <1>5 DEF FilesInv

\* A file is only ever sent into the thread whose turn attached it, although turns of a thread
\* share an agent, a later turn takes over its queue, and agents of several threads work at once.
THEOREM FilesStay == Spec => []FilesStayInThread
<1>1. FilesInv => FilesStayInThread
    BY DEF FilesInv, SentAtHome, Together, FilesStayInThread
<1>. QED  BY StopStart, StopStep, FilesStart, FilesStep, <1>1, PTL DEF Spec

-----------------------------------------------------------------------------
(* Types, and how far a turn has got with the files it sends *)

EmptyBox == [from |-> None, sent |-> 0]

\* A list that a turn sends from has as many files as it has sent.
Covered(o, files) == o.from # None => files[o.from] # <<>> /\ o.sent <= Len(files[o.from])

\* A turn has an outbox while it sends and while it may leave a note instead.
BoxInv ==
    /\ \A t \in Messages : outbox[t] = EmptyBox \/ at[t] \in {"sending", "noting"}
    /\ \A t \in Messages : Covered(outbox[t], list)
    /\ log \in [Messages -> SUBSET {"turn", "error"}]

\* Files are added to the lists and never taken out of them.
LEMMA ListsGrow ==
    ASSUME FilesInv, [Next]_vars
    PROVE  \A p \in Messages : list[p] \in Seq(Messages) /\ list'[p] \in Seq(Messages)
                              /\ Len(list'[p]) >= Len(list[p])
<1>1. ASSUME NEW t \in Messages, AttachFile(t), NEW p \in Messages
      PROVE  list[p] \in Seq(Messages) /\ list'[p] \in {list[p], Append(list[p], t)}
    BY <1>1 DEF AttachFile, FilesInv, AgentType
<1>2. CASE UNCHANGED list
    BY <1>2 DEF FilesInv, AgentType
<1>3. CASE \E t \in Messages : AttachFile(t)
  <2>1. PICK t \in Messages : AttachFile(t)
      BY <1>3
  <2>2. ASSUME NEW before \in Seq(Messages)
        PROVE  Append(before, t) \in Seq(Messages) /\ Len(Append(before, t)) >= Len(before)
      OBVIOUS
  <2>3. ASSUME NEW p \in Messages
        PROVE  list[p] \in Seq(Messages) /\ list'[p] \in Seq(Messages) /\ Len(list'[p]) >= Len(list[p])
    <3>1. PICK before \in Seq(Messages) : before = list[p] /\ list'[p] \in {before, Append(before, t)}
        BY <1>1, <2>1, <2>3
    <3>2. Len(before) >= Len(before)
        OBVIOUS
    <3>3. Append(before, t) \in Seq(Messages) /\ Len(Append(before, t)) >= Len(before)
        BY <2>2
    <3>. QED  BY <3>1, <3>2, <3>3, Zenon
  <2>. QED  BY <2>3
<1>4. ASSUME ~\E t \in Messages : AttachFile(t) PROVE UNCHANGED list
  <2>1. ASSUME NEW t \in Messages, TurnStep(t) PROVE UNCHANGED list
      BY <1>4, <2>1 DEF TurnStep, Cancelled, Prepared, Dropped, Begin, CallCreator, CreatorRuns, CreatorReturns,
                        RunReturns, Raise, Reply, Drain, SendFile, Finish, Apologize, Apologized, Note, agents
  <2>2. CASE Command
      BY <2>2 DEF Command, Arrive, Stop, StopAll, Reload, Shutdown, agents
  <2>. QED  BY <2>1, <2>2 DEF Next, Step, vars
<1>. QED  BY <1>2, <1>3, <1>4

LEMMA StaysCovered ==
    ASSUME FilesInv, [Next]_vars, NEW o \in Outbox, Covered(o, list)
    PROVE  Covered(o, list')
<1>. SUFFICES ASSUME o.from # None PROVE list'[o.from] # <<>> /\ o.sent <= Len(list'[o.from])
    BY DEF Covered
<1>1. o.from \in Messages /\ o.sent \in Nat
    BY DEF Outbox
<1>2. PICK before \in Seq(Messages) : before = list[o.from]
    BY <1>1 DEF FilesInv, AgentType
<1>3. PICK after \in Seq(Messages) : after = list'[o.from] /\ Len(after) >= Len(before)
    BY <1>1, <1>2, ListsGrow
<1>4. before # <<>> /\ o.sent <= Len(before)
    BY <1>2 DEF Covered
<1>5. Len(before) > 0 /\ Len(after) > 0 /\ o.sent <= Len(after)
    BY <1>1, <1>3, <1>4
<1>. QED  BY <1>3, <1>5

\* What a step does to the outboxes and the places.
LEMMA BoxShape ==
    ASSUME StopInv, FilesInv, BoxInv, [Next]_vars
    PROVE  \/ UNCHANGED <<outbox, at>>
           \/ \E t \in Messages, where \in Places :
                 /\ at' = [at EXCEPT ![t] = where]
                 /\ \/ outbox' = outbox /\ (where = "noting" \/ at[t] \notin {"sending", "noting"})
                    \/ outbox' = [outbox EXCEPT ![t] = EmptyBox]
                    \/ Drain(t) /\ where = "sending"
           \/ \E t \in Messages : SendFile(t)
<1>1. ASSUME NEW t \in Messages, TurnStep(t)
      PROVE  \/ UNCHANGED <<outbox, at>>
             \/ \E where \in Places :
                   /\ at' = [at EXCEPT ![t] = where]
                   /\ \/ outbox' = outbox /\ (where = "noting" \/ at[t] \notin {"sending", "noting"})
                      \/ outbox' = [outbox EXCEPT ![t] = EmptyBox]
                      \/ Drain(t) /\ where = "sending"
             \/ SendFile(t)
  <2>1. CASE Prepared(t) \/ Dropped(t) \/ CallCreator(t) \/ CreatorRuns(t) \/ CreatorReturns(t)
      BY <2>1 DEF Prepared, Dropped, CallCreator, CreatorRuns, CreatorReturns, agents, Places, AtWork, Working, Ended
  <2>2. CASE RunReturns(t) \/ Raise(t) \/ Reply(t) \/ Apologize(t) \/ Begin(t)
      BY <2>2 DEF RunReturns, Raise, Reply, Apologize, Begin, agents, Places, AtWork, Working, Ended
  <2>3. CASE AttachFile(t)
      BY <2>3 DEF AttachFile
  <2>4. CASE Finish(t) \/ Apologized(t) \/ Note(t)
      BY <2>4 DEF Finish, Apologized, Note, End, EmptyBox, Places, Ended
  <2>5. CASE Cancelled(t)
      BY <2>5 DEF Cancelled, End, EmptyBox, Places, Ended, AtWork
  <2>6. CASE Drain(t)
      BY <2>6 DEF Drain, Places, AtWork
  <2>. QED  BY <1>1, <2>1, <2>2, <2>3, <2>4, <2>5, <2>6 DEF TurnStep
<1>2. ASSUME NEW t \in Messages, NEW h \in Threads, NEW kind, Arrive(t, h, kind)
      PROVE  outbox' = outbox /\ at[t] \notin {"sending", "noting"}
             /\ \E where \in Places : at' = [at EXCEPT ![t] = where]
    BY <1>2 DEF Arrive, agents, Places, AtWork, Working
<1>3. CASE StopAll \/ Reload \/ Shutdown \/ (\E h \in Threads : Stop(h)) \/ UNCHANGED vars
    BY <1>3 DEF StopAll, Reload, Shutdown, Stop, agents, vars
<1>. QED  BY <1>1, <1>2, <1>3 DEF Next, Step, Command

LEMMA BoxStep == StopInv /\ FilesInv /\ BoxInv /\ [Next]_vars => BoxInv'
<1>. SUFFICES ASSUME StopInv, FilesInv, BoxInv, [Next]_vars PROVE BoxInv'
    OBVIOUS
<1>1. \A o \in Outbox : Covered(o, list) => Covered(o, list')
    BY StaysCovered
<1>2. outbox \in [Messages -> Outbox] /\ EmptyBox \in Outbox /\ Covered(EmptyBox, list)
    BY DEF FilesInv, AgentType, EmptyBox, Outbox, Covered
<1>3. ASSUME NEW u \in Messages
      PROVE  (outbox'[u] = EmptyBox \/ at'[u] \in {"sending", "noting"}) /\ Covered(outbox'[u], list')
  <2>1. outbox[u] = EmptyBox \/ at[u] \in {"sending", "noting"}
      BY <1>3 DEF BoxInv
  <2>2. Covered(outbox[u], list') /\ Covered(EmptyBox, list')
      BY <1>1, <1>2, <1>3 DEF BoxInv
  <2>3. CASE UNCHANGED <<outbox, at>>
      BY <2>1, <2>2, <2>3
  <2>4. ASSUME NEW t \in Messages, NEW where \in Places, at' = [at EXCEPT ![t] = where],
               \/ outbox' = outbox /\ (where = "noting" \/ at[t] \notin {"sending", "noting"})
               \/ outbox' = [outbox EXCEPT ![t] = EmptyBox]
        PROVE  (outbox'[u] = EmptyBox \/ at'[u] \in {"sending", "noting"}) /\ Covered(outbox'[u], list')
    <3>1. at'[u] = (IF u = t THEN where ELSE at[u])
        BY <2>4, <1>3 DEF StopInv, TurnType
    <3>2. outbox'[u] \in {outbox[u], EmptyBox} /\ (u # t => outbox'[u] = outbox[u])
        BY <2>4, <1>2, <1>3
    <3>3. u = t /\ outbox'[u] = outbox[u] /\ outbox[u] # EmptyBox => where = "noting"
        BY <2>1, <2>4, <1>2
    <3>. QED  BY <2>1, <2>2, <3>1, <3>2, <3>3
  <2>5. ASSUME NEW t \in Messages, Drain(t)
        PROVE  (outbox'[u] = EmptyBox \/ at'[u] \in {"sending", "noting"}) /\ Covered(outbox'[u], list')
    <3>1. PICK from : /\ outbox' = [outbox EXCEPT ![t].from = from] /\ at' = [at EXCEPT ![t] = "sending"]
                      /\ at[t] = "replying"
                      /\ from = None \/ (list[from] # <<>> /\ from = pending[agent[t]])
        BY <2>5 DEF Drain
    <3>2. CASE u # t
        BY <2>1, <2>2, <3>1, <3>2, <1>2, <1>3 DEF StopInv, TurnType
    <3>3. CASE u = t
      <4>1. outbox[t] = EmptyBox
          BY <2>1, <3>1, <3>3
      <4>2. outbox'[t] = [from |-> from, sent |-> 0]
          BY <3>1, <4>1, <1>2 DEF EmptyBox
      <4>3. from # None => from \in Messages
        <5>1. agent[t] \in Messages
            BY <2>5, <3>1 DEF FilesInv, AgentAtHome, AgentType, WithAgent
        <5>. QED  BY <3>1, <5>1 DEF FilesInv, AgentType
      <4>4. Covered(outbox'[t], list)
        <5>1. from # None => Len(list[from]) \in Nat
            BY <4>3 DEF FilesInv, AgentType
        <5>2. from # None => list[from] # <<>> /\ 0 <= Len(list[from])
            BY <3>1, <5>1
        <5>. QED  BY <4>2, <5>2 DEF Covered
      <4>5. outbox'[t] \in Outbox
          BY <4>2, <4>3 DEF Outbox
      <4>6. at'[t] = "sending"
          BY <3>1 DEF StopInv, TurnType
      <4>. QED  BY <1>1, <3>3, <4>4, <4>5, <4>6
    <3>. QED  BY <3>2, <3>3
  <2>6. ASSUME NEW t \in Messages, SendFile(t)
        PROVE  (outbox'[u] = EmptyBox \/ at'[u] \in {"sending", "noting"}) /\ Covered(outbox'[u], list')
    <3>1. /\ outbox' = [outbox EXCEPT ![t].sent = @ + 1] /\ at' = at /\ at[t] = "sending"
          /\ outbox[t].from # None /\ outbox[t].sent < Len(list[outbox[t].from])
        BY <2>6 DEF SendFile, Unsent
    <3>2. CASE u # t
        BY <2>1, <2>2, <3>1, <3>2, <1>2, <1>3
    <3>3. CASE u = t
      <4>1. PICK from \in Messages, sent \in Nat : outbox[t] = [from |-> from, sent |-> sent]
          BY <1>2, <3>1 DEF Outbox
      <4>2. outbox'[t] = [from |-> from, sent |-> sent + 1]
          BY <3>1, <4>1, <1>2 DEF Outbox
      <4>3. list[from] # <<>> /\ Len(list[from]) \in Nat /\ sent < Len(list[from]) /\ from # None
          BY <1>2, <3>1, <4>1 DEF BoxInv, Covered, FilesInv, AgentType
      <4>4. sent + 1 <= Len(list[from]) /\ sent + 1 \in Nat
          BY <4>3
      <4>5. Covered(outbox'[t], list)
          BY <4>2, <4>3, <4>4 DEF Covered
      <4>6. outbox'[t] \in Outbox
          BY <4>2, <4>4 DEF Outbox
      <4>. QED  BY <1>1, <3>1, <3>3, <4>5, <4>6
    <3>. QED  BY <3>2, <3>3
  <2>. QED  BY <2>3, <2>4, <2>5, <2>6, BoxShape
<1>4. log' \in [Messages -> SUBSET {"turn", "error"}]
  <2>1. ASSUME NEW t \in Messages, TurnStep(t) PROVE log' \in [Messages -> SUBSET {"turn", "error"}]
    <3>1. log' \in {log, [log EXCEPT ![t] = @ \cup {"turn"}], [log EXCEPT ![t] = @ \cup {"error"}]}
        BY <2>1 DEF TurnStep, Cancelled, Prepared, Dropped, Begin, AttachFile, CallCreator, CreatorRuns,
                    CreatorReturns, RunReturns, Raise, Reply, Drain, SendFile, Finish, Apologize, Apologized, Note,
                    ErrorRecord
    <3>. QED  BY <3>1 DEF BoxInv
  <2>2. CASE Command \/ UNCHANGED vars
      BY <2>2 DEF Command, Arrive, Stop, StopAll, Reload, Shutdown, vars, BoxInv
  <2>. QED  BY <2>1, <2>2 DEF Next, Step
<1>. QED  BY <1>3, <1>4 DEF BoxInv

LEMMA BoxStart == Init => BoxInv
    BY DEF Init, BoxInv, EmptyBox, Covered

\* Turns, agents, lists, outboxes and the queue at the lock are of their types, no turn sends
\* more files than its list has, and none waits for the lock twice.
THEOREM TurnsAreTyped == Spec => []TypeOK
<1>1. StopInv /\ LockInv /\ FilesInv /\ BoxInv => TypeOK
  <2>. SUFFICES ASSUME StopInv, LockInv, FilesInv, BoxInv PROVE TypeOK
      OBVIOUS
  <2>1. ASSUME NEW t \in Messages
        PROVE  /\ list[t] \in Seq(Messages)
               /\ outbox[t].sent <= Len(list[t]) \/ outbox[t].from # t
               /\ outbox[t].from # None => list[outbox[t].from] # <<>>
    <3>1. Covered(outbox[t], list) /\ list[t] \in Seq(Messages) /\ t # None
        BY <2>1, MatrixConstants DEF BoxInv, FilesInv, AgentType
    <3>. QED  BY <3>1 DEF Covered
  <2>2. TurnType /\ AgentType
      BY DEF StopInv, FilesInv
  <2>. QED  BY <2>1, <2>2 DEF TypeOK, TurnType, AgentType, LockInv, BoxInv, Places, Threads
<1>. QED  BY StopStart, StopStep, LockStart, LockStep, FilesStart, FilesStep, BoxStart, BoxStep, <1>1, PTL
          DEF Spec

-----------------------------------------------------------------------------
(* Calls *)

Points == {"idle", "root", "credentials", "warming", "connecting", "publishing", "describing",
           "answering", "hanging"}

Session == [key : Keys, life : Nat, running : BOOLEAN, answered : BOOLEAN, hungup : BOOLEAN,
            done : BOOLEAN, link : {"none", "open", "shaky", "failed", "closed"}, media : BOOLEAN]

SigType ==
    /\ sync \in [at : Points, key : Keys, s : Ids \cup {NoId}]
    /\ managed \in [Keys -> Ids \cup {NoId}]
    /\ session \in [Ids -> Session]
    /\ ending \in [Ids -> [Reasons -> Phases]]
    /\ member \in BOOLEAN
    /\ lives \in Nat

\* The handler has made its session and has not yet got its call going.
Joining == {"credentials", "warming", "connecting", "publishing", "describing"}
Taking == Joining \cup {"answering"}

\* The session of the handler is the one its manager has for the key.
TakenIsManaged ==
    /\ sync.at = "root" => managed[sync.key] = NoId
    /\ sync.at \in Taking =>
           /\ sync.s \in Ids /\ managed[sync.key] = sync.s
           /\ sync.at \in Joining => ~session[sync.s].running
           /\ sync.at \in {"credentials", "connecting", "publishing"} => sync.key = Room

\* A manager has sessions of its own life and key.
ManagedIsOwn ==
    \A k \in Keys : managed[k] # NoId =>
        session[managed[k]].life = lives + 1 /\ session[managed[k]].key = k

NoLaterLife == \A s \in Ids : session[s].life <= lives + 1

\* Inductive.
ReachInv == SigType /\ TakenIsManaged /\ ManagedIsOwn /\ NoLaterLife /\ ReachableByHangup

\* A session has no link before its handler has made one, and until then nothing ends it.
NoLinkYet ==
    /\ \A s \in Ids : session[s].life = 0 => session[s].link = "none"
    /\ \A s \in Ids : session[s].link = "none" =>
           /\ ~session[s].running /\ ~session[s].hungup
           /\ \A r \in Reasons : ending[s][r] = "none"
    /\ \A k \in Keys : managed[k] # NoId =>
           (session[managed[k]].link = "none"
                <=> sync.at \in {"credentials", "warming", "connecting"} /\ sync.s = managed[k])

\* What ends a call marks it, and the handler of the other side's hangup waits for it.
EndingIsMarked ==
    \A s \in Ids :
        /\ session[s].hungup => session[s].done
        /\ \A r \in Reasons : ending[s][r] = "closing" => session[s].hungup
        /\ ending[s]["connection"] # "waiting" /\ ending[s]["remote"] # "telling"
        /\ ending[s]["remote"] = "closing" => sync.at = "hanging" /\ sync.s = s
        /\ session[s].link = "shaky" => session[s].key # Room

\* A session w that was hung up is closed, or one of its endings e is at it.
Closing(e, w) == w.hungup => w.link \in {"none", "closed"} \/ \E r \in Reasons : e[r] = "closing"

HungUpCloses == \A s \in Ids : Closing(ending[s], session[s])

\* If a session w was hung up, one of its endings e will still clear the membership.
Owes(e, w) ==
    w.hungup =>
        \/ \E r \in Reasons : e[r] = "telling"
        \/ e["idle"] = "closing"
        \/ e["remote"] = "closing" /\ w.link = "open" /\ e["connection"] = "none"

\* Pawlia is a member for a call in the room: one that goes on or has yet to clear it.
ShownFor(s) ==
    /\ session[s].life > 0 /\ session[s].key = Room
    /\ \/ session[s].running
       \/ session[s].life < lives + 1
       \/ sync.s = s /\ sync.at \in {"connecting", "publishing"}
    /\ Owes(ending[s], session[s])

MemberHasCall == member => \E s \in Ids : ShownFor(s)

\* Inductive, next to ReachInv.
LeaveInv == NoLinkYet /\ EndingIsMarked /\ HungUpCloses /\ MemberHasCall

-----------------------------------------------------------------------------
(* What the steps make of a session *)

Marked(w) == [w EXCEPT !.hungup = TRUE, !.done = TRUE]
CallEnded(w) == [w EXCEPT !.done = TRUE]
Linked(w, link) == [w EXCEPT !.link = link]
Lost(w) == [w EXCEPT !.media = TRUE, !.link = IF w.key = Room THEN "closed" ELSE "failed"]
Shut(w) == [w EXCEPT !.link = IF w.link = "none" THEN "none" ELSE "closed", !.media = TRUE]
Heard(w) == [w EXCEPT !.media = TRUE]
Replied(w) == [w EXCEPT !.answered = TRUE]
Started(w) == [w EXCEPT !.running = TRUE]
Live(w) == [w EXCEPT !.media = TRUE, !.answered = TRUE, !.running = TRUE]

Links == {"none", "open", "shaky", "failed", "closed"}

\* Only the fields named change.
LEMMA Shapes ==
    ASSUME NEW w \in Session, NEW link \in Links
    PROVE  /\ {Marked(w), CallEnded(w), Linked(w, link), Lost(w), Shut(w), Heard(w), Replied(w),
               Started(w), Live(w)} \subseteq Session
           /\ \A v \in {Marked(w), CallEnded(w), Linked(w, link), Lost(w), Shut(w), Heard(w), Replied(w),
                        Started(w), Live(w)} : v.key = w.key /\ v.life = w.life
<1>1. Marked(w) \in Session /\ CallEnded(w) \in Session /\ Linked(w, link) \in Session
    BY Zenon DEF Marked, CallEnded, Linked, Session, Links
<1>2. Lost(w) \in Session
  <2>1. (IF w.key = Room THEN "closed" ELSE "failed") \in Links
      BY DEF Links
  <2>. QED  BY <2>1, Zenon DEF Lost, Session, Links
<1>3. Shut(w) \in Session
  <2>1. (IF w.link = "none" THEN "none" ELSE "closed") \in Links
      BY DEF Links
  <2>. QED  BY <2>1, Zenon DEF Shut, Session, Links
<1>4. Heard(w) \in Session /\ Replied(w) \in Session /\ Started(w) \in Session /\ Live(w) \in Session
    BY Zenon DEF Heard, Replied, Started, Live, Session
<1>5. \A v \in {Marked(w), CallEnded(w), Linked(w, link), Lost(w), Shut(w), Heard(w), Replied(w),
                Started(w), Live(w)} : v.key = w.key /\ v.life = w.life
  <2>1. \A v \in {Marked(w), CallEnded(w), Linked(w, link)} : v.key = w.key /\ v.life = w.life
      BY DEF Marked, CallEnded, Linked, Session
  <2>2. \A v \in {Lost(w), Shut(w)} : v.key = w.key /\ v.life = w.life
      BY DEF Lost, Shut, Session
  <2>3. \A v \in {Heard(w), Replied(w), Started(w), Live(w)} : v.key = w.key /\ v.life = w.life
      BY DEF Heard, Replied, Started, Live, Session
  <2>. QED  BY <2>1, <2>2, <2>3
<1>. QED  BY <1>1, <1>2, <1>3, <1>4, <1>5

\* Each field of each of them.
LEMMA MarkedShape ==
    ASSUME NEW w \in Session
    PROVE  /\ Marked(w).hungup /\ Marked(w).done
           /\ Marked(w).running <=> w.running
           /\ Marked(w).link = w.link
    BY DEF Marked, Session

LEMMA EndedShape ==
    ASSUME NEW w \in Session
    PROVE  /\ CallEnded(w).done
           /\ CallEnded(w).running <=> w.running
           /\ CallEnded(w).hungup <=> w.hungup
           /\ CallEnded(w).link = w.link
    BY DEF CallEnded, Session

LEMMA LinkedShape ==
    ASSUME NEW w \in Session, NEW link \in Links
    PROVE  /\ Linked(w, link).link = link
           /\ Linked(w, link).running <=> w.running
           /\ Linked(w, link).hungup <=> w.hungup
           /\ Linked(w, link).done <=> w.done
    BY DEF Linked, Session

LEMMA LostShape ==
    ASSUME NEW w \in Session
    PROVE  /\ Lost(w).link = IF w.key = Room THEN "closed" ELSE "failed"
           /\ Lost(w).running <=> w.running
           /\ Lost(w).hungup <=> w.hungup
           /\ Lost(w).done <=> w.done
    BY DEF Lost, Session

LEMMA ShutShape ==
    ASSUME NEW w \in Session
    PROVE  /\ Shut(w).link = IF w.link = "none" THEN "none" ELSE "closed"
           /\ Shut(w).running <=> w.running
           /\ Shut(w).hungup <=> w.hungup
           /\ Shut(w).done <=> w.done
    BY DEF Shut, Session

LEMMA HeardShape ==
    ASSUME NEW w \in Session, NEW v \in {Heard(w), Replied(w)}
    PROVE  /\ v.link = w.link
           /\ v.running <=> w.running
           /\ v.hungup <=> w.hungup
           /\ v.done <=> w.done
    BY DEF Heard, Replied, Session

LEMMA StartedShape ==
    ASSUME NEW w \in Session, NEW v \in {Started(w), Live(w)}
    PROVE  /\ v.link = w.link
           /\ v.running
           /\ v.hungup <=> w.hungup
           /\ v.done <=> w.done
    BY DEF Started, Live, Session

LEMMA EndsShape ==
    ASSUME SigType, NEW s \in Ids, NEW r \in Reasons, NEW phase \in Phases, Ends(s, r, phase)
    PROVE  /\ ending' \in [Ids -> [Reasons -> Phases]]
           /\ ending'[s][r] = phase
           /\ \A q \in Reasons \ {r} : ending'[s][q] = ending[s][q]
           /\ \A u \in Ids \ {s} : ending'[u] = ending[u]
<1>1. ending \in [Ids -> [Reasons -> Phases]]
    BY DEF SigType
<1>2. ending' = [ending EXCEPT ![s] = [ending[s] EXCEPT ![r] = phase]]
    BY <1>1 DEF Ends
<1>3. ending[s] \in [Reasons -> Phases]
    BY <1>1
<1>4. [ending[s] EXCEPT ![r] = phase] \in [Reasons -> Phases]
    BY <1>3
<1>. QED  BY <1>1, <1>2, <1>3, <1>4

\* A step after which session s is w.
Becomes(s, w) == session' = [session EXCEPT ![s] = w]

\* What a coroutine of a call does to its session.
GoesOn(s, w) ==
    /\ w \in Session /\ Becomes(s, w)
    /\ w.key = session[s].key /\ w.life = session[s].life
    /\ w.running <=> session[s].running
    /\ Finished(s) => w.hungup \/ w.done \/ w.link \in {"failed", "closed"}
    /\ sync' = sync \/ sync' = Idle
    /\ ending' \in [Ids -> [Reasons -> Phases]]
    /\ member' \in BOOLEAN
    /\ UNCHANGED <<managed, lives>>

LEMMA SameSession ==
    ASSUME SigType, NEW s \in Ids, session' = session
    PROVE  /\ session[s] \in Session /\ Becomes(s, session[s])
           /\ Finished(s) => session[s].hungup \/ session[s].done \/ session[s].link \in {"failed", "closed"}
    BY DEF SigType, Becomes, Finished

\* Connections.
LEMMA ConnectionGoesOn ==
    ASSUME SigType, NEW s \in Ids, ConnectionFails(s)
    PROVE  GoesOn(s, Lost(session[s])) /\ Ends(s, "connection", "telling")
<1>1. session[s] \in Session /\ "connection" \in Reasons /\ "telling" \in Phases
    BY DEF SigType, Reasons, Phases
<1>2. Becomes(s, Lost(session[s])) /\ Ends(s, "connection", "telling") /\ UNCHANGED <<sync, managed, member, lives>>
    BY DEF ConnectionFails, Becomes, Lost
<1>3. Lost(session[s]).link \in {"failed", "closed"}
    BY <1>1, LostShape
<1>4. Lost(session[s]) \in Session /\ Lost(session[s]).key = session[s].key /\ Lost(session[s]).life = session[s].life
    BY <1>1, Shapes DEF Links
<1>5. ending' \in [Ids -> [Reasons -> Phases]]
    BY <1>1, <1>2, EndsShape
<1>. QED  BY <1>1, <1>2, <1>3, <1>4, <1>5, LostShape DEF GoesOn, SigType

LEMMA LinkGoesOn ==
    ASSUME SigType, NEW s \in Ids, Disconnects(s) \/ Recovers(s)
    PROVE  \E link \in {"open", "shaky"} : GoesOn(s, Linked(session[s], link))
<1>1. PICK link \in {"open", "shaky"} : Becomes(s, Linked(session[s], link))
    BY DEF Disconnects, Recovers, Becomes, Linked
<1>2. session[s] \in Session /\ link \in Links /\ UNCHANGED <<sync, managed, member, lives>>
    BY DEF Disconnects, Recovers, SigType, Links
<1>3. /\ Linked(session[s], link) \in Session
      /\ Linked(session[s], link).key = session[s].key /\ Linked(session[s], link).life = session[s].life
    BY <1>2, Shapes
<1>4. session[s].link \in {"open", "shaky"}
    BY DEF Disconnects, Recovers
<1>5. ending' \in [Ids -> [Reasons -> Phases]]
  <2>1. "reconnect" \in Reasons /\ {"none", "waiting"} \subseteq Phases
      BY DEF Reasons, Phases
  <2>2. Ends(s, "reconnect", "waiting") \/ Ends(s, "reconnect", "none") \/ ending' = ending
      BY DEF Disconnects, Recovers
  <2>. QED  BY <2>1, <2>2, EndsShape DEF SigType
<1>6. Finished(s) => session[s].hungup \/ session[s].done
    BY <1>4 DEF Finished
<1>. QED  BY <1>1, <1>2, <1>3, <1>5, <1>6, LinkedShape DEF GoesOn, SigType

\* Watchdogs.
LEMMA WatchGoesOn ==
    ASSUME SigType, NEW s \in Ids, ReconnectTimesOut(s) \/ ConnectTimesOut(s)
    PROVE  GoesOn(s, session[s])
<1>1. UNCHANGED <<session, sync, managed, member, lives>>
    BY DEF ReconnectTimesOut, ConnectTimesOut
<1>2. ending' \in [Ids -> [Reasons -> Phases]]
  <2>1. {"reconnect", "timeout"} \subseteq Reasons /\ {"none", "telling"} \subseteq Phases
      BY DEF Reasons, Phases
  <2>2. Ends(s, "timeout", "telling") \/ Ends(s, "reconnect", "telling") \/ Ends(s, "reconnect", "none")
      BY DEF ReconnectTimesOut, ConnectTimesOut
  <2>. QED  BY <2>1, <2>2, EndsShape
<1>. QED  BY <1>1, <1>2, SameSession DEF GoesOn, SigType

\* The caller's media.
LEMMA MediaGoesOn ==
    ASSUME SigType, NEW s \in Ids, MediaConnects(s) \/ MediaEnds(s) \/ PipelineFails(s)
    PROVE  \E w \in {Heard(session[s]), CallEnded(session[s])} : GoesOn(s, w)
<1>1. PICK w \in {Heard(session[s]), CallEnded(session[s])} : Becomes(s, w)
    BY DEF MediaConnects, MediaEnds, PipelineFails, Becomes, Heard, CallEnded
<1>2. session[s] \in Session /\ UNCHANGED <<sync, managed, member, lives>>
    BY DEF MediaConnects, MediaEnds, PipelineFails, SigType
<1>3. w \in Session /\ w.key = session[s].key /\ w.life = session[s].life
    BY <1>2, Shapes DEF Links
<1>4. ending' \in [Ids -> [Reasons -> Phases]]
  <2>1. "media" \in Reasons /\ {"none", "telling"} \subseteq Phases
      BY DEF Reasons, Phases
  <2>2. Ends(s, "media", "none") \/ Ends(s, "media", "telling") \/ ending' = ending
      BY DEF MediaConnects, MediaEnds, PipelineFails
  <2>. QED  BY <2>1, <2>2, EndsShape DEF SigType
<1>5. w.running <=> session[s].running
    BY <1>2, HeardShape, EndedShape
<1>6. Finished(s) => w.hungup \/ w.done \/ w.link \in {"failed", "closed"}
    BY <1>2, HeardShape, EndedShape DEF Finished
<1>. QED  BY <1>1, <1>2, <1>3, <1>4, <1>5, <1>6 DEF GoesOn, SigType

\* hangup.
LEMMA MarkGoesOn ==
    ASSUME SigType, NEW s \in Ids, NEW r \in Reasons, NEW phase \in Phases,
           Becomes(s, Marked(session[s])), Ends(s, r, phase), member' \in BOOLEAN,
           sync' = sync, UNCHANGED <<managed, lives>>
    PROVE  GoesOn(s, Marked(session[s]))
<1>1. session[s] \in Session
    BY DEF SigType
<1>2. Marked(session[s]) \in Session /\ Marked(session[s]).key = session[s].key
      /\ Marked(session[s]).life = session[s].life
    BY <1>1, Shapes DEF Links
<1>. QED  BY <1>1, <1>2, EndsShape, MarkedShape DEF GoesOn

LEMMA HangsUpShape ==
    ASSUME SigType, NEW s \in Ids, NEW r \in Reasons, HangsUp(s, r)
    PROVE  /\ Becomes(s, Marked(session[s]))
           /\ session[s].hungup => Ends(s, r, "none")
           /\ ~session[s].hungup => Ends(s, r, "closing")
    BY DEF HangsUp, Becomes, Marked

LEMMA InactiveGoesOn ==
    ASSUME SigType, NEW s \in Ids, Inactive(s) PROVE GoesOn(s, Marked(session[s])) /\ Ends(s, "idle", "closing")
<1>1. Becomes(s, Marked(session[s])) /\ Ends(s, "idle", "closing") /\ UNCHANGED <<sync, managed, member, lives>>
    BY DEF Inactive, Becomes, Marked
<1>2. "idle" \in Reasons /\ "closing" \in Phases
    BY DEF Reasons, Phases
<1>. QED  BY <1>1, <1>2, MarkGoesOn DEF SigType

LEMMA ToldGoesOn ==
    ASSUME SigType, NEW s \in Ids, NEW r \in Reasons, Told(s, r)
    PROVE  \E w \in {session[s], Marked(session[s])} : GoesOn(s, w)
<1>1. member' \in BOOLEAN /\ UNCHANGED <<sync, managed, lives>> /\ {"none", "closing"} \subseteq Phases
    BY DEF Told, SigType, Phases
<1>2. CASE r = "idle"
  <2>1. session' = session /\ ending' \in [Ids -> [Reasons -> Phases]]
      BY <1>1, <1>2, EndsShape DEF Told
  <2>. QED  BY <1>1, <2>1, SameSession DEF GoesOn
<1>3. CASE r # "idle"
  <2>1. HangsUp(s, r)
      BY <1>3 DEF Told
  <2>. QED  BY <1>1, <2>1, HangsUpShape, MarkGoesOn
<1>. QED  BY <1>2, <1>3

\* The transport is closed.
LEMMA ClosedShape ==
    ASSUME SigType, NEW s \in Ids, NEW r \in Reasons, Closed(s, r)
    PROVE  /\ Becomes(s, Shut(session[s]))
           /\ ending' \in [Ids -> [Reasons -> Phases]]
           /\ \A u \in Ids \ {s} : ending'[u] = ending[u]
           /\ ending'[s][r] = IF r = "idle" THEN "telling" ELSE "none"
           /\ \A q \in Reasons \ {r} :
                  ending'[s][q] = IF q = "connection" /\ session[s].key = Room /\ session[s].link = "open"
                                     /\ ending[s][q] = "none"
                                  THEN "telling" ELSE ending[s][q]
<1>. DEFINE e == [q \in Reasons |->
                    IF q = r THEN IF r = "idle" THEN "telling" ELSE "none"
                    ELSE IF q = "connection" /\ session[s].key = Room /\ session[s].link = "open"
                            /\ ending[s][q] = "none"
                         THEN "telling" ELSE ending[s][q]]
<1>1. ending' = [ending EXCEPT ![s] = e]
    BY DEF Closed
<1>2. e \in [Reasons -> Phases]
    BY DEF SigType, Phases
<1>3. Becomes(s, Shut(session[s]))
    BY DEF Closed, Becomes, Shut
<1>4. ending'[s] = e /\ ending' \in [Ids -> [Reasons -> Phases]] /\ \A u \in Ids \ {s} : ending'[u] = ending[u]
  <2>. HIDE DEF e
  <2>. QED  BY <1>1, <1>2 DEF SigType
<1>. QED  BY <1>3, <1>4

LEMMA ClosedGoesOn ==
    ASSUME SigType, NEW s \in Ids, NEW r \in Reasons, Closed(s, r) PROVE GoesOn(s, Shut(session[s]))
<1>1. session[s] \in Session
    BY DEF SigType
<1>2. Shut(session[s]) \in Session /\ Shut(session[s]).key = session[s].key
      /\ Shut(session[s]).life = session[s].life
    BY <1>1, Shapes DEF Links
<1>3. UNCHANGED <<managed, member, lives>> /\ (sync' = sync \/ sync' = Idle)
    BY DEF Closed
<1>4. Finished(s) => Shut(session[s]).hungup \/ Shut(session[s]).done \/ Shut(session[s]).link \in {"failed", "closed"}
    BY <1>1, ShutShape DEF Finished
<1>. QED  BY <1>1, <1>2, <1>3, <1>4, ClosedShape, ShutShape DEF GoesOn, SigType

\* The steps of a call's coroutines.
CallSteps(s) ==
    \/ ConnectionFails(s) \/ Disconnects(s) \/ Recovers(s) \/ MediaConnects(s)
    \/ ConnectTimesOut(s) \/ ReconnectTimesOut(s)
    \/ MediaEnds(s) \/ PipelineFails(s) \/ Inactive(s)
    \/ Coroutine(s)

LEMMA CallGoesOn == ASSUME SigType, NEW s \in Ids, CallSteps(s) PROVE \E w \in Session : GoesOn(s, w)
<1>1. \E w : GoesOn(s, w)
    BY ConnectionGoesOn, LinkGoesOn, WatchGoesOn, MediaGoesOn, InactiveGoesOn, ToldGoesOn, ClosedGoesOn
       DEF CallSteps, Coroutine
<1>. QED  BY <1>1 DEF GoesOn

-----------------------------------------------------------------------------
(* A call that goes on can be ended by the other side *)

LEMMA AfterBecomes ==
    ASSUME SigType, NEW s \in Ids, NEW w \in Session, Becomes(s, w)
    PROVE  /\ session' \in [Ids -> Session] /\ session'[s] = w
           /\ \A u \in Ids \ {s} : session'[u] = session[u]
    BY DEF SigType, Becomes

\* The coroutines of a call leave the managers alone, and what has finished stays so.
LEMMA CallReach ==
    ASSUME ReachInv, NEW s \in Created, NEW w \in Session, GoesOn(s, w) PROVE ReachInv'
<1>1. SigType /\ s \in Ids
    BY DEF ReachInv, Created
<1>2. /\ session' \in [Ids -> Session] /\ session'[s] = w
      /\ \A u \in Ids \ {s} : session'[u] = session[u]
    BY <1>1, AfterBecomes DEF GoesOn
<1>3. \A u \in Ids : /\ session'[u].key = session[u].key /\ session'[u].life = session[u].life
                     /\ session'[u].running <=> session[u].running
    BY <1>2 DEF GoesOn
<1>4. sync' \in [at : Points, key : Keys, s : Ids \cup {NoId}]
    BY <1>1 DEF GoesOn, SigType, Idle, Points, Keys
<1>5. SigType'
    BY <1>1, <1>2, <1>4 DEF GoesOn, SigType
<1>6. TakenIsManaged'
  <2>1. CASE sync' = sync
      BY <1>3, <2>1 DEF GoesOn, ReachInv, TakenIsManaged, Taking, Joining, SigType
  <2>2. CASE sync' = Idle
      BY <2>2 DEF TakenIsManaged, Idle, Taking, Joining
  <2>. QED  BY <2>1, <2>2 DEF GoesOn
<1>7. ManagedIsOwn'
    BY <1>1, <1>3 DEF GoesOn, ReachInv, ManagedIsOwn, SigType
<1>8. NoLaterLife'
    BY <1>3 DEF GoesOn, ReachInv, NoLaterLife
<1>9. ReachableByHangup'
  <2>. SUFFICES ASSUME NEW u \in Ids, session'[u].life > 0, session'[u].running, ~Finished(u)',
                       session'[u].life = lives' + 1
                PROVE  managed'[session'[u].key] = u
      BY DEF ReachableByHangup, Created
  <2>1. ~Finished(u)
    <3>1. CASE u = s
        BY <1>2, <3>1 DEF GoesOn, Finished
    <3>2. CASE u # s
        BY <1>2, <3>2 DEF Finished
    <3>. QED  BY <3>1, <3>2
  <2>. QED  BY <1>3, <2>1 DEF GoesOn, ReachInv, ReachableByHangup, Created
<1>. QED  BY <1>5, <1>6, <1>7, <1>8, <1>9 DEF ReachInv

\* What the handler's session becomes while it takes the call.
LEMMA HandlerReach ==
    ASSUME ReachInv, sync.at \in Taking, NEW w \in Session, NEW point \in (Taking \ {sync.at}) \cup {"idle"},
           Becomes(sync.s, w), w.key = session[sync.s].key, w.life = session[sync.s].life,
           point \in Joining => ~w.running,
           point \in {"credentials", "connecting", "publishing"} => sync.key = Room,
           sync' = [sync EXCEPT !.at = point] \/ (point = "idle" /\ sync' = Idle),
           member' \in BOOLEAN, UNCHANGED <<managed, ending, lives>>
    PROVE  ReachInv'
<1>. DEFINE s == sync.s
<1>1. SigType /\ s \in Ids /\ managed[sync.key] = s
    BY DEF ReachInv, TakenIsManaged
<1>2. /\ session' \in [Ids -> Session] /\ session'[s] = w
      /\ \A u \in Ids \ {s} : session'[u] = session[u]
    BY <1>1, AfterBecomes
<1>3. \A u \in Ids : session'[u].key = session[u].key /\ session'[u].life = session[u].life
    BY <1>2
<1>4. point \in Points /\ point # "root"
    BY DEF Taking, Joining, Points
<1>5. sync' \in [at : Points, key : Keys, s : Ids \cup {NoId}] /\ sync'.at = point
    BY <1>1, <1>4 DEF SigType, Idle, Points, Keys
<1>6. SigType'
    BY <1>1, <1>2, <1>5 DEF SigType
<1>7. TakenIsManaged'
  <2>1. CASE point = "idle"
      BY <1>5, <2>1 DEF TakenIsManaged, Taking, Joining
  <2>2. CASE point # "idle"
    <3>1. sync'.key = sync.key /\ sync'.s = s /\ sync'.at = point
        BY <1>1, <1>4, <2>2 DEF SigType, Idle
    <3>. QED  BY <1>1, <1>2, <1>4, <3>1 DEF TakenIsManaged
  <2>. QED  BY <2>1, <2>2
<1>8. ManagedIsOwn'
    BY <1>1, <1>3 DEF ReachInv, ManagedIsOwn, SigType
<1>9. NoLaterLife'
    BY <1>3 DEF ReachInv, NoLaterLife
<1>10. managed[session[s].key] = s
    BY <1>1 DEF ReachInv, ManagedIsOwn, SigType, Ids, NoId
<1>11. ReachableByHangup'
  <2>. SUFFICES ASSUME NEW u \in Ids, session'[u].life > 0, session'[u].running, ~Finished(u)',
                       session'[u].life = lives' + 1
                PROVE  managed'[session'[u].key] = u
      BY DEF ReachableByHangup, Created
  <2>1. CASE u = s
      BY <1>3, <1>10, <2>1
  <2>2. CASE u # s
    <3>1. session'[u] = session[u] /\ ~Finished(u)
        BY <1>2, <2>2 DEF Finished
    <3>. QED  BY <3>1 DEF ReachInv, ReachableByHangup, Created
  <2>. QED  BY <2>1, <2>2
<1>. QED  BY <1>6, <1>7, <1>8, <1>9, <1>11 DEF ReachInv

\* A manager lets go of what it has for a key, when that has finished or has never begun.
LEMMA ReleaseReach ==
    ASSUME ReachInv, NEW k \in Keys, managed' = [managed EXCEPT ![k] = NoId],
           NEW m \in Ids \cup {NoId}, managed[k] = m,
           m # NoId => ~session'[m].running \/ Finished(m)',
           session' \in [Ids -> Session],
           \A u \in Ids : /\ session'[u].key = session[u].key /\ session'[u].life = session[u].life
                          /\ u # m => session'[u] = session[u],
           sync' = Idle \/ sync' = [at |-> "root", key |-> k, s |-> NoId]
               \/ (\E s \in Ids : sync' = [at |-> "hanging", key |-> k, s |-> s]),
           ending' \in [Ids -> [Reasons -> Phases]], member' \in BOOLEAN, lives' = lives
    PROVE  ReachInv'
<1>1. SigType
    BY DEF ReachInv
<1>2. managed'[k] = NoId /\ \A j \in Keys \ {k} : managed'[j] = managed[j]
    BY <1>1 DEF SigType
<1>3. SigType'
    BY <1>1 DEF SigType, Idle, Points, Keys
<1>4. TakenIsManaged'
  <2>1. sync'.at = "root" => sync'.key = k
      BY DEF Idle
  <2>2. sync'.at \notin Taking
      BY DEF Idle, Taking, Joining
  <2>. QED  BY <1>2, <2>1, <2>2 DEF TakenIsManaged
<1>5. ManagedIsOwn'
    BY <1>1, <1>2 DEF ReachInv, ManagedIsOwn, SigType
<1>6. NoLaterLife'
    BY DEF ReachInv, NoLaterLife
<1>7. ReachableByHangup'
  <2>. SUFFICES ASSUME NEW u \in Ids, session'[u].life > 0, session'[u].running, ~Finished(u)',
                       session'[u].life = lives' + 1
                PROVE  managed'[session'[u].key] = u
      BY DEF ReachableByHangup, Created
  <2>0. u # NoId
      BY DEF Ids, NoId
  <2>1. u # m
      BY <2>0
  <2>2. session'[u] = session[u] /\ ~Finished(u)
      BY <2>1 DEF Finished
  <2>3. managed[session[u].key] = u
      BY <2>2 DEF ReachInv, ReachableByHangup, Created
  <2>4. session[u].key \in Keys
      BY <1>1 DEF SigType, Session
  <2>. QED  BY <1>2, <2>1, <2>2, <2>3, <2>4
<1>. QED  BY <1>3, <1>4, <1>5, <1>6, <1>7 DEF ReachInv

\* A handler registers the session it has made, for a key that has none.
LEMMA CreatedReach ==
    ASSUME ReachInv, SessionCreated PROVE ReachInv'
<1>. DEFINE k == sync.key
<1>1. SigType /\ k \in Keys /\ managed[k] = NoId
    BY DEF ReachInv, SigType, SessionCreated, At, TakenIsManaged
<1>2. PICK s \in Ids \ Created :
          /\ session' = [session EXCEPT ![s] = [NoSession EXCEPT !.key = k, !.life = lives + 1]]
          /\ managed' = [managed EXCEPT ![k] = s]
          /\ sync' = [sync EXCEPT !.s = s, !.at = IF k = Room THEN "credentials" ELSE "warming"]
          /\ UNCHANGED <<ending, member, lives>>
    BY DEF SessionCreated
<1>. DEFINE w == [NoSession EXCEPT !.key = k, !.life = lives + 1]
<1>3. w \in Session /\ w.key = k /\ w.life = lives + 1 /\ ~w.running
  <2>1. NoSession \in Session /\ ~NoSession.running
      BY DEF NoSession, Session, Keys
  <2>2. lives + 1 \in Nat
      BY <1>1 DEF SigType
  <2>3. w \in Session
      BY <1>1, <2>1, <2>2, Zenon DEF Session
  <2>4. w.key = k /\ w.life = lives + 1 /\ w.running = NoSession.running
      BY <2>1 DEF Session
  <2>. QED  BY <2>1, <2>3, <2>4
<1>4. Becomes(s, w)
    BY <1>2 DEF Becomes
<1>. HIDE DEF w
<1>5. /\ session' \in [Ids -> Session] /\ session'[s] = w
      /\ \A u \in Ids \ {s} : session'[u] = session[u]
    BY <1>1, <1>3, <1>4, AfterBecomes
<1>6. sync'.key = k /\ sync'.s = s /\ sync'.at \in {"credentials", "warming"}
      /\ (sync'.at = "credentials" => k = Room)
    BY <1>1, <1>2 DEF SigType
<1>7. sync' \in [at : Points, key : Keys, s : Ids \cup {NoId}]
    BY <1>1, <1>2 DEF SigType, Points
<1>8. managed'[k] = s /\ \A j \in Keys \ {k} : managed'[j] = managed[j]
    BY <1>1, <1>2 DEF SigType
<1>9. SigType'
    BY <1>1, <1>2, <1>5, <1>7 DEF SigType
<1>10. TakenIsManaged'
    BY <1>3, <1>5, <1>6, <1>8 DEF TakenIsManaged, Taking, Joining
<1>11. ~(session[s].life > 0) /\ session[s].life \in Nat /\ lives \in Nat
    BY <1>1, <1>2 DEF Created, SigType, Session
<1>12. ManagedIsOwn'
  <2>. SUFFICES ASSUME NEW j \in Keys, managed'[j] # NoId
                PROVE  session'[managed'[j]].life = lives + 1 /\ session'[managed'[j]].key = j
      BY <1>2 DEF ManagedIsOwn
  <2>1. CASE j = k
      BY <1>3, <1>5, <1>8, <2>1
  <2>2. CASE j # k
    <3>1. managed'[j] = managed[j]
        BY <1>8, <2>2
    <3>2. managed[j] \in Ids /\ session[managed[j]].life = lives + 1 /\ session[managed[j]].key = j
        BY <1>1, <3>1 DEF ReachInv, ManagedIsOwn, SigType
    <3>3. managed[j] # s
        BY <1>11, <3>2
    <3>. QED  BY <1>5, <3>1, <3>2, <3>3
  <2>. QED  BY <2>1, <2>2
<1>13. NoLaterLife'
    BY <1>2, <1>3, <1>5, <1>11 DEF ReachInv, NoLaterLife
<1>14. ReachableByHangup'
  <2>. SUFFICES ASSUME NEW u \in Ids, session'[u].life > 0, session'[u].running, ~Finished(u)',
                       session'[u].life = lives' + 1
                PROVE  managed'[session'[u].key] = u
      BY DEF ReachableByHangup, Created
  <2>1. u # s
      BY <1>3, <1>5
  <2>2. session'[u] = session[u] /\ ~Finished(u)
      BY <1>5, <2>1 DEF Finished
  <2>3. managed[session[u].key] = u
      BY <1>2, <2>2 DEF ReachInv, ReachableByHangup, Created
  <2>4. session[u].key \in Keys /\ u # NoId
      BY <1>1 DEF SigType, Session, Ids, NoId
  <2>5. session[u].key # k
      BY <1>1, <2>3, <2>4
  <2>. QED  BY <1>8, <2>2, <2>3, <2>4, <2>5
<1>. QED  BY <1>9, <1>10, <1>12, <1>13, <1>14 DEF ReachInv

\* An exception reaches the supervisor: new managers, that have nothing.
LEMMA RaisesReach == ASSUME ReachInv, HandlerRaises PROVE ReachInv'
<1>1. /\ lives' = lives + 1 /\ managed' = [k \in Keys |-> NoId] /\ sync' = Idle
      /\ UNCHANGED <<session, ending, member>> /\ SigType
    BY DEF HandlerRaises, ReachInv
<1>2. SigType'
    BY <1>1 DEF SigType, Idle, Points, Keys
<1>3. TakenIsManaged'
    BY <1>1 DEF TakenIsManaged, Idle, Taking, Joining
<1>4. ManagedIsOwn'
    BY <1>1 DEF ManagedIsOwn
<1>5. \A s \in Ids : session[s].life \in Nat /\ session[s].life <= lives + 1
    BY <1>1 DEF ReachInv, NoLaterLife, SigType, Session
<1>6. lives \in Nat
    BY <1>1 DEF SigType
<1>7. NoLaterLife'
    BY <1>1, <1>5, <1>6 DEF NoLaterLife
<1>8. ReachableByHangup'
    BY <1>1, <1>5, <1>6 DEF ReachableByHangup, Created
<1>. QED  BY <1>2, <1>3, <1>4, <1>7, <1>8 DEF ReachInv

\* The handler's session up to the next await.
LEMMA GoesAhead ==
    ASSUME ReachInv,
           \/ Credentials /\ Goto("warming")
           \/ Warmed
           \/ Connected /\ Goto("publishing")
           \/ Published \/ Described \/ Answered
    PROVE  ReachInv'
<1>. DEFINE s == sync.s
<1>0. SigType /\ TakenIsManaged
    BY DEF ReachInv
<1>1. sync.at \in Taking /\ s \in Ids /\ session[s] \in Session /\ "open" \in Links
    BY <1>0 DEF Credentials, Warmed, Connected, Published, Described, Answered, At, Taking, Joining, Links,
                TakenIsManaged, SigType
<1>2. sync.at \in Joining => ~session[s].running
    BY <1>1 DEF ReachInv, TakenIsManaged
<1>. DEFINE linked == Linked(session[s], "open")
<1>3. linked \in Session /\ linked.key = session[s].key /\ linked.life = session[s].life
      /\ (linked.running <=> session[s].running)
    BY <1>1, Shapes, LinkedShape
<1>4. ASSUME NEW v \in {Started(session[s]), Live(session[s]), Replied(session[s])}
      PROVE  v \in Session /\ v.key = session[s].key /\ v.life = session[s].life
    BY <1>1, Shapes
<1>5. CASE Credentials /\ Goto("warming")
  <2>1. /\ sync.at = "credentials" /\ session' = session /\ sync' = [sync EXCEPT !.at = "warming"]
        /\ UNCHANGED <<managed, ending, lives, member>>
      BY <1>5 DEF Credentials, At, Goto, JoinGivenUp, Idle
  <2>2. Becomes(s, session[s])
      BY <1>0, <1>1, <2>1, SameSession
  <2>. QED  BY <1>0, <1>1, <1>2, <2>1, <2>2, HandlerReach DEF Taking, Joining, SigType
<1>6. CASE Warmed
  <2>1. CASE sync.key = Room
    <3>1. /\ sync.at = "warming" /\ session' = session /\ sync' = [sync EXCEPT !.at = "connecting"]
          /\ UNCHANGED <<managed, ending, lives>> /\ member' \in BOOLEAN
        BY <1>6, <2>1 DEF Warmed, At, Goto
    <3>2. Becomes(s, session[s])
        BY <1>0, <1>1, <3>1, SameSession
    <3>. QED  BY <1>1, <1>2, <2>1, <3>1, <3>2, HandlerReach DEF Taking, Joining
  <2>2. CASE sync.key # Room
    <3>1. /\ sync.at = "warming" /\ Becomes(s, linked) /\ sync' = [sync EXCEPT !.at = "describing"]
          /\ UNCHANGED <<managed, ending, lives, member>>
        BY <1>6, <2>2 DEF Warmed, At, Goto, Becomes, Linked
    <3>. QED  BY <1>0, <1>1, <1>2, <1>3, <3>1, HandlerReach DEF Taking, Joining, SigType
  <2>. QED  BY <2>1, <2>2
<1>7. CASE Connected /\ Goto("publishing")
  <2>1. /\ sync.at = "connecting" /\ Becomes(s, linked) /\ sync' = [sync EXCEPT !.at = "publishing"]
        /\ UNCHANGED <<managed, ending, lives, member>>
      BY <1>7 DEF Connected, At, Goto, Becomes, Linked, JoinGivenUp, Idle
  <2>2. sync.key = Room
      BY <1>0, <2>1 DEF TakenIsManaged, Taking, Joining
  <2>. QED  BY <1>0, <1>1, <1>2, <1>3, <2>1, <2>2, HandlerReach DEF Taking, Joining, SigType
<1>8. CASE Published
  <2>1. /\ sync.at = "publishing" /\ Becomes(s, Live(session[s])) /\ sync' = Idle
        /\ UNCHANGED <<managed, ending, lives, member>>
      BY <1>8 DEF Published, At, Becomes, Live
  <2>. QED  BY <1>0, <1>1, <1>4, <2>1, HandlerReach DEF Taking, Joining, SigType
<1>9. CASE Described
  <2>1. /\ sync.at = "describing" /\ Becomes(s, Started(session[s])) /\ sync' = [sync EXCEPT !.at = "answering"]
        /\ UNCHANGED <<managed, ending, lives, member>>
      BY <1>9 DEF Described, At, Goto, Becomes, Started
  <2>. QED  BY <1>0, <1>1, <1>4, <2>1, HandlerReach DEF Taking, Joining, SigType
<1>10. CASE Answered
  <2>1. /\ sync.at = "answering" /\ Becomes(s, Replied(session[s])) /\ sync' = Idle
        /\ UNCHANGED <<managed, ending, lives, member>>
      BY <1>10 DEF Answered, At, Becomes, Replied
  <2>. QED  BY <1>0, <1>1, <1>4, <2>1, HandlerReach DEF Taking, Joining, SigType
<1>. QED  BY <1>5, <1>6, <1>7, <1>8, <1>9, <1>10

\* Joining the room has failed.
LEMMA GivenUpReach ==
    ASSUME ReachInv, Credentials \/ Connected, JoinGivenUp PROVE ReachInv'
<1>. DEFINE s == sync.s
<1>0. SigType /\ TakenIsManaged
    BY DEF ReachInv
<1>1. sync.at \in {"credentials", "connecting"} /\ UNCHANGED <<ending, lives>>
    BY DEF Credentials, Connected, At
<1>2. sync.key = Room /\ s \in Ids /\ session[s] \in Session /\ managed[Room] = s /\ ~session[s].running
    BY <1>0, <1>1 DEF TakenIsManaged, SigType, Taking, Joining
<1>. DEFINE w == Linked(session[s], "closed")
<1>3. w \in Session /\ w.key = session[s].key /\ w.life = session[s].life /\ ~w.running
  <2>1. "closed" \in Links
      BY DEF Links
  <2>. QED  BY <1>2, <2>1, Shapes, LinkedShape
<1>4. PICK v \in {session[s], w} : Becomes(s, v)
  <2>1. session' = session \/ session' = [session EXCEPT ![sync.s].link = "closed"]
      BY DEF Credentials, Connected, JoinGivenUp, Idle, Goto
  <2>2. Becomes(s, session[s]) \/ Becomes(s, w)
    <3>1. CASE session' = session
        BY <1>0, <1>2, <3>1, SameSession
    <3>2. CASE session' = [session EXCEPT ![sync.s].link = "closed"]
        BY <3>2 DEF Becomes, Linked
    <3>. QED  BY <2>1, <3>1, <3>2
  <2>. QED  BY <2>2
<1>5. v \in Session /\ v.key = session[s].key /\ v.life = session[s].life /\ ~v.running
    BY <1>2, <1>3
<1>6. /\ session' \in [Ids -> Session] /\ session'[s] = v
      /\ \A u \in Ids \ {s} : session'[u] = session[u]
    BY <1>0, <1>2, <1>4, <1>5, AfterBecomes
<1>7. managed' = [managed EXCEPT ![Room] = NoId] /\ member' \in BOOLEAN /\ sync' = Idle
    BY DEF JoinGivenUp
<1>8. Room \in Keys /\ ending' \in [Ids -> [Reasons -> Phases]]
    BY <1>0, <1>1 DEF Keys, SigType
<1>9. \A u \in Ids : /\ session'[u].key = session[u].key /\ session'[u].life = session[u].life
                     /\ u # s => session'[u] = session[u]
    BY <1>5, <1>6
<1>10. s \in Ids \cup {NoId} /\ managed[Room] = s /\ ~session'[s].running /\ lives' = lives
    BY <1>1, <1>2, <1>5, <1>6
<1>. HIDE DEF s
<1>. QED  BY <1>6, <1>7, <1>8, <1>9, <1>10, ReleaseReach

\* A new invite, or a member, when the key has no call that goes on.
LEMMA ArrivesReach ==
    ASSUME ReachInv, (\E c \in Calls : InviteArrives(c)) \/ MemberJoined PROVE ReachInv'
<1>0. SigType
    BY DEF ReachInv
<1>1. PICK k \in Keys :
          /\ managed[k] # NoId => Finished(managed[k])
          /\ managed' = [managed EXCEPT ![k] = NoId]
          /\ sync' = [at |-> "root", key |-> k, s |-> NoId]
          /\ UNCHANGED <<session, ending, member, lives>>
  <2>1. CASE \E c \in Calls : InviteArrives(c)
      BY <2>1 DEF InviteArrives, Keys
  <2>2. CASE MemberJoined
    <3>1. managed[Room] = NoId /\ Room \in Keys /\ managed' = managed
        BY <2>2 DEF MemberJoined, Keys
    <3>2. managed' = [managed EXCEPT ![Room] = NoId]
        BY <1>0, <3>1 DEF SigType
    <3>. QED  BY <2>2, <3>1, <3>2 DEF MemberJoined
  <2>. QED  BY <2>1, <2>2
<1>2. PICK m \in Ids \cup {NoId} : m = managed[k]
    BY <1>0 DEF SigType
<1>3. m # NoId => Finished(m)'
    BY <1>1, <1>2 DEF Finished
<1>4. session' \in [Ids -> Session] /\ ending' \in [Ids -> [Reasons -> Phases]] /\ member' \in BOOLEAN
    BY <1>0, <1>1 DEF SigType
<1>. QED  BY <1>1, <1>2, <1>3, <1>4, ReleaseReach

\* The other side hangs up.
LEMMA RemoteReach ==
    ASSUME ReachInv, NEW k \in Keys, RemoteHangsUp(k) PROVE ReachInv'
<1>0. SigType
    BY DEF ReachInv
<1>1. PICK s \in Ids :
          /\ s = managed[k] /\ managed' = [managed EXCEPT ![k] = NoId]
          /\ HangsUp(s, "remote")
          /\ sync' = Idle \/ sync' = [at |-> "hanging", key |-> k, s |-> s]
          /\ UNCHANGED <<member, lives>>
    BY <1>0 DEF RemoteHangsUp, SigType
<1>2. "remote" \in Reasons /\ {"none", "closing"} \subseteq Phases
    BY DEF Reasons, Phases
<1>3. Becomes(s, Marked(session[s])) /\ ending' \in [Ids -> [Reasons -> Phases]]
    BY <1>0, <1>1, <1>2, HangsUpShape, EndsShape
<1>4. session[s] \in Session
    BY <1>0 DEF SigType
<1>5. /\ Marked(session[s]) \in Session /\ Marked(session[s]).hungup
      /\ Marked(session[s]).key = session[s].key /\ Marked(session[s]).life = session[s].life
    BY <1>4, Shapes, MarkedShape DEF Links
<1>6. /\ session' \in [Ids -> Session] /\ session'[s] = Marked(session[s])
      /\ \A u \in Ids \ {s} : session'[u] = session[u]
    BY <1>0, <1>3, <1>5, AfterBecomes
<1>7. Finished(s)'
    BY <1>5, <1>6 DEF Finished
<1>8. member' \in BOOLEAN
    BY <1>0, <1>1 DEF SigType
<1>9. \A u \in Ids : /\ session'[u].key = session[u].key /\ session'[u].life = session[u].life
                     /\ u # s => session'[u] = session[u]
    BY <1>5, <1>6
<1>10. \/ sync' = Idle \/ sync' = [at |-> "root", key |-> k, s |-> NoId]
       \/ (\E u \in Ids : sync' = [at |-> "hanging", key |-> k, s |-> u])
    BY <1>1
<1>11. s \in Ids \cup {NoId} /\ managed[k] = s /\ managed' = [managed EXCEPT ![k] = NoId] /\ lives' = lives
    BY <1>1
<1>. QED  BY <1>3, <1>6, <1>7, <1>8, <1>9, <1>10, <1>11, ReleaseReach

\* Every step keeps the invariant.
LEMMA ReachStep == ReachInv /\ [SigNext]_sigVars => ReachInv'
<1>. SUFFICES ASSUME ReachInv, [SigNext]_sigVars PROVE ReachInv'
    OBVIOUS
<1>1. ASSUME NEW s \in Created, CallSteps(s) PROVE ReachInv'
  <2>1. PICK w \in Session : GoesOn(s, w)
      BY <1>1, CallGoesOn DEF ReachInv, Created
  <2>. QED  BY <2>1, CallReach
<1>2. CASE Handler
  <2>1. CASE Credentials
    <3>1. Goto("warming") \/ JoinGivenUp
        BY <2>1 DEF Credentials
    <3>. QED  BY <2>1, <3>1, GoesAhead, GivenUpReach
  <2>2. CASE Connected
    <3>1. Goto("publishing") \/ JoinGivenUp
        BY <2>2 DEF Connected
    <3>. QED  BY <2>2, <3>1, GoesAhead, GivenUpReach
  <2>. QED  BY <1>2, <2>1, <2>2, CreatedReach, GoesAhead DEF Handler
<1>3. CASE UNCHANGED sigVars
    BY <1>3 DEF ReachInv, sigVars, SigType, TakenIsManaged, ManagedIsOwn, NoLaterLife, ReachableByHangup,
                Created, Finished
<1>4. ASSUME SigNext, ~Handler, ~(\E s \in Created : CallSteps(s)) PROVE ReachInv'
    BY <1>4, ArrivesReach, RaisesReach, RemoteReach DEF SigNext, CallSteps
<1>. QED  BY <1>1, <1>2, <1>3, <1>4

LEMMA ReachStart == SigInit => ReachInv
<1>. SUFFICES ASSUME SigInit PROVE ReachInv
    OBVIOUS
<1>1. NoSession \in Session /\ NoSession.life = 0 /\ Idle \in [at : Points, key : Keys, s : Ids \cup {NoId}]
    BY DEF NoSession, Session, Keys, Idle, Points
<1>2. SigType
    BY <1>1 DEF SigInit, SigType, Phases
<1>3. TakenIsManaged /\ ManagedIsOwn /\ NoLaterLife /\ ReachableByHangup
    BY <1>1 DEF SigInit, TakenIsManaged, Idle, Taking, Joining, ManagedIsOwn, NoLaterLife, ReachableByHangup,
                Created
<1>. QED  BY <1>2, <1>3 DEF ReachInv

\* A call that goes on, and was taken in the interface's present life, is the one that the other
\* side's hangup reaches, whatever invites, members, failures and restarts came before.
THEOREM CallsAreReachable == SigSpec => []ReachableByHangup
<1>1. ReachInv => ReachableByHangup
    BY DEF ReachInv
<1>. QED  BY ReachStart, ReachStep, <1>1, PTL DEF SigSpec

-----------------------------------------------------------------------------
(* What was hung up leaves nothing behind *)

\* A step in which session s becomes w, and other sessions and their endings stay.
Alters(s, w) ==
    /\ w \in Session /\ Becomes(s, w)
    /\ w.key = session[s].key /\ w.life = session[s].life
    /\ w.running <=> session[s].running
    /\ session[s].link # "none" /\ w.link # "none"
    /\ ending' \in [Ids -> [Reasons -> Phases]]
    /\ \A u \in Ids \ {s} : ending'[u] = ending[u]
    /\ \A k \in Keys : managed'[k] \in {managed[k], NoId}
    /\ \/ sync' = sync
       \/ /\ sync.at \in {"idle", "hanging"} /\ sync'.at \in {"idle", "hanging"}
          /\ sync.at = "hanging" => sync.s = s
    /\ lives' = lives

\* What is left of the marks and endings of s after the step.
StaysMarked(s, w) ==
    /\ w.hungup => w.done
    /\ \A r \in Reasons : ending'[s][r] = "closing" => w.hungup
    /\ ending'[s]["connection"] # "waiting" /\ ending'[s]["remote"] # "telling"
    /\ ending'[s]["remote"] = "closing" => sync'.at = "hanging" /\ sync'.s = s
    /\ w.link = "shaky" => w.key # Room

\* What is left of the membership.
StaysOwed(s, w) ==
    /\ member' => member
    /\ member' /\ w.key = Room /\ Owes(ending[s], session[s]) => Owes(ending'[s], w)

LEMMA AltersLeave ==
    ASSUME ReachInv, LeaveInv, NEW s \in Ids, NEW w \in Session, Alters(s, w), StaysMarked(s, w),
           Closing(ending'[s], w), StaysOwed(s, w)
    PROVE  LeaveInv'
<1>1. /\ session' \in [Ids -> Session] /\ session'[s] = w
      /\ \A u \in Ids \ {s} : session'[u] = session[u] /\ ending'[u] = ending[u]
    BY AfterBecomes DEF Alters, ReachInv
<1>2. \A u \in Ids : /\ session'[u].key = session[u].key /\ session'[u].life = session[u].life
                     /\ session'[u].running <=> session[u].running
                     /\ session'[u].link = "none" <=> session[u].link = "none"
    BY <1>1 DEF Alters
<1>3. NoLinkYet'
  <2>1. \A u \in Ids : session'[u].life = 0 => session'[u].link = "none"
      BY <1>2 DEF LeaveInv, NoLinkYet
  <2>2. \A u \in Ids : session'[u].link = "none" =>
            /\ ~session'[u].running /\ ~session'[u].hungup
            /\ \A r \in Reasons : ending'[u][r] = "none"
      BY <1>1 DEF LeaveInv, NoLinkYet, Alters
  <2>3. ASSUME NEW k \in Keys, managed'[k] # NoId
        PROVE  session'[managed'[k]].link = "none"
                   <=> sync'.at \in {"credentials", "warming", "connecting"} /\ sync'.s = managed'[k]
    <3>1. managed'[k] = managed[k] /\ managed[k] \in Ids
        BY <2>3 DEF Alters, ReachInv, SigType
    <3>2. session[managed[k]].link = "none"
              <=> sync.at \in {"credentials", "warming", "connecting"} /\ sync.s = managed[k]
        BY <2>3, <3>1 DEF LeaveInv, NoLinkYet
    <3>3. CASE sync' = sync
        BY <1>2, <3>1, <3>2, <3>3
    <3>4. CASE sync.at \in {"idle", "hanging"} /\ sync'.at \in {"idle", "hanging"}
        BY <1>2, <3>1, <3>2, <3>4
    <3>. QED  BY <3>3, <3>4 DEF Alters
  <2>. QED  BY <2>1, <2>2, <2>3 DEF NoLinkYet
<1>4. EndingIsMarked'
  <2>. SUFFICES ASSUME NEW u \in Ids
                PROVE  /\ session'[u].hungup => session'[u].done
                       /\ \A r \in Reasons : ending'[u][r] = "closing" => session'[u].hungup
                       /\ ending'[u]["connection"] # "waiting" /\ ending'[u]["remote"] # "telling"
                       /\ ending'[u]["remote"] = "closing" => sync'.at = "hanging" /\ sync'.s = u
                       /\ session'[u].link = "shaky" => session'[u].key # Room
      BY DEF EndingIsMarked
  <2>1. CASE u = s
      BY <1>1, <2>1 DEF StaysMarked
  <2>2. CASE u # s
    <3>1. session'[u] = session[u] /\ ending'[u] = ending[u]
        BY <1>1, <2>2
    <3>2. /\ session[u].hungup => session[u].done
          /\ \A r \in Reasons : ending[u][r] = "closing" => session[u].hungup
          /\ ending[u]["connection"] # "waiting" /\ ending[u]["remote"] # "telling"
          /\ ending[u]["remote"] = "closing" => sync.at = "hanging" /\ sync.s = u
          /\ session[u].link = "shaky" => session[u].key # Room
        BY DEF LeaveInv, EndingIsMarked
    <3>3. ending[u]["remote"] = "closing" => sync' = sync
        BY <2>2, <3>2 DEF Alters
    <3>. QED  BY <3>1, <3>2, <3>3
  <2>. QED  BY <2>1, <2>2
<1>5. HungUpCloses'
  <2>. SUFFICES ASSUME NEW u \in Ids PROVE Closing(ending'[u], session'[u])
      BY DEF HungUpCloses
  <2>1. CASE u = s
      BY <1>1, <2>1
  <2>2. CASE u # s
    <3>1. session'[u] = session[u] /\ ending'[u] = ending[u]
        BY <1>1, <2>2
    <3>. QED  BY <3>1 DEF LeaveInv, HungUpCloses
  <2>. QED  BY <2>1, <2>2
<1>6. MemberHasCall'
  <2>. SUFFICES ASSUME member' PROVE \E u \in Ids : ShownFor(u)'
      BY DEF MemberHasCall
  <2>1. PICK u \in Ids : ShownFor(u)
      BY DEF LeaveInv, MemberHasCall, StaysOwed
  <2>2. Owes(ending'[u], session'[u])
    <3>1. CASE u = s
      <4>1. w.key = Room /\ Owes(ending[s], session[s])
          BY <2>1, <3>1 DEF ShownFor, Alters
      <4>. QED  BY <1>1, <3>1, <4>1 DEF StaysOwed
    <3>2. CASE u # s
      <4>1. session'[u] = session[u] /\ ending'[u] = ending[u]
          BY <1>1, <3>2
      <4>. QED  BY <2>1, <4>1 DEF ShownFor
    <3>. QED  BY <3>1, <3>2
  <2>3. sync.s = u /\ sync.at \in {"connecting", "publishing"} => sync' = sync
      BY DEF Alters
  <2>4. lives' = lives
      BY DEF Alters
  <2>. QED  BY <1>2, <2>1, <2>2, <2>3, <2>4 DEF ShownFor
<1>. QED  BY <1>3, <1>4, <1>5, <1>6 DEF LeaveInv

\* What stands about a session.
LEMMA Marks ==
    ASSUME ReachInv, LeaveInv, NEW s \in Ids
    PROVE  /\ SigType /\ session[s] \in Session /\ ending[s] \in [Reasons -> Phases]
           /\ session[s].hungup => session[s].done
           /\ \A r \in Reasons : ending[s][r] = "closing" => session[s].hungup
           /\ ending[s]["connection"] # "waiting" /\ ending[s]["remote"] # "telling"
           /\ ending[s]["remote"] = "closing" => sync.at = "hanging" /\ sync.s = s
           /\ session[s].link = "shaky" => session[s].key # Room
           /\ Closing(ending[s], session[s])
           /\ session[s].link = "none" =>
                  /\ ~session[s].running /\ ~session[s].hungup
                  /\ \A r \in Reasons : ending[s][r] = "none"
    BY DEF ReachInv, SigType, LeaveInv, EndingIsMarked, HungUpCloses, NoLinkYet

\* A coroutine that neither closes nor leaves the handler.
LEMMA CallAlters ==
    ASSUME ReachInv, NEW s \in Ids, NEW w, GoesOn(s, w), sync' = sync,
           session[s].link # "none", w.link # "none", \A u \in Ids \ {s} : ending'[u] = ending[u]
    PROVE  Alters(s, w)
    BY DEF GoesOn, Alters

LEMMA ConnectionLeave ==
    ASSUME ReachInv, LeaveInv, NEW s \in Ids, ConnectionFails(s) PROVE LeaveInv'
<1>. DEFINE w == Lost(session[s])
<1>1. GoesOn(s, w) /\ Ends(s, "connection", "telling") /\ sync' = sync /\ member' = member
      /\ session[s].link \in {"open", "shaky"} /\ ending[s]["connection"] = "none"
    BY ConnectionGoesOn DEF ReachInv, ConnectionFails
<1>2. /\ session[s] \in Session
      /\ w.link = IF w.key = Room THEN "closed" ELSE "failed"
      /\ w.hungup <=> session[s].hungup
      /\ w.done <=> session[s].done
    BY <1>1, Marks, LostShape DEF GoesOn
<1>3. /\ ending'[s]["connection"] = "telling"
      /\ \A q \in Reasons \ {"connection"} : ending'[s][q] = ending[s][q]
      /\ \A u \in Ids \ {s} : ending'[u] = ending[u]
      /\ {"connection", "remote", "idle"} \subseteq Reasons
    BY <1>1, EndsShape DEF ReachInv, Reasons, Phases
<1>. HIDE DEF w
<1>4. Alters(s, w)
    BY <1>1, <1>2, <1>3, CallAlters
<1>5. StaysMarked(s, w)
    BY <1>1, <1>2, <1>3, Marks DEF StaysMarked
<1>6. Closing(ending'[s], w)
    BY <1>1, <1>2, <1>3, Marks DEF Closing
<1>7. StaysOwed(s, w)
    BY <1>1, <1>3 DEF StaysOwed, Owes
<1>. QED  BY <1>4, <1>5, <1>6, <1>7, AltersLeave DEF Alters

LEMMA LinkLeave ==
    ASSUME ReachInv, LeaveInv, NEW s \in Ids, Disconnects(s) \/ Recovers(s) PROVE LeaveInv'
<1>1. PICK link \in {"open", "shaky"} : GoesOn(s, Linked(session[s], link))
    BY LinkGoesOn DEF ReachInv
<1>. DEFINE w == Linked(session[s], link)
<1>2. session[s] \in Session /\ link \in Links /\ sync' = sync /\ member' = member
      /\ session[s].link \in {"open", "shaky"}
    BY Marks DEF Links, Disconnects, Recovers
<1>3. /\ w.link = link
      /\ w.hungup <=> session[s].hungup
      /\ w.done <=> session[s].done
    BY <1>2, LinkedShape
<1>4. w.key = session[s].key /\ w \in Session
    BY <1>1 DEF GoesOn
<1>5. {"none", "waiting"} \subseteq Phases /\ {"reconnect", "connection", "remote", "idle"} \subseteq Reasons
    BY DEF Phases, Reasons
<1>6. /\ \A q \in Reasons \ {"reconnect"} : ending'[s][q] = ending[s][q]
      /\ \A u \in Ids \ {s} : ending'[u] = ending[u]
      /\ ending'[s]["reconnect"] \in {"none", "waiting"} \/ ending' = ending
  <2>1. Ends(s, "reconnect", "waiting") \/ Ends(s, "reconnect", "none") \/ ending' = ending
      BY DEF Disconnects, Recovers
  <2>. QED  BY <1>5, <2>1, EndsShape DEF ReachInv
<1>8. session[s].key = Room => ~session[s].hungup
    BY <1>2, Marks DEF Disconnects, Recovers
<1>9. session[s].hungup => Disconnects(s) /\ ~(ending[s]["reconnect"] = "closing" /\ ending' # ending)
    BY DEF Disconnects, Recovers
<1>10. Alters(s, w)
  <2>1. w.link # "none" /\ session[s].link # "none"
      BY <1>2, <1>3
  <2>. HIDE DEF w
  <2>. QED  BY <1>1, <1>2, <1>6, <2>1, CallAlters DEF w
<1>11. w.link = "shaky" => w.key # Room
  <2>1. CASE Disconnects(s)
      BY <1>4, <2>1 DEF Disconnects
  <2>2. CASE Recovers(s)
      BY <1>4, <1>8, <2>2, Marks DEF Recovers
  <2>. QED  BY <2>1, <2>2
<1>. HIDE DEF w
<1>12. StaysMarked(s, w)
    BY <1>2, <1>3, <1>5, <1>6, <1>11, Marks DEF StaysMarked
<1>13. Closing(ending'[s], w)
  <2>. SUFFICES ASSUME w.hungup PROVE \E r \in Reasons : ending'[s][r] = "closing"
      BY DEF Closing
  <2>1. session[s].hungup /\ Disconnects(s)
      BY <1>3, <1>9
  <2>2. PICK r \in Reasons : ending[s][r] = "closing"
      BY <1>2, <2>1, Marks DEF Closing
  <2>3. ending'[s][r] = "closing"
      BY <1>6, <1>9, <2>1, <2>2
  <2>. QED  BY <2>3
<1>14. StaysOwed(s, w)
    BY <1>2, <1>3, <1>4, <1>8 DEF StaysOwed, Owes
<1>. QED  BY <1>10, <1>12, <1>13, <1>14, AltersLeave DEF Alters

LEMMA WatchLeave ==
    ASSUME ReachInv, LeaveInv, NEW s \in Ids, ReconnectTimesOut(s) \/ ConnectTimesOut(s) PROVE LeaveInv'
<1>. DEFINE w == session[s]
<1>1. GoesOn(s, w) /\ sync' = sync /\ member' = member
    BY WatchGoesOn DEF ReachInv, ReconnectTimesOut, ConnectTimesOut
<1>2. PICK r \in {"reconnect", "timeout"}, phase \in {"none", "telling"} :
          Ends(s, r, phase) /\ ending[s][r] \in {"none", "waiting"}
    BY DEF ReconnectTimesOut, ConnectTimesOut
<1>3. r \in Reasons /\ phase \in Phases /\ {"reconnect", "timeout", "connection", "remote", "idle"} \subseteq Reasons
    BY DEF Reasons, Phases
<1>4. /\ ending'[s][r] = phase
      /\ \A q \in Reasons \ {r} : ending'[s][q] = ending[s][q]
      /\ \A u \in Ids \ {s} : ending'[u] = ending[u]
    BY <1>2, <1>3, EndsShape DEF ReachInv
<1>5. w.link # "none"
    BY Marks DEF ReconnectTimesOut, ConnectTimesOut, Reasons
<1>6. Alters(s, w)
    BY <1>1, <1>4, <1>5, CallAlters
<1>7. \A q \in Reasons : /\ ending'[s][q] = "closing" <=> ending[s][q] = "closing"
                         /\ ending[s][q] = "telling" => ending'[s][q] = "telling"
    BY <1>2, <1>4
<1>8. ending'[s]["connection"] = ending[s]["connection"] /\ ending'[s]["remote"] = ending[s]["remote"]
    BY <1>3, <1>4
<1>. HIDE DEF w
<1>9. StaysMarked(s, w)
    BY <1>1, <1>3, <1>7, <1>8, Marks DEF StaysMarked, w
<1>11. Closing(ending'[s], w)
    BY <1>7, Marks DEF Closing, w
<1>10. StaysOwed(s, w)
    BY <1>1, <1>3, <1>7, <1>8 DEF StaysOwed, Owes, w
<1>. QED  BY <1>6, <1>9, <1>10, <1>11, AltersLeave DEF Alters

LEMMA MediaLeave ==
    ASSUME ReachInv, LeaveInv, NEW s \in Ids, MediaConnects(s) \/ MediaEnds(s) \/ PipelineFails(s)
    PROVE  LeaveInv'
<1>1. PICK w \in {Heard(session[s]), CallEnded(session[s])} : GoesOn(s, w)
    BY MediaGoesOn DEF ReachInv
<1>2. session[s] \in Session /\ sync' = sync /\ member' = member
    BY Marks DEF MediaConnects, MediaEnds, PipelineFails
<1>3. /\ w.link = session[s].link /\ w.key = session[s].key
      /\ w.hungup <=> session[s].hungup
      /\ session[s].done => w.done
    BY <1>1, <1>2, HeardShape, EndedShape DEF GoesOn
<1>4. session[s].link # "none"
    BY Marks DEF MediaConnects, MediaEnds, PipelineFails
<1>5. "media" \in Reasons /\ {"none", "telling"} \subseteq Phases /\ {"connection", "remote", "idle"} \subseteq Reasons
    BY DEF Reasons, Phases
<1>6. ending' = ending \/ (/\ ~session[s].hungup /\ session[s].key # Room
                           /\ ending'[s]["media"] \in {"none", "telling"}
                           /\ \A q \in Reasons \ {"media"} : ending'[s][q] = ending[s][q]
                           /\ \A u \in Ids \ {s} : ending'[u] = ending[u])
  <2>1. CASE MediaEnds(s)
    <3>1. ~session[s].hungup /\ session[s].key # Room
        BY <2>1, Marks DEF MediaEnds
    <3>2. Ends(s, "media", "telling")
        BY <2>1, <3>1 DEF MediaEnds
    <3>. QED  BY <1>5, <3>1, <3>2, EndsShape DEF ReachInv
  <2>2. CASE MediaConnects(s) \/ PipelineFails(s)
      BY <2>2 DEF MediaConnects, PipelineFails
  <2>. QED  BY <2>1, <2>2
<1>7. Alters(s, w)
    BY <1>1, <1>2, <1>3, <1>4, <1>6, CallAlters
<1>8. StaysMarked(s, w)
    BY <1>2, <1>3, <1>5, <1>6, Marks DEF StaysMarked
<1>9. Closing(ending'[s], w)
    BY <1>3, <1>6, Marks DEF Closing
<1>10. StaysOwed(s, w)
    BY <1>2, <1>3, <1>6 DEF StaysOwed, Owes
<1>. QED  BY <1>7, <1>8, <1>9, <1>10, AltersLeave DEF Alters

LEMMA InactiveLeave ==
    ASSUME ReachInv, LeaveInv, NEW s \in Ids, Inactive(s) PROVE LeaveInv'
<1>. DEFINE w == Marked(session[s])
<1>1. GoesOn(s, w) /\ Ends(s, "idle", "closing") /\ sync' = sync /\ member' = member /\ session[s].running
    BY InactiveGoesOn DEF ReachInv, Inactive
<1>2. session[s] \in Session /\ session[s].link # "none"
    BY <1>1, Marks
<1>3. w.hungup /\ w.done /\ w.link = session[s].link /\ w.key = session[s].key
    BY <1>1, <1>2, MarkedShape DEF GoesOn
<1>4. {"idle", "remote", "connection"} \subseteq Reasons /\ "closing" \in Phases
    BY DEF Reasons, Phases
<1>5. /\ ending'[s]["idle"] = "closing"
      /\ \A q \in Reasons \ {"idle"} : ending'[s][q] = ending[s][q]
      /\ \A u \in Ids \ {s} : ending'[u] = ending[u]
    BY <1>1, <1>4, EndsShape DEF ReachInv
<1>. HIDE DEF w
<1>6. Alters(s, w)
    BY <1>1, <1>2, <1>3, <1>5, CallAlters
<1>7. StaysMarked(s, w)
    BY <1>1, <1>3, <1>4, <1>5, Marks DEF StaysMarked
<1>8. Closing(ending'[s], w)
    BY <1>4, <1>5 DEF Closing
<1>9. StaysOwed(s, w)
    BY <1>1, <1>5 DEF StaysOwed, Owes
<1>. QED  BY <1>6, <1>7, <1>8, <1>9, AltersLeave DEF Alters

LEMMA ToldLeave ==
    ASSUME ReachInv, LeaveInv, NEW s \in Ids, NEW r \in Reasons, Told(s, r) PROVE LeaveInv'
<1>1. /\ ending[s][r] = "telling" /\ sync' = sync
      /\ member' => member /\ session[s].key # Room
      /\ {"remote", "connection", "idle"} \subseteq Reasons /\ {"none", "closing"} \subseteq Phases
    BY DEF Told, Reasons, Phases
<1>2. session[s] \in Session /\ session[s].link # "none"
    BY <1>1, Marks
<1>3. PICK w \in {session[s], Marked(session[s])} :
          /\ GoesOn(s, w)
          /\ \/ w = session[s] /\ Ends(s, r, "none")
             \/ w = Marked(session[s]) /\ Ends(s, r, IF session[s].hungup THEN "none" ELSE "closing")
  <2>1. CASE r = "idle"
    <3>1. session' = session /\ Ends(s, r, "none") /\ member' \in BOOLEAN /\ UNCHANGED <<managed, lives>>
        BY <2>1 DEF Told, ReachInv, SigType
    <3>2. ending' \in [Ids -> [Reasons -> Phases]]
        BY <1>1, <3>1, EndsShape DEF ReachInv
    <3>3. GoesOn(s, session[s])
        BY <1>1, <3>1, <3>2, SameSession DEF GoesOn, ReachInv
    <3>. QED  BY <3>1, <3>3
  <2>2. CASE r # "idle"
    <3>1. HangsUp(s, r) /\ member' \in BOOLEAN /\ UNCHANGED <<managed, lives>>
        BY <2>2 DEF Told, ReachInv, SigType
    <3>2. Becomes(s, Marked(session[s])) /\ Ends(s, r, IF session[s].hungup THEN "none" ELSE "closing")
        BY <3>1, HangsUpShape DEF ReachInv
    <3>3. (IF session[s].hungup THEN "none" ELSE "closing") \in Phases
        BY <1>1
    <3>4. GoesOn(s, Marked(session[s]))
        BY <1>1, <3>1, <3>2, <3>3, MarkGoesOn DEF ReachInv
    <3>. QED  BY <3>2, <3>4
  <2>. QED  BY <2>1, <2>2
<1>4. /\ w.link = session[s].link /\ w.key = session[s].key
      /\ session[s].hungup => w.hungup
      /\ w.hungup => w.done
    BY <1>2, <1>3, MarkedShape, Marks DEF GoesOn
<1>5. /\ ending'[s][r] \in {"none", "closing"}
      /\ ending'[s][r] = "closing" <=> w.hungup /\ ~session[s].hungup
      /\ \A q \in Reasons \ {r} : ending'[s][q] = ending[s][q]
      /\ \A u \in Ids \ {s} : ending'[u] = ending[u]
  <2>1. CASE w = session[s] /\ Ends(s, r, "none")
      BY <1>1, <2>1, EndsShape DEF ReachInv
  <2>2. CASE w = Marked(session[s]) /\ Ends(s, r, "none") /\ session[s].hungup
      BY <1>1, <1>2, <2>2, EndsShape DEF ReachInv
  <2>3. CASE w = Marked(session[s]) /\ Ends(s, r, "closing") /\ ~session[s].hungup
      BY <1>1, <1>2, <2>3, EndsShape, MarkedShape DEF ReachInv
  <2>. QED  BY <1>3, <2>1, <2>2, <2>3
<1>6. Alters(s, w)
    BY <1>1, <1>2, <1>3, <1>4, <1>5, CallAlters
<1>7. r # "remote"
    BY <1>1, Marks
<1>8. StaysMarked(s, w)
    BY <1>1, <1>4, <1>5, <1>7, Marks DEF StaysMarked
<1>9. Closing(ending'[s], w)
    BY <1>1, <1>4, <1>5, Marks DEF Closing
<1>10. StaysOwed(s, w)
    BY <1>1, <1>4 DEF StaysOwed
<1>. QED  BY <1>6, <1>8, <1>9, <1>10, AltersLeave DEF Alters

\* The transport is closed; LiveKit may have something to report, and the idle watchdog to tell.
LEMMA ClosedLeave ==
    ASSUME ReachInv, LeaveInv, NEW s \in Ids, NEW r \in Reasons, Closed(s, r) PROVE LeaveInv'
<1>. DEFINE w == Shut(session[s])
<1>1. /\ ending[s][r] = "closing" /\ member' = member /\ UNCHANGED <<managed, lives>>
      /\ r = "remote" => sync' = Idle
      /\ r # "remote" => sync' = sync
      /\ {"remote", "connection", "idle"} \subseteq Reasons
    BY DEF Closed, Reasons
<1>2. /\ Becomes(s, w)
      /\ ending' \in [Ids -> [Reasons -> Phases]]
      /\ \A u \in Ids \ {s} : ending'[u] = ending[u]
      /\ ending'[s][r] = IF r = "idle" THEN "telling" ELSE "none"
      /\ \A q \in Reasons \ {r} :
             ending'[s][q] = IF q = "connection" /\ session[s].key = Room /\ session[s].link = "open"
                                /\ ending[s][q] = "none"
                             THEN "telling" ELSE ending[s][q]
    BY ClosedShape DEF ReachInv
<1>3. session[s] \in Session /\ session[s].link # "none" /\ session[s].hungup /\ session[s].done
    BY <1>1, Marks
<1>4. /\ w.link = "closed" /\ w.hungup /\ w.done
      /\ w.running <=> session[s].running
      /\ w \in Session /\ w.key = session[s].key /\ w.life = session[s].life
    BY <1>3, ShutShape, Shapes DEF Links
<1>. HIDE DEF w
<1>5. sync' = sync \/ (sync.at = "hanging" /\ sync.s = s /\ sync'.at = "idle")
    BY <1>1, Marks DEF Idle
<1>6. Alters(s, w)
    BY <1>1, <1>2, <1>3, <1>4, <1>5 DEF Alters
<1>7. ending'[s]["remote"] = "closing" => r # "remote" /\ ending[s]["remote"] = "closing"
    BY <1>1, <1>2
<1>8. ending'[s]["connection"] # "waiting"
    BY <1>1, <1>2, Marks
<1>9. ending'[s]["remote"] # "telling"
    BY <1>1, <1>2, Marks
<1>10. StaysMarked(s, w)
  <2>1. ending'[s]["remote"] = "closing" => sync'.at = "hanging" /\ sync'.s = s
      BY <1>1, <1>7, Marks
  <2>. QED  BY <1>4, <1>8, <1>9, <2>1 DEF StaysMarked
<1>11. Closing(ending'[s], w)
    BY <1>4 DEF Closing
<1>12. StaysOwed(s, w)
  <2>. SUFFICES ASSUME w.key = Room, Owes(ending[s], session[s]) PROVE Owes(ending'[s], w)
      BY <1>1 DEF StaysOwed
  <2>1. CASE \E q \in Reasons : ending[s][q] = "telling"
    <3>1. PICK q \in Reasons : ending[s][q] = "telling"
        BY <2>1
    <3>2. ending'[s][q] = "telling"
        BY <1>1, <1>2, <3>1
    <3>. QED  BY <3>2 DEF Owes
  <2>2. CASE ending[s]["idle"] = "closing"
    <3>1. ending'[s]["idle"] \in {"telling", "closing"}
        BY <1>1, <1>2, <2>2
    <3>. QED  BY <1>1, <3>1 DEF Owes
  <2>3. CASE ending[s]["remote"] = "closing" /\ session[s].link = "open" /\ ending[s]["connection"] = "none"
    <3>1. r # "connection"
        BY <1>1, <2>3
    <3>2. ending'[s]["connection"] = "telling"
        BY <1>1, <1>2, <1>4, <2>3, <3>1
    <3>. QED  BY <1>1, <3>2 DEF Owes
  <2>. QED  BY <1>3, <2>1, <2>2, <2>3 DEF Owes
<1>. QED  BY <1>3, <1>4, <1>6, <1>10, <1>11, <1>12, AltersLeave

\* The other side hangs up: a call in the room that goes on will be told of its closing.
LEMMA RemoteLeave ==
    ASSUME ReachInv, LeaveInv, NEW k \in Keys, RemoteHangsUp(k) PROVE LeaveInv'
<1>1. PICK s \in Ids :
          /\ s = managed[k]
          /\ k = Room => ~Finished(s)
          /\ managed' = [managed EXCEPT ![k] = NoId]
          /\ HangsUp(s, "remote")
          /\ sync' = IF session[s].hungup THEN Idle ELSE [at |-> "hanging", key |-> k, s |-> s]
          /\ sync.at = "idle" /\ UNCHANGED <<member, lives>>
    BY DEF RemoteHangsUp, At, ReachInv, SigType
<1>. DEFINE w == Marked(session[s])
<1>2. "remote" \in Reasons /\ {"none", "closing"} \subseteq Phases /\ {"connection", "idle"} \subseteq Reasons
    BY DEF Reasons, Phases
<1>3. managed[k] # NoId /\ s # NoId
    BY <1>1 DEF Ids, NoId
<1>4. session[s] \in Session /\ session[s].key = k /\ session[s].link # "none"
  <2>1. session[s].key = k
      BY <1>1, <1>3 DEF ReachInv, ManagedIsOwn
  <2>2. session[s].link # "none"
      BY <1>1, <1>3 DEF LeaveInv, NoLinkYet
  <2>. QED  BY <2>1, <2>2, Marks
<1>5. /\ w \in Session /\ w.hungup /\ w.done /\ w.link = session[s].link
      /\ w.key = session[s].key /\ w.life = session[s].life
      /\ w.running <=> session[s].running
    BY <1>4, Shapes, MarkedShape DEF Links
<1>6. /\ Becomes(s, w) /\ ending' \in [Ids -> [Reasons -> Phases]]
      /\ ending'[s]["remote"] = IF session[s].hungup THEN "none" ELSE "closing"
      /\ \A q \in Reasons \ {"remote"} : ending'[s][q] = ending[s][q]
      /\ \A u \in Ids \ {s} : ending'[u] = ending[u]
  <2>1. Ends(s, "remote", IF session[s].hungup THEN "none" ELSE "closing") /\ Becomes(s, w)
      BY <1>1 DEF HangsUp, Becomes, Marked
  <2>2. (IF session[s].hungup THEN "none" ELSE "closing") \in Phases
      BY <1>2
  <2>. QED  BY <1>2, <2>1, <2>2, EndsShape DEF ReachInv
<1>. HIDE DEF w
<1>7. ending[s]["remote"] # "closing"
    BY <1>1, Marks
<1>8. /\ session[s].hungup => sync'.at = "idle"
      /\ ~session[s].hungup => sync'.at = "hanging" /\ sync'.s = s
    BY <1>1 DEF Idle
<1>9. Alters(s, w)
  <2>1. \A j \in Keys : managed'[j] \in {managed[j], NoId}
      BY <1>1 DEF ReachInv, SigType
  <2>. QED  BY <1>1, <1>4, <1>5, <1>6, <1>8, <2>1 DEF Alters
<1>10. StaysMarked(s, w)
    BY <1>2, <1>5, <1>6, <1>8, Marks DEF StaysMarked
<1>11. Closing(ending'[s], w)
  <2>1. CASE session[s].hungup
    <3>1. session[s].link \in {"none", "closed"} \/ \E r \in Reasons \ {"remote"} : ending[s][r] = "closing"
        BY <1>7, <2>1, Marks DEF Closing
    <3>. QED  BY <1>5, <1>6, <3>1 DEF Closing
  <2>2. CASE ~session[s].hungup
      BY <1>2, <1>6, <2>2 DEF Closing
  <2>. QED  BY <2>1, <2>2
<1>12. StaysOwed(s, w)
  <2>. SUFFICES ASSUME w.key = Room PROVE Owes(ending'[s], w)
      BY <1>1 DEF StaysOwed
  <2>1. ~session[s].hungup /\ session[s].link \notin {"failed", "closed", "shaky", "none"}
      BY <1>1, <1>4, <1>5, Marks DEF Finished
  <2>2. w.link = "open" /\ ending'[s]["remote"] = "closing"
      BY <1>4, <1>5, <1>6, <2>1 DEF Session
  <2>3. ending[s]["connection"] \in {"none", "telling"}
      BY <1>2, <2>1, Marks DEF Phases
  <2>4. ending'[s]["connection"] = ending[s]["connection"]
      BY <1>2, <1>6
  <2>. QED  BY <1>2, <2>2, <2>3, <2>4 DEF Owes
<1>. QED  BY <1>5, <1>9, <1>10, <1>11, <1>12, AltersLeave

\* The handler's session while it takes the call: what ends a call does not change.
LEMMA TakingLeave ==
    ASSUME ReachInv, LeaveInv, NEW s \in Ids, sync.s = s, sync.at \in Taking, NEW w \in Session,
           Becomes(s, w), w.key = session[s].key, w.life = session[s].life,
           w.hungup <=> session[s].hungup, w.done <=> session[s].done,
           session[s].running => w.running,
           w.link = session[s].link \/ session[s].link = "none",
           w.link \in {"open", "closed"} \/ w.link = session[s].link,
           w.link = "none" => ~w.running,
           NEW keep \in BOOLEAN,
           keep => managed' = managed,
           ~keep => managed' = [managed EXCEPT ![sync.key] = NoId],
           keep => (w.link = "none" <=> sync'.at \in {"credentials", "warming", "connecting"} /\ sync'.s = s),
           sync'.at \in {"credentials", "warming", "connecting"} => sync'.s = s,
           sync'.at # "hanging",
           member' => \/ member /\ (sync.at \in {"connecting", "publishing"} =>
                                        w.running \/ (sync'.s = s /\ sync'.at \in {"connecting", "publishing"}))
                      \/ (sync'.s = s /\ sync'.at = "connecting" /\ w.key = Room /\ ~w.hungup),
           UNCHANGED <<ending, lives>>
    PROVE  LeaveInv'
<1>0. s # NoId /\ SigType /\ managed[sync.key] = s /\ sync.key \in Keys
    BY DEF ReachInv, TakenIsManaged, SigType, Ids, NoId
<1>1. /\ session' \in [Ids -> Session] /\ session'[s] = w
      /\ \A u \in Ids \ {s} : session'[u] = session[u]
    BY <1>0, AfterBecomes
<1>2. session[s].life > 0
    BY <1>0 DEF ReachInv, ManagedIsOwn, SigType
<1>3. session[s].link = "none" => ~session[s].hungup /\ \A r \in Reasons : ending[s][r] = "none"
    BY <1>0 DEF LeaveInv, NoLinkYet
<1>4. NoLinkYet'
  <2>1. \A u \in Ids : session'[u].life = 0 => session'[u].link = "none"
      BY <1>0, <1>1, <1>2 DEF LeaveInv, NoLinkYet
  <2>2. \A u \in Ids : session'[u].link = "none" =>
            /\ ~session'[u].running /\ ~session'[u].hungup
            /\ \A r \in Reasons : ending'[u][r] = "none"
      BY <1>0, <1>1, <1>3 DEF LeaveInv, NoLinkYet
  <2>3. ASSUME NEW k \in Keys, managed'[k] # NoId
        PROVE  session'[managed'[k]].link = "none"
                   <=> sync'.at \in {"credentials", "warming", "connecting"} /\ sync'.s = managed'[k]
    <3>1. managed'[k] = managed[k] /\ managed[k] \in Ids
        BY <1>0, <2>3 DEF SigType
    <3>2. session[managed[k]].link = "none"
              <=> sync.at \in {"credentials", "warming", "connecting"} /\ sync.s = managed[k]
        BY <2>3, <3>1 DEF LeaveInv, NoLinkYet
    <3>3. CASE managed[k] = s
      <4>1. session[s].key = k /\ session[s].key = sync.key
          BY <1>0, <2>3, <3>1, <3>3 DEF ReachInv, ManagedIsOwn
      <4>2. keep
          BY <1>0, <2>3, <4>1 DEF SigType
      <4>. QED  BY <1>1, <3>1, <3>3, <4>2
    <3>4. CASE managed[k] # s
        BY <1>1, <3>1, <3>2, <3>4
    <3>. QED  BY <3>3, <3>4
  <2>. QED  BY <2>1, <2>2, <2>3 DEF NoLinkYet
<1>5. EndingIsMarked'
  <2>. SUFFICES ASSUME NEW u \in Ids
                PROVE  /\ session'[u].hungup => session'[u].done
                       /\ \A r \in Reasons : ending'[u][r] = "closing" => session'[u].hungup
                       /\ ending'[u]["connection"] # "waiting" /\ ending'[u]["remote"] # "telling"
                       /\ ending'[u]["remote"] = "closing" => sync'.at = "hanging" /\ sync'.s = u
                       /\ session'[u].link = "shaky" => session'[u].key # Room
      BY DEF EndingIsMarked
  <2>1. ending'[u]["remote"] # "closing"
      BY Marks DEF Taking, Joining
  <2>2. CASE u = s
      BY <1>1, <2>1, <2>2, Marks
  <2>3. CASE u # s
      BY <1>1, <2>1, <2>3, Marks
  <2>. QED  BY <2>2, <2>3
<1>6. HungUpCloses'
  <2>. SUFFICES ASSUME NEW u \in Ids PROVE Closing(ending'[u], session'[u])
      BY DEF HungUpCloses
  <2>1. CASE u = s
      BY <1>0, <1>1, <1>3, <2>1, Marks DEF Closing
  <2>2. CASE u # s
      BY <1>1, <2>2, Marks DEF Closing
  <2>. QED  BY <2>1, <2>2
<1>7. MemberHasCall'
  <2>. SUFFICES ASSUME member' PROVE \E u \in Ids : ShownFor(u)'
      BY DEF MemberHasCall
  <2>1. CASE sync'.s = s /\ sync'.at = "connecting" /\ w.key = Room /\ ~w.hungup
    <3>1. ShownFor(s)'
        BY <1>0, <1>1, <1>2, <2>1 DEF ShownFor, Owes
    <3>. QED  BY <1>0, <3>1
  <2>2. CASE member /\ (sync.at \in {"connecting", "publishing"} =>
                            w.running \/ (sync'.s = s /\ sync'.at \in {"connecting", "publishing"}))
    <3>1. PICK u \in Ids : ShownFor(u)
        BY <2>2 DEF LeaveInv, MemberHasCall
    <3>2. CASE u = s
      <4>1. Owes(ending'[s], session'[s])
          BY <1>0, <1>1, <1>3, <3>1, <3>2 DEF ShownFor, Owes
      <4>. QED  BY <1>1, <2>2, <3>1, <3>2, <4>1 DEF ShownFor
    <3>3. CASE u # s
        BY <1>1, <3>1, <3>3 DEF ShownFor
    <3>. QED  BY <3>2, <3>3
  <2>. QED  BY <2>1, <2>2
<1>. QED  BY <1>4, <1>5, <1>6, <1>7 DEF LeaveInv

\* The handler's own steps.
LEMMA HandlerLeave ==
    ASSUME ReachInv, LeaveInv, Credentials \/ Warmed \/ Connected \/ Published \/ Described \/ Answered
    PROVE  LeaveInv'
<1>1. PICK s \in Ids : sync.s = s /\ managed[sync.key] = s
  <2>1. sync.at \in Taking
      BY DEF Credentials, Warmed, Connected, Published, Described, Answered, At, Taking, Joining
  <2>. QED  BY <2>1 DEF ReachInv, TakenIsManaged
<1>2. session[s] \in Session /\ SigType /\ s # NoId /\ session[s].key = sync.key /\ sync.key \in Keys
    BY <1>1 DEF ReachInv, SigType, ManagedIsOwn, Ids, NoId
<1>3. session[s].link = "none" <=> sync.at \in {"credentials", "warming", "connecting"}
    BY <1>1, <1>2 DEF LeaveInv, NoLinkYet
<1>4. session[s].link = "none" => ~session[s].hungup /\ ~session[s].running
    BY Marks
<1>5. {"open", "closed"} \subseteq Links
    BY DEF Links
<1>. DEFINE linked == Linked(session[s], "open")
            shut == Linked(session[s], "closed")
            live == Live(session[s])
            started == Started(session[s])
            replied == Replied(session[s])
<1>6. /\ {linked, shut, live, started, replied} \subseteq Session
      /\ \A v \in {linked, shut, live, started, replied} : v.key = session[s].key /\ v.life = session[s].life
    BY <1>2, <1>5, Shapes
<1>7. /\ linked.link = "open" /\ shut.link = "closed"
      /\ \A v \in {linked, shut} :
             /\ v.running <=> session[s].running
             /\ v.hungup <=> session[s].hungup
             /\ v.done <=> session[s].done
    BY <1>2, <1>5, LinkedShape
<1>8. /\ live.running /\ started.running
      /\ replied.running <=> session[s].running
      /\ \A v \in {live, started, replied} :
             /\ v.link = session[s].link
             /\ v.hungup <=> session[s].hungup
             /\ v.done <=> session[s].done
    BY <1>2, HeardShape, StartedShape
<1>. HIDE DEF linked, shut, live, started, replied
<1>9. CASE Credentials /\ ~JoinGivenUp
  <2>1. /\ sync.at = "credentials" /\ session' = session /\ sync'.at = "warming" /\ sync'.s = s
        /\ UNCHANGED <<managed, member, ending, lives>>
      BY <1>1, <1>2, <1>9 DEF Credentials, At, Goto, SigType
  <2>2. Becomes(s, session[s])
      BY <1>2, <2>1, SameSession
  <2>3. sync.at \in Taking
      BY <2>1 DEF Taking, Joining
  <2>. QED  BY <1>1, <1>2, <1>3, <1>4, <2>1, <2>2, <2>3, TakingLeave
<1>10. CASE Warmed /\ sync.key = Room
  <2>1. /\ sync.at = "warming" /\ session' = session /\ sync'.at = "connecting" /\ sync'.s = s
        /\ UNCHANGED <<managed, ending, lives>>
      BY <1>1, <1>2, <1>10 DEF Warmed, At, Goto, SigType
  <2>2. Becomes(s, session[s])
      BY <1>2, <2>1, SameSession
  <2>3. sync.at \in Taking
      BY <2>1 DEF Taking, Joining
  <2>. QED  BY <1>1, <1>2, <1>3, <1>4, <1>10, <2>1, <2>2, <2>3, TakingLeave
<1>11. CASE Warmed /\ sync.key # Room
  <2>1. /\ sync.at = "warming" /\ Becomes(s, linked) /\ sync'.at = "describing" /\ sync'.s = s
        /\ UNCHANGED <<managed, member, ending, lives>>
      BY <1>1, <1>2, <1>11 DEF Warmed, At, Goto, SigType, Becomes, Linked, linked
  <2>2. sync.at \in Taking
      BY <2>1 DEF Taking, Joining
  <2>. QED  BY <1>1, <1>3, <1>4, <1>6, <1>7, <2>1, <2>2, TakingLeave
<1>12. CASE Connected /\ ~JoinGivenUp
  <2>1. /\ sync.at = "connecting" /\ Becomes(s, linked) /\ sync'.at = "publishing" /\ sync'.s = s
        /\ UNCHANGED <<managed, member, ending, lives>>
      BY <1>1, <1>2, <1>12 DEF Connected, At, Goto, SigType, Becomes, Linked, linked
  <2>2. sync.at \in Taking
      BY <2>1 DEF Taking, Joining
  <2>. QED  BY <1>1, <1>3, <1>4, <1>6, <1>7, <2>1, <2>2, TakingLeave
<1>13. CASE (Credentials \/ Connected) /\ JoinGivenUp
  <2>1. /\ sync.at \in {"credentials", "connecting"} /\ sync'.at = "idle" /\ ~member'
        /\ managed' = [managed EXCEPT ![Room] = NoId] /\ UNCHANGED <<ending, lives>>
      BY <1>13 DEF Credentials, Connected, At, JoinGivenUp, Idle
  <2>2. sync.at \in Taking /\ sync.key = Room
      BY <2>1 DEF Taking, Joining, ReachInv, TakenIsManaged
  <2>3. Becomes(s, session[s]) \/ Becomes(s, shut)
    <3>1. CASE session' = session
        BY <1>2, <3>1, SameSession
    <3>2. CASE session' = [session EXCEPT ![sync.s].link = "closed"]
        BY <1>1, <3>2 DEF Becomes, Linked, shut
    <3>. QED  BY <1>13, <3>1, <3>2 DEF Credentials, Connected, JoinGivenUp, Idle, Goto
  <2>4. CASE Becomes(s, session[s])
      BY <1>1, <1>2, <1>3, <1>4, <2>1, <2>2, <2>4, TakingLeave
  <2>5. CASE Becomes(s, shut)
      BY <1>1, <1>3, <1>4, <1>6, <1>7, <2>1, <2>2, <2>5, TakingLeave
  <2>. QED  BY <2>3, <2>4, <2>5
<1>14. CASE Published
  <2>1. /\ sync.at = "publishing" /\ Becomes(s, live) /\ sync'.at = "idle"
        /\ UNCHANGED <<managed, member, ending, lives>>
      BY <1>1, <1>14 DEF Published, At, Idle, Becomes, Live, live
  <2>2. sync.at \in Taking
      BY <2>1 DEF Taking, Joining
  <2>. QED  BY <1>1, <1>3, <1>6, <1>8, <2>1, <2>2, TakingLeave
<1>15. CASE Described
  <2>1. /\ sync.at = "describing" /\ Becomes(s, started) /\ sync'.at = "answering" /\ sync'.s = s
        /\ UNCHANGED <<managed, member, ending, lives>>
      BY <1>1, <1>2, <1>15 DEF Described, At, Goto, SigType, Becomes, Started, started
  <2>2. sync.at \in Taking
      BY <2>1 DEF Taking, Joining
  <2>. QED  BY <1>1, <1>3, <1>6, <1>8, <2>1, <2>2, TakingLeave
<1>16. CASE Answered
  <2>1. /\ sync.at = "answering" /\ Becomes(s, replied) /\ sync'.at = "idle"
        /\ UNCHANGED <<managed, member, ending, lives>>
      BY <1>1, <1>16 DEF Answered, At, Idle, Becomes, Replied, replied
  <2>2. sync.at \in Taking
      BY <2>1 DEF Taking, Joining
  <2>. QED  BY <1>1, <1>3, <1>4, <1>6, <1>8, <2>1, <2>2, TakingLeave
<1>. QED  BY <1>9, <1>10, <1>11, <1>12, <1>13, <1>14, <1>15, <1>16

\* A session is made.
LEMMA CreatedLeave ==
    ASSUME ReachInv, LeaveInv, SessionCreated PROVE LeaveInv'
<1>. DEFINE k == sync.key
<1>1. SigType /\ k \in Keys /\ managed[k] = NoId /\ sync.at = "root"
    BY DEF ReachInv, SigType, SessionCreated, At, TakenIsManaged
<1>2. PICK s \in Ids \ Created :
          /\ session' = [session EXCEPT ![s] = [NoSession EXCEPT !.key = k, !.life = lives + 1]]
          /\ managed' = [managed EXCEPT ![k] = s]
          /\ sync' = [sync EXCEPT !.s = s, !.at = IF k = Room THEN "credentials" ELSE "warming"]
          /\ UNCHANGED <<ending, member, lives>>
    BY DEF SessionCreated
<1>. DEFINE w == [NoSession EXCEPT !.key = k, !.life = lives + 1]
<1>3. /\ session' = [session EXCEPT ![s] = w]
      /\ w.life = lives + 1 /\ w.link = "none" /\ ~w.running /\ ~w.hungup
  <2>1. NoSession \in Session /\ NoSession.link = "none" /\ ~NoSession.running /\ ~NoSession.hungup
      BY DEF NoSession, Session, Keys
  <2>2. /\ w.life = lives + 1 /\ w.link = NoSession.link /\ w.running = NoSession.running
        /\ w.hungup = NoSession.hungup
      BY <2>1 DEF Session
  <2>. QED  BY <1>2, <2>1, <2>2
<1>. HIDE DEF w
<1>0. s \in Ids /\ {"remote", "connection"} \subseteq Reasons
    BY <1>2 DEF Reasons
<1>4. session'[s] = w /\ \A u \in Ids \ {s} : session'[u] = session[u]
    BY <1>1, <1>3 DEF SigType
<1>5. session[s].life = 0
    BY <1>1, <1>2 DEF Created, SigType, Session
<1>6. session[s].link = "none" /\ \A r \in Reasons : ending[s][r] = "none"
    BY <1>5 DEF LeaveInv, NoLinkYet
<1>7. sync'.s = s /\ sync'.at \in {"credentials", "warming"}
    BY <1>1, <1>2 DEF SigType
<1>8. managed'[k] = s /\ \A j \in Keys \ {k} : managed'[j] = managed[j]
    BY <1>1, <1>2 DEF SigType
<1>9. lives \in Nat /\ lives + 1 # 0
    BY <1>1 DEF SigType
<1>10. NoLinkYet'
  <2>1. \A u \in Ids : session'[u].life = 0 => session'[u].link = "none"
      BY <1>3, <1>4 DEF LeaveInv, NoLinkYet
  <2>2. \A u \in Ids : session'[u].link = "none" =>
            /\ ~session'[u].running /\ ~session'[u].hungup
            /\ \A r \in Reasons : ending'[u][r] = "none"
    <3>1. \A u \in Ids \ {s} : session[u].link = "none" =>
              /\ ~session[u].running /\ ~session[u].hungup
              /\ \A r \in Reasons : ending[u][r] = "none"
        BY DEF LeaveInv, NoLinkYet
    <3>2. ending' = ending
        BY <1>2
    <3>. QED  BY <1>3, <1>4, <1>6, <3>1, <3>2
  <2>3. ASSUME NEW j \in Keys, managed'[j] # NoId
        PROVE  session'[managed'[j]].link = "none"
                   <=> sync'.at \in {"credentials", "warming", "connecting"} /\ sync'.s = managed'[j]
    <3>1. CASE j = k
        BY <1>3, <1>4, <1>7, <1>8, <3>1
    <3>2. CASE j # k
      <4>1. managed'[j] = managed[j] /\ managed[j] \in Ids
          BY <1>1, <1>8, <2>3, <3>2 DEF SigType
      <4>2. session[managed[j]].life = lives + 1
          BY <2>3, <4>1 DEF ReachInv, ManagedIsOwn
      <4>3. managed[j] # s
          BY <1>5, <1>9, <4>2
      <4>4. session[managed[j]].link # "none"
          BY <1>1, <2>3, <4>1 DEF LeaveInv, NoLinkYet
      <4>. QED  BY <1>4, <1>7, <4>1, <4>3, <4>4
    <3>. QED  BY <3>1, <3>2
  <2>. QED  BY <2>1, <2>2, <2>3 DEF NoLinkYet
<1>11. EndingIsMarked'
  <2>. SUFFICES ASSUME NEW u \in Ids
                PROVE  /\ session'[u].hungup => session'[u].done
                       /\ \A r \in Reasons : ending'[u][r] = "closing" => session'[u].hungup
                       /\ ending'[u]["connection"] # "waiting" /\ ending'[u]["remote"] # "telling"
                       /\ ending'[u]["remote"] = "closing" => sync'.at = "hanging" /\ sync'.s = u
                       /\ session'[u].link = "shaky" => session'[u].key # Room
      BY DEF EndingIsMarked
  <2>1. CASE u = s
    <3>1. ending' = ending
        BY <1>2
    <3>. QED  BY <1>0, <1>3, <1>4, <1>6, <2>1, <3>1
  <2>2. CASE u # s
      BY <1>1, <1>2, <1>4, <2>2, Marks
  <2>. QED  BY <2>1, <2>2
<1>12. HungUpCloses'
    BY <1>2, <1>3, <1>4 DEF LeaveInv, HungUpCloses, Closing
<1>13. MemberHasCall'
  <2>. SUFFICES ASSUME member PROVE \E u \in Ids : ShownFor(u)'
      BY <1>2 DEF MemberHasCall
  <2>1. PICK u \in Ids : ShownFor(u)
      BY DEF LeaveInv, MemberHasCall
  <2>2. u # s
      BY <1>5, <2>1 DEF ShownFor
  <2>3. ShownFor(u)'
      BY <1>1, <1>2, <1>4, <2>1, <2>2 DEF ShownFor
  <2>. QED  BY <2>3
<1>. QED  BY <1>10, <1>11, <1>12, <1>13 DEF LeaveInv

\* Nothing is at work for the old managers, and a membership they left is of an earlier life.
LEMMA RaisesLeave == ASSUME ReachInv, LeaveInv, HandlerRaises PROVE LeaveInv'
<1>1. /\ lives' = lives + 1 /\ managed' = [k \in Keys |-> NoId] /\ sync' = Idle
      /\ UNCHANGED <<session, ending, member>> /\ sync.at \in {"describing", "answering", "publishing"}
    BY DEF HandlerRaises
<1>2. NoLinkYet'
    BY <1>1 DEF LeaveInv, NoLinkYet
<1>3. EndingIsMarked'
    BY <1>1, Marks DEF EndingIsMarked
<1>4. HungUpCloses'
    BY <1>1 DEF LeaveInv, HungUpCloses
<1>5. \A s \in Ids : session[s].life \in Nat /\ session[s].life <= lives + 1 /\ lives \in Nat
    BY DEF ReachInv, NoLaterLife, SigType, Session
<1>6. \A s \in Ids : session[s].life < lives' + 1
    BY <1>1, <1>5
<1>7. MemberHasCall'
    BY <1>1, <1>6 DEF LeaveInv, MemberHasCall, ShownFor
<1>. QED  BY <1>2, <1>3, <1>4, <1>7 DEF LeaveInv

\* A handler begins.
LEMMA ArrivesLeave ==
    ASSUME ReachInv, LeaveInv, (\E c \in Calls : InviteArrives(c)) \/ MemberJoined PROVE LeaveInv'
<1>1. /\ sync.at = "idle" /\ sync'.at = "root" /\ UNCHANGED <<session, ending, member, lives>>
      /\ \A k \in Keys : managed'[k] \in {managed[k], NoId}
    BY DEF InviteArrives, MemberJoined, At, ReachInv, SigType
<1>2. NoLinkYet'
  <2>1. ASSUME NEW k \in Keys, managed'[k] # NoId PROVE session[managed'[k]].link # "none"
    <3>1. managed'[k] = managed[k]
        BY <1>1, <2>1
    <3>. QED  BY <1>1, <2>1, <3>1 DEF LeaveInv, NoLinkYet
  <2>. QED  BY <1>1, <2>1 DEF LeaveInv, NoLinkYet
<1>3. EndingIsMarked'
    BY <1>1, Marks DEF EndingIsMarked
<1>4. HungUpCloses'
    BY <1>1 DEF LeaveInv, HungUpCloses
<1>5. MemberHasCall'
    BY <1>1 DEF LeaveInv, MemberHasCall, ShownFor
<1>. QED  BY <1>2, <1>3, <1>4, <1>5 DEF LeaveInv

LEMMA LeaveStep == ReachInv /\ LeaveInv /\ [SigNext]_sigVars => LeaveInv'
<1>. SUFFICES ASSUME ReachInv, LeaveInv, [SigNext]_sigVars PROVE LeaveInv'
    OBVIOUS
<1>1. ASSUME NEW s \in Ids, CallSteps(s) PROVE LeaveInv'
    BY <1>1, ConnectionLeave, LinkLeave, WatchLeave, MediaLeave, InactiveLeave, ToldLeave, ClosedLeave
       DEF CallSteps, Coroutine
<1>2. CASE Handler
    BY <1>2, CreatedLeave, HandlerLeave DEF Handler
<1>3. CASE UNCHANGED sigVars
    BY <1>3 DEF LeaveInv, sigVars, NoLinkYet, EndingIsMarked, HungUpCloses, MemberHasCall, ShownFor
<1>4. ASSUME SigNext, ~Handler, ~(\E s \in Created : CallSteps(s)) PROVE LeaveInv'
    BY <1>4, ArrivesLeave, RaisesLeave, RemoteLeave DEF SigNext, CallSteps
<1>5. \A s \in Created : s \in Ids
    BY DEF Created
<1>. QED  BY <1>1, <1>2, <1>3, <1>4, <1>5

LEMMA LeaveStart == SigInit => LeaveInv
    BY DEF SigInit, LeaveInv, NoLinkYet, EndingIsMarked, HungUpCloses, MemberHasCall, NoSession, Closing,
           Idle, Reasons

\* A call that was hung up, whose endings have ended, is closed, and Pawlia is shown in the room
\* only for another one.
LEMMA LeavesNothing == ReachInv /\ LeaveInv => NothingLeftBehind
<1>. SUFFICES ASSUME ReachInv, LeaveInv, NEW s \in Created, session[s].hungup, Quiet(s)
              PROVE  /\ session[s].link \in {"none", "closed"}
                     /\ session[s].key = Room /\ member =>
                            \E t \in Created \ {s} : session[t].key = Room
                                /\ (session[t].running \/ ~Quiet(t) \/ session[t].life < lives + 1)
    BY DEF NothingLeftBehind
<1>1. s \in Ids /\ {"idle", "remote"} \subseteq Reasons
    BY DEF Created, Reasons
<1>2. \A r \in Reasons : ending[s][r] \notin {"closing", "telling"}
    BY DEF Quiet
<1>3. session[s].link \in {"none", "closed"}
    BY <1>1, <1>2, Marks DEF Closing
<1>4. ASSUME member PROVE \E t \in Created \ {s} : session[t].key = Room
                              /\ (session[t].running \/ ~Quiet(t) \/ session[t].life < lives + 1)
  <2>1. PICK t \in Ids : ShownFor(t)
      BY <1>4 DEF LeaveInv, MemberHasCall
  <2>2. t # s
      BY <1>1, <1>2, <2>1 DEF ShownFor, Owes
  <2>3. t \in Created
      BY <2>1 DEF ShownFor, Created
  <2>. QED  BY <2>1, <2>2, <2>3 DEF ShownFor, Quiet
<1>. QED  BY <1>3, <1>4

\* Whichever ending of a call came first or interrupted another one: once they are through, its
\* transport is closed, and Pawlia is shown as a member only for another call.
THEOREM HungUpCallsAreGone == SigSpec => []NothingLeftBehind
    BY ReachStart, ReachStep, LeaveStart, LeaveStep, LeavesNothing, PTL DEF SigSpec

\* The interface is started again by a fault only.
Bounded == lives \in Nat /\ faults \in 0..MaxFaults /\ lives <= faults

LEMMA BoundedStep == Bounded /\ [SigNext]_sigVars => Bounded'
<1>. SUFFICES ASSUME Bounded, [SigNext]_sigVars PROVE Bounded'
    OBVIOUS
<1>1. \/ UNCHANGED <<lives, faults>>
      \/ Fault /\ (lives' = lives \/ lives' = lives + 1)
  <2>1. ASSUME NEW s \in Created, CallSteps(s)
        PROVE  UNCHANGED <<lives, faults>> \/ (Fault /\ lives' = lives)
      BY <2>1 DEF CallSteps, ConnectionFails, Disconnects, Recovers, MediaConnects, ConnectTimesOut,
                  ReconnectTimesOut, MediaEnds, PipelineFails, Inactive, Coroutine, Told, Closed
  <2>2. CASE Handler
      BY <2>2 DEF Handler, SessionCreated, Credentials, Warmed, Connected, Published, Described, Answered
  <2>3. CASE HandlerRaises
      BY <2>3 DEF HandlerRaises
  <2>4. CASE (\E c \in Calls : InviteArrives(c)) \/ MemberJoined \/ (\E k \in Keys : RemoteHangsUp(k))
      BY <2>4 DEF InviteArrives, MemberJoined, RemoteHangsUp
  <2>5. CASE UNCHANGED sigVars
      BY <2>5 DEF sigVars
  <2>. QED  BY <2>1, <2>2, <2>3, <2>4, <2>5 DEF SigNext, CallSteps
<1>2. CASE UNCHANGED <<lives, faults>>
    BY <1>2 DEF Bounded
<1>3. CASE Fault /\ (lives' = lives \/ lives' = lives + 1)
    BY <1>3, SignalingAssumption DEF Fault, Bounded
<1>. QED  BY <1>1, <1>2, <1>3

\* Sessions, endings and the handler are of their types, and every new life of the interface is
\* the work of a fault.
THEOREM CallsAreTyped == SigSpec => []SigTypeOK
<1>1. SigInit => Bounded
    BY SignalingAssumption DEF SigInit, Bounded
<1>2. ReachInv /\ Bounded => SigTypeOK
  <2>. SUFFICES ASSUME ReachInv, Bounded PROVE SigTypeOK
      OBVIOUS
  <2>1. ASSUME NEW s \in Ids
        PROVE  session[s] \in [key : Keys, life : 0..(lives + 1), running : BOOLEAN, answered : BOOLEAN,
                               hungup : BOOLEAN, done : BOOLEAN,
                               link : {"none", "open", "shaky", "failed", "closed"}, media : BOOLEAN]
    <3>1. session[s] \in Session /\ session[s].life <= lives + 1
        BY <2>1 DEF ReachInv, SigType, NoLaterLife
    <3>2. session[s].life \in 0..(lives + 1)
        BY <3>1 DEF Session, Bounded
    <3>. QED  BY <3>1, <3>2 DEF Session
  <2>2. lives \in 0..MaxFaults /\ faults \in 0..MaxFaults
      BY SignalingAssumption DEF Bounded
  <2>. QED  BY <2>1, <2>2 DEF SigTypeOK, ReachInv, SigType, Points
<1>. QED  BY ReachStart, ReachStep, BoundedStep, <1>1, <1>2, PTL DEF SigSpec
=============================================================================

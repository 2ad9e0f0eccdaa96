-------------------------- MODULE Agenda_proofs --------------------------
(***************************************************************************)
(* Theorems about Scheduler, Reminders and JobRunner for all users, tasks, *)
(* reminders, jobs and bounds: every background task is accounted for, a   *)
(* reminder is announced once per occurrence, and a scheduled job runs     *)
(* once per occurrence.                                                    *)
(***************************************************************************)
EXTENDS Scheduler, Reminders, JobRunner, SequenceTheorems, FiniteSetTheorems,
        WellFoundedInduction, TLAPS

\* A set of natural numbers has a least element.
LEMMA LeastIn ==
    ASSUME NEW S \in SUBSET Nat, S # {}
    PROVE  \E m \in S : \A x \in S : m <= x
<1>. DEFINE Less == OpToRel(<, Nat)
<1>1. IsWellFoundedOn(Less, Nat)
    BY NatLessThanWellFounded
<1>. HIDE DEF Less
<1>2. PICK m \in S : \A x \in S : ~(<<x, m>> \in Less)
    BY <1>1, WFMin
<1>3. \A x, y \in Nat : x < y => <<x, y>> \in Less
    BY DEF Less, OpToRel
<1>4. ASSUME NEW x \in S PROVE m <= x
  <2>1. x \in Nat /\ m \in Nat /\ ~(x < m)
      BY <1>2, <1>3, <1>4
  <2>. QED  BY <2>1
<1>. QED  BY <1>4

LEMMA RemoveAtShape ==
    ASSUME NEW S, NEW s \in Seq(S), NEW k \in DOMAIN s
    PROVE  LET g == RemoveAt(s, k)
           IN  /\ g \in Seq(S) /\ DOMAIN g = 1 .. Len(s) - 1
               /\ \A p \in DOMAIN g : g[p] = IF p < k THEN s[p] ELSE s[p + 1]
<1>1. Len(s) \in Nat /\ DOMAIN s = 1 .. Len(s) /\ k \in 1 .. Len(s)
    BY LenProperties
<1>. DEFINE a == SubSeq(s, 1, k - 1)
            b == SubSeq(s, k + 1, Len(s))
<1>2. a \in Seq(S) /\ Len(a) = k - 1 /\ \A i \in 1 .. k - 1 : a[i] = s[i]
    BY <1>1, SubSeqProperties
<1>3. b \in Seq(S) /\ Len(b) = Len(s) - k /\ \A i \in 1 .. Len(s) - k : b[i] = s[k + i]
    BY <1>1, SubSeqProperties
<1>4. RemoveAt(s, k) = a \o b
    BY DEF RemoveAt
<1>. HIDE DEF a, b
<1>5. /\ a \o b \in Seq(S) /\ Len(a \o b) = Len(s) - 1
      /\ \A i \in 1 .. Len(s) - 1 : (a \o b)[i] = IF i <= k - 1 THEN a[i] ELSE b[i - (k - 1)]
  <2>1. Len(a) + Len(b) = Len(s) - 1
      BY <1>1, <1>2, <1>3
  <2>2. /\ a \o b \in Seq(S) /\ Len(a \o b) = Len(a) + Len(b)
        /\ \A i \in 1 .. Len(a) + Len(b) : (a \o b)[i] = IF i <= Len(a) THEN a[i] ELSE b[i - Len(a)]
      BY <1>2, <1>3, ConcatProperties
  <2>3. Len(a) = k - 1
      BY <1>2
  <2>. HIDE <1>2, <1>3
  <2>. QED  BY <2>1, <2>2, <2>3
<1>6. DOMAIN (a \o b) = 1 .. Len(s) - 1
    BY <1>5, LenProperties
<1>7. ASSUME NEW p \in 1 .. Len(s) - 1 PROVE (a \o b)[p] = IF p < k THEN s[p] ELSE s[p + 1]
  <2>1. CASE p < k
      BY <1>1, <1>2, <1>5, <1>7, <2>1
  <2>2. CASE ~(p < k)
    <3>1. p - (k - 1) \in 1 .. Len(s) - k /\ ~(p <= k - 1) /\ k + (p - (k - 1)) = p + 1
        BY <1>1, <1>7, <2>2
    <3>2. (a \o b)[p] = b[p - (k - 1)]
        BY <1>5, <1>7, <3>1
    <3>3. b[p - (k - 1)] = s[k + (p - (k - 1))]
        BY <1>3, <3>1
    <3>. QED  BY <2>2, <3>1, <3>2, <3>3
  <2>. QED  BY <2>1, <2>2
<1>. QED  BY <1>4, <1>5, <1>6, <1>7

-----------------------------------------------------------------------------
(* Background tasks: none is started or told twice, none is lost without a stop *)

\* What the loop's coroutine has at least.
Fields == {"pc", "k", "stage", "idle", "task"}

InHandPhases == {"agent", "notify"}

TaskTypes ==
    /\ SchedulerAssumption
    /\ Fields \subseteq DOMAIN loop
    /\ stops \in Nat
    /\ DOMAIN status = Tasks
    /\ starts \in [Tasks -> Nat] /\ announced \in [Tasks -> Nat]

\* A task in hand runs, or has been settled and not told.
HandInv ==
    loop.pc \in InHandPhases =>
        /\ loop.task \in Tasks /\ announced[loop.task] = 0
        /\ IF loop.pc = "agent" THEN status[loop.task] = "running" ELSE TaskSettled(loop.task)

\* What has been started no longer waits.
StartedOnce ==
    \A t \in Tasks : starts[t] <= 1 /\ (status[t] \in {"absent", "pending"} => starts[t] = 0)

ToldOnce == \A t \in Tasks : announced[t] <= IF TaskSettled(t) THEN 1 ELSE 0

\* The tasks whose process ended under them.
Lost == {t \in Tasks : ~InHand(t) /\
            \/ status[t] \in {"running", "corrupt"}
            \/ TaskSettled(t) /\ announced[t] = 0}

\* Inductive: the file of a task is marked before its run, so that none is started twice.
TaskInv == TaskTypes /\ HandInv /\ StartedOnce /\ ToldOnce /\ Cardinality(Lost) <= stops

-----------------------------------------------------------------------------
(* The tasks that are lost *)

\* No more of them: none joins.
LEMMA LostShrinks ==
    ASSUME TaskInv, Lost' \subseteq Lost, stops' = stops
    PROVE  Cardinality(Lost)' <= stops'
<1>1. IsFiniteSet(Tasks) /\ Lost \subseteq Tasks
    BY DEF Lost, TaskInv, TaskTypes, SchedulerAssumption
<1>2. IsFiniteSet(Lost) /\ IsFiniteSet(Lost') /\ Cardinality(Lost') <= Cardinality(Lost)
    BY <1>1, FS_Subset
<1>3. Cardinality(Lost) \in Nat /\ Cardinality(Lost') \in Nat /\ stops \in Nat /\ Cardinality(Lost) <= stops
    BY <1>2, FS_CardinalityType DEF TaskInv, TaskTypes
<1>. HIDE DEF Lost
<1>. QED  BY <1>2, <1>3

\* One more: the one in hand when the process ends.
LEMMA LostGrowsByOne ==
    ASSUME TaskInv, NEW t, Lost' \subseteq Lost \cup {t}, stops' = stops + 1
    PROVE  Cardinality(Lost)' <= stops'
<1>1. IsFiniteSet(Tasks) /\ Lost \subseteq Tasks
    BY DEF Lost, TaskInv, TaskTypes, SchedulerAssumption
<1>2. IsFiniteSet(Lost)
    BY <1>1, FS_Subset
<1>3. IsFiniteSet(Lost \cup {t}) /\ Cardinality(Lost \cup {t}) <= Cardinality(Lost) + 1
  <2>1. Cardinality(Lost) \in Nat
      BY <1>2, FS_CardinalityType
  <2>2. IsFiniteSet(Lost \cup {t})
        /\ Cardinality(Lost \cup {t}) = IF t \in Lost THEN Cardinality(Lost) ELSE Cardinality(Lost) + 1
      BY <1>2, FS_AddElement
  <2>. QED  BY <2>1, <2>2
<1>4. IsFiniteSet(Lost') /\ Cardinality(Lost') <= Cardinality(Lost \cup {t})
    BY <1>3, FS_Subset
<1>5. Cardinality(Lost) \in Nat /\ Cardinality(Lost \cup {t}) \in Nat /\ Cardinality(Lost') \in Nat
    BY <1>2, <1>3, <1>4, FS_CardinalityType
<1>6. stops \in Nat /\ Cardinality(Lost) <= stops
    BY DEF TaskInv, TaskTypes
<1>. QED  BY <1>3, <1>4, <1>5, <1>6

-----------------------------------------------------------------------------
(* Where the loop goes *)

\* Neither running nor reporting on a task.
Free(s) == Fields \subseteq DOMAIN s /\ s.pc \notin InHandPhases

LEMMA RestingShape ==
    ASSUME NEW pc PROVE Fields \subseteq DOMAIN Resting(pc) /\ Resting(pc).pc = pc
    BY DEF Resting, Fields

LEMMA NextUserFree ==
    ASSUME NEW s, NEW next, s.pc \notin InHandPhases, next \notin InHandPhases
    PROVE  Free(NextUser(s, next))
    BY DEF NextUser, Resting, Free, Fields

LEMMA NextIdleFree ==
    ASSUME NEW s, s.pc \notin InHandPhases PROVE Free(NextIdle(s))
<1>1. Free(Resting("asleep"))
    BY RestingShape DEF Free, InHandPhases
<1>2. Free(NextUser(s, "low"))
    BY NextUserFree DEF InHandPhases
<1>. QED  BY <1>1, <1>2 DEF NextIdle

LEMMA AfterTaskFree ==
    ASSUME NEW s, Fields \subseteq DOMAIN s PROVE Free(AfterTask(s))
<1>1. Free([s EXCEPT !.pc = "indexing"])
    BY DEF Free, Fields, InHandPhases
<1>2. [s EXCEPT !.pc = "low"].pc \notin InHandPhases
    BY DEF Fields, InHandPhases
<1>3. Free(NextIdle([s EXCEPT !.pc = "low"]))
    BY <1>2, NextIdleFree
<1>. QED  BY <1>1, <1>3 DEF AfterTask

\* A set of task ids has a first one.
LEMMA MinOfTasks ==
    ASSUME NEW S, S \subseteq Nat, S # {} PROVE Min(S) \in S
<1>. DEFINE Less == OpToRel(<, Nat)
<1>1. IsWellFoundedOn(Less, Nat)
    BY NatLessThanWellFounded
<1>. HIDE DEF Less
<1>2. PICK x \in S : \A y \in S : ~(<<y, x>> \in Less)
    BY <1>1, WFMin
<1>3. \A m, n \in Nat : m < n => <<m, n>> \in Less
    BY DEF Less, OpToRel
<1>4. ASSUME NEW y \in S PROVE x <= y
  <2>1. x \in Nat /\ y \in Nat /\ ~(y < x)
      BY <1>2, <1>3
  <2>. QED  BY <2>1
<1>. QED  BY <1>4 DEF Min

\* After the summary the user's first pending task is taken, or none.
LEMMA AfterSummaryShape ==
    ASSUME TaskInv, NEW s, Fields \subseteq DOMAIN s
    PROVE  LET n == AfterSummary(s)
           IN  \/ Free(n)
               \/ /\ Fields \subseteq DOMAIN n /\ n.pc = "agent"
                  /\ n.task \in Tasks /\ status[n.task] = "pending"
<1>. DEFINE waiting == Pending(Order[s.k])
<1>1. CASE s.idle >= 2 /\ waiting # {}
  <2>1. waiting \subseteq Tasks /\ Tasks \subseteq Nat /\ \A t \in waiting : status[t] = "pending"
      BY DEF Pending, TaskInv, TaskTypes, SchedulerAssumption
  <2>2. Min(waiting) \in waiting
      BY <1>1, <2>1, MinOfTasks
  <2>. DEFINE n == [s EXCEPT !.pc = "agent", !.task = Min(waiting)]
  <2>3. Fields \subseteq DOMAIN n /\ n.pc = "agent" /\ n.task = Min(waiting)
      BY DEF Fields
  <2>4. AfterSummary(s) = n
      BY <1>1 DEF AfterSummary
  <2>. QED  BY <2>1, <2>2, <2>3, <2>4
<1>2. CASE ~(s.idle >= 2 /\ waiting # {})
  <2>1. AfterSummary(s) = AfterTask(s)
      BY <1>2 DEF AfterSummary
  <2>. QED  BY <2>1, AfterTaskFree
<1>. QED  BY <1>1, <1>2

-----------------------------------------------------------------------------
(* Each action *)

\* A step that touches no task, and has none in hand before and after.
LEMMA FreeStep ==
    ASSUME TaskInv, Free(loop'), loop.pc \notin InHandPhases, UNCHANGED <<status, starts, announced, stops>>
    PROVE  TaskInv'
<1>1. Lost' \subseteq Lost
    BY DEF Lost, InHand, TaskSettled, InHandPhases
<1>2. Cardinality(Lost)' <= stops'
    BY <1>1, LostShrinks
<1>3. TaskTypes' /\ HandInv' /\ StartedOnce' /\ ToldOnce'
    BY DEF TaskInv, TaskTypes, HandInv, StartedOnce, ToldOnce, Free, TaskSettled
<1>. QED  BY <1>2, <1>3 DEF TaskInv

\* The loop goes on with the checks, the forced summaries and the indexing.
LEMMA LoopStep ==
    ASSUME TaskInv, BeginTick \/ Check \/ CheckForce \/ Indexed \/ Start \/ \E answers \in BOOLEAN : ForcedSummary(answers)
    PROVE  TaskInv'
<1>1. UNCHANGED <<status, starts, announced, stops>> /\ loop.pc \notin InHandPhases
    BY DEF BeginTick, Check, CheckForce, Indexed, Start, ForcedSummary, InHandPhases, Up
<1>2. Fields \subseteq DOMAIN loop
    BY DEF TaskInv, TaskTypes
<1>3. Free(loop')
  <2>1. CASE BeginTick
      BY <2>1 DEF BeginTick, Resting, Free, Fields, InHandPhases
  <2>2. CASE Check
    <3>1. loop' = NextUser(loop, "force") \/ loop' = [loop EXCEPT !.stage = @ + 1]
        BY <2>2 DEF Check, AfterCheck
    <3>2. Free(NextUser(loop, "force"))
        BY <1>1, NextUserFree DEF InHandPhases
    <3>3. Free([loop EXCEPT !.stage = @ + 1])
        BY <1>1, <1>2 DEF Free, Fields
    <3>. QED  BY <3>1, <3>2, <3>3
  <2>3. CASE CheckForce
    <3>1. loop' = NextUser(loop, "low") \/ loop' = [loop EXCEPT !.pc = "forced"]
        BY <2>3 DEF CheckForce
    <3>2. Free(NextUser(loop, "low"))
        BY <1>1, NextUserFree DEF InHandPhases
    <3>3. Free([loop EXCEPT !.pc = "forced"])
        BY <1>2 DEF Free, Fields, InHandPhases
    <3>. QED  BY <3>1, <3>2, <3>3
  <2>4. CASE Indexed
    <3>1. [loop EXCEPT !.pc = "low"].pc \notin InHandPhases
        BY <1>2 DEF Fields, InHandPhases
    <3>. QED  BY <2>4, <3>1, NextIdleFree DEF Indexed
  <2>5. CASE Start
      BY <2>5, RestingShape DEF Start, Free, InHandPhases
  <2>6. CASE \E answers \in BOOLEAN : ForcedSummary(answers)
    <3>1. [loop EXCEPT !.pc = "force"].pc \notin InHandPhases
        BY <1>2 DEF Fields, InHandPhases
    <3>. QED  BY <2>6, <3>1, NextUserFree DEF ForcedSummary, InHandPhases
  <2>. QED  BY <2>1, <2>2, <2>3, <2>4, <2>5, <2>6
<1>. QED  BY <1>1, <1>3, FreeStep

\* The loop goes on with a summary, a task or what follows them.
LEMMA GoesStep ==
    ASSUME TaskInv, NEW s, Goes(s), loop.pc \notin InHandPhases, UNCHANGED <<announced, stops>>,
           Free(s) \/ (Fields \subseteq DOMAIN s /\ s.pc = "agent" /\ s.task \in Tasks /\ status[s.task] = "pending")
    PROVE  TaskInv'
<1>1. CASE Free(s)
  <2>1. UNCHANGED <<status, starts>> /\ Free(loop')
      BY <1>1 DEF Goes, Marked, Free, InHandPhases
  <2>. QED  BY <2>1, FreeStep
<1>2. CASE Fields \subseteq DOMAIN s /\ s.pc = "agent" /\ s.task \in Tasks /\ status[s.task] = "pending"
  <2>. DEFINE t == s.task
  <2>1. loop' = s /\ status' = [status EXCEPT ![t] = "running"] /\ starts' = [starts EXCEPT ![t] = @ + 1]
      BY <1>2 DEF Goes, Marked
  <2>2. t \in Tasks /\ DOMAIN status = Tasks /\ starts \in [Tasks -> Nat] /\ announced \in [Tasks -> Nat]
      BY <1>2 DEF TaskInv, TaskTypes
  <2>3. starts[t] = 0 /\ announced[t] = 0
    <3>1. starts[t] = 0
        BY <1>2, <2>2 DEF TaskInv, StartedOnce
    <3>2. announced[t] <= 0 /\ announced[t] \in Nat
        BY <1>2, <2>2 DEF TaskInv, ToldOnce, TaskSettled
    <3>. QED  BY <3>1, <3>2
  <2>4. /\ status'[t] = "running" /\ starts'[t] = 1 /\ DOMAIN status' = Tasks /\ starts' \in [Tasks -> Nat]
        /\ \A u \in Tasks \ {t} : status'[u] = status[u] /\ starts'[u] = starts[u]
      BY <2>1, <2>2, <2>3
  <2>5. TaskTypes'
      BY <1>2, <2>1, <2>4 DEF TaskInv, TaskTypes
  <2>6. HandInv'
      BY <1>2, <2>1, <2>2, <2>3, <2>4 DEF HandInv
  <2>7. StartedOnce'
      BY <2>2, <2>4 DEF TaskInv, StartedOnce
  <2>8. ToldOnce'
    <3>1. ASSUME NEW u \in Tasks PROVE announced'[u] <= IF TaskSettled(u)' THEN 1 ELSE 0
      <4>1. CASE u = t
          BY <2>3, <2>4, <4>1 DEF TaskSettled
      <4>2. CASE u # t
          BY <2>4, <4>2 DEF TaskInv, ToldOnce, TaskSettled
      <4>. QED  BY <4>1, <4>2
    <3>. QED  BY <3>1 DEF ToldOnce
  <2>9. Lost' \subseteq Lost
    <3>1. SUFFICES ASSUME NEW u \in Tasks, u \in Lost' PROVE u \in Lost
        BY DEF Lost
    <3>2. u # t
        BY <1>2, <2>1, <3>1 DEF Lost, InHand
    <3>. QED  BY <2>4, <3>1, <3>2 DEF Lost, InHand, TaskSettled, InHandPhases
  <2>10. Cardinality(Lost)' <= stops'
      BY <2>9, LostShrinks
  <2>. QED  BY <2>5, <2>6, <2>7, <2>8, <2>10 DEF TaskInv
<1>. QED  BY <1>1, <1>2

LEMMA TakeStep ==
    ASSUME TaskInv, TakeUser \/ \E answers \in BOOLEAN : SoftSummary(answers) PROVE TaskInv'
<1>. DEFINE s == [loop EXCEPT !.idle = IdleOf(CurrentUser), !.task = NoTask]
<1>1. UNCHANGED <<announced, stops>> /\ loop.pc \notin InHandPhases /\ Fields \subseteq DOMAIN loop
    BY DEF TakeUser, SoftSummary, InHandPhases, TaskInv, TaskTypes
<1>2. Fields \subseteq DOMAIN s
    BY <1>1 DEF Fields
<1>3. Free([s EXCEPT !.pc = "summary"])
    BY <1>2 DEF Free, Fields, InHandPhases
<1>4. Goes([s EXCEPT !.pc = "summary"]) \/ Goes(AfterSummary(s)) \/ Goes(AfterSummary(loop))
    BY DEF TakeUser, SoftSummary
<1>. HIDE DEF s
<1>5. CASE Goes([s EXCEPT !.pc = "summary"])
    BY <1>1, <1>3, <1>5, GoesStep
<1>6. CASE Goes(AfterSummary(s))
    BY <1>1, <1>2, <1>6, AfterSummaryShape, GoesStep
<1>7. CASE Goes(AfterSummary(loop))
    BY <1>1, <1>7, AfterSummaryShape, GoesStep
<1>. QED  BY <1>4, <1>5, <1>6, <1>7

\* The run of the task in hand ends.
LEMMA AgentEndsStep ==
    ASSUME TaskInv, NEW answers \in BOOLEAN, AgentEnds(answers) PROVE TaskInv'
<1>. DEFINE t == loop.task
<1>1. /\ loop.pc = "agent" /\ Fields \subseteq DOMAIN loop /\ t \in Tasks /\ announced[t] = 0
      /\ status[t] = "running" /\ DOMAIN status = Tasks
    BY DEF AgentEnds, TaskInv, TaskTypes, HandInv, InHandPhases
<1>2. /\ status' = [status EXCEPT ![t] = Outcome(answers)] /\ loop' = [loop EXCEPT !.pc = "notify"]
      /\ UNCHANGED <<stops, starts, announced>>
    BY DEF AgentEnds
<1>3. /\ Fields \subseteq DOMAIN loop' /\ loop'.pc = "notify" /\ loop'.task = t
      /\ DOMAIN status' = Tasks /\ status'[t] \in {"done", "error"}
      /\ \A u \in Tasks \ {t} : status'[u] = status[u]
    BY <1>1, <1>2 DEF Fields, Outcome
<1>4. TaskTypes'
    BY <1>2, <1>3 DEF TaskInv, TaskTypes
<1>5. HandInv'
    BY <1>1, <1>2, <1>3 DEF HandInv, TaskSettled
<1>6. StartedOnce'
    BY <1>1, <1>2, <1>3 DEF TaskInv, StartedOnce
<1>7. ToldOnce'
  <2>1. ASSUME NEW u \in Tasks PROVE announced'[u] <= IF TaskSettled(u)' THEN 1 ELSE 0
    <3>1. CASE u = t
        BY <1>1, <1>2, <1>3, <3>1 DEF TaskSettled
    <3>2. CASE u # t
        BY <1>2, <1>3, <3>2 DEF TaskInv, ToldOnce, TaskSettled
    <3>. QED  BY <3>1, <3>2
  <2>. QED  BY <2>1 DEF ToldOnce
<1>8. Lost' \subseteq Lost
    BY <1>1, <1>2, <1>3 DEF Lost, InHand, TaskSettled
<1>9. Cardinality(Lost)' <= stops'
    BY <1>2, <1>8, LostShrinks
<1>. QED  BY <1>4, <1>5, <1>6, <1>7, <1>9 DEF TaskInv

\* What became of it has been told.
LEMMA NotifiedStep ==
    ASSUME TaskInv, Notified PROVE TaskInv'
<1>. DEFINE t == loop.task
<1>1. /\ loop.pc = "notify" /\ Fields \subseteq DOMAIN loop /\ t \in Tasks /\ announced[t] = 0
      /\ TaskSettled(t) /\ announced \in [Tasks -> Nat]
    BY DEF Notified, TaskInv, TaskTypes, HandInv, InHandPhases
<1>2. /\ announced' = [announced EXCEPT ![t] = @ + 1] /\ loop' = AfterTask(loop)
      /\ UNCHANGED <<stops, starts, status>>
    BY DEF Notified
<1>3. /\ announced' \in [Tasks -> Nat] /\ announced'[t] = 1
      /\ \A u \in Tasks \ {t} : announced'[u] = announced[u]
    BY <1>1, <1>2
<1>4. Fields \subseteq DOMAIN loop' /\ loop'.pc \notin InHandPhases
    BY <1>1, <1>2, AfterTaskFree DEF Free
<1>5. TaskTypes'
    BY <1>2, <1>3, <1>4 DEF TaskInv, TaskTypes
<1>6. HandInv' /\ StartedOnce'
    BY <1>2, <1>4 DEF TaskInv, HandInv, StartedOnce
<1>7. ToldOnce'
  <2>1. ASSUME NEW u \in Tasks PROVE announced'[u] <= IF TaskSettled(u)' THEN 1 ELSE 0
    <3>1. CASE u = t
        BY <1>1, <1>2, <1>3, <3>1 DEF TaskSettled
    <3>2. CASE u # t
        BY <1>2, <1>3, <3>2 DEF TaskInv, ToldOnce, TaskSettled
    <3>. QED  BY <3>1, <3>2
  <2>. QED  BY <2>1 DEF ToldOnce
<1>8. Lost' \subseteq Lost
    BY <1>1, <1>2, <1>3, <1>4 DEF Lost, InHand, TaskSettled, InHandPhases
<1>9. Cardinality(Lost)' <= stops'
    BY <1>2, <1>8, LostShrinks
<1>. QED  BY <1>5, <1>6, <1>7, <1>9 DEF TaskInv

\* Turns, the clock and a reload touch no task.
LEMMA OthersStep ==
    ASSUME TaskInv, UNCHANGED <<loop, status, starts, announced, stops>> PROVE TaskInv'
    BY DEF TaskInv, TaskTypes, HandInv, StartedOnce, ToldOnce, Lost, InHand, TaskSettled

\* A task joins the queue.
LEMMA EnqueueStep ==
    ASSUME TaskInv, NEW u, NEW t \in Tasks, NEW touches, Enqueue(u, t, touches) PROVE TaskInv'
<1>1. status[t] = "absent" /\ status' = [status EXCEPT ![t] = "pending"]
      /\ UNCHANGED <<loop, stops, starts, announced>>
    BY DEF Enqueue
<1>2. DOMAIN status = Tasks
    BY DEF TaskInv, TaskTypes
<1>3. status'[t] = "pending" /\ DOMAIN status' = Tasks /\ \A v \in Tasks \ {t} : status'[v] = status[v]
    BY <1>1, <1>2
<1>4. TaskTypes'
    BY <1>1, <1>3 DEF TaskInv, TaskTypes
<1>5. HandInv'
    BY <1>1, <1>3 DEF TaskInv, HandInv, TaskSettled, InHandPhases
<1>6. StartedOnce'
    BY <1>1, <1>3 DEF TaskInv, StartedOnce
<1>7. ToldOnce'
  <2>1. ASSUME NEW v \in Tasks PROVE announced'[v] <= IF TaskSettled(v)' THEN 1 ELSE 0
    <3>1. CASE v = t
        BY <1>1, <1>3, <3>1 DEF TaskInv, ToldOnce, TaskSettled
    <3>2. CASE v # t
        BY <1>1, <1>3, <3>2 DEF TaskInv, ToldOnce, TaskSettled
    <3>. QED  BY <3>1, <3>2
  <2>. QED  BY <2>1 DEF ToldOnce
<1>8. Lost' \subseteq Lost
    BY <1>1, <1>3 DEF Lost, InHand, TaskSettled
<1>9. Cardinality(Lost)' <= stops'
    BY <1>1, <1>8, LostShrinks
<1>. QED  BY <1>4, <1>5, <1>6, <1>7, <1>9 DEF TaskInv

\* The process ends; the file of the task in hand may be torn.
LEMMA DownStep ==
    ASSUME TaskInv, LoopStop \/ TornUpdate PROVE TaskInv'
<1>. DEFINE t == loop.task
<1>1. /\ stops' = stops + 1 /\ loop' = Resting("stopped") /\ UNCHANGED <<starts, announced>>
    BY DEF LoopStop, TornUpdate, Down
<1>2. Fields \subseteq DOMAIN loop' /\ loop'.pc = "stopped"
    BY <1>1, RestingShape
<1>3. DOMAIN status = Tasks
    BY DEF TaskInv, TaskTypes
<1>4. \/ status' = status
      \/ loop.pc \in InHandPhases /\ status' = [status EXCEPT ![t] = "corrupt"]
    BY DEF LoopStop, TornUpdate, InHandPhases
<1>5. /\ DOMAIN status' = Tasks
      /\ \A u \in Tasks : \/ status'[u] = status[u]
                          \/ u = t /\ loop.pc \in InHandPhases /\ status'[u] = "corrupt"
    BY <1>3, <1>4
<1>6. TaskTypes'
    BY <1>1, <1>2, <1>5 DEF TaskInv, TaskTypes
<1>7. HandInv'
    BY <1>2 DEF HandInv, InHandPhases
<1>8. StartedOnce'
    BY <1>1, <1>5 DEF TaskInv, StartedOnce
<1>9. ToldOnce'
  <2>1. ASSUME NEW u \in Tasks PROVE announced'[u] <= IF TaskSettled(u)' THEN 1 ELSE 0
    <3>1. CASE status'[u] = status[u]
        BY <1>1, <3>1 DEF TaskInv, ToldOnce, TaskSettled
    <3>2. CASE u = t /\ loop.pc \in InHandPhases
      <4>1. announced'[u] = 0
          BY <1>1, <3>2 DEF TaskInv, HandInv
      <4>. QED  BY <4>1
    <3>. QED  BY <1>5, <3>1, <3>2
  <2>. QED  BY <2>1 DEF ToldOnce
<1>10. Lost' \subseteq Lost \cup {t}
    BY <1>1, <1>5 DEF Lost, InHand, TaskSettled
<1>11. Cardinality(Lost)' <= stops'
    BY <1>1, <1>10, LostGrowsByOne
<1>. QED  BY <1>6, <1>7, <1>8, <1>9, <1>11 DEF TaskInv

-----------------------------------------------------------------------------
(* The invariant and what it gives *)

\* The queue is empty at first.
LEMMA TaskStart == LoopInit => TaskInv
<1>. SUFFICES ASSUME LoopInit PROVE TaskInv
    OBVIOUS
<1>1. loop = Resting("asleep")
    BY DEF LoopInit
<1>2. Fields \subseteq DOMAIN loop /\ loop.pc = "asleep"
    BY <1>1, RestingShape
<1>3. TaskTypes
    BY <1>2, SchedulerAssumption DEF LoopInit, TaskTypes
<1>4. HandInv /\ StartedOnce /\ ToldOnce
    BY <1>2 DEF LoopInit, HandInv, StartedOnce, ToldOnce, InHandPhases
<1>5. Lost = {}
    BY DEF LoopInit, Lost, TaskSettled
<1>6. Cardinality(Lost) <= stops
    BY <1>5, FS_EmptySet DEF LoopInit
<1>. QED  BY <1>3, <1>4, <1>6 DEF TaskInv

\* Every step keeps the invariant.
LEMMA TaskSteps == TaskInv /\ [LoopNext]_loopVars => TaskInv'
<1>. SUFFICES ASSUME TaskInv, [LoopNext]_loopVars PROVE TaskInv'
    OBVIOUS
<1>1. CASE BeginTick \/ Check \/ CheckForce \/ Indexed \/ Start \/ \E answers \in BOOLEAN : ForcedSummary(answers)
    BY <1>1, LoopStep
<1>2. CASE TakeUser \/ \E answers \in BOOLEAN : SoftSummary(answers)
    BY <1>2, TakeStep
<1>3. ASSUME NEW answers \in BOOLEAN, AgentEnds(answers) PROVE TaskInv'
    BY <1>3, AgentEndsStep
<1>4. CASE Notified
    BY <1>4, NotifiedStep
<1>5. ASSUME NEW u \in Users, NEW t \in Tasks, NEW touches \in BOOLEAN, Enqueue(u, t, touches) PROVE TaskInv'
    BY <1>5, EnqueueStep
<1>6. CASE LoopStop \/ TornUpdate
    BY <1>6, DownStep
<1>7. CASE (\E u \in Users : Message(u) \/ TurnEnds(u)) \/ IdleGrows \/ Reload \/ UNCHANGED loopVars
    BY <1>7, OthersStep DEF Message, TurnEnds, IdleGrows, Reload, loopVars
<1>. QED  BY <1>1, <1>2, <1>3, <1>4, <1>5, <1>6, <1>7 DEF LoopNext, Work

\* A background task is run at most once and told at most once, and is left running or
\* untold only where the process ended under it, for any users, tasks, commands, failures,
\* reloads and ends of the process (Scheduler._check_all, BackgroundTaskQueue).
THEOREM TasksAreAccountedFor == LoopSpec => []TaskAccountedFor
<1>1. TaskInv => TaskAccountedFor
    BY DEF TaskInv, StartedOnce, ToldOnce, Lost, TaskAccountedFor
<1>2. LoopInit => TaskInv
    BY TaskStart
<1>. QED  BY <1>1, <1>2, TaskSteps, PTL DEF LoopSpec

-----------------------------------------------------------------------------
(* Scheduled jobs: how often a schedule has called *)

\* The occurrences of a job up to a minute, or up to its last run.
UpTo(j, t) ==
    IF j \in Daily THEN Cardinality({at \in 0 .. t : TargetOn(at) = at})
    ELSE IF t = Never THEN 0 ELSE 1 + t \div Interval

LEMMA Numerals ==
    /\ DayLength \in Nat \ {0} /\ Interval \in Nat \ {0} /\ Target \in 0 .. DayLength - 1
    /\ {Recent, JobTime, JobEdits, JobCrashes} \subseteq Nat /\ Daily \subseteq Jobs /\ IsFiniteSet(Jobs)
BY JobsAssumption DEF JobsAssumption

\* The whole part of a quotient, and no other number, has these bounds.
LEMMA DivisionBounds ==
    ASSUME NEW n \in Nat, NEW d \in Nat \ {0}
    PROVE  /\ n \div d \in Nat /\ d * (n \div d) <= n /\ n < d * (n \div d) + d
           /\ \A q \in Nat : d * q <= n /\ n < d * q + d => n \div d = q
<1>1. n \div d \in Nat /\ d * (n \div d) <= n /\ n < d * (n \div d) + d
    OBVIOUS
<1>2. ASSUME NEW q \in Nat, d * q <= n, n < d * q + d, NEW r \in Nat, d * r <= n, n < d * r + d, q < r
      PROVE  FALSE
  <2>1. r = q + 1 + (r - q - 1) /\ r - q - 1 \in Nat
      BY <1>2
  <2>2. d * r = d * q + d + d * (r - q - 1)
      BY <2>1
  <2>3. d * (r - q - 1) >= 0
      BY <2>1
  <2>. QED  BY <1>2, <2>2, <2>3
<1>. QED  BY <1>1, <1>2

LEMMA UpToType ==
    ASSUME NEW j, NEW t \in Int, Never <= t
    PROVE  UpTo(j, t) \in Nat /\ IsFiniteSet({at \in 0 .. t : TargetOn(at) = at})
<1>1. IsFiniteSet(0 .. t)
    BY FS_Interval
<1>2. {at \in 0 .. t : TargetOn(at) = at} \in SUBSET (0 .. t)
    OBVIOUS
<1>3. IsFiniteSet({at \in 0 .. t : TargetOn(at) = at})
    BY <1>1, <1>2, FS_Subset
<1>4. Cardinality({at \in 0 .. t : TargetOn(at) = at}) \in Nat
    BY <1>3, FS_CardinalityType
<1>5. t # Never => 1 + t \div Interval \in Nat
  <2>1. t # Never => t \in Nat
      BY DEF Never
  <2>. QED  BY <2>1, Numerals
<1>. QED  BY <1>3, <1>4, <1>5 DEF UpTo

LEMMA UpToGrows ==
    ASSUME NEW j, NEW s \in Int, NEW t \in Int, Never <= s, s <= t
    PROVE  UpTo(j, s) <= UpTo(j, t)
<1>1. CASE j \in Daily
  <2>. DEFINE S(x) == {at \in 0 .. x : TargetOn(at) = at}
  <2>1. S(s) \in SUBSET S(t)
      OBVIOUS
  <2>2. IsFiniteSet(S(t))
      BY UpToType DEF Never
  <2>3. Cardinality(S(s)) <= Cardinality(S(t))
    <3>. HIDE DEF S
    <3>. QED  BY <2>1, <2>2, FS_Subset
  <2>. QED  BY <1>1, <2>3 DEF UpTo
<1>2. CASE j \notin Daily
  <2>1. CASE s = Never
    <3>1. UpTo(j, s) = 0
        BY <1>2, <2>1 DEF UpTo
    <3>2. Never <= t
        BY DEF Never
    <3>3. UpTo(j, t) \in Nat
        BY ONLY <3>2, t \in Int, UpToType
    <3>. QED  BY <3>1, <3>3
  <2>2. CASE s # Never
    <3>1. s \in Nat /\ t \in Nat /\ t # Never
        BY <2>2 DEF Never
    <3>2. s \div Interval <= t \div Interval
      <4>1. /\ s \div Interval \in Nat /\ Interval * (s \div Interval) <= s
            /\ t \div Interval \in Nat /\ t < Interval * (t \div Interval) + Interval
          BY <3>1, Numerals, DivisionBounds
      <4>2. ASSUME NEW q \in Nat, NEW r \in Nat, Interval * q <= s, t < Interval * r + Interval, r < q
            PROVE  FALSE
        <5>1. q = r + 1 + (q - r - 1) /\ q - r - 1 \in Nat
            BY <4>2
        <5>2. Interval * q = Interval * r + Interval + Interval * (q - r - 1)
            BY <5>1, Numerals
        <5>3. Interval * (q - r - 1) >= 0
            BY <5>1, Numerals
        <5>4. Interval * q \in Int /\ Interval * r \in Int /\ Interval * (q - r - 1) \in Int
            BY <5>1, Numerals
        <5>. QED  BY <3>1, <4>2, <5>2, <5>3, <5>4, Numerals
      <4>. QED  BY <4>1, <4>2
    <3>3. s \div Interval \in Int /\ t \div Interval \in Int
        BY <3>1, Numerals
    <3>. QED  BY <1>2, <2>2, <3>1, <3>2, <3>3 DEF UpTo
  <2>. QED  BY <2>1, <2>2
<1>. QED  BY <1>1, <1>2

\* The day's target is the target of its own day.
LEMMA TargetIsFixed ==
    ASSUME NEW at \in Nat
    PROVE  TargetOn(at) \in Nat /\ TargetOn(TargetOn(at)) = TargetOn(at)
<1>. DEFINE q == at \div DayLength
            x == TargetOn(at)
<1>1. q \in Nat
    BY Numerals, DivisionBounds
<1>2. x = q * DayLength + Target
    BY DEF TargetOn
<1>. HIDE DEF q, x
<1>3. q * DayLength \in Nat /\ DayLength * q = q * DayLength
    BY <1>1, Numerals
<1>4. x \in Nat /\ DayLength * q <= x /\ x < DayLength * q + DayLength
    BY <1>2, <1>3, Numerals
<1>5. x \div DayLength = q
    BY <1>1, <1>4, Numerals, DivisionBounds
<1>6. TargetOn(x) = x
    BY <1>2, <1>5 DEF TargetOn
<1>. QED  BY <1>4, <1>6 DEF x

\* A job that is due has an occurrence after its last run.
LEMMA DueGrows ==
    ASSUME NEW job \in Records, NEW at \in Nat, IsJobDue(job, at)
    PROVE  UpTo(job.of, job.last) + 1 <= UpTo(job.of, at)
<1>1. job.last \in Int /\ job.last >= Never /\ at >= Never
    BY DEF Records, Never
<1>2. CASE job.of \in Daily
  <2>. DEFINE S(x) == {m \in 0 .. x : TargetOn(m) = m}
  <2>1. TargetOn(at) \in Nat /\ TargetOn(at) <= at /\ job.last < TargetOn(at)
    <3>1. TargetOn(at) \in Nat /\ TargetOn(at) <= at
        BY <1>2, TargetIsFixed DEF IsJobDue
    <3>2. CASE job.last = Never
        BY <3>1, <3>2 DEF Never
    <3>3. CASE job.last # Never
        BY <1>2, <3>1, <3>3 DEF IsJobDue
    <3>. QED  BY <3>1, <3>2, <3>3
  <2>2. TargetOn(at) \in S(at) /\ TargetOn(at) \notin S(job.last)
      BY <1>1, <2>1, TargetIsFixed
  <2>3. S(job.last) \in SUBSET S(at)
      BY <1>1, <2>1
  <2>4. IsFiniteSet(S(at)) /\ IsFiniteSet(S(job.last))
      BY <1>1, UpToType
  <2>5. Cardinality(S(job.last)) <= Cardinality(S(at)) /\ Cardinality(S(job.last)) # Cardinality(S(at))
    <3>. HIDE DEF S
    <3>. QED  BY <2>2, <2>3, <2>4, FS_Subset
  <2>6. Cardinality(S(job.last)) \in Nat /\ Cardinality(S(at)) \in Nat
    <3>. HIDE DEF S
    <3>. QED  BY <2>4, FS_CardinalityType
  <2>7. UpTo(job.of, job.last) = Cardinality(S(job.last)) /\ UpTo(job.of, at) = Cardinality(S(at))
      BY <1>2 DEF UpTo
  <2>. HIDE DEF S
  <2>. QED  BY <2>5, <2>6, <2>7
<1>3. CASE job.of \notin Daily
  <2>1. UpTo(job.of, at) = 1 + at \div Interval /\ at \div Interval \in Nat
      BY <1>3, Numerals, DivisionBounds DEF UpTo, Never
  <2>2. CASE job.last = Never
      BY <1>3, <2>1, <2>2 DEF UpTo
  <2>3. CASE job.last # Never
    <3>1. job.last \in Nat /\ at >= job.last + Interval
        BY <1>1, <1>3, <2>3 DEF IsJobDue, Never
    <3>. DEFINE last == job.last
    <3>2. last \div Interval + 1 <= at \div Interval
      <4>1. /\ last \div Interval \in Nat /\ Interval * (last \div Interval) <= last
            /\ at \div Interval \in Nat /\ at < Interval * (at \div Interval) + Interval
          BY <3>1, Numerals, DivisionBounds
      <4>. HIDE DEF last
      <4>2. ASSUME NEW q \in Nat, NEW r \in Nat, Interval * q + Interval <= at, at < Interval * r + Interval, r < q + 1
            PROVE  FALSE
        <5>1. q = r + (q - r) /\ q - r \in Nat
            BY <4>2
        <5>2. Interval * q = Interval * r + Interval * (q - r)
            BY <5>1, Numerals
        <5>3. Interval * (q - r) >= 0
            BY <5>1, Numerals
        <5>4. Interval * q \in Int /\ Interval * r \in Int /\ Interval * (q - r) \in Int
            BY <5>1, Numerals
        <5>. QED  BY <4>2, <5>2, <5>3, <5>4, Numerals
      <4>3. last \in Nat /\ at >= last + Interval
          BY <3>1 DEF last
      <4>4. Interval * (last \div Interval) + Interval <= at
          BY <4>1, <4>3, Numerals
      <4>. QED  BY <4>1, <4>2, <4>4
    <3>3. UpTo(job.of, last) = 1 + last \div Interval /\ last \div Interval \in Nat
        BY <1>3, <2>3, <3>1, Numerals, DivisionBounds DEF UpTo
    <3>. QED  BY <2>1, <3>2, <3>3
  <2>. QED  BY <2>2, <2>3
<1>. QED  BY <1>2, <1>3

-----------------------------------------------------------------------------
(* The lists of jobs *)

\* A list as the programs hold it: each job once, its id handed out, its run in the past.
ListOK(list, t, ids) ==
    /\ list \in Seq(Records)
    /\ \A p, q \in DOMAIN list : list[p].of = list[q].of => p = q
    /\ \A p \in DOMAIN list : list[p].of \in ids /\ list[p].last <= t

Ids(list) == {list[p].of : p \in DOMAIN list}

\* What is left to explain further runs of a job, next to its occurrences.
Room == [j \in Jobs |-> asked[j] + jobCrashes + overwritten - runs[j]]

\* A job as a list holds it may be run once more: its flag is paid for, or an occurrence up
\* to t that it has not been run for is.
Paid(e, t, room) ==
    \/ (IF e.force THEN 1 ELSE 0) <= UpTo(e.of, e.last) + room[e.of]
    \/ 1 <= UpTo(e.of, t) + room[e.of]

\* The pass r has run j.
Ran(r, j) == r.pc = "running" /\ \E p \in 1 .. r.k : r.jobs[p].of = j

NumberTypes ==
    /\ minute \in 0 .. JobTime
    /\ runs \in [Jobs -> Nat] /\ asked \in [Jobs -> Nat]
    /\ jobCrashes \in Nat /\ overwritten \in Nat
    /\ known \subseteq Jobs

\* The file: what the pass has not run yet may be run.
FileInv ==
    /\ ListOK(jobs, minute, known)
    /\ \A p \in DOMAIN jobs : Ran(runner, jobs[p].of) \/ Paid(jobs[p], minute, Room)

\* The list of the pass, as of the time it began.
PassInv ==
    /\ {"pc", "jobs", "k", "at"} \subseteq DOMAIN runner
    /\ runner.pc = "running" =>
        /\ runner.at \in 0 .. minute
        /\ ListOK(runner.jobs, runner.at, known)
        /\ runner.k \in DOMAIN runner.jobs
        /\ ~runner.jobs[runner.k].force
        /\ \A p \in DOMAIN runner.jobs \ {runner.k} : Paid(runner.jobs[p], runner.at, Room)
        /\ 0 <= UpTo(runner.jobs[runner.k].of, runner.at) + Room[runner.jobs[runner.k].of]

\* An entry that a command writes is one it has read, with a flag it may have set, or that
\* of a job nobody else knows.
Written(e, read, run) ==
    \E q \in DOMAIN read : /\ read[q].of = e.of /\ read[q].last = e.last
                           /\ e.force => read[q].force \/ e.of \in run

Unheard(e, f, r, count) ==
    /\ ~e.force /\ count[e.of] = 0 /\ e.of \notin Ids(f)
    /\ r.pc = "running" => e.of \notin Ids(r.jobs)

EditInv ==
    /\ {"pc", "read", "write", "run"} \subseteq DOMAIN editor
    /\ editor.pc = "write" =>
        /\ ListOK(editor.write, minute, known)
        /\ \A p \in DOMAIN editor.write :
            \/ Written(editor.write[p], editor.read, editor.run)
            \/ Unheard(editor.write[p], jobs, runner, runs)

RoomInv ==
    /\ \A j \in Jobs \ known : runs[j] = 0
    /\ \A j \in Jobs : 0 <= UpTo(j, minute) + Room[j]

\* Inductive.
JobInv == NumberTypes /\ FileInv /\ PassInv /\ EditInv /\ RoomInv

LEMMA RecordIs ==
    ASSUME NEW e \in Records
    PROVE  e.of \in Jobs /\ e.force \in BOOLEAN /\ e.enabled \in BOOLEAN /\ e.last \in Never .. JobTime
           /\ e.last \in Int /\ e.last >= Never
BY Numerals DEF Records, Never

LEMMA ListShape ==
    ASSUME NEW t, NEW ids, NEW list, ListOK(list, t, ids)
    PROVE  /\ Len(list) \in Nat /\ DOMAIN list = 1 .. Len(list)
           /\ \A p \in DOMAIN list : list[p] \in Records
BY LenProperties DEF ListOK

LEMMA RoomType == NumberTypes => Room \in [Jobs -> Int]
BY DEF NumberTypes, Room

LEMMA UpToBoth ==
    ASSUME NEW j, NEW s \in Int, NEW t \in Int, Never <= s, s <= t
    PROVE  UpTo(j, s) <= UpTo(j, t) /\ UpTo(j, s) \in Nat /\ UpTo(j, t) \in Nat
<1>1. Never <= t
    BY DEF Never
<1>2. UpTo(j, s) <= UpTo(j, t)
    BY UpToGrows
<1>3. UpTo(j, s) \in Nat /\ UpTo(j, t) \in Nat
    BY <1>1, UpToType
<1>. QED  BY <1>2, <1>3

\* What may be run early may be run later, and with more room.
LEMMA PaidLater ==
    ASSUME NEW e \in Records, NEW s \in Int, NEW t \in Int, Never <= s, s <= t,
           NEW a \in [Jobs -> Int], NEW b \in [Jobs -> Int], a[e.of] <= b[e.of], Paid(e, s, a)
    PROVE  Paid(e, t, b)
<1>1. UpTo(e.of, s) <= UpTo(e.of, t) /\ UpTo(e.of, s) \in Nat /\ UpTo(e.of, t) \in Nat
    BY UpToBoth
<1>2. e.last \in Int /\ Never <= e.last /\ e.of \in Jobs
    BY RecordIs DEF Never
<1>3. UpTo(e.of, e.last) \in Nat
    BY <1>2, UpToType
<1>4. a[e.of] \in Int /\ b[e.of] \in Int
    BY <1>2
<1>. QED  BY <1>1, <1>3, <1>4 DEF Paid

\* A job that is selected may be run.
LEMMA SelectedIsPaid ==
    ASSUME NEW e \in Records, NEW t \in Nat, e.last <= t, NEW a \in [Jobs -> Int], Paid(e, t, a), Selected(e, t)
    PROVE  1 <= UpTo(e.of, t) + a[e.of]
<1>1. e.last \in Int /\ Never <= e.last /\ e.of \in Jobs /\ t \in Int /\ a[e.of] \in Int
    BY RecordIs DEF Never
<1>2. UpTo(e.of, e.last) <= UpTo(e.of, t) /\ UpTo(e.of, e.last) \in Nat /\ UpTo(e.of, t) \in Nat
    BY <1>1, UpToBoth
<1>3. CASE 1 <= UpTo(e.of, t) + a[e.of]
    BY <1>3
<1>4. CASE (IF e.force THEN 1 ELSE 0) <= UpTo(e.of, e.last) + a[e.of]
  <2>1. CASE e.force
      BY <1>1, <1>2, <1>4, <2>1
  <2>2. CASE ~e.force
    <3>1. IsJobDue(e, t)
        BY <2>2 DEF Selected
    <3>2. UpTo(e.of, e.last) + 1 <= UpTo(e.of, t)
        BY <3>1, DueGrows
    <3>3. 0 <= UpTo(e.of, e.last) + a[e.of]
        BY <1>4, <2>2
    <3>. QED  BY <1>1, <1>2, <3>2, <3>3
  <2>. QED  BY <2>1, <2>2
<1>. QED  BY <1>3, <1>4 DEF Paid

\* An update of the entries of a list that keeps the ids.
LEMMA SameIds ==
    ASSUME NEW t, NEW ids, NEW list, ListOK(list, t, ids), NEW g \in Seq(Records), DOMAIN g = DOMAIN list,
           \A p \in DOMAIN list : g[p].of = list[p].of /\ g[p].last <= t
    PROVE  ListOK(g, t, ids) /\ Ids(g) = Ids(list)
BY DEF ListOK, Ids

LEMMA UnforcedShape ==
    ASSUME NEW list \in Seq(Records), NEW k \in DOMAIN list
    PROVE  LET g == Unforced(list, k)
           IN  /\ g \in Seq(Records) /\ DOMAIN g = DOMAIN list
               /\ g[k].of = list[k].of /\ g[k].last = list[k].last /\ ~g[k].force
               /\ \A p \in DOMAIN list \ {k} : g[p] = list[p]
<1>. DEFINE e == [list[k] EXCEPT !.force = FALSE]
<1>1. list[k] \in Records /\ Len(list) \in Nat /\ DOMAIN list = 1 .. Len(list)
    BY LenProperties
<1>2. e \in Records /\ e.of = list[k].of /\ e.last = list[k].last /\ ~e.force
    BY <1>1 DEF Records
<1>3. Unforced(list, k) = [list EXCEPT ![k] = e]
    BY DEF Unforced
<1>. HIDE DEF e
<1>4. [list EXCEPT ![k] = e] \in Seq(Records)
    BY <1>1, <1>2, ExceptSeq
<1>. QED  BY <1>2, <1>3, <1>4

LEMMA RecordedShape ==
    ASSUME NEW list \in Seq(Records), NEW k \in DOMAIN list, NEW at \in 0 .. JobTime
    PROVE  LET g == Recorded(list, k, at)
           IN  /\ g \in Seq(Records) /\ DOMAIN g = DOMAIN list
               /\ g[k].of = list[k].of /\ g[k].last = at /\ g[k].force = list[k].force
               /\ \A p \in DOMAIN list \ {k} : g[p] = list[p]
<1>. DEFINE e == [list[k] EXCEPT !.last = at]
<1>1. list[k] \in Records /\ Len(list) \in Nat /\ DOMAIN list = 1 .. Len(list)
    BY LenProperties
<1>2. at \in Never .. JobTime
    BY Numerals DEF Never
<1>3. e \in Records /\ e.of = list[k].of /\ e.last = at /\ e.force = list[k].force
    BY <1>1, <1>2 DEF Records
<1>4. Recorded(list, k, at) = [list EXCEPT ![k] = e]
    BY DEF Recorded
<1>. HIDE DEF e
<1>5. [list EXCEPT ![k] = e] \in Seq(Records)
    BY <1>1, <1>3, ExceptSeq
<1>. QED  BY <1>3, <1>4, <1>5

LEMMA EarlierIsOK ==
    ASSUME NEW list, NEW s \in Int, NEW t \in Int, s <= t, NEW ids, ListOK(list, s, ids)
    PROVE  ListOK(list, t, ids)
<1>1. \A p \in DOMAIN list : list[p].last \in Int
    BY ListShape, RecordIs
<1>. QED  BY <1>1 DEF ListOK

-----------------------------------------------------------------------------
(* The runner *)

\* A job starts.
LEMMA BeginKeeps ==
    ASSUME JobInv, NEW list, NEW k, NEW at \in 0 .. minute,
           ListOK(list, at, known), k \in DOMAIN list,
           \A p \in DOMAIN list : Paid(list[p], at, Room),
           Selected(list[k], at),
           Begin(list, k, at),
           \A j : Ran(runner, j) => \E p \in 1 .. k : list[p].of = j,
           Ids(list) = Ids(jobs) \/ (runner.pc = "running" /\ Ids(list) = Ids(runner.jobs)),
           UNCHANGED <<minute, editor, known, jobCrashes, asked, overwritten>>
    PROVE  JobInv'
<1>. DEFINE g == Unforced(list, k)
            j == list[k].of
<1>1. /\ minute \in 0 .. JobTime /\ minute \in Int /\ minute \in Nat /\ at \in Nat /\ at \in Int /\ at <= minute
      /\ at \in 0 .. JobTime /\ Never <= at /\ Never <= minute
    BY Numerals DEF JobInv, NumberTypes, Never
<1>2. /\ list \in Seq(Records) /\ Len(list) \in Nat /\ DOMAIN list = 1 .. Len(list)
      /\ \A p \in DOMAIN list : list[p] \in Records /\ list[p].of \in Jobs
    BY ListShape, RecordIs DEF ListOK
<1>3. /\ g \in Seq(Records) /\ DOMAIN g = DOMAIN list
      /\ g[k].of = j /\ g[k].last = list[k].last /\ ~g[k].force
      /\ \A p \in DOMAIN list \ {k} : g[p] = list[p]
    BY <1>2, UnforcedShape
<1>4. \A p \in DOMAIN list : g[p].of = list[p].of /\ g[p].last <= at
    BY <1>3 DEF ListOK
<1>5. ListOK(g, at, known) /\ Ids(g) = Ids(list)
    BY <1>2, <1>3, <1>4, SameIds
<1>6. /\ runner' = [pc |-> "running", jobs |-> g, k |-> k, at |-> at]
      /\ runs' = [runs EXCEPT ![j] = @ + 1]
      /\ jobs' = IF list[k].force THEN g ELSE jobs
    BY DEF Begin
<1>7. j \in Jobs /\ j \in known
    BY <1>2 DEF ListOK
<1>8. NumberTypes'
    BY <1>6, <1>7 DEF JobInv, NumberTypes
<1>9. /\ Room \in [Jobs -> Int] /\ Room' \in [Jobs -> Int]
      /\ Room'[j] = Room[j] - 1 /\ \A i \in Jobs \ {j} : Room'[i] = Room[i]
  <2>1. runs \in [Jobs -> Nat] /\ runs'[j] = runs[j] + 1 /\ \A i \in Jobs \ {j} : runs'[i] = runs[i]
      BY <1>6, <1>7 DEF JobInv, NumberTypes
  <2>. QED  BY <1>7, <1>8, <2>1 DEF JobInv, NumberTypes, Room
<1>10. 1 <= UpTo(j, at) + Room[j]
  <2>1. list[k].last <= at /\ list[k] \in Records /\ Paid(list[k], at, Room)
      BY <1>2 DEF ListOK
  <2>. QED  BY <1>1, <1>9, <2>1, SelectedIsPaid
<1>11. \A p \in DOMAIN list \ {k} : list[p].of \in Jobs \ {j}
  <2>1. \A p, q \in DOMAIN list : list[p].of = list[q].of => p = q
      BY DEF ListOK
  <2>. QED  BY <1>2, <2>1
<1>12. \A p \in DOMAIN list \ {k} : Paid(g[p], at, Room')
  <2>1. ASSUME NEW p \in DOMAIN list \ {k} PROVE Paid(g[p], at, Room')
    <3>1. g[p] = list[p] /\ Room'[list[p].of] = Room[list[p].of]
        BY <1>3, <1>9, <1>11, <2>1
    <3>2. Paid(list[p], at, Room)
        BY <2>1
    <3>. QED  BY <3>1, <3>2 DEF Paid
  <2>. QED  BY <2>1
<1>13. UpTo(j, at) <= UpTo(j, minute) /\ UpTo(j, at) \in Nat /\ UpTo(j, minute) \in Nat
    BY <1>1, UpToBoth
<1>14. /\ runner'.pc = "running" /\ runner'.jobs = g /\ runner'.k = k /\ runner'.at = at
       /\ {"pc", "jobs", "k", "at"} \subseteq DOMAIN runner'
    BY <1>6
<1>. HIDE DEF g
<1>15. PassInv'
  <2>1. 0 <= UpTo(j, at) + Room'[j]
      BY <1>7, <1>9, <1>10, <1>13
  <2>2. g[k].of = j
      BY <1>3
  <2>. HIDE DEF j
  <2>. QED  BY <1>3, <1>5, <1>12, <1>14, <2>1, <2>2 DEF PassInv
<1>16. \A i : (\E p \in 1 .. k : list[p].of = i) => Ran(runner', i)
  <2>1. \A p \in 1 .. k : p \in DOMAIN list
      BY <1>2
  <2>. QED  BY <1>4, <1>14, <2>1 DEF Ran
<1>17. FileInv'
  <2>1. CASE list[k].force
    <3>1. jobs' = g
        BY <1>6, <2>1
    <3>2. ListOK(g, minute, known)
        BY <1>1, <1>5, EarlierIsOK
    <3>3. ASSUME NEW p \in DOMAIN g PROVE Ran(runner', g[p].of) \/ Paid(g[p], minute, Room')
      <4>1. CASE p \in 1 .. k
          BY <1>3, <1>4, <1>16, <3>3, <4>1
      <4>2. CASE p \notin 1 .. k
        <5>1. p \in DOMAIN list \ {k} /\ g[p] \in Records
            BY <1>2, <1>3, <3>3, <4>2
        <5>2. Room'[g[p].of] <= Room'[g[p].of]
            BY <1>9, <5>1, RecordIs
        <5>. QED  BY <1>1, <1>9, <1>12, <5>1, <5>2, PaidLater
      <4>. QED  BY <4>1, <4>2
    <3>. QED  BY <3>1, <3>2, <3>3 DEF FileInv
  <2>2. CASE ~list[k].force
    <3>1. jobs' = jobs
        BY <1>6, <2>2
    <3>2. ASSUME NEW p \in DOMAIN jobs PROVE Ran(runner', jobs[p].of) \/ Paid(jobs[p], minute, Room')
      <4>1. jobs[p].of \in Jobs
          BY <3>2, ListShape, RecordIs DEF JobInv, FileInv
      <4>2. CASE Ran(runner, jobs[p].of)
          BY <1>16, <4>2
      <4>3. CASE jobs[p].of = j
          BY <1>2, <1>16, <4>3
      <4>4. CASE ~Ran(runner, jobs[p].of) /\ jobs[p].of # j
        <5>1. Paid(jobs[p], minute, Room)
            BY <3>2, <4>4 DEF JobInv, FileInv
        <5>2. Room'[jobs[p].of] = Room[jobs[p].of]
            BY <1>9, <4>1, <4>4
        <5>. QED  BY <5>1, <5>2 DEF Paid
      <4>. QED  BY <4>2, <4>3, <4>4
    <3>. QED  BY <3>1, <3>2 DEF JobInv, FileInv
  <2>. QED  BY <2>1, <2>2
<1>18. EditInv'
  <2>1. ASSUME editor.pc = "write", NEW p \in DOMAIN editor.write, Unheard(editor.write[p], jobs, runner, runs)
        PROVE  Unheard(editor.write[p], jobs', runner', runs')
    <3>1. editor.write[p].of \notin Ids(list) /\ editor.write[p].of \in Jobs
        BY <2>1, ListShape, RecordIs DEF JobInv, EditInv, Unheard
    <3>2. editor.write[p].of # j
        BY <3>1 DEF Ids
    <3>3. Ids(jobs') \subseteq Ids(list) \cup Ids(jobs) /\ Ids(runner'.jobs) = Ids(list)
        BY <1>5, <1>6, <1>14
    <3>4. runs'[editor.write[p].of] = runs[editor.write[p].of]
        BY <1>6, <3>1, <3>2 DEF JobInv, NumberTypes
    <3>. QED  BY <2>1, <3>1, <3>3, <3>4 DEF Unheard
  <2>. QED  BY <2>1 DEF JobInv, EditInv
<1>19. RoomInv'
  <2>1. \A i \in Jobs \ known : runs'[i] = 0
      BY <1>6, <1>7 DEF JobInv, RoomInv, NumberTypes
  <2>2. ASSUME NEW i \in Jobs PROVE 0 <= UpTo(i, minute) + Room'[i]
    <3>1. CASE i = j
        BY <1>7, <1>9, <1>10, <1>13, <3>1
    <3>2. CASE i # j
        BY <1>9, <3>2 DEF JobInv, RoomInv
    <3>. QED  BY <3>1, <3>2
  <2>. QED  BY <2>1, <2>2 DEF RoomInv
<1>. QED  BY <1>8, <1>15, <1>17, <1>18, <1>19 DEF JobInv

LEMMA MinIsIn ==
    ASSUME NEW S \in SUBSET Nat, S # {}
    PROVE  Min(S) \in S /\ \A x \in S : Min(S) <= x
<1>. DEFINE Less == OpToRel(<, Nat)
<1>1. IsWellFoundedOn(Less, Nat)
    BY NatLessThanWellFounded
<1>. HIDE DEF Less
<1>2. PICK m \in S : \A x \in S : ~(<<x, m>> \in Less)
    BY <1>1, WFMin
<1>3. \A x, y \in Nat : x < y => <<x, y>> \in Less
    BY DEF Less, OpToRel
<1>4. ASSUME NEW x \in S PROVE m <= x
  <2>1. x \in Nat /\ m \in Nat /\ ~(x < m)
      BY <1>2, <1>3, <1>4
  <2>. QED  BY <2>1
<1>. QED  BY <1>4 DEF Min

LEMMA JobTickKeeps == ASSUME JobInv, JobTick PROVE JobInv'
<1>. DEFINE D == Due(jobs, 1, minute)
<1>1. PICK list, k, at : list = jobs /\ k = Min(D) /\ at = minute
    OBVIOUS
<1>2. ListOK(list, at, known) /\ at \in 0 .. minute
    BY <1>1 DEF JobInv, FileInv, NumberTypes
<1>3. D \in SUBSET Nat /\ D # {}
    BY <1>1, <1>2, ListShape DEF Due, JobTick
<1>4. k \in DOMAIN list /\ Selected(list[k], at)
  <2>1. k \in D
      BY <1>1, <1>3, MinIsIn
  <2>. QED  BY <1>1, <1>2, <2>1, ListShape DEF Due
<1>5. \A j : ~Ran(runner, j)
    BY DEF JobTick, Ran
<1>6. \A p \in DOMAIN list : Paid(list[p], at, Room)
    BY <1>1, <1>5 DEF JobInv, FileInv
<1>7. Begin(list, k, at) /\ UNCHANGED <<minute, editor, known, jobCrashes, asked, overwritten>>
    BY <1>1 DEF JobTick
<1>8. Ids(list) = Ids(jobs)
    BY <1>1
<1>. HIDE DEF D
<1>. QED  BY <1>2, <1>4, <1>5, <1>6, <1>7, <1>8, BeginKeeps

\* The list of the pass once the job has ended: it is recorded as run.
LEMMA RecordedIsPaid ==
    ASSUME JobInv, runner.pc = "running", NEW list, list = Recorded(runner.jobs, runner.k, runner.at)
    PROVE  /\ ListOK(list, runner.at, known) /\ Ids(list) = Ids(runner.jobs)
           /\ DOMAIN list = DOMAIN runner.jobs /\ \A p \in DOMAIN list : list[p].of = runner.jobs[p].of
           /\ \A p \in DOMAIN list : Paid(list[p], runner.at, Room)
<1>1. PICK before, k, at : before = runner.jobs /\ k = runner.k /\ at = runner.at
    OBVIOUS
<1>2. /\ at \in 0 .. minute /\ ListOK(before, at, known) /\ k \in DOMAIN before /\ ~before[k].force
      /\ \A p \in DOMAIN before \ {k} : Paid(before[p], at, Room)
      /\ 0 <= UpTo(before[k].of, at) + Room[before[k].of]
    BY <1>1 DEF JobInv, PassInv
<1>3. at \in 0 .. JobTime /\ before \in Seq(Records) /\ at \in Int
    BY <1>2, Numerals DEF JobInv, NumberTypes, ListOK
<1>4. list = Recorded(before, k, at)
    BY <1>1
<1>5. /\ list \in Seq(Records) /\ DOMAIN list = DOMAIN before
      /\ list[k].of = before[k].of /\ list[k].last = at /\ list[k].force = before[k].force
      /\ \A p \in DOMAIN before \ {k} : list[p] = before[p]
    BY <1>2, <1>3, <1>4, RecordedShape
<1>6. \A p \in DOMAIN before : list[p].of = before[p].of /\ list[p].last <= at
    BY <1>2, <1>3, <1>5 DEF ListOK
<1>7. ListOK(list, at, known) /\ Ids(list) = Ids(before)
    BY <1>2, <1>5, <1>6, SameIds
<1>8. Paid(list[k], at, Room)
  <2>1. (IF list[k].force THEN 1 ELSE 0) = 0
      BY <1>2, <1>5
  <2>. QED  BY <1>2, <1>5, <2>1 DEF Paid
<1>9. \A p \in DOMAIN list : Paid(list[p], at, Room)
    BY <1>2, <1>5, <1>8
<1>. QED  BY <1>1, <1>5, <1>6, <1>7, <1>9

\* The save.
LEMMA SaveKeeps ==
    ASSUME JobInv, runner.pc = "running", NEW list, list = Recorded(runner.jobs, runner.k, runner.at),
           jobs' = list, runner' = NoRun,
           UNCHANGED <<runs, minute, editor, known, jobCrashes, asked, overwritten>>
    PROVE  JobInv'
<1>1. PICK at : at = runner.at
    OBVIOUS
<1>2. /\ ListOK(list, at, known) /\ Ids(list) = Ids(runner.jobs)
      /\ \A p \in DOMAIN list : Paid(list[p], at, Room)
    BY <1>1, RecordedIsPaid
<1>3. at \in 0 .. minute /\ at \in Int /\ minute \in Int /\ Never <= at /\ at <= minute
    BY <1>1, Numerals DEF JobInv, PassInv, NumberTypes, Never
<1>4. Room' = Room /\ Room \in [Jobs -> Int]
    BY RoomType DEF JobInv, Room
<1>5. NumberTypes' /\ RoomInv'
    BY <1>4 DEF JobInv, NumberTypes, RoomInv
<1>6. runner'.pc = "idle" /\ {"pc", "jobs", "k", "at"} \subseteq DOMAIN runner'
    BY DEF NoRun
<1>7. PassInv'
    BY <1>6 DEF PassInv
<1>8. FileInv'
  <2>1. ListOK(list, minute, known)
      BY <1>2, <1>3, EarlierIsOK
  <2>2. ASSUME NEW p \in DOMAIN list PROVE Paid(list[p], minute, Room)
    <3>1. list[p] \in Records /\ list[p].of \in Jobs
        BY <1>2, <2>2, ListShape, RecordIs
    <3>2. Room[list[p].of] <= Room[list[p].of]
        BY <1>4, <3>1
    <3>. QED  BY <1>2, <1>3, <1>4, <2>2, <3>1, <3>2, PaidLater
  <2>. QED  BY <1>4, <2>1, <2>2 DEF FileInv
<1>9. EditInv'
  <2>1. ASSUME editor.pc = "write", NEW p \in DOMAIN editor.write, Unheard(editor.write[p], jobs, runner, runs)
        PROVE  Unheard(editor.write[p], jobs', runner', runs')
      BY <1>2, <1>6, <2>1 DEF Unheard
  <2>. QED  BY <2>1 DEF JobInv, EditInv
<1>. QED  BY <1>5, <1>7, <1>8, <1>9 DEF JobInv

LEMMA FinishKeeps == ASSUME JobInv, Finish PROVE JobInv'
<1>1. PICK list, at : list = Recorded(runner.jobs, runner.k, runner.at) /\ at = runner.at
    OBVIOUS
<1>2. runner.pc = "running" /\ UNCHANGED <<minute, editor, known, jobCrashes, asked, overwritten>>
    BY DEF Finish
<1>3. /\ ListOK(list, at, known) /\ Ids(list) = Ids(runner.jobs)
      /\ DOMAIN list = DOMAIN runner.jobs /\ \A p \in DOMAIN list : list[p].of = runner.jobs[p].of
      /\ \A p \in DOMAIN list : Paid(list[p], at, Room)
    BY <1>1, <1>2, RecordedIsPaid
<1>. DEFINE rest == Due(list, runner.k + 1, at)
<1>4. CASE rest # {} /\ Begin(list, Min(rest), at)
  <2>1. PICK k : k = Min(rest)
      OBVIOUS
  <2>2. runner.k \in DOMAIN list /\ Len(list) \in Nat /\ DOMAIN list = 1 .. Len(list) /\ at \in 0 .. minute
      BY <1>1, <1>2, <1>3, ListShape DEF JobInv, PassInv
  <2>3. rest \in SUBSET Nat
      BY <2>2 DEF Due
  <2>4. k \in rest
      BY <1>4, <2>1, <2>3, MinIsIn
  <2>5. k \in DOMAIN list /\ Selected(list[k], at) /\ runner.k + 1 <= k
      BY <2>2, <2>4 DEF Due
  <2>6. \A j : Ran(runner, j) => \E p \in 1 .. k : list[p].of = j
    <3>1. ASSUME NEW p \in 1 .. runner.k PROVE p \in 1 .. k /\ list[p].of = runner.jobs[p].of
        BY <1>3, <2>2, <2>5, <3>1
    <3>. QED  BY <3>1 DEF Ran
  <2>7. Begin(list, k, at)
      BY <1>4, <2>1
  <2>. HIDE DEF rest
  <2>. QED  BY <1>2, <1>3, <2>2, <2>5, <2>6, <2>7, BeginKeeps
<1>5. CASE jobs' = list /\ runner' = NoRun /\ UNCHANGED runs
    BY <1>1, <1>2, <1>5, SaveKeeps
<1>. QED  BY <1>1, <1>4, <1>5 DEF Finish

-----------------------------------------------------------------------------
(* The organizer *)

LEMMA MoreIds ==
    ASSUME NEW list, NEW t, NEW a, NEW b, a \subseteq b, ListOK(list, t, a)
    PROVE  ListOK(list, t, b)
BY DEF ListOK

\* A command that has read the file.
LEMMA JobCommandKeeps ==
    ASSUME JobInv, NEW new, NEW run, JobCommand(new, run), known \subseteq known', known' \subseteq Jobs,
           ListOK(new, minute, known'),
           \A p \in DOMAIN new : Written(new[p], jobs, run) \/ Unheard(new[p], jobs, runner, runs)
    PROVE  JobInv'
<1>1. /\ UNCHANGED <<jobs, minute, runner, jobCrashes, runs, asked, overwritten>>
      /\ editor' = [pc |-> "write", read |-> jobs, write |-> new, run |-> run]
    BY DEF JobCommand
<1>2. Room' = Room
    BY <1>1 DEF Room
<1>3. NumberTypes'
    BY <1>1 DEF JobInv, NumberTypes
<1>4. FileInv'
  <2>1. ListOK(jobs, minute, known')
      BY MoreIds DEF JobInv, FileInv
  <2>. QED  BY <1>1, <1>2, <2>1 DEF JobInv, FileInv
<1>5. PassInv'
  <2>1. runner.pc = "running" => ListOK(runner.jobs, runner.at, known')
      BY MoreIds DEF JobInv, PassInv
  <2>. QED  BY <1>1, <1>2, <2>1 DEF JobInv, PassInv
<1>6. EditInv'
    BY <1>1 DEF EditInv
<1>7. RoomInv'
    BY <1>1, <1>2 DEF JobInv, RoomInv
<1>. QED  BY <1>3, <1>4, <1>5, <1>6, <1>7 DEF JobInv

LEMMA NewJobIs ==
    ASSUME NEW j \in Jobs
    PROVE  /\ NewJob(j) \in Records /\ NewJob(j).of = j /\ ~NewJob(j).force /\ NewJob(j).last = Never
BY Numerals DEF NewJob, Records, Never

LEMMA AddJobKeeps == ASSUME JobInv, NEW j \in Jobs, AddJob(j) PROVE JobInv'
<1>. DEFINE new == Append(jobs, NewJob(j))
<1>1. /\ j \notin known /\ known' = known \cup {j} /\ JobCommand(new, {})
    BY DEF AddJob
<1>2. /\ ListOK(jobs, minute, known) /\ jobs \in Seq(Records) /\ Len(jobs) \in Nat /\ DOMAIN jobs = 1 .. Len(jobs)
      /\ \A p \in DOMAIN jobs : jobs[p] \in Records
    BY ListShape DEF JobInv, FileInv, ListOK
<1>3. /\ new \in Seq(Records) /\ Len(new) = Len(jobs) + 1
      /\ \A p \in 1 .. Len(jobs) : new[p] = jobs[p]
      /\ new[Len(jobs) + 1] = NewJob(j)
    BY <1>2, NewJobIs, AppendProperties
<1>4. DOMAIN new = 1 .. Len(jobs) + 1
    BY <1>3, LenProperties
<1>5. \A p \in DOMAIN new : (p \in DOMAIN jobs /\ new[p] = jobs[p]) \/ (p \notin DOMAIN jobs /\ new[p] = NewJob(j))
  <2>1. \A p \in 1 .. Len(jobs) + 1 : p \in 1 .. Len(jobs) \/ p = Len(jobs) + 1
      BY <1>2
  <2>2. Len(jobs) + 1 \notin 1 .. Len(jobs)
      BY <1>2
  <2>. QED  BY <1>2, <1>3, <1>4, <2>1, <2>2
<1>. HIDE DEF new
<1>6. \A p \in DOMAIN jobs : jobs[p].of # j
    BY <1>1, <1>2 DEF ListOK
<1>7. ListOK(new, minute, known')
  <2>1. ASSUME NEW p \in DOMAIN new PROVE new[p].of \in known' /\ new[p].last <= minute
    <3>1. Never <= minute
        BY Numerals DEF JobInv, NumberTypes, Never
    <3>. QED  BY <1>1, <1>2, <1>5, <2>1, <3>1, NewJobIs DEF ListOK
  <2>2. ASSUME NEW p \in DOMAIN new, NEW q \in DOMAIN new, new[p].of = new[q].of PROVE p = q
    <3>1. CASE p \in DOMAIN jobs /\ q \in DOMAIN jobs
        BY <1>2, <1>5, <2>2, <3>1 DEF ListOK
    <3>2. CASE p \notin DOMAIN jobs /\ q \notin DOMAIN jobs
      <4>1. p = Len(jobs) + 1 /\ q = Len(jobs) + 1
          BY <1>2, <1>4, <2>2, <3>2
      <4>. QED  BY <4>1
    <3>3. CASE p \in DOMAIN jobs /\ q \notin DOMAIN jobs
        BY <1>5, <1>6, <2>2, <3>3, NewJobIs
    <3>4. CASE p \notin DOMAIN jobs /\ q \in DOMAIN jobs
        BY <1>5, <1>6, <2>2, <3>4, NewJobIs
    <3>. QED  BY <3>1, <3>2, <3>3, <3>4
  <2>. QED  BY <1>3, <2>1, <2>2 DEF ListOK
<1>8. ASSUME NEW p \in DOMAIN new
      PROVE  Written(new[p], jobs, {}) \/ Unheard(new[p], jobs, runner, runs)
  <2>1. CASE p \in DOMAIN jobs
    <3>1. new[p] = jobs[p]
        BY <1>5, <1>8, <2>1
    <3>. QED  BY <2>1, <3>1 DEF Written
  <2>2. CASE p \notin DOMAIN jobs
    <3>1. new[p].of = j /\ ~new[p].force
        BY <1>5, <1>8, <2>2, NewJobIs
    <3>2. runs[j] = 0 /\ j \notin Ids(jobs)
        BY <1>1, <1>6 DEF JobInv, RoomInv, Ids
    <3>3. runner.pc = "running" => j \notin Ids(runner.jobs)
        BY <1>1 DEF JobInv, PassInv, ListOK, Ids
    <3>. QED  BY <3>1, <3>2, <3>3 DEF Unheard
  <2>. QED  BY <2>1, <2>2
<1>9. known \subseteq known' /\ known' \subseteq Jobs
    BY <1>1 DEF JobInv, NumberTypes
<1>. QED  BY <1>1, <1>7, <1>8, <1>9, JobCommandKeeps

LEMMA DeleteJobKeeps == ASSUME JobInv, NEW k \in DOMAIN jobs, DeleteJob(k) PROVE JobInv'
<1>. DEFINE new == RemoveAt(jobs, k)
            From(p) == IF p < k THEN p ELSE p + 1
<1>1. JobCommand(new, {}) /\ known' = known
    BY DEF DeleteJob
<1>2. /\ ListOK(jobs, minute, known) /\ jobs \in Seq(Records) /\ Len(jobs) \in Nat /\ DOMAIN jobs = 1 .. Len(jobs)
    BY ListShape DEF JobInv, FileInv, ListOK
<1>3. new \in Seq(Records) /\ DOMAIN new = 1 .. Len(jobs) - 1 /\ \A p \in DOMAIN new : new[p] = jobs[From(p)]
    BY <1>2, RemoveAtShape
<1>4. /\ \A p \in DOMAIN new : From(p) \in DOMAIN jobs
      /\ \A p, q \in DOMAIN new : From(p) = From(q) => p = q
    BY <1>2, <1>3
<1>. HIDE DEF new, From
<1>5. ListOK(new, minute, known')
    BY <1>1, <1>2, <1>3, <1>4 DEF ListOK
<1>6. \A p \in DOMAIN new : Written(new[p], jobs, {})
    BY <1>3, <1>4 DEF Written
<1>7. known \subseteq known' /\ known' \subseteq Jobs
    BY <1>1 DEF JobInv, NumberTypes
<1>. QED  BY <1>1, <1>5, <1>6, <1>7, JobCommandKeeps

\* A command that changes the flags of one job.
LEMMA FlagKeeps ==
    ASSUME JobInv, NEW k \in DOMAIN jobs, NEW e \in Records, NEW run,
           e.of = jobs[k].of, e.last = jobs[k].last, e.force => jobs[k].force \/ e.of \in run,
           JobCommand([jobs EXCEPT ![k] = e], run), known' = known
    PROVE  JobInv'
<1>. DEFINE new == [jobs EXCEPT ![k] = e]
<1>1. /\ ListOK(jobs, minute, known) /\ jobs \in Seq(Records) /\ Len(jobs) \in Nat /\ DOMAIN jobs = 1 .. Len(jobs)
    BY ListShape DEF JobInv, FileInv, ListOK
<1>2. new \in Seq(Records)
    BY <1>1, ExceptSeq
<1>3. DOMAIN new = DOMAIN jobs /\ new[k] = e /\ \A p \in DOMAIN jobs \ {k} : new[p] = jobs[p]
    BY <1>1
<1>. HIDE DEF new
<1>4. \A p \in DOMAIN jobs : new[p].of = jobs[p].of /\ new[p].last = jobs[p].last
    BY <1>3
<1>5. \A p \in DOMAIN jobs : jobs[p].last <= minute
    BY <1>1 DEF ListOK
<1>6. ListOK(new, minute, known)
    BY <1>1, <1>2, <1>3, <1>4, <1>5, SameIds
<1>7. \A p \in DOMAIN new : Written(new[p], jobs, run)
    BY <1>3, <1>4 DEF Written
<1>8. known \subseteq known' /\ known' \subseteq Jobs /\ ListOK(new, minute, known')
    BY <1>6 DEF JobInv, NumberTypes
<1>9. JobCommand(new, run)
    BY DEF new
<1>. QED  BY <1>7, <1>8, <1>9, JobCommandKeeps

LEMMA ToggleJobKeeps == ASSUME JobInv, NEW k \in DOMAIN jobs, ToggleJob(k) PROVE JobInv'
<1>1. jobs[k] \in Records
    BY ListShape DEF JobInv, FileInv
<1>2. PICK e : e = [jobs[k] EXCEPT !.enabled = ~@]
    OBVIOUS
<1>3. e \in Records /\ e.of = jobs[k].of /\ e.last = jobs[k].last /\ e.force = jobs[k].force
    BY <1>1, <1>2 DEF Records
<1>4. JobCommand([jobs EXCEPT ![k] = e], {}) /\ known' = known
    BY <1>2 DEF ToggleJob
<1>. QED  BY <1>3, <1>4, FlagKeeps

LEMMA RunJobKeeps == ASSUME JobInv, NEW k \in DOMAIN jobs, RunJob(k) PROVE JobInv'
<1>1. jobs[k] \in Records
    BY ListShape DEF JobInv, FileInv
<1>2. PICK e : e = [jobs[k] EXCEPT !.force = TRUE]
    OBVIOUS
<1>3. e \in Records /\ e.of = jobs[k].of /\ e.last = jobs[k].last
    BY <1>1, <1>2 DEF Records
<1>4. PICK run : run = {jobs[k].of}
    OBVIOUS
<1>5. JobCommand([jobs EXCEPT ![k] = e], run) /\ known' = known
    BY <1>2, <1>4 DEF RunJob
<1>. QED  BY <1>3, <1>4, <1>5, FlagKeeps

\* What a command wrote may be run: its flags are paid for with the request, and a file that
\* had changed since it was read pays for everything.
LEMMA JobsWrittenKeeps == ASSUME JobInv, JobsWritten PROVE JobInv'
<1>. DEFINE new == editor.write
<1>1. /\ editor.pc = "write" /\ jobs' = new /\ editor' = NoJobCommand
      /\ UNCHANGED <<minute, runner, known, jobCrashes, runs>>
      /\ asked' = [j \in Jobs |-> IF j \in editor.run THEN asked[j] + 1 ELSE asked[j]]
      /\ overwritten' = IF editor.read = jobs THEN overwritten ELSE overwritten + 1
    BY DEF JobsWritten
<1>2. /\ ListOK(new, minute, known)
      /\ \A p \in DOMAIN new : Written(new[p], editor.read, editor.run) \/ Unheard(new[p], jobs, runner, runs)
      /\ \A p \in DOMAIN new : new[p] \in Records /\ new[p].of \in Jobs
    BY <1>1, ListShape, RecordIs DEF JobInv, EditInv
<1>. HIDE DEF new
<1>3. NumberTypes'
  <2>1. asked' \in [Jobs -> Nat] /\ overwritten' \in Nat
      BY <1>1 DEF JobInv, NumberTypes
  <2>. QED  BY <1>1, <2>1 DEF JobInv, NumberTypes
<1>4. Room \in [Jobs -> Int] /\ Room' \in [Jobs -> Int]
  <2>1. Room' \in [Jobs -> Int]
      BY <1>3 DEF Room, NumberTypes
  <2>. QED  BY <2>1, RoomType DEF JobInv
<1>5. \A j \in Jobs : Room[j] <= Room'[j] /\ (j \in editor.run => Room[j] + 1 <= Room'[j])
  <2>1. ASSUME NEW j \in Jobs PROVE Room[j] <= Room'[j] /\ (j \in editor.run => Room[j] + 1 <= Room'[j])
    <3>1. /\ Room[j] = asked[j] + jobCrashes + overwritten - runs[j]
          /\ Room'[j] = asked'[j] + jobCrashes + overwritten' - runs[j]
        BY <1>1 DEF Room
    <3>2. /\ asked[j] \in Nat /\ jobCrashes \in Nat /\ runs[j] \in Nat
          /\ overwritten' \in Nat /\ overwritten \in Nat /\ overwritten <= overwritten'
        BY <1>1 DEF JobInv, NumberTypes
    <3>3. asked'[j] = IF j \in editor.run THEN asked[j] + 1 ELSE asked[j]
        BY <1>1
    <3>4. CASE j \in editor.run
        BY <3>1, <3>2, <3>3, <3>4
    <3>5. CASE j \notin editor.run
        BY <3>1, <3>2, <3>3, <3>5
    <3>. QED  BY <3>4, <3>5
  <2>. QED  BY <2>1
<1>6. editor.read # jobs => \A j \in Jobs : Room[j] + 1 <= Room'[j]
  <2>1. ASSUME editor.read # jobs, NEW j \in Jobs PROVE Room[j] + 1 <= Room'[j]
    <3>1. /\ Room[j] = asked[j] + jobCrashes + overwritten - runs[j]
          /\ Room'[j] = asked'[j] + jobCrashes + overwritten' - runs[j]
        BY <1>1 DEF Room
    <3>2. asked[j] \in Nat /\ asked'[j] \in Nat /\ jobCrashes \in Nat /\ runs[j] \in Nat /\ overwritten \in Nat
        BY <1>3 DEF JobInv, NumberTypes
    <3>3. asked[j] <= asked'[j]
        BY <1>1, <3>2
    <3>4. overwritten' = overwritten + 1
        BY <1>1, <2>1
    <3>. QED  BY <3>1, <3>2, <3>3, <3>4
  <2>. QED  BY <2>1
<1>7. \A j \in Jobs : UpTo(j, minute) \in Nat /\ 0 <= UpTo(j, minute) + Room[j]
  <2>1. minute \in Int /\ Never <= minute
      BY Numerals DEF JobInv, NumberTypes, Never
  <2>. QED  BY <2>1, UpToType DEF JobInv, RoomInv
<1>8. ASSUME NEW p \in DOMAIN new PROVE Ran(runner, new[p].of) \/ Paid(new[p], minute, Room')
  <2>. DEFINE e == new[p]
  <2>1. e \in Records /\ e.of \in Jobs /\ e.last \in Int /\ Never <= e.last
      BY <1>2, <1>8, RecordIs DEF Never
  <2>2. /\ Room[e.of] \in Int /\ Room'[e.of] \in Int /\ Room[e.of] <= Room'[e.of]
        /\ UpTo(e.of, minute) \in Nat /\ UpTo(e.of, e.last) \in Nat
      BY <1>4, <1>5, <1>7, <2>1, UpToType
  <2>3. CASE editor.read # jobs
    <3>1. 1 <= UpTo(e.of, minute) + Room'[e.of]
        BY <1>6, <1>7, <2>1, <2>2, <2>3
    <3>. QED  BY <3>1 DEF Paid
  <2>4. CASE Unheard(e, jobs, runner, runs)
    <3>1. ~e.force /\ runs[e.of] = 0
        BY <2>4 DEF Unheard
    <3>2. 0 <= Room'[e.of]
        BY <1>1, <1>3, <2>1, <3>1 DEF Room, NumberTypes
    <3>. QED  BY <2>2, <3>1, <3>2 DEF Paid
  <2>5. CASE editor.read = jobs /\ Written(e, editor.read, editor.run)
    <3>1. PICK q \in DOMAIN jobs : /\ jobs[q].of = e.of /\ jobs[q].last = e.last
                                   /\ e.force => jobs[q].force \/ e.of \in editor.run
        BY <2>5 DEF Written
    <3>2. CASE Ran(runner, e.of)
        BY <3>2
    <3>3. CASE ~Ran(runner, e.of)
      <4>1. Paid(jobs[q], minute, Room)
          BY <3>1, <3>3 DEF JobInv, FileInv
      <4>2. CASE 1 <= UpTo(jobs[q].of, minute) + Room[jobs[q].of]
        <5>1. 1 <= UpTo(e.of, minute) + Room'[e.of]
            BY <2>2, <3>1, <4>2
        <5>. QED  BY <5>1 DEF Paid
      <4>3. CASE (IF jobs[q].force THEN 1 ELSE 0) <= UpTo(jobs[q].of, jobs[q].last) + Room[jobs[q].of]
        <5>1. (IF e.force THEN 1 ELSE 0) <= UpTo(e.of, e.last) + Room'[e.of]
          <6>1. CASE ~e.force \/ jobs[q].force
              BY <2>2, <3>1, <4>3, <6>1
          <6>2. CASE e.of \in editor.run
              BY <1>5, <2>1, <2>2, <3>1, <4>3, <6>2
          <6>. QED  BY <3>1, <6>1, <6>2
        <5>. QED  BY <5>1 DEF Paid
      <4>. QED  BY <4>1, <4>2, <4>3 DEF Paid
    <3>. QED  BY <3>2, <3>3
  <2>. QED  BY <1>2, <1>8, <2>3, <2>4, <2>5
<1>9. FileInv'
    BY <1>1, <1>2, <1>8 DEF FileInv
<1>10. PassInv'
  <2>1. ASSUME runner.pc = "running"
        PROVE  /\ \A p \in DOMAIN runner.jobs \ {runner.k} : Paid(runner.jobs[p], runner.at, Room')
               /\ 0 <= UpTo(runner.jobs[runner.k].of, runner.at) + Room'[runner.jobs[runner.k].of]
    <3>1. PICK list, at, k : list = runner.jobs /\ at = runner.at /\ k = runner.k
        OBVIOUS
    <3>2. /\ at \in 0 .. minute /\ at \in Int /\ Never <= at /\ ListOK(list, at, known) /\ k \in DOMAIN list
          /\ \A p \in DOMAIN list \ {k} : Paid(list[p], at, Room)
          /\ 0 <= UpTo(list[k].of, at) + Room[list[k].of]
        BY <2>1, <3>1, Numerals DEF JobInv, PassInv, NumberTypes, Never
    <3>3. \A p \in DOMAIN list : list[p] \in Records /\ list[p].of \in Jobs /\ Room[list[p].of] <= Room'[list[p].of]
        BY <1>5, <3>2, ListShape, RecordIs
    <3>4. ASSUME NEW p \in DOMAIN list \ {k} PROVE Paid(list[p], at, Room')
        BY <1>4, <3>2, <3>3, <3>4, PaidLater
    <3>5. 0 <= UpTo(list[k].of, at) + Room'[list[k].of]
      <4>1. UpTo(list[k].of, at) \in Nat /\ Room[list[k].of] \in Int /\ Room'[list[k].of] \in Int
          BY <1>4, <3>2, <3>3, UpToType
      <4>. QED  BY <3>2, <3>3, <4>1
    <3>. QED  BY <3>1, <3>4, <3>5
  <2>. QED  BY <1>1, <2>1 DEF JobInv, PassInv
<1>11. EditInv'
    BY <1>1 DEF EditInv, NoJobCommand
<1>12. RoomInv'
  <2>1. \A j \in Jobs : 0 <= UpTo(j, minute) + Room'[j]
      BY <1>4, <1>5, <1>7
  <2>. QED  BY <1>1, <2>1 DEF JobInv, RoomInv
<1>. QED  BY <1>3, <1>9, <1>10, <1>11, <1>12 DEF JobInv

-----------------------------------------------------------------------------
(* The clock and the end of the bot *)

LEMMA MinutePassesKeeps == ASSUME JobInv, MinutePasses PROVE JobInv'
<1>1. UNCHANGED <<jobs, runner, editor, known, jobCrashes, runs, asked, overwritten>> /\ minute' = minute + 1
    BY DEF MinutePasses
<1>2. NumberTypes'
    BY <1>1, Numerals DEF MinutePasses, JobInv, NumberTypes
<1>3. Room' = Room /\ Room \in [Jobs -> Int]
    BY <1>1, RoomType DEF JobInv, Room
<1>4. minute \in Int /\ minute' \in Int /\ Never <= minute /\ minute <= minute' /\ minute \in Nat
    BY <1>1, Numerals DEF JobInv, NumberTypes, Never
<1>5. PICK late : late = minute'
    OBVIOUS
<1>6. FileInv'
  <2>1. ListOK(jobs, late, known)
      BY <1>4, <1>5, EarlierIsOK DEF JobInv, FileInv
  <2>2. ASSUME NEW p \in DOMAIN jobs, ~Ran(runner, jobs[p].of) PROVE Paid(jobs[p], late, Room)
    <3>1. jobs[p] \in Records /\ jobs[p].of \in Jobs
        BY <2>2, ListShape, RecordIs DEF JobInv, FileInv
    <3>2. Room[jobs[p].of] <= Room[jobs[p].of]
        BY <1>3, <3>1
    <3>3. Paid(jobs[p], minute, Room)
        BY <2>2 DEF JobInv, FileInv
    <3>. QED  BY <1>3, <1>4, <1>5, <3>1, <3>2, <3>3, PaidLater
  <2>. QED  BY <1>1, <1>3, <1>5, <2>1, <2>2 DEF FileInv
<1>7. PassInv'
  <2>1. runner.pc = "running" => runner.at \in 0 .. late
      BY <1>4, <1>5 DEF JobInv, PassInv
  <2>. QED  BY <1>1, <1>3, <1>5, <2>1 DEF JobInv, PassInv
<1>8. EditInv'
  <2>1. editor.pc = "write" => ListOK(editor.write, late, known)
      BY <1>4, <1>5, EarlierIsOK DEF JobInv, EditInv
  <2>. QED  BY <1>1, <1>5, <2>1 DEF JobInv, EditInv
<1>9. RoomInv'
  <2>1. ASSUME NEW j \in Jobs PROVE 0 <= UpTo(j, late) + Room[j]
    <3>1. UpTo(j, minute) <= UpTo(j, late) /\ UpTo(j, minute) \in Nat /\ UpTo(j, late) \in Nat
        BY <1>4, <1>5, UpToBoth
    <3>2. 0 <= UpTo(j, minute) + Room[j] /\ Room[j] \in Int
        BY <1>3 DEF JobInv, RoomInv
    <3>. QED  BY <3>1, <3>2
  <2>. QED  BY <1>1, <1>3, <1>5, <2>1 DEF JobInv, RoomInv
<1>. QED  BY <1>2, <1>6, <1>7, <1>8, <1>9 DEF JobInv

\* The end of the bot pays for one more run of everything.
LEMMA RunnerStopKeeps ==
    ASSUME JobInv, NEW f \in {jobs, <<>>}, RunnerStop(f) PROVE JobInv'
<1>1. /\ UNCHANGED <<minute, known, runs, asked, overwritten>> /\ jobCrashes' = jobCrashes + 1
      /\ jobs' = f /\ runner' = NoRun /\ editor' = NoJobCommand
    BY DEF RunnerStop
<1>2. NumberTypes'
    BY <1>1 DEF JobInv, NumberTypes
<1>3. Room \in [Jobs -> Int] /\ Room' \in [Jobs -> Int] /\ \A j \in Jobs : Room'[j] = Room[j] + 1
    BY <1>1, <1>2 DEF JobInv, NumberTypes, Room
<1>4. \A j \in Jobs : UpTo(j, minute) \in Nat /\ 0 <= UpTo(j, minute) + Room[j]
  <2>1. minute \in Int /\ Never <= minute
      BY Numerals DEF JobInv, NumberTypes, Never
  <2>. QED  BY <2>1, UpToType DEF JobInv, RoomInv
<1>5. \A j \in Jobs : 1 <= UpTo(j, minute) + Room'[j]
    BY <1>3, <1>4
<1>6. ListOK(f, minute, known)
  <2>1. <<>> \in Seq(Records) /\ DOMAIN <<>> = {}
      BY EmptySeq
  <2>2. ListOK(<<>>, minute, known)
      BY <2>1 DEF ListOK
  <2>. QED  BY <2>2 DEF JobInv, FileInv
<1>7. \A p \in DOMAIN f : Paid(f[p], minute, Room')
  <2>1. \A p \in DOMAIN f : f[p].of \in Jobs
      BY <1>6, ListShape, RecordIs
  <2>. QED  BY <1>5, <2>1 DEF Paid
<1>8. FileInv'
    BY <1>1, <1>6, <1>7 DEF FileInv
<1>9. PassInv' /\ EditInv'
    BY <1>1 DEF PassInv, EditInv, NoRun, NoJobCommand
<1>10. RoomInv'
  <2>1. \A j \in Jobs : 0 <= UpTo(j, minute) + Room'[j]
      BY <1>3, <1>4
  <2>. QED  BY <1>1, <2>1 DEF JobInv, RoomInv
<1>. QED  BY <1>2, <1>8, <1>9, <1>10 DEF JobInv

LEMMA JobStart == JobInit => JobInv
<1>. SUFFICES ASSUME JobInit PROVE JobInv
    OBVIOUS
<1>1. /\ known = {jobs[k].of : k \in DOMAIN jobs} /\ minute = 0 /\ runner = NoRun /\ editor = NoJobCommand
      /\ jobCrashes = 0 /\ overwritten = 0
      /\ runs = [j \in Jobs |-> 0] /\ asked = [j \in Jobs |-> 0]
    BY DEF JobInit
<1>2. /\ jobs \in Seq(Records)
      /\ \A p \in DOMAIN jobs : jobs[p] = NewJob(jobs[p].of) /\ jobs[p].of \in Jobs
      /\ \A p, q \in DOMAIN jobs : jobs[p].of = jobs[q].of => p = q
  <2>1. CASE jobs = <<>>
      BY <2>1, EmptySeq
  <2>2. CASE \E s \in SetToSeqs(Jobs) : jobs = [k \in 1 .. Cardinality(Jobs) |-> NewJob(s[k])]
    <3>1. PICK s \in SetToSeqs(Jobs) : jobs = [k \in 1 .. Cardinality(Jobs) |-> NewJob(s[k])]
        BY <2>2
    <3>2. Cardinality(Jobs) \in Nat
        BY Numerals, FS_CardinalityType
    <3>. DEFINE n == Cardinality(Jobs)
    <3>3. s \in [1 .. n -> Jobs] /\ \A i, j \in 1 .. n : i # j => s[i] # s[j]
        BY DEF SetToSeqs
    <3>. HIDE DEF n
    <3>4. jobs = [k \in 1 .. n |-> NewJob(s[k])]
        BY <3>1 DEF n
    <3>5. \A k \in 1 .. n : jobs[k] = NewJob(s[k]) /\ jobs[k] \in Records /\ jobs[k].of = s[k] /\ s[k] \in Jobs
        BY <3>3, <3>4, NewJobIs
    <3>6. DOMAIN jobs = 1 .. n /\ jobs \in [1 .. n -> Records]
        BY <3>4, <3>5
    <3>7. jobs \in Seq(Records)
        BY <3>2, <3>6, SeqDef DEF n
    <3>. QED  BY <3>3, <3>5, <3>6, <3>7
  <2>. QED  BY <2>1, <2>2 DEF JobInit
<1>3. NumberTypes
    BY <1>1, <1>2, Numerals DEF NumberTypes
<1>4. \A j \in Jobs : Room[j] = 0
    BY <1>1 DEF Room
<1>5. \A j, t : t \in Int /\ Never <= t => UpTo(j, t) \in Nat
    BY UpToType
<1>6. Never \in Int /\ Never <= 0 /\ Never <= Never
    BY DEF Never
<1>7. FileInv
  <2>1. \A p \in DOMAIN jobs : jobs[p].last = Never /\ ~jobs[p].force
      BY <1>2, NewJobIs
  <2>2. ListOK(jobs, minute, known)
      BY <1>1, <1>2, <1>6, <2>1 DEF ListOK
  <2>3. ASSUME NEW p \in DOMAIN jobs PROVE Paid(jobs[p], minute, Room)
    <3>1. UpTo(jobs[p].of, jobs[p].last) \in Nat /\ Room[jobs[p].of] = 0
        BY <1>2, <1>4, <1>5, <1>6, <2>1, <2>3
    <3>2. (IF jobs[p].force THEN 1 ELSE 0) = 0
        BY <2>1, <2>3
    <3>. QED  BY <3>1, <3>2 DEF Paid
  <2>. QED  BY <2>2, <2>3 DEF FileInv
<1>8. PassInv /\ EditInv
    BY <1>1 DEF PassInv, EditInv, NoRun, NoJobCommand
<1>9. RoomInv
  <2>1. \A j \in Jobs : UpTo(j, 0) \in Nat
      BY <1>5, <1>6
  <2>. QED  BY <1>1, <1>4, <2>1 DEF RoomInv
<1>. QED  BY <1>3, <1>7, <1>8, <1>9 DEF JobInv

LEMMA JobSteps == JobInv /\ [JobNext]_jobVars => JobInv'
<1>. SUFFICES ASSUME JobInv, [JobNext]_jobVars PROVE JobInv'
    OBVIOUS
<1>1. CASE JobTick \/ Finish
    BY <1>1, JobTickKeeps, FinishKeeps
<1>2. CASE \E j \in Jobs : AddJob(j)
    BY <1>2, AddJobKeeps
<1>3. CASE \E k \in DOMAIN jobs : DeleteJob(k)
    BY <1>3, DeleteJobKeeps
<1>4. CASE \E k \in DOMAIN jobs : ToggleJob(k)
    BY <1>4, ToggleJobKeeps
<1>5. CASE \E k \in DOMAIN jobs : RunJob(k)
    BY <1>5, RunJobKeeps
<1>6. CASE JobsWritten \/ MinutePasses
    BY <1>6, JobsWrittenKeeps, MinutePassesKeeps
<1>7. CASE RunnerCrash \/ TornSave
  <2>1. \E f \in {jobs, <<>>} : RunnerStop(f)
      BY <1>7 DEF RunnerCrash, TornSave
  <2>. QED  BY <2>1, RunnerStopKeeps
<1>8. CASE UNCHANGED jobVars
  <2>1. UNCHANGED <<jobs, minute, runner, editor, known, jobCrashes, runs, asked, overwritten>>
      BY <1>8 DEF jobVars
  <2>2. Room' = Room
      BY <2>1 DEF Room
  <2>. QED  BY <2>1, <2>2 DEF JobInv, NumberTypes, FileInv, PassInv, EditInv, RoomInv
<1>. QED  BY <1>1, <1>2, <1>3, <1>4, <1>5, <1>6, <1>7, <1>8 DEF JobNext

\* A job runs once per occurrence and request, and is repeated at most once for each end of
\* the bot and each write of a command over a file the runner had changed, for any jobs,
\* commands and minutes (JobRunner.process_user, _is_due).
THEOREM JobsRunOnce == JobSpec => []JobsNotRepeated
<1>1. JobInv => JobsNotRepeated
  <2>. SUFFICES ASSUME JobInv, NEW j \in Jobs
                PROVE  runs[j] <= Occurrences(j) + asked[j] + jobCrashes + overwritten
      BY DEF JobsNotRepeated
  <2>1. 0 <= UpTo(j, minute) + (asked[j] + jobCrashes + overwritten - runs[j])
      BY DEF JobInv, RoomInv, Room
  <2>2. /\ runs[j] \in Nat /\ asked[j] \in Nat /\ jobCrashes \in Nat /\ overwritten \in Nat
        /\ minute \in Nat /\ minute # Never /\ minute \in Int /\ Never <= minute
      BY Numerals DEF JobInv, NumberTypes, Never
  <2>3. UpTo(j, minute) \in Nat
      BY <2>2, UpToType
  <2>4. Occurrences(j) = UpTo(j, minute)
      BY <2>2 DEF Occurrences, UpTo
  <2>. QED  BY <2>1, <2>2, <2>3, <2>4
<1>. QED  BY <1>1, JobStart, JobSteps, PTL DEF JobSpec

-----------------------------------------------------------------------------
(* Reminders: the lists the two programs make of the file *)

Increasing(s, S) == s \in [1 .. Cardinality(S) -> S] /\ \A k, l \in DOMAIN s : k < l => s[k] < s[l]

\* Every finite set of numbers can be put in order: its least element comes first.
LEMMA OrderExists ==
    ASSUME NEW X \in SUBSET Nat, IsFiniteSet(X)
    PROVE  \E s : Increasing(s, X)
<1>. DEFINE Hard == {S \in SUBSET X : ~\E s : Increasing(s, S)}
            Sizes == {Cardinality(S) : S \in Hard}
<1>1. \A S \in SUBSET X : IsFiniteSet(S) /\ Cardinality(S) \in Nat
    BY FS_Subset, FS_CardinalityType
<1>2. SUFFICES ASSUME Hard # {} PROVE FALSE
  <2>1. X \in Hard \/ \E s : Increasing(s, X)
      OBVIOUS
  <2>. QED  BY <1>2, <2>1
<1>3. Sizes \in SUBSET Nat /\ Sizes # {}
    BY <1>1, <1>2
<1>4. PICK n \in Sizes : \A x \in Sizes : n <= x
    BY <1>3, LeastIn
<1>5. PICK S \in Hard : Cardinality(S) = n
    OBVIOUS
<1>6. S \in SUBSET X /\ S \in SUBSET Nat /\ IsFiniteSet(S) /\ n \in Nat
    BY <1>1, <1>5
<1>7. S # {}
  <2>1. SUFFICES ASSUME S = {} PROVE FALSE
      OBVIOUS
  <2>2. Cardinality(S) = 0
      BY <2>1, FS_EmptySet
  <2>3. Increasing([k \in 1 .. 0 |-> 0], S)
      BY <2>2 DEF Increasing
  <2>. QED  BY <1>5, <2>3
<1>8. PICK m \in S : \A x \in S : m <= x
    BY <1>6, <1>7, LeastIn
<1>9. IsFiniteSet(S \ {m}) /\ Cardinality(S \ {m}) = n - 1
    BY <1>5, <1>6, <1>8, FS_RemoveElement
<1>10. S \ {m} \notin Hard
  <2>1. SUFFICES ASSUME S \ {m} \in Hard PROVE FALSE
      OBVIOUS
  <2>2. n - 1 \in Sizes
      BY <1>9, <2>1
  <2>3. n <= n - 1
      BY <1>4, <2>2
  <2>. QED  BY <1>6, <2>3
<1>11. PICK t : Increasing(t, S \ {m})
    BY <1>6, <1>10
<1>. DEFINE s == [k \in 1 .. n |-> IF k = 1 THEN m ELSE t[k - 1]]
<1>12. t \in [1 .. n - 1 -> S \ {m}] /\ \A k, l \in 1 .. n - 1 : k < l => t[k] < t[l]
    BY <1>9, <1>11 DEF Increasing
<1>. HIDE DEF Hard, Sizes
<1>13. \A k \in 1 .. n : k # 1 => k - 1 \in 1 .. n - 1 /\ s[k] = t[k - 1] /\ s[k] \in S /\ m < s[k]
  <2>1. ASSUME NEW k \in 1 .. n, k # 1 PROVE k - 1 \in 1 .. n - 1 /\ s[k] = t[k - 1] /\ s[k] \in S /\ m < s[k]
    <3>1. k - 1 \in 1 .. n - 1 /\ s[k] = t[k - 1]
        BY <1>6, <2>1
    <3>2. s[k] \in S /\ s[k] # m
        BY <1>12, <3>1
    <3>3. m <= s[k] /\ m \in Nat /\ s[k] \in Nat
        BY <1>6, <1>8, <3>2
    <3>. QED  BY <3>1, <3>2, <3>3
  <2>. QED  BY <2>1
<1>14. s \in [1 .. n -> S]
    BY <1>13
<1>15. ASSUME NEW k \in 1 .. n, NEW l \in 1 .. n, k < l PROVE s[k] < s[l]
  <2>1. l # 1 /\ m < s[l]
      BY <1>13, <1>15
  <2>2. CASE k = 1
      BY <2>1, <2>2
  <2>3. CASE k # 1
      BY <1>12, <1>13, <1>15, <2>1, <2>3
  <2>. QED  BY <2>2, <2>3
<1>. HIDE DEF s
<1>16. Increasing(s, S)
    BY <1>5, <1>14, <1>15 DEF Increasing
<1>. QED  BY <1>5, <1>16 DEF Hard

LEMMA InOrderIs ==
    ASSUME NEW n \in Nat, NEW S \in SUBSET (1 .. n)
    PROVE  LET s == InOrder(S)
           IN  /\ DOMAIN s = 1 .. Cardinality(S) /\ Cardinality(S) \in Nat
               /\ \A k \in DOMAIN s : s[k] \in S
               /\ \A k, l \in DOMAIN s : s[k] = s[l] => k = l
<1>1. IsFiniteSet(1 .. n)
    BY FS_Interval
<1>2. S \in SUBSET Nat /\ IsFiniteSet(S) /\ Cardinality(S) \in Nat
  <2>1. \A x \in 1 .. n : x \in Nat
      OBVIOUS
  <2>2. IsFiniteSet(S)
      BY <1>1, FS_Subset
  <2>3. Cardinality(S) \in Nat
      BY <2>2, FS_CardinalityType
  <2>. QED  BY <2>1, <2>2, <2>3
<1>3. \E s : Increasing(s, S)
    BY <1>2, OrderExists
<1>4. \E s \in [1 .. Cardinality(S) -> S] : \A k, l \in DOMAIN s : k < l => s[k] < s[l]
    BY <1>3 DEF Increasing
<1>. DEFINE s == InOrder(S)
<1>5. s \in [1 .. Cardinality(S) -> S] /\ \A k, l \in DOMAIN s : k < l => s[k] < s[l]
    BY <1>4 DEF InOrder
<1>. HIDE DEF s
<1>6. ASSUME NEW k \in DOMAIN s, NEW l \in DOMAIN s, s[k] = s[l] PROVE k = l
  <2>1. PICK c \in Nat : c = Cardinality(S)
      BY <1>2
  <2>2. k \in 1 .. c /\ l \in 1 .. c /\ s[k] \in S
      BY <1>5, <2>1
  <2>3. k \in Nat /\ l \in Nat
      BY <2>2
  <2>4. s[k] \in Nat /\ ~(s[k] < s[l])
    <3>1. \A x \in S : x \in Nat
        BY <1>2
    <3>2. s[k] \in Nat
        BY <2>2, <3>1
    <3>. QED  BY <1>6, <3>2
  <2>5. ~(k < l) /\ ~(l < k)
      BY <1>5, <1>6, <2>4
  <2>. QED  BY <2>3, <2>5
<1>7. DOMAIN s = 1 .. Cardinality(S) /\ \A k \in DOMAIN s : s[k] \in S
    BY <1>5
<1>. QED  BY <1>2, <1>6, <1>7 DEF s

\* No task is on two lines.
Distinct(f) == \A k, l \in DOMAIN f : IsTask(f[k]) /\ f[k].of = f[l].of => k = l

InFile(i, f) == \E k \in DOMAIN f : f[k].of = i

\* The line calls for a message at time d, or would if time came to it.
Calls(e, d) == IsTask(e) /\ ~e.done /\ e.due \in Times /\ e.due <= d

LEMMA LineIs ==
    ASSUME NEW e \in Lines
    PROVE  /\ e.of \in Items \cup {Heading} /\ e.done \in BOOLEAN /\ e.recurs \in BOOLEAN
           /\ e.due \in Nat /\ e.due <= MaxTime + 1 /\ MaxTime \in Nat
           /\ IsTask(e) => e.of \in Items
BY RemindersAssumption DEF Lines, IsTask

LEMMA TodoIs ==
    ASSUME NEW r \in Todo
    PROVE  /\ r.line \in Nat /\ r.of \in Items /\ r.recurs \in BOOLEAN /\ r.of # Heading
           /\ r.due \in Times /\ r.due \in Nat /\ r.due >= 1 /\ r.due <= MaxTime
BY RemindersAssumption DEF Todo, Times

LEMMA FileShape ==
    ASSUME NEW f \in Seq(Lines)
    PROVE  /\ Len(f) \in Nat /\ DOMAIN f = 1 .. Len(f) /\ DOMAIN f \subseteq Nat
           /\ \A k \in DOMAIN f : f[k] \in Lines
BY LenProperties

LEMMA LinesWithoutIs ==
    ASSUME NEW f \in Seq(Lines), NEW gone
    PROVE  LET g == LinesWithout(f, gone)
           IN  /\ g \in Seq(Lines)
               /\ \A k \in DOMAIN g : IsTask(g[k]) /\ g[k].of \notin gone /\ \E q \in DOMAIN f : g[k] = f[q]
               /\ Distinct(f) => Distinct(g)
<1>. DEFINE S == {l \in DOMAIN f : IsTask(f[l]) /\ f[l].of \notin gone}
            s == InOrder(S)
            g == [k \in DOMAIN s |-> f[s[k]]]
<1>1. Len(f) \in Nat /\ DOMAIN f = 1 .. Len(f) /\ \A k \in DOMAIN f : f[k] \in Lines
    BY FileShape
<1>2. S \in SUBSET (1 .. Len(f))
    BY <1>1
<1>3. LinesWithout(f, gone) = g
    BY DEF LinesWithout
<1>4. PICK n \in Nat : n = Cardinality(S) /\ DOMAIN s = 1 .. n
    BY <1>1, <1>2, InOrderIs
<1>5. \A k \in 1 .. n : s[k] \in S
    BY <1>1, <1>2, <1>4, InOrderIs
<1>6. \A k, l \in 1 .. n : s[k] = s[l] => k = l
    BY <1>1, <1>2, <1>4, InOrderIs
<1>7. \A k \in 1 .. n : s[k] \in DOMAIN f /\ IsTask(f[s[k]]) /\ f[s[k]].of \notin gone
    BY <1>5
<1>. HIDE DEF S, s
<1>8. g = [k \in 1 .. n |-> f[s[k]]]
    BY <1>4
<1>9. \A k \in 1 .. n : f[s[k]] \in Lines
    BY <1>1, <1>7
<1>10. [k \in 1 .. n |-> f[s[k]]] \in Seq(Lines)
    BY <1>9, IsASeq
<1>11. g \in Seq(Lines) /\ DOMAIN g = 1 .. n /\ \A k \in 1 .. n : g[k] = f[s[k]]
    BY <1>8, <1>10
<1>. HIDE DEF g
<1>12. ASSUME Distinct(f) PROVE Distinct(g)
    BY <1>6, <1>7, <1>11, <1>12 DEF Distinct
<1>13. \A k \in DOMAIN g : IsTask(g[k]) /\ g[k].of \notin gone /\ \E q \in DOMAIN f : g[k] = f[q]
    BY <1>7, <1>11
<1>. QED  BY <1>3, <1>11, <1>12, <1>13

LEMMA DueRemindersIs ==
    ASSUME NEW f \in Seq(Lines), now \in 0 .. MaxTime
    PROVE  LET todo == DueReminders(f)
           IN  /\ todo \in Seq(Todo)
               /\ \A k \in DOMAIN todo :
                    /\ todo[k].line \in DOMAIN f /\ Calls(f[todo[k].line], todo[k].due)
                    /\ f[todo[k].line].of = todo[k].of /\ f[todo[k].line].due = todo[k].due
                    /\ todo[k].due <= now
               /\ Distinct(f) => \A k, l \in DOMAIN todo : todo[k].of = todo[l].of => k = l
<1>. DEFINE S == {l \in DOMAIN f : IsDue(f[l])}
            s == InOrder(S)
            R(l) == [line |-> l, of |-> f[l].of, due |-> f[l].due, recurs |-> f[l].recurs]
            g == [k \in DOMAIN s |-> R(s[k])]
<1>1. Len(f) \in Nat /\ DOMAIN f = 1 .. Len(f) /\ \A k \in DOMAIN f : f[k] \in Lines
    BY FileShape
<1>2. S \in SUBSET (1 .. Len(f))
    BY <1>1
<1>3. DueReminders(f) = g
    BY DEF DueReminders
<1>4. PICK n \in Nat : n = Cardinality(S) /\ DOMAIN s = 1 .. n
    BY <1>1, <1>2, InOrderIs
<1>5. \A k \in 1 .. n : s[k] \in S
    BY <1>1, <1>2, <1>4, InOrderIs
<1>6. \A k, l \in 1 .. n : s[k] = s[l] => k = l
    BY <1>1, <1>2, <1>4, InOrderIs
<1>7. \A k \in 1 .. n : s[k] \in DOMAIN f /\ IsDue(f[s[k]])
    BY <1>5
<1>8. ASSUME NEW l \in DOMAIN f, IsDue(f[l])
      PROVE  R(l) \in Todo /\ Calls(f[l], f[l].due) /\ f[l].due <= now
  <2>1. f[l] \in Lines /\ l \in Nat
      BY <1>1
  <2>2. f[l].of \in Items /\ f[l].recurs \in BOOLEAN /\ f[l].due \in Times /\ f[l].due <= now /\ f[l].due \in Nat
      BY <1>8, <2>1, LineIs DEF IsDue, Times
  <2>3. R(l) \in Todo
      BY <2>1, <2>2 DEF Todo
  <2>4. Calls(f[l], f[l].due)
      BY <1>8, <2>2 DEF Calls, IsDue
  <2>. QED  BY <2>2, <2>3, <2>4
<1>. HIDE DEF S, s
<1>9. g = [k \in 1 .. n |-> R(s[k])] /\ \A k \in 1 .. n : R(s[k]) \in Todo
    BY <1>4, <1>7, <1>8
<1>. HIDE DEF R
<1>10. [k \in 1 .. n |-> R(s[k])] \in Seq(Todo)
    BY <1>9, IsASeq
<1>11. g \in Seq(Todo) /\ DOMAIN g = 1 .. n /\ \A k \in 1 .. n : g[k] = R(s[k])
    BY <1>9, <1>10
<1>. HIDE DEF g
<1>12. \A l : R(l).line = l /\ R(l).of = f[l].of /\ R(l).due = f[l].due
    BY DEF R
<1>13. ASSUME NEW k \in DOMAIN g
       PROVE  /\ g[k].line \in DOMAIN f /\ Calls(f[g[k].line], g[k].due)
              /\ f[g[k].line].of = g[k].of /\ f[g[k].line].due = g[k].due
              /\ g[k].due <= now
    BY <1>7, <1>8, <1>11, <1>12, <1>13
<1>14. ASSUME Distinct(f), NEW k \in DOMAIN g, NEW l \in DOMAIN g, g[k].of = g[l].of PROVE k = l
  <2>1. f[s[k]].of = f[s[l]].of /\ k \in 1 .. n /\ l \in 1 .. n /\ IsTask(f[s[k]])
      BY <1>7, <1>11, <1>12, <1>14 DEF IsDue
  <2>2. s[k] = s[l]
      BY <1>7, <1>14, <2>1 DEF Distinct
  <2>. QED  BY <1>6, <2>1, <2>2
<1>. QED  BY <1>3, <1>11, <1>13, <1>14

\* What becomes of the lines when one is settled: they stay where they are, none calls for
\* a message it did not call for, and the line of the reminder for later ones only.
LEMMA SettledIs ==
    ASSUME NEW f \in Seq(Lines), NEW r \in Todo
    PROVE  LET g == Settled(f, r)
           IN  /\ g \in Seq(Lines) /\ DOMAIN g = DOMAIN f
               /\ \A k \in DOMAIN f :
                    /\ g[k].of = f[k].of /\ f[k].due <= g[k].due
                    /\ \A d \in Times : Calls(g[k], d) => Calls(f[k], d)
                    /\ g[k] # f[k] => k = r.line /\ IsTask(f[k])
               /\ \A d \in Times : r.line \in DOMAIN f /\ r.due <= f[r.line].due /\ Calls(g[r.line], d) => r.due < d
<1>. DEFINE e == f[r.line]
            done == [f EXCEPT ![r.line].done = TRUE]
            next == [f EXCEPT ![r.line].due = @ + 1]
<1>1. Len(f) \in Nat /\ DOMAIN f = 1 .. Len(f) /\ \A k \in DOMAIN f : f[k] \in Lines /\ f[k].due \in Nat
    BY FileShape, LineIs
<1>2. r.due \in Nat /\ r.due >= 1 /\ MaxTime \in Nat
    BY TodoIs, RemindersAssumption DEF Times
<1>3. CASE r.line \notin DOMAIN f \/ ~IsTask(e)
  <2>1. Settled(f, r) = f
      BY <1>3 DEF Settled
  <2>. QED  BY <1>1, <1>3, <2>1 DEF Calls
<1>4. CASE r.line \in DOMAIN f /\ IsTask(e) /\ ~r.recurs
  <2>. DEFINE x == [e EXCEPT !.done = TRUE]
  <2>1. Settled(f, r) = [f EXCEPT ![r.line] = x]
      BY <1>4 DEF Settled
  <2>2. x \in Lines /\ x.of = e.of /\ x.done /\ x.due = e.due
      BY <1>1, <1>4 DEF Lines
  <2>3. [f EXCEPT ![r.line] = x] \in Seq(Lines)
      BY <1>1, <1>4, <2>2, ExceptSeq
  <2>4. /\ DOMAIN [f EXCEPT ![r.line] = x] = DOMAIN f /\ [f EXCEPT ![r.line] = x][r.line] = x
        /\ \A k \in DOMAIN f : k # r.line => [f EXCEPT ![r.line] = x][k] = f[k]
      BY <1>4
  <2>. HIDE DEF x
  <2>5. \A d : ~Calls(x, d)
      BY <2>2 DEF Calls
  <2>. QED  BY <1>1, <1>4, <2>1, <2>2, <2>3, <2>4, <2>5
<1>5. CASE r.line \in DOMAIN f /\ IsTask(e) /\ r.recurs /\ (e.due = NoTime \/ e.due > MaxTime)
  <2>1. Settled(f, r) = f
      BY <1>5 DEF Settled
  <2>2. \A d : ~Calls(e, d)
      BY <1>1, <1>2, <1>5 DEF Calls, Times, NoTime
  <2>. QED  BY <1>1, <1>5, <2>1, <2>2
<1>6. CASE r.line \in DOMAIN f /\ IsTask(e) /\ r.recurs /\ ~(e.due = NoTime \/ e.due > MaxTime)
  <2>. DEFINE x == [e EXCEPT !.due = @ + 1]
  <2>1. Settled(f, r) = [f EXCEPT ![r.line] = x]
      BY <1>6 DEF Settled
  <2>2. e \in Lines /\ e.due \in Nat /\ e.due <= MaxTime /\ e.due >= 1
      BY <1>1, <1>2, <1>6 DEF NoTime
  <2>3. x \in Lines /\ x.of = e.of /\ x.done = e.done /\ x.due = e.due + 1
    <3>1. e.due + 1 \in 0 .. MaxTime + 1
        BY <1>2, <2>2
    <3>. QED  BY <2>2, <3>1 DEF Lines
  <2>4. [f EXCEPT ![r.line] = x] \in Seq(Lines)
      BY <1>1, <1>6, <2>3, ExceptSeq
  <2>5. /\ DOMAIN [f EXCEPT ![r.line] = x] = DOMAIN f /\ [f EXCEPT ![r.line] = x][r.line] = x
        /\ \A k \in DOMAIN f : k # r.line => [f EXCEPT ![r.line] = x][k] = f[k]
      BY <1>6
  <2>. HIDE DEF x
  <2>6. \A d \in Times : Calls(x, d) => Calls(e, d) /\ (r.due <= e.due => r.due < d)
    <3>1. ASSUME NEW d \in Times, Calls(x, d) PROVE Calls(e, d) /\ (r.due <= e.due => r.due < d)
      <4>1. d \in Nat /\ e.due + 1 <= d /\ IsTask(x) /\ ~x.done
          BY <1>2, <2>3, <3>1 DEF Calls, Times
      <4>2. e.due <= d /\ e.due \in Times /\ (r.due <= e.due => r.due < d)
          BY <1>2, <2>2, <4>1 DEF Times
      <4>3. IsTask(e) /\ ~e.done
          BY <2>3, <4>1 DEF IsTask
      <4>. QED  BY <4>2, <4>3 DEF Calls
    <3>. QED  BY <3>1
  <2>. QED  BY <1>1, <1>6, <2>1, <2>3, <2>4, <2>5, <2>6
<1>. QED  BY <1>3, <1>4, <1>5, <1>6

-----------------------------------------------------------------------------
(* Reminders: how often an occurrence is announced *)

\* What has gone wrong so far, each good for one more announcement.
Allowed == crashes + shifts + overwrites

Settling(s) == s.pc \in {"mark", "write"}

\* The reminders of the tick that have not been announced.
Ahead(s) == {k \in DOMAIN s.todo : s.pc = "notify" \/ k # 1}

BeingSettled(s, i, d) == Settling(s) /\ s.todo[1].of = i /\ s.todo[1].due = d

OnLine(r, f) == r.line \in DOMAIN f /\ f[r.line].of = r.of /\ r.due <= f[r.line].due

\* A line calls only for messages that have not gone out too often, but for the one it is
\* being settled for.
LinesOK(f, fd, n, s) ==
    /\ Distinct(f)
    /\ \A k \in DOMAIN f : \A d \in Times :
        Calls(f[k], d) => fd[f[k].of][d] <= n \/ BeingSettled(s, f[k].of, d)

\* A reminder of the tick stands on the line it names, or that it does not has been counted.
TodoOK(s, f, fd, n, t) ==
    /\ \A k, l \in DOMAIN s.todo : s.todo[k].of = s.todo[l].of => k = l
    /\ \A k \in DOMAIN s.todo : s.todo[k].due <= t
    /\ \A k \in Ahead(s) :
        /\ fd[s.todo[k].of][s.todo[k].due] <= n
        /\ OnLine(s.todo[k], f) \/ fd[s.todo[k].of][s.todo[k].due] + 1 <= n
    /\ Settling(s) =>
        /\ fd[s.todo[1].of][s.todo[1].due] > 0
        /\ OnLine(s.todo[1], f) \/ fd[s.todo[1].of][s.todo[1].due] <= n
    /\ s.pc = "write" => Distinct(s.copy)

Derived(e, read) ==
    \E q \in DOMAIN read : read[q].of = e.of /\ read[q].due = e.due /\ (~e.done => ~read[q].done)

\* A new task's line: the file does not have the task, nor did a message of its time go
\* out or will; or it has got it since from the scheduler's copy.
Fresh(e, read, s, f, fd, n) ==
    /\ IsTask(e) /\ ~InFile(e.of, read)
    /\ \/ InFile(e.of, f) /\ (s.pc = "write" => InFile(e.of, s.copy))
       \/ /\ ~InFile(e.of, f)
          /\ e.due \in Times =>
                /\ \A d \in Times : e.due <= d => fd[e.of][d] <= n
                /\ \A k \in Ahead(s) : s.todo[k].of = e.of => s.todo[k].due < e.due

WriteOK(o, s, f, fd, n) ==
    o.pc = "write" =>
        /\ Distinct(o.write)
        /\ \A k \in DOMAIN o.write :
            Derived(o.write[k], o.read) \/ Fresh(o.write[k], o.read, s, f, fd, n)

TimesOK(fd, n) == \A i \in Items : \A d \in Times : fd[i][d] <= 1 + n

\* A task has the same time in v and x, or has been announced for its time in v.
Agree(v, x, fd) ==
    \A k \in DOMAIN v, l \in DOMAIN x :
        IsTask(v[k]) /\ v[k].of = x[l].of =>
            v[k].due = x[l].due \/ (v[k].due \in Times /\ fd[v[k].of][v[k].due] > 0)

Within(f, g) == \A k \in DOMAIN f : k \in DOMAIN g /\ f[k].of = g[k].of

Stand(todo, f) == \A k \in DOMAIN todo : todo[k].line \in DOMAIN f /\ f[todo[k].line].of = todo[k].of

\* As long as no command has moved lines under a tick.
PlaceOK(past, s, o, f, fd) ==
    /\ \A p \in past : p[2] \in Times /\ fd[p[1]][p[2]] > 0
    /\ Stand(s.todo, f) /\ Agree(f, s.todo, fd)
    /\ s.pc = "write" =>
        /\ Stand(s.todo, s.copy) /\ Agree(s.copy, s.todo, fd)
        /\ Within(s.copy, f) /\ Agree(f, s.copy, fd)
    /\ o.pc = "write" =>
        /\ Agree(o.write, s.todo, fd) /\ Agree(o.write, f, fd)
        /\ s.pc = "write" => Agree(o.write, s.copy, fd)

SchedPhases == {"idle", "notify", "mark", "write"}

RemTypes ==
    /\ file \in Seq(Lines) /\ now \in 0 .. MaxTime
    /\ {"pc", "todo", "copy"} \subseteq DOMAIN sched /\ sched.pc \in SchedPhases
    /\ sched.todo \in Seq(Todo) /\ sched.copy \in Seq(Lines)
    /\ (sched.pc = "idle") <=> (sched.todo = <<>>)
    /\ {"pc", "read", "write"} \subseteq DOMAIN org
    /\ org.read \in Seq(Lines) /\ org.write \in Seq(Lines)
    /\ fired \in [Items -> [Times -> Nat]]
    /\ crashes \in Nat /\ shifts \in Nat /\ overwrites \in Nat
    /\ superseded \subseteq Items \X (0 .. MaxTime + 1)

\* Inductive.
RemInv ==
    /\ RemTypes
    /\ LinesOK(file, fired, Allowed, sched)
    /\ TodoOK(sched, file, fired, Allowed, now)
    /\ WriteOK(org, sched, file, fired, Allowed)
    /\ TimesOK(fired, Allowed)
    /\ shifts = 0 => PlaceOK(superseded, sched, org, file, fired)

LEMMA AllowedType == RemTypes => Allowed \in Nat
BY DEF RemTypes, Allowed

LEMMA TimesIs ==
    ASSUME NEW fd \in [Items -> [Times -> Nat]], NEW i \in Items, NEW d \in Times
    PROVE  fd[i][d] \in Nat /\ d \in Nat
BY RemindersAssumption DEF Times

LEMMA WriteStays ==
    ASSUME NEW o, NEW s, NEW f, NEW fd, NEW n, NEW s2, NEW f2, NEW fd2, NEW m,
           o.write \in Seq(Lines), WriteOK(o, s, f, fd, n),
           \A e \in Lines : Fresh(e, o.read, s, f, fd, n) => Fresh(e, o.read, s2, f2, fd2, m)
    PROVE  WriteOK(o, s2, f2, fd2, m)
<1>1. \A k \in DOMAIN o.write : o.write[k] \in Lines
    BY FileShape
<1>. QED  BY <1>1 DEF WriteOK

LEMMA TickKeeps == ASSUME RemInv, Tick PROVE RemInv'
<1>. DEFINE todo == DueReminders(file)
            s2 == [pc |-> "notify", todo |-> todo, copy |-> <<>>]
<1>1. PICK n, s : n = Allowed /\ s = sched
    OBVIOUS
<1>2. /\ sched.pc = "idle" /\ todo # <<>> /\ sched' = s2
      /\ UNCHANGED <<file, now, org, crashes, fired, superseded, shifts, overwrites>>
    BY DEF Tick, history
<1>3. Allowed' = Allowed
    BY <1>2 DEF Allowed
<1>4. /\ file \in Seq(Lines) /\ Distinct(file) /\ now \in 0 .. MaxTime /\ fired \in [Items -> [Times -> Nat]]
    BY DEF RemInv, RemTypes, LinesOK
<1>5. /\ todo \in Seq(Todo)
      /\ \A k \in DOMAIN todo :
           /\ todo[k].line \in DOMAIN file /\ Calls(file[todo[k].line], todo[k].due)
           /\ file[todo[k].line].of = todo[k].of /\ file[todo[k].line].due = todo[k].due
           /\ todo[k].due <= now
      /\ \A k, l \in DOMAIN todo : todo[k].of = todo[l].of => k = l
    BY <1>4, DueRemindersIs
<1>. HIDE DEF todo
<1>6. s2.pc = "notify" /\ s2.todo = todo /\ s2.copy = <<>> /\ {"pc", "todo", "copy"} \subseteq DOMAIN s2
    OBVIOUS
<1>. HIDE DEF s2
<1>7. \A k \in DOMAIN todo : todo[k] \in Todo
    BY <1>5, LenProperties
<1>8. RemTypes'
  <2>1. <<>> \in Seq(Lines)
      BY EmptySeq
  <2>. QED  BY <1>2, <1>5, <1>6, <2>1 DEF RemInv, RemTypes, SchedPhases
<1>9. LinesOK(file, fired, n, s2)
    BY <1>1, <1>2, <1>6 DEF RemInv, LinesOK, BeingSettled, Settling
<1>10. TodoOK(s2, file, fired, n, now)
  <2>1. \A k \in DOMAIN todo : fired[todo[k].of][todo[k].due] <= n /\ OnLine(todo[k], file)
    <3>1. ASSUME NEW k \in DOMAIN todo PROVE fired[todo[k].of][todo[k].due] <= n /\ OnLine(todo[k], file)
      <4>1. todo[k].due \in Times /\ todo[k].due \in Nat
          BY <1>7, TodoIs
      <4>2. ~BeingSettled(sched, todo[k].of, todo[k].due)
          BY <1>2 DEF BeingSettled, Settling
      <4>3. fired[todo[k].of][todo[k].due] <= n
          BY <1>1, <1>5, <4>1, <4>2 DEF RemInv, LinesOK
      <4>. QED  BY <1>5, <4>1, <4>3 DEF OnLine
    <3>. QED  BY <3>1
  <2>. QED  BY <1>5, <1>6, <2>1 DEF TodoOK, Ahead, Settling
<1>11. WriteOK(org, s2, file, fired, n)
  <2>1. ASSUME NEW e \in Lines, Fresh(e, org.read, sched, file, fired, n)
        PROVE  Fresh(e, org.read, s2, file, fired, n)
    <3>1. \A k \in DOMAIN todo : InFile(todo[k].of, file)
        BY <1>5 DEF InFile
    <3>. QED  BY <1>6, <2>1, <3>1 DEF Fresh, Ahead
  <2>2. org.write \in Seq(Lines) /\ WriteOK(org, sched, file, fired, n)
      BY <1>1 DEF RemInv, RemTypes
  <2>. QED  BY <2>1, <2>2, WriteStays
<1>12. ASSUME shifts = 0 PROVE PlaceOK(superseded, s2, org, file, fired)
  <2>1. PlaceOK(superseded, sched, org, file, fired)
      BY <1>12 DEF RemInv
  <2>2. Stand(todo, file)
      BY <1>5 DEF Stand
  <2>3. Agree(file, todo, fired)
      BY <1>4, <1>5 DEF Agree, Distinct
  <2>4. org.pc = "write" => Agree(org.write, todo, fired)
    <3>1. SUFFICES ASSUME org.pc = "write" PROVE Agree(org.write, todo, fired)
        OBVIOUS
    <3>2. Agree(org.write, file, fired)
        BY <2>1, <3>1 DEF PlaceOK
    <3>. QED  BY <1>5, <3>2 DEF Agree
  <2>. QED  BY <1>6, <2>1, <2>2, <2>3, <2>4 DEF PlaceOK
<1>13. TimesOK(fired, n)
    BY <1>1 DEF RemInv
<1>. QED  BY <1>1, <1>2, <1>3, <1>8, <1>9, <1>10, <1>11, <1>12, <1>13 DEF RemInv

\* What has been announced stays so.
LEMMA AgreeLater ==
    ASSUME NEW v \in Seq(Lines), NEW x, NEW fd, NEW fd2, Agree(v, x, fd),
           \A i \in Items : \A d \in Times : fd[i][d] > 0 => fd2[i][d] > 0
    PROVE  Agree(v, x, fd2)
<1>1. \A k \in DOMAIN v : IsTask(v[k]) => v[k].of \in Items
    BY FileShape, LineIs
<1>. QED  BY <1>1 DEF Agree

LEMMA NotifyKeeps == ASSUME RemInv, Notify PROVE RemInv'
<1>1. PICK n, s, s2, fd, fd2, todo :
        n = Allowed /\ s = sched /\ s2 = sched' /\ fd = fired /\ fd2 = fired' /\ todo = sched.todo
    OBVIOUS
<1>2. /\ s.pc = "notify" /\ s2.pc = "mark" /\ s2.todo = todo /\ s2.copy = s.copy
      /\ {"pc", "todo", "copy"} \subseteq DOMAIN s2
      /\ UNCHANGED <<file, now, org, crashes, superseded, shifts, overwrites>>
    BY <1>1 DEF Notify, RemInv, RemTypes
<1>3. Allowed' = n
    BY <1>1, <1>2 DEF Allowed
<1>4. /\ todo \in Seq(Todo) /\ todo # <<>> /\ file \in Seq(Lines) /\ fd \in [Items -> [Times -> Nat]]
      /\ n \in Nat
    BY <1>1, <1>2, AllowedType DEF RemInv, RemTypes
<1>5. /\ Len(todo) \in Nat \ {0} /\ DOMAIN todo = 1 .. Len(todo) /\ 1 \in DOMAIN todo
      /\ \A k \in DOMAIN todo : todo[k] \in Todo
  <2>1. Len(todo) \in Nat \ {0}
      BY <1>4, EmptySeq
  <2>2. DOMAIN todo = 1 .. Len(todo) /\ \A k \in DOMAIN todo : todo[k] \in Todo
      BY <1>4, LenProperties
  <2>. QED  BY <2>1, <2>2
<1>6. PICK h : h = todo[1] /\ h = Head(todo) /\ h \in Todo /\ h.of \in Items /\ h.due \in Times
  <2>1. todo[1] \in Todo /\ Head(todo) = todo[1]
      BY <1>4, <1>5
  <2>. QED  BY <2>1, TodoIs
<1>7. fd2 = [fd EXCEPT ![h.of][h.due] = @ + 1]
    BY <1>1, <1>6 DEF Notify
<1>8. /\ fd2 \in [Items -> [Times -> Nat]] /\ fd2[h.of][h.due] = fd[h.of][h.due] + 1
      /\ \A i \in Items : \A d \in Times : ~(i = h.of /\ d = h.due) => fd2[i][d] = fd[i][d]
  <2>1. fd[h.of] \in [Times -> Nat] /\ fd[h.of][h.due] \in Nat
      BY <1>4, <1>6
  <2>. QED  BY <1>4, <1>6, <1>7, <2>1
<1>. HIDE <1>7
<1>9. TodoOK(s, file, fd, n, now) /\ Settling(s2) /\ ~Settling(s) /\ Ahead(s) = DOMAIN todo
      /\ Ahead(s2) = DOMAIN todo \ {1}
    BY <1>1, <1>2 DEF RemInv, Settling, Ahead
<1>10. fd[h.of][h.due] <= n /\ (OnLine(h, file) \/ fd[h.of][h.due] + 1 <= n) /\ fd[h.of][h.due] \in Nat
  <2>1. fd[h.of][h.due] \in Nat
      BY <1>4, <1>6
  <2>2. 1 \in Ahead(s)
      BY <1>5, <1>9
  <2>. QED  BY <1>1, <1>5, <1>6, <1>9, <2>1, <2>2 DEF TodoOK
<1>11. RemTypes'
    BY <1>1, <1>2, <1>8 DEF RemInv, RemTypes, SchedPhases
<1>12. LinesOK(file, fd2, n, s2)
  <2>1. LinesOK(file, fd, n, s)
      BY <1>1 DEF RemInv
  <2>2. ASSUME NEW k \in DOMAIN file, NEW d \in Times, Calls(file[k], d)
        PROVE  fd2[file[k].of][d] <= n \/ BeingSettled(s2, file[k].of, d)
    <3>1. file[k].of \in Items
        BY <1>4, <2>2, FileShape, LineIs DEF Calls
    <3>2. fd[file[k].of][d] <= n
        BY <1>9, <2>1, <2>2 DEF LinesOK, BeingSettled
    <3>3. CASE file[k].of = h.of /\ d = h.due
        BY <1>2, <1>6, <1>9, <3>3 DEF BeingSettled
    <3>4. CASE ~(file[k].of = h.of /\ d = h.due)
        BY <1>8, <3>1, <3>2, <3>4
    <3>. QED  BY <3>3, <3>4
  <2>. QED  BY <2>1, <2>2 DEF LinesOK
<1>13. \A k \in DOMAIN todo \ {1} : todo[k].of \in Items /\ todo[k].due \in Times /\ todo[k].of # h.of
    BY <1>1, <1>5, <1>6, <1>9, TodoIs DEF TodoOK
<1>14. TodoOK(s2, file, fd2, n, now)
  <2>1. \A k \in DOMAIN todo \ {1} : fd2[todo[k].of][todo[k].due] = fd[todo[k].of][todo[k].due]
      BY <1>8, <1>13
  <2>2. fd2[h.of][h.due] > 0 /\ (OnLine(h, file) \/ fd2[h.of][h.due] <= n)
      BY <1>8, <1>10
  <2>3. /\ \A k, l \in DOMAIN todo : todo[k].of = todo[l].of => k = l
        /\ \A k \in DOMAIN todo : todo[k].due <= now
        /\ \A k \in DOMAIN todo :
            /\ fd[todo[k].of][todo[k].due] <= n
            /\ OnLine(todo[k], file) \/ fd[todo[k].of][todo[k].due] + 1 <= n
      BY <1>1, <1>9 DEF TodoOK
  <2>4. \A k \in Ahead(s2) :
            /\ fd2[todo[k].of][todo[k].due] <= n
            /\ OnLine(todo[k], file) \/ fd2[todo[k].of][todo[k].due] + 1 <= n
      BY <1>9, <2>1, <2>3
  <2>5. s2.todo = todo /\ s2.pc # "write" /\ todo[1] = h
      BY <1>2, <1>6
  <2>. QED  BY ONLY <2>2, <2>3, <2>4, <2>5 DEF TodoOK
<1>15. WriteOK(org, s2, file, fd2, n)
  <2>1. ASSUME NEW e \in Lines, Fresh(e, org.read, s, file, fd, n)
        PROVE  Fresh(e, org.read, s2, file, fd2, n)
    <3>1. CASE InFile(e.of, file)
        BY <1>2, <2>1, <3>1 DEF Fresh
    <3>2. CASE ~InFile(e.of, file)
      <4>1. SUFFICES ASSUME e.due \in Times
                     PROVE  /\ \A d \in Times : e.due <= d => fd2[e.of][d] <= n
                            /\ \A k \in Ahead(s2) : todo[k].of = e.of => todo[k].due < e.due
          BY <1>2, <2>1, <3>2 DEF Fresh
      <4>2. /\ \A d \in Times : e.due <= d => fd[e.of][d] <= n
            /\ \A k \in DOMAIN todo : todo[k].of = e.of => todo[k].due < e.due
          BY <1>1, <1>9, <2>1, <3>2, <4>1 DEF Fresh
      <4>3. e.of \in Items
          BY <2>1, LineIs DEF Fresh
      <4>4. ASSUME NEW d \in Times, e.due <= d PROVE fd2[e.of][d] <= n
        <5>1. ~(e.of = h.of /\ d = h.due)
          <6>1. e.of = h.of => h.due < e.due
              BY <1>5, <1>6, <4>2
          <6>2. e.due \in Nat /\ h.due \in Nat /\ d \in Nat
              BY <1>6, <4>1, <4>4, RemindersAssumption DEF Times
          <6>. QED  BY <4>4, <6>1, <6>2
        <5>. QED  BY <1>8, <4>2, <4>3, <4>4, <5>1
      <4>. QED  BY <1>9, <4>2, <4>4
    <3>. QED  BY <3>1, <3>2
  <2>2. org.write \in Seq(Lines) /\ WriteOK(org, s, file, fd, n)
      BY <1>1 DEF RemInv, RemTypes
  <2>. QED  BY <2>1, <2>2, WriteStays
<1>16. TimesOK(fd2, n)
  <2>1. TimesOK(fd, n)
      BY <1>1 DEF RemInv
  <2>2. ASSUME NEW i \in Items, NEW d \in Times PROVE fd2[i][d] <= 1 + n
    <3>1. CASE i = h.of /\ d = h.due
        BY <1>4, <1>8, <1>10, <3>1
    <3>2. CASE ~(i = h.of /\ d = h.due)
        BY <1>8, <2>1, <3>2 DEF TimesOK
    <3>. QED  BY <3>1, <3>2
  <2>. QED  BY <2>2 DEF TimesOK
<1>17. ASSUME shifts = 0 PROVE PlaceOK(superseded, s2, org, file, fd2)
  <2>1. PlaceOK(superseded, s, org, file, fd)
      BY <1>1, <1>17 DEF RemInv
  <2>2. \A i \in Items : \A d \in Times : fd[i][d] > 0 => fd2[i][d] > 0
    <3>1. ASSUME NEW i \in Items, NEW d \in Times, fd[i][d] > 0 PROVE fd2[i][d] > 0
        BY <1>8, <1>10, <3>1
    <3>. QED  BY <3>1
  <2>3. org.write \in Seq(Lines) /\ superseded \subseteq Items \X (0 .. MaxTime + 1)
      BY DEF RemInv, RemTypes
  <2>4. Agree(file, todo, fd2)
      BY <1>1, <1>4, <2>1, <2>2, AgreeLater DEF PlaceOK
  <2>5. org.pc = "write" => Agree(org.write, todo, fd2)
      BY <1>1, <2>1, <2>2, <2>3, AgreeLater DEF PlaceOK
  <2>6. org.pc = "write" => Agree(org.write, file, fd2)
      BY <2>1, <2>2, <2>3, AgreeLater DEF PlaceOK
  <2>7. ASSUME NEW p \in superseded PROVE p[2] \in Times /\ fd2[p[1]][p[2]] > 0
    <3>1. p[1] \in Items /\ p[2] \in Times /\ fd[p[1]][p[2]] > 0
        BY <2>1, <2>3, <2>7 DEF PlaceOK
    <3>. QED  BY <2>2, <3>1
  <2>8. Stand(todo, file)
      BY <1>1, <2>1 DEF PlaceOK
  <2>. QED  BY <1>2, <2>4, <2>5, <2>6, <2>7, <2>8 DEF PlaceOK
<1>. QED  BY <1>1, <1>2, <1>3, <1>11, <1>12, <1>14, <1>15, <1>16, <1>17 DEF RemInv

LEMMA MarkReadKeeps == ASSUME RemInv, MarkRead PROVE RemInv'
<1>1. PICK n, s, s2, todo : n = Allowed /\ s = sched /\ s2 = sched' /\ todo = sched.todo
    OBVIOUS
<1>2. /\ s.pc = "mark" /\ s2.pc = "write" /\ s2.todo = todo /\ s2.copy = file
      /\ {"pc", "todo", "copy"} \subseteq DOMAIN s2
      /\ UNCHANGED <<file, now, org, crashes, fired, superseded, shifts, overwrites>>
    BY <1>1 DEF MarkRead, RemInv, RemTypes, history
<1>3. Allowed' = n
    BY <1>1, <1>2 DEF Allowed
<1>4. RemTypes'
    BY <1>1, <1>2 DEF RemInv, RemTypes, SchedPhases
<1>5. LinesOK(file, fired, n, s2)
    BY <1>1, <1>2 DEF RemInv, LinesOK, BeingSettled, Settling
<1>6. TodoOK(s2, file, fired, n, now)
  <2>1. Ahead(s2) = Ahead(s) /\ Settling(s) /\ Distinct(file)
      BY <1>1, <1>2 DEF Ahead, Settling, RemInv, LinesOK
  <2>2. TodoOK(s, file, fired, n, now) /\ s.todo = todo
      BY <1>1 DEF RemInv
  <2>3. s2.todo = todo /\ s2.copy = file
      BY <1>2
  <2>. QED  BY ONLY <2>1, <2>2, <2>3 DEF TodoOK
<1>7. WriteOK(org, s2, file, fired, n)
  <2>1. ASSUME NEW e \in Lines, Fresh(e, org.read, s, file, fired, n)
        PROVE  Fresh(e, org.read, s2, file, fired, n)
    <3>1. Ahead(s2) = Ahead(s)
        BY <1>1, <1>2 DEF Ahead
    <3>. QED  BY <1>1, <1>2, <2>1, <3>1 DEF Fresh
  <2>2. org.write \in Seq(Lines) /\ WriteOK(org, s, file, fired, n)
      BY <1>1 DEF RemInv, RemTypes
  <2>. QED  BY <2>1, <2>2, WriteStays
<1>8. ASSUME shifts = 0 PROVE PlaceOK(superseded, s2, org, file, fired)
  <2>1. PlaceOK(superseded, s, org, file, fired)
      BY <1>1, <1>8 DEF RemInv
  <2>2. Within(file, file)
      BY DEF Within
  <2>3. Agree(file, file, fired)
      BY <1>5 DEF Agree, LinesOK, Distinct
  <2>. QED  BY <1>1, <1>2, <2>1, <2>2, <2>3 DEF PlaceOK
<1>. QED  BY <1>1, <1>2, <1>3, <1>4, <1>5, <1>6, <1>7, <1>8 DEF RemInv

\* The scheduler's coroutine when a reminder has been settled: on to the next.
LEMMA NextInTick ==
    ASSUME RemInv, MarkWrite
    PROVE  LET s2 == sched'
               todo == sched.todo
           IN  /\ {"pc", "todo", "copy"} \subseteq DOMAIN s2 /\ s2.copy = <<>>
               /\ s2.pc \in {"idle", "notify"} /\ ((s2.pc = "idle") <=> (s2.todo = <<>>))
               /\ s2.todo \in Seq(Todo)
               /\ todo[1] = Head(todo) /\ todo[1] \in Todo /\ 1 \in DOMAIN todo
               /\ \A k \in DOMAIN s2.todo : k + 1 \in DOMAIN todo /\ k + 1 # 1 /\ s2.todo[k] = todo[k + 1]
<1>1. PICK s2, todo : s2 = sched' /\ todo = sched.todo
    OBVIOUS
<1>2. /\ todo \in Seq(Todo) /\ todo # <<>>
      /\ s2 = IF Len(todo) = 1 THEN Idle ELSE [pc |-> "notify", todo |-> Tail(todo), copy |-> <<>>]
    BY <1>1 DEF MarkWrite, RemInv, RemTypes
<1>3. /\ Len(todo) \in Nat \ {0} /\ DOMAIN todo = 1 .. Len(todo) /\ 1 \in DOMAIN todo
      /\ \A k \in DOMAIN todo : todo[k] \in Todo
  <2>1. Len(todo) \in Nat \ {0}
      BY <1>2, EmptySeq
  <2>2. DOMAIN todo = 1 .. Len(todo) /\ \A k \in DOMAIN todo : todo[k] \in Todo
      BY <1>2, LenProperties
  <2>. QED  BY <2>1, <2>2
<1>4. Head(todo) = todo[1]
    BY <1>2, <1>3
<1>5. /\ Tail(todo) \in Seq(Todo) /\ Len(Tail(todo)) = Len(todo) - 1
      /\ \A k \in 1 .. Len(Tail(todo)) : Tail(todo)[k] = todo[k + 1]
    BY <1>2, HeadTailProperties
<1>6. DOMAIN Tail(todo) = 1 .. Len(todo) - 1
    BY <1>5, LenProperties
<1>7. CASE Len(todo) = 1
  <2>1. s2.pc = "idle" /\ s2.todo = <<>> /\ s2.copy = <<>> /\ {"pc", "todo", "copy"} \subseteq DOMAIN s2
      BY <1>2, <1>7 DEF Idle
  <2>2. <<>> \in Seq(Todo) /\ DOMAIN s2.todo = {}
      BY <2>1, EmptySeq
  <2>. QED  BY <1>1, <1>3, <1>4, <2>1, <2>2
<1>8. CASE Len(todo) # 1
  <2>1. s2.pc = "notify" /\ s2.todo = Tail(todo) /\ s2.copy = <<>> /\ {"pc", "todo", "copy"} \subseteq DOMAIN s2
      BY <1>2, <1>8
  <2>2. Tail(todo) # <<>>
    <3>1. SUFFICES ASSUME Tail(todo) = <<>> PROVE FALSE
        OBVIOUS
    <3>2. Len(Tail(todo)) = 0
        BY <3>1, EmptySeq
    <3>3. PICK m, l : m = Len(todo) /\ l = Len(Tail(todo)) /\ m \in Nat /\ l = m - 1 /\ l = 0 /\ m # 1
        BY <1>3, <1>5, <1>8, <3>2
    <3>. QED  BY <3>3
  <2>3. \A k \in 1 .. Len(todo) - 1 : k + 1 \in 1 .. Len(todo) /\ k + 1 # 1
      BY <1>3
  <2>. QED  BY <1>1, <1>3, <1>4, <1>5, <1>6, <2>1, <2>2, <2>3
<1>. QED  BY <1>7, <1>8

LEMMA MarkWriteKeeps == ASSUME RemInv, MarkWrite PROVE RemInv'
<1>1. PICK n, m, s, s2, fd, todo, c, r, g :
        /\ n = Allowed /\ m = Allowed' /\ s = sched /\ s2 = sched' /\ fd = fired /\ todo = sched.todo
        /\ c = sched.copy /\ r = todo[1] /\ g = Settled(c, r)
    OBVIOUS
<1>2. /\ {"pc", "todo", "copy"} \subseteq DOMAIN s2 /\ s2.copy = <<>>
      /\ s2.pc \in {"idle", "notify"} /\ ((s2.pc = "idle") <=> (s2.todo = <<>>))
      /\ s2.todo \in Seq(Todo)
      /\ r = Head(todo) /\ r \in Todo /\ 1 \in DOMAIN todo
      /\ \A k \in DOMAIN s2.todo : k + 1 \in DOMAIN todo /\ k + 1 # 1 /\ s2.todo[k] = todo[k + 1]
    BY <1>1, NextInTick
<1>3. /\ s.pc = "write" /\ file' = g
      /\ superseded' = superseded \cup {<<c[i].of, c[i].due>> : i \in {j \in DOMAIN g : g[j] # c[j]}}
      /\ overwrites' = IF c = file THEN overwrites ELSE overwrites + 1
      /\ UNCHANGED <<now, org, crashes, fired, shifts>>
    BY <1>1, <1>2 DEF MarkWrite, Current
<1>4. /\ n \in Nat /\ m = IF c = file THEN n ELSE n + 1
  <2>1. n \in Nat /\ crashes \in Nat /\ shifts \in Nat /\ overwrites \in Nat
      BY <1>1, AllowedType DEF RemInv, RemTypes
  <2>. QED  BY <1>1, <1>3, <2>1 DEF Allowed
<1>5. /\ c \in Seq(Lines) /\ file \in Seq(Lines) /\ fd \in [Items -> [Times -> Nat]] /\ todo \in Seq(Todo)
      /\ now \in 0 .. MaxTime /\ \A k \in DOMAIN c : c[k] \in Lines
  <2>1. c \in Seq(Lines)
      BY <1>1 DEF RemInv, RemTypes
  <2>. QED  BY <1>1, <2>1, FileShape DEF RemInv, RemTypes
<1>6. \A k \in DOMAIN todo : todo[k] \in Todo /\ todo[k].of \in Items /\ todo[k].due \in Times
  <2>1. \A k \in DOMAIN todo : todo[k] \in Todo
      BY <1>5, LenProperties
  <2>. QED  BY <2>1, TodoIs
<1>7. /\ g \in Seq(Lines) /\ DOMAIN g = DOMAIN c
      /\ \A k \in DOMAIN c :
           /\ g[k].of = c[k].of /\ c[k].due <= g[k].due
           /\ \A d \in Times : Calls(g[k], d) => Calls(c[k], d)
           /\ g[k] # c[k] => k = r.line /\ IsTask(c[k])
      /\ \A d \in Times : r.line \in DOMAIN c /\ r.due <= c[r.line].due /\ Calls(g[r.line], d) => r.due < d
  <2>1. g = Settled(c, r) /\ r \in Todo /\ c \in Seq(Lines)
      BY <1>1, <1>2, <1>5
  <2>. QED  BY ONLY <2>1, SettledIs
<1>8. TodoOK(s, file, fd, n, now) /\ Settling(s) /\ Ahead(s) = DOMAIN todo \ {1} /\ s.todo = todo /\ s.copy = c
    BY <1>1, <1>3 DEF RemInv, Settling, Ahead
<1>9. Distinct(c) /\ Distinct(g)
  <2>1. Distinct(c)
      BY <1>3, <1>8 DEF TodoOK
  <2>2. \A k \in DOMAIN c : IsTask(g[k]) <=> IsTask(c[k])
      BY <1>7 DEF IsTask
  <2>. QED  BY <1>7, <2>1, <2>2 DEF Distinct
<1>10. ~Settling(s2) /\ s2.pc # "write" /\ Ahead(s2) \subseteq DOMAIN s2.todo
    BY <1>2 DEF Settling, Ahead
<1>11. TimesOK(fd, n) /\ TimesOK(fd, m)
  <2>1. TimesOK(fd, n)
      BY <1>1 DEF RemInv
  <2>2. ASSUME NEW i \in Items, NEW d \in Times PROVE fd[i][d] <= 1 + m
    <3>1. fd[i][d] \in Nat /\ fd[i][d] <= 1 + n
        BY <1>5, <2>1, TimesIs DEF TimesOK
    <3>. QED  BY <1>4, <3>1
  <2>. QED  BY <2>1, <2>2 DEF TimesOK
<1>12. RemTypes'
  <2>1. /\ RemTypes /\ <<>> \in Seq(Lines)
        /\ overwrites' \in Nat
      BY <1>3, EmptySeq DEF RemInv, RemTypes
  <2>2. ASSUME NEW i \in DOMAIN g, g[i] # c[i] PROVE <<c[i].of, c[i].due>> \in Items \X (0 .. MaxTime + 1)
    <3>1. c[i] \in Lines /\ IsTask(c[i])
        BY <1>5, <1>7, <2>2
    <3>. QED  BY <3>1, LineIs DEF Lines
  <2>3. superseded' \subseteq Items \X (0 .. MaxTime + 1)
      BY <1>3, <2>1, <2>2 DEF RemTypes
  <2>4. s2 = sched'
      BY <1>1
  <2>. QED  BY <1>2, <1>3, <1>7, <2>1, <2>3, <2>4 DEF RemTypes, SchedPhases
<1>13. LinesOK(g, fd, m, s2)
  <2>1. ASSUME NEW k \in DOMAIN g, NEW d \in Times, Calls(g[k], d) PROVE fd[g[k].of][d] <= m
    <3>1. g[k].of = c[k].of /\ Calls(c[k], d) /\ c[k] \in Lines /\ k \in DOMAIN c
        BY <1>5, <1>7, <2>1
    <3>2. g[k].of \in Items
        BY <3>1, LineIs DEF Calls
    <3>3. CASE c # file
        BY <1>4, <1>11, <2>1, <3>2, <3>3 DEF TimesOK
    <3>4. CASE c = file
      <4>1. fd[c[k].of][d] <= n \/ (c[k].of = r.of /\ d = r.due)
        <5>1. LinesOK(c, fd, n, s)
            BY <1>1, <3>4 DEF RemInv
        <5>. QED  BY <1>1, <3>1, <5>1 DEF LinesOK, BeingSettled
      <4>2. CASE c[k].of = r.of /\ d = r.due
        <5>1. OnLine(r, c) \/ fd[r.of][r.due] <= n
            BY <1>1, <1>8, <3>4 DEF TodoOK
        <5>2. CASE OnLine(r, c)
          <6>1. k = r.line
              BY <1>9, <3>1, <4>2, <5>2 DEF OnLine, Distinct, Calls
          <6>2. r.due < r.due
              BY <1>7, <2>1, <4>2, <5>2, <6>1 DEF OnLine
          <6>3. r.due \in Nat
              BY <1>2, TodoIs
          <6>. QED  BY <6>2, <6>3
        <5>3. CASE fd[r.of][r.due] <= n
            BY <1>4, <3>1, <3>4, <4>2, <5>3
        <5>. QED  BY <5>1, <5>2, <5>3
      <4>. QED  BY <1>4, <3>1, <3>4, <4>1, <4>2
    <3>. QED  BY <3>3, <3>4
  <2>. QED  BY <1>9, <2>1 DEF LinesOK
<1>14. TodoOK(s2, g, fd, m, now)
  <2>1. ASSUME NEW k \in DOMAIN s2.todo
        PROVE  /\ s2.todo[k].due <= now
               /\ fd[s2.todo[k].of][s2.todo[k].due] <= m
               /\ OnLine(s2.todo[k], g) \/ fd[s2.todo[k].of][s2.todo[k].due] + 1 <= m
    <3>1. PICK q : q = todo[k + 1] /\ q = s2.todo[k] /\ k + 1 \in Ahead(s) /\ q \in Todo /\ k + 1 \in DOMAIN todo
        BY <1>2, <1>6, <1>8, <2>1
    <3>2. q.due <= now /\ fd[q.of][q.due] <= n /\ (OnLine(q, file) \/ fd[q.of][q.due] + 1 <= n)
        BY <1>8, <3>1 DEF TodoOK
    <3>3. q.of \in Items /\ q.due \in Times /\ q.due \in Nat /\ fd[q.of][q.due] \in Nat
        BY <1>5, <3>1, TodoIs, TimesIs
    <3>4. fd[q.of][q.due] <= m
        BY <1>4, <3>2, <3>3
    <3>5. CASE c # file
        BY <1>4, <3>1, <3>2, <3>3, <3>4, <3>5
    <3>6. CASE c = file /\ fd[q.of][q.due] + 1 <= n
        BY <1>4, <3>1, <3>2, <3>3, <3>4, <3>6
    <3>7. CASE c = file /\ OnLine(q, c)
      <4>1. q.line \in DOMAIN g /\ g[q.line].of = q.of /\ c[q.line].due <= g[q.line].due /\ q.due <= c[q.line].due
          BY <1>7, <3>7 DEF OnLine
      <4>2. c[q.line].due \in Nat /\ g[q.line].due \in Nat
        <5>1. c[q.line] \in Lines /\ g[q.line] \in Lines
            BY <1>5, <1>7, <4>1, FileShape
        <5>. QED  BY <5>1, LineIs
      <4>3. q.due <= g[q.line].due
          BY <3>3, <4>1, <4>2
      <4>. QED  BY <3>1, <3>2, <3>4, <4>1, <4>3 DEF OnLine
    <3>. QED  BY <3>2, <3>5, <3>6, <3>7
  <2>2. ASSUME NEW k \in DOMAIN s2.todo, NEW l \in DOMAIN s2.todo, s2.todo[k].of = s2.todo[l].of
        PROVE  k = l
    <3>1. k + 1 = l + 1 /\ k \in Nat /\ l \in Nat
      <4>1. DOMAIN s2.todo \subseteq Nat
          BY <1>2, LenProperties
      <4>2. \A i, j \in DOMAIN todo : todo[i].of = todo[j].of => i = j
          BY <1>8 DEF TodoOK
      <4>. QED  BY <1>2, <2>2, <4>1, <4>2
    <3>. QED  BY <3>1
  <2>. QED  BY <1>10, <2>1, <2>2 DEF TodoOK
<1>15. WriteOK(org, s2, g, fd, m)
  <2>1. ASSUME NEW e \in Lines, Fresh(e, org.read, s, file, fd, n)
        PROVE  Fresh(e, org.read, s2, g, fd, m)
    <3>1. InFile(e.of, g) <=> InFile(e.of, c)
        BY <1>7 DEF InFile
    <3>2. CASE InFile(e.of, c)
        BY <1>10, <2>1, <3>1, <3>2 DEF Fresh
    <3>3. CASE ~InFile(e.of, c)
      <4>1. ~InFile(e.of, file)
          BY <1>3, <1>8, <2>1, <3>3 DEF Fresh
      <4>2. SUFFICES ASSUME e.due \in Times
                     PROVE  /\ \A d \in Times : e.due <= d => fd[e.of][d] <= m
                            /\ \A k \in Ahead(s2) : s2.todo[k].of = e.of => s2.todo[k].due < e.due
          BY <2>1, <3>1, <3>3 DEF Fresh
      <4>3. /\ \A d \in Times : e.due <= d => fd[e.of][d] <= n
            /\ \A k \in Ahead(s) : todo[k].of = e.of => todo[k].due < e.due
          BY <1>8, <2>1, <4>1, <4>2 DEF Fresh
      <4>4. e.of \in Items
          BY <2>1, LineIs DEF Fresh
      <4>5. ASSUME NEW d \in Times, e.due <= d PROVE fd[e.of][d] <= m
        <5>1. fd[e.of][d] \in Nat /\ fd[e.of][d] <= n
            BY <1>5, <4>3, <4>4, <4>5, TimesIs
        <5>. QED  BY <1>4, <5>1
      <4>6. ASSUME NEW k \in Ahead(s2), s2.todo[k].of = e.of PROVE s2.todo[k].due < e.due
          BY <1>2, <1>8, <1>10, <4>3, <4>6
      <4>. QED  BY <4>5, <4>6
    <3>. QED  BY <3>2, <3>3
  <2>2. org.write \in Seq(Lines) /\ WriteOK(org, s, file, fd, n)
      BY <1>1 DEF RemInv, RemTypes
  <2>. QED  BY <2>1, <2>2, WriteStays
<1>16. ASSUME shifts = 0 PROVE PlaceOK(superseded', s2, org, g, fd)
  <2>1. PlaceOK(superseded, s, org, file, fd)
      BY <1>1, <1>16 DEF RemInv
  <2>2. Stand(todo, c) /\ Agree(c, todo, fd) /\ fd[r.of][r.due] > 0
      BY <1>1, <1>3, <1>8, <2>1 DEF PlaceOK, TodoOK
  <2>3. r.line \in DOMAIN c /\ c[r.line].of = r.of /\ IsTask(c[r.line])
    <3>1. r.of # Heading
        BY <1>2, TodoIs
    <3>. QED  BY <1>1, <1>2, <2>2, <3>1 DEF Stand, IsTask
  <2>4. c[r.line].due \in Times /\ fd[r.of][c[r.line].due] > 0
      BY <1>1, <1>2, <1>6, <2>2, <2>3 DEF Agree
  <2>5. ASSUME NEW p \in superseded' PROVE p[2] \in Times /\ fd[p[1]][p[2]] > 0
    <3>1. CASE p \in superseded
        BY <2>1, <3>1 DEF PlaceOK
    <3>2. CASE p \notin superseded
      <4>1. PICK i \in DOMAIN g : g[i] # c[i] /\ p = <<c[i].of, c[i].due>>
          BY <1>3, <2>5, <3>2
      <4>2. i = r.line
          BY <1>7, <4>1
      <4>. QED  BY <2>3, <2>4, <4>1, <4>2
    <3>. QED  BY <3>1, <3>2
  <2>6. \A i, j \in DOMAIN todo : todo[i].of = todo[j].of => i = j
      BY <1>8 DEF TodoOK
  <2>7. Stand(s2.todo, g)
      BY <1>2, <1>7, <2>2 DEF Stand
  <2>8. Agree(g, s2.todo, fd)
    <3>1. ASSUME NEW k \in DOMAIN g, NEW l \in DOMAIN s2.todo, IsTask(g[k]), g[k].of = s2.todo[l].of
          PROVE  g[k].due = s2.todo[l].due \/ (g[k].due \in Times /\ fd[g[k].of][g[k].due] > 0)
      <4>1. l + 1 \in DOMAIN todo /\ l + 1 # 1 /\ s2.todo[l] = todo[l + 1] /\ c[k].of = todo[l + 1].of
          BY <1>2, <1>7, <3>1
      <4>2. k # r.line
          BY <1>1, <1>2, <2>3, <2>6, <4>1
      <4>3. g[k] = c[k]
          BY <1>7, <3>1, <4>2
      <4>. QED  BY <1>7, <2>2, <3>1, <4>1, <4>3 DEF Agree
    <3>. QED  BY <3>1 DEF Agree
  <2>9. ASSUME org.pc = "write" PROVE Agree(org.write, s2.todo, fd) /\ Agree(org.write, g, fd)
    <3>1. Agree(org.write, todo, fd) /\ Agree(org.write, c, fd)
        BY <1>3, <1>8, <2>1, <2>9 DEF PlaceOK
    <3>2. Agree(org.write, s2.todo, fd)
        BY <1>2, <3>1 DEF Agree
    <3>3. ASSUME NEW k \in DOMAIN org.write, NEW l \in DOMAIN g,
                 IsTask(org.write[k]), org.write[k].of = g[l].of
          PROVE  \/ org.write[k].due = g[l].due
                 \/ org.write[k].due \in Times /\ fd[org.write[k].of][org.write[k].due] > 0
      <4>1. c[l].of = g[l].of /\ l \in DOMAIN c
          BY <1>7, <3>3
      <4>2. \/ org.write[k].due = c[l].due
            \/ org.write[k].due \in Times /\ fd[org.write[k].of][org.write[k].due] > 0
          BY <3>1, <3>3, <4>1 DEF Agree
      <4>3. CASE l = r.line
          BY <2>3, <2>4, <3>3, <4>1, <4>2, <4>3
      <4>4. CASE l # r.line
          BY <1>7, <4>1, <4>2, <4>4
      <4>. QED  BY <4>3, <4>4
    <3>. QED  BY <3>2, <3>3 DEF Agree
  <2>. QED  BY <1>10, <2>5, <2>7, <2>8, <2>9 DEF PlaceOK
<1>17. file' = g /\ sched' = s2 /\ fired' = fd /\ Allowed' = m /\ org' = org /\ now' = now /\ shifts' = shifts
    BY <1>1, <1>3
<1>. QED  BY <1>11, <1>12, <1>13, <1>14, <1>15, <1>16, <1>17 DEF RemInv

\* A task the organizer adds: nothing was ever announced of it.
Unannounced(e, f, fd, t) ==
    /\ IsTask(e) /\ ~InFile(e.of, f)
    /\ e.due \in Times => t < e.due /\ \A d \in Times : fd[e.of][d] = 0

\* A command that has read the file.
LEMMA CommandKeeps ==
    ASSUME RemInv, NEW new \in Seq(Lines), Command(new), Distinct(new),
           \A k \in DOMAIN new : Derived(new[k], file) \/ Unannounced(new[k], file, fired, now)
    PROVE  RemInv'
<1>1. PICK n, s, o2 : n = Allowed /\ s = sched /\ o2 = org'
    OBVIOUS
<1>2. /\ o2.pc = "write" /\ o2.read = file /\ o2.write = new /\ {"pc", "read", "write"} \subseteq DOMAIN o2
      /\ UNCHANGED <<file, now, sched, crashes, fired, superseded, shifts, overwrites>>
    BY <1>1 DEF Command, history
<1>3. Allowed' = n
    BY <1>1, <1>2 DEF Allowed
<1>4. RemTypes'
    BY <1>1, <1>2 DEF RemInv, RemTypes
<1>5. \A k \in DOMAIN new : new[k] \in Lines
    BY FileShape
<1>6. WriteOK(o2, s, file, fired, n)
  <2>1. ASSUME NEW k \in DOMAIN new, Unannounced(new[k], file, fired, now)
        PROVE  Fresh(new[k], file, s, file, fired, n)
    <3>1. PICK e \in Lines : e = new[k] /\ Unannounced(e, file, fired, now)
        BY <1>5, <2>1
    <3>2. SUFFICES ASSUME e.due \in Times
                   PROVE  /\ \A d \in Times : e.due <= d => fired[e.of][d] <= n
                          /\ \A i \in Ahead(s) : s.todo[i].of = e.of => s.todo[i].due < e.due
        BY <3>1 DEF Fresh, Unannounced
    <3>3. n \in Nat /\ now \in Nat /\ e.due \in Nat /\ now < e.due /\ \A d \in Times : fired[e.of][d] = 0
        BY <1>1, <3>1, <3>2, AllowedType, LineIs, RemindersAssumption DEF RemInv, RemTypes, Unannounced
    <3>4. ASSUME NEW i \in Ahead(s) PROVE s.todo[i].due < e.due
      <4>1. s.todo[i].due <= now /\ s.todo[i] \in Todo
        <5>1. s.todo \in Seq(Todo) /\ TodoOK(s, file, fired, n, now) /\ i \in DOMAIN s.todo
            BY <1>1, <3>4 DEF RemInv, RemTypes, Ahead
        <5>. QED  BY <5>1, LenProperties DEF TodoOK
      <4>2. s.todo[i].due \in Nat
          BY <4>1, TodoIs
      <4>. QED  BY <3>3, <4>1, <4>2
    <3>. QED  BY <3>3, <3>4
  <2>. QED  BY <1>2, <2>1 DEF WriteOK
<1>7. ASSUME shifts = 0 PROVE PlaceOK(superseded, s, o2, file, fired)
  <2>1. PlaceOK(superseded, s, org, file, fired) /\ Distinct(file)
      BY <1>1, <1>7 DEF RemInv, LinesOK
  <2>2. ASSUME NEW x, Agree(file, x, fired), \A l \in DOMAIN x : InFile(x[l].of, file)
        PROVE  Agree(new, x, fired)
    <3>1. ASSUME NEW k \in DOMAIN new, NEW l \in DOMAIN x, IsTask(new[k]), new[k].of = x[l].of
          PROVE  new[k].due = x[l].due \/ (new[k].due \in Times /\ fired[new[k].of][new[k].due] > 0)
      <4>1. Derived(new[k], file)
          BY <2>2, <3>1 DEF Unannounced
      <4>2. PICK q \in DOMAIN file : file[q].of = new[k].of /\ file[q].due = new[k].due
          BY <4>1 DEF Derived
      <4>3. IsTask(file[q])
          BY <3>1, <4>2 DEF IsTask
      <4>. QED  BY <2>2, <3>1, <4>2, <4>3 DEF Agree
    <3>. QED  BY <3>1 DEF Agree
  <2>3. Agree(file, file, fired) /\ \A l \in DOMAIN file : InFile(file[l].of, file)
      BY <2>1 DEF Agree, Distinct, InFile
  <2>4. Agree(file, s.todo, fired) /\ \A l \in DOMAIN s.todo : InFile(s.todo[l].of, file)
      BY <2>1 DEF PlaceOK, Stand, InFile
  <2>5. s.pc = "write" => Agree(file, s.copy, fired) /\ \A l \in DOMAIN s.copy : InFile(s.copy[l].of, file)
      BY <2>1 DEF PlaceOK, Within, InFile
  <2>6. Agree(new, file, fired)
      BY <2>2, <2>3
  <2>7. Agree(new, s.todo, fired)
      BY <2>2, <2>4
  <2>8. s.pc = "write" => Agree(new, s.copy, fired)
      BY <2>2, <2>5
  <2>. QED  BY <1>2, <2>1, <2>6, <2>7, <2>8 DEF PlaceOK
<1>. QED  BY <1>1, <1>2, <1>3, <1>4, <1>6, <1>7 DEF RemInv

LEMMA AddKeeps ==
    ASSUME RemInv, NEW i \in Items, NEW due \in 0 .. MaxTime, NEW recurs \in BOOLEAN, Add(i, due, recurs)
    PROVE  RemInv'
<1>1. PICK g, e : g = TaskLines(file) /\ e = [of |-> i, done |-> FALSE, due |-> due, recurs |-> recurs]
    OBVIOUS
<1>2. /\ \A k \in DOMAIN file : file[k].of # i
      /\ \A d \in Times : fired[i][d] = 0
      /\ due = NoTime \/ due > now
      /\ Command(Append(g, e))
    BY <1>1 DEF Add
<1>3. file \in Seq(Lines) /\ Distinct(file)
    BY DEF RemInv, RemTypes, LinesOK
<1>4. g = LinesWithout(file, {})
    BY <1>1 DEF TaskLines
<1>5. /\ g \in Seq(Lines) /\ Distinct(g)
      /\ \A k \in DOMAIN g : IsTask(g[k]) /\ \E q \in DOMAIN file : g[k] = file[q]
    BY <1>3, <1>4, LinesWithoutIs
<1>6. e \in Lines /\ e.of = i /\ e.due = due /\ IsTask(e)
  <2>1. due \in 0 .. MaxTime + 1 /\ i # Heading
      BY RemindersAssumption
  <2>. QED  BY <1>1, <2>1 DEF Lines, IsTask
<1>. HIDE <1>1, <1>4
<1>7. /\ Append(g, e) \in Seq(Lines) /\ DOMAIN g = 1 .. Len(g) /\ Len(g) \in Nat
      /\ DOMAIN Append(g, e) = 1 .. Len(g) + 1
      /\ \A k \in 1 .. Len(g) : Append(g, e)[k] = g[k]
      /\ Append(g, e)[Len(g) + 1] = e
  <2>1. g \in Seq(Lines) /\ e \in Lines
      BY <1>5, <1>6
  <2>. QED  BY ONLY <2>1, AppendProperties, LenProperties
<1>8. PICK new : new = Append(g, e)
    OBVIOUS
<1>9. /\ new \in Seq(Lines) /\ DOMAIN new = DOMAIN g \cup {Len(g) + 1}
      /\ \A k \in DOMAIN g : new[k] = g[k]
      /\ new[Len(g) + 1] = e
  <2>1. 1 .. Len(g) + 1 = (1 .. Len(g)) \cup {Len(g) + 1}
      BY <1>7
  <2>. QED  BY <1>7, <1>8, <2>1
<1>10. \A k \in DOMAIN g : g[k].of # i
    BY <1>2, <1>5
<1>11. Distinct(new)
  <2>1. ASSUME NEW k \in DOMAIN new, NEW l \in DOMAIN new, IsTask(new[k]), new[k].of = new[l].of
        PROVE  k = l
    <3>1. CASE k \in DOMAIN g /\ l \in DOMAIN g
        BY <1>5, <1>9, <2>1, <3>1 DEF Distinct
    <3>2. CASE ~(k \in DOMAIN g /\ l \in DOMAIN g)
        BY <1>6, <1>9, <1>10, <2>1, <3>2
    <3>. QED  BY <3>1, <3>2
  <2>. QED  BY <2>1 DEF Distinct
<1>12. ASSUME NEW k \in DOMAIN new
       PROVE  Derived(new[k], file) \/ Unannounced(new[k], file, fired, now)
  <2>1. CASE k \in DOMAIN g
      BY <1>5, <1>9, <2>1 DEF Derived
  <2>2. CASE k \notin DOMAIN g
    <3>1. new[k] = e
        BY <1>9, <1>12, <2>2
    <3>2. e.due \in Times => now < e.due
        BY <1>2, <1>6 DEF Times, NoTime
    <3>3. ~InFile(e.of, file)
        BY <1>2, <1>6 DEF InFile
    <3>4. Unannounced(e, file, fired, now)
        BY <1>2, <1>6, <3>2, <3>3 DEF Unannounced
    <3>. QED  BY <3>1, <3>4
  <2>. QED  BY <2>1, <2>2
<1>13. Command(new)
    BY <1>2, <1>8
<1>. QED  BY <1>9, <1>11, <1>12, <1>13, CommandKeeps

LEMMA CompleteTaskKeeps ==
    ASSUME RemInv, NEW line, NEW i, CompleteTask(line, i) PROVE RemInv'
<1>1. PICK new : new = [file EXCEPT ![line].done = TRUE]
    OBVIOUS
<1>2. Command(new) /\ line \in DOMAIN file
    BY <1>1 DEF CompleteTask, Found
<1>3. file \in Seq(Lines) /\ Distinct(file)
    BY DEF RemInv, RemTypes, LinesOK
<1>4. Len(file) \in Nat /\ DOMAIN file = 1 .. Len(file) /\ \A k \in DOMAIN file : file[k] \in Lines
    BY <1>3, FileShape
<1>5. PICK x : x = [file[line] EXCEPT !.done = TRUE]
    OBVIOUS
<1>6. x \in Lines /\ x.of = file[line].of /\ x.due = file[line].due /\ x.done
    BY <1>2, <1>4, <1>5 DEF Lines
<1>7. new = [file EXCEPT ![line] = x]
    BY <1>1, <1>5
<1>8. new \in Seq(Lines)
    BY <1>2, <1>3, <1>4, <1>6, <1>7, ExceptSeq
<1>9. DOMAIN new = DOMAIN file /\ new[line] = x /\ \A k \in DOMAIN file : k # line => new[k] = file[k]
    BY <1>2, <1>7
<1>10. \A k \in DOMAIN new : new[k].of = file[k].of /\ new[k].due = file[k].due /\ (~new[k].done => ~file[k].done)
    BY <1>6, <1>9
<1>11. Distinct(new)
    BY <1>3, <1>9, <1>10 DEF Distinct, IsTask
<1>12. \A k \in DOMAIN new : Derived(new[k], file)
    BY <1>9, <1>10 DEF Derived
<1>. QED  BY <1>2, <1>8, <1>11, <1>12, CommandKeeps

LEMMA DeleteTaskKeeps ==
    ASSUME RemInv, NEW line, NEW i, DeleteTask(line, i) PROVE RemInv'
<1>1. PICK new : new = RemoveAt(file, line)
    OBVIOUS
<1>2. Command(new) /\ line \in DOMAIN file
    BY <1>1 DEF DeleteTask, Found
<1>3. file \in Seq(Lines) /\ Distinct(file)
    BY DEF RemInv, RemTypes, LinesOK
<1>4. Len(file) \in Nat /\ DOMAIN file = 1 .. Len(file)
    BY <1>3, FileShape
<1>5. /\ new \in Seq(Lines) /\ DOMAIN new = 1 .. Len(file) - 1
      /\ \A k \in DOMAIN new : new[k] = IF k < line THEN file[k] ELSE file[k + 1]
    BY <1>1, <1>2, <1>3, RemoveAtShape
<1>6. Distinct(new)
  <2>1. ASSUME NEW k \in DOMAIN new, NEW l \in DOMAIN new, IsTask(new[k]), new[k].of = new[l].of PROVE k = l
    <3>1. PICK a \in DOMAIN file : new[k] = file[a] /\ a = IF k < line THEN k ELSE k + 1
        BY <1>2, <1>4, <1>5
    <3>2. PICK b \in DOMAIN file : new[l] = file[b] /\ b = IF l < line THEN l ELSE l + 1
        BY <1>2, <1>4, <1>5
    <3>3. a = b
        BY <1>3, <2>1, <3>1, <3>2 DEF Distinct
    <3>4. k \in Nat /\ l \in Nat /\ line \in Nat
        BY <1>2, <1>4, <1>5
    <3>. QED  BY <3>1, <3>2, <3>3, <3>4
  <2>. QED  BY <2>1 DEF Distinct
<1>7. ASSUME NEW k \in DOMAIN new PROVE Derived(new[k], file)
  <2>1. PICK a \in DOMAIN file : new[k] = file[a]
      BY <1>2, <1>4, <1>5
  <2>. QED  BY <2>1 DEF Derived
<1>. QED  BY <1>2, <1>5, <1>6, <1>7, CommandKeeps

LEMMA DeleteReminderKeeps == ASSUME RemInv, NEW i, DeleteReminder(i) PROVE RemInv'
<1>1. PICK new, gone : gone = {i} /\ new = LinesWithout(file, gone)
    OBVIOUS
<1>2. Command(new)
    BY <1>1 DEF DeleteReminder
<1>3. file \in Seq(Lines) /\ Distinct(file)
    BY DEF RemInv, RemTypes, LinesOK
<1>4. /\ new \in Seq(Lines) /\ Distinct(new)
      /\ \A k \in DOMAIN new : \E q \in DOMAIN file : new[k] = file[q]
  <2>1. new = LinesWithout(file, gone) /\ file \in Seq(Lines) /\ Distinct(file)
      BY <1>1, <1>3
  <2>. QED  BY ONLY <2>1, LinesWithoutIs
<1>5. \A k \in DOMAIN new : Derived(new[k], file)
    BY <1>4 DEF Derived
<1>. QED  BY <1>2, <1>4, <1>5, CommandKeeps

LEMMA CommandWriteKeeps == ASSUME RemInv, CommandWrite PROVE RemInv'
<1>1. PICK n, m, s, fd, w, read, todo :
        /\ n = Allowed /\ m = Allowed' /\ s = sched /\ fd = fired
        /\ w = org.write /\ read = org.read /\ todo = sched.todo
    OBVIOUS
<1>2. /\ org.pc = "write" /\ file' = w /\ org' = NoCommand
      /\ shifts' = IF s.pc # "idle" /\ Moves(file, w) THEN shifts + 1 ELSE shifts
      /\ overwrites' = IF read = file THEN overwrites ELSE overwrites + 1
      /\ UNCHANGED <<now, sched, crashes, fired, superseded>>
    BY <1>1 DEF CommandWrite
<1>3. /\ n \in Nat /\ crashes \in Nat /\ shifts \in Nat /\ overwrites \in Nat
      /\ n = crashes + shifts + overwrites /\ m = crashes + shifts' + overwrites'
      /\ shifts' \in Nat /\ overwrites' \in Nat
  <2>1. n \in Nat /\ crashes \in Nat /\ shifts \in Nat /\ overwrites \in Nat
      BY <1>1, AllowedType DEF RemInv, RemTypes
  <2>. QED  BY <1>1, <1>2, <2>1 DEF Allowed
<1>4. /\ m \in Nat
      /\ \/ m = n /\ read = file /\ (s.pc # "idle" => ~Moves(file, w)) /\ shifts' = shifts
         \/ m >= n + 1
    BY <1>2, <1>3
<1>4a. n \in Nat /\ m \in Nat /\ n <= m /\ (m = n \/ m >= n + 1)
  <2>1. m = n \/ m >= n + 1
      BY <1>4
  <2>2. n \in Nat /\ m \in Nat
      BY <1>3, <1>4
  <2>. QED  BY <2>1, <2>2
<1>5. /\ w \in Seq(Lines) /\ file \in Seq(Lines) /\ fd \in [Items -> [Times -> Nat]] /\ todo \in Seq(Todo)
      /\ (s.pc = "idle") <=> (todo = <<>>)
    BY <1>1 DEF RemInv, RemTypes
<1>6. Distinct(w) /\ \A k \in DOMAIN w : Derived(w[k], read) \/ Fresh(w[k], read, s, file, fd, n)
    BY <1>1, <1>2 DEF RemInv, WriteOK
<1>7. LinesOK(file, fd, n, s) /\ TodoOK(s, file, fd, n, now) /\ TimesOK(fd, n) /\ s.todo = todo
    BY <1>1 DEF RemInv
<1>8. /\ \A k \in DOMAIN w : w[k] \in Lines
      /\ \A k \in DOMAIN file : file[k] \in Lines
      /\ \A k \in DOMAIN todo : todo[k].of \in Items /\ todo[k].due \in Times /\ todo[k] \in Todo
  <2>1. \A k \in DOMAIN todo : todo[k] \in Todo
      BY <1>5, LenProperties
  <2>. QED  BY <1>5, <2>1, FileShape, TodoIs
<1>9. RemTypes'
  <2>1. <<>> \in Seq(Lines)
      BY EmptySeq
  <2>2. {"pc", "read", "write"} \subseteq DOMAIN NoCommand /\ NoCommand.read = <<>> /\ NoCommand.write = <<>>
      BY DEF NoCommand
  <2>. QED  BY <1>2, <1>3, <1>5, <2>1, <2>2 DEF RemInv, RemTypes
<1>10. LinesOK(w, fd, m, s)
  <2>1. ASSUME NEW k \in DOMAIN w, NEW d \in Times, Calls(w[k], d)
        PROVE  fd[w[k].of][d] <= m \/ BeingSettled(s, w[k].of, d)
    <3>1. PICK e \in Lines : e = w[k] /\ Calls(e, d) /\ e.of \in Items
        BY <1>8, <2>1, LineIs DEF Calls
    <3>2. fd[e.of][d] \in Nat
        BY <1>5, <3>1, TimesIs
    <3>3. CASE m >= n + 1
      <4>1. fd[e.of][d] <= 1 + n
          BY <1>7, <3>1 DEF TimesOK
      <4>2. fd[e.of][d] <= m
          BY <1>4a, <3>2, <3>3, <4>1
      <4>. QED  BY <3>1, <4>2
    <3>4. CASE m = n /\ read = file /\ Derived(e, read)
      <4>1. PICK q \in DOMAIN file : file[q].of = e.of /\ file[q].due = e.due /\ (~e.done => ~file[q].done)
          BY <3>4 DEF Derived
      <4>2. Calls(file[q], d)
          BY <3>1, <4>1 DEF Calls, IsTask
      <4>. QED  BY <1>7, <3>1, <3>4, <4>1, <4>2 DEF LinesOK
    <3>5. CASE m = n /\ read = file /\ Fresh(e, read, s, file, fd, n)
        BY <3>1, <3>5 DEF Fresh, Calls
    <3>. QED  BY <1>4, <1>6, <3>1, <3>3, <3>4, <3>5
  <2>. QED  BY <1>6, <2>1 DEF LinesOK
<1>11. ASSUME NEW k \in DOMAIN todo, OnLine(todo[k], file), m = n, read = file, s.pc # "idle" => ~Moves(file, w)
       PROVE  OnLine(todo[k], w)
  <2>1. PICK r, l : r = todo[k] /\ l = r.line /\ r \in Todo /\ r.of # Heading
      BY <1>8, TodoIs
  <2>2. l \in DOMAIN file /\ file[l].of = r.of /\ r.due <= file[l].due
      BY <1>11, <2>1 DEF OnLine
  <2>3. s.pc # "idle"
      BY <1>5
  <2>4. l \in DOMAIN w /\ w[l].of = r.of
      BY <1>11, <2>2, <2>3 DEF Moves
  <2>5. Derived(w[l], file)
      BY <1>6, <1>11, <2>2, <2>4 DEF Fresh, InFile
  <2>6. PICK q \in DOMAIN file : file[q].of = w[l].of /\ file[q].due = w[l].due
      BY <2>5 DEF Derived
  <2>7. q = l
      BY <1>7, <2>1, <2>2, <2>4, <2>6 DEF LinesOK, Distinct, IsTask
  <2>. QED  BY <2>1, <2>2, <2>4, <2>6, <2>7 DEF OnLine
<1>12. \A k \in DOMAIN todo : fd[todo[k].of][todo[k].due] \in Nat /\ fd[todo[k].of][todo[k].due] <= 1 + n
    BY <1>5, <1>7, <1>8, TimesIs DEF TimesOK
<1>13. TodoOK(s, w, fd, m, now)
  <2>1. ASSUME NEW k \in Ahead(s)
        PROVE  /\ fd[todo[k].of][todo[k].due] <= m
               /\ OnLine(todo[k], w) \/ fd[todo[k].of][todo[k].due] + 1 <= m
    <3>1. PICK x \in Nat : x = fd[todo[k].of][todo[k].due] /\ k \in DOMAIN todo
        BY <1>7, <1>12, <2>1 DEF Ahead
    <3>2. x <= n /\ (OnLine(todo[k], file) \/ x + 1 <= n)
        BY <1>7, <2>1, <3>1 DEF TodoOK
    <3>3. x <= m /\ (m >= n + 1 \/ x + 1 <= n => x + 1 <= m)
        BY <1>4a, <3>1, <3>2
    <3>4. CASE m >= n + 1
        BY <3>1, <3>3, <3>4
    <3>5. CASE ~(m >= n + 1)
      <4>1. OnLine(todo[k], file) => OnLine(todo[k], w)
          BY <1>4, <1>11, <3>1, <3>5
      <4>. QED  BY <3>1, <3>2, <3>3, <4>1
    <3>. QED  BY <3>4, <3>5
  <2>2. ASSUME Settling(s)
        PROVE  OnLine(todo[1], w) \/ fd[todo[1].of][todo[1].due] <= m
    <3>1. 1 \in DOMAIN todo
      <4>1. Len(todo) \in Nat \ {0}
          BY <1>5, <2>2, EmptySeq DEF Settling
      <4>2. DOMAIN todo = 1 .. Len(todo)
          BY <1>5, LenProperties
      <4>. QED  BY <4>1, <4>2
    <3>2. PICK x \in Nat : x = fd[todo[1].of][todo[1].due] /\ x <= 1 + n
        BY <1>12, <3>1
    <3>3. OnLine(todo[1], file) \/ x <= n
        BY <1>7, <2>2, <3>2 DEF TodoOK
    <3>4. (m >= n + 1 => x <= m) /\ (x <= n => x <= m)
        BY <1>4a, <3>2
    <3>5. CASE m >= n + 1
        BY <3>2, <3>4, <3>5
    <3>6. CASE ~(m >= n + 1)
      <4>1. OnLine(todo[1], file) => OnLine(todo[1], w)
          BY <1>4, <1>11, <3>1, <3>6
      <4>. QED  BY <3>2, <3>3, <3>4, <4>1
    <3>. QED  BY <3>5, <3>6
  <2>. QED  BY <1>7, <2>1, <2>2 DEF TodoOK
<1>14. TimesOK(fd, m)
  <2>1. ASSUME NEW i \in Items, NEW d \in Times PROVE fd[i][d] <= 1 + m
    <3>1. PICK x \in Nat : x = fd[i][d] /\ x <= 1 + n
        BY <1>5, <1>7, TimesIs DEF TimesOK
    <3>. QED  BY <1>4a, <3>1
  <2>. QED  BY <2>1 DEF TimesOK
<1>15. ASSUME shifts' = 0 PROVE PlaceOK(superseded, s, NoCommand, w, fd)
  <2>1. shifts = 0 /\ (s.pc # "idle" => ~Moves(file, w))
      BY <1>2, <1>3, <1>15
  <2>2. PlaceOK(superseded, s, org, file, fd)
      BY <1>1, <2>1 DEF RemInv
  <2>3. NoCommand.pc # "write"
      BY DEF NoCommand
  <2>4. Agree(w, todo, fd)
      BY <1>1, <1>2, <2>2 DEF PlaceOK
  <2>5. Stand(todo, w)
    <3>1. CASE s.pc = "idle"
      <4>1. todo = <<>> /\ DOMAIN todo = {}
          BY <1>5, <3>1
      <4>. QED  BY <4>1 DEF Stand
    <3>2. CASE s.pc # "idle"
        BY <1>1, <2>1, <2>2, <3>2 DEF PlaceOK, Stand, Moves
    <3>. QED  BY <3>1, <3>2
  <2>6. ASSUME s.pc = "write"
        PROVE  /\ Stand(todo, s.copy) /\ Agree(s.copy, todo, fd)
               /\ Within(s.copy, w) /\ Agree(w, s.copy, fd)
    <3>1. /\ Stand(todo, s.copy) /\ Agree(s.copy, todo, fd)
          /\ Within(s.copy, file) /\ Agree(w, s.copy, fd)
        BY <1>1, <1>2, <2>2, <2>6 DEF PlaceOK
    <3>2. Within(s.copy, w)
        BY <2>1, <2>6, <3>1 DEF Within, Moves
    <3>. QED  BY <3>1, <3>2
  <2>. QED  BY <1>7, <2>2, <2>3, <2>4, <2>5, <2>6 DEF PlaceOK
<1>16. WriteOK(NoCommand, s, w, fd, m)
    BY DEF WriteOK, NoCommand
<1>17. file' = w /\ sched' = s /\ fired' = fd /\ Allowed' = m /\ org' = NoCommand /\ now' = now /\ superseded' = superseded
    BY <1>1, <1>2
<1>. QED  BY <1>9, <1>10, <1>13, <1>14, <1>15, <1>16, <1>17 DEF RemInv

LEMMA AdvanceKeeps == ASSUME RemInv, Advance PROVE RemInv'
<1>1. PICK t : t = now'
    OBVIOUS
<1>2. /\ now < MaxTime /\ t = now + 1
      /\ UNCHANGED <<file, sched, org, crashes, fired, superseded, shifts, overwrites>>
    BY <1>1 DEF Advance, history
<1>3. Allowed' = Allowed
    BY <1>2 DEF Allowed
<1>4. now \in Nat /\ MaxTime \in Nat /\ t \in 0 .. MaxTime /\ now <= t
    BY <1>2, RemindersAssumption DEF RemInv, RemTypes
<1>5. RemTypes'
    BY <1>1, <1>2, <1>4 DEF RemInv, RemTypes
<1>6. TodoOK(sched, file, fired, Allowed, t)
  <2>1. \A k \in DOMAIN sched.todo : sched.todo[k].due \in Nat
    <3>1. \A k \in DOMAIN sched.todo : sched.todo[k] \in Todo
        BY LenProperties DEF RemInv, RemTypes
    <3>. QED  BY <3>1, TodoIs
  <2>2. TodoOK(sched, file, fired, Allowed, now)
      BY DEF RemInv
  <2>3. \A k \in DOMAIN sched.todo : sched.todo[k].due <= t
      BY <1>2, <1>4, <2>1, <2>2 DEF TodoOK
  <2>. QED  BY <2>2, <2>3 DEF TodoOK
<1>. QED  BY <1>1, <1>2, <1>3, <1>5, <1>6 DEF RemInv

LEMMA CrashKeeps == ASSUME RemInv, Crash PROVE RemInv'
<1>1. PICK n, m, fd : n = Allowed /\ m = Allowed' /\ fd = fired
    OBVIOUS
<1>2. /\ crashes' = crashes + 1 /\ sched' = Idle /\ org' = NoCommand
      /\ UNCHANGED <<file, now, fired, superseded, shifts, overwrites>>
    BY DEF Crash, history
<1>3. n \in Nat /\ m = n + 1
  <2>1. n \in Nat /\ crashes \in Nat /\ shifts \in Nat /\ overwrites \in Nat
      BY <1>1, AllowedType DEF RemInv, RemTypes
  <2>. QED  BY <1>1, <1>2, <2>1 DEF Allowed
<1>4. /\ Idle.pc = "idle" /\ Idle.todo = <<>> /\ Idle.copy = <<>> /\ {"pc", "todo", "copy"} \subseteq DOMAIN Idle
      /\ NoCommand.pc = "idle" /\ NoCommand.read = <<>> /\ NoCommand.write = <<>>
      /\ {"pc", "read", "write"} \subseteq DOMAIN NoCommand
    BY DEF Idle, NoCommand
<1>5. RemTypes'
  <2>1. <<>> \in Seq(Lines) /\ <<>> \in Seq(Todo)
      BY EmptySeq
  <2>2. crashes' \in Nat
      BY <1>2 DEF RemInv, RemTypes
  <2>. QED  BY <1>2, <1>4, <2>1, <2>2 DEF RemInv, RemTypes, SchedPhases
<1>6. /\ file \in Seq(Lines) /\ fd \in [Items -> [Times -> Nat]]
      /\ LinesOK(file, fd, n, sched) /\ TimesOK(fd, n)
    BY <1>1 DEF RemInv, RemTypes
<1>7. ASSUME NEW i \in Items, NEW d \in Times PROVE fd[i][d] <= m /\ fd[i][d] <= 1 + m
  <2>1. PICK x \in Nat : x = fd[i][d] /\ x <= 1 + n
      BY <1>6, <1>7, TimesIs DEF TimesOK
  <2>. QED  BY <1>3, <2>1
<1>8. LinesOK(file, fd, m, Idle)
  <2>1. \A k \in DOMAIN file : \A d \in Times : Calls(file[k], d) => file[k].of \in Items
      BY <1>6, FileShape, LineIs DEF Calls
  <2>. QED  BY <1>6, <1>7, <2>1 DEF LinesOK
<1>9. DOMAIN <<>> = {}
    OBVIOUS
<1>10. TodoOK(Idle, file, fd, m, now)
    BY <1>4, <1>9 DEF TodoOK, Ahead, Settling
<1>11. WriteOK(NoCommand, Idle, file, fd, m) /\ TimesOK(fd, m)
    BY <1>4, <1>7 DEF WriteOK, TimesOK
<1>12. ASSUME shifts = 0 PROVE PlaceOK(superseded, Idle, NoCommand, file, fd)
  <2>1. \A p \in superseded : p[2] \in Times /\ fd[p[1]][p[2]] > 0
      BY <1>1, <1>12 DEF RemInv, PlaceOK
  <2>. QED  BY <1>4, <1>9, <2>1 DEF PlaceOK, Stand, Agree
<1>13. file' = file /\ sched' = Idle /\ fired' = fd /\ Allowed' = m /\ org' = NoCommand /\ now' = now
       /\ superseded' = superseded /\ shifts' = shifts
    BY <1>1, <1>2
<1>. QED  BY <1>5, <1>8, <1>10, <1>11, <1>12, <1>13 DEF RemInv

LEMMA RemStart == Init => RemInv
<1>. SUFFICES ASSUME Init PROVE RemInv
    OBVIOUS
<1>1. /\ Idle.pc = "idle" /\ Idle.todo = <<>> /\ Idle.copy = <<>> /\ {"pc", "todo", "copy"} \subseteq DOMAIN Idle
      /\ NoCommand.pc = "idle" /\ NoCommand.read = <<>> /\ NoCommand.write = <<>>
      /\ {"pc", "read", "write"} \subseteq DOMAIN NoCommand
    BY DEF Idle, NoCommand
<1>2. /\ <<>> \in Seq(Lines) /\ <<>> \in Seq(Todo) /\ DOMAIN <<>> = {}
  <2>1. <<>> \in Seq(Lines) /\ <<>> \in Seq(Todo)
      BY EmptySeq
  <2>. QED  BY <2>1
<1>3. HeadingLine \in Lines /\ ~IsTask(HeadingLine)
    BY RemindersAssumption DEF HeadingLine, Lines, IsTask, NoTime
<1>4. file \in Seq(Lines) /\ \A k \in DOMAIN file : ~IsTask(file[k])
  <2>1. CASE file = <<>>
      BY <1>2, <2>1
  <2>2. CASE file = <<HeadingLine>>
      BY <1>3, <2>2
  <2>. QED  BY <2>1, <2>2 DEF Init
<1>5. Allowed = 0 /\ sched = Idle /\ org = NoCommand /\ superseded = {}
    BY DEF Init, Allowed
<1>6. RemTypes
    BY <1>1, <1>2, <1>4, <1>5, RemindersAssumption DEF Init, RemTypes, SchedPhases
<1>7. LinesOK(file, fired, Allowed, Idle)
    BY <1>4 DEF LinesOK, Distinct, Calls
<1>8. TodoOK(Idle, file, fired, Allowed, now)
    BY <1>1, <1>2 DEF TodoOK, Ahead, Settling
<1>9. WriteOK(NoCommand, Idle, file, fired, Allowed) /\ TimesOK(fired, Allowed)
    BY <1>1, <1>5 DEF WriteOK, TimesOK, Init
<1>10. PlaceOK({}, Idle, NoCommand, file, fired)
    BY <1>1, <1>2 DEF PlaceOK, Stand, Agree
<1>. QED  BY <1>5, <1>6, <1>7, <1>8, <1>9, <1>10 DEF RemInv

LEMMA RemSteps == RemInv /\ [Next]_vars => RemInv'
<1>. SUFFICES ASSUME RemInv, [Next]_vars PROVE RemInv'
    OBVIOUS
<1>1. CASE Tick \/ Notify
    BY <1>1, TickKeeps, NotifyKeeps
<1>2. CASE MarkRead \/ MarkWrite
    BY <1>2, MarkReadKeeps, MarkWriteKeeps
<1>3. CASE \E i \in Items, due \in 0 .. MaxTime, recurs \in BOOLEAN : Add(i, due, recurs)
    BY <1>3, AddKeeps
<1>4. CASE \E p \in listed : CompleteTask(p[1], p[2])
    BY <1>4, CompleteTaskKeeps
<1>5. CASE \E p \in listed : DeleteTask(p[1], p[2])
    BY <1>5, DeleteTaskKeeps
<1>6. CASE \E i \in Items : DeleteReminder(i)
    BY <1>6, DeleteReminderKeeps
<1>7. CASE CommandWrite
    BY <1>7, CommandWriteKeeps
<1>8. CASE Advance \/ Crash
    BY <1>8, AdvanceKeeps, CrashKeeps
<1>9. CASE ListTasks \/ UNCHANGED vars
  <2>1. UNCHANGED <<file, now, sched, org, crashes, fired, superseded, shifts, overwrites>>
      BY <1>9 DEF ListTasks, history, vars
  <2>2. Allowed' = Allowed
      BY <2>1 DEF Allowed
  <2>. QED  BY <2>1, <2>2 DEF RemInv, RemTypes
<1>. QED  BY <1>1, <1>2, <1>3, <1>4, <1>5, <1>6, <1>7, <1>8, <1>9 DEF Next

\* An occurrence of a reminder is announced once, and once more at most for each crash, each
\* command that moves lines under a tick and each rewrite of a changed file; and while no
\* lines have moved, only what has been announced is ticked off or moved on - for any
\* items, times and commands (Scheduler._check_reminders, _mark_task_done_in_file,
\* _reschedule_reminder_in_file).
THEOREM OccurrencesAnnouncedOnce == Spec => []AnnouncedOnce
<1>1. RemInv => AnnouncedOnce
  <2>. SUFFICES ASSUME RemInv PROVE AnnouncedOnce
      OBVIOUS
  <2>1. ASSUME NEW i \in Items, NEW d \in Times PROVE fired[i][d] <= 1 + crashes + shifts + overwrites
    <3>1. /\ fired[i][d] <= 1 + Allowed /\ fired[i][d] \in Nat
          /\ crashes \in Nat /\ shifts \in Nat /\ overwrites \in Nat
        BY TimesIs DEF RemInv, RemTypes, TimesOK
    <3>. QED  BY <3>1 DEF Allowed
  <2>2. shifts = 0 => \A p \in superseded : p[2] \in Times /\ fired[p[1]][p[2]] > 0
      BY DEF RemInv, PlaceOK
  <2>. QED  BY <2>1, <2>2 DEF AnnouncedOnce
<1>. QED  BY <1>1, RemStart, RemSteps, PTL DEF Spec
=============================================================================

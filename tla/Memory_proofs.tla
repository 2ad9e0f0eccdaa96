--------------------------- MODULE Memory_proofs ---------------------------
(***************************************************************************)
(* Theorems about what a user's memory keeps.  SessionMemory: the          *)
(* conversation's logs, exchanges and summaries, for every set of turns    *)
(* and threads and every value of the thresholds and bounds.  MemoryWiki:  *)
(* the pages the logs become, for all logs, pages and incidents.           *)
(***************************************************************************)
EXTENDS SessionMemory, MemoryWiki, SequenceTheorems, FiniteSetTheorems, TLAPS

-----------------------------------------------------------------------------
(* Sequences *)

\* The elements of a sequence over S are in S.
LEMMA ToSetInRange ==
    ASSUME NEW S, NEW s \in Seq(S)
    PROVE  ToSet(s) \subseteq S
BY DEF ToSet

\* Appending adds one element to the set of a sequence.
LEMMA ToSetAppend ==
    ASSUME NEW S, NEW s \in Seq(S), NEW x \in S
    PROVE  ToSet(Append(s, x)) = ToSet(s) \cup {x}
<1>1. Append(s, x) \in Seq(S) /\ Len(Append(s, x)) = Len(s) + 1
      /\ (\A i \in 1 .. Len(s) : Append(s, x)[i] = s[i])
      /\ Append(s, x)[Len(s) + 1] = x
    BY AppendProperties
<1>2. DOMAIN s = 1 .. Len(s) /\ DOMAIN Append(s, x) = 1 .. Len(s) + 1 /\ Len(s) \in Nat
    BY <1>1, LenProperties
<1>. QED  BY <1>1, <1>2 DEF ToSet

\* A tail of a sequence is a sequence over the same set.
LEMMA SuffixType ==
    ASSUME NEW S, NEW s \in Seq(S), NEW n \in Nat \ {0}
    PROVE  SubSeq(s, n, Len(s)) \in Seq(S)
<1>1. Len(s) \in Nat /\ \A i \in n .. Len(s) : s[i] \in S
    BY LenProperties, ElementOfSeq
<1>. QED  BY <1>1, SubSeqProperties

\* So is an initial part.
LEMMA PrefixType ==
    ASSUME NEW S, NEW s \in Seq(S), NEW n \in 0 .. Len(s)
    PROVE  SubSeq(s, 1, n) \in Seq(S)
<1>1. Len(s) \in Nat /\ \A i \in 1 .. n : s[i] \in S
    BY LenProperties, ElementOfSeq
<1>. QED  BY <1>1, SubSeqProperties

\* session.exchanges[-n:] keeps entries of the list.
LEMMA LastOfType ==
    ASSUME NEW S, NEW s \in Seq(S), NEW n \in Nat
    PROVE  LastOf(s, n) \in Seq(S)
<1>1. Len(s) \in Nat
    BY LenProperties
<1>2. (IF Len(s) > n THEN Len(s) - n + 1 ELSE 1) \in Nat \ {0}
    BY <1>1
<1>. QED  BY <1>2, SuffixType DEF LastOf

-----------------------------------------------------------------------------
(* Prompts *)

\* The number of human messages of a prompt is a number.
LEMMA HumansInType ==
    ASSUME NEW p \in Seq(Messages)
    PROVE  HumansIn(p) \in Nat
<1>1. DOMAIN p = 1 .. Len(p) /\ Len(p) \in Nat
    BY LenProperties
<1>2. IsFiniteSet(1 .. Len(p))
    BY <1>1, FS_Interval
<1>3. {i \in DOMAIN p : p[i].role = "human"} \in SUBSET (1 .. Len(p))
    BY <1>1
<1>4. IsFiniteSet({i \in DOMAIN p : p[i].role = "human"})
    BY <1>2, <1>3, FS_Subset
<1>. QED  BY <1>4, FS_CardinalityType DEF HumansIn

\* A non-empty set of natural numbers has a least element.
LEMMA LeastExists ==
    ASSUME NEW T, T \subseteq Nat, T # {}
    PROVE  \E x \in T : \A y \in T : x <= y
<1>1. PICK x \in T : \A y \in T : ~(<<y, x>> \in OpToRel(<, Nat))
    BY NatLessThanWellFounded, WFMin
<1>2. \A y \in T : ~(y < x)
    BY <1>1 DEF OpToRel
<1>. QED  BY <1>2

\* Induction up to a bound, for a set of numbers.
LEMMA SetInduction ==
    ASSUME NEW N \in Nat, NEW G, 0 \in G, \A n \in 1 .. N : n - 1 \in G => n \in G
    PROVE  0 .. N \subseteq G
<1>. DEFINE Bad == (0 .. N) \ G
<1>1. SUFFICES ASSUME Bad # {} PROVE FALSE
    OBVIOUS
<1>2. Bad \subseteq Nat
    OBVIOUS
<1>3. PICK m \in Bad : \A y \in Bad : m <= y
    BY <1>1, <1>2, LeastExists
<1>4. m \in 1 .. N
    BY <1>3
<1>5. m - 1 \notin Bad
    BY <1>3, <1>4
<1>. QED  BY <1>3, <1>4, <1>5

\* A non-empty set of indices has a greatest element.
LEMMA GreatestExists ==
    ASSUME NEW n \in Nat, NEW T, T \subseteq 1 .. n, T # {}
    PROVE  \E x \in T : \A y \in T : y <= x
<1>. DEFINE D == {n - i : i \in T}
<1>1. D \subseteq Nat /\ D # {}
  <2>1. \A i \in T : n - i \in Nat
    OBVIOUS
  <2>2. D # {}
    BY Zenon
  <2>. QED  BY <2>1, <2>2
<1>2. PICK d \in D : \A e \in D : d <= e
    BY <1>1, LeastExists
<1>3. PICK x \in T : d = n - x
    OBVIOUS
<1>4. \A y \in T : n - x <= n - y
    BY <1>2, <1>3
<1>. QED  BY <1>4

\* A replayed timeline is a prompt.
LEMMA ReplayType ==
    ASSUME NEW es \in Seq(Entries)
    PROVE  Replay(es) \in Seq(Messages)
<1>. DEFINE marks == {i \in DOMAIN es : es[i] = Marker}
            cutoff == IF marks = {} THEN 0 ELSE CHOOSE i \in marks : \A j \in marks : j <= i
            after == SubSeq(es, cutoff + 1, Len(es))
            pair == [i \in 1 .. 2 * Len(after) |->
                       IF i % 2 = 1 THEN Human(after[(i + 1) \div 2]) ELSE AI(after[i \div 2])]
<1>1. Len(es) \in Nat /\ DOMAIN es = 1 .. Len(es)
    BY LenProperties
<1>2. cutoff \in 0 .. Len(es)
  <2>1. CASE marks = {}
    BY <1>1, <2>1
  <2>2. CASE marks # {}
    <3>1. \E i \in marks : \A j \in marks : j <= i
        BY <1>1, <2>2, GreatestExists
    <3>2. cutoff \in marks
        BY <2>2, <3>1
    <3>. QED  BY <1>1, <3>2
  <2>. QED  BY <2>1, <2>2
<1>. HIDE DEF cutoff
<1>3. after \in Seq(Entries)
  <2>1. cutoff + 1 \in Nat \ {0}
    BY <1>1, <1>2
  <2>. QED  BY <2>1, SuffixType
<1>. HIDE DEF after
<1>4. Len(after) \in Nat /\ \A k \in 1 .. Len(after) : after[k] \in Entries
    BY <1>3, LenProperties, ElementOfSeq
<1>5. ASSUME NEW i \in 1 .. 2 * Len(after)
      PROVE  (IF i % 2 = 1 THEN Human(after[(i + 1) \div 2]) ELSE AI(after[i \div 2])) \in Messages
  <2>1. CASE i % 2 = 1
    <3>1. (i + 1) \div 2 \in 1 .. Len(after)
        BY <1>4, <2>1
    <3>. QED  BY <1>4, <2>1, <3>1 DEF Human, Messages
  <2>2. CASE i % 2 # 1
    <3>1. i \div 2 \in 1 .. Len(after)
        BY <1>4, <2>2
    <3>. QED  BY <1>4, <2>2, <3>1 DEF AI, Messages
  <2>. QED  BY <2>1, <2>2
<1>6. pair \in Seq(Messages)
  <2>1. 2 * Len(after) \in Nat
    BY <1>4
  <2>. QED  BY <1>5, <2>1, IsASeq
<1>7. <<Human(Marker)>> \in Seq(Messages)
    BY DEF Human, Messages, Entries
<1>8. <<Human(Marker)>> \o pair \in Seq(Messages)
    BY <1>6, <1>7, ConcatProperties
<1>9. Replay(es) = IF cutoff = 0 THEN pair ELSE <<Human(Marker)>> \o pair
    BY DEF Replay, after, cutoff
<1>. QED  BY <1>6, <1>8, <1>9

\* A compression drops between none and all messages of the prompt.
LEMMA CutType ==
    ASSUME NEW p \in Seq(Messages)
    PROVE  Cut(p) \in 0 .. Len(p)
<1>1. Len(p) \in Nat /\ KeepMessages \in Nat
    BY LenProperties, NumbersAssumption
<1>2. CASE Len(p) <= ContextBudget \/ Len(p) <= KeepMessages
    BY <1>1, <1>2 DEF Cut
<1>3. CASE ~(Len(p) <= ContextBudget \/ Len(p) <= KeepMessages)
  <2>. DEFINE T == {c \in (Len(p) - KeepMessages) .. Len(p) : c = Len(p) \/ p[c + 1].role # "tool"}
  <2>1. T \subseteq Nat /\ Len(p) \in T
    BY <1>1, <1>3
  <2>2. PICK c \in T : \A y \in T : c <= y
    BY <2>1, LeastExists
  <2>3. ASSUME NEW i \in (Len(p) - KeepMessages) .. c - 1
        PROVE  i \notin T
    <3>1. c \in Nat /\ i \in Int /\ i < c
        BY <1>1, <1>3, <2>1, <2>2
    <3>. HIDE DEF T
    <3>. QED  BY <2>2, <3>1
  <2>4. ASSUME NEW i \in (Len(p) - KeepMessages) .. c - 1
        PROVE  p[i + 1].role = "tool"
    <3>1. i \in (Len(p) - KeepMessages) .. Len(p)
        BY <1>1, <1>3, <2>2
    <3>2. i \notin T
        BY <2>3
    <3>. QED  BY <3>1, <3>2
  <2>5. \E x \in (Len(p) - KeepMessages) .. Len(p) :
            /\ x = Len(p) \/ p[x + 1].role # "tool"
            /\ \A i \in (Len(p) - KeepMessages) .. x - 1 : p[i + 1].role = "tool"
    BY <2>2, <2>4
  <2>6. Cut(p) \in (Len(p) - KeepMessages) .. Len(p)
    BY <1>3, <2>5 DEF Cut
  <2>. QED  BY <1>1, <1>3, <2>6
<1>. QED  BY <1>2, <1>3

\* What is dropped and what remains are prompts.
LEMMA CompressedType ==
    ASSUME NEW p \in Seq(Messages)
    PROVE  Dropped(p) \in Seq(Messages) /\ Compressed(p) \in Seq(Messages)
<1>1. Cut(p) \in 0 .. Len(p) /\ Len(p) \in Nat
    BY CutType, LenProperties
<1>2. Dropped(p) \in Seq(Messages)
    BY <1>1, PrefixType DEF Dropped
<1>3. SubSeq(p, Cut(p) + 1, Len(p)) \in Seq(Messages)
    BY <1>1, SuffixType
<1>4. <<Human(Marker)>> \in Seq(Messages)
    BY DEF Human, Messages, Entries
<1>5. <<Human(Marker)>> \o SubSeq(p, Cut(p) + 1, Len(p)) \in Seq(Messages)
    BY <1>3, <1>4, ConcatProperties
<1>. QED  BY <1>2, <1>3, <1>5 DEF Compressed

-----------------------------------------------------------------------------
(* Threads *)

\* f starts at z and goes from each value in S to the next by step.
IsIteration(f, N, S, z, step) ==
    /\ f \in [0 .. N -> S]
    /\ f[0] = z
    /\ \A n \in 1 .. N : f[n] = step[<<n, f[n - 1]>>]

\* A function of the numbers up to a bound can be defined by its first value and
\* by how each value follows from the one before.
LEMMA Iterates ==
    ASSUME NEW N \in Nat, NEW S, NEW z \in S, NEW step \in [(1 .. N) \X S -> S]
    PROVE  \E f : IsIteration(f, N, S, z, step)
<1>. DEFINE UpTo(f, m) == f[0] = z /\ \A n \in 1 .. m : f[n] = step[<<n, f[n - 1]>>]
            G == {m \in 0 .. N : \E f \in [0 .. m -> S] : UpTo(f, m)}
<1>1. 0 \in G
  <2>. DEFINE f == [d \in 0 .. 0 |-> z]
  <2>1. f \in [0 .. 0 -> S] /\ UpTo(f, 0)
    OBVIOUS
  <2>2. 0 \in 0 .. N
    OBVIOUS
  <2>. HIDE DEF f, UpTo
  <2>. QED  BY <2>1, <2>2
<1>2. ASSUME NEW m \in 1 .. N, m - 1 \in G PROVE m \in G
  <2>1. PICK f \in [0 .. m - 1 -> S] : UpTo(f, m - 1)
    BY <1>2
  <2>. DEFINE g == [d \in 0 .. m |-> IF d = m THEN step[<<m, f[m - 1]>>] ELSE f[d]]
  <2>2. step[<<m, f[m - 1]>>] \in S
    OBVIOUS
  <2>3. g \in [0 .. m -> S]
    BY <2>2
  <2>4. g[0] = z
    BY <2>1
  <2>5. ASSUME NEW n \in 1 .. m PROVE g[n] = step[<<n, g[n - 1]>>]
    <3>1. n - 1 \in 0 .. m /\ n - 1 # m /\ g[n - 1] = f[n - 1]
        OBVIOUS
    <3>2. CASE n = m
        BY <3>1, <3>2
    <3>3. CASE n # m
      <4>1. n \in 1 .. m - 1 /\ g[n] = f[n]
        BY <3>3
      <4>. QED  BY <2>1, <3>1, <4>1
    <3>. QED  BY <3>2, <3>3
  <2>. HIDE DEF g
  <2>6. UpTo(g, m)
    BY <2>4, <2>5
  <2>. HIDE DEF UpTo
  <2>. QED  BY <2>3, <2>6
<1>3. 0 .. N \subseteq G
  <2>. HIDE DEF G
  <2>. QED  BY <1>1, <1>2, SetInduction
<1>4. \E f \in [0 .. N -> S] : UpTo(f, N)
    BY <1>3
<1>. QED  BY <1>4 DEF IsIteration

\* f starts empty and grows, day by day, by what the day's log holds of thread h.
IsHistory(f, lg, h) ==
    /\ f \in [0 .. MaxDay -> Seq(Turns)]
    /\ f[0] = <<>>
    /\ \A n \in 1 .. MaxDay : f[n] = f[n - 1] \o lg[n][h]

\* The history of a thread is the last value of such a function.
LEMMA ThreadHistoryIs ==
    ASSUME NEW lg \in [Days -> [Chats -> Seq(Turns)]], NEW h \in Threads
    PROVE  \E f : IsHistory(f, lg, h) /\ ThreadHistory(lg, h) = f[MaxDay]
<1>. DEFINE Body(f) == [d \in 0 .. MaxDay |-> IF d = 0 THEN <<>> ELSE f[d - 1] \o lg[d][h]]
            upTo == CHOOSE f : f = Body(f)
            step == [q \in (1 .. MaxDay) \X Seq(Turns) |-> q[2] \o lg[q[1]][h]]
<1>1. MaxDay \in Nat /\ <<>> \in Seq(Turns) /\ \A d \in 1 .. MaxDay : lg[d][h] \in Seq(Turns)
    BY NumbersAssumption, EmptySeq DEF Days, Chats
<1>2. step \in [(1 .. MaxDay) \X Seq(Turns) -> Seq(Turns)]
    BY <1>1, ConcatProperties
<1>3. PICK f \in [0 .. MaxDay -> Seq(Turns)] :
            f[0] = <<>> /\ \A n \in 1 .. MaxDay : f[n] = step[<<n, f[n - 1]>>]
  <2>. DEFINE S == Seq(Turns)
              z == <<>>
  <2>1. MaxDay \in Nat /\ z \in S /\ step \in [(1 .. MaxDay) \X S -> S]
    BY <1>1, <1>2
  <2>. HIDE DEF step, S, z
  <2>2. \E f : IsIteration(f, MaxDay, S, z, step)
    BY <2>1, Iterates
  <2>. QED  BY <2>2 DEF S, z, IsIteration
<1>4. ASSUME NEW n \in 1 .. MaxDay PROVE f[n] = f[n - 1] \o lg[n][h]
  <2>1. <<n, f[n - 1]>> \in (1 .. MaxDay) \X Seq(Turns)
    BY <1>1
  <2>. QED  BY <1>3, <2>1
<1>5. f = Body(f)
  <2>1. ASSUME NEW d \in 0 .. MaxDay
        PROVE  f[d] = IF d = 0 THEN <<>> ELSE f[d - 1] \o lg[d][h]
    <3>1. d = 0 \/ (d \in 1 .. MaxDay /\ d # 0)
        BY <1>1
    <3>2. f[0] = <<>>
        BY <1>3
    <3>. QED  BY <1>4, <3>1, <3>2, Zenon
  <2>. QED  BY <2>1
<1>6. upTo = Body(upTo)
    BY <1>5
<1>7. ThreadHistory(lg, h) = upTo[MaxDay]
    BY DEF ThreadHistory
<1>. HIDE DEF upTo, step
<1>8. upTo[0] = <<>> /\ \A n \in 1 .. MaxDay : upTo[n] = upTo[n - 1] \o lg[n][h]
  <2>1. ASSUME NEW d \in 0 .. MaxDay
        PROVE  upTo[d] = Body(upTo)[d]
    BY <1>6
  <2>2. \A d \in 0 .. MaxDay : upTo[d] = IF d = 0 THEN <<>> ELSE upTo[d - 1] \o lg[d][h]
    BY <2>1
  <2>3. 0 \in 0 .. MaxDay /\ \A n \in 1 .. MaxDay : n \in 0 .. MaxDay /\ n # 0
    BY <1>1
  <2>. QED  BY <2>2, <2>3, Zenon
<1>9. \A d \in 0 .. MaxDay : upTo[d] = f[d]
  <2>. DEFINE G == {d \in 0 .. MaxDay : upTo[d] = f[d]}
  <2>1. 0 \in G
    BY <1>1, <1>3, <1>8
  <2>2. ASSUME NEW n \in 1 .. MaxDay, n - 1 \in G PROVE n \in G
    <3>1. upTo[n - 1] = f[n - 1]
        BY <2>2
    <3>2. upTo[n] = f[n]
        BY <1>4, <1>8, <3>1, Zenon
    <3>3. n \in 0 .. MaxDay
        BY <1>1
    <3>. QED  BY <3>2, <3>3
  <2>3. 0 .. MaxDay \subseteq G
    <3>. HIDE DEF G
    <3>. QED  BY <1>1, <2>1, <2>2, SetInduction
  <2>. QED  BY <2>3
<1>10. ThreadHistory(lg, h) = f[MaxDay]
    BY <1>1, <1>7, <1>9
<1>. QED  BY <1>3, <1>4, <1>10 DEF IsHistory

\* It is a sequence of turns.
LEMMA ThreadHistoryType ==
    ASSUME NEW lg \in [Days -> [Chats -> Seq(Turns)]], NEW h \in Threads
    PROVE  ThreadHistory(lg, h) \in Seq(Turns)
<1>1. MaxDay \in 0 .. MaxDay
    BY NumbersAssumption
<1>2. PICK f : IsHistory(f, lg, h) /\ ThreadHistory(lg, h) = f[MaxDay]
    BY ThreadHistoryIs
<1>. QED  BY <1>1, <1>2 DEF IsHistory

\* So is the list it has in RAM, or gets from the logs on first access.
LEMMA ThreadContextType ==
    ASSUME TypeOK, NEW h \in Threads
    PROVE  ThreadContext(h) \in Seq(Turns)
BY ThreadHistoryType DEF ThreadContext, TypeOK

\* Caching a sequence of turns keeps the type of the cache.
LEMMA CacheThreadType ==
    ASSUME TypeOK, NEW h \in Threads, NEW s \in Seq(Turns), threadContexts' = CacheThread(h, s)
    PROVE  /\ DOMAIN threadContexts' \in SUBSET Threads
           /\ \A g \in DOMAIN threadContexts' : threadContexts'[g] \in Seq(Turns)
BY DEF CacheThread, TypeOK

-----------------------------------------------------------------------------
(* Type correctness *)

\* A message sequence of a fresh turn is empty.
LEMMA NewTurnType == NewTurn \in TurnRecords
<1>1. <<>> \in Seq(Messages)
    BY EmptySeq
<1>2. Main \in Chats /\ 0 \in 0 .. MaxRounds + 1
    BY NumbersAssumption DEF Chats
<1>. QED  BY <1>1, <1>2 DEF NewTurn, TurnRecords

\* Writing an entry keeps the logs' type.
LEMMA WriteLogType ==
    ASSUME log \in [Days -> [Chats -> Seq(Turns)]], NEW t \in Turns, NEW c \in Chats,
           currentDate \in Days, WriteLog(t, c)
    PROVE  log' \in [Days -> [Chats -> Seq(Turns)]]
<1>1. Append(log[currentDate][c], t) \in Seq(Turns)
    BY AppendProperties
<1>. QED  BY <1>1 DEF WriteLog

\* A turn that is lost is a turn.
LEMMA LostType ==
    ASSUME NEW w \in TurnRecords
    PROVE  [w EXCEPT !.pc = "lost", !.prompt = <<>>] \in TurnRecords
<1>1. <<>> \in Seq(Messages)
    BY EmptySeq
<1>. QED  BY <1>1, Zenon DEF TurnRecords

\* So is one that starts a thread.
LEMMA SeededType ==
    ASSUME NEW w \in TurnRecords, NEW h \in Chats
    PROVE  [w EXCEPT !.pc = "done", !.chat = h] \in TurnRecords
    BY Zenon DEF TurnRecords

\* Recording a turn's exchange keeps the types.
LEMMA PersistType ==
    ASSUME TypeOK, NEW t \in Turns, Persist(t)
    PROVE  TypeOK'
<1>. USE DEF TypeOK
<1>1. turn' \in [Turns -> TurnRecords] /\ turn[t].chat \in Chats
  <2>1. <<>> \in Seq(Messages)
    BY EmptySeq
  <2>2. turn[t] \in TurnRecords
    OBVIOUS
  <2>3. [turn[t] EXCEPT !.pc = "done", !.prompt = <<>>] \in TurnRecords
    BY <2>1, <2>2 DEF TurnRecords
  <2>. QED  BY <2>2, <2>3 DEF Persist, TurnRecords
<1>2. t \in Entries /\ currentDate \in Days
    BY NumbersAssumption DEF Entries, Days
<1>3. CASE turn[t].chat = Main
  <2>1. AppendExchange(t)
    BY <1>3 DEF Persist
  <2>2. exchanges' \in Seq(Entries)
    BY <1>2, <2>1, AppendProperties DEF AppendExchange
  <2>4. timeline' \in Seq(Turns)
    BY <2>1, AppendProperties DEF AppendExchange
  <2>5. dailyHistory' \in Seq(Turns)
    <3>1. Append(dailyHistory, t) \in Seq(Turns)
        BY AppendProperties
    <3>. QED  BY <2>1, <3>1 DEF AppendExchange
  <2>6. hidden' \in SUBSET Turns /\ midSummary' \in SUBSET Turns /\ exchangeCount' \in Nat
        /\ threadContexts' = threadContexts
    BY <2>1 DEF AppendExchange
  <2>3. log' \in [Days -> [Chats -> Seq(Turns)]]
    BY <1>1, <1>2, <1>3, <2>1, WriteLogType DEF AppendExchange
  <2>. QED  BY <1>1, <2>2, <2>3, <2>4, <2>5, <2>6 DEF Persist, bounds
<1>4. CASE turn[t].chat # Main
  <2>1. AppendThreadExchange(t, turn[t].chat) /\ turn[t].chat \in Threads
    BY <1>1, <1>4 DEF Persist, Chats
  <2>2. log' \in [Days -> [Chats -> Seq(Turns)]]
    BY <1>1, <1>2, <2>1, WriteLogType DEF AppendThreadExchange
  <2>3. /\ DOMAIN threadContexts' \in SUBSET Threads
        /\ \A g \in DOMAIN threadContexts' : threadContexts'[g] \in Seq(Turns)
    <3>1. Append(ThreadContext(turn[t].chat), t) \in Seq(Turns)
        BY <2>1, ThreadContextType, AppendProperties
    <3>2. threadContexts' = CacheThread(turn[t].chat, Append(ThreadContext(turn[t].chat), t))
        BY <2>1 DEF AppendThreadExchange
    <3>. QED  BY <2>1, <3>1, <3>2, CacheThreadType
  <2>. QED  BY <1>1, <2>1, <2>2, <2>3 DEF Persist, AppendThreadExchange, bounds
<1>. QED  BY <1>3, <1>4

\* So does giving a turn up.
LEMMA AbandonType ==
    ASSUME TypeOK, NEW t \in Turns, Abandon(t)
    PROVE  TypeOK'
<1>. USE DEF TypeOK
<1>2. [turn[t] EXCEPT !.pc = "lost", !.prompt = <<>>] \in TurnRecords
    BY LostType
<1>3. turn' \in [Turns -> TurnRecords]
    BY <1>2 DEF Abandon
<1>. QED  BY <1>3 DEF Abandon, session, disk, bounds, history

\* And loading a session from well-typed files.
LEMMA LoadSessionType ==
    ASSUME TypeOK, NEW lg \in [Days -> [Chats -> Seq(Turns)]], NEW sf \in SUBSET Turns,
           LoadSession(lg, sf)
    PROVE  TypeOK'
<1>. USE DEF TypeOK
<1>1. lg[today][Main] \in Seq(Turns)
    BY DEF Chats
<1>2. lg[today][Main] \in Seq(Entries) /\ Len(lg[today][Main]) \in Nat
    BY <1>1, SeqMonotonic, LenProperties DEF Entries
<1>3. turn' \in [Turns -> TurnRecords]
  <2>2. \A t \in Turns : [turn[t] EXCEPT !.pc = "lost", !.prompt = <<>>] \in TurnRecords
    BY LostType
  <2>. QED  BY <2>2 DEF LoadSession
<1>4. today \in 1 .. today /\ restarts' \in 0 .. MaxRestarts
  <2>1. today \in 1 .. today
    BY NumbersAssumption DEF Days
  <2>2. restarts' \in 0 .. MaxRestarts
    <3>1. MaxRestarts \in Nat
        BY NumbersAssumption
    <3>2. restarts < MaxRestarts /\ restarts' = restarts + 1
        BY DEF LoadSession
    <3>. QED  BY <3>1, <3>2
  <2>. QED  BY <2>1, <2>2
<1>5. summarizer' \in [pc : {"idle", "llm"}, covers : SUBSET Turns]
    BY DEF LoadSession, NoSummary
<1>6. /\ private' \in SUBSET Chats /\ DOMAIN threadContexts' \in SUBSET Threads
      /\ \A h \in DOMAIN threadContexts' : threadContexts'[h] \in Seq(Turns)
    BY DEF LoadSession, Chats
<1>. QED  BY <1>1, <1>2, <1>3, <1>4, <1>5, <1>6 DEF LoadSession

\* The emptied day of a torn write is still a log.
LEMMA TornLogType ==
    ASSUME log \in [Days -> [Chats -> Seq(Turns)]]
    PROVE  [log EXCEPT ![currentDate] = [c \in Chats |-> <<>>]] \in [Days -> [Chats -> Seq(Turns)]]
<1>1. [c \in Chats |-> <<>>] \in [Chats -> Seq(Turns)]
    BY EmptySeq
<1>. QED  BY <1>1

\* The initial state is well typed.
LEMMA InitType == Init => TypeOK
<1>. SUFFICES ASSUME Init PROVE TypeOK
    OBVIOUS
<1>1. <<>> \in Seq(Entries) /\ <<>> \in Seq(Turns)
    BY EmptySeq
<1>2. log \in [Days -> [Chats -> Seq(Turns)]]
    BY <1>1 DEF Init, EmptyLog
<1>3. turn \in [Turns -> TurnRecords]
    BY NewTurnType DEF Init
<1>4. 1 \in Days /\ 0 \in 0 .. MaxToggles /\ 0 \in 0 .. MaxNotes /\ 0 \in 0 .. MaxRestarts
      /\ 0 \in 0 .. MaxTools
    BY NumbersAssumption DEF Days
<1>. QED  BY <1>1, <1>2, <1>3, <1>4 DEF Init, TypeOK, NoSummary

\* Every step keeps the types.
LEMMA NextType == TypeOK /\ [Next]_vars => TypeOK'
<1>. SUFFICES ASSUME TypeOK, [Next]_vars PROVE TypeOK'
    OBVIOUS
<1>1. ASSUME NEW t \in Turns, NEW c \in Chats, NEW streamed \in BOOLEAN, Send(t, c, streamed)
      PROVE  TypeOK'
  <2>. DEFINE past == IF c = Main THEN exchanges ELSE ThreadContext(c)
  <2>1. Append(Replay(past), Human(t)) \in Seq(Messages)
    <3>1. Human(t) \in Messages
        BY DEF Human, Messages, Entries
    <3>2. past \in Seq(Entries)
      <4>1. CASE c = Main
        BY <4>1 DEF TypeOK
      <4>2. CASE c # Main
        <5>1. ThreadContext(c) \in Seq(Turns)
            BY <4>2, ThreadContextType DEF Chats
        <5>. QED  BY <4>2, <5>1, SeqMonotonic DEF Entries
      <4>. QED  BY <4>1, <4>2
    <3>3. Replay(past) \in Seq(Messages)
        BY <3>2, ReplayType
    <3>. QED  BY <3>1, <3>3, AppendProperties
  <2>2. [NewTurn EXCEPT !.pc = "prepare", !.chat = c, !.streamed = streamed,
                        !.prompt = Append(Replay(past), Human(t))] \in TurnRecords
    BY <2>1, NewTurnType DEF TurnRecords
  <2>3. turn' \in [Turns -> TurnRecords]
    BY <1>1, <2>2 DEF Send, TypeOK
  <2>4. /\ DOMAIN threadContexts' \in SUBSET Threads
        /\ \A g \in DOMAIN threadContexts' : threadContexts'[g] \in Seq(Turns)
    <3>1. CASE c = Main
        BY <1>1, <3>1 DEF Send, TypeOK
    <3>2. CASE c # Main
      <4>1. ThreadContext(c) \in Seq(Turns) /\ c \in Threads
        BY <3>2, ThreadContextType DEF Chats
      <4>2. threadContexts' = CacheThread(c, ThreadContext(c))
        BY <1>1, <3>2 DEF Send
      <4>. QED  BY <4>1, <4>2, CacheThreadType
    <3>. QED  BY <3>1, <3>2
  <2>. QED  BY <1>1, <2>3, <2>4 DEF Send, TypeOK, disk, bounds, history
<1>2. ASSUME NEW t \in Turns, Prepare(t) PROVE TypeOK'
  <2>. DEFINE p == turn[t].prompt
              h == HumansIn(Dropped(p))
              n == IF h < Len(exchanges) THEN h ELSE Len(exchanges)
  <2>1. p \in Seq(Messages) /\ turn[t] \in TurnRecords
    BY DEF TypeOK, TurnRecords
  <2>2. Dropped(p) \in Seq(Messages) /\ Compressed(p) \in Seq(Messages)
    BY <2>1, CompressedType
  <2>3. n \in 0 .. Len(exchanges)
    BY <2>2, HumansInType, LenProperties DEF TypeOK
  <2>4. turn' \in [Turns -> TurnRecords]
    <3>1. \A b \in BOOLEAN : [turn[t] EXCEPT !.pc = "llm", !.prompt = IF b THEN Compressed(p) ELSE @]
                                \in TurnRecords
        BY <2>1, <2>2 DEF TurnRecords
    <3>. QED  BY <1>2, <3>1 DEF Prepare, TypeOK
  <2>5. Condense(n) \in Seq(Entries)
    <3>1. SubSeq(exchanges, n + 1, Len(exchanges)) \in Seq(Entries)
        BY <2>3, SuffixType DEF TypeOK
    <3>2. <<Marker>> \in Seq(Entries)
        BY DEF Entries
    <3>. QED  BY <3>1, <3>2, ConcatProperties DEF Condense
  <2>6. exchanges' = exchanges \/ exchanges' = Condense(n)
    BY <1>2 DEF Prepare
  <2>7. compressedAway' \in SUBSET Turns
    BY <1>2 DEF Prepare, TypeOK
  <2>. QED  BY <1>2, <2>4, <2>5, <2>6, <2>7 DEF Prepare, TypeOK, disk, bounds
<1>3. ASSUME NEW t \in Turns, NEW said \in BOOLEAN, ToolRound(t, said) PROVE TypeOK'
  <2>1. turn[t] \in TurnRecords /\ turn[t].prompt \in Seq(Messages)
        /\ turn[t].rounds \in 0 .. MaxRounds + 1
    BY DEF TypeOK, TurnRecords
  <2>2. turn[t].prompt \o <<AI(t), Tool(t)>> \in Seq(Messages)
    <3>1. <<AI(t), Tool(t)>> \in Seq(Messages)
        BY DEF AI, Tool, Messages, Entries
    <3>. QED  BY <2>1, <3>1, ConcatProperties
  <2>3. turn[t].rounds + 1 \in 0 .. MaxRounds + 1 /\ toolUses' \in 0 .. MaxTools
    <3>1. turn[t].rounds < MaxRounds /\ MaxRounds \in Nat
        BY <1>3, NumbersAssumption DEF ToolRound, RoundLeft
    <3>2. toolUses < MaxTools /\ toolUses' = toolUses + 1 /\ MaxTools \in Nat
        BY <1>3, NumbersAssumption DEF ToolRound
    <3>3. toolUses \in 0 .. MaxTools
        BY DEF TypeOK
    <3>. QED  BY <2>1, <3>1, <3>2, <3>3
  <2>4. \A b \in BOOLEAN :
          [turn[t] EXCEPT !.pc = "prepare", !.rounds = @ + 1, !.partial = IF b THEN said ELSE @,
                          !.prompt = @ \o <<AI(t), Tool(t)>>] \in TurnRecords
    BY <2>1, <2>2, <2>3 DEF TurnRecords
  <2>5. turn' \in [Turns -> TurnRecords]
    BY <1>3, <2>4 DEF ToolRound, TypeOK
  <2>. QED  BY <1>3, <2>3, <2>5 DEF ToolRound, TypeOK, session, disk, history
<1>18. ASSUME NEW t \in Turns, LastRound(t) PROVE TypeOK'
  <2>1. turn[t] \in TurnRecords /\ turn[t].prompt \in Seq(Messages)
    BY DEF TypeOK, TurnRecords
  <2>2. <<AI(t), Tool(t), Human(t)>> \in Seq(Messages) /\ <<Human(t)>> \in Seq(Messages)
    BY DEF AI, Tool, Human, Messages, Entries
  <2>3. \A b \in BOOLEAN :
          turn[t].prompt \o (IF b THEN <<AI(t), Tool(t), Human(t)>> ELSE <<Human(t)>>) \in Seq(Messages)
    BY <2>1, <2>2, ConcatProperties
  <2>4. turn[t].rounds + 1 \in 0 .. MaxRounds + 1
    BY <1>18, NumbersAssumption DEF LastRound
  <2>5. \A b \in BOOLEAN :
          [turn[t] EXCEPT !.pc = "prepare", !.rounds = @ + 1,
                          !.prompt = @ \o (IF b THEN <<AI(t), Tool(t), Human(t)>>
                                           ELSE <<Human(t)>>)] \in TurnRecords
    BY <2>1, <2>3, <2>4 DEF TurnRecords
  <2>6. turn[t].streamed \in BOOLEAN
    BY <2>1 DEF TurnRecords
  <2>7. turn' \in [Turns -> TurnRecords]
    BY <1>18, <2>5, <2>6 DEF LastRound, TypeOK
  <2>. QED  BY <1>18, <2>7 DEF LastRound, TypeOK, session, disk, bounds, history
<1>4. ASSUME NEW t \in Turns, Answer(t) PROVE TypeOK'
    BY <1>4, PersistType DEF Answer
<1>5. ASSUME NEW t \in Turns, Fail(t) PROVE TypeOK'
    BY <1>5, AbandonType DEF Fail
<1>6. ASSUME NEW t \in Turns, Cancel(t) PROVE TypeOK'
    BY <1>6, PersistType, AbandonType DEF Cancel
<1>7. ASSUME NEW t \in Turns, NEW h \in Threads, Seed(t, h) PROVE TypeOK'
  <2>1. [turn[t] EXCEPT !.pc = "done", !.chat = h] \in TurnRecords
    BY SeededType DEF TypeOK, Chats
  <2>2. turn' \in [Turns -> TurnRecords]
    BY <1>7, <2>1 DEF Seed, TypeOK
  <2>3. h \in Chats /\ currentDate \in Days
    BY NumbersAssumption DEF TypeOK, Chats, Days
  <2>4. log' \in [Days -> [Chats -> Seq(Turns)]]
    BY <1>7, <2>3, WriteLogType DEF Seed, TypeOK
  <2>. QED  BY <1>7, <2>2, <2>4 DEF Seed, TypeOK, session, bounds, history
<1>8. ASSUME NEW t \in Turns, TornDailyWrite(t) PROVE TypeOK'
    BY <1>8, TornLogType, LoadSessionType DEF TornDailyWrite, TypeOK
<1>9. ASSUME NEW c \in Chats, TogglePrivate(c) PROVE TypeOK'
  <2>1. toggles' \in 0 .. MaxToggles
    <3>1. MaxToggles \in Nat
        BY NumbersAssumption
    <3>2. toggles < MaxToggles /\ toggles' = toggles + 1
        BY <1>9 DEF TogglePrivate
    <3>. QED  BY <3>1, <3>2 DEF TypeOK
  <2>2. private' \in SUBSET Chats /\ privateMarkers' \in SUBSET Chats
    BY <1>9 DEF TogglePrivate, TypeOK
  <2>. QED  BY <1>9, <2>1, <2>2 DEF TogglePrivate, TypeOK, actors, history
<1>10. ASSUME ModelCommand PROVE TypeOK'
  <2>1. notes' \in 0 .. MaxNotes
    <3>1. MaxNotes \in Nat
        BY NumbersAssumption
    <3>2. notes < MaxNotes /\ notes' = notes + 1
        BY <1>10 DEF ModelCommand
    <3>. QED  BY <3>1, <3>2 DEF TypeOK
  <2>2. exchanges' \in Seq(Entries)
    <3>1. Note \in Entries
        BY DEF Entries
    <3>. QED  BY <1>10, <3>1, AppendProperties DEF ModelCommand, TypeOK
  <2>. QED  BY <1>10, <2>1, <2>2 DEF ModelCommand, TypeOK, disk, actors, history
<1>11. ASSUME SummarizeStart PROVE TypeOK'
  <2>1. SummaryPrompt \in SUBSET Turns
    BY ToSetInRange DEF TypeOK, SummaryPrompt
  <2>. QED  BY <1>11, <2>1 DEF SummarizeStart, TypeOK, session, disk, bounds, history
<1>12. ASSUME SummarizeDone PROVE TypeOK'
  <2>1. Kept \in Seq(Entries)
    BY LastOfType, NumbersAssumption DEF Kept, TypeOK
  <2>2. CountAfterSummary \in Nat
    BY <2>1, LenProperties DEF CountAfterSummary
  <2>3. <<>> \in Seq(Turns)
    BY EmptySeq
  <2>. QED  BY <1>12, <2>1, <2>2, <2>3 DEF SummarizeDone, TypeOK, NoSummary, bounds, history
<1>13. ASSUME SummarizeFail PROVE TypeOK'
    BY <1>13 DEF SummarizeFail, TypeOK, NoSummary, session, disk, bounds
<1>14. ASSUME Restart PROVE TypeOK'
    BY <1>14, LoadSessionType DEF Restart, TypeOK
<1>15. ASSUME TornSummaryWrite PROVE TypeOK'
    BY <1>15, LoadSessionType DEF TornSummaryWrite, TypeOK
<1>16. ASSUME Midnight PROVE TypeOK'
  <2>1. today' \in Days /\ currentDate' \in 1 .. today'
    <3>1. MaxDay \in Nat
        BY NumbersAssumption
    <3>2. today \in 1 .. MaxDay /\ currentDate \in 1 .. today
        BY DEF TypeOK, Days
    <3>3. today < MaxDay /\ today' = today + 1 /\ currentDate' = currentDate
        BY <1>16 DEF Midnight, session
    <3>4. today' \in 1 .. MaxDay /\ currentDate' \in 1 .. today'
        BY <3>1, <3>2, <3>3
    <3>. QED  BY <3>4 DEF Days
  <2>. QED  BY <1>16, <2>1 DEF Midnight, TypeOK, session, disk, bounds, history
<1>17. CASE UNCHANGED vars
    BY <1>17 DEF vars, session, disk, actors, bounds, history, TypeOK
<1>. QED  BY <1>1, <1>2, <1>3, <1>4, <1>5, <1>6, <1>7, <1>8, <1>9, <1>10, <1>11, <1>12, <1>13,
             <1>14, <1>15, <1>16, <1>17, <1>18 DEF Next, TurnStep

\* The type invariant of the session, its files and its coroutines holds in every
\* reachable state.
THEOREM TypeCorrect == Spec => []TypeOK
<1>. QED  BY InitType, NextType, PTL DEF Spec

-----------------------------------------------------------------------------
(* Private exchanges *)

\* Everything that has left the chat's own RAM list.
Persisted == Logged \cup ToSet(dailyHistory) \cup summary \cup summaryFile
                \cup summarizer.covers

Recorded == {t \in Turns : turn[t].pc = "done"}

\* What is recorded, privately or not, belongs to a finished turn, so that a turn
\* that is about to be recorded is in neither set.
PrivacyInv == hidden \subseteq Recorded /\ Persisted \subseteq Recorded /\ PrivateStaysInRAM

\* The session's date is a day of the calendar.
LEMMA SessionDay ==
    ASSUME TypeOK
    PROVE  currentDate \in Days
<1>1. today \in Days /\ currentDate \in 1 .. today
    BY DEF TypeOK
<1>. QED  BY <1>1, NumbersAssumption DEF Days

\* A log entry adds one exchange to what is logged.
LEMMA WriteLogLogged ==
    ASSUME TypeOK, NEW t \in Turns, NEW c \in Chats, WriteLog(t, c)
    PROVE  Logged' \subseteq Logged \cup {t}
<1>1. currentDate \in Days
    BY SessionDay
<1>2. ASSUME NEW d \in Days, NEW e \in Chats
      PROVE  ToSet(log'[d][e]) \subseteq ToSet(log[d][e]) \cup {t}
  <2>1. log[d][e] \in Seq(Turns)
    BY DEF TypeOK
  <2>2. log'[d][e] = log[d][e] \/ log'[d][e] = Append(log[d][e], t)
    BY <1>1 DEF WriteLog, TypeOK
  <2>3. ToSet(Append(log[d][e], t)) = ToSet(log[d][e]) \cup {t}
    BY <2>1, ToSetAppend
  <2>4. CASE log'[d][e] = log[d][e]
    BY <2>4
  <2>5. CASE log'[d][e] = Append(log[d][e], t)
    BY <2>3, <2>5
  <2>. QED  BY <2>2, <2>4, <2>5
<1>3. ASSUME NEW x \in Logged' PROVE x \in Logged \cup {t}
  <2>1. PICK d \in Days, e \in Chats : x \in ToSet(log'[d][e])
    BY <1>3 DEF Logged
  <2>. QED  BY <1>2, <2>1 DEF Logged
<1>. QED  BY <1>3

\* A step that records nothing and persists nothing new keeps the invariant.
LEMMA QuietPrivacy ==
    ASSUME PrivacyInv, hidden' = hidden, Persisted' \subseteq Persisted, Recorded \subseteq Recorded'
    PROVE  PrivacyInv'
<1>1. PrivateStaysInRAM <=> hidden \cap Persisted = {}
    BY DEF PrivateStaysInRAM, Persisted
<1>2. PrivateStaysInRAM' <=> hidden' \cap Persisted' = {}
    BY DEF PrivateStaysInRAM, Persisted
<1>. QED  BY <1>1, <1>2 DEF PrivacyInv

\* Recording a turn puts it in one of the two sets, in which it was not.
LEMMA RecordPrivacy ==
    ASSUME PrivacyInv, NEW t \in Turns, t \notin Recorded, t \in Recorded',
           Recorded \subseteq Recorded',
           \/ hidden' = hidden \cup {t} /\ Persisted' \subseteq Persisted
           \/ hidden' = hidden /\ Persisted' \subseteq Persisted \cup {t}
    PROVE  PrivacyInv'
<1>1. PrivateStaysInRAM <=> hidden \cap Persisted = {}
    BY DEF PrivateStaysInRAM, Persisted
<1>2. PrivateStaysInRAM' <=> hidden' \cap Persisted' = {}
    BY DEF PrivateStaysInRAM, Persisted
<1>. QED  BY <1>1, <1>2 DEF PrivacyInv

\* The end of a turn keeps the invariant.
LEMMA PersistPrivacy ==
    ASSUME TypeOK, PrivacyInv, NEW t \in Turns, InFlight(t), Persist(t)
    PROVE  PrivacyInv'
<1>1. t \notin Recorded /\ t \in Recorded' /\ Recorded \subseteq Recorded'
    BY DEF Recorded, InFlight, Persist, TypeOK
<1>2. turn[t].chat \in Chats
    BY DEF TypeOK, TurnRecords
<1>3. UNCHANGED <<summary, summaryFile, summarizer>>
    BY DEF Persist
<1>4. CASE turn[t].chat = Main
  <2>1. AppendExchange(t)
    BY <1>4 DEF Persist
  <2>2. CASE Main \in private
    <3>1. hidden' = hidden \cup {t} /\ UNCHANGED <<dailyHistory, log>>
        BY <2>1, <2>2 DEF AppendExchange
    <3>2. Persisted' = Persisted
        BY <1>3, <3>1 DEF Persisted, Logged
    <3>. QED  BY <1>1, <3>1, <3>2, RecordPrivacy
  <2>3. CASE Main \notin private
    <3>1. hidden' = hidden /\ dailyHistory' = Append(dailyHistory, t) /\ WriteLog(t, Main)
        BY <2>1, <2>3 DEF AppendExchange
    <3>2. Logged' \subseteq Logged \cup {t}
        BY <1>2, <1>4, <3>1, WriteLogLogged
    <3>3. ToSet(dailyHistory') = ToSet(dailyHistory) \cup {t}
        BY <3>1, ToSetAppend DEF TypeOK
    <3>4. Persisted' \subseteq Persisted \cup {t}
        BY <1>3, <3>2, <3>3 DEF Persisted
    <3>. QED  BY <1>1, <3>1, <3>4, RecordPrivacy
  <2>. QED  BY <2>2, <2>3
<1>5. CASE turn[t].chat # Main
  <2>. DEFINE h == turn[t].chat
  <2>1. AppendThreadExchange(t, h)
    BY <1>5 DEF Persist
  <2>2. CASE h \in private
    <3>1. hidden' = hidden \cup {t} /\ UNCHANGED <<dailyHistory, log>>
        BY <2>1, <2>2 DEF AppendThreadExchange
    <3>2. Persisted' = Persisted
        BY <1>3, <3>1 DEF Persisted, Logged
    <3>. QED  BY <1>1, <3>1, <3>2, RecordPrivacy
  <2>3. CASE h \notin private
    <3>1. hidden' = hidden /\ dailyHistory' = dailyHistory /\ WriteLog(t, h)
        BY <2>1, <2>3 DEF AppendThreadExchange
    <3>2. Logged' \subseteq Logged \cup {t}
        BY <1>2, <3>1, WriteLogLogged
    <3>3. Persisted' \subseteq Persisted \cup {t}
        BY <1>3, <3>1, <3>2 DEF Persisted
    <3>. QED  BY <1>1, <3>1, <3>3, RecordPrivacy
  <2>. QED  BY <2>2, <2>3
<1>. QED  BY <1>4, <1>5

\* Giving a turn up keeps it: the turn was not recorded.
LEMMA AbandonPrivacy ==
    ASSUME TypeOK, PrivacyInv, NEW t \in Turns, InFlight(t), Abandon(t)
    PROVE  PrivacyInv'
<1>1. Recorded \subseteq Recorded'
    BY DEF Recorded, InFlight, Abandon, TypeOK
<1>2. hidden' = hidden /\ Persisted' = Persisted
    BY DEF Abandon, session, disk, history, Persisted, Logged
<1>. QED  BY <1>1, <1>2, QuietPrivacy

\* So does loading a session from a part of what the disk held.
LEMMA LoadSessionPrivacy ==
    ASSUME TypeOK, PrivacyInv, NEW lg \in [Days -> [Chats -> Seq(Turns)]], NEW sf,
           LoadSession(lg, sf), sf \subseteq summaryFile,
           \A d \in Days, c \in Chats : ToSet(lg[d][c]) \subseteq ToSet(log[d][c])
    PROVE  PrivacyInv'
<1>1. Recorded \subseteq Recorded'
    BY DEF Recorded, InFlight, LoadSession, TypeOK
<1>2. hidden' = hidden
    BY DEF LoadSession
<1>3. Logged' \subseteq Logged
  <2>. log' = lg
    BY DEF LoadSession
  <2>1. ASSUME NEW x \in Logged' PROVE x \in Logged
    <3>1. PICK d \in Days, c \in Chats : x \in ToSet(lg[d][c])
        BY <2>1 DEF Logged
    <3>2. ToSet(log[d][c]) \subseteq Logged
        BY DEF Logged
    <3>. QED  BY <3>1, <3>2
  <2>. QED  BY <2>1
<1>4. ToSet(dailyHistory') \subseteq Logged
  <2>1. today \in Days /\ Main \in Chats
    BY DEF TypeOK, Chats
  <2>2. dailyHistory' = lg[today][Main]
    BY DEF LoadSession
  <2>3. ToSet(lg[today][Main]) \subseteq ToSet(log[today][Main])
    BY <2>1
  <2>4. ToSet(log[today][Main]) \subseteq Logged
    BY <2>1 DEF Logged
  <2>. QED  BY <2>2, <2>3, <2>4
<1>5. summary' = sf /\ summaryFile' = sf /\ summarizer'.covers = {}
    BY DEF LoadSession, NoSummary
<1>6. Persisted' \subseteq Persisted
    BY <1>3, <1>4, <1>5 DEF Persisted
<1>. QED  BY <1>1, <1>2, <1>6, QuietPrivacy

\* The initial state satisfies the invariant.
LEMMA InitPrivacy == Init => PrivacyInv
<1>. SUFFICES ASSUME Init PROVE PrivacyInv
    OBVIOUS
<1>1. ToSet(<<>>) = {}
    BY DEF ToSet
<1>2. \A d \in Days, c \in Chats : ToSet(log[d][c]) = {}
    BY <1>1 DEF Init, EmptyLog
<1>3. Logged = {}
  <2>1. ASSUME NEW x \in Logged PROVE FALSE
    <3>1. PICK d \in Days, c \in Chats : x \in ToSet(log[d][c])
        BY <2>1 DEF Logged
    <3>. QED  BY <1>2, <3>1
  <2>. QED  BY <2>1
<1>4. Persisted = {} /\ hidden = {}
    BY <1>1, <1>3 DEF Init, Persisted, NoSummary
<1>. QED  BY <1>4 DEF PrivacyInv, PrivateStaysInRAM

\* Every step keeps it.
LEMMA NextPrivacy == TypeOK /\ PrivacyInv /\ [Next]_vars => PrivacyInv'
<1>. SUFFICES ASSUME TypeOK, PrivacyInv, [Next]_vars PROVE PrivacyInv'
    OBVIOUS
<1>1. ASSUME NEW t \in Turns, NEW c \in Chats, NEW streamed \in BOOLEAN, Send(t, c, streamed)
      PROVE  PrivacyInv'
  <2>1. Recorded \subseteq Recorded'
    BY <1>1 DEF Send, Recorded, TypeOK
  <2>2. hidden' = hidden /\ Persisted' = Persisted
    BY <1>1 DEF Send, disk, history, Persisted, Logged
  <2>. QED  BY <2>1, <2>2, QuietPrivacy
<1>2. ASSUME NEW t \in Turns, Prepare(t) PROVE PrivacyInv'
  <2>1. turn[t].pc = "prepare" /\ \A s \in Turns \ {t} : turn'[s] = turn[s]
    BY <1>2 DEF Prepare, TypeOK
  <2>2. Recorded \subseteq Recorded'
    BY <2>1 DEF Recorded
  <2>3. hidden' = hidden /\ Persisted' = Persisted
    BY <1>2 DEF Prepare, disk, Persisted, Logged
  <2>. QED  BY <2>2, <2>3, QuietPrivacy
<1>3. ASSUME NEW t \in Turns, NEW said \in BOOLEAN, ToolRound(t, said) PROVE PrivacyInv'
  <2>1. Recorded \subseteq Recorded'
    BY <1>3 DEF ToolRound, Recorded, TypeOK
  <2>2. hidden' = hidden /\ Persisted' = Persisted
    BY <1>3 DEF ToolRound, session, disk, history, Persisted, Logged
  <2>. QED  BY <2>1, <2>2, QuietPrivacy
<1>18. ASSUME NEW t \in Turns, LastRound(t) PROVE PrivacyInv'
  <2>1. Recorded \subseteq Recorded'
    BY <1>18 DEF LastRound, Recorded, TypeOK
  <2>2. hidden' = hidden /\ Persisted' = Persisted
    BY <1>18 DEF LastRound, session, disk, history, Persisted, Logged
  <2>. QED  BY <2>1, <2>2, QuietPrivacy
<1>4. ASSUME NEW t \in Turns, Answer(t) PROVE PrivacyInv'
    BY <1>4, PersistPrivacy DEF Answer, InFlight
<1>5. ASSUME NEW t \in Turns, Fail(t) PROVE PrivacyInv'
    BY <1>5, AbandonPrivacy DEF Fail, InFlight
<1>6. ASSUME NEW t \in Turns, Cancel(t) PROVE PrivacyInv'
    BY <1>6, PersistPrivacy, AbandonPrivacy DEF Cancel
<1>7. ASSUME NEW t \in Turns, NEW h \in Threads, Seed(t, h) PROVE PrivacyInv'
  <2>1. t \notin Recorded /\ t \in Recorded' /\ Recorded \subseteq Recorded'
    BY <1>7 DEF Seed, Recorded, TypeOK
  <2>2. Logged' \subseteq Logged \cup {t}
    BY <1>7, WriteLogLogged DEF Seed, Chats
  <2>3. hidden' = hidden /\ Persisted' \subseteq Persisted \cup {t}
    BY <1>7, <2>2 DEF Seed, session, history, Persisted
  <2>. QED  BY <2>1, <2>3, RecordPrivacy
<1>8. ASSUME NEW t \in Turns, TornDailyWrite(t) PROVE PrivacyInv'
  <2>. DEFINE lg == [log EXCEPT ![currentDate] = [c \in Chats |-> <<>>]]
  <2>1. lg \in [Days -> [Chats -> Seq(Turns)]]
    BY TornLogType DEF TypeOK
  <2>2. \A d \in Days, c \in Chats : ToSet(lg[d][c]) \subseteq ToSet(log[d][c])
    <3>1. ToSet(<<>>) = {}
        BY DEF ToSet
    <3>2. \A d \in Days, c \in Chats : lg[d][c] = <<>> \/ lg[d][c] = log[d][c]
        BY DEF TypeOK
    <3>. QED  BY <3>1, <3>2
  <2>. QED  BY <1>8, <2>1, <2>2, LoadSessionPrivacy DEF TornDailyWrite
<1>9. ASSUME NEW c \in Chats, TogglePrivate(c) PROVE PrivacyInv'
  <2>1. hidden' = hidden /\ Persisted' = Persisted /\ Recorded' = Recorded
    BY <1>9 DEF TogglePrivate, actors, history, Persisted, Logged, Recorded
  <2>. QED  BY <2>1, QuietPrivacy
<1>10. ASSUME ModelCommand PROVE PrivacyInv'
  <2>1. hidden' = hidden /\ Persisted' = Persisted /\ Recorded' = Recorded
    BY <1>10 DEF ModelCommand, disk, actors, history, Persisted, Logged, Recorded
  <2>. QED  BY <2>1, QuietPrivacy
<1>11. ASSUME SummarizeStart PROVE PrivacyInv'
  <2>1. summarizer'.covers = summary \cup ToSet(dailyHistory)
    BY <1>11 DEF SummarizeStart, SummaryPrompt
  <2>2. hidden' = hidden /\ Recorded' = Recorded
        /\ UNCHANGED <<log, dailyHistory, summary, summaryFile>>
    BY <1>11 DEF SummarizeStart, session, disk, history, Recorded
  <2>3. Persisted' \subseteq Persisted
    BY <2>1, <2>2 DEF Persisted, Logged
  <2>. QED  BY <2>2, <2>3, QuietPrivacy
<1>12. ASSUME SummarizeDone PROVE PrivacyInv'
  <2>1. summary' = summarizer.covers /\ summaryFile' = summarizer.covers
        /\ ToSet(dailyHistory') = {} /\ summarizer'.covers = {}
    BY <1>12 DEF SummarizeDone, NoSummary, ToSet
  <2>2. hidden' = hidden /\ Recorded' = Recorded /\ log' = log
    BY <1>12 DEF SummarizeDone, history, Recorded
  <2>3. Persisted' \subseteq Persisted
    BY <2>1, <2>2 DEF Persisted, Logged
  <2>. QED  BY <2>2, <2>3, QuietPrivacy
<1>13. ASSUME SummarizeFail PROVE PrivacyInv'
  <2>1. hidden' = hidden /\ Recorded' = Recorded /\ summarizer'.covers = {}
        /\ UNCHANGED <<log, dailyHistory, summary, summaryFile>>
    BY <1>13 DEF SummarizeFail, NoSummary, session, disk, Recorded
  <2>2. Persisted' \subseteq Persisted
    BY <2>1 DEF Persisted, Logged
  <2>. QED  BY <2>1, <2>2, QuietPrivacy
<1>14. ASSUME Restart PROVE PrivacyInv'
  <2>1. log \in [Days -> [Chats -> Seq(Turns)]]
    BY DEF TypeOK
  <2>. QED  BY <1>14, <2>1, LoadSessionPrivacy DEF Restart
<1>15. ASSUME TornSummaryWrite PROVE PrivacyInv'
  <2>1. log \in [Days -> [Chats -> Seq(Turns)]]
    BY DEF TypeOK
  <2>. QED  BY <1>15, <2>1, LoadSessionPrivacy DEF TornSummaryWrite
<1>16. ASSUME Midnight PROVE PrivacyInv'
  <2>1. hidden' = hidden /\ Persisted' = Persisted /\ Recorded' = Recorded
    BY <1>16 DEF Midnight, session, disk, history, Persisted, Logged, Recorded
  <2>. QED  BY <2>1, QuietPrivacy
<1>17. CASE UNCHANGED vars
  <2>1. hidden' = hidden /\ Persisted' = Persisted /\ Recorded' = Recorded
    BY <1>17 DEF vars, session, disk, actors, history, Persisted, Logged, Recorded
  <2>. QED  BY <2>1, QuietPrivacy
<1>. QED  BY <1>1, <1>2, <1>3, <1>4, <1>5, <1>6, <1>7, <1>8, <1>9, <1>10, <1>11, <1>12, <1>13,
             <1>14, <1>15, <1>16, <1>17, <1>18 DEF Next, TurnStep

\* An exchange recorded while its chat was private never reaches a log, the text to
\* be summarised, a summary or its file, however turns, /private commands, summaries,
\* crashes and restarts are interleaved.
THEOREM Privacy == Spec => []PrivateStaysInRAM
<1>1. PrivacyInv => PrivateStaysInRAM
    BY DEF PrivacyInv
<1>. QED  BY <1>1, InitPrivacy, NextPrivacy, TypeCorrect, PTL DEF Spec

-----------------------------------------------------------------------------
(* No exchange is forgotten between a log and the summaries *)

\* The main timeline's part of the session's log file.
MainLog == ToSet(log[currentDate][Main])

\* SummaryCoverage is not inductive: whether it survives the answer to a summary
\* request depends on what the request contained.  While one is pending, its prompt
\* and what has been recorded since cover the file.
CoverageInv ==
    /\ MainLog \subseteq ToSet(dailyHistory) \cup summary \cup midSummary
    /\ summarizer.pc = "llm" => MainLog \subseteq summarizer.covers \cup midSummary

\* Writing a main entry adds it to the file, a thread entry does not.
LEMMA WriteLogMain ==
    ASSUME TypeOK, NEW t \in Turns, NEW c \in Chats, WriteLog(t, c), currentDate' = currentDate
    PROVE  MainLog' = IF c = Main THEN MainLog \cup {t} ELSE MainLog
<1>1. currentDate \in Days /\ Main \in Chats
    BY SessionDay DEF Chats
<1>2. log[currentDate][Main] \in Seq(Turns)
    BY <1>1 DEF TypeOK
<1>3. log'[currentDate][Main] = IF c = Main THEN Append(log[currentDate][Main], t)
                                ELSE log[currentDate][Main]
    BY <1>1 DEF WriteLog, TypeOK
<1>4. ToSet(Append(log[currentDate][Main], t)) = ToSet(log[currentDate][Main]) \cup {t}
    BY <1>2, ToSetAppend
<1>5. MainLog' = ToSet(log'[currentDate][Main])
    BY DEF MainLog
<1>. QED  BY <1>3, <1>4, <1>5 DEF MainLog

\* A step that leaves the variables of the invariant alone keeps it.
LEMMA QuietCoverage ==
    ASSUME CoverageInv, UNCHANGED <<log, currentDate, dailyHistory, summary, midSummary, summarizer>>
    PROVE  CoverageInv'
BY DEF CoverageInv, MainLog

\* Recording a turn keeps it: if a request is pending the turn is marked as missed by it.
LEMMA PersistCoverage ==
    ASSUME TypeOK, CoverageInv, NEW t \in Turns, Persist(t)
    PROVE  CoverageInv'
<1>1. UNCHANGED <<summary, summarizer, currentDate>> /\ turn[t].chat \in Chats
    BY DEF Persist, TypeOK, TurnRecords
<1>2. CASE turn[t].chat = Main
  <2>1. AppendExchange(t)
    BY <1>2 DEF Persist
  <2>2. midSummary \subseteq midSummary' /\ (summarizer.pc = "llm" => t \in midSummary')
    BY <2>1 DEF AppendExchange
  <2>3. CASE Main \in private
    <3>1. UNCHANGED <<dailyHistory, log>>
        BY <2>1, <2>3 DEF AppendExchange
    <3>2. MainLog' = MainLog
        BY <1>1, <3>1 DEF MainLog
    <3>. QED  BY <1>1, <2>2, <3>1, <3>2 DEF CoverageInv
  <2>4. CASE Main \notin private
    <3>1. dailyHistory' = Append(dailyHistory, t) /\ WriteLog(t, Main)
        BY <2>1, <2>4 DEF AppendExchange
    <3>2. MainLog' = MainLog \cup {t}
        BY <1>1, <1>2, <3>1, WriteLogMain
    <3>3. ToSet(dailyHistory') = ToSet(dailyHistory) \cup {t}
        BY <3>1, ToSetAppend DEF TypeOK
    <3>. QED  BY <1>1, <2>2, <3>2, <3>3 DEF CoverageInv
  <2>. QED  BY <2>3, <2>4
<1>3. CASE turn[t].chat # Main
  <2>. DEFINE h == turn[t].chat
  <2>1. AppendThreadExchange(t, h)
    BY <1>3 DEF Persist
  <2>2. UNCHANGED <<dailyHistory, midSummary>>
    BY <2>1 DEF AppendThreadExchange
  <2>3. UNCHANGED log \/ WriteLog(t, h)
    BY <2>1 DEF AppendThreadExchange
  <2>4. MainLog' = MainLog
    <3>1. CASE UNCHANGED log
        BY <1>1, <3>1 DEF MainLog
    <3>2. CASE WriteLog(t, h)
        BY <1>1, <1>3, <3>2, WriteLogMain
    <3>. QED  BY <2>3, <3>1, <3>2
  <2>. QED  BY <1>1, <2>2, <2>4 DEF CoverageInv
<1>. QED  BY <1>2, <1>3

\* A loaded session has today's file as its history.
LEMMA LoadSessionCoverage ==
    ASSUME NEW lg, NEW sf, LoadSession(lg, sf)
    PROVE  CoverageInv'
<1>1. log' = lg /\ currentDate' = today /\ dailyHistory' = lg[today][Main]
    BY DEF LoadSession
<1>2. summarizer'.pc = "idle"
    BY DEF LoadSession, NoSummary
<1>3. MainLog' = ToSet(dailyHistory')
    BY <1>1 DEF MainLog
<1>. QED  BY <1>2, <1>3 DEF CoverageInv

\* The initial state satisfies the invariant.
LEMMA InitCoverage == Init => CoverageInv
<1>. SUFFICES ASSUME Init PROVE CoverageInv
    OBVIOUS
<1>1. log[currentDate][Main] = <<>>
    BY NumbersAssumption DEF Init, EmptyLog, Days, Chats
<1>2. MainLog = {} /\ summarizer.pc = "idle"
    BY <1>1 DEF Init, MainLog, ToSet, NoSummary
<1>. QED  BY <1>2 DEF CoverageInv

\* Every step keeps it.
LEMMA NextCoverage == TypeOK /\ CoverageInv /\ [Next]_vars => CoverageInv'
<1>. SUFFICES ASSUME TypeOK, CoverageInv, [Next]_vars PROVE CoverageInv'
    OBVIOUS
<1>1. ASSUME NEW t \in Turns, NEW c \in Chats, NEW streamed \in BOOLEAN, Send(t, c, streamed)
      PROVE  CoverageInv'
    BY <1>1, QuietCoverage DEF Send, disk, history
<1>2. ASSUME NEW t \in Turns, Prepare(t) PROVE CoverageInv'
    BY <1>2, QuietCoverage DEF Prepare, disk
<1>3. ASSUME NEW t \in Turns, NEW said \in BOOLEAN, ToolRound(t, said) PROVE CoverageInv'
    BY <1>3, QuietCoverage DEF ToolRound, session, disk, history
<1>19. ASSUME NEW t \in Turns, LastRound(t) PROVE CoverageInv'
    BY <1>19, QuietCoverage DEF LastRound, session, disk, history
<1>4. ASSUME NEW t \in Turns, Answer(t) PROVE CoverageInv'
    BY <1>4, PersistCoverage DEF Answer
<1>5. ASSUME NEW t \in Turns, Abandon(t) PROVE CoverageInv'
    BY <1>5, QuietCoverage DEF Abandon, session, disk, history
<1>6. ASSUME NEW t \in Turns, Fail(t) PROVE CoverageInv'
    BY <1>5, <1>6 DEF Fail
<1>7. ASSUME NEW t \in Turns, Cancel(t) PROVE CoverageInv'
    BY <1>5, <1>7, PersistCoverage DEF Cancel
<1>8. ASSUME NEW t \in Turns, NEW h \in Threads, Seed(t, h) PROVE CoverageInv'
  <2>1. WriteLog(t, h) /\ h \in Chats /\ h # Main
        /\ UNCHANGED <<currentDate, dailyHistory, summary, midSummary, summarizer>>
    BY <1>8, DistinctNames DEF Seed, session, history, Chats
  <2>2. MainLog' = MainLog
    BY <2>1, WriteLogMain
  <2>. QED  BY <2>1, <2>2 DEF CoverageInv
<1>9. ASSUME NEW t \in Turns, TornDailyWrite(t) PROVE CoverageInv'
    BY <1>9, LoadSessionCoverage DEF TornDailyWrite
<1>10. ASSUME NEW c \in Chats, TogglePrivate(c) PROVE CoverageInv'
    BY <1>10, QuietCoverage DEF TogglePrivate, actors, history
<1>11. ASSUME ModelCommand PROVE CoverageInv'
    BY <1>11, QuietCoverage DEF ModelCommand, disk, actors, history
<1>12. ASSUME SummarizeStart PROVE CoverageInv'
  <2>1. UNCHANGED <<log, currentDate, dailyHistory, summary, midSummary>>
        /\ summarizer'.covers = summary \cup ToSet(dailyHistory)
    BY <1>12 DEF SummarizeStart, SummaryPrompt, session, disk, history
  <2>2. MainLog' = MainLog
    BY <2>1 DEF MainLog
  <2>. QED  BY <2>1, <2>2 DEF CoverageInv
<1>13. ASSUME SummarizeDone PROVE CoverageInv'
  <2>1. UNCHANGED <<log, currentDate, midSummary>> /\ summary' = summarizer.covers
        /\ summarizer'.pc = "idle" /\ summarizer.pc = "llm"
    BY <1>13 DEF SummarizeDone, NoSummary, history
  <2>2. MainLog' = MainLog
    BY <2>1 DEF MainLog
  <2>. QED  BY <2>1, <2>2 DEF CoverageInv
<1>14. ASSUME SummarizeFail PROVE CoverageInv'
  <2>1. UNCHANGED <<log, currentDate, dailyHistory, summary>>
        /\ summarizer'.pc = "idle" /\ midSummary' = midSummary \ ToSet(dailyHistory)
    BY <1>14 DEF SummarizeFail, NoSummary, session, disk
  <2>2. MainLog' = MainLog
    BY <2>1 DEF MainLog
  <2>. QED  BY <2>1, <2>2 DEF CoverageInv
<1>15. ASSUME Restart PROVE CoverageInv'
    BY <1>15, LoadSessionCoverage DEF Restart
<1>16. ASSUME TornSummaryWrite PROVE CoverageInv'
    BY <1>16, LoadSessionCoverage DEF TornSummaryWrite
<1>17. ASSUME Midnight PROVE CoverageInv'
    BY <1>17, QuietCoverage DEF Midnight, session, disk, history
<1>18. CASE UNCHANGED vars
    BY <1>18, QuietCoverage DEF vars, session, disk, actors, history
<1>. QED  BY <1>1, <1>2, <1>3, <1>4, <1>6, <1>7, <1>8, <1>9, <1>10, <1>11, <1>12, <1>13,
             <1>14, <1>15, <1>16, <1>17, <1>18, <1>19 DEF Next, TurnStep

\* Every exchange of the session's log file is still to be summarised, was in the
\* prompt of a summary the session has, or was recorded while one was awaited.
THEOREM Coverage == Spec => []SummaryCoverage
<1>1. CoverageInv => SummaryCoverage
    BY DEF CoverageInv, MainLog, SummaryCoverage
<1>. QED  BY <1>1, InitCoverage, NextCoverage, TypeCorrect, PTL DEF Spec

-----------------------------------------------------------------------------
(* A loaded thread is a replay of its log *)

\* The elements of a concatenation are those of its parts.
LEMMA ToSetConcat ==
    ASSUME NEW S, NEW s \in Seq(S), NEW u \in Seq(S)
    PROVE  ToSet(s \o u) = ToSet(s) \cup ToSet(u)
<1>1. /\ s \o u \in Seq(S) /\ Len(s \o u) = Len(s) + Len(u)
      /\ \A i \in 1 .. Len(s) + Len(u) :
            (s \o u)[i] = IF i <= Len(s) THEN s[i] ELSE u[i - Len(s)]
    BY ConcatProperties
<1>2. /\ DOMAIN s = 1 .. Len(s) /\ DOMAIN u = 1 .. Len(u) /\ DOMAIN (s \o u) = 1 .. Len(s \o u)
      /\ Len(s) \in Nat /\ Len(u) \in Nat
    BY <1>1, LenProperties
<1>3. ASSUME NEW i \in 1 .. Len(s) + Len(u) PROVE (s \o u)[i] \in ToSet(s) \cup ToSet(u)
  <2>1. CASE i <= Len(s)
    BY <1>1, <1>2, <2>1 DEF ToSet
  <2>2. CASE ~(i <= Len(s))
    <3>1. i - Len(s) \in DOMAIN u
        BY <1>2, <2>2
    <3>. QED  BY <1>1, <2>2, <3>1 DEF ToSet
  <2>. QED  BY <2>1, <2>2
<1>4. ASSUME NEW i \in 1 .. Len(s) PROVE s[i] \in ToSet(s \o u)
  <2>1. i \in 1 .. Len(s) + Len(u) /\ i <= Len(s)
    BY <1>2
  <2>. QED  BY <1>1, <1>2, <2>1 DEF ToSet
<1>5. ASSUME NEW i \in 1 .. Len(u) PROVE u[i] \in ToSet(s \o u)
  <2>1. i + Len(s) \in 1 .. Len(s) + Len(u) /\ ~(i + Len(s) <= Len(s)) /\ i + Len(s) - Len(s) = i
    BY <1>2
  <2>2. (s \o u)[i + Len(s)] = u[i]
    BY <1>1, <2>1
  <2>. QED  BY <1>1, <1>2, <2>1, <2>2 DEF ToSet
<1>. QED  BY <1>1, <1>2, <1>3, <1>4, <1>5 DEF ToSet

\* f passes the entries of s one by one and keeps those that are not in gone.
IsSifting(f, s, gone) ==
    /\ f \in [0 .. Len(s) -> Seq(Turns)]
    /\ f[0] = <<>>
    /\ \A n \in 1 .. Len(s) : f[n] = IF s[n] \in gone THEN f[n - 1] ELSE Append(f[n - 1], s[n])

\* Without is the last value of such a function.
LEMMA WithoutIs ==
    ASSUME NEW s \in Seq(Turns), NEW gone
    PROVE  \E f : IsSifting(f, s, gone) /\ Without(s, gone) = f[Len(s)]
<1>. DEFINE Body(f) == [n \in 0 .. Len(s) |-> IF n = 0 THEN <<>>
                           ELSE IF s[n] \in gone THEN f[n - 1] ELSE Append(f[n - 1], s[n])]
            upTo == CHOOSE f : f = Body(f)
            step == [q \in (1 .. Len(s)) \X Seq(Turns) |->
                        IF s[q[1]] \in gone THEN q[2] ELSE Append(q[2], s[q[1]])]
<1>1. Len(s) \in Nat /\ <<>> \in Seq(Turns) /\ \A n \in 1 .. Len(s) : s[n] \in Turns
    BY LenProperties, EmptySeq, ElementOfSeq
<1>2. step \in [(1 .. Len(s)) \X Seq(Turns) -> Seq(Turns)]
  <2>1. \A q \in (1 .. Len(s)) \X Seq(Turns) :
            (IF s[q[1]] \in gone THEN q[2] ELSE Append(q[2], s[q[1]])) \in Seq(Turns)
    BY <1>1, AppendProperties
  <2>. QED  BY <2>1
<1>3. PICK f \in [0 .. Len(s) -> Seq(Turns)] :
            f[0] = <<>> /\ \A n \in 1 .. Len(s) : f[n] = step[<<n, f[n - 1]>>]
  <2>. DEFINE S == Seq(Turns)
              z == <<>>
  <2>1. Len(s) \in Nat /\ z \in S /\ step \in [(1 .. Len(s)) \X S -> S]
    BY <1>1, <1>2
  <2>. HIDE DEF step, S, z
  <2>2. \E f : IsIteration(f, Len(s), S, z, step)
    BY <2>1, Iterates
  <2>. QED  BY <2>2 DEF S, z, IsIteration
<1>4. ASSUME NEW n \in 1 .. Len(s)
      PROVE  f[n] = IF s[n] \in gone THEN f[n - 1] ELSE Append(f[n - 1], s[n])
  <2>1. f[n - 1] \in Seq(Turns)
    <3>1. n - 1 \in 0 .. Len(s)
        BY <1>1
    <3>. QED  BY <3>1
  <2>2. <<n, f[n - 1]>> \in (1 .. Len(s)) \X Seq(Turns)
    BY <2>1
  <2>. QED  BY <1>3, <2>2
<1>. HIDE DEF step
<1>5. f = Body(f)
  <2>1. ASSUME NEW n \in 0 .. Len(s)
        PROVE  f[n] = IF n = 0 THEN <<>>
                      ELSE IF s[n] \in gone THEN f[n - 1] ELSE Append(f[n - 1], s[n])
    <3>1. n = 0 \/ (n \in 1 .. Len(s) /\ n # 0)
        BY <1>1
    <3>2. f[0] = <<>>
        BY <1>3
    <3>. QED  BY <1>4, <3>1, <3>2, Zenon
  <2>. QED  BY <2>1
<1>6. upTo = Body(upTo)
    BY <1>5
<1>7. Without(s, gone) = upTo[Len(s)]
    BY DEF Without
<1>. HIDE DEF upTo
<1>8. /\ upTo[0] = <<>>
      /\ \A n \in 1 .. Len(s) :
            upTo[n] = IF s[n] \in gone THEN upTo[n - 1] ELSE Append(upTo[n - 1], s[n])
  <2>1. ASSUME NEW n \in 0 .. Len(s)
        PROVE  upTo[n] = Body(upTo)[n]
    BY <1>6
  <2>2. \A n \in 0 .. Len(s) : upTo[n] =
            IF n = 0 THEN <<>>
            ELSE IF s[n] \in gone THEN upTo[n - 1] ELSE Append(upTo[n - 1], s[n])
    BY <2>1
  <2>3. 0 \in 0 .. Len(s) /\ \A n \in 1 .. Len(s) : n \in 0 .. Len(s) /\ n # 0
    BY <1>1
  <2>. QED  BY <2>2, <2>3, Zenon
<1>9. \A n \in 0 .. Len(s) : upTo[n] = f[n]
  <2>. DEFINE G == {n \in 0 .. Len(s) : upTo[n] = f[n]}
  <2>1. 0 \in G
    BY <1>1, <1>3, <1>8
  <2>2. ASSUME NEW n \in 1 .. Len(s), n - 1 \in G PROVE n \in G
    <3>1. upTo[n - 1] = f[n - 1]
        BY <2>2
    <3>2. upTo[n] = f[n]
        BY <1>4, <1>8, <3>1, Zenon
    <3>3. n \in 0 .. Len(s)
        BY <1>1
    <3>. QED  BY <3>2, <3>3
  <2>3. 0 .. Len(s) \subseteq G
    <3>. HIDE DEF G
    <3>. QED  BY <1>1, <2>1, <2>2, SetInduction
  <2>. QED  BY <2>3
<1>10. Without(s, gone) = f[Len(s)]
    BY <1>1, <1>7, <1>9
<1>11. IsSifting(f, s, gone)
    BY <1>3, <1>4 DEF IsSifting
<1>. QED  BY <1>10, <1>11

\* Two siftings agree as far as their sequences, and what is kept of them, do.
LEMMA SameSifting ==
    ASSUME NEW s \in Seq(Turns), NEW u \in Seq(Turns), NEW gone, NEW lost, NEW f, NEW g,
           IsSifting(f, s, gone), IsSifting(g, u, lost),
           NEW N \in Nat, N <= Len(s), N <= Len(u),
           \A n \in 1 .. N : s[n] = u[n] /\ (s[n] \in gone <=> u[n] \in lost)
    PROVE  f[N] = g[N]
<1>. DEFINE G == {n \in 0 .. N : f[n] = g[n]}
<1>1. Len(s) \in Nat /\ Len(u) \in Nat
    BY LenProperties
<1>2. 0 \in G
    BY DEF IsSifting
<1>3. ASSUME NEW n \in 1 .. N, n - 1 \in G PROVE n \in G
  <2>1. n \in 1 .. Len(s) /\ n \in 1 .. Len(u) /\ n \in 0 .. N
    BY <1>1
  <2>2. f[n] = IF s[n] \in gone THEN f[n - 1] ELSE Append(f[n - 1], s[n])
    BY <2>1 DEF IsSifting
  <2>3. g[n] = IF u[n] \in lost THEN g[n - 1] ELSE Append(g[n - 1], u[n])
    BY <2>1 DEF IsSifting
  <2>4. f[n - 1] = g[n - 1]
    BY <1>3
  <2>5. f[n] = g[n]
    BY <2>2, <2>3, <2>4, Zenon
  <2>. QED  BY <2>1, <2>5
<1>4. 0 .. N \subseteq G
  <2>. HIDE DEF G
  <2>. QED  BY <1>2, <1>3, SetInduction
<1>. QED  BY <1>4

\* What an appended entry adds to the entries that are kept.
LEMMA WithoutAppend ==
    ASSUME NEW s \in Seq(Turns), NEW t \in Turns, NEW gone
    PROVE  Without(Append(s, t), gone) =
              IF t \in gone THEN Without(s, gone) ELSE Append(Without(s, gone), t)
<1>. DEFINE u == Append(s, t)
<1>1. /\ u \in Seq(Turns) /\ Len(u) = Len(s) + 1 /\ Len(s) \in Nat
      /\ (\A i \in 1 .. Len(s) : u[i] = s[i]) /\ u[Len(s) + 1] = t
    BY AppendProperties, LenProperties
<1>. HIDE DEF u
<1>2. PICK f : IsSifting(f, s, gone) /\ Without(s, gone) = f[Len(s)]
    BY WithoutIs
<1>3. PICK g : IsSifting(g, u, gone) /\ Without(u, gone) = g[Len(u)]
    BY <1>1, WithoutIs
<1>4. f[Len(s)] = g[Len(s)]
  <2>1. \A n \in 1 .. Len(s) : s[n] = u[n] /\ (s[n] \in gone <=> u[n] \in gone)
    BY <1>1
  <2>2. Len(s) <= Len(s) /\ Len(s) <= Len(u)
    BY <1>1
  <2>. QED  BY <1>1, <1>2, <1>3, <2>1, <2>2, SameSifting
<1>5. g[Len(u)] = IF t \in gone THEN g[Len(s)] ELSE Append(g[Len(s)], t)
  <2>1. Len(u) \in 1 .. Len(u) /\ Len(u) - 1 = Len(s) /\ u[Len(u)] = t
    BY <1>1
  <2>2. g[Len(u)] = IF u[Len(u)] \in gone THEN g[Len(u) - 1]
                    ELSE Append(g[Len(u) - 1], u[Len(u)])
    BY <1>3, <2>1 DEF IsSifting
  <2>. QED  BY <2>1, <2>2, Zenon
<1>. QED  BY <1>2, <1>3, <1>4, <1>5, Zenon DEF u

\* A private exchange of another chat changes nothing.
LEMMA WithoutOther ==
    ASSUME NEW s \in Seq(Turns), NEW t, t \notin ToSet(s), NEW gone
    PROVE  Without(s, gone \cup {t}) = Without(s, gone)
<1>1. Len(s) \in Nat /\ DOMAIN s = 1 .. Len(s) /\ Len(s) <= Len(s)
    BY LenProperties
<1>2. PICK f : IsSifting(f, s, gone) /\ Without(s, gone) = f[Len(s)]
    BY WithoutIs
<1>3. PICK g : IsSifting(g, s, gone \cup {t}) /\ Without(s, gone \cup {t}) = g[Len(s)]
    BY WithoutIs
<1>4. \A n \in 1 .. Len(s) : s[n] = s[n] /\ (s[n] \in gone <=> s[n] \in gone \cup {t})
    BY <1>1 DEF ToSet
<1>5. f[Len(s)] = g[Len(s)]
    BY <1>1, <1>2, <1>3, <1>4, SameSifting
<1>. QED  BY <1>2, <1>3, <1>5

\* A list without private exchanges is kept as it is.
LEMMA WithoutNone ==
    ASSUME NEW s \in Seq(Turns), NEW gone, ToSet(s) \cap gone = {}
    PROVE  Without(s, gone) = s
<1>1. Len(s) \in Nat /\ DOMAIN s = 1 .. Len(s) /\ \A n \in 1 .. Len(s) : s[n] \in Turns
    BY LenProperties, ElementOfSeq
<1>2. PICK f : IsSifting(f, s, gone) /\ Without(s, gone) = f[Len(s)]
    BY WithoutIs
<1>3. ASSUME NEW m \in 0 .. Len(s)
      PROVE  /\ SubSeq(s, 1, m) \in Seq(Turns) /\ Len(SubSeq(s, 1, m)) = m
             /\ \A i \in 1 .. m : SubSeq(s, 1, m)[i] = s[i]
  <2>1. \A i \in 1 .. m : s[i] \in Turns
    BY <1>1
  <2>2. m \in Int /\ 1 \in Int
    BY <1>1
  <2>3. /\ SubSeq(s, 1, m) \in Seq(Turns)
        /\ Len(SubSeq(s, 1, m)) = IF 1 <= m THEN m - 1 + 1 ELSE 0
        /\ \A i \in 1 .. m - 1 + 1 : SubSeq(s, 1, m)[i] = s[1 + i - 1]
    BY <2>1, <2>2, SubSeqProperties
  <2>. QED  BY <1>1, <2>3
<1>. DEFINE G == {m \in 0 .. Len(s) : f[m] = SubSeq(s, 1, m)}
<1>4. 0 \in G
  <2>1. SubSeq(s, 1, 0) = <<>>
    BY SubSeqEmpty, <1>1
  <2>. QED  BY <1>1, <1>2, <2>1 DEF IsSifting
<1>5. ASSUME NEW m \in 1 .. Len(s), m - 1 \in G PROVE m \in G
  <2>1. s[m] \notin gone /\ s[m] \in Turns /\ m \in 0 .. Len(s) /\ m - 1 \in 0 .. Len(s)
    BY <1>1 DEF ToSet
  <2>2. f[m] = Append(SubSeq(s, 1, m - 1), s[m])
    BY <1>2, <1>5, <2>1 DEF IsSifting
  <2>. DEFINE a == SubSeq(s, 1, m - 1)
              b == SubSeq(s, 1, m)
  <2>3. a \in Seq(Turns) /\ Len(a) = m - 1 /\ \A i \in 1 .. m - 1 : a[i] = s[i]
    BY <1>3, <2>1
  <2>4. b \in Seq(Turns) /\ Len(b) = m /\ \A i \in 1 .. m : b[i] = s[i]
    BY <1>3, <2>1
  <2>. HIDE DEF a, b
  <2>5. /\ Append(a, s[m]) \in Seq(Turns) /\ Len(Append(a, s[m])) = m
        /\ (\A i \in 1 .. m - 1 : Append(a, s[m])[i] = s[i]) /\ Append(a, s[m])[m] = s[m]
    BY <2>1, <2>3, AppendProperties
  <2>6. \A i \in 1 .. m : Append(a, s[m])[i] = b[i]
    BY <2>4, <2>5
  <2>7. Append(a, s[m]) = b
    BY <2>4, <2>5, <2>6, SeqEqual
  <2>. QED  BY <2>1, <2>2, <2>7 DEF a, b
<1>6. 0 .. Len(s) \subseteq G
  <2>. HIDE DEF G
  <2>. QED  BY <1>1, <1>4, <1>5, SetInduction
<1>7. Len(s) \in 0 .. Len(s)
    BY <1>1
<1>8. SubSeq(s, 1, Len(s)) = s
  <2>1. /\ SubSeq(s, 1, Len(s)) \in Seq(Turns) /\ Len(SubSeq(s, 1, Len(s))) = Len(s)
        /\ \A i \in 1 .. Len(s) : SubSeq(s, 1, Len(s))[i] = s[i]
    BY <1>3, <1>7
  <2>. QED  BY <2>1, SeqEqual
<1>. QED  BY <1>2, <1>6, <1>7, <1>8

\* Appending to the second part of a concatenation appends to the whole.
LEMMA ConcatAppended ==
    ASSUME NEW s \in Seq(Turns), NEW u \in Seq(Turns), NEW t \in Turns
    PROVE  s \o Append(u, t) = Append(s \o u, t)
<1>1. <<t>> \in Seq(Turns) /\ s \o u \in Seq(Turns)
    BY ConcatProperties
<1>2. Append(u, t) = u \o <<t>>
    BY AppendIsConcat
<1>3. Append(s \o u, t) = (s \o u) \o <<t>>
    BY <1>1, AppendIsConcat
<1>4. (s \o u) \o <<t>> = s \o (u \o <<t>>)
    BY <1>1, ConcatAssociative
<1>. QED  BY <1>2, <1>3, <1>4

\* Logs that agree on a thread give it the same history.
LEMMA SameHistory ==
    ASSUME NEW lg \in [Days -> [Chats -> Seq(Turns)]], NEW lh \in [Days -> [Chats -> Seq(Turns)]],
           NEW h \in Threads, \A d \in Days : lg[d][h] = lh[d][h]
    PROVE  ThreadHistory(lg, h) = ThreadHistory(lh, h)
<1>1. MaxDay \in Nat /\ Days = 1 .. MaxDay
    BY NumbersAssumption DEF Days
<1>2. PICK f : IsHistory(f, lg, h) /\ ThreadHistory(lg, h) = f[MaxDay]
    BY ThreadHistoryIs
<1>3. PICK g : IsHistory(g, lh, h) /\ ThreadHistory(lh, h) = g[MaxDay]
    BY ThreadHistoryIs
<1>. DEFINE G == {n \in 0 .. MaxDay : f[n] = g[n]}
<1>4. 0 \in G
    BY <1>1, <1>2, <1>3 DEF IsHistory
<1>5. ASSUME NEW n \in 1 .. MaxDay, n - 1 \in G PROVE n \in G
  <2>1. f[n] = f[n - 1] \o lg[n][h] /\ g[n] = g[n - 1] \o lh[n][h]
    BY <1>2, <1>3 DEF IsHistory
  <2>2. lg[n][h] = lh[n][h] /\ f[n - 1] = g[n - 1] /\ n \in 0 .. MaxDay
    BY <1>1, <1>5
  <2>. QED  BY <2>1, <2>2
<1>6. 0 .. MaxDay \subseteq G
  <2>. HIDE DEF G
  <2>. QED  BY <1>1, <1>4, <1>5, SetInduction
<1>. QED  BY <1>1, <1>2, <1>3, <1>6

\* An entry written to a day after which nothing is logged is the last of the history.
LEMMA HistoryAppend ==
    ASSUME NEW lg \in [Days -> [Chats -> Seq(Turns)]], NEW lh \in [Days -> [Chats -> Seq(Turns)]],
           NEW h \in Threads, NEW t \in Turns, NEW day \in Days,
           \A d \in Days : d # day => lh[d][h] = lg[d][h],
           lh[day][h] = Append(lg[day][h], t),
           \A d \in Days : d > day => lg[d][h] = <<>>
    PROVE  ThreadHistory(lh, h) = Append(ThreadHistory(lg, h), t)
<1>1. MaxDay \in Nat /\ Days = 1 .. MaxDay /\ \A d \in 1 .. MaxDay : lg[d][h] \in Seq(Turns)
    BY NumbersAssumption DEF Days, Chats
<1>2. PICK f : IsHistory(f, lg, h) /\ ThreadHistory(lg, h) = f[MaxDay]
    BY ThreadHistoryIs
<1>3. PICK g : IsHistory(g, lh, h) /\ ThreadHistory(lh, h) = g[MaxDay]
    BY ThreadHistoryIs
<1>4. ASSUME NEW n \in 1 .. MaxDay
      PROVE  /\ n - 1 \in 0 .. MaxDay /\ n \in 0 .. MaxDay /\ n \in Days
             /\ f[n] = f[n - 1] \o lg[n][h] /\ g[n] = g[n - 1] \o lh[n][h]
             /\ f[n - 1] \in Seq(Turns) /\ lg[n][h] \in Seq(Turns)
  <2>1. n - 1 \in 0 .. MaxDay /\ n \in 0 .. MaxDay /\ n \in Days
    BY <1>1
  <2>. QED  BY <1>1, <1>2, <1>3, <2>1 DEF IsHistory
<1>. DEFINE G == {n \in 0 .. MaxDay : g[n] = IF n < day THEN f[n] ELSE Append(f[n], t)}
<1>5. 0 \in G
  <2>1. 0 \in 0 .. MaxDay /\ 0 < day
    BY <1>1
  <2>. QED  BY <1>2, <1>3, <2>1 DEF IsHistory
<1>6. ASSUME NEW n \in 1 .. MaxDay, n - 1 \in G PROVE n \in G
  <2>1. n \in Int /\ day \in Int
    BY <1>1
  <2>2. g[n - 1] = IF n - 1 < day THEN f[n - 1] ELSE Append(f[n - 1], t)
    BY <1>6
  <2>3. CASE n < day
    <3>1. n - 1 < day /\ n # day
        BY <2>1, <2>3
    <3>2. g[n] = f[n]
        BY <1>4, <2>2, <3>1
    <3>. QED  BY <1>4, <2>3, <3>2
  <2>4. CASE n = day
    <3>1. n - 1 < day /\ ~(n < day)
        BY <2>1, <2>4
    <3>2. g[n] = f[n - 1] \o Append(lg[n][h], t)
        BY <1>4, <2>2, <2>4, <3>1
    <3>3. f[n - 1] \o Append(lg[n][h], t) = Append(f[n - 1] \o lg[n][h], t)
      <4>1. f[n - 1] \in Seq(Turns) /\ lg[n][h] \in Seq(Turns)
        BY <1>4
      <4>. QED  BY <4>1, ConcatAppended
    <3>4. g[n] = Append(f[n], t)
        BY <1>4, <3>2, <3>3
    <3>. QED  BY <1>4, <3>1, <3>4
  <2>5. CASE n > day
    <3>1. ~(n - 1 < day) /\ ~(n < day) /\ n # day
        BY <2>1, <2>5
    <3>2. lg[n][h] = <<>> /\ lh[n][h] = <<>>
        BY <1>4, <2>5, <3>1
    <3>3. g[n - 1] = Append(f[n - 1], t)
        BY <2>2, <3>1
    <3>4. f[n - 1] \o <<>> = f[n - 1] /\ Append(f[n - 1], t) \o <<>> = Append(f[n - 1], t)
      <4>1. Append(f[n - 1], t) \in Seq(Turns) /\ f[n - 1] \in Seq(Turns)
        BY <1>4, AppendProperties
      <4>. QED  BY <4>1, ConcatEmptySeq
    <3>5. f[n] = f[n - 1] /\ g[n] = Append(f[n - 1], t)
        BY <1>4, <3>2, <3>3, <3>4
    <3>. QED  BY <1>4, <3>1, <3>5
  <2>. QED  BY <2>1, <2>3, <2>4, <2>5
<1>7. 0 .. MaxDay \subseteq G
  <2>. HIDE DEF G
  <2>. QED  BY <1>1, <1>5, <1>6, SetInduction
<1>8. MaxDay \in 0 .. MaxDay /\ ~(MaxDay < day)
    BY <1>1
<1>9. g[MaxDay] = Append(f[MaxDay], t)
    BY <1>7, <1>8
<1>. QED  BY <1>2, <1>3, <1>9

\* What a thread replays is logged.
LEMMA HistoryIsLogged ==
    ASSUME log \in [Days -> [Chats -> Seq(Turns)]], NEW h \in Threads
    PROVE  ToSet(ThreadHistory(log, h)) \subseteq Logged
<1>1. MaxDay \in Nat /\ Days = 1 .. MaxDay /\ h \in Chats
      /\ \A d \in 1 .. MaxDay : log[d][h] \in Seq(Turns)
    BY NumbersAssumption DEF Days, Chats
<1>2. PICK f : IsHistory(f, log, h) /\ ThreadHistory(log, h) = f[MaxDay]
    BY ThreadHistoryIs
<1>. DEFINE G == {n \in 0 .. MaxDay : ToSet(f[n]) \subseteq Logged}
<1>3. 0 \in G
  <2>1. ToSet(<<>>) = {}
    BY DEF ToSet
  <2>. QED  BY <1>1, <1>2, <2>1 DEF IsHistory
<1>4. ASSUME NEW n \in 1 .. MaxDay, n - 1 \in G PROVE n \in G
  <2>1. n - 1 \in 0 .. MaxDay /\ n \in 0 .. MaxDay /\ n \in Days
    BY <1>1
  <2>2. f[n] = f[n - 1] \o log[n][h] /\ f[n - 1] \in Seq(Turns) /\ log[n][h] \in Seq(Turns)
    BY <1>1, <1>2, <2>1 DEF IsHistory
  <2>3. ToSet(f[n - 1] \o log[n][h]) = ToSet(f[n - 1]) \cup ToSet(log[n][h])
    BY <2>2, ToSetConcat
  <2>4. ToSet(log[n][h]) \subseteq Logged
    BY <1>1, <2>1 DEF Logged
  <2>5. ToSet(f[n]) \subseteq Logged
    BY <1>4, <2>2, <2>3, <2>4
  <2>. QED  BY <2>1, <2>5
<1>5. 0 .. MaxDay \subseteq G
  <2>. HIDE DEF G
  <2>. QED  BY <1>1, <1>3, <1>4, SetInduction
<1>6. MaxDay \in 0 .. MaxDay
    BY <1>1
<1>. QED  BY <1>2, <1>5, <1>6

\* ThreadReplayMatchesLog is kept by the recording of an exchange because the session
\* writes to the last file that has entries, and because an exchange that is about to
\* be recorded is in no list yet (with PrivacyInv, neither logged nor hidden).
ReplayInv ==
    /\ \A d \in Days, c \in Chats : d > currentDate => log[d][c] = <<>>
    /\ \A h \in DOMAIN threadContexts : ToSet(threadContexts[h]) \subseteq Recorded
    /\ ThreadReplayMatchesLog

\* The list a thread has, or gets on first access, is a replay of its log as well.
LEMMA ContextReplays ==
    ASSUME TypeOK, PrivacyInv, ReplayInv, NEW h \in Threads
    PROVE  /\ ThreadContext(h) \in Seq(Turns)
           /\ ToSet(ThreadContext(h)) \subseteq Recorded
           /\ Without(ThreadContext(h), hidden) = ThreadHistory(log, h)
<1>1. ThreadContext(h) \in Seq(Turns)
    BY ThreadContextType
<1>2. CASE h \in DOMAIN threadContexts
  <2>1. ThreadContext(h) = threadContexts[h]
    BY <1>2 DEF ThreadContext
  <2>. QED  BY <1>1, <1>2, <2>1 DEF ReplayInv, ThreadReplayMatchesLog
<1>3. CASE h \notin DOMAIN threadContexts
  <2>1. ThreadContext(h) = ThreadHistory(log, h)
    BY <1>3 DEF ThreadContext
  <2>2. ToSet(ThreadHistory(log, h)) \subseteq Logged
    BY HistoryIsLogged DEF TypeOK
  <2>3. Logged \subseteq Recorded /\ hidden \cap Logged = {}
    BY DEF PrivacyInv, PrivateStaysInRAM, Persisted
  <2>4. Without(ThreadHistory(log, h), hidden) = ThreadHistory(log, h)
    BY <1>1, <2>1, <2>2, <2>3, WithoutNone
  <2>. QED  BY <1>1, <2>1, <2>2, <2>3, <2>4
<1>. QED  BY <1>2, <1>3

\* A step that records nothing and loads no thread keeps the invariant.
LEMMA QuietReplay ==
    ASSUME ReplayInv, UNCHANGED <<log, currentDate, threadContexts, hidden>>,
           Recorded \subseteq Recorded'
    PROVE  ReplayInv'
<1>1. DOMAIN threadContexts' = DOMAIN threadContexts
      /\ \A h \in DOMAIN threadContexts : threadContexts'[h] = threadContexts[h]
    OBVIOUS
<1>2. ThreadReplayMatchesLog'
    BY DEF ReplayInv, ThreadReplayMatchesLog
<1>. QED  BY <1>1, <1>2 DEF ReplayInv

\* What a log entry changes: the history of its thread, by one exchange at the end.
LEMMA WriteLogReplay ==
    ASSUME TypeOK, ReplayInv, NEW t \in Turns, NEW c \in Chats, WriteLog(t, c),
           currentDate' = currentDate
    PROVE  /\ \A d \in Days, e \in Chats : d > currentDate' => log'[d][e] = <<>>
           /\ \A h \in Threads : ThreadHistory(log', h) =
                 IF h = c THEN Append(ThreadHistory(log, h), t) ELSE ThreadHistory(log, h)
<1>1. currentDate \in Days /\ log \in [Days -> [Chats -> Seq(Turns)]]
    BY SessionDay DEF TypeOK
<1>2. log' \in [Days -> [Chats -> Seq(Turns)]]
    BY <1>1, WriteLogType
<1>3. ASSUME NEW d \in Days, NEW e \in Chats
      PROVE  log'[d][e] = IF d = currentDate /\ e = c THEN Append(log[d][e], t) ELSE log[d][e]
    BY <1>1 DEF WriteLog
<1>4. \A d \in Days, e \in Chats : d > currentDate' => log'[d][e] = <<>>
  <2>1. ASSUME NEW d \in Days, NEW e \in Chats, d > currentDate PROVE log'[d][e] = <<>>
    <3>1. d # currentDate
        BY <1>1, <2>1 DEF Days
    <3>. QED  BY <1>3, <2>1, <3>1 DEF ReplayInv
  <2>. QED  BY <2>1
<1>5. ASSUME NEW h \in Threads
      PROVE  ThreadHistory(log', h) =
                IF h = c THEN Append(ThreadHistory(log, h), t) ELSE ThreadHistory(log, h)
  <2>1. h \in Chats
    BY DEF Chats
  <2>2. CASE h = c
    <3>1. \A d \in Days : d # currentDate => log'[d][h] = log[d][h]
        BY <1>3, <2>1
    <3>2. log'[currentDate][h] = Append(log[currentDate][h], t)
        BY <1>1, <1>3, <2>1, <2>2
    <3>3. \A d \in Days : d > currentDate => log[d][h] = <<>>
        BY <2>1 DEF ReplayInv
    <3>4. ThreadHistory(log', h) = Append(ThreadHistory(log, h), t)
        BY <1>1, <1>2, <3>1, <3>2, <3>3, HistoryAppend
    <3>. QED  BY <2>2, <3>4
  <2>3. CASE h # c
    <3>1. \A d \in Days : log'[d][h] = log[d][h]
        BY <1>3, <2>1, <2>3
    <3>2. ThreadHistory(log', h) = ThreadHistory(log, h)
        BY <1>1, <1>2, <3>1, SameHistory
    <3>. QED  BY <2>3, <3>2
  <2>. QED  BY <2>2, <2>3
<1>. QED  BY <1>4, <1>5

\* The end of a turn keeps the invariant.
LEMMA PersistReplay ==
    ASSUME TypeOK, PrivacyInv, ReplayInv, NEW t \in Turns, InFlight(t), Persist(t)
    PROVE  ReplayInv'
<1>1. /\ t \notin Recorded /\ t \in Recorded' /\ Recorded \subseteq Recorded'
      /\ currentDate' = currentDate /\ turn[t].chat \in Chats
    BY DEF Recorded, InFlight, Persist, TypeOK, TurnRecords
<1>2. t \notin hidden
    BY <1>1 DEF PrivacyInv
<1>3. CASE turn[t].chat = Main
  <2>1. AppendExchange(t) /\ threadContexts' = threadContexts
    BY <1>3 DEF Persist, AppendExchange
  <2>2. ASSUME NEW h \in DOMAIN threadContexts
        PROVE  /\ threadContexts[h] \in Seq(Turns) /\ t \notin ToSet(threadContexts[h])
               /\ ToSet(threadContexts[h]) \subseteq Recorded /\ h \in Threads
               /\ Without(threadContexts[h], hidden) = ThreadHistory(log, h)
    BY <1>1 DEF TypeOK, ReplayInv, ThreadReplayMatchesLog
  <2>3. \A h \in DOMAIN threadContexts' : ToSet(threadContexts'[h]) \subseteq Recorded'
    BY <1>1, <2>1, <2>2
  <2>4. CASE Main \in private
    <3>1. hidden' = hidden \cup {t} /\ log' = log
        BY <2>1, <2>4 DEF AppendExchange
    <3>2. \A h \in DOMAIN threadContexts :
             Without(threadContexts[h], hidden \cup {t}) = ThreadHistory(log, h)
        BY <2>2, WithoutOther
    <3>3. ThreadReplayMatchesLog'
        BY <2>1, <3>1, <3>2 DEF ThreadReplayMatchesLog
    <3>. QED  BY <1>1, <2>3, <3>1, <3>3 DEF ReplayInv
  <2>5. CASE Main \notin private
    <3>1. hidden' = hidden /\ WriteLog(t, Main)
        BY <2>1, <2>5 DEF AppendExchange
    <3>2. /\ \A d \in Days, e \in Chats : d > currentDate' => log'[d][e] = <<>>
          /\ \A h \in Threads : ThreadHistory(log', h) =
                IF h = Main THEN Append(ThreadHistory(log, h), t) ELSE ThreadHistory(log, h)
        BY <1>1, <1>3, <3>1, WriteLogReplay
    <3>3. \A h \in DOMAIN threadContexts : ThreadHistory(log', h) = ThreadHistory(log, h)
        BY <2>2, <3>2, DistinctNames
    <3>4. ThreadReplayMatchesLog'
        BY <2>1, <2>2, <3>1, <3>3 DEF ThreadReplayMatchesLog
    <3>. QED  BY <2>3, <3>2, <3>4 DEF ReplayInv
  <2>. QED  BY <2>4, <2>5
<1>4. CASE turn[t].chat # Main
  <2>. DEFINE h == turn[t].chat
  <2>1. PICK s : s = ThreadContext(h)
    OBVIOUS
  <2>2. h \in Threads
    BY <1>1, <1>4 DEF Chats
  <2>3. s \in Seq(Turns) /\ ToSet(s) \subseteq Recorded
        /\ Without(s, hidden) = ThreadHistory(log, h)
    BY <2>1, <2>2, ContextReplays
  <2>4. AppendThreadExchange(t, h) /\ threadContexts' = CacheThread(h, Append(s, t))
    BY <1>4, <2>1 DEF Persist, AppendThreadExchange
  <2>5. /\ DOMAIN threadContexts' = DOMAIN threadContexts \cup {h}
        /\ threadContexts'[h] = Append(s, t)
        /\ \A g \in DOMAIN threadContexts \ {h} : threadContexts'[g] = threadContexts[g]
    BY <2>4, Zenon DEF CacheThread
  <2>6. ASSUME NEW g \in DOMAIN threadContexts
        PROVE  /\ threadContexts[g] \in Seq(Turns) /\ t \notin ToSet(threadContexts[g])
               /\ ToSet(threadContexts[g]) \subseteq Recorded /\ g \in Threads
               /\ Without(threadContexts[g], hidden) = ThreadHistory(log, g)
    BY <1>1 DEF TypeOK, ReplayInv, ThreadReplayMatchesLog
  <2>7. t \notin ToSet(s) /\ ToSet(Append(s, t)) = ToSet(s) \cup {t}
    BY <1>1, <2>3, ToSetAppend
  <2>. HIDE DEF h
  <2>8. \A g \in DOMAIN threadContexts' : ToSet(threadContexts'[g]) \subseteq Recorded'
    <3>1. ToSet(threadContexts'[h]) \subseteq Recorded'
        BY <1>1, <2>3, <2>5, <2>7
    <3>2. \A g \in DOMAIN threadContexts \ {h} : ToSet(threadContexts'[g]) \subseteq Recorded'
        BY <1>1, <2>5, <2>6
    <3>. QED  BY <2>5, <3>1, <3>2
  <2>9. CASE h \in private
    <3>1. hidden' = hidden \cup {t} /\ log' = log
        BY <2>4, <2>9 DEF AppendThreadExchange
    <3>2. Without(Append(s, t), hidden \cup {t}) = ThreadHistory(log, h)
      <4>1. Without(Append(s, t), hidden \cup {t}) = Without(s, hidden \cup {t})
        BY <2>3, WithoutAppend
      <4>2. Without(s, hidden \cup {t}) = Without(s, hidden)
        BY <2>3, <2>7, WithoutOther
      <4>. QED  BY <2>3, <4>1, <4>2
    <3>3. \A g \in DOMAIN threadContexts :
             Without(threadContexts[g], hidden \cup {t}) = ThreadHistory(log, g)
        BY <2>6, WithoutOther
    <3>4. ASSUME NEW g \in DOMAIN threadContexts'
          PROVE  Without(threadContexts'[g], hidden') = ThreadHistory(log', g)
      <4>1. CASE g = h
        BY <2>5, <3>1, <3>2, <4>1
      <4>2. CASE g # h
        BY <2>5, <3>1, <3>3, <4>2
      <4>. QED  BY <4>1, <4>2
    <3>5. ThreadReplayMatchesLog'
        BY <3>4 DEF ThreadReplayMatchesLog
    <3>. QED  BY <1>1, <2>8, <3>1, <3>5 DEF ReplayInv
  <2>10. CASE h \notin private
    <3>1. hidden' = hidden /\ WriteLog(t, h)
        BY <2>4, <2>10 DEF AppendThreadExchange
    <3>2. /\ \A d \in Days, e \in Chats : d > currentDate' => log'[d][e] = <<>>
          /\ \A g \in Threads : ThreadHistory(log', g) =
                IF g = h THEN Append(ThreadHistory(log, g), t) ELSE ThreadHistory(log, g)
      <4>1. h \in Chats
        BY <2>2 DEF Chats
      <4>. QED  BY <1>1, <3>1, <4>1, WriteLogReplay
    <3>3. Without(Append(s, t), hidden) = Append(Without(s, hidden), t)
        BY <1>2, <2>3, WithoutAppend
    <3>4. ASSUME NEW g \in DOMAIN threadContexts'
          PROVE  Without(threadContexts'[g], hidden') = ThreadHistory(log', g)
      <4>1. CASE g = h
        BY <2>2, <2>3, <2>5, <3>1, <3>2, <3>3, <4>1
      <4>2. CASE g # h
        BY <2>5, <2>6, <3>1, <3>2, <4>2
      <4>. QED  BY <4>1, <4>2
    <3>5. ThreadReplayMatchesLog'
        BY <3>4 DEF ThreadReplayMatchesLog
    <3>. QED  BY <2>8, <3>2, <3>5 DEF ReplayInv
  <2>. QED  BY <2>9, <2>10
<1>. QED  BY <1>3, <1>4

\* So does giving a turn up.
LEMMA AbandonReplay ==
    ASSUME TypeOK, ReplayInv, NEW t \in Turns, InFlight(t), Abandon(t)
    PROVE  ReplayInv'
<1>1. Recorded \subseteq Recorded'
    BY DEF Recorded, InFlight, Abandon, TypeOK
<1>2. UNCHANGED <<log, currentDate, threadContexts, hidden>>
    BY DEF Abandon, session, disk, history
<1>. QED  BY <1>1, <1>2, QuietReplay

\* And loading a session, on a later day, from logs whose last day is the session's.
LEMMA LoadSessionReplay ==
    ASSUME TypeOK, NEW lg, NEW sf, LoadSession(lg, sf),
           \A d \in Days, c \in Chats : d > currentDate => lg[d][c] = <<>>
    PROVE  ReplayInv'
<1>1. log' = lg /\ currentDate' = today /\ DOMAIN threadContexts' = {}
    BY DEF LoadSession
<1>2. today \in Nat /\ currentDate \in Nat /\ currentDate <= today
    BY DEF TypeOK, Days
<1>3. ASSUME NEW d \in Days, NEW c \in Chats, d > today PROVE lg[d][c] = <<>>
  <2>1. d > currentDate
    BY <1>2, <1>3 DEF Days
  <2>. QED  BY <2>1
<1>. QED  BY <1>1, <1>3 DEF ReplayInv, ThreadReplayMatchesLog

\* No thread is loaded and nothing logged at the start.
LEMMA InitReplay == Init => ReplayInv
<1>. SUFFICES ASSUME Init PROVE ReplayInv
    OBVIOUS
<1>1. DOMAIN threadContexts = {} /\ \A d \in Days, c \in Chats : log[d][c] = <<>>
    BY DEF Init, EmptyLog
<1>. QED  BY <1>1 DEF ReplayInv, ThreadReplayMatchesLog

\* Every step keeps the invariant.
LEMMA NextReplay == TypeOK /\ PrivacyInv /\ ReplayInv /\ [Next]_vars => ReplayInv'
<1>. SUFFICES ASSUME TypeOK, PrivacyInv, ReplayInv, [Next]_vars PROVE ReplayInv'
    OBVIOUS
<1>1. ASSUME NEW t \in Turns, NEW c \in Chats, NEW streamed \in BOOLEAN, Send(t, c, streamed)
      PROVE  ReplayInv'
  <2>1. Recorded \subseteq Recorded'
    BY <1>1 DEF Send, Recorded, TypeOK
  <2>2. UNCHANGED <<log, currentDate, hidden>>
    BY <1>1 DEF Send, disk, history
  <2>3. CASE c = Main
    <3>1. threadContexts' = threadContexts
        BY <1>1, <2>3 DEF Send
    <3>. QED  BY <2>1, <2>2, <3>1, QuietReplay
  <2>4. CASE c # Main
    <3>1. PICK s : s = ThreadContext(c)
        OBVIOUS
    <3>2. c \in Threads
        BY <2>4 DEF Chats
    <3>3. ToSet(s) \subseteq Recorded /\ Without(s, hidden) = ThreadHistory(log, c)
        BY <3>1, <3>2, ContextReplays
    <3>4. threadContexts' = CacheThread(c, s)
        BY <1>1, <2>4, <3>1 DEF Send
    <3>5. /\ DOMAIN threadContexts' = DOMAIN threadContexts \cup {c}
          /\ threadContexts'[c] = s
          /\ \A g \in DOMAIN threadContexts \ {c} : threadContexts'[g] = threadContexts[g]
        BY <3>4, Zenon DEF CacheThread
    <3>6. ASSUME NEW g \in DOMAIN threadContexts'
          PROVE  ToSet(threadContexts'[g]) \subseteq Recorded'
                 /\ Without(threadContexts'[g], hidden') = ThreadHistory(log', g)
      <4>1. CASE g = c
        BY <2>1, <2>2, <3>3, <3>5, <4>1
      <4>2. CASE g # c
        BY <2>1, <2>2, <3>5, <4>2 DEF ReplayInv, ThreadReplayMatchesLog
      <4>. QED  BY <4>1, <4>2
    <3>7. ThreadReplayMatchesLog'
        BY <3>6 DEF ThreadReplayMatchesLog
    <3>. QED  BY <2>2, <3>6, <3>7 DEF ReplayInv
  <2>. QED  BY <2>3, <2>4
<1>2. ASSUME NEW t \in Turns, Prepare(t) PROVE ReplayInv'
  <2>1. turn[t].pc = "prepare" /\ \A s \in Turns \ {t} : turn'[s] = turn[s]
    BY <1>2 DEF Prepare, TypeOK
  <2>2. Recorded \subseteq Recorded'
    BY <2>1 DEF Recorded
  <2>3. UNCHANGED <<log, currentDate, threadContexts, hidden>>
    BY <1>2 DEF Prepare, disk
  <2>. QED  BY <2>2, <2>3, QuietReplay
<1>3. ASSUME NEW t \in Turns, NEW said \in BOOLEAN, ToolRound(t, said) PROVE ReplayInv'
  <2>1. Recorded \subseteq Recorded'
    BY <1>3 DEF ToolRound, Recorded, TypeOK
  <2>2. UNCHANGED <<log, currentDate, threadContexts, hidden>>
    BY <1>3 DEF ToolRound, session, disk, history
  <2>. QED  BY <2>1, <2>2, QuietReplay
<1>18. ASSUME NEW t \in Turns, LastRound(t) PROVE ReplayInv'
  <2>1. Recorded \subseteq Recorded'
    BY <1>18 DEF LastRound, Recorded, TypeOK
  <2>2. UNCHANGED <<log, currentDate, threadContexts, hidden>>
    BY <1>18 DEF LastRound, session, disk, history
  <2>. QED  BY <2>1, <2>2, QuietReplay
<1>4. ASSUME NEW t \in Turns, Answer(t) PROVE ReplayInv'
    BY <1>4, PersistReplay DEF Answer, InFlight
<1>5. ASSUME NEW t \in Turns, Fail(t) PROVE ReplayInv'
    BY <1>5, AbandonReplay DEF Fail, InFlight
<1>6. ASSUME NEW t \in Turns, Cancel(t) PROVE ReplayInv'
    BY <1>6, PersistReplay, AbandonReplay DEF Cancel
<1>7. ASSUME NEW t \in Turns, NEW h \in Threads, Seed(t, h) PROVE ReplayInv'
  <2>1. Recorded \subseteq Recorded'
    BY <1>7 DEF Seed, Recorded, TypeOK
  <2>2. /\ UNCHANGED <<currentDate, threadContexts, hidden>>
        /\ WriteLog(t, h) /\ h \notin DOMAIN threadContexts /\ h \in Chats
    BY <1>7 DEF Seed, session, history, Chats
  <2>3. /\ \A d \in Days, e \in Chats : d > currentDate' => log'[d][e] = <<>>
        /\ \A g \in Threads : ThreadHistory(log', g) =
              IF g = h THEN Append(ThreadHistory(log, g), t) ELSE ThreadHistory(log, g)
    BY <2>2, WriteLogReplay
  <2>4. \A g \in DOMAIN threadContexts : g \in Threads /\ g # h
    BY <2>2 DEF TypeOK
  <2>5. \A g \in DOMAIN threadContexts : ThreadHistory(log', g) = ThreadHistory(log, g)
    BY <2>3, <2>4
  <2>6. ThreadReplayMatchesLog'
    BY <2>2, <2>5 DEF ReplayInv, ThreadReplayMatchesLog
  <2>7. \A g \in DOMAIN threadContexts' : ToSet(threadContexts'[g]) \subseteq Recorded'
    BY <2>1, <2>2 DEF ReplayInv
  <2>. QED  BY <2>3, <2>6, <2>7 DEF ReplayInv
<1>8. ASSUME NEW t \in Turns, TornDailyWrite(t) PROVE ReplayInv'
  <2>. DEFINE lg == [log EXCEPT ![currentDate] = [c \in Chats |-> <<>>]]
  <2>1. \A d \in Days, c \in Chats : d > currentDate => lg[d][c] = <<>>
    <3>1. \A d \in Days, c \in Chats : lg[d][c] = <<>> \/ lg[d][c] = log[d][c]
        BY DEF TypeOK
    <3>. QED  BY <3>1 DEF ReplayInv
  <2>. QED  BY <1>8, <2>1, LoadSessionReplay DEF TornDailyWrite
<1>9. ASSUME NEW c \in Chats, TogglePrivate(c) PROVE ReplayInv'
  <2>1. UNCHANGED <<log, currentDate, threadContexts, hidden>> /\ Recorded' = Recorded
    BY <1>9 DEF TogglePrivate, actors, history, Recorded
  <2>. QED  BY <2>1, QuietReplay
<1>10. ASSUME ModelCommand PROVE ReplayInv'
  <2>1. UNCHANGED <<log, currentDate, threadContexts, hidden>> /\ Recorded' = Recorded
    BY <1>10 DEF ModelCommand, disk, actors, history, Recorded
  <2>. QED  BY <2>1, QuietReplay
<1>11. ASSUME SummarizeStart PROVE ReplayInv'
  <2>1. UNCHANGED <<log, currentDate, threadContexts, hidden>> /\ Recorded' = Recorded
    BY <1>11 DEF SummarizeStart, session, disk, history, Recorded
  <2>. QED  BY <2>1, QuietReplay
<1>12. ASSUME SummarizeDone PROVE ReplayInv'
  <2>1. UNCHANGED <<log, currentDate, threadContexts, hidden>> /\ Recorded' = Recorded
    BY <1>12 DEF SummarizeDone, history, Recorded
  <2>. QED  BY <2>1, QuietReplay
<1>13. ASSUME SummarizeFail PROVE ReplayInv'
  <2>1. UNCHANGED <<log, currentDate, threadContexts, hidden>> /\ Recorded' = Recorded
    BY <1>13 DEF SummarizeFail, session, disk, Recorded
  <2>. QED  BY <2>1, QuietReplay
<1>14. ASSUME Restart PROVE ReplayInv'
    BY <1>14, LoadSessionReplay DEF Restart, ReplayInv
<1>15. ASSUME TornSummaryWrite PROVE ReplayInv'
    BY <1>15, LoadSessionReplay DEF TornSummaryWrite, ReplayInv
<1>16. ASSUME Midnight PROVE ReplayInv'
  <2>1. UNCHANGED <<log, currentDate, threadContexts, hidden>> /\ Recorded' = Recorded
    BY <1>16 DEF Midnight, session, disk, history, Recorded
  <2>. QED  BY <2>1, QuietReplay
<1>17. CASE UNCHANGED vars
  <2>1. UNCHANGED <<log, currentDate, threadContexts, hidden>> /\ Recorded' = Recorded
    BY <1>17 DEF vars, session, disk, actors, history, Recorded
  <2>. QED  BY <2>1, QuietReplay
<1>. QED  BY <1>1, <1>2, <1>3, <1>4, <1>5, <1>6, <1>7, <1>8, <1>9, <1>10, <1>11, <1>12, <1>13,
             <1>14, <1>15, <1>16, <1>17, <1>18 DEF Next, TurnStep

\* A loaded thread is, but for its own private exchanges, its log of all days in order
\* and once, however its turns overlap and whatever was seeded, lost in a crash or
\* written after midnight.
THEOREM ThreadsReplayTheirLog == Spec => []ThreadReplayMatchesLog
<1>1. ReplayInv => ThreadReplayMatchesLog
    BY DEF ReplayInv
<1>. QED  BY <1>1, InitPrivacy, NextPrivacy, InitReplay, NextReplay, TypeCorrect, PTL DEF Spec

-----------------------------------------------------------------------------
(* What the wiki knows of its logs *)

Stages == {"idle", "pass", "analyzing", "noting", "updating", "consolidating",
           "merging", "merged", "relinking", "rewriting"}

\* What a process holds of its pass.
Passes ==
    [pc : Stages, todo : SUBSET Docs, doc : Nat, seen : Nat, tracked : [Docs -> Nat],
     changed : BOOLEAN, onHold : SUBSET Docs, known : SUBSET Slugs, fresh : BOOLEAN, written : Nat,
     page : Slugs \cup {NoSlug}, appends : BOOLEAN, held : SUBSET (Docs \X Nat),
     into : Slugs \cup {NoSlug}, gone : Slugs \cup {NoSlug}, links : SUBSET Slugs]

Active(w) == w.pc # "idle"

\* A process has a log in hand: it is being analysed, or was and is not recorded yet.
Working(w) == w.pc \in {"analyzing", "noting", "updating"} \/ w.written > 0

\* What a process holds fits where it is.
Fit(w) ==
    /\ w \in Passes
    /\ Working(w) => w.doc \in Docs
    /\ w.pc \in {"updating", "merging", "rewriting"} => w.page \in Slugs
    /\ w.pc \in {"idle", "pass", "analyzing"} => w.written = 0
    /\ w.pc = "noting" => w.written > 0
    /\ w.pc = "merging" => w.gone \in Slugs /\ w.gone # w.page
    /\ w.pc \notin {"merging", "relinking", "rewriting"} => w.gone = NoSlug
    /\ w.pc = "rewriting" => w.appends

\* Of times and the log in hand, v knows what w does.
Keeps(w, v) ==
    /\ v.tracked = w.tracked /\ (v.changed <=> w.changed) /\ v.written = w.written
    /\ Working(v) => Working(w) /\ v.doc = w.doc /\ v.seen = w.seen
    /\ Active(v) <=> Active(w)

\* A time at which log d was indexed has a note of the log as it was then or later.
Analysed(d, time, taken) == \E n \in taken : n[1] = d /\ n[2] >= time

\* Every recorded time has one.
Fresh(times, taken) == \A d \in Docs : times[d] # Untracked => Analysed(d, times[d], taken)

\* No time is recorded that is yet to come.
Behind(times, now) == \A d \in Docs : times[d] <= now[d]

\* A process has noted what it means to record, and works on a log as it was or is.
Backed(w, taken, now) ==
    /\ Fresh(w.tracked, taken) /\ Behind(w.tracked, now)
    /\ w.written > 0 => NoteOf(w) \in taken
    /\ Working(w) => w.seen <= now[w.doc]

WikiType ==
    /\ mtime \in [Docs -> Nat] /\ tracked \in [Docs -> Nat]
    /\ pages \in [Slugs -> [exists : BOOLEAN, notes : SUBSET (Docs \X Nat)]]
    /\ ingested \subseteq Docs \X Nat
    /\ DOMAIN proc = Procs /\ \A p \in Procs : Fit(proc[p])

\* Inductive: the file at rest and the copies of both processes are as fresh as each other.
WikiInv ==
    /\ WikiType
    /\ Fresh(tracked, ingested) /\ Behind(tracked, mtime)
    /\ \A n \in ingested : n[2] <= mtime[n[1]]
    /\ \A p \in Procs : Backed(proc[p], ingested, mtime)

-----------------------------------------------------------------------------
(* What happens to the record of a process *)

\* A process before and after its passes.
LEMMA IdleShape ==
    /\ Fit(Idle) /\ ~Active(Idle) /\ ~Working(Idle) /\ Idle.tracked = Unindexed /\ Idle.held = {}
    BY DEF Idle, Fit, Passes, Stages, Working, Active, Untracked, Unindexed

\* A pass starts with the times on file, and so does a look at the pages.
LEMMA BegunShape ==
    ASSUME NEW w, Fit(w), ~Active(w), WikiType
    PROVE  \A v \in {Begun(w), Linting(w)} :
               /\ Fit(v) /\ Active(v) /\ ~Working(v) /\ v.tracked = tracked /\ ~v.changed
               /\ v.written = 0 /\ v.held = w.held /\ v.pc \in {"pass", "consolidating"}
<1>. DEFINE v == Begun(w)
            x == Linting(w)
<1>1. w \in Passes /\ w.written = 0 /\ w.gone = NoSlug
    BY DEF Fit, Active
<1>2. /\ v \in Passes /\ v.pc = "pass" /\ v.tracked = tracked /\ v.changed = FALSE
      /\ v.written = w.written /\ v.held = w.held /\ v.gone = w.gone
    BY <1>1 DEF Begun, Passes, Stages, WikiType
<1>3. x = [v EXCEPT !.pc = "consolidating", !.todo = {}, !.known = Present] /\ Present \subseteq Slugs
    BY DEF Linting, Present
<1>. HIDE DEF v, x
<1>4. /\ x \in Passes /\ x.pc = "consolidating" /\ x.tracked = tracked /\ x.changed = FALSE
      /\ x.written = w.written /\ x.held = w.held /\ x.gone = w.gone
    BY <1>2, <1>3 DEF Passes, Stages
<1>5. Fit(v) /\ Active(v) /\ ~Working(v) /\ Fit(x) /\ Active(x) /\ ~Working(x)
    BY <1>1, <1>2, <1>4 DEF Fit, Active, Working
<1>. QED  BY <1>1, <1>2, <1>4, <1>5 DEF v, x

\* Logs are passed over.
LEMMA PassedShape ==
    ASSUME NEW w, Fit(w), NEW d
    PROVE  \A v \in {Passed(w, d), Deferred(w)} : Fit(v) /\ Keeps(w, v) /\ v.held = w.held /\ v.pc = w.pc /\ v.gone = w.gone
    BY DEF Passed, Deferred, Fit, Passes, Stages, Keeps, Working, Active

\* A log is read and the model asked.
LEMMA AskingShape ==
    ASSUME NEW w, Fit(w), w.pc = "pass", NEW d \in Docs, WikiType
    PROVE  /\ Fit(Asking(w, d)) /\ Active(Asking(w, d)) /\ Asking(w, d).pc = "analyzing"
           /\ Asking(w, d).doc = d /\ Asking(w, d).seen = mtime[d] /\ Asking(w, d).written = 0
           /\ Asking(w, d).tracked = w.tracked /\ (Asking(w, d).changed <=> w.changed)
           /\ Asking(w, d).held = w.held
<1>. DEFINE v == Passed(w, d)
<1>1. /\ v \in Passes /\ v.tracked = w.tracked /\ (v.changed <=> w.changed) /\ v.written = 0
      /\ v.held = w.held /\ v.gone = NoSlug
    BY PassedShape DEF Fit, Keeps
<1>2. mtime[d] \in Nat /\ d \in Nat /\ Present \subseteq Slugs
    BY WikiAssumption DEF WikiType, Present
<1>3. PICK time \in Nat, known \in SUBSET Slugs : time = mtime[d] /\ known = Present
    BY <1>2
<1>4. PICK x : x = [v EXCEPT !.pc = "analyzing", !.doc = d, !.seen = time, !.known = known]
    OBVIOUS
<1>5. Asking(w, d) = x
    BY <1>3, <1>4 DEF Asking
<1>. HIDE DEF v
<1>6. x \in Passes
    BY <1>1, <1>2, <1>4 DEF Passes, Stages
<1>7. /\ x.pc = "analyzing" /\ x.doc = d /\ x.seen = time /\ x.written = v.written
      /\ x.tracked = v.tracked /\ x.changed = v.changed /\ x.held = v.held /\ x.gone = v.gone
    BY <1>1, <1>4 DEF Passes
<1>8. Fit(x) /\ Active(x)
    BY <1>1, <1>2, <1>6, <1>7 DEF Fit, Active, Working
<1>. QED  BY <1>1, <1>3, <1>5, <1>7, <1>8

\* The pass goes on.
LEMMA OnwardShape ==
    ASSUME NEW w, Fit(w)
    PROVE  /\ Fit(Onward(w)) /\ Active(Onward(w)) /\ ~Working(Onward(w)) /\ Onward(w).pc = "pass"
           /\ Onward(w).tracked = w.tracked /\ (Onward(w).changed <=> w.changed)
           /\ Onward(w).onHold = w.onHold /\ Onward(w).written = 0 /\ Onward(w).held = {}
           /\ Onward(w).gone = NoSlug
<1>. DEFINE v == Onward(w)
<1>1. w \in Passes /\ Untracked = 0
    BY DEF Fit, Untracked
<1>2. /\ v \in Passes /\ v.pc = "pass" /\ v.tracked = w.tracked /\ v.changed = w.changed
      /\ v.onHold = w.onHold /\ v.written = 0 /\ v.held = {} /\ v.gone = NoSlug
    BY <1>1 DEF Onward, Passes, Stages
<1>. HIDE DEF v
<1>3. Fit(v) /\ Active(v) /\ ~Working(v)
    BY <1>2 DEF Fit, Active, Working
<1>. QED  BY <1>2, <1>3 DEF v

\* The log counts as indexed at the time at which it was read.
LEMMA IndexedShape ==
    ASSUME NEW w, Fit(w)
    PROVE  /\ Fit(Indexed(w)) /\ Active(Indexed(w)) /\ ~Working(Indexed(w)) /\ Indexed(w).pc = "pass"
           /\ Indexed(w).changed /\ Indexed(w).tracked = [w.tracked EXCEPT ![w.doc] = w.seen]
           /\ Indexed(w).written = 0 /\ Indexed(w).held = {}
<1>. DEFINE v == Onward(w)
            times == [v.tracked EXCEPT ![w.doc] = w.seen]
            hold == v.onHold \ {w.doc}
            x == Indexed(w)
<1>1. v \in Passes /\ v.pc = "pass" /\ v.tracked = w.tracked /\ v.written = 0 /\ v.held = {} /\ v.gone = NoSlug
    BY OnwardShape DEF Fit
<1>2. times \in [Docs -> Nat] /\ hold \in SUBSET Docs
    BY <1>1 DEF Passes, Fit
<1>3. x = [v EXCEPT !.tracked = times, !.changed = TRUE, !.onHold = hold]
    BY DEF Indexed
<1>4. times = [w.tracked EXCEPT ![w.doc] = w.seen]
    BY <1>1
<1>. HIDE DEF v, times, hold, x
<1>5. x \in Passes /\ x.pc = "pass" /\ x.changed /\ x.tracked = times /\ x.written = 0 /\ x.held = {}
      /\ x.gone = NoSlug
    BY <1>1, <1>2, <1>3 DEF Passes
<1>6. Fit(x) /\ Active(x) /\ ~Working(x)
    BY <1>5 DEF Fit, Active, Working
<1>. QED  BY <1>4, <1>5, <1>6 DEF x

\* A log whose analysis failed waits.
LEMMA HeldShape ==
    ASSUME NEW w, Fit(w), Working(w)
    PROVE  /\ Fit(Held(w)) /\ Active(Held(w)) /\ ~Working(Held(w)) /\ Held(w).pc = "pass"
           /\ Held(w).tracked = w.tracked /\ (Held(w).changed <=> w.changed)
           /\ Held(w).written = 0 /\ Held(w).held = {}
<1>. DEFINE v == Onward(w)
            hold == v.onHold \cup {w.doc}
            x == Held(w)
<1>1. /\ v \in Passes /\ v.pc = "pass" /\ v.tracked = w.tracked /\ (v.changed <=> w.changed)
      /\ v.written = 0 /\ v.held = {} /\ v.gone = NoSlug
    BY OnwardShape DEF Fit
<1>2. hold \in SUBSET Docs
    BY <1>1 DEF Passes, Fit
<1>3. x = [v EXCEPT !.onHold = hold]
    BY DEF Held
<1>. HIDE DEF v, hold, x
<1>4. /\ x \in Passes /\ x.pc = "pass" /\ x.tracked = w.tracked /\ (x.changed <=> w.changed)
      /\ x.written = 0 /\ x.held = {}
      /\ x.gone = NoSlug
    BY <1>1, <1>2, <1>3 DEF Passes
<1>5. Fit(x) /\ Active(x) /\ ~Working(x)
    BY <1>4 DEF Fit, Active, Working
<1>. QED  BY <1>4, <1>5 DEF x

\* Or no longer.
LEMMA ReleasedShape ==
    ASSUME NEW w, Fit(w), NEW d
    PROVE  /\ Fit(Released(w, d)) /\ Keeps(w, Released(w, d)) /\ Released(w, d).pc = w.pc
           /\ Released(w, d).held = w.held /\ Released(w, d).page = w.page
           /\ Released(w, d).gone = w.gone /\ Released(w, d).appends = w.appends
    BY DEF Released, Fit, Passes, Keeps, Working, Active

\* A process after its pass.
LEMMA RestsShape ==
    ASSUME NEW w, Fit(w), NEW p \in Procs
    PROVE  /\ Fit(Rests(p, w)) /\ ~Active(Rests(p, w)) /\ ~Working(Rests(p, w))
           /\ Rests(p, w).tracked = Unindexed /\ Rests(p, w).held = {}
<1>. DEFINE x == [Idle EXCEPT !.onHold = w.onHold]
<1>1. Idle \in Passes /\ Idle.pc = "idle" /\ Idle.tracked = Unindexed /\ Idle.held = {} /\ Idle.written = 0 /\ Idle.gone = NoSlug
    BY IdleShape DEF Fit, Active
<1>2. w.onHold \in SUBSET Docs
    BY DEF Fit, Passes
<1>3. x \in Passes /\ x.pc = "idle" /\ x.tracked = Unindexed /\ x.held = {} /\ x.written = 0 /\ x.gone = NoSlug
    BY <1>1, <1>2 DEF Passes
<1>. HIDE DEF x
<1>4. Fit(x) /\ ~Active(x) /\ ~Working(x)
    BY <1>3 DEF Fit, Active, Working
<1>. QED  BY <1>3, <1>4, IdleShape DEF Rests, x

\* A page is opened.
LEMMA OpenedShape ==
    ASSUME NEW w, Fit(w), w.pc \in {"analyzing", "noting"}, NEW slug \in Slugs, NEW action, WikiType
    PROVE  /\ Fit(Opened(w, slug, action)) /\ Keeps(w, Opened(w, slug, action))
           /\ Opened(w, slug, action).pc = "updating" /\ Opened(w, slug, action).page = slug
           /\ Opened(w, slug, action).gone = w.gone
           /\ \/ Opened(w, slug, action).appends /\ Opened(w, slug, action).held = pages[slug].notes
              \/ ~Opened(w, slug, action).appends /\ Opened(w, slug, action).held = {}
<1>. DEFINE x == Opened(w, slug, action)
<1>1. PICK appends : appends = (action = "update" /\ pages[slug].exists)
    OBVIOUS
<1>2. PICK held \in SUBSET (Docs \X Nat) :
          held = IF action = "update" /\ pages[slug].exists THEN pages[slug].notes ELSE {}
    BY DEF WikiType
<1>3. PICK fresh : fresh = (w.fresh \/ slug \notin w.known)
    OBVIOUS
<1>4. PICK known : known = w.known \cup {slug}
    OBVIOUS
<1>5. appends \in BOOLEAN /\ fresh \in BOOLEAN /\ known \in SUBSET Slugs
    BY <1>1, <1>3, <1>4 DEF Fit, Passes
<1>6. x = [w EXCEPT !.pc = "updating", !.page = slug, !.appends = appends, !.held = held,
                    !.fresh = fresh, !.known = known]
    BY <1>1, <1>2, <1>3, <1>4 DEF Opened
<1>. HIDE DEF x
<1>7. /\ x.pc = "updating" /\ x.page = slug /\ x.appends = appends /\ x.held = held
      /\ x.tracked = w.tracked /\ x.changed = w.changed /\ x.written = w.written /\ x.doc = w.doc
      /\ x.seen = w.seen /\ x.gone = w.gone
    BY <1>6 DEF Fit, Passes
<1>8. x \in Passes
  <2>1. PICK y : y = [w EXCEPT !.pc = "updating", !.page = slug, !.appends = appends]
      OBVIOUS
  <2>2. y \in Passes
      BY <1>5, <2>1 DEF Fit, Passes, Stages
  <2>3. x = [y EXCEPT !.held = held, !.fresh = fresh, !.known = known]
      BY <1>6, <2>1 DEF Fit, Passes
  <2>. QED  BY <1>2, <1>5, <2>2, <2>3 DEF Passes
<1>9. Working(w) /\ w.doc \in Docs /\ Active(w)
    BY DEF Fit, Working, Active
<1>10. Fit(x) /\ Keeps(w, x)
    BY <1>7, <1>9, <1>8 DEF Fit, Keeps, Working, Active
<1>11. (x.appends /\ x.held = pages[slug].notes) \/ (~x.appends /\ x.held = {})
    BY <1>1, <1>2, <1>7
<1>. QED  BY <1>7, <1>10, <1>11 DEF x

\* A page is closed after a note.
LEMMA CountedShape ==
    ASSUME NEW w, Fit(w), w.pc = "updating"
    PROVE  \E v : /\ v = Counted(Closed(w, "noting")) /\ Fit(v) /\ Active(v) /\ v.pc = "noting"
                  /\ v.written = w.written + 1 /\ v.doc = w.doc /\ v.seen = w.seen /\ v.held = {}
                  /\ v.tracked = w.tracked /\ (v.changed <=> w.changed)
<1>1. PICK x : x = Closed(w, "noting")
    OBVIOUS
<1>2. /\ x \in Passes /\ x.pc = "noting" /\ x.written = w.written /\ x.doc = w.doc /\ x.seen = w.seen
      /\ x.held = {} /\ x.tracked = w.tracked /\ x.changed = w.changed /\ x.gone = NoSlug
    BY <1>1 DEF Closed, Fit, Passes, Stages
<1>3. PICK v : v = Counted(x)
    OBVIOUS
<1>4. /\ v \in Passes /\ v.pc = "noting" /\ v.written = w.written + 1 /\ v.doc = w.doc
      /\ v.seen = w.seen /\ v.held = {} /\ v.tracked = w.tracked /\ v.changed = w.changed
      /\ v.gone = NoSlug
    BY <1>2, <1>3 DEF Counted, Passes
<1>5. w.doc \in Docs /\ w.written \in Nat
    BY DEF Fit, Working, Passes
<1>6. v.written > 0
    BY <1>4, <1>5
<1>7. Fit(v) /\ Active(v)
    BY <1>4, <1>5, <1>6 DEF Fit, Active
<1>. QED  BY <1>1, <1>3, <1>4, <1>7

\* Pages are looked through after a new one.
LEMMA NotedShape ==
    ASSUME NEW w, Fit(w), w.pc = "noting"
    PROVE  \/ Noted(w) = Indexed(w)
           \/ Fit(Noted(w)) /\ Keeps(w, Noted(w)) /\ Noted(w).pc = "consolidating" /\ Noted(w).held = w.held
<1>1. PICK x : x = [w EXCEPT !.pc = "consolidating", !.known = Present]
    OBVIOUS
<1>2. /\ x \in Passes /\ x.pc = "consolidating" /\ x.tracked = w.tracked /\ x.changed = w.changed
      /\ x.written = w.written /\ x.doc = w.doc /\ x.seen = w.seen /\ x.held = w.held
      /\ x.gone = NoSlug
    BY <1>1 DEF Fit, Passes, Stages, Present
<1>3. Fit(x) /\ Keeps(w, x)
    BY <1>2 DEF Fit, Keeps, Working, Active
<1>. QED  BY <1>1, <1>2, <1>3 DEF Noted

\* A page is going to be merged into another one.
LEMMA MergingShape ==
    ASSUME NEW w, Fit(w), w.pc \in {"consolidating", "merged"}, NEW keep \in Slugs, NEW gone \in Slugs,
           keep # gone, WikiType
    PROVE  /\ Fit(Merging(w, keep, gone)) /\ Keeps(w, Merging(w, keep, gone))
           /\ Merging(w, keep, gone).pc = "merging" /\ Merging(w, keep, gone).gone = gone
           /\ Merging(w, keep, gone).held = pages[gone].notes
<1>. DEFINE x == Merging(w, keep, gone)
<1>1. PICK held \in SUBSET (Docs \X Nat) : held = pages[gone].notes
    BY DEF WikiType
<1>2. PICK known \in SUBSET Slugs : known = w.known \ {gone}
    BY DEF Fit, Passes
<1>3. x = [w EXCEPT !.pc = "merging", !.page = keep, !.appends = TRUE, !.held = held, !.into = keep,
                    !.gone = gone, !.known = known]
    BY <1>1, <1>2 DEF Merging
<1>. HIDE DEF x
<1>4. /\ x \in Passes /\ x.pc = "merging" /\ x.page = keep /\ x.gone = gone /\ x.held = held
      /\ x.tracked = w.tracked /\ x.changed = w.changed /\ x.written = w.written /\ x.doc = w.doc
      /\ x.seen = w.seen
    BY <1>3 DEF Fit, Passes, Stages
<1>5. Fit(x) /\ Keeps(w, x)
    BY <1>4 DEF Fit, Keeps, Working, Active
<1>. QED  BY <1>1, <1>4, <1>5 DEF x

\* Links are going to be changed.
LEMMA RelinkingShape ==
    ASSUME NEW w, Fit(w), w.pc \in {"consolidating", "merging", "merged", "rewriting"}, NEW links \in SUBSET Slugs
    PROVE  \A v \in {Relinking(w, links), Closed(w, "relinking")} :
               Fit(v) /\ Keeps(w, v) /\ v.pc = "relinking" /\ v.gone = w.gone /\ v.held = {}
<1>1. PICK x : x = Closed(w, "relinking")
    OBVIOUS
<1>2. /\ x \in Passes /\ x.pc = "relinking" /\ x.gone = w.gone /\ x.held = {} /\ x.tracked = w.tracked
      /\ x.changed = w.changed /\ x.written = w.written /\ x.doc = w.doc /\ x.seen = w.seen
    BY <1>1 DEF Closed, Fit, Passes, Stages
<1>3. PICK v : v = Relinking(w, links)
    OBVIOUS
<1>4. v = [x EXCEPT !.links = links]
    BY <1>1, <1>3 DEF Relinking
<1>5. /\ v \in Passes /\ v.pc = "relinking" /\ v.gone = w.gone /\ v.held = {} /\ v.tracked = w.tracked
      /\ v.changed = w.changed /\ v.written = w.written /\ v.doc = w.doc /\ v.seen = w.seen
    BY <1>2, <1>4 DEF Passes
<1>6. Fit(x) /\ Keeps(w, x) /\ Fit(v) /\ Keeps(w, v)
    BY <1>2, <1>5 DEF Fit, Keeps, Working, Active
<1>. QED  BY <1>1, <1>2, <1>3, <1>5, <1>6

\* The links of a page are read, if it is there.
LEMMA RereadingShape ==
    ASSUME NEW w, Fit(w), w.pc = "relinking", NEW s \in Slugs, WikiType
    PROVE  /\ Fit(Rereading(w, s)) /\ Keeps(w, Rereading(w, s)) /\ Rereading(w, s).gone = w.gone
           /\ \/ /\ Rereading(w, s).pc = "rewriting" /\ Rereading(w, s).page = s
                 /\ Rereading(w, s).held = pages[s].notes
              \/ Rereading(w, s).pc = "relinking" /\ Rereading(w, s).held = w.held
<1>1. PICK held \in SUBSET (Docs \X Nat) : held = pages[s].notes
    BY DEF WikiType
<1>2. PICK links \in SUBSET Slugs : links = w.links \ {s}
    BY DEF Fit, Passes
<1>3. PICK x : x = [w EXCEPT !.pc = "rewriting", !.page = s, !.appends = TRUE, !.held = held, !.links = links]
    OBVIOUS
<1>4. PICK y : y = [w EXCEPT !.links = links]
    OBVIOUS
<1>5. Rereading(w, s) = x \/ Rereading(w, s) = y
    BY <1>1, <1>2, <1>3, <1>4 DEF Rereading
<1>6. /\ x \in Passes /\ x.pc = "rewriting" /\ x.page = s /\ x.appends /\ x.held = held /\ x.gone = w.gone
      /\ x.tracked = w.tracked /\ x.changed = w.changed /\ x.written = w.written /\ x.doc = w.doc
      /\ x.seen = w.seen
    BY <1>3 DEF Fit, Passes, Stages
<1>7. /\ y \in Passes /\ y.pc = "relinking" /\ y.held = w.held /\ y.gone = w.gone
      /\ y.tracked = w.tracked /\ y.changed = w.changed /\ y.written = w.written /\ y.doc = w.doc
      /\ y.seen = w.seen
    BY <1>4 DEF Fit, Passes
<1>8. Fit(x) /\ Keeps(w, x) /\ Fit(y) /\ Keeps(w, y)
    BY <1>6, <1>7 DEF Fit, Keeps, Working, Active
<1>. QED  BY <1>1, <1>5, <1>6, <1>7, <1>8

\* A merge is over, or an error interrupts it.
LEMMA MergeOverShape ==
    ASSUME NEW w, Fit(w), w.pc \in {"merging", "relinking", "rewriting"}
    PROVE  /\ Fit(MergeOver(w)) /\ Keeps(w, MergeOver(w)) /\ MergeOver(w).pc = "merged" /\ MergeOver(w).held = {}
           /\ Fit(Interrupted(w)) /\ Keeps(w, Interrupted(w)) /\ Interrupted(w).held = {}
           /\ \/ Interrupted(w).pc = "merged"
              \/ w.pc = "rewriting" /\ Interrupted(w).pc = "relinking" /\ Interrupted(w).gone = w.gone
<1>1. PICK x : x = Closed(w, "merged")
    OBVIOUS
<1>2. /\ x \in Passes /\ x.pc = "merged" /\ x.held = {} /\ x.tracked = w.tracked
      /\ x.changed = w.changed /\ x.written = w.written /\ x.doc = w.doc /\ x.seen = w.seen
    BY <1>1 DEF Closed, Fit, Passes, Stages
<1>3. PICK v : v = MergeOver(w)
    OBVIOUS
<1>4. v = [x EXCEPT !.gone = NoSlug, !.links = {}]
    BY <1>1, <1>3 DEF MergeOver
<1>5. /\ v \in Passes /\ v.pc = "merged" /\ v.held = {} /\ v.tracked = w.tracked
      /\ v.changed = w.changed /\ v.written = w.written /\ v.doc = w.doc /\ v.seen = w.seen
      /\ v.gone = NoSlug
    BY <1>2, <1>4 DEF Passes
<1>6. Fit(v) /\ Keeps(w, v)
    BY <1>5 DEF Fit, Keeps, Working, Active
<1>7. CASE w.pc = "rewriting"
  <2>1. {} \in SUBSET Slugs /\ Interrupted(w) = Closed(w, "relinking")
      BY <1>7 DEF Interrupted
  <2>2. Fit(Interrupted(w)) /\ Keeps(w, Interrupted(w)) /\ Interrupted(w).pc = "relinking"
        /\ Interrupted(w).gone = w.gone /\ Interrupted(w).held = {}
      BY <1>7, <2>1, RelinkingShape
  <2>. QED  BY <1>3, <1>5, <1>6, <1>7, <2>2
<1>8. CASE w.pc # "rewriting"
  <2>1. Interrupted(w) = v
      BY <1>3, <1>8 DEF Interrupted
  <2>. QED  BY <1>3, <1>5, <1>6, <2>1
<1>. QED  BY <1>7, <1>8

\* The end of a consolidation, of a log in hand or of none.
LEMMA ConsolidatedShape ==
    ASSUME NEW w, Fit(w), Active(w), w.pc \notin {"analyzing", "noting", "updating"}
    PROVE  \/ w.written > 0 /\ Consolidated(w) = Indexed(w)
           \/ /\ Fit(Consolidated(w)) /\ Keeps(w, Consolidated(w))
              /\ Consolidated(w).pc = "pass" /\ Consolidated(w).held = {}
<1>1. CASE w.written > 0
    BY <1>1 DEF Consolidated
<1>2. CASE ~(w.written > 0)
  <2>1. w.written = 0 /\ Consolidated(w) = Onward(w)
      BY <1>2 DEF Consolidated, Fit, Passes
  <2>. QED  BY <2>1, OnwardShape DEF Keeps
<1>. QED  BY <1>1, <1>2

-----------------------------------------------------------------------------
(* The steps, as far as they concern logs and times *)

\* A process goes on with what it knows.
GoesOnWith(p, v) ==
    /\ proc' = [proc EXCEPT ![p] = v] /\ Fit(v) /\ Keeps(proc[p], v)
    /\ UNCHANGED <<mtime, tracked, ingested, twice, cut, overlapped>>

\* The log in hand is recorded.
Records(p) ==
    /\ proc[p].written > 0 /\ Active(proc[p])
    /\ Goes(p, Indexed(proc[p]))

\* An insert writes, opens or ends.
LEMMA InsertSteps ==
    ASSUME WikiInv, NEW p \in Procs, Inserts(p)
    PROVE  (\E v : GoesOnWith(p, v)) \/ Records(p) \/ WritePage(p) \/ NothingToNote(p) \/ InsertFails(p)
<1>1. Fit(proc[p]) /\ WikiType
    BY DEF WikiInv, WikiType
<1>2. ASSUME NEW s \in Slugs, NEW a \in {"create", "update"}, OpenPage(p, s, a)
      PROVE  \E v : GoesOnWith(p, v)
  <2>1. Fit(Opened(proc[p], s, a)) /\ Keeps(proc[p], Opened(proc[p], s, a))
      BY <1>1, <1>2, OpenedShape DEF OpenPage
  <2>2. GoesOnWith(p, Opened(proc[p], s, a))
      BY <1>2, <2>1 DEF OpenPage, Goes, GoesOnWith, wikiHistory
  <2>. QED  BY <2>2
<1>3. CASE EndInsert(p)
  <2>1. proc[p].pc = "noting" /\ proc[p].written > 0 /\ Goes(p, Noted(proc[p]))
      BY <1>1, <1>3 DEF EndInsert, Fit
  <2>2. CASE Noted(proc[p]) = Indexed(proc[p])
      BY <2>1, <2>2 DEF Records, Active
  <2>3. CASE Fit(Noted(proc[p])) /\ Keeps(proc[p], Noted(proc[p]))
    <3>1. GoesOnWith(p, Noted(proc[p]))
        BY <2>1, <2>3 DEF Goes, GoesOnWith, wikiHistory
    <3>. QED  BY <3>1
  <2>. QED  BY <1>1, <2>1, <2>2, <2>3, NotedShape
<1>. QED  BY <1>2, <1>3 DEF Inserts

\* A consolidation changes pages only.
LEMMA ConsolidateSteps ==
    ASSUME WikiInv, NEW p \in Procs, Consolidates(p)
    PROVE  (\E v : GoesOnWith(p, v)) \/ Records(p)
<1>1. PICK w : w = proc[p]
    OBVIOUS
<1>2. Fit(w) /\ WikiType
    BY <1>1 DEF WikiInv, WikiType
<1>3. ASSUME NEW v, Fit(v), Keeps(w, v), proc' = [proc EXCEPT ![p] = v],
             UNCHANGED <<mtime, tracked, ingested, twice, cut, overlapped>>
      PROVE  \E x : GoesOnWith(p, x)
    BY <1>1, <1>3 DEF GoesOnWith
<1>4. ASSUME NEW keep \in Slugs, NEW gone \in Slugs, Merge(p, keep, gone)
      PROVE  \E v : GoesOnWith(p, v)
  <2>1. Fit(Merging(w, keep, gone)) /\ Keeps(w, Merging(w, keep, gone))
      BY <1>1, <1>2, <1>4, MergingShape DEF Merge
  <2>. QED  BY <1>1, <1>3, <1>4, <2>1 DEF Merge, Goes, wikiHistory
<1>5. ASSUME NEW links \in SUBSET Slugs, AppendMerged(p, links)
      PROVE  \E v : GoesOnWith(p, v)
  <2>1. Fit(Relinking(w, links)) /\ Keeps(w, Relinking(w, links))
      BY <1>1, <1>2, <1>5, RelinkingShape DEF AppendMerged
  <2>. QED  BY <1>1, <1>3, <1>5, <2>1 DEF AppendMerged, wikiHistory
<1>6. ASSUME Goes(p, Consolidated(w)), Active(w), w.pc \notin {"analyzing", "noting", "updating"}
      PROVE  (\E v : GoesOnWith(p, v)) \/ Records(p)
  <2>1. CASE w.written > 0 /\ Consolidated(w) = Indexed(w)
      BY <1>1, <1>6, <2>1 DEF Records
  <2>2. CASE Fit(Consolidated(w)) /\ Keeps(w, Consolidated(w))
      BY <1>3, <1>6, <2>2 DEF Goes, wikiHistory
  <2>. QED  BY <1>2, <1>6, <2>1, <2>2, ConsolidatedShape
<1>7. ASSUME NEW links \in SUBSET Slugs, AddLinks(p, links)
      PROVE  (\E v : GoesOnWith(p, v)) \/ Records(p)
  <2>1. w.pc \in {"consolidating", "merged"}
      BY <1>1, <1>7 DEF AddLinks
  <2>2. CASE links = {}
      BY <1>1, <1>6, <1>7, <2>1, <2>2 DEF AddLinks, Active
  <2>3. CASE links # {}
    <3>1. Fit(Relinking(w, links)) /\ Keeps(w, Relinking(w, links))
        BY <1>2, <2>1, RelinkingShape
    <3>. QED  BY <1>1, <1>3, <1>7, <2>3, <3>1 DEF AddLinks, Goes, wikiHistory
  <2>. QED  BY <2>2, <2>3
<1>8. ASSUME NEW s \in Slugs, ReadLinks(p, s) PROVE \E v : GoesOnWith(p, v)
  <2>1. Fit(Rereading(w, s)) /\ Keeps(w, Rereading(w, s))
      BY <1>1, <1>2, <1>8, RereadingShape DEF ReadLinks
  <2>. QED  BY <1>1, <1>3, <1>8, <2>1 DEF ReadLinks, Goes, wikiHistory
<1>9. CASE WriteLinks(p)
  <2>1. w.pc = "rewriting" /\ {} \in SUBSET Slugs
      BY <1>1, <1>9 DEF WriteLinks
  <2>2. Fit(Closed(w, "relinking")) /\ Keeps(w, Closed(w, "relinking"))
      BY <1>2, <2>1, RelinkingShape
  <2>. QED  BY <1>1, <1>3, <1>9, <2>2 DEF WriteLinks
<1>10. CASE RemoveMerged(p)
  <2>1. Fit(MergeOver(w)) /\ Keeps(w, MergeOver(w))
      BY <1>1, <1>2, <1>10, MergeOverShape DEF RemoveMerged
  <2>. QED  BY <1>1, <1>3, <1>10, <2>1 DEF RemoveMerged
<1>11. CASE MergeFails(p)
  <2>1. Fit(Interrupted(w)) /\ Keeps(w, Interrupted(w))
      BY <1>1, <1>2, <1>11, MergeOverShape DEF MergeFails
  <2>. QED  BY <1>1, <1>3, <1>11, <2>1 DEF MergeFails
<1>12. CASE EndLinks(p)
    BY <1>1, <1>6, <1>12 DEF EndLinks, Active
<1>. QED  BY <1>4, <1>5, <1>7, <1>8, <1>9, <1>10, <1>11, <1>12 DEF Consolidates

\* What a step is: of a process, of a log, or none.
WikiSteps(p) ==
    \/ \E v : GoesOnWith(p, v)
    \/ \E v \in {Begun(proc[p]), Linting(proc[p])} : Starts(p, v)
    \/ Analyze(p) \/ Records(p) \/ WritePage(p) \/ NothingToNote(p) \/ InsertFails(p)
    \/ EndPass(p) \/ SaveBreaksOff(p) \/ Stop(p)
    \/ ~Active(proc[p]) /\ Goes(p, Idle)

LEMMA WikiCases ==
    ASSUME WikiInv, [WikiNext]_wikiVars
    PROVE  UNCHANGED wikiVars \/ (\E d \in Docs : Edit(d)) \/ \E p \in Procs : WikiSteps(p)
<1>1. ASSUME NEW p \in Procs PROVE Fit(proc[p])
    BY DEF WikiInv, WikiType
<1>2. ASSUME NEW p \in Procs, Skip(p) PROVE WikiSteps(p)
  <2>1. PICK d : Goes(p, Passed(proc[p], d))
      BY <1>2 DEF Skip
  <2>2. GoesOnWith(p, Passed(proc[p], d))
      BY <1>1, <2>1, PassedShape DEF Goes, GoesOnWith, wikiHistory
  <2>. QED  BY <2>2 DEF WikiSteps
<1>3. ASSUME NEW p \in Procs, Defer(p) PROVE WikiSteps(p)
  <2>1. GoesOnWith(p, Deferred(proc[p]))
      BY <1>1, <1>3, PassedShape DEF Defer, GoesOnWith, wikiHistory
  <2>. QED  BY <2>1 DEF WikiSteps
<1>4. ASSUME NEW p \in Procs, NEW d \in Docs, HoldEnds(p, d) PROVE WikiSteps(p)
  <2>1. GoesOnWith(p, Released(proc[p], d))
      BY <1>1, <1>4, ReleasedShape DEF HoldEnds, Goes, GoesOnWith, wikiHistory
  <2>. QED  BY <2>1 DEF WikiSteps
<1>5. ASSUME Reload PROVE WikiSteps("scheduler")
    BY <1>5 DEF Reload, WikiSteps, Active
<1>6. ASSUME NEW p \in Procs, BeginPass(p) \/ BeginLint(p) PROVE WikiSteps(p)
  <2>1. PICK v \in {Begun(proc[p]), Linting(proc[p])} : Starts(p, v)
      BY <1>6 DEF BeginPass, BeginLint
  <2>. QED  BY <2>1 DEF WikiSteps
<1>7. ASSUME NEW p \in Procs, Inserts(p) PROVE WikiSteps(p)
    BY <1>7, InsertSteps DEF WikiSteps
<1>8. ASSUME NEW p \in Procs, Consolidates(p) PROVE WikiSteps(p)
    BY <1>8, ConsolidateSteps DEF WikiSteps
<1>9. ASSUME NEW p \in Procs, Analyze(p) \/ EndPass(p) \/ SaveBreaksOff(p) \/ Stop(p) PROVE WikiSteps(p)
    BY <1>9 DEF WikiSteps
<1>10. ASSUME NEW p \in Procs, PassStep(p) PROVE WikiSteps(p)
    BY <1>2, <1>3, <1>6, <1>7, <1>8, <1>9, <1>10 DEF PassStep
<1>11. "scheduler" \in Procs
    BY DEF Procs
<1>. QED  BY <1>4, <1>5, <1>6, <1>9, <1>10, <1>11 DEF WikiNext

-----------------------------------------------------------------------------
(* What is backed stays so *)

\* More notes vouch for as many times.
LEMMA MoreFresh ==
    ASSUME NEW taken, NEW more, taken \subseteq more, NEW times, Fresh(times, taken)
    PROVE  Fresh(times, more)
    BY DEF Fresh, Analysed

\* Times without an entry need no notes.
LEMMA UnindexedFresh ==
    ASSUME NEW taken, NEW now \in [Docs -> Nat]
    PROVE  Fresh(Unindexed, taken) /\ Behind(Unindexed, now) /\ Unindexed \in [Docs -> Nat]
    BY DEF Unindexed, Untracked, Fresh, Behind

\* A process that has no log in hand is backed by its times.
LEMMA IdlyBacked ==
    ASSUME NEW v, Fit(v), ~Working(v), NEW taken, NEW now, Fresh(v.tracked, taken), Behind(v.tracked, now)
    PROVE  Backed(v, taken, now)
    BY DEF Backed, Working

\* And one that keeps what it knows by what backed it.
LEMMA KeepsBacked ==
    ASSUME NEW w, NEW v, Keeps(w, v), NEW taken, NEW now, Backed(w, taken, now)
    PROVE  Backed(v, taken, now)
    BY DEF Backed, Keeps, Working, NoteOf

\* More notes do no harm.
LEMMA MoreBacked ==
    ASSUME NEW taken, NEW more, taken \subseteq more, NEW w, NEW now, Backed(w, taken, now)
    PROVE  Backed(w, more, now)
    BY MoreFresh DEF Backed

\* A log whose content has been noted may be recorded.
LEMMA IndexedBacked ==
    ASSUME NEW taken, NEW now \in [Docs -> Nat], NEW w, Fit(w), Working(w), Backed(w, taken, now),
           NoteOf(w) \in taken
    PROVE  Backed(Indexed(w), taken, now)
<1>1. PICK x : x = Indexed(w)
    OBVIOUS
<1>2. Fit(x) /\ ~Working(x) /\ x.tracked = [w.tracked EXCEPT ![w.doc] = w.seen]
    BY <1>1, IndexedShape
<1>3. w.tracked \in [Docs -> Nat] /\ w.seen \in Nat /\ w.doc \in Docs
    BY DEF Fit, Passes
<1>4. x.tracked[w.doc] = w.seen /\ \A d \in Docs \ {w.doc} : x.tracked[d] = w.tracked[d]
    BY <1>2, <1>3
<1>5. Analysed(w.doc, w.seen, taken)
    BY <1>3 DEF Analysed, NoteOf
<1>6. Fresh(x.tracked, taken)
    BY <1>4, <1>5 DEF Fresh, Backed
<1>7. Behind(x.tracked, now)
    BY <1>4 DEF Behind, Backed
<1>. QED  BY <1>1, <1>2, <1>6, <1>7, IdlyBacked

\* Every write leaves pages that are pages.
LEMMA PagesTyped ==
    ASSUME WikiInv, [WikiNext]_wikiVars
    PROVE  pages' \in [Slugs -> [exists : BOOLEAN, notes : SUBSET (Docs \X Nat)]]
<1>. DEFINE Sheet == [exists : BOOLEAN, notes : SUBSET (Docs \X Nat)]
<1>. HIDE DEF Sheet
<1>1. pages \in [Slugs -> Sheet] /\ \A p \in Procs : Fit(proc[p])
    BY DEF WikiInv, WikiType, Sheet
<1>2. ASSUME NEW s, NEW x \in Sheet, pages' = [pages EXCEPT ![s] = x] PROVE pages' \in [Slugs -> Sheet]
    BY <1>1, <1>2
<1>3. NoPage \in Sheet /\ [exists |-> TRUE, notes |-> {}] \in Sheet
    BY DEF NoPage, Sheet
<1>4. ASSUME NEW p \in Procs, Working(proc[p]) \/ proc[p].pc # "updating" PROVE Contents(proc[p]) \in SUBSET (Docs \X Nat)
    BY <1>1, <1>4 DEF Contents, NoteOf, Fit, Passes, Working
<1>5. ASSUME NEW p \in Procs, Puts(p, proc[p]) PROVE pages' \in [Slugs -> Sheet]
  <2>1. Contents(proc[p]) \in SUBSET (Docs \X Nat)
      BY <1>4 DEF Working
  <2>2. PICK x \in Sheet : x = [exists |-> TRUE, notes |-> Contents(proc[p])]
      BY <2>1 DEF Sheet
  <2>3. pages' = [pages EXCEPT ![proc[p].page] = x]
      BY <1>5, <2>2 DEF Puts
  <2>. QED  BY <1>2, <2>3
<1>6. ASSUME NEW p \in Procs, NEW links, AppendMerged(p, links) PROVE pages' \in [Slugs -> Sheet]
  <2>1. proc[p].page \in Slugs /\ proc[p].held \in SUBSET (Docs \X Nat)
      BY <1>1, <1>6 DEF AppendMerged, Fit, Passes
  <2>2. Joined(proc[p]) \in SUBSET (Docs \X Nat)
      BY <1>1, <2>1 DEF Joined, Sheet
  <2>3. PICK x \in Sheet : x = [exists |-> TRUE, notes |-> Joined(proc[p])]
      BY <2>2 DEF Sheet
  <2>4. pages' = [pages EXCEPT ![proc[p].page] = x]
      BY <1>6, <2>3 DEF AppendMerged
  <2>. QED  BY <1>2, <2>4
<1>7. ASSUME NEW p \in Procs, BreaksOff(proc[p]) PROVE pages' \in [Slugs -> Sheet]
    BY <1>1, <1>2, <1>3, <1>7 DEF BreaksOff
<1>8. ASSUME NEW p \in Procs, RemoveMerged(p) PROVE pages' \in [Slugs -> Sheet]
    BY <1>2, <1>3, <1>8 DEF RemoveMerged
<1>9. ASSUME pages' = pages PROVE pages' \in [Slugs -> Sheet]
    BY <1>1, <1>9
<1>10. ASSUME NEW p \in Procs, Inserts(p) PROVE pages' \in [Slugs -> Sheet]
  <2>1. CASE WritePage(p)
      BY <1>5, <2>1 DEF WritePage
  <2>2. CASE InsertFails(p)
      BY <1>7, <2>2 DEF InsertFails
  <2>. QED  BY <1>9, <1>10, <2>1, <2>2 DEF Inserts, OpenPage, EndInsert, NothingToNote, Goes
<1>11. ASSUME NEW p \in Procs, Consolidates(p) PROVE pages' \in [Slugs -> Sheet]
  <2>1. CASE WriteLinks(p)
      BY <1>5, <2>1 DEF WriteLinks
  <2>2. CASE MergeFails(p)
      BY <1>7, <2>2 DEF MergeFails
  <2>. QED  BY <1>6, <1>8, <1>9, <1>11, <2>1, <2>2 DEF Consolidates, Merge, AddLinks, ReadLinks, EndLinks, Goes
<1>12. ASSUME NEW p \in Procs, PassStep(p) PROVE pages' \in [Slugs -> Sheet]
    BY <1>9, <1>10, <1>11, <1>12 DEF PassStep, BeginPass, Starts, Skip, Defer, Analyze, EndPass, Goes
<1>13. ASSUME NEW p \in Procs, BeginLint(p) \/ SaveBreaksOff(p) \/ Stop(p) PROVE pages' \in [Slugs -> Sheet]
    BY <1>7, <1>9, <1>13 DEF BeginLint, Starts, SaveBreaksOff, Stop
<1>14. ASSUME (\E d \in Docs : Edit(d) \/ \E p \in Procs : HoldEnds(p, d)) \/ Reload \/ UNCHANGED wikiVars
       PROVE  pages' \in [Slugs -> Sheet]
    BY <1>9, <1>14 DEF Edit, HoldEnds, Reload, Goes, wikiVars
<1>15. pages' \in [Slugs -> Sheet]
    BY <1>12, <1>13, <1>14 DEF WikiNext
<1>. QED  BY <1>15 DEF Sheet


-----------------------------------------------------------------------------
(* The times on file are never ahead of the notes *)

\* One process moves, on a file that is as fresh as it was.
LEMMA OneMoves ==
    ASSUME WikiInv, NEW p \in Procs, NEW v, proc' = [proc EXCEPT ![p] = v], Fit(v),
           Backed(v, ingested', mtime), mtime' = mtime, ingested \subseteq ingested',
           ingested' \subseteq Docs \X Nat, \A n \in ingested' : n[2] <= mtime[n[1]],
           tracked' \in [Docs -> Nat], Fresh(tracked', ingested'), Behind(tracked', mtime),
           [WikiNext]_wikiVars
    PROVE  WikiInv'
<1>1. proc'[p] = v /\ (\A q \in Procs \ {p} : proc'[q] = proc[q]) /\ DOMAIN proc' = Procs
    BY DEF WikiInv, WikiType
<1>2. \A q \in Procs : Fit(proc'[q])
    BY <1>1 DEF WikiInv, WikiType
<1>3. \A q \in Procs : Backed(proc'[q], ingested', mtime)
    BY <1>1, MoreBacked DEF WikiInv
<1>4. pages' \in [Slugs -> [exists : BOOLEAN, notes : SUBSET (Docs \X Nat)]]
    BY PagesTyped
<1>5. WikiType'
    BY <1>1, <1>2, <1>4 DEF WikiInv, WikiType
<1>. QED  BY <1>3, <1>5 DEF WikiInv

\* And nothing was noted or recorded.
LEMMA OneMovesQuietly ==
    ASSUME WikiInv, NEW p \in Procs, NEW v, proc' = [proc EXCEPT ![p] = v], Fit(v),
           Backed(v, ingested, mtime), UNCHANGED <<mtime, tracked, ingested>>, [WikiNext]_wikiVars
    PROVE  WikiInv'
<1>1. /\ tracked' \in [Docs -> Nat] /\ Fresh(tracked', ingested') /\ Behind(tracked', mtime)
      /\ ingested' \subseteq Docs \X Nat /\ \A n \in ingested' : n[2] <= mtime[n[1]]
    BY DEF WikiInv, WikiType
<1>. QED  BY <1>1, OneMoves

\* What a process at rest knows is backed by nothing.
LEMMA RestBacked ==
    ASSUME WikiInv, NEW v, Fit(v), ~Working(v), v.tracked = Unindexed
    PROVE  Backed(v, ingested, mtime)
<1>1. Fresh(Unindexed, ingested) /\ Behind(Unindexed, mtime)
    BY UnindexedFresh DEF WikiInv, WikiType
<1>. QED  BY <1>1, IdlyBacked

\* A log of which something has been noted is one that there is, as it was or is.
LEMMA NoteShape ==
    ASSUME WikiInv, NEW p \in Procs, Working(proc[p])
    PROVE  NoteOf(proc[p]) \in Docs \X Nat /\ NoteOf(proc[p])[2] <= mtime[NoteOf(proc[p])[1]]
    BY DEF WikiInv, WikiType, Fit, Passes, Backed, NoteOf

LEMMA WikiStep == WikiInv /\ [WikiNext]_wikiVars => WikiInv'
<1>. SUFFICES ASSUME WikiInv, [WikiNext]_wikiVars PROVE WikiInv'
    OBVIOUS
<1>. USE DEF Active
<1>1. CASE UNCHANGED wikiVars
    BY <1>1 DEF WikiInv, WikiType, wikiVars
<1>2. ASSUME NEW d \in Docs, Edit(d) PROVE WikiInv'
  <2>1. /\ mtime' = [mtime EXCEPT ![d] = @ + 1] /\ tracked' = tracked /\ pages' = pages /\ proc' = proc
        /\ ingested' = ingested
      BY <1>2 DEF Edit, wikiHistory
  <2>2. mtime' \in [Docs -> Nat] /\ \A e \in Docs : mtime[e] <= mtime'[e]
      BY <2>1 DEF WikiInv, WikiType
  <2>3. WikiType'
      BY <2>1, <2>2 DEF WikiInv, WikiType
  <2>4. ASSUME NEW times \in [Docs -> Nat], Behind(times, mtime) PROVE Behind(times, mtime')
      BY <2>2, <2>4 DEF Behind, WikiInv, WikiType
  <2>5. Fresh(tracked', ingested') /\ Behind(tracked', mtime')
      BY <2>1, <2>4 DEF WikiInv, WikiType
  <2>6. \A n \in ingested' : n[2] <= mtime'[n[1]]
      BY <2>1, <2>2 DEF WikiInv, WikiType
  <2>7. ASSUME NEW p \in Procs PROVE Backed(proc'[p], ingested', mtime')
    <3>1. Backed(proc[p], ingested, mtime) /\ Fit(proc[p])
        BY DEF WikiInv, WikiType
    <3>2. Behind(proc[p].tracked, mtime')
        BY <2>4, <3>1 DEF Backed, Fit, Passes
    <3>3. Working(proc[p]) => proc[p].seen <= mtime'[proc[p].doc]
        BY <2>2, <3>1 DEF Backed, Fit, Passes, WikiInv, WikiType
    <3>. QED  BY <2>1, <3>1, <3>2, <3>3 DEF Backed
  <2>. QED  BY <2>3, <2>5, <2>6, <2>7 DEF WikiInv
<1>3. ASSUME NEW p \in Procs, WikiSteps(p) PROVE WikiInv'
  <2>1. PICK w : w = proc[p]
      OBVIOUS
  <2>2. Fit(w) /\ Backed(w, ingested, mtime) /\ WikiType
      BY <2>1 DEF WikiInv, WikiType
  <2>3. ASSUME NEW v, GoesOnWith(p, v) PROVE WikiInv'
    <3>1. Backed(v, ingested, mtime)
        BY <2>1, <2>2, <2>3, KeepsBacked DEF GoesOnWith
    <3>. QED  BY <2>3, <3>1, OneMovesQuietly DEF GoesOnWith
  <2>4. ASSUME NEW v \in {Begun(w), Linting(w)}, Starts(p, v) PROVE WikiInv'
    <3>1. Fit(v) /\ ~Working(v) /\ v.tracked = tracked
        BY <2>1, <2>2, <2>4, BegunShape DEF Starts
    <3>2. Backed(v, ingested, mtime)
        BY <3>1, IdlyBacked DEF WikiInv
    <3>. QED  BY <2>4, <3>1, <3>2, OneMovesQuietly DEF Starts
  <2>5. CASE Analyze(p)
    <3>1. PICK d \in Docs : Goes(p, Asking(w, d)) /\ w.pc = "pass"
        BY <2>1, <2>2, <2>5 DEF Analyze, Earliest, Fit, Passes
    <3>2. PICK v : v = Asking(w, d)
        OBVIOUS
    <3>3. Fit(v) /\ v.doc = d /\ v.seen = mtime[d] /\ v.written = 0 /\ v.tracked = w.tracked
        BY <2>2, <3>1, <3>2, AskingShape
    <3>4. mtime[d] \in Nat
        BY <2>2 DEF WikiType
    <3>5. Backed(v, ingested, mtime)
        BY <2>2, <3>3, <3>4 DEF Backed
    <3>. QED  BY <3>1, <3>2, <3>3, <3>5, OneMovesQuietly DEF Goes, wikiHistory
  <2>6. CASE Records(p)
    <3>1. Working(w) /\ NoteOf(w) \in ingested /\ mtime \in [Docs -> Nat]
        BY <2>1, <2>2, <2>6 DEF Records, Working, Backed, WikiType
    <3>2. Backed(Indexed(w), ingested, mtime) /\ Fit(Indexed(w))
        BY <2>2, <3>1, IndexedBacked, IndexedShape
    <3>. QED  BY <2>1, <2>6, <3>2, OneMovesQuietly DEF Records, Goes, wikiHistory
  <2>7. ASSUME ingested' = ingested \cup {NoteOf(w)}, Working(w), mtime' = mtime, tracked' = tracked
        PROVE  /\ ingested \subseteq ingested' /\ ingested' \subseteq Docs \X Nat
               /\ \A n \in ingested' : n[2] <= mtime[n[1]]
               /\ tracked' \in [Docs -> Nat] /\ Fresh(tracked', ingested') /\ Behind(tracked', mtime)
               /\ NoteOf(w) \in ingested' /\ Backed(w, ingested', mtime)
    <3>1. ingested \subseteq ingested' /\ NoteOf(w) \in ingested'
        BY <2>7
    <3>2. NoteOf(w) \in Docs \X Nat /\ NoteOf(w)[2] <= mtime[NoteOf(w)[1]]
        BY <2>1, <2>7, NoteShape
    <3>3. ingested' \subseteq Docs \X Nat /\ \A n \in ingested' : n[2] <= mtime[n[1]]
        BY <2>7, <3>2 DEF WikiInv, WikiType
    <3>4. Fresh(tracked', ingested') /\ Backed(w, ingested', mtime)
        BY <2>2, <2>7, <3>1, MoreFresh, MoreBacked DEF WikiInv
    <3>5. tracked' \in [Docs -> Nat] /\ Behind(tracked', mtime)
        BY <2>7 DEF WikiInv, WikiType
    <3>. QED  BY <3>1, <3>2, <3>3, <3>4, <3>5
  <2>8. CASE WritePage(p)
    <3>1. w.pc = "updating" /\ Working(w)
        BY <2>1, <2>8 DEF WritePage, Working
    <3>2. PICK v : /\ v = Counted(Closed(w, "noting")) /\ Fit(v) /\ v.written = w.written + 1
                   /\ v.doc = w.doc /\ v.seen = w.seen /\ v.tracked = w.tracked
        BY <2>2, <3>1, CountedShape
    <3>3. /\ proc' = [proc EXCEPT ![p] = v] /\ ingested' = ingested \cup {NoteOf(w)}
          /\ mtime' = mtime /\ tracked' = tracked
        BY <2>1, <2>8, <3>2 DEF WritePage
    <3>4. Backed(w, ingested', mtime) /\ NoteOf(w) \in ingested'
        BY <2>7, <3>1, <3>3
    <3>5. Backed(v, ingested', mtime)
        BY <3>1, <3>2, <3>4 DEF Backed, NoteOf
    <3>. QED  BY <2>7, <3>1, <3>2, <3>3, <3>5, OneMoves
  <2>9. CASE NothingToNote(p)
    <3>1. Working(w) /\ proc' = [proc EXCEPT ![p] = Indexed(w)] /\ ingested' = ingested \cup {NoteOf(w)}
          /\ mtime' = mtime /\ tracked' = tracked
        BY <2>1, <2>9 DEF NothingToNote, Working
    <3>2. Backed(w, ingested', mtime) /\ NoteOf(w) \in ingested' /\ mtime \in [Docs -> Nat]
        BY <2>2, <2>7, <3>1 DEF WikiType
    <3>3. Backed(Indexed(w), ingested', mtime) /\ Fit(Indexed(w))
        BY <2>2, <3>1, <3>2, IndexedBacked, IndexedShape
    <3>. QED  BY <2>7, <3>1, <3>3, OneMoves
  <2>10. CASE InsertFails(p)
    <3>1. Working(w) \/ w.pc = "noting"
        BY <2>1, <2>10 DEF InsertFails, Working
    <3>2. Working(w)
        BY <3>1 DEF Working
    <3>3. Fit(Held(w)) /\ ~Working(Held(w)) /\ Held(w).tracked = w.tracked
        BY <2>2, <3>2, HeldShape
    <3>4. Backed(Held(w), ingested, mtime)
        BY <2>2, <3>3, IdlyBacked DEF Backed
    <3>. QED  BY <2>1, <2>10, <3>3, <3>4, OneMovesQuietly DEF InsertFails
  <2>11. ASSUME NEW v, Fit(v), ~Working(v), v.tracked = Unindexed, proc' = [proc EXCEPT ![p] = v],
                tracked' \in {tracked, w.tracked, Unindexed}, mtime' = mtime, ingested' = ingested
         PROVE  WikiInv'
    <3>1. Backed(v, ingested', mtime)
        BY <2>11, RestBacked
    <3>2. tracked' \in [Docs -> Nat] /\ Fresh(tracked', ingested') /\ Behind(tracked', mtime)
      <4>1. /\ Fresh(Unindexed, ingested) /\ Behind(Unindexed, mtime) /\ Unindexed \in [Docs -> Nat]
          BY <2>2, UnindexedFresh DEF WikiType
      <4>. QED  BY <2>2, <2>11, <4>1 DEF WikiInv, WikiType, Backed, Fit, Passes
    <3>3. ingested' \subseteq Docs \X Nat /\ \A n \in ingested' : n[2] <= mtime[n[1]]
        BY <2>11 DEF WikiInv, WikiType
    <3>. QED  BY <2>11, <3>1, <3>2, <3>3, OneMoves
  <2>12. CASE EndPass(p)
    <3>1. proc' = [proc EXCEPT ![p] = Rests(p, w)] /\ tracked' = Saved(w) /\ mtime' = mtime /\ ingested' = ingested
        BY <2>1, <2>12 DEF EndPass
    <3>2. Saved(w) \in {tracked, w.tracked}
        BY DEF Saved
    <3>. QED  BY <2>2, <2>11, <3>1, <3>2, RestsShape
  <2>13. CASE SaveBreaksOff(p)
    <3>1. PICK v \in {Idle, Rests(p, w)} : proc' = [proc EXCEPT ![p] = v]
        BY <2>1, <2>13 DEF SaveBreaksOff
    <3>2. tracked' = Unindexed /\ mtime' = mtime /\ ingested' = ingested
        BY <2>13 DEF SaveBreaksOff
    <3>3. Fit(v) /\ ~Working(v) /\ v.tracked = Unindexed
        BY <2>2, <3>1, IdleShape, RestsShape
    <3>. QED  BY <2>11, <3>1, <3>2, <3>3
  <2>14. CASE Stop(p) \/ (~Active(proc[p]) /\ Goes(p, Idle))
    <3>1. proc' = [proc EXCEPT ![p] = Idle] /\ mtime' = mtime /\ ingested' = ingested /\ tracked' = tracked
        BY <2>14 DEF Stop, Goes, wikiHistory
    <3>. QED  BY <2>11, <3>1, IdleShape
  <2>. QED  BY <1>3, <2>1, <2>3, <2>4, <2>5, <2>6, <2>8, <2>9, <2>10, <2>12, <2>13, <2>14 DEF WikiSteps
<1>. QED  BY <1>1, <1>2, <1>3, WikiCases

LEMMA WikiStart == WikiInit => WikiInv
<1>. SUFFICES ASSUME WikiInit PROVE WikiInv
    OBVIOUS
<1>1. /\ mtime = [d \in Docs |-> 1] /\ tracked = Unindexed /\ pages = [s \in Slugs |-> NoPage]
      /\ proc = [p \in Procs |-> Idle] /\ ingested = {}
    BY DEF WikiInit
<1>2. mtime \in [Docs -> Nat] /\ pages \in [Slugs -> [exists : BOOLEAN, notes : SUBSET (Docs \X Nat)]]
    BY <1>1 DEF NoPage
<1>3. Fresh(Unindexed, ingested) /\ Behind(Unindexed, mtime) /\ Unindexed \in [Docs -> Nat]
    BY <1>2, UnindexedFresh
<1>4. DOMAIN proc = Procs /\ \A p \in Procs : proc[p] = Idle
    BY <1>1
<1>5. Backed(Idle, ingested, mtime)
    BY <1>3, IdleShape, IdlyBacked
<1>. QED  BY <1>1, <1>2, <1>3, <1>4, <1>5, IdleShape DEF WikiInv, WikiType

LEMMA AlwaysWikiInv == WikiSpec => []WikiInv
    BY WikiStart, WikiStep, PTL DEF WikiSpec

\* A log that is recorded as indexed was analysed as it was then or later: neither an edit
\* during the analysis nor the other process makes old content count as new.  A process's
\* copy of the times is as fresh as the file it replaces.
THEOREM IndexIsNeverAhead == WikiSpec => []IndexedIsFresh
<1>1. WikiInv => IndexedIsFresh
    BY DEF WikiInv, Fresh, Analysed, IndexedIsFresh
<1>. QED  BY <1>1, AlwaysWikiInv, PTL

\* A log whose recorded time is its own has been noted as it is.
UpToDate == \A d \in Docs : /\ tracked[d] <= mtime[d]
                            /\ tracked[d] = mtime[d] /\ mtime[d] # Untracked => <<d, mtime[d]>> \in ingested

\* No time is recorded that the log has not had, and where the recorded time is that of the
\* log, its present content has been noted.
THEOREM UpToDateIsNoted == WikiSpec => []UpToDate
<1>1. WikiInv => UpToDate
  <2>. SUFFICES ASSUME WikiInv, NEW d \in Docs
                PROVE  /\ tracked[d] <= mtime[d]
                       /\ tracked[d] = mtime[d] /\ mtime[d] # Untracked => <<d, mtime[d]>> \in ingested
      BY DEF UpToDate
  <2>1. tracked[d] <= mtime[d]
      BY DEF WikiInv, Behind
  <2>2. ASSUME tracked[d] = mtime[d], mtime[d] # Untracked PROVE <<d, mtime[d]>> \in ingested
    <3>1. PICK n \in ingested : n[1] = d /\ n[2] >= tracked[d]
        BY <2>2 DEF WikiInv, Fresh, Analysed
    <3>2. n \in Docs \X Nat /\ n[2] <= mtime[d] /\ mtime[d] \in Nat
        BY <3>1 DEF WikiInv, WikiType
    <3>3. n[2] = mtime[d]
        BY <2>2, <3>1, <3>2
    <3>. QED  BY <3>1, <3>2, <3>3
  <2>. QED  BY <2>1, <2>2
<1>. QED  BY <1>1, AlwaysWikiInv, PTL

-----------------------------------------------------------------------------
(* Notes stay on pages *)

\* A note is where a reader finds it, or it is known why it is not.
Placed(n, sheets, lost) == n \in lost \/ \E s \in Slugs : n \in sheets[s].notes

\* What a process that is alone holds of a page is what the page says, and when it is about to
\* remove a page, what that said is on another one.
Trusty(w, sheets, lost) ==
    /\ (w.pc = "updating" /\ w.appends) \/ w.pc = "rewriting" => w.held = sheets[w.page].notes
    /\ w.pc = "merging" => w.held = sheets[w.gone].notes
    /\ w.pc \in {"relinking", "rewriting"} /\ w.gone # NoSlug =>
         \A n \in sheets[w.gone].notes : n \in lost \/ \E s \in Slugs \ {w.gone} : n \in sheets[s].notes

\* Inductive, with WikiInv for what a process holds.
KeptInv ==
    /\ \A n \in ingested : Placed(n, pages, excused)
    /\ \A p \in Procs : ~Active(proc[p]) => p \notin beside
    /\ \A p \in Procs : Active(proc[p]) /\ p \notin beside =>
         Trusty(proc[p], pages, excused) /\ \A q \in Procs \ {p} : ~Active(proc[q])

\* A page is written, and what it held is still on it or excused.
LEMMA PageWritten ==
    ASSUME WikiInv, NEW s \in Slugs, NEW said, pages' = [pages EXCEPT ![s] = [exists |-> TRUE, notes |-> said]],
           NEW lost, excused \subseteq lost, pages[s].notes \subseteq said \cup lost
    PROVE  /\ pages'[s].notes = said /\ \A t \in Slugs \ {s} : pages'[t] = pages[t]
           /\ \A n : Placed(n, pages, excused) => Placed(n, pages', lost)
<1>1. pages'[s].notes = said /\ \A t \in Slugs \ {s} : pages'[t] = pages[t]
    BY DEF WikiInv, WikiType
<1>2. ASSUME NEW n, NEW t \in Slugs, n \in pages[t].notes PROVE Placed(n, pages', lost)
    BY <1>1, <1>2 DEF Placed
<1>. QED  BY <1>1, <1>2 DEF Placed

\* A write that breaks off loses what the page held, with an excuse.
LEMMA BrokenOff ==
    ASSUME WikiInv, NEW p \in Procs, BreaksOff(proc[p])
    PROVE  /\ \A n : Placed(n, pages, excused) => Placed(n, pages', excused')
           /\ UNCHANGED <<pages, excused>> \/
              /\ proc[p].page \in Slugs /\ pages'[proc[p].page].notes = {}
              /\ excused' = excused \cup pages[proc[p].page].notes
              /\ \A t \in Slugs \ {proc[p].page} : pages'[t] = pages[t]
<1>1. CASE UNCHANGED <<pages, excused>>
    BY <1>1
<1>2. CASE ~ UNCHANGED <<pages, excused>>
  <2>1. /\ proc[p].page \in Slugs /\ excused' = excused \cup pages[proc[p].page].notes
        /\ pages' = [pages EXCEPT ![proc[p].page] = [exists |-> TRUE, notes |-> {}]]
      BY <1>2 DEF BreaksOff, WikiInv, WikiType, Fit
  <2>2. PICK said, lost : said = {} /\ lost = excused'
      OBVIOUS
  <2>3. /\ excused \subseteq lost /\ pages[proc[p].page].notes \subseteq said \cup lost
        /\ pages' = [pages EXCEPT ![proc[p].page] = [exists |-> TRUE, notes |-> said]]
      BY <2>1, <2>2
  <2>4. /\ pages'[proc[p].page].notes = said /\ \A t \in Slugs \ {proc[p].page} : pages'[t] = pages[t]
        /\ \A n : Placed(n, pages, excused) => Placed(n, pages', lost)
      BY <2>1, <2>3, PageWritten
  <2>. QED  BY <2>1, <2>2, <2>4
<1>. QED  BY <1>1, <1>2

\* The process that moves was at work and is.
LEMMA KeptAtWork ==
    ASSUME WikiInv, KeptInv, NEW p \in Procs, NEW v, proc' = [proc EXCEPT ![p] = v],
           Active(proc[p]), Active(v), beside' = beside,
           p \notin beside => Trusty(v, pages', excused'),
           \A n \in ingested' : Placed(n, pages', excused')
    PROVE  KeptInv'
<1>1. proc'[p] = v /\ \A q \in Procs \ {p} : proc'[q] = proc[q]
    BY DEF WikiInv, WikiType
<1>2. \A q \in Procs : Active(proc'[q]) <=> Active(proc[q])
    BY <1>1
<1>3. \A q \in Procs \ {p} : Active(proc[q]) => q \in beside
    BY DEF KeptInv
<1>. QED  BY <1>1, <1>2, <1>3 DEF KeptInv

\* It knows as little of pages as before.
LEMMA KeptQuietly ==
    ASSUME WikiInv, KeptInv, NEW p \in Procs, NEW v, proc' = [proc EXCEPT ![p] = v],
           Active(proc[p]), Active(v), UNCHANGED <<pages, ingested, excused, beside>>,
           p \notin beside /\ Trusty(proc[p], pages, excused) => Trusty(v, pages, excused)
    PROVE  KeptInv'
<1>1. p \notin beside => Trusty(v, pages', excused')
    BY DEF KeptInv
<1>2. \A n \in ingested' : Placed(n, pages', excused')
    BY DEF KeptInv
<1>. QED  BY <1>1, <1>2, KeptAtWork

\* It comes to rest, or was there already.
LEMMA KeptAtRest ==
    ASSUME WikiInv, KeptInv, NEW p \in Procs, NEW v, proc' = [proc EXCEPT ![p] = v], ~Active(v),
           beside' = beside \ {p}, ingested' = ingested, UNCHANGED <<pages, excused>> \/ BreaksOff(proc[p]),
           UNCHANGED <<pages, excused>> \/ Active(proc[p])
    PROVE  KeptInv'
<1>1. proc'[p] = v /\ \A q \in Procs \ {p} : proc'[q] = proc[q]
    BY DEF WikiInv, WikiType
<1>2. \A n \in ingested' : Placed(n, pages', excused')
    BY BrokenOff DEF KeptInv
<1>3. \A q \in Procs : ~Active(proc'[q]) => q \notin beside'
    BY <1>1 DEF KeptInv
<1>4. ASSUME NEW q \in Procs, Active(proc'[q]), q \notin beside'
      PROVE  Trusty(proc'[q], pages', excused') /\ \A r \in Procs \ {q} : ~Active(proc'[r])
  <2>1. q # p /\ Active(proc[q]) /\ q \notin beside /\ proc'[q] = proc[q]
      BY <1>1, <1>4
  <2>2. Trusty(proc[q], pages, excused) /\ \A r \in Procs \ {q} : ~Active(proc[r])
      BY <2>1 DEF KeptInv
  <2>3. UNCHANGED <<pages, excused>>
      BY <2>1, <2>2
  <2>. QED  BY <1>1, <2>1, <2>2, <2>3
<1>. QED  BY <1>2, <1>3, <1>4 DEF KeptInv

\* Where no page is open or about to go, there is nothing to know of pages.
LEMMA NothingHeld ==
    ASSUME NEW v, v.pc \notin {"updating", "merging", "relinking", "rewriting"}, NEW sheets, NEW lost
    PROVE  Trusty(v, sheets, lost)
    BY DEF Trusty

\* A process sets out.
LEMMA StartsKeeps ==
    ASSUME WikiInv, KeptInv, NEW p \in Procs, BeginPass(p) \/ BeginLint(p)
    PROVE  KeptInv'
<1>1. PICK v \in {Begun(proc[p]), Linting(proc[p])} : Starts(p, v)
    BY DEF BeginPass, BeginLint
<1>2. /\ proc' = [proc EXCEPT ![p] = v] /\ ~Active(proc[p]) /\ UNCHANGED <<pages, ingested, excused>>
      /\ beside' = IF Others(p) = {} THEN beside ELSE Procs
    BY <1>1 DEF Starts, Active
<1>3. Active(v) /\ v.pc \in {"pass", "consolidating"}
    BY <1>1, <1>2, BegunShape DEF WikiInv, WikiType
<1>4. proc'[p] = v /\ \A q \in Procs \ {p} : proc'[q] = proc[q]
    BY <1>2 DEF WikiInv, WikiType
<1>5. Trusty(v, pages', excused')
    BY <1>3, NothingHeld
<1>6. CASE Others(p) = {}
  <2>1. \A q \in Procs \ {p} : ~Active(proc[q])
      BY <1>6 DEF Others, Active
  <2>. QED  BY <1>2, <1>3, <1>4, <1>5, <1>6, <2>1 DEF KeptInv
<1>7. CASE Others(p) # {}
  <2>1. beside' = Procs /\ \A q \in Procs : Active(proc'[q])
    <3>1. PICK q \in Procs \ {p} : Active(proc[q])
        BY <1>7 DEF Others, Active
    <3>2. \A r \in Procs : r = p \/ r = q
        BY <3>1 DEF Procs
    <3>. QED  BY <1>2, <1>3, <1>4, <1>7, <3>1, <3>2
  <2>. QED  BY <1>2, <2>1 DEF KeptInv
<1>. QED  BY <1>6, <1>7

\* An insert loses no page.
LEMMA InsertsKeep ==
    ASSUME WikiInv, KeptInv, NEW p \in Procs, Inserts(p)
    PROVE  KeptInv'
<1>1. PICK w : w = proc[p]
    OBVIOUS
<1>2. Fit(w) /\ WikiType
    BY <1>1 DEF WikiInv, WikiType
<1>3. ASSUME NEW s \in Slugs, NEW a \in {"create", "update"}, OpenPage(p, s, a) PROVE KeptInv'
  <2>1. PICK v : v = Opened(w, s, a)
      OBVIOUS
  <2>2. w.pc \in {"analyzing", "noting"} /\ Goes(p, v) /\ Active(w)
      BY <1>1, <1>3, <2>1 DEF OpenPage, Active
  <2>3. v.pc = "updating" /\ v.page = s /\ ((v.appends /\ v.held = pages[s].notes) \/ ~v.appends)
      BY <1>2, <2>1, <2>2, OpenedShape
  <2>4. Active(v) /\ Trusty(v, pages, excused)
      BY <2>3 DEF Trusty, Active
  <2>. QED  BY <1>1, <2>2, <2>4, KeptQuietly DEF Goes, wikiHistory
<1>4. CASE EndInsert(p)
  <2>1. PICK v : v = Noted(w)
      OBVIOUS
  <2>2. w.pc = "noting" /\ Goes(p, v) /\ Active(w)
      BY <1>1, <1>4, <2>1 DEF EndInsert, Active
  <2>3. v.pc \in {"pass", "consolidating"}
      BY <1>2, <2>1, <2>2, NotedShape, IndexedShape
  <2>4. Active(v) /\ Trusty(v, pages, excused)
      BY <2>3, NothingHeld DEF Active
  <2>. QED  BY <1>1, <2>2, <2>4, KeptQuietly DEF Goes, wikiHistory
<1>5. CASE WritePage(p)
  <2>1. PICK v : v = Counted(Closed(w, "noting")) /\ Active(v) /\ v.pc = "noting"
      BY <1>1, <1>2, <1>5, CountedShape DEF WritePage
  <2>2. /\ proc' = [proc EXCEPT ![p] = v] /\ Active(w) /\ Puts(p, w) /\ w.pc = "updating"
        /\ ingested' = ingested \cup {NoteOf(w)} /\ beside' = beside /\ w.page \in Slugs
      BY <1>1, <1>2, <1>5, <2>1 DEF WritePage, Active, Fit
  <2>3. PICK said : said = Contents(w)
      OBVIOUS
  <2>4. /\ pages' = [pages EXCEPT ![w.page] = [exists |-> TRUE, notes |-> said]]
        /\ excused \subseteq excused' /\ pages[w.page].notes \subseteq said \cup excused'
    <3>1. CASE w.appends /\ p \notin beside
      <4>1. w.held = pages[w.page].notes /\ excused' = excused
          BY <1>1, <2>2, <3>1 DEF KeptInv, Trusty, Puts
      <4>. QED  BY <2>2, <2>3, <4>1 DEF Puts, Contents
    <3>2. CASE ~(w.appends /\ p \notin beside)
        BY <2>2, <2>3, <3>2 DEF Puts
    <3>. QED  BY <3>1, <3>2
  <2>5. /\ pages'[w.page].notes = said
        /\ \A n : Placed(n, pages, excused) => Placed(n, pages', excused')
      BY <2>2, <2>4, PageWritten
  <2>6. NoteOf(w) \in said
      BY <2>2, <2>3 DEF Contents
  <2>7. \A n \in ingested' : Placed(n, pages', excused')
      BY <2>2, <2>5, <2>6 DEF KeptInv, Placed
  <2>8. Trusty(v, pages', excused')
      BY <2>1, NothingHeld
  <2>. QED  BY <1>1, <2>1, <2>2, <2>7, <2>8, KeptAtWork
<1>6. CASE NothingToNote(p)
  <2>1. PICK v : v = Indexed(w) /\ Active(v) /\ v.pc = "pass"
      BY <1>2, IndexedShape
  <2>2. /\ proc' = [proc EXCEPT ![p] = v] /\ Active(w) /\ beside' = beside /\ pages' = pages
        /\ ingested' = ingested \cup {NoteOf(w)} /\ excused' = excused \cup {NoteOf(w)}
      BY <1>1, <1>6, <2>1 DEF NothingToNote, Active
  <2>3. \A n \in ingested' : Placed(n, pages', excused')
      BY <2>2 DEF KeptInv, Placed
  <2>. QED  BY <1>1, <2>1, <2>2, <2>3, NothingHeld, KeptAtWork
<1>7. CASE InsertFails(p)
  <2>1. /\ proc' = [proc EXCEPT ![p] = Held(w)] /\ BreaksOff(w) /\ beside' = beside /\ ingested' = ingested
        /\ w.pc \in {"analyzing", "noting", "updating"}
      BY <1>1, <1>7 DEF InsertFails
  <2>2. Working(w) /\ Active(w)
      BY <2>1 DEF Working, Active
  <2>3. Active(Held(w)) /\ Held(w).pc = "pass"
      BY <1>2, <2>2, HeldShape
  <2>4. \A n \in ingested' : Placed(n, pages', excused')
      BY <1>1, <2>1, BrokenOff DEF KeptInv
  <2>. QED  BY <1>1, <2>1, <2>2, <2>3, <2>4, NothingHeld, KeptAtWork
<1>. QED  BY <1>3, <1>4, <1>5, <1>6, <1>7 DEF Inserts

\* Nor does a consolidation: what the page that goes said is on the one that stays.
LEMMA ConsolidatesKeep ==
    ASSUME WikiInv, KeptInv, NEW p \in Procs, Consolidates(p)
    PROVE  KeptInv'
<1>1. PICK w : w = proc[p]
    OBVIOUS
<1>2. Fit(w) /\ WikiType
    BY <1>1 DEF WikiInv, WikiType
<1>3. ASSUME Goes(p, Consolidated(w)), w.pc \in {"consolidating", "merged", "relinking"} PROVE KeptInv'
  <2>1. Active(w) /\ w.pc \notin {"analyzing", "noting", "updating"}
      BY <1>3 DEF Active
  <2>2. Consolidated(w).pc = "pass"
      BY <1>2, <2>1, ConsolidatedShape, IndexedShape
  <2>3. Active(Consolidated(w)) /\ Trusty(Consolidated(w), pages, excused)
      BY <2>2, NothingHeld DEF Active
  <2>. QED  BY <1>1, <1>3, <2>1, <2>3, KeptQuietly DEF Goes, wikiHistory
<1>4. ASSUME NEW keep \in Slugs, NEW gone \in Slugs, Merge(p, keep, gone) PROVE KeptInv'
  <2>1. PICK v : v = Merging(w, keep, gone)
      OBVIOUS
  <2>2. w.pc \in {"consolidating", "merged"} /\ keep # gone /\ Goes(p, v) /\ Active(w)
      BY <1>1, <1>4, <2>1 DEF Merge, Active
  <2>3. v.pc = "merging" /\ v.gone = gone /\ v.held = pages[gone].notes
      BY <1>2, <2>1, <2>2, MergingShape
  <2>4. Active(v) /\ Trusty(v, pages, excused)
      BY <2>3 DEF Trusty, Active
  <2>. QED  BY <1>1, <2>2, <2>4, KeptQuietly DEF Goes, wikiHistory
<1>5. ASSUME NEW links \in SUBSET Slugs, AppendMerged(p, links) PROVE KeptInv'
  <2>1. PICK said : said = Joined(w)
      OBVIOUS
  <2>2. /\ w.pc = "merging" /\ w.page \in Slugs /\ w.gone \in Slugs /\ w.gone # w.page /\ Active(w)
        /\ pages' = [pages EXCEPT ![w.page] = [exists |-> TRUE, notes |-> said]]
        /\ proc' = [proc EXCEPT ![p] = Relinking(w, links)]
        /\ UNCHANGED <<ingested, excused, beside>> /\ said = pages[w.page].notes \cup w.held
      BY <1>1, <1>2, <1>5, <2>1 DEF AppendMerged, Fit, Active, wikiHistory, Joined
  <2>3. PICK v : v = Relinking(w, links) /\ v.pc = "relinking" /\ v.gone = w.gone
      BY <1>2, <2>2, RelinkingShape
  <2>4. pages' = [pages EXCEPT ![w.page] = [exists |-> TRUE, notes |-> said]] /\ w.page \in Slugs
      BY <2>2
  <2>5. /\ pages'[w.page].notes = said /\ \A t \in Slugs \ {w.page} : pages'[t] = pages[t]
        /\ \A n : Placed(n, pages, excused) => Placed(n, pages', excused)
    <3>1. pages[w.page].notes \subseteq said \cup excused /\ excused \subseteq excused
        BY <2>2
    <3>. QED  BY <2>4, <3>1, PageWritten
  <2>6. p \notin beside => Trusty(v, pages', excused)
    <3>1. SUFFICES ASSUME p \notin beside PROVE Trusty(v, pages', excused)
        OBVIOUS
    <3>2. w.held = pages[w.gone].notes
        BY <1>1, <2>2, <3>1 DEF KeptInv, Trusty
    <3>3. \A n \in pages'[w.gone].notes : \E s \in Slugs \ {w.gone} : n \in pages'[s].notes
        BY <2>2, <2>5, <3>2
    <3>. QED  BY <2>3, <3>3 DEF Trusty
  <2>7. \A n \in ingested' : Placed(n, pages', excused')
      BY <2>2, <2>5 DEF KeptInv
  <2>8. Active(v)
      BY <2>3 DEF Active
  <2>. QED  BY <1>1, <2>2, <2>3, <2>6, <2>7, <2>8, KeptAtWork
<1>6. ASSUME NEW links \in SUBSET Slugs, AddLinks(p, links) PROVE KeptInv'
  <2>1. w.pc \in {"consolidating", "merged"} /\ Active(w)
      BY <1>1, <1>6 DEF AddLinks, Active
  <2>2. CASE links = {}
      BY <1>1, <1>3, <1>6, <2>1, <2>2 DEF AddLinks
  <2>3. CASE links # {}
    <3>1. PICK v : v = Relinking(w, links)
        OBVIOUS
    <3>2. v.pc = "relinking" /\ v.gone = NoSlug /\ Goes(p, v)
        BY <1>1, <1>2, <1>6, <2>1, <2>3, <3>1, RelinkingShape DEF Fit, AddLinks
    <3>3. Active(v) /\ Trusty(v, pages, excused)
        BY <3>2 DEF Trusty, Active
    <3>. QED  BY <1>1, <2>1, <3>2, <3>3, KeptQuietly DEF Goes, wikiHistory
  <2>. QED  BY <2>2, <2>3
<1>7. ASSUME NEW s \in Slugs, ReadLinks(p, s) PROVE KeptInv'
  <2>1. PICK v : v = Rereading(w, s)
      OBVIOUS
  <2>2. w.pc = "relinking" /\ Goes(p, v) /\ Active(w)
      BY <1>1, <1>7, <2>1 DEF ReadLinks, Active
  <2>3. v.gone = w.gone /\ ((v.pc = "rewriting" /\ v.page = s /\ v.held = pages[s].notes) \/ v.pc = "relinking")
      BY <1>2, <2>1, <2>2, RereadingShape
  <2>4. Trusty(w, pages, excused) => Trusty(v, pages, excused)
      BY <2>2, <2>3 DEF Trusty
  <2>5. Active(v)
      BY <2>3 DEF Active
  <2>. QED  BY <1>1, <2>2, <2>4, <2>5, KeptQuietly DEF Goes, wikiHistory
<1>8. CASE WriteLinks(p)
  <2>1. PICK v : v = Closed(w, "relinking")
      OBVIOUS
  <2>2. /\ w.pc = "rewriting" /\ w.page \in Slugs /\ w.appends /\ Active(w) /\ Puts(p, w)
        /\ proc' = [proc EXCEPT ![p] = v] /\ UNCHANGED <<ingested, beside>> /\ {} \in SUBSET Slugs
      BY <1>1, <1>2, <1>8, <2>1 DEF WriteLinks, Fit, Active
  <2>3. v.pc = "relinking" /\ v.gone = w.gone
      BY <1>2, <2>1, <2>2, RelinkingShape
  <2>4. PICK said : said = w.held
      OBVIOUS
  <2>5. /\ pages' = [pages EXCEPT ![w.page] = [exists |-> TRUE, notes |-> said]]
        /\ p \notin beside => said = pages[w.page].notes /\ excused' = excused
        /\ excused \subseteq excused' /\ pages[w.page].notes \subseteq said \cup excused'
    <3>1. Contents(w) = said
        BY <2>2, <2>4 DEF Contents
    <3>2. CASE p \notin beside
      <4>1. w.held = pages[w.page].notes
          BY <1>1, <2>2, <3>2 DEF KeptInv, Trusty
      <4>. QED  BY <2>2, <2>4, <3>1, <3>2, <4>1 DEF Puts
    <3>3. CASE p \in beside
        BY <2>2, <3>1, <3>3 DEF Puts
    <3>. QED  BY <3>2, <3>3
  <2>6. /\ pages'[w.page].notes = said /\ \A t \in Slugs \ {w.page} : pages'[t] = pages[t]
        /\ \A n : Placed(n, pages, excused) => Placed(n, pages', excused')
      BY <2>2, <2>5, PageWritten
  <2>7. p \notin beside => Trusty(v, pages', excused')
    <3>1. SUFFICES ASSUME p \notin beside PROVE Trusty(v, pages', excused')
        OBVIOUS
    <3>2. excused' = excused /\ \A t \in Slugs : pages'[t].notes = pages[t].notes
        BY <2>5, <2>6, <3>1
    <3>3. Trusty(w, pages, excused) /\ (w.gone # NoSlug => w.gone \in Slugs)
        BY <1>1, <1>2, <2>2, <3>1 DEF KeptInv, Fit, Passes
    <3>4. w.gone # NoSlug =>
            \A n \in pages'[w.gone].notes : n \in excused' \/ \E s \in Slugs \ {w.gone} : n \in pages'[s].notes
        BY <2>2, <3>2, <3>3 DEF Trusty
    <3>. QED  BY <2>3, <3>4 DEF Trusty
  <2>8. \A n \in ingested' : Placed(n, pages', excused')
      BY <2>2, <2>6 DEF KeptInv
  <2>9. Active(v)
      BY <2>3 DEF Active
  <2>. QED  BY <1>1, <2>2, <2>7, <2>8, <2>9, KeptAtWork
<1>9. CASE RemoveMerged(p)
  <2>1. PICK v : v = MergeOver(w)
      OBVIOUS
  <2>2. /\ w.pc = "relinking" /\ w.gone # NoSlug /\ w.gone \in Slugs /\ Active(w)
        /\ pages' = [pages EXCEPT ![w.gone] = NoPage] /\ UNCHANGED <<ingested, beside>>
        /\ excused' = IF p \in beside THEN excused \cup pages[w.gone].notes ELSE excused
        /\ proc' = [proc EXCEPT ![p] = v]
      BY <1>1, <1>2, <1>9, <2>1 DEF RemoveMerged, Active, Fit, Passes
  <2>3. v.pc = "merged"
      BY <1>2, <2>1, <2>2, MergeOverShape
  <2>4. \A t \in Slugs \ {w.gone} : pages'[t] = pages[t]
      BY <1>2, <2>2 DEF WikiType
  <2>5. \A n \in pages[w.gone].notes : n \in excused' \/ \E s \in Slugs \ {w.gone} : n \in pages[s].notes
    <3>1. CASE p \in beside
        BY <2>2, <3>1
    <3>2. CASE p \notin beside
      <4>1. Trusty(w, pages, excused)
          BY <1>1, <2>2, <3>2 DEF KeptInv
      <4>. QED  BY <2>2, <3>2, <4>1 DEF Trusty
    <3>. QED  BY <3>1, <3>2
  <2>6. excused \subseteq excused'
      BY <2>2
  <2>7. ASSUME NEW n, Placed(n, pages, excused) PROVE Placed(n, pages', excused')
    <3>1. CASE n \in excused
        BY <2>6, <3>1 DEF Placed
    <3>2. ASSUME NEW s \in Slugs \ {w.gone}, n \in pages[s].notes PROVE Placed(n, pages', excused')
        BY <2>4, <3>2 DEF Placed
    <3>3. CASE n \in pages[w.gone].notes
      <4>1. CASE n \in excused'
          BY <4>1 DEF Placed
      <4>. QED  BY <2>5, <3>2, <3>3, <4>1
    <3>. QED  BY <2>7, <3>1, <3>2, <3>3 DEF Placed
  <2>8. \A n \in ingested' : Placed(n, pages', excused')
      BY <2>2, <2>7 DEF KeptInv
  <2>9. Active(v) /\ Trusty(v, pages', excused')
      BY <2>3, NothingHeld DEF Active
  <2>. QED  BY <1>1, <2>2, <2>8, <2>9, KeptAtWork
<1>10. CASE MergeFails(p)
  <2>1. PICK v : v = Interrupted(w)
      OBVIOUS
  <2>2. /\ w.pc \in {"merging", "relinking", "rewriting"} /\ BreaksOff(w) /\ Active(w)
        /\ proc' = [proc EXCEPT ![p] = v] /\ UNCHANGED <<ingested, beside>>
      BY <1>1, <1>10, <2>1 DEF MergeFails, Active
  <2>3. v.pc = "merged" \/ (w.pc = "rewriting" /\ v.pc = "relinking" /\ v.gone = w.gone)
      BY <1>2, <2>1, <2>2, MergeOverShape
  <2>4. \A n \in ingested' : Placed(n, pages', excused')
      BY <1>1, <2>2, BrokenOff DEF KeptInv
  <2>5. p \notin beside => Trusty(v, pages', excused')
    <3>1. CASE v.pc = "merged"
        BY <3>1, NothingHeld
    <3>2. CASE p \notin beside /\ w.pc = "rewriting" /\ v.pc = "relinking" /\ v.gone = w.gone
      <4>1. Trusty(w, pages, excused) /\ (w.gone # NoSlug => w.gone \in Slugs)
          BY <1>1, <1>2, <2>2, <3>2 DEF KeptInv, Fit, Passes
      <4>2. w.gone # NoSlug =>
              \A n \in pages[w.gone].notes : n \in excused \/ \E s \in Slugs \ {w.gone} : n \in pages[s].notes
          BY <3>2, <4>1 DEF Trusty
      <4>3. w.gone # NoSlug =>
              \A n \in pages'[w.gone].notes : n \in excused' \/ \E s \in Slugs \ {w.gone} : n \in pages'[s].notes
        <5>1. CASE UNCHANGED <<pages, excused>>
            BY <4>2, <5>1
        <5>2. CASE /\ w.page \in Slugs /\ pages'[w.page].notes = {}
                   /\ excused' = excused \cup pages[w.page].notes
                   /\ \A t \in Slugs \ {w.page} : pages'[t] = pages[t]
          <6>. SUFFICES ASSUME w.gone # NoSlug, NEW n \in pages'[w.gone].notes, n \notin excused'
                        PROVE  \E s \in Slugs \ {w.gone} : n \in pages'[s].notes
              OBVIOUS
          <6>1. w.gone # w.page /\ n \in pages[w.gone].notes /\ n \notin excused
              BY <4>1, <5>2
          <6>2. PICK s \in Slugs \ {w.gone} : n \in pages[s].notes
              BY <4>2, <6>1
          <6>3. s # w.page
              BY <5>2, <6>2
          <6>. QED  BY <5>2, <6>2, <6>3
        <5>. QED  BY <1>1, <2>2, <5>1, <5>2, BrokenOff
      <4>. QED  BY <3>2, <4>3 DEF Trusty
    <3>. QED  BY <2>3, <3>1, <3>2
  <2>6. Active(v)
      BY <2>3 DEF Active
  <2>. QED  BY <1>1, <2>2, <2>4, <2>5, <2>6, KeptAtWork
<1>11. CASE EndLinks(p)
    BY <1>1, <1>3, <1>11 DEF EndLinks
<1>. QED  BY <1>4, <1>5, <1>6, <1>7, <1>8, <1>9, <1>10, <1>11 DEF Consolidates

LEMMA KeptStep == WikiInv /\ KeptInv /\ [WikiNext]_wikiVars => KeptInv'
<1>. SUFFICES ASSUME WikiInv, KeptInv, [WikiNext]_wikiVars PROVE KeptInv'
    OBVIOUS
<1>1. ASSUME NEW p \in Procs PROVE Fit(proc[p])
    BY DEF WikiInv, WikiType
<1>2. ASSUME UNCHANGED <<pages, proc, ingested, excused, beside>> PROVE KeptInv'
    BY <1>2 DEF KeptInv
<1>3. ASSUME NEW p \in Procs, NEW v, proc' = [proc EXCEPT ![p] = v], v.pc = proc[p].pc,
             UNCHANGED <<pages, ingested, excused, beside>>,
             Trusty(proc[p], pages, excused) => Trusty(v, pages, excused)
      PROVE  KeptInv'
  <2>1. CASE Active(proc[p])
      BY <1>3, <2>1, KeptQuietly DEF Active
  <2>2. CASE ~Active(proc[p])
    <3>1. ~Active(v) /\ beside' = beside \ {p}
        BY <1>3, <2>2 DEF Active, KeptInv
    <3>. QED  BY <1>3, <3>1, KeptAtRest
  <2>. QED  BY <2>1, <2>2
<1>4. ASSUME NEW p \in Procs, Skip(p) \/ Defer(p) PROVE KeptInv'
  <2>1. PICK d : proc' = [proc EXCEPT ![p] = Passed(proc[p], d)] \/ proc' = [proc EXCEPT ![p] = Deferred(proc[p])]
      BY <1>4 DEF Skip, Defer, Goes
  <2>2. PICK v \in {Passed(proc[p], d), Deferred(proc[p])} : proc' = [proc EXCEPT ![p] = v]
      BY <2>1
  <2>3. proc[p].pc = "pass" /\ UNCHANGED <<pages, ingested, excused, beside>>
      BY <1>4 DEF Skip, Defer, Goes, wikiHistory
  <2>4. v.pc = "pass"
      BY <1>1, <2>2, <2>3, PassedShape
  <2>. QED  BY <1>3, <2>2, <2>3, <2>4, NothingHeld
<1>5. ASSUME NEW p \in Procs, Analyze(p) PROVE KeptInv'
  <2>1. PICK d \in Docs : Goes(p, Asking(proc[p], d)) /\ proc[p].pc = "pass"
      BY <1>1, <1>5 DEF Analyze, Earliest, Fit, Passes
  <2>2. PICK v : v = Asking(proc[p], d) /\ v.pc = "analyzing"
      BY <1>1, <2>1, AskingShape DEF WikiInv
  <2>. QED  BY <2>1, <2>2, KeptQuietly, NothingHeld DEF Goes, wikiHistory, Active
<1>6. ASSUME NEW p \in Procs, NEW d \in Docs, HoldEnds(p, d) PROVE KeptInv'
  <2>1. PICK v : v = Released(proc[p], d)
      OBVIOUS
  <2>2. /\ v.pc = proc[p].pc /\ v.held = proc[p].held /\ v.page = proc[p].page
        /\ v.gone = proc[p].gone /\ v.appends = proc[p].appends
      BY <1>1, <2>1, ReleasedShape
  <2>3. Trusty(proc[p], pages, excused) => Trusty(v, pages, excused)
      BY <2>2 DEF Trusty
  <2>. QED  BY <1>3, <1>6, <2>1, <2>2, <2>3 DEF HoldEnds, Goes, wikiHistory
<1>7. CASE Reload
  <2>1. "scheduler" \in Procs /\ ~Active(proc["scheduler"])
      BY <1>7 DEF Procs, Reload, Active
  <2>2. beside = beside \ {"scheduler"}
      BY <2>1 DEF KeptInv
  <2>. QED  BY <1>7, <2>1, <2>2, IdleShape, KeptAtRest DEF Reload, Goes, wikiHistory
<1>8. ASSUME NEW p \in Procs, EndPass(p) \/ SaveBreaksOff(p) \/ Stop(p) PROVE KeptInv'
  <2>1. PICK v \in {Idle, Rests(p, proc[p])} : proc' = [proc EXCEPT ![p] = v]
      BY <1>8 DEF EndPass, SaveBreaksOff, Stop
  <2>2. ~Active(v)
      BY <1>1, <2>1, IdleShape, RestsShape
  <2>3. /\ beside' = beside \ {p} /\ ingested' = ingested /\ Active(proc[p])
        /\ UNCHANGED <<pages, excused>> \/ BreaksOff(proc[p])
      BY <1>8 DEF EndPass, SaveBreaksOff, Stop, Active
  <2>. QED  BY <2>1, <2>2, <2>3, KeptAtRest
<1>9. ASSUME NEW p \in Procs, PassStep(p) PROVE KeptInv'
    BY <1>4, <1>5, <1>8, <1>9, StartsKeeps, InsertsKeep, ConsolidatesKeep DEF PassStep
<1>10. CASE \E d \in Docs : Edit(d)
    BY <1>2, <1>10 DEF Edit, wikiHistory
<1>11. CASE UNCHANGED wikiVars
    BY <1>2, <1>11 DEF wikiVars
<1>. QED  BY <1>6, <1>7, <1>8, <1>9, <1>10, <1>11, StartsKeeps DEF WikiNext

LEMMA KeptStart == WikiInit => KeptInv
    BY IdleShape DEF WikiInit, KeptInv

\* A note stays on a page, whatever is written, merged, redirected or cut short, unless its page
\* was created anew, a write of it broke off, or it was written in a pass that ran beside
\* another.  A process that is alone holds the pages it read as they are, and removes one only
\* when what that said is on another.
THEOREM NotesAreKept == WikiSpec => []NotesKept
<1>1. KeptInv => NotesKept
    BY DEF KeptInv, Placed, NotesKept
<1>2. WikiInit /\ [][WikiNext]_wikiVars => []KeptInv
    BY KeptStart, KeptStep, WikiStart, WikiStep, PTL
<1>. QED  BY <1>1, <1>2, PTL DEF WikiSpec

-----------------------------------------------------------------------------
(* Notes are made once *)

\* A log that is not lost has no note of a later time than the recorded one.
Knows(times, taken, lost) == \A n \in taken : n[1] \in lost \/ n[2] <= times[n[1]]

\* A process at work: what it means to record differs from the file once it has indexed a log;
\* the log in hand has changed since it was recorded; and all notes but the one of that log are
\* known to it.
Careful(w, file, taken, lost) ==
    /\ w.changed \/ w.tracked = file
    /\ Working(w) => w.tracked[w.doc] < w.seen
    /\ Knows(w.tracked, IF w.written > 0 THEN taken \ {NoteOf(w)} ELSE taken, lost)

\* Processes have not been at work at once so far.
Alone ==
    /\ \A p, q \in Procs : Active(proc[p]) /\ Active(proc[q]) => p = q
    /\ \A p \in Procs : Active(proc[p]) => Careful(proc[p], tracked, ingested, cut)
    /\ (\A p \in Procs : ~Active(proc[p])) => Knows(tracked, ingested, cut)
    /\ \A n \in twice : n[1] \in cut

\* Inductive, with WikiInv for the times.
OnceInv == overlapped \/ Alone

\* The process at work goes on.
LEMMA WorksOn ==
    ASSUME WikiInv, Alone, NEW p \in Procs, NEW v, proc' = [proc EXCEPT ![p] = v], Active(v),
           \A q \in Procs \ {p} : ~Active(proc[q]),
           Careful(v, tracked, ingested', cut'), tracked' = tracked, \A n \in twice' : n[1] \in cut'
    PROVE  Alone'
<1>1. proc'[p] = v /\ \A q \in Procs \ {p} : proc'[q] = proc[q]
    BY DEF WikiInv, WikiType
<1>2. \A q \in Procs : Active(proc'[q]) <=> q = p
    BY <1>1
<1>3. \A q \in Procs : Active(proc'[q]) => Careful(proc'[q], tracked', ingested', cut')
    BY <1>1, <1>2
<1>. QED  BY <1>2, <1>3 DEF Alone

\* It comes to rest.
LEMMA ComesToRest ==
    ASSUME WikiInv, NEW p \in Procs, NEW v, proc' = [proc EXCEPT ![p] = v], ~Active(v),
           \A q \in Procs \ {p} : ~Active(proc[q]),
           Knows(tracked', ingested', cut'), \A n \in twice' : n[1] \in cut'
    PROVE  Alone'
<1>1. proc'[p] = v /\ \A q \in Procs \ {p} : proc'[q] = proc[q]
    BY DEF WikiInv, WikiType
<1>2. \A q \in Procs : ~Active(proc'[q])
    BY <1>1
<1>. QED  BY <1>2 DEF Alone

\* Whoever keeps what he knows is as careful as before.
LEMMA KeepsCareful ==
    ASSUME NEW w, NEW v, Keeps(w, v), NEW file, NEW taken, NEW lost, Careful(w, file, taken, lost)
    PROVE  Careful(v, file, taken, lost)
<1>1. CASE w.written > 0
  <2>1. v.written > 0 /\ NoteOf(v) = NoteOf(w) /\ v.tracked = w.tracked
      BY <1>1 DEF Keeps, Working, NoteOf
  <2>. QED  BY <1>1, <2>1 DEF Keeps, Careful
<1>2. CASE ~(w.written > 0)
    BY <1>2 DEF Keeps, Careful
<1>. QED  BY <1>1, <1>2

\* The log in hand counts as indexed: its note is known then.
LEMMA IndexedKnows ==
    ASSUME NEW w, Fit(w), Working(w), w.tracked[w.doc] < w.seen, NEW taken, NEW lost,
           taken \subseteq Docs \X Nat, Knows(w.tracked, taken \ {NoteOf(w)}, lost), NEW file
    PROVE  Active(Indexed(w)) /\ Careful(Indexed(w), file, taken, lost)
<1>1. PICK x : x = Indexed(w)
    OBVIOUS
<1>2. /\ x.changed /\ x.tracked = [w.tracked EXCEPT ![w.doc] = w.seen] /\ ~Working(x) /\ x.written = 0
      /\ Active(x)
    BY <1>1, IndexedShape
<1>3. w.tracked \in [Docs -> Nat] /\ w.seen \in Nat /\ w.doc \in Docs
    BY DEF Fit, Passes
<1>4. x.tracked[w.doc] = w.seen /\ \A d \in Docs \ {w.doc} : x.tracked[d] = w.tracked[d]
    BY <1>2, <1>3
<1>5. ASSUME NEW n \in taken, n[1] \notin lost PROVE n[2] <= x.tracked[n[1]]
  <2>1. n \in Docs \X Nat /\ n[1] \in Docs /\ n[2] \in Nat
      OBVIOUS
  <2>2. CASE n = NoteOf(w)
      BY <1>3, <1>4, <2>2 DEF NoteOf
  <2>3. CASE n # NoteOf(w)
    <3>1. n[2] <= w.tracked[n[1]]
        BY <1>5, <2>3 DEF Knows
    <3>2. CASE n[1] = w.doc
        BY <1>3, <1>4, <2>1, <3>1, <3>2
    <3>3. CASE n[1] # w.doc
        BY <1>4, <2>1, <3>1, <3>3
    <3>. QED  BY <3>2, <3>3
  <2>. QED  BY <2>2, <2>3
<1>6. Knows(x.tracked, taken, lost)
    BY <1>5 DEF Knows
<1>. QED  BY <1>1, <1>2, <1>6 DEF Careful

\* Something of the log in hand may have been noted; without it the rest is known.
LEMMA CarefulKnows ==
    ASSUME NEW w, NEW file, NEW taken, NEW lost, Careful(w, file, taken, lost)
    PROVE  Knows(w.tracked, taken \ {NoteOf(w)}, lost)
    BY DEF Careful, Knows

\* If it has not been noted by this insert, and the log is not lost, it has not been noted at all.
LEMMA NotNotedYet ==
    ASSUME NEW w, Fit(w), Working(w), w.written = 0, NEW file, NEW taken, NEW lost,
           Careful(w, file, taken, lost), NoteOf(w) \in taken
    PROVE  w.doc \in lost
<1>1. w.tracked[w.doc] < w.seen /\ w.tracked[w.doc] \in Nat /\ w.seen \in Nat
    BY DEF Careful, Fit, Passes
<1>2. Knows(w.tracked, taken, lost)
    BY DEF Careful
<1>3. w.doc \in lost \/ w.seen <= w.tracked[w.doc]
    BY <1>2 DEF Knows, NoteOf
<1>. QED  BY <1>1, <1>3

\* A pass that is cut short loses the logs of which it knows more than the file.
LEMMA CutKnows ==
    ASSUME NEW w, NEW file, NEW taken, NEW lost, NEW more, NEW times,
           taken \subseteq Docs \X Nat, Careful(w, file, taken, lost), lost \subseteq more,
           \A d \in Docs \ more : times[d] = w.tracked[d], w.written > 0 => w.doc \in more
    PROVE  Knows(times, taken, more)
<1>. SUFFICES ASSUME NEW n \in taken, n[1] \notin more PROVE n[2] <= times[n[1]]
    BY DEF Knows
<1>1. n[1] \in Docs /\ n[1] \notin lost /\ times[n[1]] = w.tracked[n[1]]
    OBVIOUS
<1>2. w.written > 0 => n # NoteOf(w)
    BY DEF NoteOf
<1>3. n[2] <= w.tracked[n[1]]
    BY <1>1, <1>2 DEF Careful, Knows
<1>. QED  BY <1>1, <1>3

LEMMA OnceStep == WikiInv /\ OnceInv /\ [WikiNext]_wikiVars => OnceInv'
<1>. SUFFICES ASSUME WikiInv, OnceInv, [WikiNext]_wikiVars, ~overlapped' PROVE Alone'
    BY DEF OnceInv
<1>. USE DEF wikiHistory
<1>1. ASSUME UNCHANGED <<tracked, proc, ingested, twice, cut, overlapped>> PROVE Alone'
    BY <1>1 DEF OnceInv, Alone
<1>2. CASE UNCHANGED wikiVars \/ \E d \in Docs : Edit(d)
    BY <1>1, <1>2 DEF wikiVars, Edit
<1>3. ASSUME NEW p \in Procs, WikiSteps(p) PROVE Alone'
  <2>1. PICK w : w = proc[p]
      OBVIOUS
  <2>2. Fit(w) /\ Backed(w, ingested, mtime) /\ WikiType
      BY <2>1 DEF WikiInv, WikiType
  <2>3. ASSUME ~overlapped, Active(w)
        PROVE  /\ Alone /\ Careful(w, tracked, ingested, cut) /\ \A q \in Procs \ {p} : ~Active(proc[q])
               /\ \A n \in twice : n[1] \in cut
      BY <2>1, <2>3 DEF OnceInv, Alone
  <2>4. ASSUME ~overlapped, Active(w), NEW v, proc' = [proc EXCEPT ![p] = v], Active(v),
               Careful(v, tracked, ingested', cut'), tracked' = tracked,
               \A n \in twice' : n[1] \in cut \/ n[1] \in cut', cut \subseteq cut'
        PROVE  Alone'
    <3>1. \A n \in twice' : n[1] \in cut'
        BY <2>4
    <3>. QED  BY <2>3, <2>4, <3>1, WorksOn
  <2>5. ASSUME ~Active(w), NEW v, ~Active(v), proc' = [proc EXCEPT ![p] = v],
               UNCHANGED <<tracked, ingested, twice, cut, overlapped>>
        PROVE  Alone'
    <3>1. proc'[p] = v /\ \A q \in Procs \ {p} : proc'[q] = proc[q]
        BY <2>5 DEF WikiInv, WikiType
    <3>2. \A q \in Procs : (Active(proc'[q]) <=> Active(proc[q])) /\ (Active(proc[q]) => proc'[q] = proc[q])
        BY <2>1, <2>5, <3>1
    <3>. QED  BY <2>5, <3>2 DEF OnceInv, Alone
  <2>6. ASSUME NEW v, GoesOnWith(p, v) PROVE Alone'
    <3>1. Keeps(w, v) /\ proc' = [proc EXCEPT ![p] = v]
          /\ UNCHANGED <<mtime, tracked, ingested, twice, cut, overlapped>>
        BY <2>1, <2>6 DEF GoesOnWith
    <3>2. Active(v) <=> Active(w)
        BY <3>1 DEF Keeps
    <3>3. CASE Active(w)
      <4>1. Careful(w, tracked, ingested, cut) /\ \A n \in twice : n[1] \in cut
          BY <2>3, <3>1, <3>3
      <4>2. Careful(v, tracked, ingested', cut')
          BY <3>1, <4>1, KeepsCareful
      <4>. QED  BY <2>4, <3>1, <3>2, <3>3, <4>1, <4>2
    <3>4. CASE ~Active(w)
        BY <2>5, <3>1, <3>2, <3>4
    <3>. QED  BY <3>3, <3>4
  <2>7. ASSUME NEW v \in {Begun(w), Linting(w)}, Starts(p, v) PROVE Alone'
    <3>1. /\ ~Active(w) /\ ~overlapped /\ (\A q \in Procs \ {p} : ~Active(proc[q]))
          /\ proc' = [proc EXCEPT ![p] = v] /\ UNCHANGED <<tracked, ingested, twice, cut>>
        BY <2>1, <2>7 DEF Starts, Others, Active
    <3>2. Alone /\ Knows(tracked, ingested, cut) /\ \A n \in twice : n[1] \in cut
        BY <2>1, <3>1 DEF OnceInv, Alone
    <3>3. Active(v) /\ ~Working(v) /\ v.tracked = tracked /\ v.written = 0
        BY <2>2, <2>7, <3>1, BegunShape
    <3>4. Careful(v, tracked, ingested', cut')
        BY <3>1, <3>2, <3>3 DEF Careful
    <3>. QED  BY <3>1, <3>2, <3>3, <3>4, WorksOn
  <2>8. CASE Analyze(p)
    <3>1. PICK d \in Docs : Goes(p, Asking(w, d)) /\ w.pc = "pass" /\ w.tracked[d] # mtime[d]
        BY <2>1, <2>2, <2>8 DEF Analyze, Earliest, Outdated, Fit, Passes
    <3>2. PICK v : v = Asking(w, d)
        OBVIOUS
    <3>3. /\ Active(v) /\ v.doc = d /\ v.seen = mtime[d] /\ v.written = 0 /\ v.tracked = w.tracked
          /\ (v.changed <=> w.changed)
        BY <2>2, <3>1, <3>2, AskingShape
    <3>4. w.tracked[d] \in Nat /\ mtime[d] \in Nat /\ w.tracked[d] <= mtime[d] /\ w.written = 0
        BY <2>2, <3>1 DEF WikiType, Fit, Passes, Backed, Behind
    <3>5. w.tracked[d] < mtime[d]
        BY <3>1, <3>4
    <3>6. ~overlapped /\ Active(w)
        BY <3>1 DEF Active, Goes
    <3>7. Careful(w, tracked, ingested, cut) /\ \A n \in twice : n[1] \in cut
        BY <2>3, <3>6
    <3>8. Careful(v, tracked, ingested, cut)
        BY <3>3, <3>4, <3>5, <3>7 DEF Careful
    <3>. QED  BY <2>4, <3>1, <3>2, <3>3, <3>6, <3>7, <3>8 DEF Goes
  <2>9. ASSUME ~overlapped, Working(w), Active(w), NEW taken, taken = ingested', NoteOf(w) \in taken,
               taken \subseteq ingested \cup {NoteOf(w)}, cut' = cut, tracked' = tracked,
               \A n \in twice' : n[1] \in cut, proc' = [proc EXCEPT ![p] = Indexed(w)]
        PROVE  Alone'
    <3>1. Careful(w, tracked, ingested, cut)
        BY <2>3, <2>9
    <3>2. w.tracked[w.doc] < w.seen /\ Knows(w.tracked, ingested \ {NoteOf(w)}, cut)
        BY <2>9, <3>1, CarefulKnows DEF Careful
    <3>3. taken \subseteq Docs \X Nat
        BY <2>1, <2>9, NoteShape DEF WikiInv, WikiType
    <3>4. Knows(w.tracked, taken \ {NoteOf(w)}, cut)
        BY <2>9, <3>2 DEF Knows
    <3>5. Active(Indexed(w)) /\ Careful(Indexed(w), tracked, taken, cut)
        BY <2>2, <2>9, <3>2, <3>3, <3>4, IndexedKnows
    <3>. QED  BY <2>4, <2>9, <3>5
  <2>10. CASE Records(p)
    <3>1. Working(w) /\ Active(w) /\ NoteOf(w) \in ingested /\ proc' = [proc EXCEPT ![p] = Indexed(w)]
          /\ UNCHANGED <<tracked, ingested, twice, cut, overlapped>>
        BY <2>1, <2>2, <2>10 DEF Records, Working, Backed, Goes
    <3>2. \A n \in twice' : n[1] \in cut
        BY <2>3, <3>1
    <3>3. ingested \subseteq ingested \cup {NoteOf(w)}
        OBVIOUS
    <3>. QED  BY <2>9, <3>1, <3>2, <3>3
  <2>11. CASE WritePage(p)
    <3>1. /\ w.pc = "updating" /\ Working(w) /\ Active(w) /\ ~overlapped
          /\ ingested' = ingested \cup {NoteOf(w)} /\ cut' = cut /\ tracked' = tracked
          /\ twice' = IF w.written = 0 /\ NoteOf(w) \in ingested THEN twice \cup {NoteOf(w)} ELSE twice
        BY <2>1, <2>11 DEF WritePage, Working, Active
    <3>2. PICK v : /\ v = Counted(Closed(w, "noting")) /\ Active(v) /\ v.written = w.written + 1
                   /\ v.doc = w.doc /\ v.seen = w.seen /\ v.tracked = w.tracked /\ (v.changed <=> w.changed)
        BY <2>2, <3>1, CountedShape
    <3>3. proc' = [proc EXCEPT ![p] = v]
        BY <2>1, <2>11, <3>2 DEF WritePage
    <3>4. Careful(w, tracked, ingested, cut) /\ \A n \in twice : n[1] \in cut
        BY <2>3, <3>1
    <3>5. w.written = 0 /\ NoteOf(w) \in ingested => w.doc \in cut
        BY <2>2, <3>1, <3>4, NotNotedYet
    <3>6. \A n \in twice' : n[1] \in cut
        BY <3>1, <3>4, <3>5 DEF NoteOf
    <3>7. Knows(w.tracked, ingested \ {NoteOf(w)}, cut)
        BY <3>4, CarefulKnows
    <3>8. NoteOf(v) = NoteOf(w) /\ v.written > 0
        BY <2>2, <3>2 DEF NoteOf, Fit, Passes
    <3>9. Knows(v.tracked, ingested' \ {NoteOf(v)}, cut)
        BY <3>1, <3>2, <3>7, <3>8 DEF Knows
    <3>10. Careful(v, tracked, ingested', cut)
        BY <3>1, <3>2, <3>4, <3>8, <3>9 DEF Careful
    <3>. QED  BY <2>4, <3>1, <3>2, <3>3, <3>6, <3>10
  <2>12. CASE NothingToNote(p)
    <3>1. Working(w) /\ Active(w) /\ ~overlapped /\ proc' = [proc EXCEPT ![p] = Indexed(w)]
          /\ ingested' = ingested \cup {NoteOf(w)} /\ UNCHANGED <<tracked, twice, cut>>
        BY <2>1, <2>12 DEF NothingToNote, Working, Active
    <3>2. \A n \in twice' : n[1] \in cut
        BY <2>3, <3>1
    <3>3. PICK taken : taken = ingested' /\ NoteOf(w) \in taken /\ taken \subseteq ingested \cup {NoteOf(w)}
        BY <3>1
    <3>. QED  BY <2>9, <3>1, <3>2, <3>3
  <2>13. CASE InsertFails(p)
    <3>1. /\ w.pc \in {"analyzing", "noting", "updating"} /\ ~overlapped
          /\ proc' = [proc EXCEPT ![p] = Held(w)] /\ UNCHANGED <<tracked, ingested, twice>>
          /\ cut' = IF w.written = 0 THEN cut ELSE cut \cup {w.doc}
        BY <2>1, <2>13 DEF InsertFails
    <3>2. Working(w) /\ Active(w) /\ w.written \in Nat
        BY <2>2, <3>1 DEF Working, Active, Fit, Passes
    <3>3. PICK v : /\ v = Held(w) /\ Active(v) /\ ~Working(v) /\ v.tracked = w.tracked
                   /\ (v.changed <=> w.changed) /\ v.written = 0
        BY <2>2, <3>2, HeldShape
    <3>4. Careful(w, tracked, ingested, cut) /\ \A n \in twice : n[1] \in cut
        BY <2>3, <3>1, <3>2
    <3>5. Knows(w.tracked, ingested, cut')
      <4>1. CASE w.written = 0
          BY <3>1, <3>4, <4>1 DEF Careful
      <4>2. CASE w.written # 0
        <5>1. Knows(w.tracked, ingested \ {NoteOf(w)}, cut) /\ cut' = cut \cup {w.doc}
            BY <3>1, <3>4, <4>2, CarefulKnows
        <5>. QED  BY <5>1 DEF Knows, NoteOf
      <4>. QED  BY <4>1, <4>2
    <3>6. Careful(v, tracked, ingested', cut')
        BY <3>1, <3>3, <3>4, <3>5 DEF Careful
    <3>7. cut \subseteq cut' /\ \A n \in twice' : n[1] \in cut
        BY <3>1, <3>4
    <3>. QED  BY <2>4, <3>1, <3>2, <3>3, <3>6, <3>7
  <2>14. ASSUME ~overlapped, Active(w), NEW v, ~Active(v), proc' = [proc EXCEPT ![p] = v],
                ingested' = ingested, twice' = twice, cut \subseteq cut',
                \A d \in Docs \ cut' : tracked'[d] = w.tracked[d], w.written > 0 => w.doc \in cut'
         PROVE  Alone'
    <3>1. /\ Careful(w, tracked, ingested, cut) /\ (\A n \in twice : n[1] \in cut)
          /\ \A q \in Procs \ {p} : ~Active(proc[q])
        BY <2>3, <2>14
    <3>2. PICK times, more : times = tracked' /\ more = cut'
        OBVIOUS
    <3>3. ingested \subseteq Docs \X Nat
        BY <2>2 DEF WikiType
    <3>4. Knows(times, ingested, more)
        BY <2>14, <3>1, <3>2, <3>3, CutKnows
    <3>5. \A n \in twice' : n[1] \in cut'
        BY <2>14, <3>1
    <3>. QED  BY <2>14, <3>1, <3>2, <3>4, <3>5, ComesToRest
  <2>15. CASE EndPass(p)
    <3>1. /\ w.pc = "pass" /\ ~overlapped /\ proc' = [proc EXCEPT ![p] = Rests(p, w)]
          /\ tracked' = Saved(w) /\ UNCHANGED <<ingested, twice, cut>>
        BY <2>1, <2>15 DEF EndPass
    <3>2. Active(w) /\ w.written = 0 /\ ~(w.written > 0) /\ ~Active(Rests(p, w))
        BY <2>2, <3>1, RestsShape DEF Active, Fit
    <3>3. tracked' = w.tracked
      <4>1. w.changed \/ w.tracked = tracked
          BY <2>3, <3>1, <3>2 DEF Careful
      <4>. QED  BY <3>1, <4>1 DEF Saved
    <3>4. cut \subseteq cut'
        BY <3>1
    <3>. QED  BY <2>14, <3>1, <3>2, <3>3, <3>4
  <2>16. CASE SaveBreaksOff(p)
    <3>1. PICK v \in {Idle, Rests(p, w)} : proc' = [proc EXCEPT ![p] = v]
        BY <2>1, <2>16 DEF SaveBreaksOff
    <3>2. /\ w.pc = "pass" /\ ~overlapped /\ tracked' = Unindexed /\ UNCHANGED <<ingested, twice>>
          /\ cut' = cut \cup {d \in Docs : Untracked # tracked[d] \/ Untracked # w.tracked[d]}
        BY <2>1, <2>16 DEF SaveBreaksOff
    <3>3. Active(w) /\ ~(w.written > 0) /\ ~Active(v)
        BY <2>2, <3>1, <3>2, RestsShape, IdleShape DEF Active, Fit
    <3>4. cut \subseteq cut' /\ \A d \in Docs \ cut' : tracked'[d] = w.tracked[d]
        BY <3>2 DEF Unindexed
    <3>. QED  BY <2>14, <3>1, <3>2, <3>3, <3>4
  <2>17. CASE Stop(p)
    <3>1. /\ Active(w) /\ ~overlapped /\ tracked' = tracked /\ UNCHANGED <<ingested, twice>>
          /\ proc' = [proc EXCEPT ![p] = Idle]
          /\ cut' = cut \cup {d \in Docs : w.tracked[d] # tracked[d] \/ (d = w.doc /\ w.written > 0)}
        BY <2>1, <2>17 DEF Stop, Active
    <3>2. w.written > 0 => w.doc \in cut'
        BY <2>2, <3>1 DEF Fit, Working
    <3>3. cut \subseteq cut' /\ \A d \in Docs \ cut' : tracked'[d] = w.tracked[d]
        BY <3>1
    <3>. QED  BY <2>14, <3>1, <3>2, <3>3, IdleShape
  <2>18. CASE ~Active(proc[p]) /\ Goes(p, Idle)
      BY <2>1, <2>5, <2>18, IdleShape DEF Goes
  <2>. QED  BY <1>3, <2>1, <2>6, <2>7, <2>8, <2>10, <2>11, <2>12, <2>13, <2>15, <2>16, <2>17, <2>18
            DEF WikiSteps
<1>. QED  BY <1>2, <1>3, WikiCases

LEMMA OnceStart == WikiInit => OnceInv
    BY IdleShape DEF WikiInit, OnceInv, Alone, Knows

\* What a log said is noted by one insert for each of its contents, unless two processes were
\* at work at a time, or an insert or a pass was cut short after something of the log was noted:
\* a process that is alone knows of every note by the time it recorded, or has it in hand.
THEOREM NotesAreNotedOnce == WikiSpec => []NotedOnce
<1>1. OnceInv => NotedOnce
    BY DEF OnceInv, Alone, NotedOnce
<1>2. WikiInit /\ [][WikiNext]_wikiVars => []OnceInv
    BY OnceStart, OnceStep, WikiStart, WikiStep, PTL
<1>. QED  BY <1>1, <1>2, PTL DEF WikiSpec

-----------------------------------------------------------------------------
(* The types of the wiki's variables *)

\* Logs are edited and things happen within their bound.
CountsInv ==
    /\ edits \in Nat /\ failures \in Nat /\ commands \in Nat /\ stops \in Nat
    /\ edits + failures + commands + stops <= MaxIncidents
    /\ \A d \in Docs : mtime[d] <= edits + 1

\* What a step may count.
Incident ==
    /\ mtime' = mtime /\ edits' = edits
    /\ \/ UNCHANGED <<failures, commands, stops>>
       \/ MayHappen /\ failures' = failures + 1 /\ UNCHANGED <<commands, stops>>
       \/ MayHappen /\ commands' = commands + 1 /\ UNCHANGED <<failures, stops>>
       \/ MayHappen /\ stops' = stops + 1 /\ UNCHANGED <<failures, commands>>

LEMMA CountsStep == WikiInv /\ CountsInv /\ [WikiNext]_wikiVars => CountsInv'
<1>. SUFFICES ASSUME WikiInv, CountsInv, [WikiNext]_wikiVars PROVE CountsInv'
    OBVIOUS
<1>. USE DEF wikiCounts
<1>1. CASE Incident
  <2>1. \A d \in Docs : mtime'[d] <= edits' + 1
      BY <1>1 DEF CountsInv, Incident
  <2>. QED  BY <1>1, <2>1, WikiAssumption DEF CountsInv, MayHappen, Incident
<1>2. ASSUME NEW d \in Docs, Edit(d) PROVE CountsInv'
  <2>1. MayHappen /\ edits' = edits + 1 /\ UNCHANGED <<failures, commands, stops>>
        /\ mtime' = [mtime EXCEPT ![d] = mtime[d] + 1]
      BY <1>2 DEF Edit
  <2>2. ASSUME NEW e \in Docs PROVE mtime'[e] <= edits' + 1
    <3>1. mtime[e] \in Nat /\ mtime[e] <= edits + 1 /\ mtime'[e] \in {mtime[e], mtime[e] + 1}
        BY <2>1 DEF WikiInv, WikiType, CountsInv
    <3>. QED  BY <2>1, <3>1 DEF CountsInv
  <2>. QED  BY <2>1, <2>2, WikiAssumption DEF CountsInv, MayHappen
<1>3. ASSUME NEW p, NEW v, Starts(p, v) PROVE Incident
    BY <1>3 DEF Starts, Incident
<1>4. ASSUME NEW p, NEW v, Goes(p, v) PROVE Incident
    BY <1>4 DEF Goes, Incident
<1>5. ASSUME NEW p \in Procs, Inserts(p) PROVE Incident
  <2>1. CASE WritePage(p) \/ NothingToNote(p) \/ InsertFails(p)
      BY <2>1 DEF WritePage, NothingToNote, InsertFails, Incident
  <2>. QED  BY <1>4, <1>5, <2>1 DEF Inserts, OpenPage, EndInsert
<1>6. ASSUME NEW p \in Procs, Consolidates(p) PROVE Incident
  <2>1. ASSUME NEW links, AppendMerged(p, links) PROVE Incident
      BY <2>1 DEF AppendMerged, Incident
  <2>2. CASE WriteLinks(p) \/ RemoveMerged(p) \/ MergeFails(p)
      BY <2>2 DEF WriteLinks, RemoveMerged, MergeFails, Incident
  <2>. QED  BY <1>4, <1>6, <2>1, <2>2 DEF Consolidates, Merge, AddLinks, ReadLinks, EndLinks
<1>7. ASSUME NEW p \in Procs, Defer(p) \/ EndPass(p) \/ SaveBreaksOff(p) \/ Stop(p) PROVE Incident
    BY <1>7 DEF Defer, EndPass, SaveBreaksOff, Stop, Incident
<1>8. ASSUME UNCHANGED wikiVars PROVE Incident
    BY <1>8 DEF wikiVars, Incident
<1>9. ASSUME NEW p \in Procs, PassStep(p) \/ BeginLint(p) PROVE Incident
    BY <1>3, <1>4, <1>5, <1>6, <1>7, <1>9 DEF PassStep, BeginPass, BeginLint, Skip, Analyze
<1>10. CASE WikiNext
    BY <1>1, <1>2, <1>4, <1>7, <1>9, <1>10 DEF WikiNext, HoldEnds, Reload
<1>. QED  BY <1>1, <1>8, <1>10

\* A page that says something is there; what pages say, and what a process has read of them,
\* has been noted.
PagesInv ==
    /\ \A s \in Slugs : pages[s].notes \subseteq ingested /\ (pages[s].notes # {} => pages[s].exists)
    /\ \A p \in Procs : proc[p].held \subseteq ingested

\* A process moves, and one page at most is written, with what it read and its own note.
LEMMA OnePage ==
    ASSUME WikiInv, PagesInv, NEW p \in Procs, NEW v, proc' = [proc EXCEPT ![p] = v],
           v.held \subseteq ingested, ingested \subseteq ingested',
           \/ pages' = pages
           \/ \E s \in Slugs : \E x : /\ pages' = [pages EXCEPT ![s] = x]
                                    /\ x.notes \subseteq ingested' /\ (x.notes # {} => x.exists)
    PROVE  PagesInv'
<1>1. \A q \in Procs : proc'[q] = v \/ proc'[q] = proc[q]
    BY DEF WikiInv, WikiType
<1>2. \A q \in Procs : proc'[q].held \subseteq ingested'
    BY <1>1 DEF PagesInv
<1>3. \A s \in Slugs : pages'[s].notes \subseteq ingested' /\ (pages'[s].notes # {} => pages'[s].exists)
  <2>1. CASE pages' = pages
      BY <2>1 DEF PagesInv
  <2>2. ASSUME NEW s \in Slugs, NEW x, pages' = [pages EXCEPT ![s] = x],
               x.notes \subseteq ingested', x.notes # {} => x.exists, NEW t \in Slugs
        PROVE  pages'[t].notes \subseteq ingested' /\ (pages'[t].notes # {} => pages'[t].exists)
    <3>1. pages'[t] = x \/ pages'[t] = pages[t]
        BY <2>2 DEF WikiInv, WikiType
    <3>. QED  BY <2>2, <3>1 DEF PagesInv
  <2>. QED  BY <2>1, <2>2
<1>. QED  BY <1>2, <1>3 DEF PagesInv

\* A write that breaks off leaves a page that says nothing.
LEMMA BrokenPage ==
    ASSUME WikiInv, NEW p \in Procs, BreaksOff(proc[p])
    PROVE  \/ pages' = pages
           \/ \E s \in Slugs : \E x : /\ pages' = [pages EXCEPT ![s] = x]
                                    /\ x.notes \subseteq ingested' /\ (x.notes # {} => x.exists)
<1>1. CASE UNCHANGED <<pages, excused>>
    BY <1>1
<1>2. CASE ~ UNCHANGED <<pages, excused>>
  <2>1. proc[p].page \in Slugs /\ pages' = [pages EXCEPT ![proc[p].page] = [exists |-> TRUE, notes |-> {}]]
      BY <1>2 DEF BreaksOff, WikiInv, WikiType, Fit
  <2>2. PICK s, x : s = proc[p].page /\ x = [exists |-> TRUE, notes |-> {}]
      OBVIOUS
  <2>3. pages' = [pages EXCEPT ![s] = x] /\ s \in Slugs /\ x.notes = {}
      BY <2>1, <2>2
  <2>. QED  BY <2>3
<1>. QED  BY <1>1, <1>2

LEMMA PagesStep == WikiInv /\ PagesInv /\ [WikiNext]_wikiVars => PagesInv'
<1>. SUFFICES ASSUME WikiInv, PagesInv, [WikiNext]_wikiVars PROVE PagesInv'
    OBVIOUS
<1>. USE DEF wikiHistory
<1>1. ASSUME NEW p \in Procs PROVE Fit(proc[p]) /\ proc[p].held \subseteq ingested /\ WikiType
    BY DEF WikiInv, WikiType, PagesInv
<1>2. \A s \in Slugs : pages[s].notes \subseteq ingested
    BY DEF PagesInv
<1>3. ASSUME NEW p \in Procs, NEW v, Goes(p, v), v.held \subseteq ingested PROVE PagesInv'
    BY <1>3, OnePage DEF Goes
<1>4. ASSUME NEW p \in Procs, NEW v, v.held \subseteq ingested, proc' = [proc EXCEPT ![p] = v],
             NEW s \in Slugs, NEW said, pages' = [pages EXCEPT ![s] = [exists |-> TRUE, notes |-> said]],
             said \subseteq ingested', ingested \subseteq ingested'
      PROVE  PagesInv'
  <2>1. PICK x : x = [exists |-> TRUE, notes |-> said]
      OBVIOUS
  <2>2. pages' = [pages EXCEPT ![s] = x] /\ x.notes \subseteq ingested' /\ (x.notes # {} => x.exists)
      BY <1>4, <2>1
  <2>. QED  BY <1>4, <2>2, OnePage
<1>5. ASSUME NEW p \in Procs, BeginPass(p) \/ BeginLint(p) PROVE PagesInv'
  <2>1. PICK v \in {Begun(proc[p]), Linting(proc[p])} : Starts(p, v)
      BY <1>5 DEF BeginPass, BeginLint
  <2>2. v.held = proc[p].held
      BY <1>1, <2>1, BegunShape DEF Starts, Active
  <2>. QED  BY <1>1, <2>1, <2>2, OnePage DEF Starts
<1>6. ASSUME NEW p \in Procs, Skip(p) \/ Defer(p) PROVE PagesInv'
  <2>1. PICK d : proc' = [proc EXCEPT ![p] = Passed(proc[p], d)] \/ proc' = [proc EXCEPT ![p] = Deferred(proc[p])]
      BY <1>6 DEF Skip, Defer, Goes
  <2>2. PICK v \in {Passed(proc[p], d), Deferred(proc[p])} : proc' = [proc EXCEPT ![p] = v]
      BY <2>1
  <2>3. v.held = proc[p].held
      BY <1>1, <2>2, PassedShape
  <2>4. UNCHANGED <<pages, ingested>>
      BY <1>6 DEF Skip, Defer, Goes
  <2>. QED  BY <1>1, <2>2, <2>3, <2>4, OnePage
<1>7. ASSUME NEW p \in Procs, Analyze(p) PROVE PagesInv'
  <2>1. PICK d \in Docs : Goes(p, Asking(proc[p], d)) /\ proc[p].pc = "pass"
      BY <1>1, <1>7 DEF Analyze, Earliest, Fit, Passes
  <2>2. Asking(proc[p], d).held = proc[p].held
      BY <1>1, <2>1, AskingShape
  <2>. QED  BY <1>1, <1>3, <2>1, <2>2
<1>8. ASSUME NEW p \in Procs, Inserts(p) PROVE PagesInv'
  <2>1. PICK w : w = proc[p]
      OBVIOUS
  <2>2. Fit(w) /\ w.held \subseteq ingested /\ WikiType
      BY <1>1, <2>1
  <2>3. ASSUME NEW s \in Slugs, NEW a, OpenPage(p, s, a) PROVE PagesInv'
    <3>1. Opened(w, s, a).held = pages[s].notes \/ Opened(w, s, a).held = {}
        BY <2>1, <2>2, <2>3, OpenedShape DEF OpenPage
    <3>. QED  BY <1>2, <1>3, <2>1, <2>3, <3>1 DEF OpenPage
  <2>4. CASE EndInsert(p)
    <3>1. Noted(w).held = w.held \/ Noted(w).held = {}
        BY <2>1, <2>2, <2>4, NotedShape, IndexedShape DEF EndInsert
    <3>. QED  BY <1>3, <2>1, <2>2, <2>4, <3>1 DEF EndInsert
  <2>5. CASE WritePage(p)
    <3>1. /\ w.pc = "updating" /\ w.page \in Slugs /\ ingested' = ingested \cup {NoteOf(w)}
          /\ pages' = [pages EXCEPT ![w.page] = [exists |-> TRUE, notes |-> Contents(w)]]
        BY <2>1, <2>2, <2>5 DEF WritePage, Puts, Fit
    <3>2. PICK v : v = Counted(Closed(w, "noting")) /\ v.held = {}
        BY <2>2, <3>1, CountedShape
    <3>3. Contents(w) \subseteq ingested' /\ ingested \subseteq ingested' /\ v.held \subseteq ingested
        BY <2>2, <3>1, <3>2 DEF Contents
    <3>4. proc' = [proc EXCEPT ![p] = v]
        BY <2>1, <2>5, <3>2 DEF WritePage
    <3>. QED  BY <1>4, <3>1, <3>3, <3>4
  <2>6. CASE NothingToNote(p)
    <3>1. Indexed(w).held \subseteq ingested
        BY <2>2, IndexedShape
    <3>. QED  BY <2>1, <2>6, <3>1, OnePage DEF NothingToNote
  <2>7. CASE InsertFails(p)
    <3>1. Working(w)
      <4>1. w.pc \in {"analyzing", "noting", "updating"}
          BY <2>1, <2>7 DEF InsertFails
      <4>. QED  BY <4>1 DEF Working
    <3>2. Held(w).held \subseteq ingested
        BY <2>2, <3>1, HeldShape
    <3>3. BreaksOff(proc[p]) /\ ingested' = ingested /\ proc' = [proc EXCEPT ![p] = Held(w)]
        BY <2>1, <2>7 DEF InsertFails
    <3>. QED  BY <3>2, <3>3, BrokenPage, OnePage
  <2>. QED  BY <1>8, <2>3, <2>4, <2>5, <2>6, <2>7 DEF Inserts
<1>9. ASSUME NEW p \in Procs, Consolidates(p) PROVE PagesInv'
  <2>1. PICK w : w = proc[p]
      OBVIOUS
  <2>2. Fit(w) /\ w.held \subseteq ingested /\ WikiType
      BY <1>1, <2>1
  <2>3. ASSUME NEW keep \in Slugs, NEW gone \in Slugs, Merge(p, keep, gone) PROVE PagesInv'
    <3>1. Merging(w, keep, gone).held = pages[gone].notes
        BY <2>1, <2>2, <2>3, MergingShape DEF Merge
    <3>. QED  BY <1>2, <1>3, <2>1, <2>3, <3>1 DEF Merge
  <2>4. ASSUME NEW links \in SUBSET Slugs, AppendMerged(p, links) PROVE PagesInv'
    <3>1. /\ w.pc = "merging" /\ w.page \in Slugs /\ ingested' = ingested
          /\ pages' = [pages EXCEPT ![w.page] = [exists |-> TRUE, notes |-> Joined(w)]]
          /\ proc' = [proc EXCEPT ![p] = Relinking(w, links)]
        BY <2>1, <2>2, <2>4 DEF AppendMerged, Fit
    <3>2. Relinking(w, links).held \subseteq ingested
        BY <2>2, <3>1, RelinkingShape
    <3>3. Joined(w) \subseteq ingested' /\ ingested \subseteq ingested'
        BY <1>2, <2>2, <3>1 DEF Joined
    <3>. QED  BY <1>4, <3>1, <3>2, <3>3
  <2>5. ASSUME Goes(p, Consolidated(w)), w.pc \in {"consolidating", "merged", "relinking"} PROVE PagesInv'
    <3>1. Active(w) /\ w.pc \notin {"analyzing", "noting", "updating"}
        BY <2>5 DEF Active
    <3>2. Consolidated(w).held = {}
        BY <2>2, <3>1, ConsolidatedShape, IndexedShape
    <3>. QED  BY <1>3, <2>5, <3>2
  <2>6. ASSUME NEW links \in SUBSET Slugs, AddLinks(p, links) PROVE PagesInv'
    <3>1. w.pc \in {"consolidating", "merged"}
        BY <2>1, <2>6 DEF AddLinks
    <3>2. CASE links = {}
        BY <2>1, <2>5, <2>6, <3>1, <3>2 DEF AddLinks
    <3>3. CASE links # {}
      <4>1. Relinking(w, links).held \subseteq ingested
          BY <2>2, <3>1, RelinkingShape
      <4>. QED  BY <1>3, <2>1, <2>6, <3>3, <4>1 DEF AddLinks
    <3>. QED  BY <3>2, <3>3
  <2>7. ASSUME NEW s \in Slugs, ReadLinks(p, s) PROVE PagesInv'
    <3>1. Rereading(w, s).held = pages[s].notes \/ Rereading(w, s).held = w.held
        BY <2>1, <2>2, <2>7, RereadingShape DEF ReadLinks
    <3>. QED  BY <1>2, <1>3, <2>1, <2>2, <2>7, <3>1 DEF ReadLinks
  <2>8. CASE WriteLinks(p)
    <3>1. /\ w.pc = "rewriting" /\ w.page \in Slugs /\ ingested' = ingested /\ {} \in SUBSET Slugs
          /\ pages' = [pages EXCEPT ![w.page] = [exists |-> TRUE, notes |-> Contents(w)]]
          /\ proc' = [proc EXCEPT ![p] = Closed(w, "relinking")]
        BY <2>1, <2>2, <2>8 DEF WriteLinks, Puts, Fit
    <3>2. Closed(w, "relinking").held \subseteq ingested
        BY <2>2, <3>1, RelinkingShape
    <3>3. Contents(w) \subseteq ingested' /\ ingested \subseteq ingested'
        BY <2>2, <3>1 DEF Contents
    <3>. QED  BY <1>4, <3>1, <3>2, <3>3
  <2>9. CASE RemoveMerged(p)
    <3>1. /\ w.pc = "relinking" /\ w.gone \in Slugs /\ pages' = [pages EXCEPT ![w.gone] = NoPage]
          /\ proc' = [proc EXCEPT ![p] = MergeOver(w)] /\ ingested' = ingested
        BY <2>1, <2>2, <2>9 DEF RemoveMerged, Fit, Passes
    <3>2. MergeOver(w).held \subseteq ingested
        BY <2>2, <3>1, MergeOverShape
    <3>3. NoPage.notes = {}
        BY DEF NoPage
    <3>4. PICK x : x = NoPage /\ x.notes \subseteq ingested' /\ (x.notes # {} => x.exists)
        BY <3>3
    <3>5. pages' = [pages EXCEPT ![w.gone] = x]
        BY <3>1, <3>4
    <3>. QED  BY <3>1, <3>2, <3>4, <3>5, OnePage
  <2>10. CASE MergeFails(p)
    <3>1. /\ w.pc \in {"merging", "relinking", "rewriting"} /\ BreaksOff(proc[p])
          /\ proc' = [proc EXCEPT ![p] = Interrupted(w)] /\ ingested' = ingested
        BY <2>1, <2>10 DEF MergeFails
    <3>2. Interrupted(w).held \subseteq ingested
        BY <2>2, <3>1, MergeOverShape
    <3>. QED  BY <3>1, <3>2, BrokenPage, OnePage
  <2>11. CASE EndLinks(p)
      BY <2>1, <2>5, <2>11 DEF EndLinks
  <2>. QED  BY <1>9, <2>3, <2>4, <2>6, <2>7, <2>8, <2>9, <2>10, <2>11 DEF Consolidates
<1>10. ASSUME NEW p \in Procs, EndPass(p) \/ SaveBreaksOff(p) \/ Stop(p) PROVE PagesInv'
  <2>1. PICK v \in {Idle, Rests(p, proc[p])} : proc' = [proc EXCEPT ![p] = v]
      BY <1>10 DEF EndPass, SaveBreaksOff, Stop
  <2>2. v.held \subseteq ingested
      BY <1>1, <2>1, IdleShape, RestsShape
  <2>3. ingested' = ingested /\ (pages' = pages \/ BreaksOff(proc[p]))
      BY <1>10 DEF EndPass, SaveBreaksOff, Stop
  <2>. QED  BY <2>1, <2>2, <2>3, BrokenPage, OnePage
<1>11. ASSUME NEW p \in Procs, NEW d \in Docs, HoldEnds(p, d) PROVE PagesInv'
  <2>1. Released(proc[p], d).held = proc[p].held
      BY <1>1, ReleasedShape
  <2>. QED  BY <1>1, <1>3, <1>11, <2>1 DEF HoldEnds
<1>12. CASE Reload
  <2>1. "scheduler" \in Procs /\ Idle.held \subseteq ingested
      BY IdleShape DEF Procs
  <2>. QED  BY <1>3, <1>12, <2>1 DEF Reload
<1>13. CASE UNCHANGED wikiVars \/ \E d \in Docs : Edit(d)
  <2>1. UNCHANGED <<pages, proc, ingested>>
      BY <1>13 DEF wikiVars, Edit
  <2>. QED  BY <2>1 DEF PagesInv
<1>14. ASSUME NEW p \in Procs, PassStep(p) PROVE PagesInv'
    BY <1>5, <1>6, <1>7, <1>8, <1>9, <1>10, <1>14 DEF PassStep
<1>. QED  BY <1>5, <1>10, <1>11, <1>12, <1>13, <1>14 DEF WikiNext

LEMMA TypesStart == WikiInit => CountsInv /\ PagesInv
<1>1. WikiInit => CountsInv
    BY WikiAssumption DEF WikiInit, CountsInv
<1>2. WikiInit => PagesInv
    BY IdleShape DEF WikiInit, PagesInv, NoPage
<1>. QED  BY <1>1, <1>2

\* Files, trackers and passes are of their types, every recorded time is one that a log has had,
\* a page that says something is there, and a process with a page open knows which.
THEOREM WikiIsTyped == WikiSpec => []WikiTypeOK
<1>1. WikiInv /\ CountsInv /\ PagesInv => WikiTypeOK
  <2>. SUFFICES ASSUME WikiInv, CountsInv, PagesInv PROVE WikiTypeOK
      OBVIOUS
  <2>1. ASSUME NEW d \in Docs PROVE mtime[d] \in Times
    <3>1. mtime[d] \in Nat /\ mtime[d] <= edits + 1
        BY DEF WikiInv, WikiType, CountsInv
    <3>. QED  BY <3>1, WikiAssumption DEF CountsInv, Times
  <2>2. ASSUME NEW d \in Docs, NEW n \in Nat, n <= mtime[d] PROVE n \in Times
      BY <2>1, <2>2, WikiAssumption DEF Times
  <2>3. ASSUME NEW times \in [Docs -> Nat], Behind(times, mtime) PROVE times \in [Docs -> Times]
      BY <2>2, <2>3 DEF Behind
  <2>4. ingested \subseteq Notes
    <3>1. ASSUME NEW n \in ingested PROVE n \in Notes
      <4>1. n \in Docs \X Nat /\ n[2] <= mtime[n[1]]
          BY DEF WikiInv, WikiType
      <4>. QED  BY <2>2, <4>1 DEF Notes
    <3>. QED  BY <3>1
  <2>5. \A s \in Slugs : pages[s].notes \subseteq Notes /\ (pages[s].notes # {} => pages[s].exists)
      BY <2>4 DEF PagesInv
  <2>6. mtime \in [Docs -> Times] /\ tracked \in [Docs -> Times]
      BY <2>1, <2>3 DEF WikiInv, WikiType
  <2>7. ASSUME NEW p \in Procs
        PROVE  /\ proc[p].pc \in {"idle", "pass", "analyzing", "noting", "updating", "consolidating",
                                  "merging", "merged", "relinking", "rewriting"}
               /\ proc[p].todo \subseteq Docs /\ proc[p].tracked \in [Docs -> Times]
               /\ proc[p].pc \in {"updating", "merging", "rewriting"} => proc[p].page \in Slugs
    <3>1. Fit(proc[p]) /\ Behind(proc[p].tracked, mtime)
        BY DEF WikiInv, WikiType, Backed
    <3>. QED  BY <2>3, <3>1 DEF Fit, Passes, Stages
  <2>. QED  BY <2>5, <2>6, <2>7 DEF WikiTypeOK
<1>2. WikiInit /\ [][WikiNext]_wikiVars => [](CountsInv /\ PagesInv)
    BY TypesStart, CountsStep, PagesStep, WikiStart, WikiStep, PTL
<1>. QED  BY <1>1, <1>2, AlwaysWikiInv, PTL DEF WikiSpec
=============================================================================

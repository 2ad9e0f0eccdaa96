-------------------------- MODULE Automation_proofs --------------------------
(***************************************************************************)
(* Theorems about Automation, for all events, tasks, clocks and bounds:    *)
(* what the user hears twice, what becomes of stored reminders, and which  *)
(* alerts are sent at all.                                                 *)
(***************************************************************************)
EXTENDS Automation, FiniteSetTheorems, WellFoundedInduction, TLAPS

-----------------------------------------------------------------------------
(* What the variables hold *)

Alerts == [kind : Kinds, id : Nat, at : Int]
Notes == [key : Slots \X Kinds \X Int, alert : Alerts]
Items == [kind : {"item"}, id : Nat, at : Nat]
States == [notified : SUBSET Notes, settled : SUBSET Items,
           reminder : [Titles -> {"none", "waiting", "fired"}]]
Events == [gen : Nat, start : Nat, daily : BOOLEAN, lead : Int, items : Seq(Int)]
Checks == [stage : {"asleep", "events", "items", "tasks"},
           pc : {"working", "saving", "writing", "done"}, held : States, now : Int,
           files : SUBSET Slots, todo : SUBSET (Notes \cup Items \cup Titles),
           changed : BOOLEAN, overlapped : BOOLEAN]
Commands == [pc : {"none", "added", "read", "writing"}, title : Titles, held : States,
             overlapped : BOOLEAN]

AutoType ==
    /\ disk \in States /\ check \in Checks /\ command \in Commands
    /\ calendar \in [Slots -> Events] /\ named \in [Slots -> SUBSET Nat]
    /\ commands \in Nat /\ clock \in Nat
    /\ tasks \subseteq Titles /\ stored \subseteq Titles

\* Only a check at work has anything to save, and an event is saved at once.
ControlOK ==
    /\ check.pc # "working" => check.stage # "asleep"
    /\ check.pc = "done" => check.stage = "items"
    /\ check.stage \in {"asleep", "events"} => ~check.changed

\* What is to be done has not been recorded in the copy the check works on, ...
TodoOK ==
    /\ check.stage = "events" =>
         /\ check.todo \subseteq Notes
         /\ \A a, b \in check.todo : a.key = b.key => a = b
         /\ \A a \in check.todo : \A n \in check.held.notified : n.key # a.key
    /\ check.stage = "items" => check.todo \subseteq Items \ check.held.settled
    /\ check.stage = "tasks" =>
         check.todo \subseteq {t \in Titles : check.held.reminder[t] = "waiting"}

\* ... the key of an alert tells its event, by the file the event has had, its kind and
\* its occurrence, ...
Tells(n) ==
    /\ n.key[2] = n.alert.kind /\ n.key[3] = n.alert.at
    /\ n.alert.id \in named[n.key[1]]

NotesOK ==
    /\ \A n \in disk.notified \cup check.held.notified \cup command.held.notified :
           Tells(n) /\ n.alert \in announced
    /\ check.stage = "events" => \A a \in check.todo : Tells(a)

\* ... and of the events a file name has had the present one is the latest.
NamesOK ==
    /\ \A f \in Slots : named[f] \subseteq 1 .. commands
    /\ \A f, g \in Slots : f # g => named[f] \cap named[g] = {}
    /\ \A f \in Present : /\ calendar[f].gen \in named[f] /\ calendar[f].start > 0
                          /\ \A h \in named[f] : h <= calendar[f].gen

\* The copy of the check has all that the user has heard of, and the file has it once the
\* check has saved, but for what a command is writing.  A copy that was not overtaken has
\* all that the file has.
Saved == \/ check.pc = "done"
         \/ check.pc = "working" /\ ~check.changed
InCheck == IF check.pc = "writing" THEN Recorded(check.held) ELSE {}
InCommand == IF command.pc = "writing" THEN Recorded(command.held) ELSE {}

KeptOK ==
    /\ repeated \subseteq lost
    /\ check.stage # "asleep" => announced \ lost \subseteq Recorded(check.held)
    /\ Saved => announced \ lost \subseteq Recorded(disk) \cup InCommand
    /\ {Stored(t) : t \in stored} \ lost \subseteq Recorded(disk) \cup InCheck \cup InCommand
    /\ check.stage # "asleep" /\ ~check.overlapped => Recorded(disk) \subseteq Recorded(check.held)
    /\ command.pc \in {"read", "writing"} /\ ~command.overlapped =>
         Recorded(disk) \subseteq Recorded(command.held)

\* What a check has met is sent or still to be sent.
Heard(m) ==
    \/ m.alert \in announced \/ Reused(m.alert.id)
    \/ m.alert.at # Always /\ ~m.next
MetOK ==
    \A m \in met :
        /\ m.alert.kind \in Kinds
        /\ \/ Heard(m)
           \/ check.stage = "events" /\ \E a \in check.todo : a.alert = m.alert

AutoInv == AutoType /\ ControlOK /\ TodoOK /\ NotesOK /\ NamesOK /\ KeptOK /\ MetOK

-----------------------------------------------------------------------------
(* Lemmas on records and on what is recorded *)

LEMMA NewState ==
    ASSUME NEW s \in States
    PROVE  /\ Empty \in States
           /\ \A a \in Notes : [s EXCEPT !.notified = @ \cup {a}] \in States
           /\ \A i \in Items : [s EXCEPT !.settled = @ \cup {i}] \in States
           /\ \A t \in Titles : [s EXCEPT !.reminder[t] = "fired"] \in States
           /\ \A t \in Titles : [s EXCEPT !.reminder[t] = "waiting"] \in States
BY DEF States, Empty

LEMMA RecordedEmpty == Recorded(Empty) = {}
BY DEF Recorded, Empty

LEMMA RecordedNote ==
    ASSUME NEW s \in States, NEW a \in Notes
    PROVE  Recorded([s EXCEPT !.notified = @ \cup {a}]) = Recorded(s) \cup {a.alert}
<1>. DEFINE r == [s EXCEPT !.notified = @ \cup {a}]
<1>1. r.notified = s.notified \cup {a} /\ r.settled = s.settled /\ r.reminder = s.reminder
    BY DEF States
<1>. HIDE DEF r
<1>2. {n.alert : n \in r.notified} = {n.alert : n \in s.notified} \cup {a.alert}
    BY <1>1
<1>. QED  BY <1>1, <1>2 DEF Recorded

LEMMA RecordedItem ==
    ASSUME NEW s \in States, NEW i \in Items
    PROVE  Recorded([s EXCEPT !.settled = @ \cup {i}]) = Recorded(s) \cup {i}
<1>. DEFINE r == [s EXCEPT !.settled = @ \cup {i}]
<1>1. r.notified = s.notified /\ r.settled = s.settled \cup {i} /\ r.reminder = s.reminder
    BY DEF States
<1>. HIDE DEF r
<1>. QED  BY <1>1 DEF Recorded

\* The things of different kinds are different.
LEMMA ThingsDiffer ==
    /\ \A t, u \in Titles : Reminder(t) = Reminder(u) => t = u
    /\ \A t, u \in Titles : Stored(t) = Stored(u) => t = u
    /\ \A t, u \in Titles : Reminder(t) # Stored(u)
    /\ \A t \in Titles : Reminder(t).kind = "task" /\ Stored(t).kind = "stored"
    /\ \A a \in Alerts : a.kind \in {"headsup", "reminder"}
    /\ \A i \in Items : i.kind = "item"
<1>1. \A t \in Titles : /\ Reminder(t).kind = "task" /\ Reminder(t).id = t
                        /\ Stored(t).kind = "stored" /\ Stored(t).id = t
    BY DEF Reminder, Stored, Alert
<1>2. \A a \in Alerts : a.kind \in {"headsup", "reminder"}
    BY DEF Alerts, Kinds
<1>3. \A i \in Items : i.kind = "item"
    BY DEF Items
<1>. QED  BY <1>1, <1>2, <1>3

\* What is recorded, one by one, ...
LEMMA RecordedMember ==
    ASSUME NEW s, NEW x
    PROVE  x \in Recorded(s) <=>
             \/ \E n \in s.notified : x = n.alert
             \/ x \in s.settled
             \/ \E t \in Titles : s.reminder[t] = "fired" /\ x = Reminder(t)
             \/ \E t \in Titles : s.reminder[t] # "none" /\ x = Stored(t)
BY DEF Recorded

\* ... and by kind.
LEMMA RecordedIs ==
    ASSUME NEW s \in States
    PROVE  /\ \A t \in Titles : Reminder(t) \in Recorded(s) <=> s.reminder[t] = "fired"
           /\ \A t \in Titles : Stored(t) \in Recorded(s) <=> s.reminder[t] # "none"
           /\ \A i \in Items : i \in Recorded(s) <=> i \in s.settled
           /\ \A a \in Alerts : a \in Recorded(s) <=> \E n \in s.notified : n.alert = a
<1>1. s.settled \subseteq Items /\ \A n \in s.notified : n.alert \in Alerts
    BY DEF States, Notes
<1>2. \A t \in Titles : Reminder(t) \in Recorded(s) <=> s.reminder[t] = "fired"
    BY <1>1, ThingsDiffer, RecordedMember
<1>3. \A t \in Titles : Stored(t) \in Recorded(s) <=> s.reminder[t] # "none"
    BY <1>1, ThingsDiffer, RecordedMember
<1>4. \A i \in Items : i \in Recorded(s) <=> i \in s.settled
    BY <1>1, ThingsDiffer, RecordedMember
<1>5. \A a \in Alerts : a \in Recorded(s) <=> \E n \in s.notified : n.alert = a
    BY <1>1, ThingsDiffer, RecordedMember
<1>. QED  BY <1>2, <1>3, <1>4, <1>5

LEMMA RecordedFired ==
    ASSUME NEW s \in States, NEW t \in Titles
    PROVE  Recorded(s) \cup {Reminder(t)} \subseteq Recorded([s EXCEPT !.reminder[t] = "fired"])
<1>. DEFINE r == [s EXCEPT !.reminder[t] = "fired"]
<1>1. /\ r.notified = s.notified /\ r.settled = s.settled
      /\ \A u \in Titles : r.reminder[u] = IF u = t THEN "fired" ELSE s.reminder[u]
    BY DEF States
<1>2. Recorded(s) \cup {Reminder(t)} \subseteq Recorded(r)
  <2>. HIDE DEF r
  <2>. QED  BY <1>1, ThingsDiffer, RecordedMember
<1>. QED  BY <1>2

LEMMA RecordedWaiting ==
    ASSUME NEW s \in States, NEW t \in Titles
    PROVE  (Recorded(s) \ {Reminder(t)}) \cup {Stored(t)} \subseteq Recorded(WithReminder(s, t))
<1>. DEFINE r == WithReminder(s, t)
<1>1. /\ r.notified = s.notified /\ r.settled = s.settled
      /\ \A u \in Titles : r.reminder[u] = IF u = t THEN "waiting" ELSE s.reminder[u]
    BY DEF States, WithReminder
<1>2. (Recorded(s) \ {Reminder(t)}) \cup {Stored(t)} \subseteq Recorded(r)
  <2>. HIDE DEF r
  <2>. QED  BY <1>1, ThingsDiffer, RecordedMember
<1>. QED  BY <1>2

LEMMA LeastOfSet ==
    ASSUME NEW T, T \subseteq Nat, T # {}
    PROVE  \E x \in T : \A y \in T : x <= y
<1>1. PICK x \in T : \A y \in T : ~(<<y, x>> \in OpToRel(<, Nat))
    BY NatLessThanWellFounded, WFMin
<1>2. \A y \in T : ~(y < x)
    BY <1>1 DEF OpToRel
<1>. QED  BY <1>2

-----------------------------------------------------------------------------
(* When things are due *)

LEMMA DivisionIs ==
    ASSUME NEW a \in Nat, NEW b \in Nat \ {0}
    PROVE  /\ a \div b \in Nat
           /\ b * (a \div b) <= a /\ a < b * (a \div b) + b
OBVIOUS

LEMMA Larger ==
    ASSUME NEW a \in Int, NEW b \in Int
    PROVE  Max({a, b}) \in {a, b} /\ Max({a, b}) >= a /\ Max({a, b}) >= b
<1>1. \E x \in {a, b} : \A y \in {a, b} : x >= y
    OBVIOUS
<1>. QED  BY <1>1 DEF Max

LEMMA Monotone ==
    ASSUME NEW a \in Int, NEW b \in Int, NEW c \in Nat, a <= b
    PROVE  a * c <= b * c
OBVIOUS

DaysTo(D, now, start) == Max({(now \div D) - (start \div D), 0})

\* The day of the first occurrence that is not over is this day or the next one.
LEMMA DayOfNext ==
    ASSUME NEW D \in Nat \ {0}, NEW now \in Nat, NEW start \in Nat, NEW k \in Nat,
           now <= start + k * D, k > 0 => start + (k - 1) * D < now
    PROVE  DaysTo(D, now, start) \in Nat /\ k \in {DaysTo(D, now, start), DaysTo(D, now, start) + 1}
<1>. DEFINE n == now \div D
            m == start \div D
            d == n - m
<1>1. n \in Nat /\ n * D <= now /\ now < n * D + D
    BY DivisionIs
<1>2. m \in Nat /\ m * D <= start /\ start < m * D + D
    BY DivisionIs
<1>. HIDE DEF n, m
<1>3. d <= k
  <2>. SUFFICES ASSUME d >= k + 1 PROVE FALSE
    BY <1>1, <1>2
  <2>1. (k + m + 1) * D <= n * D
    BY <1>1, <1>2, Monotone
  <2>2. (k + m + 1) * D = k * D + m * D + D /\ k * D \in Int /\ m * D \in Int
    BY <1>2
  <2>. QED  BY <2>1, <2>2, <1>1, <1>2
<1>4. k > 0 => d >= k - 1
  <2>. SUFFICES ASSUME k > 0, d <= k - 2 PROVE FALSE
    BY <1>1, <1>2
  <2>1. (n + 1) * D <= (k - 1 + m) * D
    BY <1>1, <1>2, Monotone
  <2>2. /\ (k - 1 + m) * D = (k - 1) * D + m * D
        /\ (n + 1) * D = n * D + D
        /\ (k - 1) * D \in Int /\ m * D \in Int /\ n * D \in Int
    BY <1>1, <1>2
  <2>. QED  BY <2>1, <2>2, <1>1, <1>2
<1>5. Max({d, 0}) \in {d, 0} /\ Max({d, 0}) >= d /\ Max({d, 0}) >= 0
    BY <1>1, <1>2, Larger
<1>6. Max({d, 0}) \in Nat /\ k \in {Max({d, 0}), Max({d, 0}) + 1}
    BY <1>1, <1>2, <1>3, <1>4, <1>5
<1>. QED  BY <1>6 DEF n, m, DaysTo

\* The next occurrence is the one the code looks at once an alert for it is due.
LEMMA NextOccurs ==
    ASSUME AutomationAssumption, NEW e \in Events, e.daily, NEW now \in Nat,
           NEW s \in Starts(e), IsNext(e, s, now), NEW kind \in Kinds,
           AlertDue(kind, e, s, now)
    PROVE  s \in Occurrences(e, now)
<1>. DEFINE start == e.start
            days == DaysTo(Day, now, start)
            window == now + Max({Period, e.lead})
            ahead == {c \in Candidates(e, now) : now <= c /\ c <= window}
<1>1. start \in Nat /\ e.lead \in Int /\ Day \in Nat \ {0} /\ MaxTime \in Nat
    BY DEF Events, AutomationAssumption
<1>2. PICK k \in 0 .. MaxTime : s = start + k * Day
    BY DEF Starts
<1>3. now <= s /\ \A j \in 0 .. MaxTime : now <= start + j * Day => s <= start + j * Day
    BY DEF IsNext, Starts
<1>4. k > 0 => start + (k - 1) * Day < now
  <2>. HAVE k > 0
  <2>1. k - 1 \in 0 .. MaxTime /\ (k - 1) * Day = k * Day - Day /\ k * Day \in Int
    BY <1>1, <1>2
  <2>2. now <= start + (k - 1) * Day => s <= start + (k - 1) * Day
    BY <2>1, <1>3, Zenon
  <2>. QED  BY <2>1, <2>2, <1>1, <1>2
<1>5. days \in Nat /\ k \in {days, days + 1}
  <2>1. k \in Nat /\ now <= start + k * Day
    BY <1>1, <1>2, <1>3
  <2>. QED  BY <2>1, <1>1, <1>4, DayOfNext, Zenon
<1>6. Candidates(e, now) = {start + days * Day, start + (days + 1) * Day}
    BY DEF Candidates, DaysTo
<1>. HIDE DEF days
<1>7. s \in Int /\ \A c \in Candidates(e, now) : c \in Int
    BY <1>1, <1>2, <1>5, <1>6
<1>8. s <= window /\ window \in Int
  <2>1. /\ Max({Period, e.lead}) \in {Period, e.lead}
        /\ Max({Period, e.lead}) >= Period /\ Max({Period, e.lead}) >= e.lead
    <3>1. Period \in Int
      BY DEF Period
    <3>. QED  BY <1>1, <3>1, Larger, Zenon
  <2>2. s <= now + Period \/ s - e.lead <= now
    BY DEF AlertDue, HeadsUpDue, ReminderDue, Kinds
  <2>. QED  BY <2>1, <2>2, <1>1, <1>7 DEF Period
<1>. HIDE DEF window
<1>9. s \in ahead
    BY <1>2, <1>3, <1>5, <1>6, <1>8
<1>10. ASSUME NEW c \in ahead PROVE s <= c
  <2>1. c \in Candidates(e, now)
    OBVIOUS
  <2>2. PICK j \in {days, days + 1} : c = start + j * Day
    BY <2>1, <1>6
  <2>3. j \in Nat
    BY <1>5
  <2>. SUFFICES ASSUME j <= k - 1 PROVE FALSE
    <3>1. ASSUME j >= k PROVE s <= c
      <4>1. k * Day <= j * Day /\ k * Day \in Int /\ j * Day \in Int
        BY <1>1, <1>2, <2>3, <3>1, Monotone
      <4>. QED  BY <4>1, <2>2, <1>1, <1>2
    <3>. QED  BY <3>1, <1>2, <2>3
  <2>4. j * Day <= (k - 1) * Day /\ j * Day \in Int /\ (k - 1) * Day \in Int
    BY <1>1, <1>2, <2>3, Monotone
  <2>. PICK q \in Int : q = j * Day
    BY <2>4
  <2>. PICK p \in Int : p = (k - 1) * Day
    BY <2>4
  <2>5. q <= p /\ c = start + q /\ now <= c
    BY <2>2, <2>4
  <2>6. start + p < now
    <3>1. k > 0
      BY <1>2, <2>3
    <3>. QED  BY <3>1, <1>4
  <2>. QED  BY <2>5, <2>6, <1>1
<1>11. \A c \in ahead : c \in Int
    BY <1>7
<1>. HIDE DEF ahead
<1>12. Min(ahead) = s
  <2>1. Min(ahead) \in ahead /\ \A y \in ahead : Min(ahead) <= y
    BY <1>9, <1>10 DEF Min
  <2>. QED  BY <2>1, <1>9, <1>10, <1>11
<1>13. Occurrences(e, now) = IF ~e.daily THEN {e.start} ELSE IF ahead = {} THEN {} ELSE {Min(ahead)}
    BY DEF Occurrences, ahead, window
<1>. QED  BY <1>9, <1>12, <1>13

\* Occurrences are times, and an event that recurs begins after the beginning of time.
LEMMA OccurrencesAre ==
    ASSUME AutomationAssumption, NEW e \in Events, NEW now \in Nat
    PROVE  \A s \in Occurrences(e, now) : s \in Int
<1>. DEFINE days == DaysTo(Day, now, e.start)
            ahead == {c \in Candidates(e, now) : now <= c /\ c <= now + Max({Period, e.lead})}
<1>1. e.start \in Nat /\ Day \in Nat \ {0}
    BY DEF Events, AutomationAssumption
<1>2. now \div Day \in Nat /\ e.start \div Day \in Nat
    BY <1>1, DivisionIs
<1>3. days \in Int
  <2>. DEFINE d == (now \div Day) - (e.start \div Day)
  <2>1. d \in Int
    BY <1>2
  <2>. HIDE DEF d
  <2>2. Max({d, 0}) \in {d, 0}
    BY <2>1, 0 \in Int, Larger, Zenon
  <2>3. Max({d, 0}) \in Int
    BY <2>1, <2>2
  <2>. QED  BY <2>3 DEF d, DaysTo
<1>4. Candidates(e, now) = {e.start + days * Day, e.start + (days + 1) * Day}
    BY DEF Candidates, DaysTo
<1>. HIDE DEF days
<1>5. \A c \in ahead : c \in Int
    BY <1>1, <1>3, <1>4
<1>6. ahead # {} => Min(ahead) \in Int
  <2>1. ASSUME ahead # {} PROVE Min(ahead) \in ahead
    <3>1. ahead \subseteq {e.start + days * Day, e.start + (days + 1) * Day}
        BY <1>4
    <3>2. e.start + days * Day <= e.start + (days + 1) * Day
      <4>1. (days + 1) * Day = days * Day + Day /\ days * Day \in Int
        BY <1>1, <1>3
      <4>. QED  BY <4>1, <1>1
    <3>. HIDE DEF ahead
    <3>3. e.start + days * Day \in Int /\ e.start + (days + 1) * Day \in Int
      BY <1>1, <1>3
    <3>4. \E x \in ahead : \A y \in ahead : x <= y
      <4>. PICK a \in Int : a = e.start + days * Day
        BY <3>3
      <4>. PICK b \in Int : b = e.start + (days + 1) * Day
        BY <3>3
      <4>1. a <= b /\ ahead \subseteq {a, b}
        BY <3>1, <3>2
      <4>2. CASE a \in ahead
        BY <4>1, <4>2
      <4>3. CASE a \notin ahead
        <5>1. ahead = {b}
          BY <4>1, <4>3, <2>1, Zenon
        <5>2. b <= b
          OBVIOUS
        <5>. QED  BY <5>1, <5>2, Zenon
      <4>. QED  BY <4>2, <4>3
    <3>. QED  BY <3>4 DEF Min
  <2>. QED  BY <2>1, <1>5
<1>. HIDE DEF ahead
<1>7. Occurrences(e, now) = IF ~e.daily THEN {e.start} ELSE IF ahead = {} THEN {} ELSE {Min(ahead)}
    BY DEF Occurrences, ahead
<1>. QED  BY <1>1, <1>6, <1>7

-----------------------------------------------------------------------------
(* The alerts of a check *)

AlertOf(f, kind, s) ==
    [key |-> KeyOf(f, calendar[f], kind, s),
     alert |-> Alert(kind, calendar[f].gen, At(calendar[f], s))]

LEMMA AlertsDueAre ==
    ASSUME NEW state, NEW now
    PROVE  \A a : a \in AlertsDue(state, now) <=>
             \E f \in Present, kind \in Kinds : \E s \in Occurrences(calendar[f], now) :
                 /\ AlertDue(kind, calendar[f], s, now) /\ a = AlertOf(f, kind, s)
                 /\ \A n \in state.notified : n.key # a.key
<1>. DEFINE due(f, kind) ==
              {AlertOf(f, kind, s) :
                 s \in {s \in Occurrences(calendar[f], now) : AlertDue(kind, calendar[f], s, now)}}
            all == UNION {due(f, kind) : f \in Present, kind \in Kinds}
<1>1. \A f \in Present, kind \in Kinds : \A a : a \in due(f, kind) <=>
        \E s \in Occurrences(calendar[f], now) :
            AlertDue(kind, calendar[f], s, now) /\ a = AlertOf(f, kind, s)
    OBVIOUS
<1>2. AlertsDue(state, now) = {a \in all : \A n \in state.notified : n.key # a.key}
    BY DEF AlertsDue, AlertOf
<1>. HIDE DEF due
<1>3. \A a : a \in all <=> \E f \in Present, kind \in Kinds : a \in due(f, kind)
    OBVIOUS
<1>. HIDE DEF all
<1>. QED  BY <1>1, <1>2, <1>3

LEMMA WantedAre ==
    ASSUME NEW now, NEW m \in Wanted(now)
    PROVE  \E f \in Present, kind \in Kinds : \E s \in Starts(calendar[f]) :
               /\ AlertDue(kind, calendar[f], s, now)
               /\ m = [alert |-> AlertOf(f, kind, s).alert, next |-> IsNext(calendar[f], s, now)]
BY DEF Wanted, AlertOf

LEMMA AlertOfIs ==
    ASSUME AutoType, NEW f \in Slots, NEW kind \in Kinds, NEW s \in Int
    PROVE  /\ AlertOf(f, kind, s) \in Notes
           /\ AlertOf(f, kind, s).key = <<f, kind, At(calendar[f], s)>>
           /\ AlertOf(f, kind, s).alert = [kind |-> kind, id |-> calendar[f].gen,
                                           at |-> At(calendar[f], s)]
<1>1. calendar[f].gen \in Nat /\ At(calendar[f], s) \in Int
    BY DEF AutoType, Events, At, Always
<1>. QED  BY <1>1 DEF AlertOf, KeyOf, Alert, Notes, Alerts

\* What _check_events finds due may be put into notified_events.
LEMMA DueAreNew ==
    ASSUME AutomationAssumption, AutoType, NamesOK, NEW state, NEW now \in Nat
    PROVE  /\ AlertsDue(state, now) \subseteq Notes
           /\ \A a, b \in AlertsDue(state, now) : a.key = b.key => a = b
           /\ \A a \in AlertsDue(state, now) : Tells(a) /\ \A n \in state.notified : n.key # a.key
<1>1. ASSUME NEW a \in AlertsDue(state, now)
      PROVE  \E f \in Present, kind \in Kinds : \E s \in Int :
               /\ a = AlertOf(f, kind, s)
               /\ a \in Notes /\ a.key = <<f, kind, At(calendar[f], s)>>
               /\ a.alert = [kind |-> kind, id |-> calendar[f].gen, at |-> At(calendar[f], s)]
               /\ Tells(a)
               /\ \A n \in state.notified : n.key # a.key
  <2>1. PICK f \in Present, kind \in Kinds :
            \E s \in Occurrences(calendar[f], now) :
               a = AlertOf(f, kind, s) /\ \A n \in state.notified : n.key # a.key
    BY AlertsDueAre
  <2>2. f \in Slots /\ calendar[f] \in Events
    BY DEF Present, AutoType
  <2>3. PICK s \in Int : a = AlertOf(f, kind, s) /\ \A n \in state.notified : n.key # a.key
    BY <2>1, <2>2, OccurrencesAre
  <2>4. /\ a \in Notes /\ a.key = <<f, kind, At(calendar[f], s)>>
        /\ a.alert = [kind |-> kind, id |-> calendar[f].gen, at |-> At(calendar[f], s)]
    BY <2>2, <2>3, AlertOfIs
  <2>5. Tells(a)
    BY <2>4 DEF Tells, NamesOK
  <2>. QED  BY <2>3, <2>4, <2>5
<1>2. ASSUME NEW a \in AlertsDue(state, now), NEW b \in AlertsDue(state, now), a.key = b.key
      PROVE  a = b
  <2>1. PICK f \in Present, kind \in Kinds : \E s \in Int :
               /\ a \in Notes /\ a.key = <<f, kind, At(calendar[f], s)>>
               /\ a.alert = [kind |-> kind, id |-> calendar[f].gen, at |-> At(calendar[f], s)]
    BY <1>1
  <2>2. PICK g \in Present, other \in Kinds : \E s \in Int :
               /\ b \in Notes /\ b.key = <<g, other, At(calendar[g], s)>>
               /\ b.alert = [kind |-> other, id |-> calendar[g].gen, at |-> At(calendar[g], s)]
    BY <1>1
  <2>3. a.alert = b.alert
    BY <2>1, <2>2, <1>2
  <2>4. a = [key |-> a.key, alert |-> a.alert] /\ b = [key |-> b.key, alert |-> b.alert]
    BY <2>1, <2>2 DEF Notes
  <2>. QED  BY <2>3, <2>4, <1>2
<1>. QED  BY <1>1, <1>2

\* What the user should hear of is due, or he has heard of it.
LEMMA WantedIsDue ==
    ASSUME AutomationAssumption, AutoType, NamesOK, NotesOK, NEW now \in Nat,
           NEW m \in Wanted(now)
    PROVE  /\ m.alert.kind \in Kinds
           /\ Heard(m) \/ \E a \in AlertsDue(disk, now) : a.alert = m.alert
<1>1. PICK f \in Present, kind \in Kinds : \E s \in Starts(calendar[f]) :
               /\ AlertDue(kind, calendar[f], s, now)
               /\ m = [alert |-> AlertOf(f, kind, s).alert, next |-> IsNext(calendar[f], s, now)]
    BY WantedAre
<1>2. PICK s \in Starts(calendar[f]) :
               /\ AlertDue(kind, calendar[f], s, now)
               /\ m = [alert |-> AlertOf(f, kind, s).alert, next |-> IsNext(calendar[f], s, now)]
    BY <1>1
<1>3. /\ f \in Slots /\ calendar[f] \in Events
      /\ calendar[f].start \in Nat /\ calendar[f].start > 0 /\ calendar[f].gen \in Nat
    BY DEF Present, AutoType, Events, NamesOK
<1>4. s \in Int /\ s > 0
  <2>1. CASE ~calendar[f].daily
    BY <2>1, <1>3 DEF Starts
  <2>2. CASE calendar[f].daily
    <3>1. PICK k \in 0 .. MaxTime : s = calendar[f].start + k * Day
      BY <2>2 DEF Starts
    <3>2. k * Day \in Nat
      BY DEF AutomationAssumption
    <3>. QED  BY <3>1, <3>2, <1>3
  <2>. QED  BY <2>1, <2>2
<1>. DEFINE a == AlertOf(f, kind, s)
<1>5. /\ a \in Notes /\ a.key = <<f, kind, At(calendar[f], s)>>
      /\ a.alert = [kind |-> kind, id |-> calendar[f].gen, at |-> At(calendar[f], s)]
    BY <1>3, <1>4, AlertOfIs
<1>6. m.alert = a.alert /\ m.next = IsNext(calendar[f], s, now) /\ m.alert.kind \in Kinds
    BY <1>2, <1>5
<1>. HIDE DEF a
<1>7. CASE calendar[f].daily /\ ~IsNext(calendar[f], s, now)
  <2>1. m.alert.at # Always
    BY <1>4, <1>5, <1>6, <1>7 DEF At, Always
  <2>. QED  BY <2>1, <1>6, <1>7 DEF Heard
<1>8. CASE ~(calendar[f].daily /\ ~IsNext(calendar[f], s, now))
  <2>1. s \in Occurrences(calendar[f], now)
    <3>1. CASE calendar[f].daily
      BY <3>1, <1>2, <1>3, <1>8, NextOccurs
    <3>2. CASE ~calendar[f].daily
      BY <3>2, <1>2 DEF Occurrences, Starts
    <3>. QED  BY <3>1, <3>2
  <2>2. CASE \A n \in disk.notified : n.key # a.key
    <3>1. a \in AlertsDue(disk, now)
      BY <2>1, <2>2, <1>2, AlertsDueAre DEF a
    <3>. QED  BY <3>1, <1>6
  <2>3. ASSUME NEW n \in disk.notified, n.key = a.key PROVE Heard(m)
    <3>1. Tells(n) /\ n.alert \in announced /\ n.alert \in Alerts
      BY DEF NotesOK, AutoType, States, Notes
    <3>2. /\ n.alert.kind = kind /\ n.alert.at = At(calendar[f], s)
          /\ n.alert.id \in named[f]
      BY <3>1, <2>3, <1>5 DEF Tells
    <3>3. CASE n.alert.id = calendar[f].gen
      <4>1. n.alert = a.alert
        BY <3>1, <3>2, <3>3, <1>5 DEF Alerts
      <4>. QED  BY <4>1, <3>1, <1>6 DEF Heard
    <3>4. CASE n.alert.id # calendar[f].gen
      <4>1. /\ calendar[f].gen \in named[f] /\ n.alert.id <= calendar[f].gen
            /\ n.alert.id \in Nat
        BY <3>1, <3>2 DEF NamesOK, Alerts
      <4>2. Reused(calendar[f].gen)
        BY <4>1, <3>2, <3>4, <1>3 DEF Reused
      <4>. QED  BY <4>2, <1>5, <1>6 DEF Heard
    <3>. QED  BY <3>3, <3>4
  <2>. QED  BY <2>2, <2>3, <1>6
<1>. QED  BY <1>7, <1>8

-----------------------------------------------------------------------------
(* What steps leave alone *)

\* The user goes on knowing the alerts he knows.
AlertsStay == \A x : x.kind \in Kinds /\ x \in announced => x \in announced'
NamesGrow == \A f \in Slots : named[f] \subseteq named'[f]

LEMMA NamesStay ==
    ASSUME NamesOK, UNCHANGED <<calendar, named, commands>>
    PROVE  NamesOK' /\ NamesGrow
BY DEF NamesOK, Present, NamesGrow

LEMMA NotesStay ==
    ASSUME AutoType, NotesOK, NamesGrow, AlertsStay,
           \A n \in disk'.notified \cup check'.held.notified \cup command'.held.notified :
               n \in disk.notified \cup check.held.notified \cup command.held.notified,
           check'.stage = "events" => check.stage = "events" /\ check'.todo \subseteq check.todo,
           check.stage = "events" => check.todo \subseteq Notes
    PROVE  NotesOK'
<1>1. \A n \in disk.notified \cup check.held.notified \cup command.held.notified :
          n \in Notes /\ n.key[1] \in Slots /\ n.alert.kind \in Kinds
    BY DEF AutoType, Checks, Commands, States, Notes, Alerts
<1>2. \A n : n.key[1] \in Slots /\ Tells(n) => Tells(n)'
    BY DEF Tells, NamesGrow
<1>3. \A n \in Notes : n.key[1] \in Slots
    BY DEF Notes
<1>4. ASSUME NEW n \in disk'.notified \cup check'.held.notified \cup command'.held.notified
      PROVE  Tells(n)' /\ n.alert \in announced'
    BY <1>1, <1>2 DEF NotesOK, AlertsStay
<1>5. ASSUME check'.stage = "events", NEW a \in check'.todo PROVE Tells(a)'
    BY <1>2, <1>3, <1>5 DEF NotesOK
<1>. QED  BY <1>4, <1>5 DEF NotesOK

LEMMA HeardStays ==
    ASSUME NamesGrow, AlertsStay, NEW m, m.alert.kind \in Kinds, Heard(m)
    PROVE  Heard(m)'
BY DEF Heard, Reused, NamesGrow, AlertsStay

LEMMA MetStays ==
    ASSUME MetOK, NamesGrow, AlertsStay, met' = met,
           \/ check.stage # "events" \/ check.todo = {}
           \/ check'.stage = "events" /\ check'.todo = check.todo
    PROVE  MetOK'
<1>. SUFFICES ASSUME NEW m \in met
              PROVE  /\ m.alert.kind \in Kinds
                     /\ \/ Heard(m)'
                        \/ check'.stage = "events" /\ \E a \in check'.todo : a.alert = m.alert
    BY DEF MetOK
<1>1. m.alert.kind \in Kinds
    BY DEF MetOK
<1>2. CASE Heard(m)
    BY <1>1, <1>2, HeardStays
<1>3. CASE ~Heard(m)
    BY <1>1, <1>3 DEF MetOK
<1>. QED  BY <1>1, <1>2, <1>3

\* A step that leaves the files and the check alone, ...
LEMMA OthersStay ==
    ASSUME AutoInv, UNCHANGED <<disk, check, announced, repeated, stored, lost, met>>,
           command'.held = command.held, command'.pc = command.pc,
           command'.overlapped = command.overlapped
    PROVE  /\ ControlOK' /\ TodoOK' /\ KeptOK'
           /\ NamesGrow => NotesOK' /\ MetOK'
<1>1. Recorded(disk)' = Recorded(disk) /\ Recorded(check.held)' = Recorded(check.held)
      /\ Recorded(command.held)' = Recorded(command.held)
    BY DEF Recorded
<1>2. ControlOK' /\ TodoOK'
    BY DEF AutoInv, ControlOK, TodoOK
<1>3. Saved' = Saved /\ InCheck' = InCheck /\ InCommand' = InCommand
    BY <1>1 DEF Saved, InCheck, InCommand
<1>4. KeptOK'
    BY <1>1, <1>3 DEF AutoInv, KeptOK
<1>5. AlertsStay
    BY DEF AlertsStay
<1>6. NamesGrow => NotesOK'
    BY <1>5, NotesStay DEF AutoInv, TodoOK
<1>7. NamesGrow => MetOK'
    BY <1>5, MetStays DEF AutoInv
<1>. QED  BY <1>2, <1>4, <1>6, <1>7

-----------------------------------------------------------------------------
(* The steps of a check *)

\* A check that begins.
Begun(stage, held, now, files, todo) ==
    [stage |-> stage, pc |-> "working", held |-> held, now |-> now, files |-> files,
     todo |-> todo, changed |-> FALSE, overlapped |-> FALSE]

LEMMA BegunType ==
    ASSUME NEW stage \in {"asleep", "events", "items", "tasks"}, NEW held \in States,
           NEW now \in Int, NEW files \in SUBSET Slots,
           NEW todo \in SUBSET (Notes \cup Items \cup Titles)
    PROVE  Begun(stage, held, now, files, todo) \in Checks
BY DEF Begun, Checks

\* A check that begins works on what is in the file.
LEMMA BeginsKept ==
    ASSUME AutoInv, Saved, Load, UNCHANGED <<disk, command, announced, repeated, stored>>,
           check'.stage # "asleep", check'.held = disk, check'.pc = "working",
           check'.overlapped = FALSE, check.pc # "writing"
    PROVE  KeptOK'
<1>1. Recorded(disk)' = Recorded(disk) /\ Recorded(check'.held) = Recorded(disk)
      /\ Recorded(check.held)' = Recorded(check'.held) /\ Recorded(command.held)' = Recorded(command.held)
    BY DEF Recorded
<1>2. lost \subseteq lost' /\ (command.pc = "writing" => announced \subseteq lost')
    BY DEF Load
<1>3. announced' \ lost' \subseteq Recorded(disk)
    BY <1>2 DEF AutoInv, KeptOK, InCommand
<1>4. InCommand' = InCommand /\ InCheck' = {} /\ InCheck = {}
    BY <1>1 DEF InCommand, InCheck
<1>. QED  BY <1>1, <1>2, <1>3, <1>4 DEF AutoInv, KeptOK

LEMMA BeginEventsInv ==
    ASSUME AutomationAssumption, AutoInv, BeginEvents
    PROVE  AutoInv'
<1>. PICK now \in Nat : now = UserNow
    BY DEF UserNow, AutoInv, AutoType
<1>. PICK due : due = AlertsDue(disk, now)
    OBVIOUS
<1>1. /\ due \subseteq Notes
      /\ \A a, b \in due : a.key = b.key => a = b
      /\ \A a \in due : Tells(a) /\ \A n \in disk.notified : n.key # a.key
    BY DueAreNew DEF AutoInv
<1>2. check' = Begun("events", disk, now, {}, due)
    BY DEF BeginEvents, Begun, Asleep
<1>3. /\ check'.stage = "events" /\ check'.pc = "working" /\ check'.held = disk
      /\ check'.todo = due /\ check'.changed = FALSE /\ check'.overlapped = FALSE
    BY <1>2 DEF Begun
<1>4. check' \in Checks
    BY <1>1, <1>2, BegunType DEF AutoInv, AutoType
<1>5. AutoType'
    BY <1>4 DEF BeginEvents, AutoInv, AutoType
<1>6. NamesOK' /\ NamesGrow /\ AlertsStay
    BY NamesStay DEF BeginEvents, AutoInv, AlertsStay
<1>7. ControlOK' /\ TodoOK'
    BY <1>1, <1>3 DEF ControlOK, TodoOK, BeginEvents
<1>8. NotesOK'
  <2>1. \A n : Tells(n)' <=> Tells(n)
    BY DEF Tells, BeginEvents
  <2>. QED  BY <2>1, <1>1, <1>3 DEF NotesOK, AutoInv, BeginEvents
<1>9. KeptOK'
  <2>1. check.pc = "working" /\ check.changed = FALSE
    BY DEF BeginEvents, AutoInv, ControlOK, AutoType, Checks
  <2>. QED  BY <2>1, <1>3, BeginsKept DEF BeginEvents, Saved
<1>10. MetOK'
  <2>. SUFFICES ASSUME NEW m \in met'
                PROVE  m.alert.kind \in Kinds /\ (Heard(m)' \/ \E a \in due : a.alert = m.alert)
    BY <1>3 DEF MetOK
  <2>1. CASE m \in met
    <3>1. m.alert.kind \in Kinds /\ Heard(m)
      BY <2>1 DEF AutoInv, MetOK, BeginEvents
    <3>. QED  BY <3>1, <1>6, HeardStays
  <2>2. CASE m \in Wanted(now)
    <3>1. m.alert.kind \in Kinds /\ (Heard(m) \/ \E a \in due : a.alert = m.alert)
      BY <2>2, WantedIsDue DEF AutoInv
    <3>. QED  BY <3>1, <1>6, HeardStays
  <2>. QED  BY <2>1, <2>2 DEF BeginEvents
<1>. QED  BY <1>5, <1>6, <1>7, <1>8, <1>9, <1>10 DEF AutoInv

LEMMA SendAlertInv ==
    ASSUME AutoInv, NEW a \in check.todo, SendAlert(a)
    PROVE  AutoInv'
<1>. PICK h : h = [check.held EXCEPT !.notified = @ \cup {a}]
    OBVIOUS
<1>1. check.stage = "events" /\ check.pc = "working" /\ a \in Notes /\ check.held \in States
    BY DEF SendAlert, AutoInv, AutoType, TodoOK, Checks
<1>2. h \in States /\ Recorded(h) = Recorded(check.held) \cup {a.alert}
      /\ h.notified = check.held.notified \cup {a}
  <2>1. h \in States /\ Recorded(h) = Recorded(check.held) \cup {a.alert}
    BY <1>1, NewState, RecordedNote
  <2>. QED  BY <2>1, <1>1 DEF States
<1>3. check' = [check EXCEPT !.todo = @ \ {a}, !.held = h, !.pc = "saving"]
    BY <1>1 DEF SendAlert, AfterAlert, AutoInv, AutoType, Checks
<1>4. /\ check' \in Checks /\ check'.stage = "events" /\ check'.pc = "saving"
      /\ check'.held = h /\ check'.todo = check.todo \ {a}
      /\ check'.changed = check.changed /\ check'.overlapped = check.overlapped
    BY <1>1, <1>2, <1>3 DEF AutoInv, AutoType, Checks
<1>5. announced' = announced \cup {a.alert}
    BY DEF SendAlert, Announce
<1>6. AutoType'
    BY <1>4 DEF SendAlert, AutoInv, AutoType
<1>7. NamesOK' /\ NamesGrow /\ AlertsStay
    BY <1>5, NamesStay DEF SendAlert, AutoInv, AlertsStay
<1>8. ControlOK' /\ TodoOK'
  <2>1. ControlOK'
    BY <1>1, <1>4 DEF AutoInv, ControlOK
  <2>2. \A b \in check'.todo : \A n \in h.notified : n.key # b.key
    BY <1>1, <1>2, <1>4 DEF AutoInv, TodoOK
  <2>3. TodoOK'
    BY <2>2, <1>1, <1>4 DEF AutoInv, TodoOK
  <2>. QED  BY <2>1, <2>3
<1>9. NotesOK'
  <2>1. \A n : Tells(n)' <=> Tells(n)
    BY DEF Tells, SendAlert
  <2>. QED  BY <2>1, <1>1, <1>2, <1>4, <1>5 DEF NotesOK, AutoInv, SendAlert
<1>10. a.alert \in announced => a.alert \in lost
  <2>. SUFFICES ASSUME a.alert \in Recorded(check.held) PROVE FALSE
    BY <1>1 DEF AutoInv, KeptOK
  <2>1. a.alert \in Alerts
    BY <1>1 DEF Notes
  <2>2. PICK n \in check.held.notified : n.alert = a.alert
    BY <2>1, <1>1, RecordedIs
  <2>3. Tells(n) /\ Tells(a)
    BY <1>1 DEF AutoInv, NotesOK
  <2>4. n \in Notes
    BY <1>1 DEF States
  <2>5. n.key[1] = a.key[1]
    BY <2>2, <2>3, <2>4, <1>1 DEF Tells, AutoInv, NamesOK, Notes
  <2>6. n.key = a.key
    BY <2>2, <2>3, <2>4, <2>5, <1>1 DEF Tells, Notes
  <2>. QED  BY <2>6, <1>1 DEF AutoInv, TodoOK
<1>11. KeptOK'
  <2>1. Recorded(disk)' = Recorded(disk) /\ Recorded(check.held)' = Recorded(h)
        /\ Recorded(command.held)' = Recorded(command.held)
    BY <1>4 DEF Recorded, SendAlert
  <2>2. InCommand' = InCommand /\ InCheck' = {} /\ InCheck = {} /\ ~Saved'
    BY <2>1, <1>1, <1>4 DEF InCommand, InCheck, Saved, SendAlert
  <2>3. repeated' \subseteq lost' /\ lost' = lost /\ stored' = stored
    BY <1>10 DEF SendAlert, Announce, AutoInv, KeptOK
  <2>4. announced' \ lost' \subseteq Recorded(h) /\ Recorded(check.held) \subseteq Recorded(h)
    BY <1>1, <1>2, <1>5, <2>3 DEF AutoInv, KeptOK
  <2>. QED  BY <2>1, <2>2, <2>3, <2>4, <1>1, <1>4 DEF AutoInv, KeptOK, SendAlert
<1>12. MetOK'
  <2>. SUFFICES ASSUME NEW m \in met
                PROVE  /\ m.alert.kind \in Kinds
                       /\ Heard(m)' \/ \E b \in check.todo \ {a} : b.alert = m.alert
    BY <1>4 DEF MetOK, SendAlert
  <2>1. m.alert.kind \in Kinds /\ (Heard(m) \/ \E b \in check.todo : b.alert = m.alert)
    BY DEF AutoInv, MetOK
  <2>2. Heard(m) => Heard(m)'
    BY <2>1, <1>7, HeardStays
  <2>3. m.alert = a.alert => Heard(m)'
    BY <1>5 DEF Heard
  <2>. QED  BY <2>1, <2>2, <2>3
<1>. QED  BY <1>6, <1>7, <1>8, <1>9, <1>11, <1>12 DEF AutoInv

LEMMA BeginItemsInv ==
    ASSUME AutomationAssumption, AutoInv, BeginItems
    PROVE  AutoInv'
<1>1. check' = Begun("items", disk, ServerNow, Present, {})
    BY DEF BeginItems, Begun, Asleep, Reloaded
<1>2. ServerNow \in Int /\ Present \subseteq Slots
    BY DEF ServerNow, UserNow, AutoInv, AutoType, AutomationAssumption, Present
<1>3. /\ check'.stage = "items" /\ check'.pc = "working" /\ check'.held = disk
      /\ check'.todo = {} /\ check'.changed = FALSE /\ check'.overlapped = FALSE
    BY <1>1 DEF Begun
<1>4. check' \in Checks
    BY <1>1, <1>2, BegunType DEF AutoInv, AutoType
<1>5. AutoType'
    BY <1>4 DEF BeginItems, AutoInv, AutoType
<1>6. NamesOK' /\ NamesGrow /\ AlertsStay
    BY NamesStay DEF BeginItems, AutoInv, AlertsStay
<1>7. ControlOK' /\ TodoOK'
    BY <1>3 DEF ControlOK, TodoOK
<1>8. NotesOK'
    BY <1>3, <1>6, NotesStay DEF BeginItems, AutoInv, TodoOK
<1>9. KeptOK'
  <2>1. check.pc = "working" /\ check.changed = FALSE
    BY DEF BeginItems, AutoInv, ControlOK, AutoType, Checks
  <2>. QED  BY <2>1, <1>3, BeginsKept DEF BeginItems, Saved
<1>10. MetOK'
    BY <1>6, MetStays DEF BeginItems, AutoInv
<1>. QED  BY <1>5, <1>6, <1>7, <1>8, <1>9, <1>10 DEF AutoInv

LEMMA BeginRemindersInv ==
    ASSUME AutomationAssumption, AutoInv, BeginReminders
    PROVE  AutoInv'
<1>. PICK due : due = RemindersDue(disk, ServerNow)
    OBVIOUS
<1>1. check' = Begun("tasks", disk, ServerNow, {}, due)
    BY DEF BeginReminders, Begun, Asleep, Reloaded
<1>2. /\ ServerNow \in Int
      /\ due \subseteq {t \in Titles : disk.reminder[t] = "waiting"}
    BY DEF ServerNow, UserNow, AutoInv, AutoType, AutomationAssumption, RemindersDue
<1>3. /\ check'.stage = "tasks" /\ check'.pc = "working" /\ check'.held = disk
      /\ check'.todo = due /\ check'.changed = FALSE /\ check'.overlapped = FALSE
    BY <1>1 DEF Begun
<1>4. check' \in Checks
  <2>1. due \in SUBSET (Notes \cup Items \cup Titles)
    BY <1>2
  <2>. QED  BY <2>1, <1>1, <1>2, BegunType DEF AutoInv, AutoType
<1>5. AutoType'
    BY <1>4 DEF BeginReminders, AutoInv, AutoType
<1>6. NamesOK' /\ NamesGrow /\ AlertsStay
    BY NamesStay DEF BeginReminders, AutoInv, AlertsStay
<1>7. ControlOK' /\ TodoOK'
    BY <1>2, <1>3 DEF ControlOK, TodoOK
<1>8. NotesOK'
    BY <1>3, <1>6, NotesStay DEF BeginReminders, AutoInv, TodoOK
<1>9. KeptOK'
  <2>1. check.pc = "done"
    BY DEF BeginReminders
  <2>. QED  BY <2>1, <1>3, BeginsKept DEF BeginReminders, Saved
<1>10. MetOK'
    BY <1>6, MetStays DEF BeginReminders, AutoInv
<1>. QED  BY <1>5, <1>6, <1>7, <1>8, <1>9, <1>10 DEF AutoInv

\* A step of the check that neither reads nor writes nor tells.
LEMMA GoesOnKept ==
    ASSUME AutoInv, UNCHANGED <<disk, command, announced, repeated, stored, lost>>,
           check'.stage # "asleep" => check'.held = check.held /\ check.stage # "asleep"
                                        /\ check'.overlapped = check.overlapped,
           check'.pc # "writing", check.pc # "writing", Saved' => Saved
    PROVE  KeptOK'
<1>1. Recorded(disk)' = Recorded(disk) /\ Recorded(command.held)' = Recorded(command.held)
      /\ (check'.stage # "asleep" => Recorded(check.held)' = Recorded(check.held))
    BY DEF Recorded
<1>2. InCommand' = InCommand /\ InCheck' = {} /\ InCheck = {}
    BY <1>1 DEF InCommand, InCheck
<1>. QED  BY <1>1, <1>2 DEF AutoInv, KeptOK

LEMMA AsleepIs ==
    ASSUME AutomationAssumption, AutoType
    PROVE  /\ Asleep \in Checks /\ Asleep.stage = "asleep" /\ Asleep.pc = "working"
           /\ Asleep.held.notified = {} /\ Asleep.changed = FALSE
           /\ Asleep.held = Empty
<1>1. Empty \in States /\ Empty.notified = {}
    BY NewState DEF AutoType, Empty
<1>. QED  BY <1>1 DEF Asleep, Checks

LEMMA OpenEventInv ==
    ASSUME AutoInv, NEW f \in Slots, OpenEvent(f)
    PROVE  AutoInv'
<1>. PICK due : due = {Item(calendar[f].gen, i) : i \in ItemsDue(check.held, calendar[f], check.now)}
    OBVIOUS
<1>1. due \subseteq Items \ check.held.settled
  <2>1. calendar[f].gen \in Nat /\ DOMAIN calendar[f].items \subseteq Nat
    BY DEF AutoInv, AutoType, Events
  <2>2. \A i \in Nat : Item(calendar[f].gen, i) \in Items
    BY <2>1 DEF Item, Alert, Items
  <2>. QED  BY <2>1, <2>2 DEF ItemsDue
<1>2. check' = [check EXCEPT !.files = @ \ {f}, !.todo = due] /\ check.stage = "items"
      /\ check.pc = "working"
    BY DEF OpenEvent
<1>3. /\ check' \in Checks /\ check'.stage = "items" /\ check'.pc = "working"
      /\ check'.held = check.held /\ check'.todo = due
      /\ check'.changed = check.changed /\ check'.overlapped = check.overlapped
    BY <1>1, <1>2 DEF AutoInv, AutoType, Checks
<1>4. AutoType'
    BY <1>3 DEF OpenEvent, AutoInv, AutoType
<1>5. NamesOK' /\ NamesGrow /\ AlertsStay
    BY NamesStay DEF OpenEvent, AutoInv, AlertsStay
<1>6. ControlOK' /\ TodoOK'
    BY <1>1, <1>3 DEF ControlOK, TodoOK
<1>7. NotesOK'
    BY <1>2, <1>3, <1>5, NotesStay DEF OpenEvent, AutoInv
<1>8. KeptOK'
    BY <1>2, <1>3, GoesOnKept DEF OpenEvent, Saved
<1>9. MetOK'
    BY <1>2, <1>5, MetStays DEF OpenEvent, AutoInv
<1>. QED  BY <1>4, <1>5, <1>6, <1>7, <1>8, <1>9 DEF AutoInv

\* What is told is new to the user, or its record is lost, if the copy does not have it; and
\* the copy then has it.
LEMMA TellsKept ==
    ASSUME AutoInv, NEW x, Announce(x), UNCHANGED <<disk, command, stored, lost>>,
           x \notin Recorded(check.held), check.stage # "asleep", check.pc # "writing",
           Recorded(check.held) \cup {x} \subseteq Recorded(check'.held),
           check'.stage # "asleep", check'.pc # "writing", ~Saved',
           check'.overlapped = check.overlapped
    PROVE  KeptOK'
<1>1. Recorded(disk)' = Recorded(disk) /\ Recorded(command.held)' = Recorded(command.held)
      /\ Recorded(check.held)' = Recorded(check'.held)
    BY DEF Recorded
<1>2. InCommand' = InCommand /\ InCheck' = {} /\ InCheck = {}
    BY <1>1 DEF InCommand, InCheck
<1>3. x \in announced => x \in lost
    BY DEF AutoInv, KeptOK
<1>4. repeated' \subseteq lost'
    BY <1>3 DEF Announce, AutoInv, KeptOK
<1>5. announced' \ lost' \subseteq Recorded(check'.held)
    BY DEF Announce, AutoInv, KeptOK
<1>. QED  BY <1>1, <1>2, <1>4, <1>5 DEF AutoInv, KeptOK

LEMMA RunItemInv ==
    ASSUME AutoInv, RunItem
    PROVE  AutoInv'
<1>1. check.stage = "items" /\ check.pc = "working" /\ check.todo \subseteq Items
      /\ check.todo \cap check.held.settled = {} /\ check.todo # {} /\ check.held \in States
    BY DEF RunItem, AutoInv, AutoType, TodoOK, Checks
<1>. PICK x : x = CHOOSE i \in check.todo : \A j \in check.todo : i.at <= j.at
    OBVIOUS
<1>2. x \in check.todo
  <2>1. {i.at : i \in check.todo} \subseteq Nat /\ {i.at : i \in check.todo} # {}
    BY <1>1 DEF Items
  <2>2. PICK a \in {i.at : i \in check.todo} : \A b \in {i.at : i \in check.todo} : a <= b
    BY <2>1, LeastOfSet
  <2>3. \E i \in check.todo : \A j \in check.todo : i.at <= j.at
    BY <2>2
  <2>. QED  BY <2>3
<1>. PICK h : h = [check.held EXCEPT !.settled = @ \cup {x}]
    OBVIOUS
<1>3. h \in States /\ Recorded(h) = Recorded(check.held) \cup {x}
      /\ h.notified = check.held.notified /\ h.settled = check.held.settled \cup {x}
  <2>1. h \in States /\ Recorded(h) = Recorded(check.held) \cup {x}
    BY <1>1, <1>2, NewState, RecordedItem
  <2>. QED  BY <2>1, <1>1 DEF States
<1>4. Announce(x) /\ check' = [check EXCEPT !.todo = @ \ {x}, !.held = h, !.changed = TRUE]
    BY <1>1 DEF RunItem, AutoInv, AutoType, Checks
<1>5. /\ check' \in Checks /\ check'.stage = "items" /\ check'.pc = "working"
      /\ check'.held = h /\ check'.todo = check.todo \ {x}
      /\ check'.changed = TRUE /\ check'.overlapped = check.overlapped
    BY <1>1, <1>3, <1>4 DEF AutoInv, AutoType, Checks
<1>6. AutoType'
    BY <1>5 DEF RunItem, AutoInv, AutoType
<1>7. NamesOK' /\ NamesGrow /\ AlertsStay
    BY <1>4, NamesStay DEF RunItem, AutoInv, AlertsStay, Announce
<1>8. ControlOK' /\ TodoOK'
    BY <1>1, <1>3, <1>5 DEF ControlOK, TodoOK
<1>9. NotesOK'
    BY <1>1, <1>3, <1>5, <1>7, NotesStay DEF RunItem, AutoInv
<1>10. KeptOK'
  <2>1. x \notin Recorded(check.held)
    BY <1>1, <1>2, RecordedIs
  <2>2. ~Saved'
    BY <1>5 DEF Saved
  <2>. QED  BY <2>1, <2>2, <1>1, <1>3, <1>4, <1>5, TellsKept DEF RunItem
<1>11. MetOK'
    BY <1>1, <1>7, MetStays DEF RunItem, AutoInv
<1>. QED  BY <1>6, <1>7, <1>8, <1>9, <1>10, <1>11 DEF AutoInv

LEMMA ItemsDoneInv ==
    ASSUME AutoInv, ItemsDone
    PROVE  AutoInv'
<1>1. check.stage = "items" /\ check.pc = "working" /\ check.todo = {}
    BY DEF ItemsDone
<1>2. /\ check' \in Checks /\ check'.stage = "items" /\ check'.held = check.held
      /\ check'.todo = {} /\ check'.changed = check.changed
      /\ check'.overlapped = check.overlapped
      /\ check'.pc = IF check.changed THEN "saving" ELSE "done"
    BY <1>1 DEF ItemsDone, AutoInv, AutoType, Checks
<1>3. AutoType'
    BY <1>2 DEF ItemsDone, AutoInv, AutoType
<1>4. NamesOK' /\ NamesGrow /\ AlertsStay
    BY NamesStay DEF ItemsDone, AutoInv, AlertsStay
<1>5. ControlOK' /\ TodoOK'
    BY <1>2 DEF ControlOK, TodoOK
<1>6. NotesOK'
    BY <1>1, <1>2, <1>4, NotesStay DEF ItemsDone, AutoInv
<1>7. KeptOK'
    BY <1>1, <1>2, GoesOnKept DEF ItemsDone, Saved
<1>8. MetOK'
    BY <1>1, <1>4, MetStays DEF ItemsDone, AutoInv
<1>. QED  BY <1>3, <1>4, <1>5, <1>6, <1>7, <1>8 DEF AutoInv

LEMMA RemindInv ==
    ASSUME AutoInv, NEW t \in Titles, Remind(t)
    PROVE  AutoInv'
<1>1. check.stage = "tasks" /\ check.pc = "working" /\ check.held \in States
      /\ check.todo \subseteq {u \in Titles : check.held.reminder[u] = "waiting"}
      /\ t \in check.todo
    BY DEF Remind, AutoInv, AutoType, TodoOK, Checks
<1>. PICK h : h = [check.held EXCEPT !.reminder[t] = "fired"]
    OBVIOUS
<1>2. h \in States /\ Recorded(check.held) \cup {Reminder(t)} \subseteq Recorded(h)
      /\ h.notified = check.held.notified
      /\ \A u \in Titles : u # t => h.reminder[u] = check.held.reminder[u]
  <2>1. h \in States /\ Recorded(check.held) \cup {Reminder(t)} \subseteq Recorded(h)
    BY <1>1, NewState, RecordedFired
  <2>. QED  BY <2>1, <1>1 DEF States
<1>3. /\ Announce(Reminder(t))
      /\ check' = [check EXCEPT !.todo = @ \ {t}, !.held = h, !.changed = TRUE]
    BY <1>1 DEF Remind, AutoInv, AutoType, Checks
<1>4. /\ check' \in Checks /\ check'.stage = "tasks" /\ check'.pc = "working"
      /\ check'.held = h /\ check'.todo = check.todo \ {t}
      /\ check'.changed = TRUE /\ check'.overlapped = check.overlapped
    BY <1>1, <1>2, <1>3 DEF AutoInv, AutoType, Checks
<1>5. AutoType'
    BY <1>4 DEF Remind, AutoInv, AutoType
<1>6. NamesOK' /\ NamesGrow /\ AlertsStay
    BY <1>3, NamesStay DEF Remind, AutoInv, AlertsStay, Announce
<1>7. ControlOK' /\ TodoOK'
    BY <1>1, <1>2, <1>4 DEF ControlOK, TodoOK
<1>8. NotesOK'
    BY <1>1, <1>2, <1>4, <1>6, NotesStay DEF Remind, AutoInv
<1>9. KeptOK'
  <2>1. Reminder(t) \notin Recorded(check.held)
    BY <1>1, RecordedIs
  <2>2. ~Saved'
    BY <1>4 DEF Saved
  <2>. QED  BY <2>1, <2>2, <1>1, <1>2, <1>3, <1>4, TellsKept DEF Remind
<1>10. MetOK'
    BY <1>1, <1>6, MetStays DEF Remind, AutoInv
<1>. QED  BY <1>5, <1>6, <1>7, <1>8, <1>9, <1>10 DEF AutoInv

LEMMA RemindersDoneInv ==
    ASSUME AutomationAssumption, AutoInv, RemindersDone
    PROVE  AutoInv'
<1>1. check.stage = "tasks" /\ check.pc = "working" /\ check.todo = {}
    BY DEF RemindersDone
<1>2. /\ check' \in Checks /\ ControlOK' /\ TodoOK' /\ KeptOK' /\ check'.stage # "events"
      /\ check'.held.notified \subseteq check.held.notified
  <2>1. CASE check.changed
    <3>1. /\ check' \in Checks /\ check'.stage = "tasks" /\ check'.held = check.held
          /\ check'.todo = {} /\ check'.overlapped = check.overlapped /\ check'.pc = "saving"
      BY <1>1, <2>1 DEF RemindersDone, AutoInv, AutoType, Checks
    <3>2. ControlOK' /\ TodoOK'
      BY <3>1 DEF ControlOK, TodoOK
    <3>3. KeptOK'
      BY <1>1, <3>1, GoesOnKept DEF RemindersDone, Saved
    <3>. QED  BY <3>1, <3>2, <3>3
  <2>2. CASE ~check.changed
    <3>1. check' = Asleep /\ check' \in Checks
      BY <2>2, AsleepIs DEF RemindersDone, AutoInv
    <3>2. ControlOK' /\ TodoOK'
      BY <3>1, AsleepIs DEF ControlOK, TodoOK, AutoInv
    <3>3. KeptOK'
      BY <1>1, <2>2, <3>1, AsleepIs, GoesOnKept DEF RemindersDone, Saved, AutoInv
    <3>. QED  BY <3>1, <3>2, <3>3, AsleepIs DEF AutoInv
  <2>. QED  BY <2>1, <2>2
<1>3. AutoType'
    BY <1>2 DEF RemindersDone, AutoInv, AutoType
<1>4. NamesOK' /\ NamesGrow /\ AlertsStay
    BY NamesStay DEF RemindersDone, AutoInv, AlertsStay
<1>5. NotesOK'
    BY <1>1, <1>2, <1>4, NotesStay DEF RemindersDone, AutoInv
<1>6. MetOK'
    BY <1>1, <1>4, MetStays DEF RemindersDone, AutoInv
<1>. QED  BY <1>2, <1>3, <1>4, <1>5, <1>6 DEF AutoInv

LEMMA CheckTruncatesInv ==
    ASSUME AutomationAssumption, AutoInv, CheckTruncates
    PROVE  AutoInv'
<1>1. check.pc = "saving" /\ check.stage # "asleep" /\ disk' = Empty
      /\ Empty \in States /\ Empty.notified = {}
    BY NewState DEF CheckTruncates, AutoInv, ControlOK, AutoType, Empty
<1>2. /\ check' \in Checks /\ check'.stage = check.stage /\ check'.pc = "writing"
      /\ check'.held = check.held /\ check'.todo = check.todo
      /\ check'.changed = check.changed /\ check'.overlapped = check.overlapped
    BY DEF CheckTruncates, AutoInv, AutoType, Checks
<1>3. AutoType'
    BY <1>1, <1>2 DEF CheckTruncates, AutoInv, AutoType
<1>4. NamesOK' /\ NamesGrow /\ AlertsStay
    BY NamesStay DEF CheckTruncates, AutoInv, AlertsStay
<1>5. ControlOK' /\ TodoOK'
    BY <1>1, <1>2 DEF ControlOK, TodoOK, AutoInv
<1>6. NotesOK'
    BY <1>1, <1>2, <1>4, NotesStay DEF CheckTruncates, AutoInv, TodoOK
<1>7. KeptOK'
  <2>1. /\ Recorded(disk)' = {} /\ Recorded(check.held)' = Recorded(check.held)
        /\ Recorded(command.held)' = Recorded(command.held)
    <3>1. Recorded(disk)' = Recorded(disk')
      BY DEF Recorded
    <3>2. Recorded(disk') = {}
      BY <1>1, RecordedEmpty
    <3>3. Recorded(check.held)' = Recorded(check.held)
      BY <1>2 DEF Recorded
    <3>4. Recorded(command.held)' = Recorded(command.held)
      BY DEF Recorded, CheckTruncates
    <3>. QED  BY <3>1, <3>2, <3>3, <3>4
  <2>2. InCommand' = InCommand /\ InCheck' = Recorded(check.held) /\ InCheck = {} /\ ~Saved'
    BY <2>1, <1>1, <1>2 DEF InCommand, InCheck, Saved, CheckTruncates
  <2>3. lost \subseteq lost' /\ Recorded(disk) \ lost' \subseteq Recorded(check.held)
    BY <1>1 DEF CheckTruncates, Overwritten, AutoInv, KeptOK
  <2>4. {Stored(t) : t \in stored'} \ lost' \subseteq Recorded(check.held) \cup InCommand
    BY <2>2, <2>3 DEF AutoInv, KeptOK, CheckTruncates
  <2>5. announced' \ lost' \subseteq Recorded(check.held) /\ repeated' \subseteq lost'
    BY <2>3, <1>1 DEF AutoInv, KeptOK, CheckTruncates
  <2>. QED  BY <2>1, <2>2, <2>4, <2>5 DEF KeptOK
<1>8. MetOK'
    BY <1>2, <1>4, MetStays DEF CheckTruncates, AutoInv
<1>. QED  BY <1>3, <1>4, <1>5, <1>6, <1>7, <1>8 DEF AutoInv

LEMMA CheckWritesInv ==
    ASSUME AutomationAssumption, AutoInv, CheckWrites
    PROVE  AutoInv'
<1>1. check.pc = "writing" /\ check.stage \in {"events", "items", "tasks"} /\ disk' = check.held
      /\ check.held \in States
    BY DEF CheckWrites, AutoInv, ControlOK, AutoType, Checks
<1>2. /\ check' \in Checks
      /\ \/ /\ check'.stage = check.stage /\ check.stage # "tasks" /\ check'.held = check.held
            /\ check'.todo = check.todo /\ check'.changed = check.changed
            /\ check'.overlapped = check.overlapped
            /\ check'.pc = IF check.stage = "events" THEN "working" ELSE "done"
         \/ check' = Asleep /\ check.stage = "tasks"
  <2>1. CASE check.stage = "events"
    BY <2>1 DEF CheckWrites, AutoInv, AutoType, Checks
  <2>2. CASE check.stage = "items"
    BY <2>2 DEF CheckWrites, AutoInv, AutoType, Checks
  <2>3. CASE check.stage = "tasks"
    BY <2>3, AsleepIs DEF CheckWrites, AutoInv
  <2>. QED  BY <1>1, <2>1, <2>2, <2>3
<1>3. /\ command' \in Commands /\ command'.held = command.held /\ command'.pc = command.pc
      /\ command'.overlapped = (command.pc # "none")
    BY DEF CheckWrites, AutoInv, AutoType, Commands
<1>4. AutoType'
    BY <1>1, <1>2, <1>3 DEF CheckWrites, AutoInv, AutoType
<1>5. NamesOK' /\ NamesGrow /\ AlertsStay
    BY NamesStay DEF CheckWrites, AutoInv, AlertsStay
<1>6. ControlOK' /\ TodoOK'
    BY <1>1, <1>2, AsleepIs DEF ControlOK, TodoOK, AutoInv
<1>7. NotesOK'
  <2>1. check'.held.notified \subseteq check.held.notified
    BY <1>2, AsleepIs DEF AutoInv
  <2>2. check'.stage = "events" => check.stage = "events" /\ check'.todo \subseteq check.todo
    BY <1>2, AsleepIs DEF AutoInv
  <2>. QED  BY <1>1, <1>3, <1>5, <2>1, <2>2, NotesStay DEF AutoInv, TodoOK
<1>8. KeptOK'
  <2>1. /\ Recorded(disk)' = Recorded(check.held)
        /\ Recorded(command.held)' = Recorded(command.held)
        /\ check'.stage # "asleep" => Recorded(check.held)' = Recorded(check.held)
    BY <1>1, <1>2, <1>3, AsleepIs DEF Recorded, AutoInv
  <2>2. InCommand' = InCommand /\ InCheck' = {} /\ InCheck = Recorded(check.held)
    BY <2>1, <1>1, <1>2, <1>3, AsleepIs DEF InCommand, InCheck, AutoInv
  <2>3. lost \subseteq lost' /\ Recorded(disk) \ lost' \subseteq Recorded(check.held)
    BY <1>1 DEF CheckWrites, Overwritten, AutoInv, KeptOK
  <2>4. {Stored(t) : t \in stored'} \ lost' \subseteq Recorded(check.held) \cup InCommand
    BY <2>2, <2>3 DEF AutoInv, KeptOK, CheckWrites
  <2>5. announced' \ lost' \subseteq Recorded(check.held) /\ repeated' \subseteq lost'
    BY <2>3, <1>1 DEF AutoInv, KeptOK, CheckWrites
  <2>. QED  BY <2>1, <2>2, <2>4, <2>5, <1>3 DEF KeptOK
<1>9. MetOK'
    BY <1>1, <1>2, <1>5, MetStays DEF CheckWrites, AutoInv
<1>. QED  BY <1>4, <1>5, <1>6, <1>7, <1>8, <1>9 DEF AutoInv

-----------------------------------------------------------------------------
(* The steps of the organizer, time and the end of the process *)

LEMMA AddEventInv ==
    ASSUME AutomationAssumption, AutoInv, NEW c \in Contents, AddEvent(c)
    PROVE  AutoInv'
<1>. PICK free : free = Slots \ Present
    OBVIOUS
<1>. PICK f : f = Min(free)
    OBVIOUS
<1>. PICK e : e = [gen |-> commands + 1, start |-> c.start, daily |-> c.daily,
                   lead |-> c.lead, items |-> c.items]
    OBVIOUS
<1>1. f \in free
  <2>1. Slots \subseteq Nat
    <3>1. Cardinality(Slots) \in Nat
      BY FS_CardinalityType DEF AutomationAssumption
    <3>. QED  BY <3>1 DEF AutomationAssumption
  <2>2. \E x \in free : \A y \in free : x <= y
    <3>1. free \subseteq Nat /\ free # {}
      BY <2>1 DEF AddEvent
    <3>. QED  BY <3>1, LeastOfSet
  <2>. QED  BY <2>2 DEF Min
<1>2. f \in Slots /\ f \notin Present
    BY <1>1
<1>3. /\ e \in Events /\ e.gen = commands + 1 /\ e.start > 0 /\ commands \in Nat
    BY DEF AutoInv, AutoType, Events, AutomationAssumption, NoLead
<1>4. /\ calendar' = [calendar EXCEPT ![f] = e]
      /\ named' = [named EXCEPT ![f] = @ \cup {commands + 1}] /\ commands' = commands + 1
    BY DEF AddEvent
<1>5. /\ \A g \in Slots : calendar'[g] = IF g = f THEN e ELSE calendar[g]
      /\ \A g \in Slots : named'[g] = IF g = f THEN named[f] \cup {commands + 1} ELSE named[g]
      /\ calendar' \in [Slots -> Events] /\ named' \in [Slots -> SUBSET Nat]
  <2>1. calendar \in [Slots -> Events] /\ named \in [Slots -> SUBSET Nat]
    BY DEF AutoInv, AutoType
  <2>2. named[f] \cup {commands + 1} \in SUBSET Nat
    BY <2>1, <1>2, <1>3
  <2>3. /\ \A g \in Slots : calendar'[g] = IF g = f THEN e ELSE calendar[g]
        /\ calendar' \in [Slots -> Events]
    BY <2>1, <1>2, <1>3, <1>4
  <2>4. /\ \A g \in Slots : named'[g] = IF g = f THEN named[f] \cup {commands + 1} ELSE named[g]
        /\ named' \in [Slots -> SUBSET Nat]
    BY <2>1, <2>2, <1>2, <1>4
  <2>. QED  BY <2>3, <2>4
<1>6. AutoType'
  <2>1. commands' \in Nat
    BY <1>3, <1>4
  <2>2. UNCHANGED <<disk, check, command, clock, tasks, stored>>
    BY DEF AddEvent
  <2>. QED  BY <2>1, <2>2, <1>5 DEF AutoInv, AutoType
<1>7. NamesGrow
    BY <1>5 DEF NamesGrow
<1>8. NamesOK'
  <2>1. \A g \in Slots : named[g] \subseteq 1 .. commands /\ commands + 1 \notin named[g]
    BY <1>3 DEF AutoInv, NamesOK
  <2>2. \A g \in Slots : named'[g] \subseteq 1 .. commands'
    BY <2>1, <1>3, <1>4, <1>5
  <2>3. \A g, h \in Slots : g # h => named'[g] \cap named'[h] = {}
    BY <2>1, <1>5 DEF AutoInv, NamesOK
  <2>4. ASSUME NEW g \in Present'
        PROVE  /\ calendar'[g].gen \in named'[g] /\ calendar'[g].start > 0
               /\ \A h \in named'[g] : h <= calendar'[g].gen
    <3>1. CASE g = f
      <4>1. calendar'[g].gen = commands + 1 /\ calendar'[g].start > 0
        BY <3>1, <1>2, <1>3, <1>5
      <4>2. named'[g] = named[f] \cup {commands + 1}
        BY <3>1, <1>2, <1>5
      <4>3. ASSUME NEW h \in named[f] PROVE h <= commands + 1
        <5>1. h \in 1 .. commands
          BY <2>1, <1>2
        <5>. QED  BY <5>1, <1>3
      <4>4. commands + 1 <= commands + 1
        BY <1>3
      <4>. QED  BY <4>1, <4>2, <4>3, <4>4, Zenon
    <3>2. CASE g # f
      <4>1. g \in Slots /\ calendar'[g] = calendar[g] /\ named'[g] = named[g] /\ g \in Present
        BY <3>2, <1>5 DEF Present
      <4>. QED  BY <4>1 DEF AutoInv, NamesOK
    <3>. QED  BY <3>1, <3>2
  <2>. QED  BY <2>2, <2>3, <2>4 DEF NamesOK
<1>9. ControlOK' /\ TodoOK' /\ KeptOK' /\ NotesOK' /\ MetOK'
    BY <1>7, OthersStay DEF AddEvent
<1>. QED  BY <1>6, <1>8, <1>9 DEF AutoInv

LEMMA DeleteEventInv ==
    ASSUME AutoInv, NEW f \in Slots, DeleteEvent(f)
    PROVE  AutoInv'
<1>1. NoEvent \in Events
    BY DEF NoEvent, Events, NoLead
<1>2. \A g \in Slots : calendar'[g] = IF g = f THEN NoEvent ELSE calendar[g]
    BY DEF DeleteEvent, AutoInv, AutoType
<1>3. AutoType'
    BY <1>1 DEF DeleteEvent, AutoInv, AutoType
<1>4. NamesOK' /\ NamesGrow
  <2>1. \A g \in Present' : g \in Present /\ calendar'[g] = calendar[g]
    BY <1>2 DEF Present
  <2>. QED  BY <2>1 DEF DeleteEvent, AutoInv, NamesOK, NamesGrow
<1>5. ControlOK' /\ TodoOK' /\ KeptOK' /\ NotesOK' /\ MetOK'
    BY <1>4, OthersStay DEF DeleteEvent
<1>. QED  BY <1>3, <1>4, <1>5 DEF AutoInv

LEMMA CompleteTaskInv ==
    ASSUME AutoInv, NEW t \in Titles, CompleteTask(t)
    PROVE  AutoInv'
<1>1. AutoType'
    BY DEF CompleteTask, AutoInv, AutoType
<1>2. NamesOK' /\ NamesGrow
    BY NamesStay DEF CompleteTask, AutoInv
<1>3. ControlOK' /\ TodoOK' /\ KeptOK' /\ NotesOK' /\ MetOK'
    BY <1>2, OthersStay DEF CompleteTask
<1>. QED  BY <1>1, <1>2, <1>3 DEF AutoInv

LEMMA AdvanceInv ==
    ASSUME AutoInv, Advance
    PROVE  AutoInv'
<1>1. AutoType'
    BY DEF Advance, AutoInv, AutoType
<1>2. NamesOK' /\ NamesGrow
    BY NamesStay DEF Advance, AutoInv
<1>3. ControlOK' /\ TodoOK' /\ KeptOK' /\ NotesOK' /\ MetOK'
    BY <1>2, OthersStay DEF Advance
<1>. QED  BY <1>1, <1>2, <1>3 DEF AutoInv

\* A command that is not about to write owes nothing.
LEMMA CommandKept ==
    ASSUME AutoInv, UNCHANGED <<disk, check, announced, repeated, stored, lost>>,
           command.pc # "writing", command'.pc # "writing",
           command'.pc = "read" => command'.held = disk
    PROVE  KeptOK'
<1>1. Recorded(disk)' = Recorded(disk) /\ Recorded(check.held)' = Recorded(check.held)
      /\ (command'.pc = "read" => Recorded(command.held)' = Recorded(disk))
    BY DEF Recorded
<1>2. InCommand' = {} /\ InCommand = {} /\ InCheck' = InCheck /\ Saved' = Saved
    BY <1>1 DEF InCommand, InCheck, Saved
<1>. QED  BY <1>1, <1>2 DEF AutoInv, KeptOK

LEMMA NoCommandIs ==
    ASSUME AutomationAssumption, AutoType
    PROVE  /\ NoCommand \in Commands /\ NoCommand.pc = "none" /\ NoCommand.held.notified = {}
           /\ \A t \in Titles : /\ [NoCommand EXCEPT !.pc = "added", !.title = t] \in Commands
                                /\ [NoCommand EXCEPT !.pc = "added", !.title = t].held = NoCommand.held
                                /\ [NoCommand EXCEPT !.pc = "added", !.title = t].pc = "added"
<1>1. Empty \in States /\ Empty.notified = {}
    BY NewState DEF AutoType, Empty
<1>2. (CHOOSE t \in Titles : TRUE) \in Titles
    BY DEF AutomationAssumption
<1>. QED  BY <1>1, <1>2 DEF NoCommand, Commands

LEMMA AddTaskInv ==
    ASSUME AutomationAssumption, AutoInv, NEW t \in Titles, AddTask(t)
    PROVE  AutoInv'
<1>1. /\ command' \in Commands /\ command'.pc = "added" /\ command'.held.notified = {}
      /\ command.pc = "none"
    BY NoCommandIs DEF AddTask, MayAdd, MayCommand, AutoInv
<1>2. AutoType'
    BY <1>1 DEF AddTask, AutoInv, AutoType
<1>3. NamesGrow /\ AlertsStay
    BY DEF AddTask, NamesGrow, AlertsStay
<1>4. NamesOK'
  <2>1. 1 .. commands \subseteq 1 .. commands'
    BY DEF AddTask, AutoInv, AutoType
  <2>2. Present' = Present
    BY DEF Present, AddTask
  <2>. QED  BY <2>1, <2>2 DEF AddTask, AutoInv, NamesOK
<1>5. ControlOK' /\ TodoOK'
    BY DEF AddTask, AutoInv, ControlOK, TodoOK
<1>6. KeptOK'
    BY <1>1, CommandKept DEF AddTask
<1>7. NotesOK'
    BY <1>1, <1>3, NotesStay DEF AddTask, AutoInv, TodoOK
<1>8. MetOK'
    BY <1>3, MetStays DEF AddTask, AutoInv
<1>. QED  BY <1>2, <1>4, <1>5, <1>6, <1>7, <1>8 DEF AutoInv

LEMMA CommandReadsInv ==
    ASSUME AutoInv, CommandReads
    PROVE  AutoInv'
<1>1. /\ command' \in Commands /\ command'.pc = "read" /\ command'.held = disk
      /\ command.pc = "added"
    BY DEF CommandReads, AutoInv, AutoType, Commands
<1>2. AutoType'
    BY <1>1 DEF CommandReads, AutoInv, AutoType
<1>3. NamesOK' /\ NamesGrow /\ AlertsStay
    BY NamesStay DEF CommandReads, AutoInv, AlertsStay
<1>4. ControlOK' /\ TodoOK'
    BY DEF CommandReads, AutoInv, ControlOK, TodoOK
<1>5. KeptOK'
    BY <1>1, CommandKept DEF CommandReads
<1>6. NotesOK'
    BY <1>1, <1>3, NotesStay DEF CommandReads, AutoInv, TodoOK
<1>7. MetOK'
    BY <1>3, MetStays DEF CommandReads, AutoInv
<1>. QED  BY <1>2, <1>3, <1>4, <1>5, <1>6, <1>7 DEF AutoInv

LEMMA CommandTruncatesInv ==
    ASSUME AutoInv, CommandTruncates
    PROVE  AutoInv'
<1>1. /\ command' \in Commands /\ command'.pc = "writing" /\ command'.held = command.held
      /\ command'.overlapped = command.overlapped /\ command.pc = "read"
      /\ disk' = Empty /\ Empty \in States /\ Empty.notified = {}
  <2>1. Empty \in States /\ Empty.notified = {}
    BY NewState DEF AutoInv, AutoType, Empty
  <2>. QED  BY <2>1 DEF CommandTruncates, AutoInv, AutoType, Commands
<1>2. AutoType'
    BY <1>1 DEF CommandTruncates, AutoInv, AutoType
<1>3. NamesOK' /\ NamesGrow /\ AlertsStay
    BY NamesStay DEF CommandTruncates, AutoInv, AlertsStay
<1>4. ControlOK' /\ TodoOK'
    BY DEF CommandTruncates, AutoInv, ControlOK, TodoOK
<1>5. KeptOK'
  <2>1. /\ Recorded(disk)' = {} /\ Recorded(check.held)' = Recorded(check.held)
        /\ Recorded(command.held)' = Recorded(command.held)
    <3>1. Recorded(disk)' = Recorded(disk')
      BY DEF Recorded
    <3>2. Recorded(disk') = {}
      BY <1>1, RecordedEmpty
    <3>3. Recorded(command.held)' = Recorded(command.held)
      BY <1>1 DEF Recorded
    <3>4. Recorded(check.held)' = Recorded(check.held)
      BY DEF Recorded, CommandTruncates
    <3>. QED  BY <3>1, <3>2, <3>3, <3>4
  <2>2. /\ InCommand' = Recorded(command.held) /\ InCommand = {} /\ InCheck' = InCheck
        /\ Saved' = Saved
    BY <2>1, <1>1 DEF InCommand, InCheck, Saved, CommandTruncates
  <2>3. lost \subseteq lost' /\ Recorded(disk) \ lost' \subseteq Recorded(command.held)
    BY <1>1 DEF CommandTruncates, Overwritten, AutoInv, KeptOK
  <2>4. {Stored(t) : t \in stored'} \ lost' \subseteq InCheck \cup Recorded(command.held)
    BY <2>2, <2>3 DEF AutoInv, KeptOK, CommandTruncates
  <2>5. /\ repeated' \subseteq lost'
        /\ check.stage # "asleep" => announced' \ lost' \subseteq Recorded(check.held)
        /\ Saved => announced' \ lost' \subseteq Recorded(command.held)
    BY <2>2, <2>3 DEF AutoInv, KeptOK, CommandTruncates
  <2>. QED  BY <2>1, <2>2, <2>4, <2>5 DEF KeptOK, CommandTruncates
<1>6. NotesOK'
    BY <1>1, <1>3, NotesStay DEF CommandTruncates, AutoInv, TodoOK
<1>7. MetOK'
    BY <1>3, MetStays DEF CommandTruncates, AutoInv
<1>. QED  BY <1>2, <1>3, <1>4, <1>5, <1>6, <1>7 DEF AutoInv

LEMMA CommandWritesInv ==
    ASSUME AutomationAssumption, AutoInv, CommandWrites
    PROVE  AutoInv'
<1>. PICK t \in Titles : t = command.title
    BY DEF AutoInv, AutoType, Commands
<1>. PICK s \in States : s = command.held
    BY DEF AutoInv, AutoType, Commands
<1>. PICK w : w = WithReminder(s, t)
    OBVIOUS
<1>1. /\ w \in States /\ w.notified = s.notified
      /\ (Recorded(s) \ {Reminder(t)}) \cup {Stored(t)} \subseteq Recorded(w)
  <2>1. w \in States
    BY NewState DEF WithReminder
  <2>2. w.notified = s.notified
    BY DEF WithReminder, States
  <2>. QED  BY <2>1, <2>2, RecordedWaiting
<1>2. /\ command.pc = "writing" /\ disk' = w /\ command' = NoCommand
      /\ announced' = announced \ {Reminder(t)} /\ stored' = stored \cup {t}
    BY DEF CommandWrites
<1>3. /\ check' \in Checks /\ check'.stage = check.stage /\ check'.pc = check.pc
      /\ check'.held = check.held /\ check'.todo = check.todo
      /\ check'.changed = check.changed /\ check'.overlapped = (check.stage # "asleep")
    BY DEF CommandWrites, AutoInv, AutoType, Checks
<1>4. /\ command' \in Commands /\ command'.pc = "none" /\ command'.held.notified = {}
    BY <1>2, NoCommandIs DEF AutoInv
<1>5. AutoType'
    BY <1>1, <1>2, <1>3, <1>4 DEF CommandWrites, AutoInv, AutoType
<1>6. NamesOK' /\ NamesGrow
    BY NamesStay DEF CommandWrites, AutoInv
<1>7. AlertsStay
  <2>1. Reminder(t).kind \notin Kinds
    BY ThingsDiffer DEF Kinds
  <2>. QED  BY <2>1, <1>2 DEF AlertsStay
<1>8. ControlOK' /\ TodoOK'
    BY <1>3 DEF AutoInv, ControlOK, TodoOK
<1>9. KeptOK'
  <2>1. /\ Recorded(disk)' = Recorded(w) /\ Recorded(check.held)' = Recorded(check.held)
        /\ Recorded(command.held) = Recorded(s)
    BY <1>2, <1>3 DEF Recorded
  <2>2. InCommand' = {} /\ InCommand = Recorded(s) /\ InCheck' = InCheck /\ Saved' = Saved
    BY <2>1, <1>2, <1>3, <1>4 DEF InCommand, InCheck, Saved
  <2>3. lost \subseteq lost' /\ Recorded(disk) \ lost' \subseteq Recorded(s)
    BY <2>1, <1>2 DEF CommandWrites, Overwritten, AutoInv, KeptOK
  <2>4. {Stored(u) : u \in stored'} \ lost' \subseteq Recorded(w) \cup InCheck
    <3>1. \A u \in stored : Stored(u) # Reminder(t)
      BY ThingsDiffer DEF AutoInv, AutoType
    <3>2. ASSUME NEW u \in stored, Stored(u) \notin lost'
          PROVE  Stored(u) \in Recorded(w) \cup InCheck
      <4>1. Stored(u) \in Recorded(disk) \cup InCheck \cup InCommand
        BY <3>2, <2>3 DEF AutoInv, KeptOK
      <4>. QED  BY <4>1, <3>1, <3>2, <2>2, <2>3, <1>1
    <3>. QED  BY <3>2, <1>1, <1>2
  <2>5. /\ repeated' \subseteq lost'
        /\ check.stage # "asleep" => announced' \ lost' \subseteq Recorded(check.held)
        /\ Saved => announced' \ lost' \subseteq Recorded(w)
    BY <2>2, <2>3, <1>1, <1>2 DEF AutoInv, KeptOK, CommandWrites
  <2>. QED  BY <2>1, <2>2, <2>4, <2>5, <1>3, <1>4 DEF KeptOK
<1>10. NotesOK'
    BY <1>1, <1>2, <1>3, <1>4, <1>6, <1>7, NotesStay DEF AutoInv, TodoOK
<1>11. MetOK'
    BY <1>3, <1>6, <1>7, MetStays DEF CommandWrites, AutoInv
<1>. QED  BY <1>5, <1>6, <1>8, <1>9, <1>10, <1>11 DEF AutoInv

LEMMA StopInv ==
    ASSUME AutomationAssumption, AutoInv, Stop
    PROVE  AutoInv'
<1>1. /\ check' \in Checks /\ check'.stage = "asleep" /\ check'.pc = "working"
      /\ check'.held.notified = {} /\ check'.changed = FALSE
    BY AsleepIs DEF Stop, AutoInv
<1>2. AutoType'
    BY <1>1 DEF Stop, AutoInv, AutoType
<1>3. NamesOK' /\ NamesGrow /\ AlertsStay
    BY NamesStay DEF Stop, AutoInv, AlertsStay
<1>4. ControlOK' /\ TodoOK'
    BY <1>1 DEF ControlOK, TodoOK
<1>5. NotesOK'
    BY <1>1, <1>3, NotesStay DEF Stop, AutoInv, TodoOK
<1>6. KeptOK'
  <2>1. /\ Recorded(disk)' = Recorded(disk) /\ Recorded(command.held)' = Recorded(command.held)
    BY DEF Recorded, Stop
  <2>2. InCommand' = InCommand /\ InCheck' = {}
    BY <2>1, <1>1 DEF InCommand, InCheck, Stop
  <2>3. /\ lost \subseteq lost' /\ announced \ Recorded(disk) \subseteq lost'
        /\ check.pc = "writing" => {Stored(t) : t \in Titles} \subseteq lost'
    BY DEF Stop
  <2>4. {Stored(t) : t \in stored'} \ lost' \subseteq Recorded(disk) \cup InCommand
    <3>1. CASE check.pc = "writing"
      BY <3>1, <2>3 DEF Stop, AutoInv, AutoType
    <3>2. CASE check.pc # "writing"
      BY <3>2, <2>3 DEF Stop, AutoInv, KeptOK, InCheck
    <3>. QED  BY <3>1, <3>2
  <2>5. repeated' \subseteq lost' /\ announced' \ lost' \subseteq Recorded(disk)
    BY <2>3 DEF Stop, AutoInv, KeptOK
  <2>. QED  BY <2>1, <2>2, <2>4, <2>5, <1>1 DEF KeptOK, Stop, AutoInv
<1>7. MetOK'
  <2>1. \A m \in met' : m \in met /\ m.alert \in announced'
    BY DEF Stop
  <2>. QED  BY <2>1 DEF MetOK, AutoInv, Heard
<1>. QED  BY <1>2, <1>3, <1>4, <1>5, <1>6, <1>7 DEF AutoInv

-----------------------------------------------------------------------------
(* The theorems *)

LEMMA AutoStarts ==
    ASSUME AutomationAssumption, Init
    PROVE  AutoInv
<1>1. Empty \in States /\ Empty.notified = {}
    BY DEF Empty, States
<1>2. /\ check \in Checks /\ check.stage = "asleep" /\ check.pc = "working"
      /\ check.held = Empty /\ check.changed = FALSE
    BY <1>1 DEF Init, Asleep, Checks
<1>3. command \in Commands /\ command.pc = "none" /\ command.held = Empty
  <2>1. (CHOOSE t \in Titles : TRUE) \in Titles
    BY DEF AutomationAssumption
  <2>. QED  BY <2>1, <1>1 DEF Init, NoCommand, Commands
<1>4. NoEvent \in Events
    BY DEF NoEvent, Events, NoLead
<1>5. AutoType
    BY <1>1, <1>2, <1>3, <1>4 DEF Init, AutoType
<1>6. ControlOK /\ TodoOK
    BY <1>2 DEF ControlOK, TodoOK
<1>7. NotesOK
    BY <1>1, <1>2, <1>3 DEF Init, NotesOK
<1>8. NamesOK
    BY DEF Init, NamesOK, Present
<1>9. KeptOK
    BY <1>2, <1>3 DEF Init, KeptOK
<1>10. MetOK
    BY DEF Init, MetOK
<1>. QED  BY <1>5, <1>6, <1>7, <1>8, <1>9, <1>10 DEF AutoInv

LEMMA AutoStep ==
    ASSUME AutomationAssumption, AutoInv, [Next]_vars
    PROVE  AutoInv'
<1>1. CASE CheckStep
    BY <1>1, BeginEventsInv, SendAlertInv, BeginItemsInv, OpenEventInv, RunItemInv,
       ItemsDoneInv, BeginRemindersInv, RemindInv, RemindersDoneInv, CheckTruncatesInv,
       CheckWritesInv DEF CheckStep
<1>2. CASE CommandStep
    BY <1>2, CommandReadsInv, CommandTruncatesInv, CommandWritesInv DEF CommandStep
<1>3. CASE \E c \in Contents : AddEvent(c)
    BY <1>3, AddEventInv
<1>4. CASE \E f \in Slots : DeleteEvent(f)
    BY <1>4, DeleteEventInv
<1>5. CASE \E t \in Titles : AddTask(t) \/ CompleteTask(t)
    BY <1>5, AddTaskInv, CompleteTaskInv
<1>6. CASE Advance \/ Stop
    BY <1>6, AdvanceInv, StopInv
<1>7. CASE UNCHANGED vars
  <2>1. ControlOK' /\ TodoOK' /\ KeptOK' /\ NotesOK' /\ MetOK' /\ NamesOK'
    BY <1>7, NamesStay, OthersStay DEF vars, AutoInv
  <2>. QED  BY <2>1, <1>7 DEF vars, AutoInv, AutoType
<1>. QED  BY <1>1, <1>2, <1>3, <1>4, <1>5, <1>6, <1>7 DEF Next

LEMMA KeptExplains ==
    ASSUME AutoInv
    PROVE  RepeatsExplained
<1>1. repeated \subseteq lost
    BY DEF AutoInv, KeptOK
<1>2. ASSUME NEW t \in stored, Stored(t) \notin lost, check.pc # "writing",
             command.pc # "writing"
      PROVE  disk.reminder[t] # "none"
  <2>1. Stored(t) \in Recorded(disk)
    BY <1>2 DEF AutoInv, KeptOK, InCheck, InCommand
  <2>. QED  BY <2>1, RecordedIs DEF AutoInv, AutoType
<1>. QED  BY <1>1, <1>2 DEF RepeatsExplained

\* For all events, tasks, clocks and bounds, and every interleaving of the checks with the
\* organizer: what the user hears of twice, and a stored reminder that is no longer in
\* scheduler_state.json, was taken out of the file by the end of the process or by two
\* overlapping writers.
THEOREM RepeatsAreExplained == Spec => []RepeatsExplained
<1>1. AutoInv => RepeatsExplained
    BY KeptExplains
<1>. QED  BY <1>1, AutoStarts, AutoStep, AutomationAssumption, PTL DEF Spec

\* Every alert whose time a complete check has met has been sent, but for events that have
\* the file name of a deleted one and occurrences of a recurring event that are not next.
THEOREM NothingIsMissed == Spec => []NothingMissed
<1>1. AutoInv => NothingMissed
    BY DEF AutoInv, MetOK, Heard, NothingMissed
<1>. QED  BY <1>1, AutoStarts, AutoStep, AutomationAssumption, PTL DEF Spec

=============================================================================

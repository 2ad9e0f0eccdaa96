----------------------------- MODULE Automation -----------------------------
(***************************************************************************)
(* The checks that share scheduler_state.json: alerts for calendar events  *)
(* (Scheduler._check_events), checklists of events (ChecklistProcessor)    *)
(* and reminders of tasks (TaskReminderProcessor), next to the organizer   *)
(* skill, a process of its own, that adds and deletes events and stores    *)
(* the reminders of new tasks.                                             *)
(*                                                                         *)
(* Each of them reads the whole file, works on its copy, and writes the    *)
(* whole copy back; the checks await notifications and scripts in between. *)
(* A write truncates the file first, and an unreadable file is an empty    *)
(* state.  One user: the file belongs to a user, and so do the events.     *)
(*                                                                         *)
(* Time is counted in half periods of EVENT_REMINDER_MINUTES, and events   *)
(* begin at even numbers.  A check never reads the clock on the dot: what  *)
(* it reads is odd.                                                        *)
(***************************************************************************)
EXTENDS Integers, Sequences, FiniteSets, FiniteSetsExt

CONSTANTS
    Contents,       \* events the user may enter
    Titles,         \* tasks with a reminder
    Due,            \* due date and offset of each, in the user's time
    Slots,          \* the file names of events of one day and title, numbered from 1
    Day,            \* half periods in a day
    ServerAhead,    \* the server's clock minus the user's
    MaxTime,        \* bound: periods
    MaxCommands,    \* bound: events and tasks added
    MaxStops        \* bound: ends of the scheduler's process

NoLead == -1

ASSUME AutomationAssumption ==
    /\ \A c \in Contents : /\ c.start \in Nat \ {0} /\ c.daily \in BOOLEAN
                           /\ c.lead \in Nat \cup {NoLead} /\ c.items \in Seq(Int)
    /\ Titles # {} /\ Due \in [Titles -> Int]
    /\ IsFiniteSet(Slots) /\ Slots = 1 .. Cardinality(Slots)
    /\ Day \in Nat \ {0} /\ ServerAhead \in Int
    /\ {MaxTime, MaxCommands, MaxStops} \subseteq Nat

VARIABLES
    disk,       \* scheduler_state.json
    calendar,   \* the event files
    tasks,      \* pending tasks of tasks.md
    clock,
    check,      \* the scheduler's coroutine
    command,    \* the organizer's process
    commands, stops,
    \* -- history variables --
    announced,  \* what the user has heard of
    repeated,   \* what he has heard of twice
    stored,     \* tasks whose reminder an organizer command has stored
    lost,       \* what a stop or an overlap of two writers has taken out of the file
    met,        \* alerts whose time a complete check has met
    named       \* events per file name

vars == <<disk, calendar, tasks, clock, check, command, commands, stops,
          announced, repeated, stored, lost, met, named>>

Period == 2
Always == 0
NoEvent == [gen |-> 0, start |-> 0, daily |-> FALSE, lead |-> NoLead, items |-> <<>>]

Empty == [notified |-> {}, settled |-> {}, reminder |-> [t \in Titles |-> "none"]]

\* What a user can hear of, and what the file can hold.
Alert(kind, gen, at) == [kind |-> kind, id |-> gen, at |-> at]
Item(gen, i) == Alert("item", gen, i)
Reminder(t) == Alert("task", t, Always)
Stored(t) == Alert("stored", t, Always)

Recorded(state) ==
    {n.alert : n \in state.notified} \cup state.settled
        \cup {Reminder(t) : t \in {x \in Titles : state.reminder[x] = "fired"}}
        \cup {Stored(t) : t \in {x \in Titles : state.reminder[x] # "none"}}

Asleep == [stage |-> "asleep", pc |-> "working", held |-> Empty, now |-> 0, files |-> {},
           todo |-> {}, changed |-> FALSE, overlapped |-> FALSE]
NoCommand == [pc |-> "none", title |-> CHOOSE t \in Titles : TRUE, held |-> Empty,
              overlapped |-> FALSE]

Init ==
    /\ disk = Empty
    /\ calendar = [f \in Slots |-> NoEvent]
    /\ tasks = {}
    /\ clock = 0
    /\ check = Asleep
    /\ command = NoCommand
    /\ commands = 0 /\ stops = 0
    /\ announced = {} /\ repeated = {} /\ stored = {} /\ lost = {} /\ met = {}
    /\ named = [f \in Slots |-> {}]

Present == {f \in Slots : calendar[f] # NoEvent}

-----------------------------------------------------------------------------
(* When things are due *)

\* _next_recurring_event_occurrence of a daily event.
Candidates(e, now) ==
    LET days == Max({(now \div Day) - (e.start \div Day), 0})
    IN  {e.start + days * Day, e.start + (days + 1) * Day}

Occurrences(e, now) ==
    LET window == now + Max({Period, e.lead})
        ahead == {c \in Candidates(e, now) : now <= c /\ c <= window}
    IN  IF ~e.daily THEN {e.start}
        ELSE IF ahead = {} THEN {} ELSE {Min(ahead)}

HeadsUpDue(e, start, now) == now <= start /\ start <= now + Period
ReminderDue(e, start, now) ==
    e.lead # NoLead /\ start - e.lead <= now /\ now <= start + Period

Kinds == {"headsup", "reminder"}
AlertDue(kind, e, start, now) ==
    IF kind = "headsup" THEN HeadsUpDue(e, start, now) ELSE ReminderDue(e, start, now)

\* The part of a key that tells the occurrences of a recurring event apart.
At(e, start) == IF e.daily THEN start ELSE Always

\* Mutant of KeyOf: one name for all occurrences of an event.
KeyOfFile(f, e, kind, start) == <<f, kind, Always>>

\* Names in notified_events.
KeyOf(f, e, kind, start) == <<f, kind, At(e, start)>>

\* The alerts that are due and not noted in the state.
AlertsDue(state, now) ==
    LET due(f, kind) == {s \in Occurrences(calendar[f], now) : AlertDue(kind, calendar[f], s, now)}
        alert(f, kind, s) == [key |-> KeyOf(f, calendar[f], kind, s),
                              alert |-> Alert(kind, calendar[f].gen, At(calendar[f], s))]
        all == UNION {{alert(f, kind, s) : s \in due(f, kind)} : f \in Present, kind \in Kinds}
    IN  {a \in all : \A n \in state.notified : n.key # a.key}

Starts(e) == IF e.daily THEN {e.start + k * Day : k \in 0 .. MaxTime} ELSE {e.start}

\* The first of the occurrences that are not over.
IsNext(e, start, now) == now <= start /\ \A s \in Starts(e) : now <= s => start <= s

\* What the user should hear of at this time: of an occurrence until a period after its
\* beginning, whether its event recurs or not.
Wanted(now) ==
    LET due(f, kind) == {s \in Starts(calendar[f]) : AlertDue(kind, calendar[f], s, now)}
        want(f, kind, s) == [alert |-> Alert(kind, calendar[f].gen, At(calendar[f], s)),
                             next |-> IsNext(calendar[f], s, now)]
    IN  UNION {{want(f, kind, s) : s \in due(f, kind)} : f \in Present, kind \in Kinds}

\* The items of an event's checklist that are to run, by the beginning of the event.  One
\* that runs when the event is created has an offset that is always over.
ItemsDue(state, e, now) ==
    {i \in DOMAIN e.items : Item(e.gen, i) \notin state.settled /\ e.start + e.items[i] <= now}

\* Mutant of RemindersDue: a window, as events have one.
RemindersDueShortly(state, now) ==
    {t \in tasks : state.reminder[t] = "waiting" /\ Due[t] <= now /\ now <= Due[t] + Period}

RemindersDue(state, now) ==
    {t \in tasks : state.reminder[t] = "waiting" /\ Due[t] <= now}

-----------------------------------------------------------------------------
(* The checks *)

UserNow == 2 * clock + 1
ServerNow == UserNow + ServerAhead

Announce(thing) ==
    /\ announced' = announced \cup {thing}
    /\ repeated' = IF thing \in announced THEN repeated \cup {thing} ELSE repeated

\* Whoever reads while the other has truncated the file finds nothing in it.
Load == lost' = IF command.pc = "writing" THEN lost \cup announced ELSE lost

\* _check_events: events and state are read once, by the user's clock.
BeginEvents ==
    /\ check.stage = "asleep"
    /\ check' = [Asleep EXCEPT !.stage = "events", !.held = disk, !.now = UserNow,
                               !.todo = AlertsDue(disk, UserNow)]
    /\ met' = met \cup Wanted(UserNow)
    /\ Load
    /\ UNCHANGED <<disk, calendar, tasks, clock, command, commands, stops,
                   announced, repeated, stored, named>>

\* Mutant of AfterAlert: what was sent is not written.
AfterAlertUnsaved(s, a) == [s EXCEPT !.todo = @ \ {a}, !.held.notified = @ \cup {a}]

AfterAlert(s, a) ==
    [s EXCEPT !.todo = @ \ {a}, !.held.notified = @ \cup {a}, !.pc = "saving"]

\* An alert has been sent; the heads-up of an event comes before its reminder.
SendAlert(a) ==
    /\ check.stage = "events" /\ check.pc = "working" /\ a \in check.todo
    /\ \A b \in check.todo : b.alert.id = a.alert.id /\ b.alert.kind = "headsup" => b = a
    /\ Announce(a.alert)
    /\ check' = AfterAlert(check, a)
    /\ UNCHANGED <<disk, calendar, tasks, clock, command, commands, stops, stored, lost, met, named>>

\* Mutant of Reloaded: the processors go on with the copy they were given.
ReloadedNot(s) == s.held

\* Every processor loads the state anew.
Reloaded(s) == disk

\* ChecklistProcessor.process_user, which goes by the server's clock.
BeginItems ==
    /\ check.stage = "events" /\ check.pc = "working" /\ check.todo = {}
    /\ check' = [Asleep EXCEPT !.stage = "items", !.held = Reloaded(check), !.now = ServerNow,
                               !.files = Present]
    /\ Load
    /\ UNCHANGED <<disk, calendar, tasks, clock, command, commands, stops,
                   announced, repeated, stored, met, named>>

\* A file is read when the loop comes to it; by then it may be gone, or another event's.
OpenEvent(f) ==
    /\ check.stage = "items" /\ check.pc = "working" /\ check.todo = {} /\ f \in check.files
    /\ check' = [check EXCEPT !.files = @ \ {f},
                              !.todo = {Item(calendar[f].gen, i) :
                                          i \in ItemsDue(check.held, calendar[f], check.now)}]
    /\ UNCHANGED <<disk, calendar, tasks, clock, command, commands, stops,
                   announced, repeated, stored, lost, met, named>>

\* A message was sent, or a script has ended, in success or failure: that settles the item.
RunItem ==
    /\ check.stage = "items" /\ check.pc = "working" /\ check.todo # {}
    /\ LET item == CHOOSE i \in check.todo : \A j \in check.todo : i.at <= j.at
       IN  /\ Announce(item)
           /\ check' = [check EXCEPT !.todo = @ \ {item}, !.held.settled = @ \cup {item},
                                     !.changed = TRUE]
    /\ UNCHANGED <<disk, calendar, tasks, clock, command, commands, stops, stored, lost, met, named>>

ItemsDone ==
    /\ check.stage = "items" /\ check.pc = "working" /\ check.todo = {} /\ check.files = {}
    /\ check' = [check EXCEPT !.pc = IF check.changed THEN "saving" ELSE "done"]
    /\ UNCHANGED <<disk, calendar, tasks, clock, command, commands, stops,
                   announced, repeated, stored, lost, met, named>>

\* TaskReminderProcessor.process_user, by the server's clock too.
BeginReminders ==
    /\ check.stage = "items" /\ check.pc = "done"
    /\ check' = [Asleep EXCEPT !.stage = "tasks", !.held = Reloaded(check), !.now = ServerNow,
                               !.todo = RemindersDue(Reloaded(check), ServerNow)]
    /\ Load
    /\ UNCHANGED <<disk, calendar, tasks, clock, command, commands, stops,
                   announced, repeated, stored, met, named>>

Remind(t) ==
    /\ check.stage = "tasks" /\ check.pc = "working" /\ t \in check.todo
    /\ Announce(Reminder(t))
    /\ check' = [check EXCEPT !.todo = @ \ {t}, !.held.reminder[t] = "fired", !.changed = TRUE]
    /\ UNCHANGED <<disk, calendar, tasks, clock, command, commands, stops, stored, lost, met, named>>

RemindersDone ==
    /\ check.stage = "tasks" /\ check.pc = "working" /\ check.todo = {}
    /\ check' = IF check.changed THEN [check EXCEPT !.pc = "saving"] ELSE Asleep
    /\ UNCHANGED <<disk, calendar, tasks, clock, command, commands, stops,
                   announced, repeated, stored, lost, met, named>>

\* _save_state opens the file, which truncates it ...
Overwritten(writer) ==
    lost' = IF writer.overlapped THEN lost \cup (Recorded(disk) \ Recorded(writer.held)) ELSE lost

CheckTruncates ==
    /\ check.pc = "saving"
    /\ disk' = Empty
    /\ check' = [check EXCEPT !.pc = "writing"]
    /\ Overwritten(check)
    /\ UNCHANGED <<calendar, tasks, clock, command, commands, stops,
                   announced, repeated, stored, met, named>>

\* ... and writes the whole copy, with whatever became outdated in it.
CheckWrites ==
    /\ check.pc = "writing"
    /\ disk' = check.held
    /\ check' = CASE check.stage = "events" -> [check EXCEPT !.pc = "working"]
                  [] check.stage = "items" -> [check EXCEPT !.pc = "done"]
                  [] check.stage = "tasks" -> Asleep
    /\ command' = [command EXCEPT !.overlapped = command.pc # "none"]
    /\ Overwritten(check)
    /\ UNCHANGED <<calendar, tasks, clock, commands, stops, announced, repeated, stored, met, named>>

-----------------------------------------------------------------------------
(* The organizer: one command at a time, in a process of its own *)

MayCommand == command.pc = "none"
MayAdd == MayCommand /\ commands < MaxCommands

\* cmd_add_event numbers the name until no file has it.
AddEvent(c) ==
    LET free == Slots \ Present
    IN  /\ MayAdd /\ free # {}
        /\ calendar' = [calendar EXCEPT ![Min(free)] =
                          [gen |-> commands + 1, start |-> c.start, daily |-> c.daily,
                           lead |-> c.lead, items |-> c.items]]
        /\ named' = [named EXCEPT ![Min(free)] = @ \cup {commands + 1}]
        /\ commands' = commands + 1
        /\ UNCHANGED <<disk, tasks, clock, check, command, stops,
                       announced, repeated, stored, lost, met>>

\* cmd_delete_event leaves the state as it is.
DeleteEvent(f) ==
    /\ MayCommand /\ f \in Present
    /\ calendar' = [calendar EXCEPT ![f] = NoEvent]
    /\ UNCHANGED <<disk, tasks, clock, check, command, commands, stops,
                   announced, repeated, stored, lost, met, named>>

\* cmd_add_task: tasks.md is written first, ...
AddTask(t) ==
    /\ MayAdd
    /\ tasks' = tasks \cup {t}
    /\ command' = [NoCommand EXCEPT !.pc = "added", !.title = t]
    /\ commands' = commands + 1
    /\ UNCHANGED <<disk, calendar, clock, check, stops, announced, repeated, stored, lost, met, named>>

\* ... then the state is read, ...
CommandReads ==
    /\ command.pc = "added"
    /\ command' = [command EXCEPT !.pc = "read", !.overlapped = FALSE, !.held = disk]
    /\ UNCHANGED <<disk, calendar, tasks, clock, check, commands, stops,
                   announced, repeated, stored, lost, met, named>>

WithReminder(state, t) == [state EXCEPT !.reminder[t] = "waiting"]

\* ... truncated, ...
CommandTruncates ==
    /\ command.pc = "read"
    /\ disk' = Empty
    /\ command' = [command EXCEPT !.pc = "writing"]
    /\ Overwritten(command)
    /\ UNCHANGED <<calendar, tasks, clock, check, commands, stops,
                   announced, repeated, stored, met, named>>

\* ... and written with the new reminders; the same title begins anew.
CommandWrites ==
    /\ command.pc = "writing"
    /\ disk' = WithReminder(command.held, command.title)
    /\ command' = NoCommand
    /\ check' = [check EXCEPT !.overlapped = check.stage # "asleep"]
    /\ announced' = announced \ {Reminder(command.title)}
    /\ stored' = stored \cup {command.title}
    /\ Overwritten(command)
    /\ UNCHANGED <<calendar, tasks, clock, commands, stops, repeated, met, named>>

CompleteTask(t) ==
    /\ MayCommand /\ t \in tasks
    /\ tasks' = tasks \ {t}
    /\ UNCHANGED <<disk, calendar, clock, check, command, commands, stops,
                   announced, repeated, stored, lost, met, named>>

-----------------------------------------------------------------------------
(* Time and the end of the process *)

Advance ==
    /\ clock < MaxTime
    /\ clock' = clock + 1
    /\ UNCHANGED <<disk, calendar, tasks, check, command, commands, stops,
                   announced, repeated, stored, lost, met, named>>

\* The process ends in the middle of a check and starts again.
Stop ==
    /\ stops < MaxStops /\ check # Asleep
    /\ stops' = stops + 1
    /\ check' = Asleep
    /\ lost' = lost \cup (announced \ Recorded(disk))
                 \cup IF check.pc = "writing" THEN {Stored(t) : t \in Titles} ELSE {}
    /\ met' = {m \in met : m.alert \in announced}
    /\ UNCHANGED <<disk, calendar, tasks, clock, command, commands, announced, repeated, stored, named>>

CheckStep ==
    \/ BeginEvents \/ \E a \in check.todo : SendAlert(a)
    \/ BeginItems \/ (\E f \in Slots : OpenEvent(f)) \/ RunItem \/ ItemsDone
    \/ BeginReminders \/ (\E t \in Titles : Remind(t)) \/ RemindersDone
    \/ CheckTruncates \/ CheckWrites

CommandStep == CommandReads \/ CommandTruncates \/ CommandWrites

Next ==
    \/ CheckStep \/ CommandStep
    \/ \E c \in Contents : AddEvent(c)
    \/ \E f \in Slots : DeleteEvent(f)
    \/ \E t \in Titles : AddTask(t) \/ CompleteTask(t)
    \/ Advance \/ Stop

Spec == Init /\ [][Next]_vars

\* The loop of the scheduler goes on, and a command that has begun ends.
FairSpec == Spec /\ WF_vars(CheckStep) /\ WF_vars(CommandStep)

-----------------------------------------------------------------------------
(* Properties *)

IsThing(x) ==
    /\ x.kind \in Kinds \cup {"item", "task", "stored"}
    /\ x.id \in IF x.kind \in {"task", "stored"} THEN Titles ELSE 1 .. MaxCommands
    /\ x.at \in Nat

IsState(s) ==
    /\ \A n \in s.notified : n.key \in Slots \X Kinds \X Nat /\ IsThing(n.alert)
    /\ \A n, m \in s.notified : n.key = m.key => n = m
    /\ \A x \in s.settled : IsThing(x) /\ x.kind = "item"
    /\ s.reminder \in [Titles -> {"none", "waiting", "fired"}]

\* The variables have their types, and a state notes a key for one alert only: what
\* _check_events puts into notified_events was not there.
TypeOK ==
    /\ IsState(disk) /\ IsState(check.held) /\ IsState(command.held)
    /\ \A f \in Slots : calendar[f].gen \in 0 .. MaxCommands
    /\ tasks \subseteq Titles /\ clock \in 0 .. MaxTime
    /\ check.stage \in {"asleep", "events", "items", "tasks"}
    /\ check.pc \in {"working", "saving", "writing", "done"}
    /\ command.pc \in {"none", "added", "read", "writing"}
    /\ commands \in 0 .. MaxCommands /\ stops \in 0 .. MaxStops
    /\ \A x \in announced \cup repeated \cup lost : IsThing(x)

\* Nobody hears of an alert, an item or a task's reminder a second time, and no script of
\* an item runs again, unless the end of the process or two overlapping writers have taken
\* the record of the first time out of scheduler_state.json.  A reminder that add-task has
\* stored stays in the file, whatever the checks write into it, but for the same two
\* causes; a write that is under way is seen half done.
RepeatsExplained ==
    /\ repeated \subseteq lost
    /\ \A t \in stored :
           \/ disk.reminder[t] # "none" \/ Stored(t) \in lost
           \/ check.pc = "writing" \/ command.pc = "writing"

Reused(g) == \E f \in Slots : \E h \in named[f] : g \in named[f] /\ h < g

\* Every alert whose time a complete check has met has been sent: the heads-up until the
\* event begins, and the event's own reminder until a period after that; of a recurring
\* event only for the next occurrence, so until it begins, and if a reminder leads by more
\* than a day not before the occurrence ahead of it has begun.  An event with the file
\* name of a deleted one is not announced.
NothingMissed ==
    check.stage # "events" =>
        \A m \in met : \/ m.alert \in announced \/ Reused(m.alert.id)
                       \/ m.alert.at # Always /\ ~m.next

Overdue(t) == t \in tasks /\ disk.reminder[t] = "waiting" /\ Due[t] <= ServerNow

\* A stored reminder of a pending task whose time has come does not wait for ever: it
\* fires, or the task is completed, or the reminder is lost from the file.
DueReminderFires == \A t \in Titles : Overdue(t) ~> ~Overdue(t)

\* What the manual of the organizer says (skills/organizer/SKILL.md:37): the reminders of
\* a recurring event fire on every matching day.  The code looks for an occurrence that
\* is not over and for a reminder whose time has come: one at the beginning has neither.
RecurringRemindersFire ==
    check.stage # "events" =>
        \A m \in met : m.alert.kind = "reminder" => m.alert \in announced \/ Reused(m.alert.id)
=============================================================================

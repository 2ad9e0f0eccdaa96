----------------------------- MODULE Reminders -----------------------------
(***************************************************************************)
(* Reminders and tasks of one user in workspace/tasks.md: the scheduler    *)
(* (pawlia/scheduler.py: _check_reminders and the helpers that mark or     *)
(* reschedule a line) and the organizer skill                              *)
(* (skills/organizer/scripts/organizer.py), a script that runs as a        *)
(* process of its own and edits the same file.                             *)
(*                                                                         *)
(* The scheduler parses the file once per tick and refers to a reminder by *)
(* its line index across the awaits of the notifications.  Both programs   *)
(* read the whole file and write the whole file back, so each edit is two  *)
(* actions.  A line is the task it stands for, its check box and its time; *)
(* time counts recurrence periods.                                         *)
(***************************************************************************)
EXTENDS Integers, Sequences, FiniteSets, SequencesExt

CONSTANTS
    Items,          \* tasks and reminders the user ever creates
    Heading,        \* a line that is not a task
    MaxTime,        \* bound: the clock
    MaxEdits,       \* bound: organizer commands
    MaxCrashes      \* bound: crashes of the bot

Times == 1 .. MaxTime
NoTime == 0                      \* a plain task has no time

ASSUME RemindersAssumption ==
    /\ Heading \notin Items
    /\ {MaxTime, MaxEdits, MaxCrashes} \subseteq Nat

VARIABLES
    file,        \* workspace/tasks.md, a sequence of lines
    now,         \* the user's clock
    sched,       \* the scheduler's coroutine
    org,         \* the organizer process
    listed,      \* <<line, item>> pairs of the last list-tasks output (the IDs)
    edits, crashes,
    \* -- history variables --
    fired,       \* notifications per item and time
    superseded,  \* <<item, time>> the scheduler marked done or rescheduled
    shifts,      \* organizer writes that moved lines while a tick was running
    overwrites   \* writes back of a copy the other program had changed since

vars == <<file, now, sched, org, listed, edits, crashes, fired, superseded, shifts, overwrites>>
history == <<fired, superseded, shifts, overwrites>>

Lines == [of : Items \cup {Heading}, done : BOOLEAN, due : 0 .. MaxTime + 1, recurs : BOOLEAN]

HeadingLine == [of |-> Heading, done |-> FALSE, due |-> NoTime, recurs |-> FALSE]

IsTask(line) == line.of # Heading

\* Mutant of IsDue: the comparison is strict.
DueStrictly(l) == IsTask(l) /\ ~l.done /\ l.due \in 1 .. now - 1

\* A pending reminder (a task with a time) whose time has come.
IsDue(l) == IsTask(l) /\ ~l.done /\ l.due \in 1 .. now

\* The numbers of a set, in order.
InOrder(S) ==
    CHOOSE s \in [1 .. Cardinality(S) -> S] : \A k, l \in DOMAIN s : k < l => s[k] < s[l]

\* _parse_tasks_md, then the filter of _check_reminders: pending reminders whose
\* time has come, each with its line index.
DueReminders(f) ==
    LET lines == InOrder({l \in DOMAIN f : IsDue(f[l])})
    IN  [k \in DOMAIN lines |-> [line |-> lines[k], of |-> f[lines[k]].of,
                                 due |-> f[lines[k]].due, recurs |-> f[lines[k]].recurs]]

\* Mutant of Settled: the mark is forgotten.
SettledNot(f, r) == f

\* _mark_task_done_in_file / _reschedule_reminder_in_file: whatever is on the line
\* now; a line past the end of the file is ignored, and so is a line without a time
\* when a recurrence is to be moved on.  Marking a line that is not pending changes
\* no check box.
Settled(f, r) ==
    IF r.line \notin DOMAIN f \/ ~IsTask(f[r.line]) THEN f
    ELSE IF ~r.recurs THEN [f EXCEPT ![r.line].done = TRUE]
    ELSE IF f[r.line].due = NoTime \/ f[r.line].due > MaxTime THEN f
    ELSE [f EXCEPT ![r.line].due = @ + 1]

\* _read_tasks_md then _write_tasks_md: the lines that are not tasks are not kept, and a
\* deletion leaves out those of an item.
LinesWithout(f, gone) ==
    LET lines == InOrder({l \in DOMAIN f : IsTask(f[l]) /\ f[l].of \notin gone})
    IN  [k \in DOMAIN lines |-> f[lines[k]]]

TaskLines(f) == LinesWithout(f, {})

Idle == [pc |-> "idle", todo |-> <<>>, copy |-> <<>>]
NoCommand == [pc |-> "idle", read |-> <<>>, write |-> <<>>]

Init ==
    /\ file \in {<<>>, <<HeadingLine>>}
    /\ now = 0
    /\ sched = Idle
    /\ org = NoCommand
    /\ listed = {}
    /\ edits = 0 /\ crashes = 0
    /\ fired = [i \in Items |-> [d \in Times |-> 0]]
    /\ superseded = {}
    /\ shifts = 0 /\ overwrites = 0

-----------------------------------------------------------------------------
(* Scheduler._check_reminders *)

Tick ==
    /\ sched.pc = "idle"
    /\ DueReminders(file) # <<>>
    /\ sched' = [pc |-> "notify", todo |-> DueReminders(file), copy |-> <<>>]
    /\ UNCHANGED <<file, now, org, listed, edits, crashes, history>>

\* await self._notify(...): the message goes out; other coroutines and processes
\* run before and after.
Notify ==
    /\ sched.pc = "notify"
    /\ sched' = [sched EXCEPT !.pc = "mark"]
    /\ fired' = [fired EXCEPT ![Head(sched.todo).of][Head(sched.todo).due] = @ + 1]
    /\ UNCHANGED <<file, now, org, listed, edits, crashes, superseded, shifts, overwrites>>

MarkRead ==
    /\ sched.pc = "mark"
    /\ sched' = [sched EXCEPT !.pc = "write", !.copy = file]
    /\ UNCHANGED <<file, now, org, listed, edits, crashes, history>>

\* Mutant of MarkWrite's choice: the next reminder of the tick is settled.
NextOf(todo) == IF Len(todo) > 1 THEN todo[2] ELSE todo[1]

\* The reminder of the tick that is being settled.
Current(todo) == Head(todo)

MarkWrite ==
    LET r == Current(sched.todo)
        new == Settled(sched.copy, r)
    IN  /\ sched.pc = "write"
        /\ file' = new
        /\ superseded' = superseded \cup
               {<<sched.copy[i].of, sched.copy[i].due>> :
                   i \in {j \in DOMAIN new : new[j] # sched.copy[j]}}
        /\ overwrites' = IF sched.copy = file THEN overwrites ELSE overwrites + 1
        /\ sched' = IF Len(sched.todo) = 1 THEN Idle
                    ELSE [pc |-> "notify", todo |-> Tail(sched.todo), copy |-> <<>>]
        /\ UNCHANGED <<now, org, listed, edits, crashes, fired, shifts>>

-----------------------------------------------------------------------------
(* The organizer: a command reads the file, then writes it *)

Command(new) ==
    /\ org.pc = "idle"
    /\ edits < MaxEdits
    /\ edits' = edits + 1
    /\ org' = [pc |-> "write", read |-> file, write |-> new]
    /\ UNCHANGED <<file, now, sched, crashes, history>>

\* add-task and add-reminder
Add(i, due, recurs) ==
    /\ \A k \in DOMAIN file : file[k].of # i
    /\ \A d \in Times : fired[i][d] = 0
    /\ due = NoTime => ~recurs
    /\ due = NoTime \/ due > now
    /\ Command(Append(TaskLines(file),
                      [of |-> i, done |-> FALSE, due |-> due, recurs |-> recurs]))
    /\ UNCHANGED listed

\* list-tasks: pending tasks that are not reminders, with their IDs.  The ID is a
\* hash of the line number, so it names the line.
ListTasks ==
    /\ edits < MaxEdits
    /\ edits' = edits + 1
    /\ listed' = {<<k, file[k].of>> : k \in {j \in DOMAIN file :
                     IsTask(file[j]) /\ ~file[j].done /\ file[j].due = NoTime}}
    /\ UNCHANGED <<file, now, sched, org, crashes, history>>

\* _find_task_location_by_id: the line with that number, if it is a task.
Found(line) == line \in DOMAIN file /\ IsTask(file[line])

\* complete-task --task-id (idempotent)
CompleteTask(line, i) ==
    /\ <<line, i>> \in listed
    /\ Found(line)
    /\ Command([file EXCEPT ![line].done = TRUE])
    /\ UNCHANGED listed

\* delete-task --task-id
DeleteTask(line, i) ==
    /\ <<line, i>> \in listed
    /\ Found(line)
    /\ Command(RemoveAt(file, line))
    /\ UNCHANGED listed

\* delete-reminder --reminder-id <title>
DeleteReminder(i) ==
    /\ \E k \in DOMAIN file : file[k].of = i /\ file[k].due # NoTime
    /\ Command(LinesWithout(file, {i}))
    /\ UNCHANGED listed

\* The lines that were in the file stand elsewhere afterwards.
Moves(f, g) == \E k \in DOMAIN f : k \notin DOMAIN g \/ g[k].of # f[k].of

CommandWrite ==
    /\ org.pc = "write"
    /\ file' = org.write
    /\ shifts' = IF sched.pc # "idle" /\ Moves(file, org.write) THEN shifts + 1 ELSE shifts
    /\ overwrites' = IF org.read = file THEN overwrites ELSE overwrites + 1
    /\ org' = NoCommand
    /\ UNCHANGED <<now, sched, listed, edits, crashes, fired, superseded>>

-----------------------------------------------------------------------------
Advance ==
    /\ now < MaxTime
    /\ now' = now + 1
    /\ UNCHANGED <<file, sched, org, listed, edits, crashes, history>>

\* The bot stops between two awaits, and starts again; the organizer's process is
\* its child.
Crash ==
    /\ crashes < MaxCrashes
    /\ crashes' = crashes + 1
    /\ sched' = Idle
    /\ org' = NoCommand
    /\ UNCHANGED <<file, now, listed, edits, history>>

Next ==
    \/ Tick
    \/ Notify
    \/ MarkRead
    \/ MarkWrite
    \/ \E i \in Items, due \in 0 .. MaxTime, recurs \in BOOLEAN : Add(i, due, recurs)
    \/ ListTasks
    \/ \E p \in listed : CompleteTask(p[1], p[2])
    \/ \E p \in listed : DeleteTask(p[1], p[2])
    \/ \E i \in Items : DeleteReminder(i)
    \/ CommandWrite
    \/ Advance
    \/ Crash

Spec == Init /\ [][Next]_vars

\* The scheduler's loop never ends and every notification returns; so does a
\* command of the organizer.  The clock and the user owe nothing.
Fairness ==
    /\ WF_vars(Tick) /\ WF_vars(Notify) /\ WF_vars(MarkRead) /\ WF_vars(MarkWrite)
    /\ WF_vars(CommandWrite)

FairSpec == Spec /\ Fairness

-----------------------------------------------------------------------------
Todo == [line : Nat, of : Items, due : Times, recurs : BOOLEAN]

\* Every variable has its type, and the work list is empty exactly between ticks.
TypeOK ==
    /\ file \in Seq(Lines)
    /\ now \in 0 .. MaxTime
    /\ sched \in [pc : {"idle", "notify", "mark", "write"}, todo : Seq(Todo), copy : Seq(Lines)]
    /\ (sched.pc = "idle") = (sched.todo = <<>>)
    /\ org \in [pc : {"idle", "write"}, read : Seq(Lines), write : Seq(Lines)]
    /\ listed \in SUBSET (Nat \X Items)
    /\ edits \in 0 .. MaxEdits /\ crashes \in 0 .. MaxCrashes
    /\ fired \in [Items -> [Times -> Nat]]
    /\ superseded \in SUBSET (Items \X (0 .. MaxTime + 1))
    /\ shifts \in Nat /\ overwrites \in Nat

\* An occurrence is announced once; again only after a crash between the
\* notification and the mark, a mark that went to another line, or a mark undone
\* by a concurrent rewrite - and then once per such event.  The scheduler ticks off or
\* moves on only an occurrence it has announced; the line index it carries over the await
\* can only mislead it when a command moved the lines in the meantime.
AnnouncedOnce ==
    /\ \A i \in Items, d \in Times : fired[i][d] <= 1 + crashes + shifts + overwrites
    /\ shifts = 0 => \A p \in superseded : p[2] \in Times /\ fired[p[1]][p[2]] > 0

\* A reminder that is due is announced, unless it leaves the file's pending ones: again
\* and again nothing is left that is due and was not.
DuePending(i, d) ==
    /\ d <= now
    /\ \E k \in DOMAIN file : file[k].of = i /\ ~file[k].done /\ file[k].due = d

DueIsAnnounced == []<>(\A i \in Items, d \in Times : DuePending(i, d) => fired[i][d] > 0)
=============================================================================

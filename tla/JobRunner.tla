----------------------------- MODULE JobRunner -----------------------------
(***************************************************************************)
(* Scheduled jobs of one user in automations/jobs.json: the JobRunner of   *)
(* pawlia/automation.py, called once per scheduler tick, and the job       *)
(* commands of the organizer skill, which run as processes of their own    *)
(* and edit the same file.                                                 *)
(*                                                                         *)
(* The runner loads the list, runs the jobs that are due one after the     *)
(* other (each an awaited script or LLM turn that may take minutes) and    *)
(* saves its list when the last one has ended; only a cleared force_run    *)
(* flag is saved at once.  A command reads the file and writes it back.    *)
(* A job is its id, its flags and its last run; time counts minutes.       *)
(***************************************************************************)
EXTENDS Integers, Sequences, FiniteSets, SequencesExt

CONSTANTS
    Jobs,           \* job ids
    Daily,          \* the jobs with a time of day; the others have an interval
    DayLength,      \* minutes of a day
    Target,         \* the minute of the day of the daily jobs
    Interval,       \* the interval of the other jobs
    Recent,         \* the two-minute window of _is_due
    JobTime,        \* bound: the clock
    JobEdits,       \* bound: organizer commands
    JobCrashes      \* bound: crashes of the bot

ASSUME JobsAssumption ==
    /\ IsFiniteSet(Jobs) /\ Daily \subseteq Jobs
    /\ {DayLength, Interval} \subseteq Nat \ {0}
    /\ Target \in 0 .. DayLength - 1
    /\ {Recent, JobTime, JobEdits, JobCrashes} \subseteq Nat

VARIABLES
    jobs,        \* jobs.json
    minute,
    runner,      \* the coroutine of process_user: its list, the job it awaits
    editor,      \* the organizer process
    known,       \* ids handed out
    jobEdits, jobCrashes,
    \* -- history variables --
    runs,        \* starts per job
    asked,       \* run-job commands that were written, per job
    overwritten  \* writes of a command over a file the runner had changed

jobVars == <<jobs, minute, runner, editor, known, jobEdits, jobCrashes,
          runs, asked, overwritten>>

Never == -1

Records == [of : Jobs, enabled : BOOLEAN, force : BOOLEAN, last : Never .. JobTime]

NewJob(j) == [of |-> j, enabled |-> TRUE, force |-> FALSE, last |-> Never]

TargetOn(at) == (at \div DayLength) * DayLength + Target

\* JobRunner._is_due.  The window of a daily job opens at its last run or, if it
\* never ran, two minutes ago.
IsJobDue(job, at) ==
    IF job.of \in Daily
    THEN /\ (IF job.last = Never THEN at - Recent ELSE job.last) < TargetOn(at)
         /\ TargetOn(at) <= at
         /\ job.last = Never \/ at - job.last > Recent
    ELSE job.last = Never \/ at >= job.last + Interval

Selected(job, at) == job.enabled /\ (job.force \/ IsJobDue(job, at))

\* Mutant of Due: the loop begins with the second job.
DueSkipsFirst(list, from, at) == {k \in from + 1 .. Len(list) : Selected(list[k], at)}

\* The jobs of a list that are run, from position "from" on.
Due(list, from, at) == {k \in from .. Len(list) : Selected(list[k], at)}

Unforced(list, k) == [list EXCEPT ![k].force = FALSE]

\* Mutant of Recorded: last_run is not set.
NotRecorded(list, k, at) == list

\* job["last_run"], of a success and of a failure.
Recorded(list, k, at) == [list EXCEPT ![k].last = at]

NoRun == [pc |-> "idle", jobs |-> <<>>, k |-> 0, at |-> 0]
NoJobCommand == [pc |-> "idle", read |-> <<>>, write |-> <<>>, run |-> {}]

\* The list as earlier commands left it.
JobInit ==
    /\ jobs \in {<<>>} \cup {[k \in 1 .. Cardinality(Jobs) |-> NewJob(s[k])] :
                               s \in SetToSeqs(Jobs)}
    /\ known = {jobs[k].of : k \in DOMAIN jobs}
    /\ minute = 0
    /\ runner = NoRun
    /\ editor = NoJobCommand
    /\ jobEdits = 0 /\ jobCrashes = 0
    /\ runs = [j \in Jobs |-> 0]
    /\ asked = [j \in Jobs |-> 0]
    /\ overwritten = 0

-----------------------------------------------------------------------------
(* JobRunner.process_user *)

\* The next job of the list starts; a forced one first has its flag cleared on disk.
Begin(todo, k, at) ==
    LET list == Unforced(todo, k)
    IN  /\ runner' = [pc |-> "running", jobs |-> list, k |-> k, at |-> at]
        /\ runs' = [runs EXCEPT ![todo[k].of] = @ + 1]
        /\ jobs' = IF todo[k].force THEN list ELSE jobs

JobTick ==
    /\ runner.pc = "idle"
    /\ Due(jobs, 1, minute) # {}
    /\ Begin(jobs, Min(Due(jobs, 1, minute)), minute)
    /\ UNCHANGED <<minute, editor, known, jobEdits, jobCrashes, asked, overwritten>>

\* The awaited job ended, well or not, and its notification is out: on to the next
\* job of the list or, after the last, the save.
Finish ==
    LET list == Recorded(runner.jobs, runner.k, runner.at)
        rest == Due(list, runner.k + 1, runner.at)
    IN  /\ runner.pc = "running"
        /\ \/ /\ rest # {}
              /\ Begin(list, Min(rest), runner.at)
           \/ /\ rest = {}
              /\ jobs' = list
              /\ runner' = NoRun
              /\ UNCHANGED runs
        /\ UNCHANGED <<minute, editor, known, jobEdits, jobCrashes, asked, overwritten>>

-----------------------------------------------------------------------------
(* The organizer: a command reads the file, then writes it *)

JobCommand(new, run) ==
    /\ editor.pc = "idle"
    /\ jobEdits < JobEdits
    /\ jobEdits' = jobEdits + 1
    /\ editor' = [pc |-> "write", read |-> jobs, write |-> new, run |-> run]
    /\ UNCHANGED <<jobs, minute, runner, jobCrashes, runs, asked, overwritten>>

AddJob(j) ==
    /\ j \notin known
    /\ known' = known \cup {j}
    /\ JobCommand(Append(jobs, NewJob(j)), {})

DeleteJob(k) == JobCommand(RemoveAt(jobs, k), {}) /\ UNCHANGED known

ToggleJob(k) == JobCommand([jobs EXCEPT ![k].enabled = ~@], {}) /\ UNCHANGED known

RunJob(k) == JobCommand([jobs EXCEPT ![k].force = TRUE], {jobs[k].of}) /\ UNCHANGED known

JobsWritten ==
    /\ editor.pc = "write"
    /\ jobs' = editor.write
    /\ asked' = [j \in Jobs |-> IF j \in editor.run THEN asked[j] + 1 ELSE asked[j]]
    /\ overwritten' = IF editor.read = jobs THEN overwritten ELSE overwritten + 1
    /\ editor' = NoJobCommand
    /\ UNCHANGED <<minute, runner, known, jobEdits, jobCrashes, runs>>

-----------------------------------------------------------------------------
MinutePasses ==
    /\ minute < JobTime
    /\ minute' = minute + 1
    /\ UNCHANGED <<jobs, runner, editor, known, jobEdits, jobCrashes, runs, asked, overwritten>>

RunnerStop(f) ==
    /\ jobCrashes < JobCrashes
    /\ jobCrashes' = jobCrashes + 1
    /\ jobs' = f
    /\ runner' = NoRun
    /\ editor' = NoJobCommand
    /\ UNCHANGED <<minute, known, jobEdits, runs, asked, overwritten>>

\* The bot stops during an await; a command is its child.
RunnerCrash == RunnerStop(jobs)

\* It stops between the truncation and the dump of a save: load_json reads a broken
\* file as an empty list.
TornSave ==
    /\ runner.pc = "running" \/ editor.pc = "write"
    /\ RunnerStop(<<>>)

JobNext ==
    \/ JobTick
    \/ Finish
    \/ \E j \in Jobs : AddJob(j)
    \/ \E k \in DOMAIN jobs : DeleteJob(k)
    \/ \E k \in DOMAIN jobs : ToggleJob(k)
    \/ \E k \in DOMAIN jobs : RunJob(k)
    \/ JobsWritten
    \/ MinutePasses
    \/ RunnerCrash
    \/ TornSave

JobSpec == JobInit /\ [][JobNext]_jobVars

\* The scheduler's loop goes on, each job ends (scripts and requests have timeouts)
\* and so does a command.  The clock and the user owe nothing.
JobFairness == WF_jobVars(JobTick) /\ WF_jobVars(Finish) /\ WF_jobVars(JobsWritten)

JobFairSpec == JobSpec /\ JobFairness

-----------------------------------------------------------------------------
\* Every variable has its type; a job that runs is in the runner's list and its
\* request is taken.
JobTypeOK ==
    /\ jobs \in Seq(Records)
    /\ minute \in 0 .. JobTime
    /\ runner \in [pc : {"idle", "running"}, jobs : Seq(Records),
                   k : Nat, at : 0 .. JobTime]
    /\ runner.pc = "running" => /\ runner.k \in DOMAIN runner.jobs
                                /\ ~runner.jobs[runner.k].force
    /\ editor \in [pc : {"idle", "write"}, read : Seq(Records), write : Seq(Records),
                run : SUBSET Jobs]
    /\ known \in SUBSET Jobs
    /\ jobEdits \in 0 .. JobEdits /\ jobCrashes \in 0 .. JobCrashes
    /\ runs \in [Jobs -> Nat] /\ asked \in [Jobs -> Nat]
    /\ overwritten \in Nat

\* How often its schedule has called for a job up to now.
Occurrences(j) ==
    IF j \in Daily THEN Cardinality({at \in 0 .. minute : TargetOn(at) = at})
    ELSE 1 + minute \div Interval

\* A job runs once per occurrence and request.  It is repeated only where a crash
\* loses the unsaved list or a command writes a list read before the runner's save,
\* once per such event; a save of the runner over a command repeats nothing.
JobsNotRepeated ==
    \A j \in Jobs : runs[j] <= Occurrences(j) + asked[j] + jobCrashes + overwritten

\* A job that is due is run and recorded as run, whatever else the tick runs, unless
\* the user takes it out or its window passes: again and again no job is left due.
DueNow(j) == \E k \in DOMAIN jobs : jobs[k].of = j /\ jobs[k].enabled /\ IsJobDue(jobs[k], minute)

DueJobRuns == []<>(\A j \in Jobs : ~DueNow(j))
=============================================================================

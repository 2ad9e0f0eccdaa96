---------------------------- MODULE SkillRunner ----------------------------
(***************************************************************************)
(* One skill call of PawLia: SkillRunnerAgent.run (agents/skill_runner.py) *)
(* with the request helper of its base class (agents/base.py) and the      *)
(* executor of compiled workflows (skills/executor.py).                    *)
(*                                                                         *)
(* A run makes up to MaxRetries attempts.  An attempt tries, one after the *)
(* other and only while the result is empty, the compiled workflow, the    *)
(* tool-call loop and one shell command.  The tool-call loop is the long   *)
(* part: the model asks for tools turn after turn, the answers are kept in *)
(* the message list, and several circuit breakers nudge or stop a model    *)
(* that makes no progress.                                                 *)
(*                                                                         *)
(* The model, the tools and the network choose freely.  A message is its   *)
(* role and the ids of the tool calls it makes or answers; an answer's     *)
(* text is "none", "code" (stops the model mid-work) or "text".            *)
(***************************************************************************)
EXTENDS Integers, Sequences, FiniteSets, FiniteSetsExt, SequencesExt

CONSTANTS
    Setups,           \* records: is it skill-creator, has it a workflow, may it fall back
    Calls,            \* signatures of tool calls: a name with its arguments
    Crashes,          \* signatures of tracebacks of the skill's own script
    MaxBatch,         \* bound: tool calls in one answer
    MaxTurns,         \* max_tool_turns of the skill or of the runner
    MaxRetries,       \* MAX_RETRIES
    MaxSteps,         \* max_steps of the workflow
    MaxOverflow,      \* _MAX_CONSECUTIVE_OVERFLOW
    NudgeSame, AbortSame,       \* _NUDGE_SAME_TOOL_CALL, _ABORT_SAME_TOOL_CALL
    NudgeSilent, AbortSilent,   \* _NUDGE_SILENT_TURNS, _ABORT_SILENT_TURNS
    AbortCrash,       \* _ABORT_REPEATED_ERROR
    InvokeRetries,    \* max_retries of _invoke
    MaxFaults,        \* bound: requests that fail other than by overflow
    MaxDirectives     \* bound: directive lines printed by tools

ASSUME SkillRunnerConstants ==
    /\ Setups \subseteq [creator : BOOLEAN, workflow : BOOLEAN, fallback : BOOLEAN]
    /\ MaxBatch \in Nat /\ MaxTurns \in Nat \ {0} /\ MaxRetries \in Nat \ {0}
    /\ MaxSteps \in Nat /\ MaxOverflow \in Nat \ {0} /\ AbortCrash \in Nat /\ InvokeRetries \in Nat
    /\ {NudgeSame, AbortSame, NudgeSilent, AbortSilent} \subseteq Nat
    /\ NudgeSame < AbortSame /\ NudgeSilent < AbortSilent

VARIABLES
    pc,       \* where run() is
    setup,    \* the skill and the runner it was built for
    run,      \* what the runner object keeps across attempts
    msgs,     \* the messages of the current mode, as the next request sends them
    req,      \* the request under way: who made it and its retries
    resp,     \* the model's last answer
    loop,     \* the local variables of _tool_call_loop
    wf,       \* the local variables of WorkflowExecutor.execute; history: did it end without
              \* text, what did its recovery commands print
    todo,     \* calls of the answer that have not been executed yet
    result,   \* what run() returned
    faults,   \* requests that have failed
    seen      \* history: what the outside world saw

vars == <<pc, setup, run, msgs, req, resp, loop, wf, todo, result, faults, seen>>

Batches(S) == UNION {[1 .. n -> S] : n \in 0 .. MaxBatch}

Answers == [calls : {<<>>}, text : {"none", "code", "text"}]
           \cup [calls : Batches(Calls) \ {<<>>}, text : {"none", "text"}]

NoAnswer == [calls |-> <<>>, text |-> "none"]

(***************************************************************************)
(* Messages                                                                *)
(***************************************************************************)
Message(role, ids) == [role |-> role, ids |-> ids]

IsHuman(m) == m.role \in {"task", "note"}

\* The calls the i-th message may answer: those of the last message before it
\* that is no tool result.
KnownIds(ms, i) ==
    LET other == {j \in 1 .. i - 1 : ms[j].role # "tool"}
    IN  IF other # {} /\ ms[Max(other)].role = "ai" THEN ms[Max(other)].ids ELSE {}

Orphan(ms, i) == ms[i].role = "tool" /\ ~(ms[i].ids \subseteq KnownIds(ms, i))

\* The messages at some of the positions, in order.
Keep(ms, kept) ==
    IF kept = DOMAIN ms THEN ms
    ELSE [n \in 1 .. Cardinality(kept) |->
             ms[CHOOSE i \in kept : Cardinality({j \in kept : j <= i}) = n]]

DropOrphans(ms) == Keep(ms, {i \in DOMAIN ms : ~Orphan(ms, i)})

\* A human message joins the human message before it.  Two answers of the model
\* never stand next to each other here.
MergeHumans(ms) ==
    Keep(ms, {i \in DOMAIN ms : ~(i > 1 /\ IsHuman(ms[i]) /\ IsHuman(ms[i - 1]))})

\* _sanitize_messages, run on every list before it is sent.  It also shortens the content of
\* old tool results, which keep their ids and their places.
Sanitize(ms) == MergeHumans(DropOrphans(ms))

\* _compact_messages: the middle of the list goes, the task with it.
Compact(ms) ==
    IF Len(ms) <= 4 THEN ms
    ELSE <<ms[1], Message("note", {})>> \o SubSeq(ms, Len(ms) - 3, Len(ms))

FreshMessages == <<Message("system", {}), Message("task", {})>>

(***************************************************************************)
(* The state at the start of run()                                         *)
(***************************************************************************)
FreshWorkflow == [step |-> 0, last |-> "", directives |-> 0, wordless |-> FALSE, unheard |-> 0]

\* The loop before the first answer's calls are counted.
EmptyLoop(calls) ==
    [turn |-> 0, nudges |-> 0, failed |-> FALSE, overflow |-> 0, silent |-> 0,
     asked |-> [c \in Calls |-> 0],
     sameNudged |-> FALSE, silentNudged |-> FALSE, nudge |-> "none"]

FreshLoop(calls) ==
    [EmptyLoop(calls) EXCEPT
        !.asked = [c \in Calls |-> Cardinality({i \in DOMAIN calls : calls[i] = c})]]

Init ==
    /\ setup \in Setups
    /\ pc = "start"
    /\ run = [attempt |-> 1, directives |-> 0, crashes |-> [c \in Crashes |-> 0]]
    /\ msgs = <<>>
    /\ req = [by |-> "nobody", retries |-> 0]
    /\ resp = NoAnswer
    /\ loop = FreshLoop(<<>>)
    /\ wf = FreshWorkflow
    /\ todo = <<>>
    /\ result = [text |-> "empty", directives |-> 0]
    /\ faults = 0
    /\ seen = [executed |-> {}, ran |-> [c \in Calls |-> 0], emitted |-> 0,
               blocks |-> FALSE, stopped |-> FALSE, compacted |-> FALSE]

(***************************************************************************)
(* How a mode hands over                                                   *)
(***************************************************************************)
Ask(by, ms) ==
    /\ pc' = "request"
    /\ req' = [by |-> by, retries |-> 0]
    /\ msgs' = Sanitize(ms)

\* Mutant of AttemptReturns: a new attempt forgets the directives.
ForgetfulReturns(text, directives) ==
    IF text = "empty" /\ directives = 0 /\ run.attempt < MaxRetries
    THEN /\ pc' = "attempt"
         /\ run' = [run EXCEPT !.attempt = @ + 1, !.directives = 0]
         /\ UNCHANGED <<result, msgs, req>>
    ELSE /\ pc' = "done"
         /\ result' = [text |-> text, directives |-> directives + run.directives]
         /\ UNCHANGED <<run, msgs, req>>

\* What run() does with the result of an attempt.
AttemptReturns(text, directives) ==
    IF text = "empty" /\ directives = 0 /\ run.attempt < MaxRetries
    THEN /\ pc' = "attempt"
         /\ run' = [run EXCEPT !.attempt = @ + 1]
         /\ UNCHANGED <<result, msgs, req>>
    ELSE /\ pc' = "done"
         /\ result' = [text |-> text, directives |-> directives + run.directives]
         /\ UNCHANGED <<run, msgs, req>>

\* _attempt after the tool-call loop: one more mode if there is no text.
ToolModeReturns(text) ==
    IF text = "empty" /\ setup.fallback
    THEN Ask("command", FreshMessages) /\ UNCHANGED <<run, result>>
    ELSE AttemptReturns(text, 0)

StartToolMode == Ask("first", FreshMessages) /\ UNCHANGED <<run, result>>

ResultOf(text) == IF text = "none" THEN "empty" ELSE "text"

\* Mutant of StoppedResult: only what the model has said.
SilentStop(text) == ResultOf(text)

\* A breaker leaves a note whether or not the model has said anything.
StoppedResult(text) == "stopped"

\* Mutant of BashOutput: the output as it is.
RawOutput(printed) == printed

\* What the shell tool returns for a command that printed this.
BashOutput(printed) == IF printed = "" THEN "(no output)" ELSE printed

(***************************************************************************)
(* run and _attempt                                                        *)
(***************************************************************************)
\* skill-creator hands a clear coding request to its script.  A failure of the
\* script falls through to the ordinary modes.
DirectCoding ==
    /\ pc = "start" /\ setup.creator
    /\ pc' = "done"
    /\ result' = [text |-> "text", directives |-> 0]
    /\ UNCHANGED <<setup, run, msgs, req, resp, loop, wf, todo, faults, seen>>

BeginAttempts ==
    /\ pc = "start"
    /\ pc' = "attempt"
    /\ UNCHANGED <<setup, run, msgs, req, resp, loop, wf, todo, result, faults, seen>>

AttemptWorkflow ==
    /\ pc = "attempt" /\ setup.workflow
    /\ pc' = "workflow"
    /\ wf' = FreshWorkflow
    /\ UNCHANGED <<setup, run, msgs, req, resp, loop, todo, result, faults, seen>>

\* No compiled workflow, or the model picked none of them.
AttemptTools ==
    /\ pc = "attempt"
    /\ StartToolMode
    /\ UNCHANGED <<setup, resp, loop, wf, todo, faults, seen>>

(***************************************************************************)
(* WorkflowExecutor.execute                                                *)
(***************************************************************************)
WorkflowReturns(text, directives) ==
    IF text = "empty" /\ directives = 0
    THEN StartToolMode
    ELSE AttemptReturns("text", directives)

\* The model answers with text.  A goal check that says no sends it on.
WorkflowAnswered ==
    /\ pc = "workflow" /\ wf.step < MaxSteps
    /\ \/ WorkflowReturns("text", wf.directives) /\ UNCHANGED wf
       \/ wf' = [wf EXCEPT !.step = @ + 1] /\ UNCHANGED <<pc, run, msgs, req, result>>
    /\ UNCHANGED <<setup, resp, loop, todo, faults, seen>>

\* What a command prints: nothing, lines, or a directive among them.
Outputs == {"", "lines", "directive"}

\* Directive lines in an output.
DirectivesIn(printed) == IF printed = "directive" THEN 1 ELSE 0

\* An empty answer, an error of the request, or the last step: the directives of all
\* blocks and the whole output of the last one are the result.
WorkflowEnds ==
    /\ pc = "workflow"
    /\ WorkflowReturns(IF wf.last = "" THEN "empty" ELSE "text",
                       wf.directives + DirectivesIn(wf.last))
    /\ wf' = [wf EXCEPT !.wordless = TRUE]
    /\ UNCHANGED <<setup, resp, loop, todo, faults, seen>>

WorkflowCalls ==
    /\ pc = "workflow" /\ wf.step < MaxSteps
    /\ \E batch \in Batches({"block", "unknown"}) \ {<<>>} :
          todo' = batch
    /\ pc' = "blocks"
    /\ UNCHANGED <<setup, run, msgs, req, resp, loop, wf, result, faults, seen>>

\* A block of the workflow is a shell command; its output is kept whether or not it passes
\* the block's verification.  If not, a recovery command may run, whose output only the
\* model is shown.
RunBlock ==
    /\ pc = "blocks" /\ todo # <<>>
    /\ todo' = Tail(todo)
    /\ IF Head(todo) = "unknown"
       THEN UNCHANGED <<wf, seen>>
       ELSE \E printed, recovery \in Outputs :
              LET new == DirectivesIn(printed)
                  unheard == DirectivesIn(recovery)
              IN  /\ seen.emitted + new + unheard <= MaxDirectives
                  /\ wf' = [wf EXCEPT !.last = BashOutput(printed),
                                      !.directives = @ + new, !.unheard = @ + unheard]
                  /\ seen' = [seen EXCEPT !.blocks = TRUE, !.emitted = @ + new + unheard]
    /\ UNCHANGED <<pc, setup, run, msgs, req, resp, loop, result, faults>>

BlocksDone ==
    /\ pc = "blocks" /\ todo = <<>>
    /\ pc' = "workflow"
    /\ wf' = [wf EXCEPT !.step = @ + 1]
    /\ UNCHANGED <<setup, run, msgs, req, resp, loop, todo, result, faults, seen>>

(***************************************************************************)
(* _invoke                                                                 *)
(***************************************************************************)
\* A request that is given up.  Only the first one of the tool-call loop is
\* caught; any other exception leaves run().
GiveUp ==
    IF req.by = "first"
    THEN ToolModeReturns("empty")
    ELSE pc' = "raised" /\ UNCHANGED <<run, msgs, req, result>>

\* An answer, and whether the chain had to skip the intended model because the
\* prompt no longer fits it (last_invoke_context_skipped).
ModelAnswers ==
    /\ pc = "request"
    /\ resp' \in Answers
    /\ IF req.by = "loop"
       THEN \E skipped \in BOOLEAN :
              loop' = [loop EXCEPT !.overflow = IF skipped THEN @ + 1 ELSE 0]
       ELSE UNCHANGED loop
    /\ pc' = req.by
    /\ UNCHANGED <<setup, run, msgs, req, wf, todo, result, faults, seen>>

\* The provider reports that the prompt does not fit.
RequestOverflows ==
    /\ pc = "request"
    /\ IF Len(Compact(msgs)) < Len(msgs)
       THEN /\ msgs' = Compact(msgs)
            /\ req' = [req EXCEPT !.retries = Min({@ + 1, InvokeRetries})]
            /\ seen' = [seen EXCEPT !.compacted = TRUE]
            /\ UNCHANGED <<pc, run, result>>
       ELSE GiveUp /\ UNCHANGED seen
    /\ UNCHANGED <<setup, resp, loop, wf, todo, faults>>

\* A tool call written as text gets an invented tool result, other errors that
\* may pass are simply tried again.
RequestFails ==
    /\ pc = "request" /\ faults < MaxFaults
    /\ faults' = faults + 1
    /\ IF req.retries + 1 >= InvokeRetries
       THEN GiveUp
       ELSE /\ msgs' \in {msgs, Append(msgs, Message("tool", {0}))}
            /\ req' = [req EXCEPT !.retries = @ + 1]
            /\ UNCHANGED <<pc, run, result>>
    /\ UNCHANGED <<setup, resp, loop, wf, todo, seen>>

RequestRejected ==
    /\ pc = "request" /\ faults < MaxFaults
    /\ faults' = faults + 1
    /\ GiveUp
    /\ UNCHANGED <<setup, resp, loop, wf, todo, seen>>

(***************************************************************************)
(* _tool_call_mode and _tool_call_loop                                     *)
(***************************************************************************)
\* Ids of the k-th call of a turn; 0 is the id of an invented result.
CallId(turn, k) == turn * MaxBatch + k

CallsMessage(turn, calls) ==
    Message("ai", {CallId(turn, k) : k \in DOMAIN calls})

\* Mutant of WithCalls: guidance before the results.
WithCallsAndGuidance(ms, turn, calls) ==
    ms \o <<CallsMessage(turn, calls), Message("note", {})>>

WithCalls(ms, turn, calls) == Append(ms, CallsMessage(turn, calls))

\* The first answer.  Calls written as text are recovered and count as calls.
FirstAnswer ==
    /\ pc = "first"
    /\ seen' = [seen EXCEPT !.executed = {}, !.ran = [c \in Calls |-> 0],
                            !.compacted = FALSE]
    /\ IF resp.calls = <<>>
       THEN /\ ToolModeReturns(ResultOf(resp.text))
            /\ UNCHANGED <<loop, todo>>
       ELSE /\ msgs' = WithCalls(msgs, 0, resp.calls)
            /\ loop' = FreshLoop(resp.calls)
            /\ todo' = resp.calls
            /\ pc' = "tools"
            /\ UNCHANGED <<run, req, result>>
    /\ UNCHANGED <<setup, resp, wf, faults>>

\* One tool runs in a worker thread and its result is appended.  A command
\* that fails is ordinary output: only a call that could not be made at all
\* (unknown tool, bad arguments, an exception) is an error to the loop.
ExecuteToolCall ==
    /\ pc = "tools" /\ todo # <<>>
    /\ LET id == CallId(loop.turn, Len(resp.calls) - Len(todo) + 1)
           after == [seen EXCEPT !.executed = @ \cup {id}, !.ran[Head(todo)] = @ + 1]
       IN  /\ msgs' = Append(msgs, Message("tool", {id}))
           /\ \/ UNCHANGED <<run, loop>> /\ seen' = after
              \/ /\ loop' = [loop EXCEPT !.failed = TRUE]
                 /\ seen' = after /\ UNCHANGED run
              \/ /\ \E c \in Crashes :
                       run' = [run EXCEPT !.crashes[c] = Min({@ + 1, AbortCrash})]
                 /\ seen' = after /\ UNCHANGED loop
              \/ /\ seen.emitted < MaxDirectives
                 /\ run' = [run EXCEPT !.directives = @ + 1]
                 /\ seen' = [after EXCEPT !.emitted = @ + 1]
                 /\ UNCHANGED loop
    /\ todo' = Tail(todo)
    /\ UNCHANGED <<pc, setup, req, resp, wf, result, faults>>

Guidance(given) == IF given THEN <<Message("note", {})>> ELSE <<>>

SkillBroken == ~setup.creator /\ \E c \in Crashes : run.crashes[c] >= AbortCrash

\* The tools of a turn have run: nudges come after their results, then the
\* breaker for a script that keeps crashing.  The first answer's turn has
\* neither.
ToolsDone ==
    /\ pc = "tools" /\ todo = <<>>
    /\ LET nudged == msgs \o Guidance(loop.nudge # "none")
       IN  IF loop.turn > 0 /\ SkillBroken
           THEN /\ ToolModeReturns(StoppedResult(resp.text))
                /\ seen' = [seen EXCEPT !.stopped = TRUE]
           ELSE /\ msgs' = nudged \o Guidance(loop.failed)
                /\ pc' = "turn"
                /\ UNCHANGED <<run, req, result, seen>>
    /\ loop' = [loop EXCEPT !.turn = @ + 1, !.nudge = "none",
                            !.silentNudged = @ \/ loop.nudge = "silent",
                            !.sameNudged = @ \/ loop.nudge = "same"]
    /\ UNCHANGED <<setup, resp, wf, todo, faults>>

NextTurn ==
    /\ pc = "turn" /\ loop.turn < MaxTurns
    /\ Ask("loop", msgs)
    /\ UNCHANGED <<setup, run, resp, loop, wf, todo, result, faults, seen>>

\* The turns are used up: a model that is still calling tools is asked once
\* more, without tools.
TurnsSpent ==
    /\ pc = "turn" /\ loop.turn >= MaxTurns
    /\ IF resp.calls # <<>>
       THEN Ask("final", msgs) /\ UNCHANGED <<run, result>>
       ELSE ToolModeReturns(ResultOf(resp.text))
    /\ UNCHANGED <<setup, resp, loop, wf, todo, faults, seen>>

FinalAnswer ==
    /\ pc = "final"
    /\ ToolModeReturns(ResultOf(resp.text))
    /\ UNCHANGED <<setup, resp, loop, wf, todo, faults, seen>>

(***************************************************************************)
(* An answer inside the loop                                               *)
(***************************************************************************)
Silents == IF resp.text = "none" THEN loop.silent + 1 ELSE 0

Asked ==
    [c \in Calls |-> loop.asked[c]
                     + Cardinality({k \in DOMAIN resp.calls : resp.calls[k] = c})]

Worst(asked) == Max({asked[c] : c \in Calls})

WantsNudge ==
    /\ loop.nudges < 2
    /\ resp.text \in {"none", "code"} \/ loop.failed

MustStop ==
    \/ loop.overflow >= MaxOverflow
    \/ resp.calls # <<>> /\ (Silents >= AbortSilent \/ Worst(Asked) >= AbortSame)

LoopStops ==
    /\ pc = "loop" /\ MustStop
    /\ ToolModeReturns(StoppedResult(resp.text))
    /\ seen' = [seen EXCEPT !.stopped = TRUE]
    /\ UNCHANGED <<setup, resp, loop, wf, todo, faults>>

LoopNudges ==
    /\ pc = "loop" /\ ~MustStop
    /\ resp.calls = <<>> /\ WantsNudge
    /\ msgs' = msgs \o <<Message("ai", {}), Message("note", {})>>
    /\ loop' = [loop EXCEPT !.nudges = @ + 1, !.turn = @ + 1]
    /\ pc' = "turn"
    /\ UNCHANGED <<setup, run, req, resp, wf, todo, result, faults, seen>>

LoopAnswers ==
    /\ pc = "loop" /\ ~MustStop
    /\ resp.calls = <<>> /\ ~WantsNudge
    /\ ToolModeReturns(ResultOf(resp.text))
    /\ UNCHANGED <<setup, resp, loop, wf, todo, faults, seen>>

LoopCalls ==
    /\ pc = "loop" /\ ~MustStop
    /\ resp.calls # <<>>
    /\ msgs' = WithCalls(msgs, loop.turn, resp.calls)
    /\ loop' = [loop EXCEPT
                   !.silent = Silents, !.asked = Asked, !.failed = FALSE,
                   !.nudge = CASE Silents >= NudgeSilent /\ ~loop.silentNudged -> "silent"
                               [] Worst(Asked) >= NudgeSame /\ ~loop.sameNudged -> "same"
                               [] OTHER -> "none"]
    /\ todo' = resp.calls
    /\ pc' = "tools"
    /\ UNCHANGED <<setup, run, req, resp, wf, result, faults, seen>>

(***************************************************************************)
(* _command_mode: one shell command, or the text that names none.  Its     *)
(* output is returned as it is, directive lines included.                  *)
(***************************************************************************)
CommandRuns ==
    /\ pc = "command"
    /\ \E printed \in Outputs :
          LET new == DirectivesIn(printed)
          IN  /\ seen.emitted + new <= MaxDirectives
              /\ seen' = [seen EXCEPT !.emitted = @ + new]
              /\ AttemptReturns(IF BashOutput(printed) = "" THEN "empty" ELSE "text", new)
    /\ UNCHANGED <<setup, resp, loop, wf, todo, faults>>

NoCommand ==
    /\ pc = "command"
    /\ AttemptReturns("text", 0)
    /\ UNCHANGED <<setup, resp, loop, wf, todo, faults, seen>>

Ended == pc \in {"done", "raised"}

Next ==
    \/ DirectCoding \/ BeginAttempts \/ AttemptWorkflow \/ AttemptTools
    \/ WorkflowAnswered \/ WorkflowEnds \/ WorkflowCalls \/ RunBlock \/ BlocksDone
    \/ ModelAnswers \/ RequestOverflows \/ RequestFails \/ RequestRejected
    \/ FirstAnswer \/ ExecuteToolCall \/ ToolsDone
    \/ NextTurn \/ TurnsSpent \/ FinalAnswer
    \/ LoopStops \/ LoopNudges \/ LoopAnswers \/ LoopCalls
    \/ CommandRuns \/ NoCommand

Spec == Init /\ [][Next]_vars

(***************************************************************************)
(* Properties                                                              *)
(***************************************************************************)
\* TypeOK: the counters of the loop stay below the limits that end it, every
\* message answers or makes calls of this run, and run() is at a known place.
TypeOK ==
    /\ pc \in {"start", "attempt", "workflow", "blocks", "request", "first", "tools",
               "turn", "loop", "final", "command", "done", "raised"}
    /\ run.attempt \in 1 .. MaxRetries
    /\ run.crashes \in [Crashes -> 0 .. AbortCrash]
    /\ req.by \in {"nobody", "first", "loop", "final", "command"}
    /\ req.retries \in 0 .. InvokeRetries
    /\ \A i \in DOMAIN msgs :
          /\ msgs[i].role \in {"system", "task", "note", "ai", "tool"}
          /\ msgs[i].ids \subseteq 0 .. MaxTurns * MaxBatch
    /\ loop.turn \in 0 .. MaxTurns
    /\ loop.nudges \in 0 .. 2
    /\ loop.overflow <= MaxOverflow /\ loop.silent < AbortSilent
    /\ wf.step \in 0 .. MaxSteps
    /\ result.text \in {"empty", "text", "stopped"}

\* ResultsReachModel: every tool that has run is reported to the model.  When a
\* request of the loop is sent, the result of each call executed so far is in
\* the list behind the answer that asked for it: no nudge, guidance or repair
\* of the list has pushed a result away from its call (the comment in
\* _tool_call_loop warns of exactly that).  Only a compaction may lose results.
ResultsReachModel ==
    (pc = "request" /\ req.by \in {"loop", "final"} /\ ~seen.compacted) =>
        \A id \in seen.executed :
            \E i \in DOMAIN msgs :
                /\ msgs[i] = Message("tool", {id})
                /\ id \in KnownIds(msgs, i)

\* Directives a workflow may return a second time: those of its last block, when it ends
\* without a word of the model.
Repeated == IF wf.wordless THEN DirectivesIn(wf.last) ELSE 0

\* EffectsAccountedFor: what a run has done is neither done again nor kept from the caller.
\* When a breaker stops the loop the run is over with an outcome that is not empty: no other
\* mode and no second attempt follows.  Once a block of the workflow has been executed,
\* neither the tool-call loop nor command mode does the task again.  And a directive printed
\* by a tool or a block is in what run() returns, exactly once whichever mode or attempt
\* produced it, with two exceptions of WorkflowExecutor.execute: the last block's directive
\* is returned twice if the workflow ends without text, and that of a recovery command is not
\* returned.
EffectsAccountedFor ==
    /\ seen.stopped => pc = "done" /\ result.text # "empty"
    /\ seen.blocks => pc \in {"workflow", "blocks", "done"}
    /\ pc = "done" => LET heard == seen.emitted - wf.unheard
                      IN  result.directives \in heard .. heard + Repeated

=============================================================================

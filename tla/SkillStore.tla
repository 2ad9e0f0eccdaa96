----------------------------- MODULE SkillStore -----------------------------
(***************************************************************************)
(* The skills in a user's workspace, from the script that makes them to    *)
(* the run that follows them: creator.py and credentials.py of the         *)
(* skill-creator skill, the code generator it calls (pawlia/coding), the   *)
(* workflow compiler and the loader (pawlia/skills), the cache of the app  *)
(* (pawlia/app.py) and the credential file (pawlia/credentials.py).        *)
(*                                                                         *)
(* The files are shared: skill-creator is one agent at a time, but runs of *)
(* the skills, and users who edit or delete them through other skills, do  *)
(* not wait for it.  A SKILL.md is its version, 0 if it has none, and its  *)
(* modification time; no two are equal, so the time also stands for the    *)
(* content.  Names are those of the workspace; one user.                   *)
(***************************************************************************)
EXTENDS Integers, FiniteSets, FiniteSetsExt

CONSTANTS
    SkillNames,    \* names of workspace skills
    Credentials,   \* keys of the credential file
    MaxTime,       \* bound: modifications of SKILL.md files
    MaxVersion,    \* bound: metadata.version, the template and the compiler's default are 1
    MaxTrouble     \* bound: failures

ASSUME SkillStoreAssumption ==
    /\ MaxTime \in Nat /\ MaxVersion \in Nat \ {0} /\ MaxTrouble \in Nat
    /\ {"no file", "torn"} \cap Credentials = {}

VARIABLES
    disk,       \* the directories of the skills
    clock,      \* the time of the last modification of a SKILL.md
    cache,      \* _workspace_skills_cache of the user
    creator,    \* the command of creator.py under way
    turn,       \* a run of a skill
    legacy,     \* the credential file of older versions
    store,      \* the credential file
    stored,     \* history: the credentials that were set and not deleted
    lost,       \* history: those a failed move or a save that broke off took
    tested,     \* where the harness of the last test wrote, if it succeeded
    trouble     \* failures so far

files == <<disk, clock>>
secrets == <<legacy, store, stored, lost>>
storeVars == <<files, cache, creator, turn, secrets, tested, trouble>>

Nobody == "nobody"
NoFile == {"no file"}
Torn == {"torn"}
Red == {"failed"}

\* workflow.yaml: the version it states; history: the version of the SKILL.md it was made
\* from, and whether the answer kept to it.
NoWorkflow == [at |-> "none", version |-> 0, from |-> 0, kept |-> FALSE]
NoDir == [at |-> "absent", version |-> 0, mtime |-> 0, wf |-> NoWorkflow, harness |-> FALSE]
NoSkill == [mtime |-> 0, version |-> 0, wf |-> NoWorkflow]
Resting == [op |-> "none", n |-> Nobody, version |-> 0, said |-> 0]
NoTurn == [at |-> "none", n |-> Nobody]

StoreInit ==
    /\ disk = [n \in SkillNames |-> NoDir]
    /\ clock = 0
    /\ cache = [mtime |-> -1, skills |-> [n \in SkillNames |-> NoSkill]]
    /\ creator = Resting
    /\ turn = NoTurn
    /\ \E keys \in {NoFile} \cup (SUBSET Credentials) :
        /\ legacy = keys
        /\ stored = keys \ NoFile
    /\ store = NoFile
    /\ lost = {}
    /\ tested = Red
    /\ trouble = 0

Goes == creator' = Resting
Trouble == trouble < MaxTrouble /\ trouble' = trouble + 1
Tick == clock < MaxTime /\ clock' = clock + 1

\* A command that another one of the same agent does not overlap.
Idle(n) == creator.op = "none" /\ n \in SkillNames

Has(n) == disk[n].at = "ready"

-----------------------------------------------------------------------------
(* Files of skills *)

\* cmd_init up to the new directory: what is there is only removed with --force, and a
\* SKILL.md only with the template's version.
CmdInit(n, force) ==
    /\ Idle(n)
    /\ disk[n].at # "absent" => force /\ (Has(n) => disk[n].version = 1)
    /\ disk' = [disk EXCEPT ![n] = [NoDir EXCEPT !.at = "partial"]]
    /\ creator' = [Resting EXCEPT !.op = "init", !.n = n]
    /\ UNCHANGED <<clock, cache, turn, secrets, tested, trouble>>

\* SKILL.md is written, and the loader can see the skill before its scripts are there.
InitWrites ==
    /\ creator.op = "init" /\ disk[creator.n].at = "partial"
    /\ Tick
    /\ disk' = [disk EXCEPT ![creator.n] = [@ EXCEPT !.at = "ready", !.version = 1, !.mtime = clock']]
    /\ UNCHANGED <<cache, creator, turn, secrets, tested, trouble>>

InitEnds ==
    /\ creator.op = "init" /\ disk[creator.n].at # "partial"
    /\ Goes
    /\ UNCHANGED <<files, cache, turn, secrets, tested, trouble>>

\* An exception rolls the directory back; a killed script leaves it.
InitFails ==
    /\ creator.op = "init"
    /\ Trouble
    /\ \/ disk' = [disk EXCEPT ![creator.n] = NoDir]
       \/ UNCHANGED disk
    /\ Goes
    /\ UNCHANGED <<clock, cache, turn, secrets, tested>>

\* Somebody edits SKILL.md, and may raise its version or drop it.
EditSkill(n) ==
    /\ Has(n) /\ Tick
    /\ \E v \in {0} \cup disk[n].version..Min({disk[n].version + 1, MaxVersion}) :
        disk' = [disk EXCEPT ![n] = [@ EXCEPT !.version = v, !.mtime = clock']]
    /\ UNCHANGED <<cache, creator, turn, secrets, tested, trouble>>

\* Somebody deletes the directory.
DeleteSkill(n) ==
    /\ Has(n)
    /\ disk' = [disk EXCEPT ![n] = NoDir]
    /\ UNCHANGED <<clock, cache, creator, turn, secrets, tested, trouble>>

\* cmd_implement and cmd_fix: a file whose name has no directory goes to scripts/, so that
\* only a harness named by a path arrives where _find_harness looks for it.
CodingWrites(n, path) ==
    /\ Idle(n) /\ Has(n)
    /\ disk' = [disk EXCEPT ![n].harness = @ \/ path]
    /\ UNCHANGED <<clock, cache, creator, turn, secrets, tested, trouble>>

-----------------------------------------------------------------------------
(* The workflow compiler *)

\* What the compiler calls a version: it gives a SKILL.md without one the default.
CompiledAs(version) == IF version = 0 THEN 1 ELSE version

\* compile_skill up to the model's answer; an up-to-date workflow is not compiled again.
CmdCompile(n, force) ==
    /\ Idle(n) /\ Has(n)
    /\ force \/ disk[n].wf.at # "whole" \/ disk[n].wf.version # CompiledAs(disk[n].version)
    /\ creator' = [op |-> "compile", n |-> n, version |-> disk[n].version, said |-> 0]
    /\ UNCHANGED <<files, cache, turn, secrets, tested, trouble>>

\* The answer has passed the checks, none of which is about the version it states:
\* workflow.yaml is opened for writing.
CompileOpens ==
    /\ creator.op = "compile" /\ creator.said = 0
    /\ Has(creator.n)
    /\ \E said \in {CompiledAs(creator.version)} \cup (IF trouble < MaxTrouble THEN 1..MaxVersion ELSE {}) :
        /\ creator' = [creator EXCEPT !.said = said]
        /\ trouble' = IF said = CompiledAs(creator.version) THEN trouble ELSE trouble + 1
    /\ disk' = [disk EXCEPT ![creator.n].wf = [NoWorkflow EXCEPT !.at = "partial"]]
    /\ UNCHANGED <<clock, cache, turn, secrets, tested>>

\* Mutant of Stated: the version on disk when the file is written.
StatedOnDisk == CompiledAs(disk[creator.n].version)

\* The version the file states is the answer's.
Stated == creator.said

CompileWrites ==
    /\ creator.op = "compile" /\ creator.said # 0
    /\ Has(creator.n)
    /\ disk' = [disk EXCEPT ![creator.n].wf =
                   [at |-> "whole", version |-> Stated, from |-> creator.version,
                    kept |-> creator.said = CompiledAs(creator.version)]]
    /\ Goes
    /\ UNCHANGED <<clock, cache, turn, secrets, tested, trouble>>

\* The model fails twice, finds the skill unsuitable, the script is killed, or the
\* directory is gone.
CompileFails ==
    /\ creator.op = "compile"
    /\ Trouble \/ (~Has(creator.n) /\ UNCHANGED trouble)
    /\ Goes
    /\ UNCHANGED <<files, cache, turn, secrets, tested>>

-----------------------------------------------------------------------------
(* Testing *)

Places == {"user", "session", "elsewhere"}
Writable == {"user"}             \* writable_roots: the user's directory and /tmp
Scanned == {"session"}           \* scan_roots without what is writable

\* cmd_test: what the harness tried to write, how it ended and what it printed.
TestOutcome(sandboxed, tries, exit, signal) ==
    LET wrote == IF sandboxed THEN tries \cap Writable ELSE tries IN
    IF exit = 0 /\ signal # "false" /\ wrote \cap Scanned = {} THEN wrote ELSE Red

CmdTest(n) ==
    /\ Idle(n) /\ Has(n) /\ disk[n].harness
    /\ \E sandboxed \in BOOLEAN, tries \in SUBSET Places, exit \in {0, 1}, signal \in {"none", "true", "false"} :
        tested' = TestOutcome(sandboxed, tries, exit, signal)
    /\ UNCHANGED <<files, cache, creator, turn, secrets, trouble>>

-----------------------------------------------------------------------------
(* Credentials *)

\* Mutant of OnlyOld: the old file counts whether or not there is a new one.
AnyOld == legacy # NoFile

OnlyOld == store = NoFile /\ legacy # NoFile

\* migrate_if_needed: a move that fails leaves the old file where it is.
Migration ==
    \/ OnlyOld /\ store' = legacy /\ legacy' = NoFile /\ lost' = {} /\ UNCHANGED trouble
    \/ OnlyOld /\ Trouble /\ lost' = legacy /\ UNCHANGED <<legacy, store>>
    \/ ~OnlyOld /\ UNCHANGED <<legacy, store, lost, trouble>>

\* credentials.load and _load: the new file only, and nothing from a torn one.
Visible == IF store \in {NoFile, Torn} THEN {} ELSE store

\* skill-creator is called: build_env_extra loads the credentials first.
CreatorCalled ==
    /\ creator.op = "none"
    /\ Migration
    /\ creator' = [Resting EXCEPT !.op = "called"]
    /\ UNCHANGED <<files, cache, turn, stored, tested>>

CreatorLeaves ==
    /\ creator.op = "called"
    /\ Goes
    /\ UNCHANGED <<files, cache, turn, secrets, tested, trouble>>

\* cmd_set and cmd_delete of credentials.py read and write the new file only, so that a
\* first key hides an old file that could not be moved.  A torn file stops them.
CmdSet(k) ==
    /\ creator.op = "called" /\ store # Torn
    /\ store' = Visible \cup {k}
    /\ stored' = stored \cup {k}
    /\ lost' = lost \ {k}
    /\ UNCHANGED <<files, cache, creator, turn, legacy, tested, trouble>>

CmdDelete(k) ==
    /\ creator.op = "called"
    /\ k \in Visible
    /\ store' = store \ {k}
    /\ stored' = stored \ {k}
    /\ UNCHANGED <<files, cache, creator, turn, legacy, lost, tested, trouble>>

\* The script is killed in _save, which truncates the file and writes it anew.
SaveBreaksOff ==
    /\ creator.op = "called" /\ store # Torn
    /\ Trouble
    /\ store' = Torn
    /\ lost' = stored
    /\ Goes
    /\ UNCHANGED <<files, cache, turn, legacy, stored, tested>>

-----------------------------------------------------------------------------
(* Loading and running *)

\* Mutant: the cache is only dropped when the number of skills changes.
CountOfSkills == Cardinality({n \in SkillNames : Has(n)})

\* _workspace_skills_mtime
NewestSkill == Max({0} \cup {disk[n].mtime : n \in {m \in SkillNames : Has(m)}})

\* SkillLoader.discover: the workflow of a skill is read when it is first asked for.
Discovered ==
    [n \in SkillNames |->
        IF Has(n)
        THEN [mtime |-> disk[n].mtime, version |-> disk[n].version, wf |-> [NoWorkflow EXCEPT !.at = "unread"]]
        ELSE NoSkill]

\* A turn collects the user's skills and calls one of them.
Collect(n) ==
    /\ turn.at = "none"
    /\ cache' = IF cache.mtime = NewestSkill THEN cache ELSE [mtime |-> NewestSkill, skills |-> Discovered]
    /\ cache'.skills[n] # NoSkill
    /\ turn' = [at |-> "called", n |-> n]
    /\ UNCHANGED <<files, creator, secrets, tested, trouble>>

\* Mutant: any workflow that can be read is used.
AnyWorkflow(skill, wf) == IF wf.at = "whole" THEN wf ELSE NoWorkflow

\* AgentSkill.workflow when it is read: one that states another version than the skill's, if
\* that has one, is not used, a torn file neither.
LoadedWorkflow(skill, wf) ==
    IF wf.at = "whole" /\ skill.version \in {0, wf.version} THEN wf ELSE NoWorkflow

\* SkillRunnerAgent._attempt: the workflow, read once for the life of the skill object.
Attempt ==
    /\ turn.at = "called"
    /\ LET skill == cache.skills[turn.n]
           wf == IF skill.wf.at = "unread" THEN LoadedWorkflow(skill, disk[turn.n].wf) ELSE skill.wf
       IN /\ cache' = [cache EXCEPT !.skills[turn.n].wf = wf]
          /\ turn' = [turn EXCEPT !.at = "running"]
    /\ UNCHANGED <<files, creator, secrets, tested, trouble>>

TurnEnds ==
    /\ turn.at = "running"
    /\ turn' = NoTurn
    /\ UNCHANGED <<files, cache, creator, secrets, tested, trouble>>

StoreNext ==
    \/ \E n \in SkillNames :
        \/ \E force \in BOOLEAN : CmdInit(n, force) \/ CmdCompile(n, force)
        \/ EditSkill(n) \/ DeleteSkill(n)
        \/ \E path \in BOOLEAN : CodingWrites(n, path)
        \/ CmdTest(n)
        \/ Collect(n)
    \/ InitWrites \/ InitEnds \/ InitFails
    \/ CompileOpens \/ CompileWrites \/ CompileFails
    \/ CreatorCalled \/ CreatorLeaves
    \/ \E k \in Credentials : CmdSet(k) \/ CmdDelete(k)
    \/ SaveBreaksOff
    \/ Attempt \/ TurnEnds

StoreSpec == StoreInit /\ [][StoreNext]_storeVars

-----------------------------------------------------------------------------
(* Properties *)

StoreTypeOK ==
    /\ disk \in [SkillNames -> [at : {"absent", "partial", "ready"}, version : 0..MaxVersion, mtime : 0..clock,
                                wf : [at : {"none", "partial", "whole"}, version : 0..MaxVersion,
                                      from : 0..MaxVersion, kept : BOOLEAN],
                                harness : BOOLEAN]]
    /\ clock \in 0..MaxTime
    /\ cache.mtime \in -1..clock
    /\ creator.op \in {"none", "called", "init", "compile"}
    /\ turn.at \in {"none", "called", "running"}
    /\ store \in {NoFile, Torn} \/ store \subseteq Credentials
    /\ stored \subseteq Credentials /\ lost \subseteq Credentials

\* A workflow that a skill of this version may follow.
MadeFor(wf, version) == wf.at = "whole" /\ wf.kept /\ version # 0 => CompiledAs(wf.from) = version

\* When a turn collects its skills, it gets the instructions of every workspace skill as they
\* are on disk, though the cache compares nothing but one modification time: whatever was
\* scaffolded, edited, rolled back or deleted since it was filled.  And when it runs one with
\* a version, the workflow it follows was compiled from the instructions of that version,
\* whatever was edited while a compilation waited for its answer, however many compilations
\* followed and which of them were torn.  The code guarantees no more: a skill without a
\* version follows any workflow, instructions without a version pass for version 1, and an
\* answer that states another version than it was asked for is taken at its word.
InstructionsCurrent ==
    [][/\ turn.at = "none" /\ turn'.at = "called" =>
              \A n \in SkillNames : Has(n) => cache'.skills[n].mtime = disk[n].mtime
       /\ turn.at = "called" /\ turn'.at = "running" =>
              MadeFor(cache'.skills[turn.n].wf, cache.skills[turn.n].version)]_storeVars

\* What the next command will find, if it can move an old file.
Readable == IF store = NoFile THEN legacy \ NoFile ELSE Visible

\* Between the old file, the new one and the commands that set and delete keys, no stored
\* key is lost and no deleted one comes back, but for what the code gives up: the keys of an
\* old file that could not be moved, once a new file hides them, and those in the file when a
\* save broke off, until they are set again.
CredentialsKept == Readable \subseteq stored /\ stored \ Readable \subseteq lost

=============================================================================

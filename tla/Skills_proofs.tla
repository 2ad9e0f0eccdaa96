--------------------------- MODULE Skills_proofs ---------------------------
(***************************************************************************)
(* Theorems about SkillStore and SkillRunner for all skills, credentials,  *)
(* setups, tool calls and limits: the migration of the credential file     *)
(* loses nothing, a turn gets the skills as they are on disk, what a run   *)
(* has done is accounted for and stays within its limits, and the results  *)
(* of its tools reach the model behind the calls that asked for them.      *)
(***************************************************************************)
EXTENDS SkillRunner, SkillStore, SequenceTheorems, FiniteSetTheorems,
        FunctionTheorems, WellFoundedInduction, TLAPS

\* What the credential variables and the command in creator.py may be.
SecretsType ==
    /\ store \in {NoFile, Torn} \/ store \subseteq Credentials
    /\ legacy = NoFile \/ legacy \subseteq Credentials
    /\ "op" \in DOMAIN creator

\* Until there is a new file, everything is in the old one.
OldHasAll == store = NoFile => stored = legacy \ NoFile

\* credentials.py gets to run only after an attempt to move the older file, if there was one.
MoveTried == creator.op = "called" /\ store = NoFile => legacy = NoFile \/ legacy \subseteq lost

\* Inductive: a first key that is set hides the old file, so that its keys must be given up.
SecretsInv == SecretsType /\ OldHasAll /\ MoveTried /\ CredentialsKept

\* A file of credentials is never taken for no file or for a torn one.
LEMMA KeysAreAFile ==
    ASSUME NEW keys, keys \subseteq Credentials
    PROVE  keys # NoFile /\ keys # Torn /\ keys \ NoFile = keys
    BY SkillStoreAssumption DEF NoFile, Torn

LEMMA TornIsAFile == Torn # NoFile
    BY DEF Torn, NoFile

\* The user starts with the file of older versions or with none.
LEMMA SecretsStart == StoreInit => SecretsInv
<1>. SUFFICES ASSUME StoreInit PROVE SecretsInv
    OBVIOUS
<1>1. PICK keys \in {NoFile} \cup (SUBSET Credentials) : legacy = keys /\ stored = keys \ NoFile
    BY DEF StoreInit
<1>2. store = NoFile /\ creator = Resting
    BY DEF StoreInit
<1>3. creator.op = "none" /\ "op" \in DOMAIN creator
    BY <1>2 DEF Resting
<1>4. Readable = stored
    BY <1>1, <1>2 DEF Readable
<1>. QED  BY <1>1, <1>2, <1>3, <1>4 DEF SecretsInv, SecretsType, OldHasAll, MoveTried, CredentialsKept

\* Steps that touch no credential keep the invariant unless they enter credentials.py.
LEMMA SecretsLeftAlone ==
    ASSUME SecretsInv, UNCHANGED secrets, "op" \in DOMAIN creator', creator'.op = "called" => creator.op = "called"
    PROVE  SecretsInv'
    BY DEF SecretsInv, SecretsType, OldHasAll, MoveTried, CredentialsKept, Readable, Visible, secrets

\* The old file moves, or is left with all its keys, which are then known to be at risk.
LEMMA CalledInv ==
    ASSUME SecretsInv, CreatorCalled PROVE SecretsInv'
<1>1. "op" \in DOMAIN creator' /\ stored' = stored
    BY DEF CreatorCalled, Resting
<1>2. CASE OnlyOld /\ store' = legacy /\ legacy' = NoFile /\ lost' = {}
  <2>1. stored = legacy \ NoFile /\ legacy \subseteq Credentials
      BY <1>2 DEF OnlyOld, SecretsInv, SecretsType, OldHasAll
  <2>2. stored = store' /\ store' # NoFile /\ store' # Torn
      BY <1>2, <2>1, KeysAreAFile
  <2>3. Readable' = stored'
      BY <1>1, <2>2 DEF Readable, Visible
  <2>. QED  BY <1>1, <1>2, <2>1, <2>2, <2>3 DEF SecretsInv, SecretsType, OldHasAll, MoveTried, CredentialsKept
<1>3. CASE OnlyOld /\ lost' = legacy /\ UNCHANGED <<legacy, store>>
  <2>1. Readable' = Readable /\ Readable = stored
      BY <1>3 DEF OnlyOld, SecretsInv, OldHasAll, Readable, Visible
  <2>. QED  BY <1>1, <1>3, <2>1 DEF SecretsInv, SecretsType, OldHasAll, MoveTried, CredentialsKept
<1>4. CASE ~OnlyOld /\ UNCHANGED <<legacy, store, lost>>
  <2>1. Readable' = Readable
      BY <1>4 DEF Readable, Visible
  <2>. QED  BY <1>1, <1>4, <2>1 DEF OnlyOld, SecretsInv, SecretsType, OldHasAll, MoveTried, CredentialsKept
<1>. QED  BY <1>2, <1>3, <1>4 DEF CreatorCalled, Migration

\* What credentials.py does not see has been given up.
LEMMA VisibleIsKept ==
    ASSUME SecretsInv, creator.op = "called"
    PROVE  Visible \subseteq Credentials /\ Visible \subseteq stored /\ stored \ Visible \subseteq lost
<1>1. CASE store = NoFile
  <2>1. stored = legacy \ NoFile /\ (legacy = NoFile \/ legacy \subseteq lost)
      BY <1>1 DEF SecretsInv, OldHasAll, MoveTried
  <2>. QED  BY <1>1, <2>1 DEF Visible
<1>2. CASE store # NoFile
  <2>1. Readable = Visible
      BY <1>2 DEF Readable
  <2>. QED  BY <1>2, <2>1 DEF SecretsInv, SecretsType, CredentialsKept, Visible
<1>. QED  BY <1>1, <1>2

\* A key that is set joins the others.
LEMMA SetInv ==
    ASSUME SecretsInv, NEW k \in Credentials, CmdSet(k) PROVE SecretsInv'
<1>1. creator.op = "called" /\ creator' = creator /\ legacy' = legacy
      /\ store' = Visible \cup {k} /\ stored' = stored \cup {k} /\ lost' = lost \ {k}
    BY DEF CmdSet
<1>2. Visible \subseteq Credentials /\ Visible \subseteq stored /\ stored \ Visible \subseteq lost
    BY <1>1, VisibleIsKept
<1>3. store' \subseteq Credentials /\ store' # NoFile /\ store' # Torn
    BY <1>1, <1>2, KeysAreAFile
<1>4. Readable' = Visible \cup {k}
    BY <1>1, <1>3 DEF Readable, Visible
<1>. QED  BY <1>1, <1>2, <1>3, <1>4 DEF SecretsInv, SecretsType, OldHasAll, MoveTried, CredentialsKept

\* A key that is deleted leaves the others; the file stays, be it empty.
LEMMA DeleteInv ==
    ASSUME SecretsInv, NEW k \in Credentials, CmdDelete(k) PROVE SecretsInv'
<1>1. creator.op = "called" /\ creator' = creator /\ legacy' = legacy /\ lost' = lost /\ k \in Visible
      /\ store' = store \ {k} /\ stored' = stored \ {k}
    BY DEF CmdDelete
<1>2. store = Visible
    BY <1>1 DEF Visible
<1>3. Visible \subseteq Credentials /\ Visible \subseteq stored /\ stored \ Visible \subseteq lost
    BY <1>1, VisibleIsKept
<1>4. store' \subseteq Credentials /\ store' # NoFile /\ store' # Torn
    BY <1>1, <1>2, <1>3, KeysAreAFile
<1>5. Readable' = Visible \ {k}
    BY <1>1, <1>2, <1>4 DEF Readable, Visible
<1>. QED  BY <1>1, <1>3, <1>4, <1>5 DEF SecretsInv, SecretsType, OldHasAll, MoveTried, CredentialsKept

\* A save that breaks off gives everything up.
LEMMA BreakOffInv ==
    ASSUME SecretsInv, SaveBreaksOff PROVE SecretsInv'
<1>1. creator' = Resting /\ legacy' = legacy /\ store' = Torn /\ stored' = stored /\ lost' = stored
    BY DEF SaveBreaksOff, Goes
<1>2. "op" \in DOMAIN creator' /\ creator'.op = "none"
    BY <1>1 DEF Resting
<1>3. Readable' = {}
    BY <1>1, TornIsAFile DEF Readable, Visible
<1>. QED  BY <1>1, <1>2, <1>3, TornIsAFile
          DEF SecretsInv, SecretsType, OldHasAll, MoveTried, CredentialsKept

\* The commands of creator.py and of the compiler, which read no credential.
CreatorMoves ==
    \/ \E n \in SkillNames, force \in BOOLEAN : CmdInit(n, force) \/ CmdCompile(n, force)
    \/ InitEnds \/ InitFails \/ CompileOpens \/ CompileWrites \/ CompileFails \/ CreatorLeaves

\* None of them goes on in credentials.py.
LEMMA CreatorMovesOn ==
    ASSUME SecretsInv, CreatorMoves
    PROVE  UNCHANGED secrets /\ "op" \in DOMAIN creator' /\ (creator'.op = "called" => creator.op = "called")
<1>1. ASSUME NEW n \in SkillNames, NEW force \in BOOLEAN, CmdInit(n, force)
      PROVE  UNCHANGED secrets /\ "op" \in DOMAIN creator' /\ creator'.op = "init"
    BY <1>1 DEF CmdInit, Resting
<1>2. ASSUME NEW n \in SkillNames, NEW force \in BOOLEAN, CmdCompile(n, force)
      PROVE  UNCHANGED secrets /\ "op" \in DOMAIN creator' /\ creator'.op = "compile"
    BY <1>2 DEF CmdCompile
<1>3. CASE InitEnds \/ InitFails \/ CompileWrites \/ CompileFails \/ CreatorLeaves
  <2>1. UNCHANGED secrets /\ creator' = Resting
      BY <1>3 DEF InitEnds, InitFails, CompileWrites, CompileFails, CreatorLeaves, Goes
  <2>. QED  BY <2>1 DEF Resting
<1>4. CASE CompileOpens
  <2>1. UNCHANGED secrets
      BY <1>4 DEF CompileOpens
  <2>2. PICK said : creator' = [creator EXCEPT !.said = said]
      BY <1>4 DEF CompileOpens
  <2>3. "op" \in DOMAIN creator
      BY DEF SecretsInv, SecretsType
  <2>4. "op" \in DOMAIN creator' /\ creator'.op = creator.op
      BY <2>2, <2>3
  <2>. QED  BY <2>1, <2>4
<1>. QED  BY <1>1, <1>2, <1>3, <1>4 DEF CreatorMoves

\* Everything else: files are edited, deleted, tested, loaded and run.
Elsewhere ==
    \/ \E n \in SkillNames : EditSkill(n) \/ DeleteSkill(n) \/ CmdTest(n) \/ Collect(n)
    \/ \E n \in SkillNames, path \in BOOLEAN : CodingWrites(n, path)
    \/ InitWrites \/ Attempt \/ TurnEnds

\* It leaves the credentials and the command alone.
LEMMA ElsewhereShape == Elsewhere => UNCHANGED <<secrets, creator>>
    BY DEF Elsewhere, EditSkill, DeleteSkill, CmdTest, Collect, CodingWrites, InitWrites, Attempt, TurnEnds

\* Every step is one of these.
LEMMA StoreSteps ==
    StoreNext => \/ CreatorMoves \/ Elsewhere \/ CreatorCalled \/ SaveBreaksOff
                 \/ \E k \in Credentials : CmdSet(k) \/ CmdDelete(k)
    BY DEF StoreNext, CreatorMoves, Elsewhere

\* Every step keeps the invariant.
LEMMA SecretsStep == SecretsInv /\ [StoreNext]_storeVars => SecretsInv'
<1>. SUFFICES ASSUME SecretsInv, [StoreNext]_storeVars PROVE SecretsInv'
    OBVIOUS
<1>1. "op" \in DOMAIN creator
    BY DEF SecretsInv, SecretsType
<1>2. CASE CreatorMoves
    BY <1>2, CreatorMovesOn, SecretsLeftAlone
<1>3. CASE Elsewhere
  <2>1. UNCHANGED <<secrets, creator>>
      BY <1>3, ElsewhereShape
  <2>. QED  BY <1>1, <2>1, SecretsLeftAlone
<1>4. CASE CreatorCalled \/ SaveBreaksOff
    BY <1>4, CalledInv, BreakOffInv
<1>5. ASSUME NEW k \in Credentials, CmdSet(k) \/ CmdDelete(k) PROVE SecretsInv'
    BY <1>5, SetInv, DeleteInv
<1>6. CASE UNCHANGED storeVars
  <2>1. UNCHANGED <<secrets, creator>>
      BY <1>6 DEF storeVars
  <2>. QED  BY <1>1, <2>1, SecretsLeftAlone
<1>. QED  BY <1>2, <1>3, <1>4, <1>5, <1>6, StoreSteps

\* No credential is lost, for any keys set and deleted before and after the migration, but for
\* those of an old file that could not be moved and of a save that broke off
\* (pawlia/credentials.py, skill-creator/scripts/credentials.py).
THEOREM NoCredentialLost == StoreSpec => []CredentialsKept
<1>1. SecretsInv => CredentialsKept
    BY DEF SecretsInv
<1>. QED  BY SecretsStart, SecretsStep, <1>1, PTL DEF StoreSpec

-----------------------------------------------------------------------------
(* A turn gets the skills as they are on disk *)

\* A workflow states the version it was made from, if the compiler's answer kept to it.
StatesItsOrigin(file) == file.at = "whole" /\ file.kept => file.version = CompiledAs(file.from)

\* A workflow that a skill of this version may follow, for what the workflow states.
FitsVersion(file, version) == file.at = "whole" => version \in {0, file.version}

\* The directories: none was modified in the future.
DirsType ==
    /\ clock \in Nat /\ DOMAIN disk = SkillNames
    /\ \A n \in SkillNames : /\ {"at", "mtime", "wf"} \subseteq DOMAIN disk[n]
                            /\ disk[n].mtime \in 0..clock /\ StatesItsOrigin(disk[n].wf)

\* The cache: it was not filled in the future.
CacheType ==
    /\ {"mtime", "skills"} \subseteq DOMAIN cache /\ cache.mtime \in Int /\ cache.mtime <= clock
    /\ DOMAIN cache.skills = SkillNames
    /\ \A n \in SkillNames : {"mtime", "version", "wf"} \subseteq DOMAIN cache.skills[n]

\* What was there when the cache was filled, and is still, is in it: whatever is made or
\* edited later is younger than the cache.
CachedAsOnDisk ==
    \A n \in SkillNames : Has(n) /\ disk[n].mtime <= cache.mtime => cache.skills[n].mtime = disk[n].mtime

\* A workflow that was read states its origin and the version it was read for.
ReadForVersion ==
    \A n \in SkillNames : /\ StatesItsOrigin(cache.skills[n].wf)
                          /\ FitsVersion(cache.skills[n].wf, cache.skills[n].version)

\* Commands and runs are about skills.
ActorsType ==
    /\ {"op", "n"} \subseteq DOMAIN creator /\ {"at", "n"} \subseteq DOMAIN turn
    /\ creator.op \in {"init", "compile"} => creator.n \in SkillNames
    /\ turn.at # "none" => turn.n \in SkillNames

\* Inductive: one modification time is enough to tell a cache that is out of date.
LoadInv == DirsType /\ CacheType /\ CachedAsOnDisk /\ ReadForVersion /\ ActorsType

\* A set of numbers below a bound has a greatest one.
LEMMA MaxOfBounded ==
    ASSUME NEW S, NEW c \in Nat, S \subseteq 0..c, S # {}
    PROVE  Max(S) \in S /\ \A x \in S : x <= Max(S)
<1>. DEFINE D == {c - x : x \in S}
<1>1. D \subseteq Nat /\ D # {}
  <2>1. PICK x \in S : TRUE
      OBVIOUS
  <2>2. c - x \in D
      OBVIOUS
  <2>3. \A y \in S : c - y \in Nat
      OBVIOUS
  <2>. QED  BY <2>2, <2>3
<1>. DEFINE Less == OpToRel(<, Nat)
<1>2. IsWellFoundedOn(Less, Nat)
    BY NatLessThanWellFounded
<1>. HIDE DEF Less
<1>3. PICK d \in D : \A e \in D : ~(<<e, d>> \in Less)
    BY <1>1, <1>2, WFMin
<1>4. \A m, n \in Nat : m < n => <<m, n>> \in Less
    BY DEF Less, OpToRel
<1>5. PICK x \in S : d = c - x
    OBVIOUS
<1>6. \A y \in S : x >= y
  <2>1. ASSUME NEW y \in S PROVE x >= y
    <3>1. c - y \in D
        OBVIOUS
    <3>2. ~(c - y < c - x)
        BY <1>1, <1>3, <1>4, <1>5, <3>1
    <3>. QED  BY <3>2
  <2>. QED  BY <2>1
<1>. QED  BY <1>6 DEF Max

\* _workspace_skills_mtime is no less than the time of any skill and not in the future.
LEMMA NewestIsNewest ==
    ASSUME DirsType
    PROVE  /\ NewestSkill \in Int /\ NewestSkill <= clock
           /\ \A n \in SkillNames : Has(n) => disk[n].mtime <= NewestSkill
<1>. DEFINE S == {0} \cup {disk[n].mtime : n \in {m \in SkillNames : Has(m)}}
<1>1. S \subseteq 0..clock /\ S # {} /\ clock \in Nat
    BY DEF DirsType
<1>2. \A n \in SkillNames : Has(n) => disk[n].mtime \in S
    OBVIOUS
<1>3. NewestSkill = Max(S)
    BY DEF NewestSkill
<1>. HIDE DEF S
<1>4. Max(S) \in S /\ \A x \in S : x <= Max(S)
    BY <1>1, MaxOfBounded
<1>5. NewestSkill \in 0..clock
    BY <1>1, <1>3, <1>4
<1>6. ASSUME NEW n \in SkillNames, Has(n) PROVE disk[n].mtime <= NewestSkill
    BY <1>2, <1>3, <1>4, <1>6
<1>. QED  BY <1>1, <1>5, <1>6

-----------------------------------------------------------------------------
(* What a step may do to a directory *)

\* A directory that is no skill, one just written, or the skill that was there.
Comes(old, new, then, now) ==
    /\ {"at", "mtime", "wf"} \subseteq DOMAIN new /\ new.mtime \in 0..now /\ StatesItsOrigin(new.wf)
    /\ new.at = "ready" => new.mtime > then \/ (old.at = "ready" /\ new.mtime = old.mtime)

\* Such a step leaves the cache no more out of date than its time tells.
LEMMA DirMoves ==
    ASSUME LoadInv, NEW n \in SkillNames, NEW d, disk' = [disk EXCEPT ![n] = d],
           clock' \in Nat, clock <= clock', Comes(disk[n], d, clock, clock'),
           UNCHANGED <<cache, turn>>, ActorsType'
    PROVE  LoadInv'
<1>1. DOMAIN disk = SkillNames /\ clock \in Nat
      /\ \A m \in SkillNames : /\ {"at", "mtime", "wf"} \subseteq DOMAIN disk[m]
                              /\ disk[m].mtime \in 0..clock /\ StatesItsOrigin(disk[m].wf)
    BY DEF LoadInv, DirsType
<1>2. disk'[n] = d /\ \A m \in SkillNames \ {n} : disk'[m] = disk[m]
    BY <1>1
<1>3. DirsType'
    BY <1>1, <1>2 DEF DirsType, Comes
<1>4. CacheType' /\ ReadForVersion'
    BY <1>1 DEF LoadInv, CacheType, ReadForVersion
<1>5. CachedAsOnDisk'
  <2>1. SUFFICES ASSUME NEW m \in SkillNames, Has(m)', disk'[m].mtime <= cache.mtime
                 PROVE  cache.skills[m].mtime = disk'[m].mtime
      BY DEF CachedAsOnDisk
  <2>2. cache.mtime \in Int /\ cache.mtime <= clock
      BY DEF LoadInv, CacheType
  <2>3. Has(m) /\ disk'[m].mtime = disk[m].mtime
    <3>1. CASE m = n
        BY <1>1, <1>2, <2>1, <2>2, <3>1 DEF Comes, Has
    <3>2. CASE m # n
        BY <1>2, <2>1, <3>2 DEF Has
    <3>. QED  BY <3>1, <3>2
  <2>. QED  BY <2>1, <2>3 DEF LoadInv, CachedAsOnDisk
<1>. QED  BY <1>3, <1>4, <1>5 DEF LoadInv

\* A step that touches neither files nor cache only has to keep the actors' records.
LEMMA FilesRest ==
    ASSUME LoadInv, UNCHANGED <<files, cache>>, ActorsType' PROVE LoadInv'
    BY DEF LoadInv, DirsType, CacheType, CachedAsOnDisk, ReadForVersion, files, Has

-----------------------------------------------------------------------------
(* Each action *)

\* What the actors' records are while no run begins or goes on.
LEMMA ActorsRest ==
    ASSUME LoadInv, UNCHANGED <<cache, turn>>, creator' = creator \/ creator' = Resting
    PROVE  ActorsType'
<1>1. {"op", "n"} \subseteq DOMAIN Resting /\ Resting.op = "none"
    BY DEF Resting
<1>. QED  BY <1>1 DEF LoadInv, ActorsType

\* cmd_init makes a directory that is no skill yet.
LEMMA InitLoad ==
    ASSUME LoadInv, NEW n \in SkillNames, NEW force, CmdInit(n, force) PROVE LoadInv'
<1>. DEFINE d == [NoDir EXCEPT !.at = "partial"]
            c == [Resting EXCEPT !.op = "init", !.n = n]
<1>1. disk' = [disk EXCEPT ![n] = d] /\ creator' = c /\ UNCHANGED <<clock, cache, turn>>
    BY DEF CmdInit
<1>2. {"at", "mtime", "wf"} \subseteq DOMAIN d /\ d.at = "partial" /\ d.mtime = 0 /\ StatesItsOrigin(d.wf)
    BY DEF NoDir, NoWorkflow, StatesItsOrigin
<1>3. {"op", "n"} \subseteq DOMAIN c /\ c.n = n
    BY DEF Resting
<1>. HIDE DEF d, c
<1>4. ActorsType'
    BY <1>1, <1>3 DEF LoadInv, ActorsType
<1>5. clock \in Nat /\ clock' \in Nat /\ clock <= clock'
    BY <1>1 DEF LoadInv, DirsType
<1>6. Comes(disk[n], d, clock, clock')
    BY <1>2, <1>5 DEF Comes
<1>. QED  BY <1>1, <1>4, <1>5, <1>6, DirMoves

\* SKILL.md is written, or edited: either way it is younger than the cache.
LEMMA WriteLoad ==
    ASSUME LoadInv, NEW n \in SkillNames, NEW d, {"at", "mtime", "wf"} \subseteq DOMAIN d, d.mtime = clock',
           d.wf = disk[n].wf, disk' = [disk EXCEPT ![n] = d], Tick, UNCHANGED <<cache, creator, turn>>
    PROVE  LoadInv'
<1>1. clock \in Nat /\ clock' \in Nat /\ clock < clock' /\ clock <= clock'
    BY DEF LoadInv, DirsType, Tick
<1>2. StatesItsOrigin(d.wf)
    BY DEF LoadInv, DirsType
<1>3. Comes(disk[n], d, clock, clock')
    BY <1>1, <1>2 DEF Comes
<1>4. ActorsType'
    BY ActorsRest
<1>. QED  BY <1>1, <1>3, <1>4, DirMoves

LEMMA InitWritesLoad ==
    ASSUME LoadInv, InitWrites PROVE LoadInv'
<1>. DEFINE n == creator.n
            d == [disk[n] EXCEPT !.at = "ready", !.version = 1, !.mtime = clock']
<1>1. n \in SkillNames
    BY DEF InitWrites, LoadInv, ActorsType
<1>2. disk' = [disk EXCEPT ![n] = d] /\ Tick /\ UNCHANGED <<cache, creator, turn>>
    BY DEF InitWrites
<1>3. {"at", "mtime", "wf"} \subseteq DOMAIN disk[n]
    BY <1>1 DEF LoadInv, DirsType
<1>4. {"at", "mtime", "wf"} \subseteq DOMAIN d /\ d.mtime = clock' /\ d.wf = disk[n].wf
    BY <1>3
<1>. HIDE DEF n, d
<1>. QED  BY <1>1, <1>2, <1>4, WriteLoad

LEMMA EditLoad ==
    ASSUME LoadInv, NEW n \in SkillNames, EditSkill(n) PROVE LoadInv'
<1>1. PICK v : disk' = [disk EXCEPT ![n] = [disk[n] EXCEPT !.version = v, !.mtime = clock']]
    BY DEF EditSkill
<1>. DEFINE d == [disk[n] EXCEPT !.version = v, !.mtime = clock']
<1>2. {"at", "mtime", "wf"} \subseteq DOMAIN disk[n]
    BY DEF LoadInv, DirsType
<1>3. {"at", "mtime", "wf"} \subseteq DOMAIN d /\ d.mtime = clock' /\ d.wf = disk[n].wf
    BY <1>2
<1>4. Tick /\ UNCHANGED <<cache, creator, turn>>
    BY DEF EditSkill
<1>5. disk' = [disk EXCEPT ![n] = d]
    BY <1>1
<1>. HIDE DEF d
<1>. QED  BY <1>3, <1>4, <1>5, WriteLoad

\* A directory goes: it is deleted, or its making fails.
LEMMA GoneLoad ==
    ASSUME LoadInv, NEW n \in SkillNames, disk' = [disk EXCEPT ![n] = NoDir],
           UNCHANGED <<clock, cache, turn>>, creator' = creator \/ creator' = Resting
    PROVE  LoadInv'
<1>1. {"at", "mtime", "wf"} \subseteq DOMAIN NoDir /\ NoDir.at = "absent" /\ NoDir.mtime = 0
      /\ StatesItsOrigin(NoDir.wf)
    BY DEF NoDir, NoWorkflow, StatesItsOrigin
<1>2. clock \in Nat /\ clock' \in Nat /\ clock <= clock'
    BY DEF LoadInv, DirsType
<1>3. Comes(disk[n], NoDir, clock, clock')
    BY <1>1, <1>2 DEF Comes
<1>4. ActorsType'
    BY ActorsRest
<1>. QED  BY <1>2, <1>3, <1>4, DirMoves

\* A skill stays as it is, but for its workflow or its harness.
LEMMA TouchLoad ==
    ASSUME LoadInv, NEW n \in SkillNames, NEW d, {"at", "mtime", "wf"} \subseteq DOMAIN d,
           d.at = disk[n].at, d.mtime = disk[n].mtime, StatesItsOrigin(d.wf), disk' = [disk EXCEPT ![n] = d],
           UNCHANGED <<clock, cache, turn>>, ActorsType'
    PROVE  LoadInv'
<1>1. clock' \in Nat /\ clock <= clock' /\ disk[n].mtime \in 0..clock'
    BY DEF LoadInv, DirsType
<1>2. Comes(disk[n], d, clock, clock')
    BY <1>1 DEF Comes
<1>. QED  BY <1>1, <1>2, DirMoves

LEMMA CodingLoad ==
    ASSUME LoadInv, NEW n \in SkillNames, NEW path, CodingWrites(n, path) PROVE LoadInv'
<1>. DEFINE d == [disk[n] EXCEPT !.harness = @ \/ path]
<1>1. disk' = [disk EXCEPT ![n] = d] /\ UNCHANGED <<clock, cache, creator, turn>>
    BY DEF CodingWrites
<1>2. {"at", "mtime", "wf"} \subseteq DOMAIN disk[n] /\ StatesItsOrigin(disk[n].wf)
    BY DEF LoadInv, DirsType
<1>3. {"at", "mtime", "wf"} \subseteq DOMAIN d /\ d.at = disk[n].at /\ d.mtime = disk[n].mtime /\ d.wf = disk[n].wf
    BY <1>2
<1>4. ActorsType'
    BY <1>1, ActorsRest
<1>. HIDE DEF d
<1>. QED  BY <1>1, <1>2, <1>3, <1>4, TouchLoad

\* The compiler writes workflow.yaml.
LEMMA WorkflowLoad ==
    ASSUME LoadInv, NEW n \in SkillNames, NEW file, StatesItsOrigin(file), disk' = [disk EXCEPT ![n].wf = file],
           UNCHANGED <<clock, cache, turn>>, ActorsType'
    PROVE  LoadInv'
<1>. DEFINE d == [disk[n] EXCEPT !.wf = file]
<1>1. disk' = [disk EXCEPT ![n] = d]
    OBVIOUS
<1>2. {"at", "mtime", "wf"} \subseteq DOMAIN disk[n]
    BY DEF LoadInv, DirsType
<1>3. {"at", "mtime", "wf"} \subseteq DOMAIN d /\ d.at = disk[n].at /\ d.mtime = disk[n].mtime /\ d.wf = file
    BY <1>2
<1>. HIDE DEF d
<1>. QED  BY <1>1, <1>3, TouchLoad

LEMMA CompileOpensLoad ==
    ASSUME LoadInv, CompileOpens PROVE LoadInv'
<1>1. creator.n \in SkillNames /\ {"op", "n"} \subseteq DOMAIN creator
    BY DEF CompileOpens, LoadInv, ActorsType
<1>2. PICK said : creator' = [creator EXCEPT !.said = said]
    BY DEF CompileOpens
<1>3. DOMAIN creator' = DOMAIN creator /\ creator'.op = creator.op /\ creator'.n = creator.n
    BY <1>1, <1>2
<1>. DEFINE file == [NoWorkflow EXCEPT !.at = "partial"]
<1>4. UNCHANGED <<clock, cache, turn>> /\ disk' = [disk EXCEPT ![creator.n].wf = file]
    BY DEF CompileOpens
<1>5. ActorsType'
    BY <1>1, <1>3, <1>4 DEF LoadInv, ActorsType
<1>6. StatesItsOrigin(file)
    BY DEF StatesItsOrigin, NoWorkflow
<1>. HIDE DEF file
<1>. QED  BY <1>1, <1>4, <1>5, <1>6, WorkflowLoad

LEMMA CompileWritesLoad ==
    ASSUME LoadInv, CompileWrites PROVE LoadInv'
<1>1. creator.n \in SkillNames
    BY DEF CompileWrites, LoadInv, ActorsType
<1>. DEFINE file == [at |-> "whole", version |-> creator.said, from |-> creator.version,
                     kept |-> creator.said = CompiledAs(creator.version)]
<1>2. UNCHANGED <<clock, cache, turn>> /\ creator' = Resting
      /\ disk' = [disk EXCEPT ![creator.n].wf = file]
    BY DEF CompileWrites, Stated, Goes
<1>3. ActorsType'
    BY <1>2, ActorsRest
<1>4. StatesItsOrigin(file)
    BY DEF StatesItsOrigin
<1>. HIDE DEF file
<1>. QED  BY <1>1, <1>2, <1>3, <1>4, WorkflowLoad

\* Steps that leave the skills and the runs alone.
QuietMoves ==
    \/ InitEnds \/ CompileFails \/ CreatorCalled \/ CreatorLeaves \/ SaveBreaksOff
    \/ \E k \in Credentials : CmdSet(k) \/ CmdDelete(k)
    \/ \E n \in SkillNames : CmdTest(n) \/ \E force \in BOOLEAN : CmdCompile(n, force)

LEMMA QuietLoad == ASSUME LoadInv, QuietMoves PROVE LoadInv'
<1>1. UNCHANGED <<files, cache, turn>>
    BY DEF QuietMoves, InitEnds, CompileFails, CreatorCalled, CreatorLeaves, SaveBreaksOff, CmdSet, CmdDelete,
           CmdTest, CmdCompile
<1>2. ActorsType'
  <2>1. CASE \E n \in SkillNames, force \in BOOLEAN : CmdCompile(n, force)
    <3>1. PICK n, v : /\ n \in SkillNames
                       /\ creator' = [op |-> "compile", n |-> n, version |-> v, said |-> 0]
        BY <2>1 DEF CmdCompile
    <3>2. {"op", "n"} \subseteq DOMAIN creator' /\ creator'.n \in SkillNames
        BY <3>1
    <3>. QED  BY <1>1, <3>2 DEF LoadInv, ActorsType
  <2>2. CASE CreatorCalled
    <3>1. creator' = [Resting EXCEPT !.op = "called"]
        BY <2>2 DEF CreatorCalled
    <3>2. {"op", "n"} \subseteq DOMAIN creator' /\ creator'.op = "called"
        BY <3>1 DEF Resting
    <3>. QED  BY <1>1, <3>2 DEF LoadInv, ActorsType
  <2>3. CASE creator' = creator \/ creator' = Resting
      BY <1>1, <2>3, ActorsRest
  <2>. QED  BY <2>1, <2>2, <2>3
            DEF QuietMoves, InitEnds, CompileFails, CreatorLeaves, SaveBreaksOff, CmdSet, CmdDelete, CmdTest, Goes
<1>. QED  BY <1>1, <1>2, FilesRest

\* A turn is over.
LEMMA TurnEndsLoad == ASSUME LoadInv, TurnEnds PROVE LoadInv'
<1>1. UNCHANGED <<files, cache, creator>> /\ turn' = NoTurn
    BY DEF TurnEnds
<1>2. {"at", "n"} \subseteq DOMAIN NoTurn /\ NoTurn.at = "none"
    BY DEF NoTurn
<1>. QED  BY <1>1, <1>2, FilesRest DEF LoadInv, ActorsType

\* The making of a skill fails.
LEMMA InitFailsLoad == ASSUME LoadInv, InitFails PROVE LoadInv'
<1>1. creator.n \in SkillNames
    BY DEF InitFails, LoadInv, ActorsType
<1>2. UNCHANGED <<clock, cache, turn>> /\ creator' = Resting
    BY DEF InitFails, Goes
<1>3. CASE disk' = [disk EXCEPT ![creator.n] = NoDir]
    BY <1>1, <1>2, <1>3, GoneLoad
<1>4. CASE disk' = disk
  <2>1. ActorsType'
      BY <1>2, ActorsRest
  <2>. QED  BY <1>2, <1>4, <2>1, FilesRest DEF files
<1>. QED  BY <1>3, <1>4 DEF InitFails

\* What a turn collects: the instructions of every skill there is.
LEMMA CollectedCurrent ==
    ASSUME LoadInv, NEW n \in SkillNames, Collect(n)
    PROVE  /\ CacheType' /\ ReadForVersion'
           /\ \A m \in SkillNames : Has(m) => cache'.skills[m].mtime = disk[m].mtime
<1>1. NewestSkill \in Int /\ NewestSkill <= clock
      /\ \A m \in SkillNames : Has(m) => disk[m].mtime <= NewestSkill
    BY NewestIsNewest DEF LoadInv
<1>2. clock' = clock /\ disk' = disk
    BY DEF Collect, files
<1>3. CASE cache.mtime = NewestSkill
  <2>1. cache' = cache
      BY <1>3 DEF Collect
  <2>. QED  BY <1>1, <1>2, <1>3, <2>1 DEF LoadInv, CacheType, ReadForVersion, CachedAsOnDisk
<1>4. CASE cache.mtime # NewestSkill
  <2>1. cache' = [mtime |-> NewestSkill, skills |-> Discovered]
      BY <1>4 DEF Collect
  <2>2. {"mtime", "skills"} \subseteq DOMAIN cache' /\ cache'.mtime = NewestSkill /\ cache'.skills = Discovered
      BY <2>1
  <2>3. ASSUME NEW m \in SkillNames
        PROVE  /\ {"mtime", "version", "wf"} \subseteq DOMAIN Discovered[m]
               /\ Discovered[m].wf.at # "whole"
               /\ Has(m) => Discovered[m].mtime = disk[m].mtime
      BY DEF Discovered, NoSkill, NoWorkflow
  <2>4. DOMAIN Discovered = SkillNames
      BY DEF Discovered
  <2>. QED  BY <1>1, <1>2, <2>2, <2>3, <2>4 DEF CacheType, ReadForVersion, StatesItsOrigin, FitsVersion
<1>. QED  BY <1>3, <1>4

LEMMA CollectLoad == ASSUME LoadInv, NEW n \in SkillNames, Collect(n) PROVE LoadInv'
<1>1. UNCHANGED <<files, creator>> /\ turn' = [at |-> "called", n |-> n]
    BY DEF Collect
<1>2. DirsType'
    BY <1>1 DEF LoadInv, DirsType, files
<1>3. CachedAsOnDisk'
    BY <1>1, CollectedCurrent DEF CachedAsOnDisk, Has, files
<1>4. {"at", "n"} \subseteq DOMAIN turn' /\ turn'.at = "called" /\ turn'.n = n
    BY <1>1
<1>5. ActorsType'
    BY <1>1, <1>4 DEF LoadInv, ActorsType
<1>. QED  BY <1>2, <1>3, <1>5, CollectedCurrent DEF LoadInv

\* The workflow an attempt follows: none or that of its skill's version.
Followed ==
    LET skill == cache.skills[turn.n]
    IN  IF skill.wf.at = "unread" THEN LoadedWorkflow(skill, disk[turn.n].wf) ELSE skill.wf

LEMMA AttemptShape ==
    ASSUME LoadInv, Attempt
    PROVE  /\ StatesItsOrigin(Followed) /\ FitsVersion(Followed, cache.skills[turn.n].version)
           /\ cache' = [cache EXCEPT !.skills[turn.n].wf = Followed]
           /\ turn' = [turn EXCEPT !.at = "running"]
<1>. DEFINE skill == cache.skills[turn.n]
            loaded == LoadedWorkflow(skill, disk[turn.n].wf)
<1>1. turn.n \in SkillNames
    BY DEF Attempt, LoadInv, ActorsType
<1>2. StatesItsOrigin(disk[turn.n].wf)
    BY <1>1 DEF LoadInv, DirsType
<1>3. StatesItsOrigin(loaded) /\ FitsVersion(loaded, skill.version)
    BY <1>2 DEF LoadedWorkflow, NoWorkflow, StatesItsOrigin, FitsVersion
<1>4. StatesItsOrigin(skill.wf) /\ FitsVersion(skill.wf, skill.version)
    BY <1>1 DEF LoadInv, ReadForVersion
<1>5. StatesItsOrigin(Followed) /\ FitsVersion(Followed, skill.version)
    BY <1>3, <1>4 DEF Followed
<1>. QED  BY <1>5 DEF Attempt, Followed

LEMMA AttemptLoad == ASSUME LoadInv, Attempt PROVE LoadInv'
<1>. DEFINE followed == Followed
<1>1. /\ StatesItsOrigin(followed) /\ FitsVersion(followed, cache.skills[turn.n].version)
      /\ cache' = [cache EXCEPT !.skills[turn.n].wf = followed]
      /\ turn' = [turn EXCEPT !.at = "running"]
    BY AttemptShape
<1>. HIDE DEF followed
<1>2. turn.n \in SkillNames /\ {"at", "n"} \subseteq DOMAIN turn
    BY DEF Attempt, LoadInv, ActorsType
<1>3. {"at", "n"} \subseteq DOMAIN turn' /\ turn'.n = turn.n
    BY <1>1, <1>2
<1>4. UNCHANGED <<files, creator>>
    BY DEF Attempt
<1>5. {"mtime", "skills"} \subseteq DOMAIN cache /\ DOMAIN cache.skills = SkillNames
      /\ \A m \in SkillNames : {"mtime", "version", "wf"} \subseteq DOMAIN cache.skills[m]
    BY DEF LoadInv, CacheType
<1>6. /\ {"mtime", "skills"} \subseteq DOMAIN cache' /\ cache'.mtime = cache.mtime
      /\ DOMAIN cache'.skills = SkillNames
      /\ \A m \in SkillNames \ {turn.n} : cache'.skills[m] = cache.skills[m]
      /\ cache'.skills[turn.n] = [cache.skills[turn.n] EXCEPT !.wf = followed]
    BY <1>1, <1>2, <1>5
<1>7. /\ {"mtime", "version", "wf"} \subseteq DOMAIN cache'.skills[turn.n]
      /\ cache'.skills[turn.n].wf = followed /\ cache'.skills[turn.n].mtime = cache.skills[turn.n].mtime
      /\ cache'.skills[turn.n].version = cache.skills[turn.n].version
    BY <1>2, <1>5, <1>6
<1>8. DirsType' /\ CacheType'
    BY <1>4, <1>5, <1>6, <1>7 DEF LoadInv, DirsType, CacheType, files
<1>9. CachedAsOnDisk'
    BY <1>4, <1>6, <1>7 DEF LoadInv, CachedAsOnDisk, Has, files
<1>10. ReadForVersion'
    BY <1>1, <1>6, <1>7 DEF LoadInv, ReadForVersion
<1>11. ActorsType'
    BY <1>2, <1>3, <1>4 DEF LoadInv, ActorsType
<1>. QED  BY <1>8, <1>9, <1>10, <1>11 DEF LoadInv

-----------------------------------------------------------------------------
(* The invariant and what it gives *)

\* Nothing has been made, and the cache is older than anything.
LEMMA LoadStart == StoreInit => LoadInv
<1>. SUFFICES ASSUME StoreInit PROVE LoadInv
    OBVIOUS
<1>1. DirsType
    BY DEF StoreInit, DirsType, NoDir, NoWorkflow, StatesItsOrigin
<1>2. CacheType /\ ReadForVersion
    BY DEF StoreInit, CacheType, ReadForVersion, NoSkill, NoWorkflow, StatesItsOrigin, FitsVersion
<1>3. CachedAsOnDisk
    BY DEF StoreInit, CachedAsOnDisk, Has, NoDir
<1>4. creator = Resting /\ turn = NoTurn
    BY DEF StoreInit
<1>5. ActorsType
    BY <1>4 DEF ActorsType, Resting, NoTurn
<1>. QED  BY <1>1, <1>2, <1>3, <1>5 DEF LoadInv

\* Every step keeps it.
LEMMA LoadStep == LoadInv /\ [StoreNext]_storeVars => LoadInv'
<1>. SUFFICES ASSUME LoadInv, [StoreNext]_storeVars PROVE LoadInv'
    OBVIOUS
<1>1. ASSUME NEW n \in SkillNames, NEW force, CmdInit(n, force) PROVE LoadInv'
    BY <1>1, InitLoad
<1>2. ASSUME NEW n \in SkillNames, NEW path, CodingWrites(n, path) PROVE LoadInv'
    BY <1>2, CodingLoad
<1>3. ASSUME NEW n \in SkillNames, EditSkill(n) PROVE LoadInv'
    BY <1>3, EditLoad
<1>4. ASSUME NEW n \in SkillNames, DeleteSkill(n) PROVE LoadInv'
  <2>1. disk' = [disk EXCEPT ![n] = NoDir] /\ UNCHANGED <<clock, cache, creator, turn>>
      BY <1>4 DEF DeleteSkill
  <2>. QED  BY <2>1, GoneLoad
<1>5. ASSUME NEW n \in SkillNames, Collect(n) PROVE LoadInv'
    BY <1>5, CollectLoad
<1>6. CASE QuietMoves
    BY <1>6, QuietLoad
<1>7. CASE InitWrites \/ InitFails
    BY <1>7, InitWritesLoad, InitFailsLoad
<1>8. CASE CompileOpens \/ CompileWrites
    BY <1>8, CompileOpensLoad, CompileWritesLoad
<1>9. CASE Attempt \/ TurnEnds
    BY <1>9, AttemptLoad, TurnEndsLoad
<1>10. CASE UNCHANGED storeVars
  <2>1. UNCHANGED <<files, cache, creator, turn>>
      BY <1>10 DEF storeVars
  <2>2. ActorsType'
      BY <2>1, ActorsRest
  <2>. QED  BY <2>1, <2>2, FilesRest
<1>. QED  BY <1>1, <1>2, <1>3, <1>4, <1>5, <1>6, <1>7, <1>8, <1>9, <1>10 DEF StoreNext, QuietMoves

\* What a step may do to the run and to what it is given.
Current ==
    /\ turn.at = "none" /\ turn'.at = "called" =>
           \A n \in SkillNames : Has(n) => cache'.skills[n].mtime = disk[n].mtime
    /\ turn.at = "called" /\ turn'.at = "running" =>
           MadeFor(cache'.skills[turn.n].wf, cache.skills[turn.n].version)

LEMMA StepsCurrent == LoadInv /\ [StoreNext]_storeVars => [Current]_storeVars
<1>. SUFFICES ASSUME LoadInv, [StoreNext]_storeVars PROVE Current \/ UNCHANGED storeVars
    OBVIOUS
<1>1. ASSUME NEW n \in SkillNames, Collect(n) PROVE Current
  <2>1. turn' = [at |-> "called", n |-> n]
      BY <1>1 DEF Collect
  <2>2. turn'.at = "called"
      BY <2>1
  <2>. QED  BY <1>1, <2>2, CollectedCurrent DEF Current
<1>2. CASE Attempt
  <2>1. PICK followed : /\ StatesItsOrigin(followed) /\ FitsVersion(followed, cache.skills[turn.n].version)
                        /\ cache' = [cache EXCEPT !.skills[turn.n].wf = followed]
      BY <1>2, AttemptShape
  <2>2. turn.at = "called" /\ turn.n \in SkillNames
      BY <1>2 DEF Attempt, LoadInv, ActorsType
  <2>3. {"mtime", "skills"} \subseteq DOMAIN cache /\ DOMAIN cache.skills = SkillNames
        /\ "wf" \in DOMAIN cache.skills[turn.n]
      BY <2>2 DEF LoadInv, CacheType
  <2>4. cache'.skills[turn.n].wf = followed
      BY <2>1, <2>2, <2>3
  <2>5. MadeFor(followed, cache.skills[turn.n].version)
      BY <2>1 DEF MadeFor, StatesItsOrigin, FitsVersion
  <2>. QED  BY <2>2, <2>4, <2>5 DEF Current
<1>3. CASE TurnEnds
  <2>1. turn'.at = "none"
      BY <1>3 DEF TurnEnds, NoTurn
  <2>. QED  BY <2>1 DEF Current
<1>4. CASE turn' = turn
    BY <1>4 DEF Current, LoadInv, ActorsType
<1>5. StoreNext => (\E n \in SkillNames : Collect(n)) \/ Attempt \/ TurnEnds \/ turn' = turn
    BY DEF StoreNext, CmdInit, CmdCompile, EditSkill, DeleteSkill, CodingWrites, CmdTest, InitWrites, InitEnds,
           InitFails, CompileOpens, CompileWrites, CompileFails, CreatorCalled, CreatorLeaves, CmdSet, CmdDelete,
           SaveBreaksOff
<1>. QED  BY <1>1, <1>2, <1>3, <1>4, <1>5

\* A turn gets the instructions of every skill as they are on disk, and the run of a skill with
\* a version follows a workflow that was compiled from instructions of that version unless
\* the compiler's answer stated another, for any skills, edits, deletions and compilations
\* (_workspace_skills_mtime in pawlia/app.py, AgentSkill.workflow in skills/loader.py).
THEOREM SkillsAreCurrent == StoreSpec => InstructionsCurrent
<1>1. StoreSpec => []LoadInv
    BY LoadStart, LoadStep, PTL DEF StoreSpec
<1>2. StoreSpec => [][Current]_storeVars
    BY <1>1, StepsCurrent, PTL DEF StoreSpec
<1>. QED  BY <1>2, PTL DEF InstructionsCurrent, Current

(***************************************************************************)
(* A run of a skill                                                        *)
(***************************************************************************)
Requesters == {"first", "loop", "final", "command"}

WorkflowFields == {"step", "last", "directives", "wordless", "unheard"}

\* What the record variables of a run are used for.
RunType ==
    /\ {"attempt", "directives", "crashes"} \subseteq DOMAIN run
    /\ {"by", "retries"} \subseteq DOMAIN req
    /\ WorkflowFields \subseteq DOMAIN wf
    /\ {"executed", "ran", "emitted", "blocks", "stopped", "compacted"} \subseteq DOMAIN seen
    /\ run.directives \in Nat /\ wf.directives \in Nat /\ wf.unheard \in Nat /\ seen.emitted \in Nat

InWorkflow == pc \in {"workflow", "blocks"}

\* The directives of the workflow under way are not yet those of the run.
Pending == IF InWorkflow THEN wf.directives ELSE 0

\* While a run goes on, the directives it has collected are those that were printed, but for
\* those of recovery commands.
DirectivesCounted ==
    pc \notin {"done", "raised"} => (run.directives + Pending) + wf.unheard = seen.emitted

\* An answer goes to the mode that asked, a block that ran has left its output, no recovery
\* command runs but for a block, and no directive was printed before the first attempt.
PlacesKnown ==
    /\ pc = "request" => req.by \in Requesters
    /\ InWorkflow /\ seen.blocks => wf.last # ""
    /\ ~seen.blocks => wf.unheard = 0
    /\ pc = "start" => run.directives = 0

\* Inductive: what EffectsAccountedFor says of the end of a run, and what holds before it.
RunInv == RunType /\ DirectivesCounted /\ PlacesKnown /\ EffectsAccountedFor

\* A mode that has collected n directives of its own is over: the next mode or attempt
\* follows if it has collected none, or the run returns them with the earlier ones.
HandsOver(n) ==
    \/ pc' = "request" /\ n = 0 /\ run' = run /\ req' \in [by : Requesters, retries : {0}]
    \/ pc' = "attempt" /\ n = 0 /\ req' = req /\ run' = [run EXCEPT !.attempt = @ + 1]
    \/ pc' = "done" /\ req' = req /\ run' = run /\ result'.directives = n + run.directives

LEMMA AttemptHandsOver ==
    ASSUME NEW text, NEW n, AttemptReturns(text, n)
    PROVE  /\ HandsOver(n)
           /\ text # "empty" \/ n # 0 => pc' = "done" /\ result'.text = text
<1>1. CASE text = "empty" /\ n = 0 /\ run.attempt < MaxRetries
    BY <1>1 DEF AttemptReturns, HandsOver
<1>2. CASE ~(text = "empty" /\ n = 0 /\ run.attempt < MaxRetries)
  <2>1. /\ pc' = "done" /\ run' = run /\ req' = req
        /\ result' = [text |-> text, directives |-> n + run.directives]
      BY <1>2 DEF AttemptReturns
  <2>. QED  BY <2>1 DEF HandsOver
<1>. QED  BY <1>1, <1>2

LEMMA AskHandsOver ==
    ASSUME NEW by \in Requesters, NEW ms, Ask(by, ms), run' = run PROVE HandsOver(0)
    BY DEF Ask, HandsOver

LEMMA ToolModeHandsOver ==
    ASSUME NEW text, ToolModeReturns(text)
    PROVE  HandsOver(0) /\ (text # "empty" => pc' = "done" /\ result'.text = text)
<1>1. CASE text = "empty" /\ setup.fallback
    BY <1>1, AskHandsOver DEF ToolModeReturns, Requesters
<1>2. CASE ~(text = "empty" /\ setup.fallback)
    BY <1>2, AttemptHandsOver DEF ToolModeReturns
<1>. QED  BY <1>1, <1>2

\* A hand-over keeps the invariant: k directives more were printed, and those of the last
\* block may be handed over again.
LEMMA HandOverAgain ==
    ASSUME RunInv, NEW n \in Nat, NEW k \in Nat, NEW again \in Nat,
           HandsOver(n), n = (Pending + k) + again, again <= Repeated', Repeated' \in Nat,
           WorkflowFields \subseteq DOMAIN wf', wf'.directives = wf.directives, wf'.unheard = wf.unheard,
           pc \notin {"done", "raised"},
           {"executed", "ran", "emitted", "blocks", "stopped", "compacted"} \subseteq DOMAIN seen',
           seen'.emitted = seen.emitted + k, seen'.blocks = seen.blocks,
           seen'.stopped => pc' = "done" /\ result'.text # "empty",
           seen.blocks => pc' = "done"
    PROVE  RunInv'
<1>. USE DEF RunInv
<1>1. pc' \in {"request", "attempt", "done"}
    BY DEF HandsOver
<1>2. run'.directives = run.directives /\ {"attempt", "directives", "crashes"} \subseteq DOMAIN run'
    BY DEF HandsOver, RunType
<1>3. {"by", "retries"} \subseteq DOMAIN req' /\ (pc' = "request" => req'.by \in Requesters)
    BY DEF HandsOver, RunType
<1>4. (run.directives + Pending) + wf.unheard = seen.emitted
    BY DEF DirectivesCounted
<1>5. run.directives \in Nat /\ seen.emitted \in Nat /\ wf.directives \in Nat /\ wf.unheard \in Nat /\ Pending \in Nat
    BY DEF RunType, Pending
<1>6. seen'.emitted \in Nat /\ seen'.emitted + again = (run.directives + n) + wf.unheard
    BY <1>4, <1>5
<1>7. RunType'
    BY <1>2, <1>3, <1>5, <1>6 DEF RunType
<1>8. ~InWorkflow' /\ Pending' = 0
    BY <1>1 DEF InWorkflow, Pending
<1>9. pc' # "done" => n = 0 /\ again = 0
    BY <1>5 DEF HandsOver
<1>10. DirectivesCounted'
    BY <1>2, <1>5, <1>6, <1>8, <1>9 DEF DirectivesCounted
<1>11. PlacesKnown'
    BY <1>1, <1>3, <1>8 DEF PlacesKnown
<1>12. ASSUME pc' = "done"
       PROVE  result'.directives \in (seen'.emitted - wf'.unheard) .. ((seen'.emitted - wf'.unheard) + Repeated')
  <2>1. result'.directives = n + run.directives
      BY <1>12 DEF HandsOver
  <2>2. result'.directives = (seen'.emitted - wf.unheard) + again
      BY <1>5, <1>6, <2>1
  <2>. QED  BY <1>5, <1>6, <2>2
<1>13. seen'.blocks => pc' \in {"workflow", "blocks", "done"}
    OBVIOUS
<1>14. EffectsAccountedFor'
    BY <1>12, <1>13 DEF EffectsAccountedFor
<1>. QED  BY <1>7, <1>10, <1>11, <1>14

\* A hand-over outside the workflow hands nothing over again.
LEMMA HandOverInv ==
    ASSUME RunInv, NEW n \in Nat, NEW k \in Nat, HandsOver(n), n = Pending + k, wf' = wf,
           pc \notin {"done", "raised"},
           {"executed", "ran", "emitted", "blocks", "stopped", "compacted"} \subseteq DOMAIN seen',
           seen'.emitted = seen.emitted + k, seen'.blocks = seen.blocks,
           seen'.stopped => pc' = "done" /\ result'.text # "empty",
           seen.blocks => pc' = "done"
    PROVE  RunInv'
<1>1. Repeated' \in {0, 1}
    BY DEF Repeated, DirectivesIn
<1>2. WorkflowFields \subseteq DOMAIN wf' /\ wf.directives \in Nat
    BY DEF RunInv, RunType
<1>3. n = (Pending + k) + 0 /\ 0 <= Repeated' /\ Repeated' \in Nat
    BY <1>1
<1>4. 0 \in Nat
    OBVIOUS
<1>. QED  BY <1>2, <1>3, <1>4, HandOverAgain

\* A step that stays outside the workflow and prints nothing keeps the invariant.
LEMMA QuietInv ==
    ASSUME RunInv, pc \notin {"workflow", "blocks", "done", "raised"},
           pc' \notin {"start", "workflow", "blocks", "done"},
           {"attempt", "directives", "crashes"} \subseteq DOMAIN run',
           {"by", "retries"} \subseteq DOMAIN req',
           {"executed", "ran", "emitted", "blocks", "stopped", "compacted"} \subseteq DOMAIN seen',
           pc' = "request" => req'.by \in Requesters,
           wf' = wf, seen'.blocks = seen.blocks, seen'.stopped = seen.stopped,
           \/ run'.directives = run.directives /\ seen'.emitted = seen.emitted
           \/ run'.directives = run.directives + 1 /\ seen'.emitted = seen.emitted + 1
    PROVE  RunInv'
<1>. USE DEF RunInv
<1>1. ~seen.blocks /\ ~seen.stopped
    BY DEF EffectsAccountedFor
<1>2. RunType'
    BY DEF RunType
<1>3. ~InWorkflow /\ ~InWorkflow' /\ Pending = 0 /\ Pending' = 0
    BY DEF InWorkflow, Pending
<1>4. DirectivesCounted'
    BY <1>2, <1>3 DEF DirectivesCounted, RunType
<1>5. PlacesKnown'
    BY <1>3 DEF PlacesKnown
<1>6. EffectsAccountedFor'
    BY <1>1 DEF EffectsAccountedFor
<1>. QED  BY <1>2, <1>4, <1>5, <1>6

SeenFields == {"executed", "ran", "emitted", "blocks", "stopped", "compacted"}

\* A mode outside the workflow that printed nothing hands over.
LEMMA SilentHandOver ==
    ASSUME RunInv, HandsOver(0), wf' = wf, seen' = seen, pc \notin {"workflow", "blocks", "done", "raised"}
    PROVE  RunInv'
<1>1. ~seen.blocks /\ ~seen.stopped /\ Pending = 0
    BY DEF RunInv, EffectsAccountedFor, Pending, InWorkflow
<1>2. SeenFields \subseteq DOMAIN seen /\ seen.emitted = seen.emitted + 0
    BY DEF RunInv, RunType, SeenFields
<1>. QED  BY <1>1, <1>2, HandOverInv DEF SeenFields

LEMMA RunStart == Init => RunInv
<1>. SUFFICES ASSUME Init PROVE RunInv
    OBVIOUS
<1>1. /\ pc = "start" /\ run.directives = 0 /\ {"attempt", "directives", "crashes"} \subseteq DOMAIN run
      /\ {"by", "retries"} \subseteq DOMAIN req
    BY DEF Init
<1>2. seen.emitted = 0 /\ seen.blocks = FALSE /\ seen.stopped = FALSE /\ SeenFields \subseteq DOMAIN seen
    BY DEF Init, SeenFields
<1>3. wf.directives = 0 /\ wf.unheard = 0 /\ WorkflowFields \subseteq DOMAIN wf
    BY DEF Init, FreshWorkflow, WorkflowFields
<1>4. RunType
    BY <1>1, <1>2, <1>3 DEF RunType, SeenFields
<1>. QED  BY <1>1, <1>2, <1>3, <1>4 DEF RunInv, DirectivesCounted, Pending, InWorkflow, PlacesKnown, EffectsAccountedFor

LEMMA BitsAreNumbers ==
    /\ 0 + 0 = 0
    /\ \A x \in {0, 1} : x \in Nat /\ 0 \in (0 - 0) .. ((0 - 0) + x)
    OBVIOUS

\* skill-creator's script is the whole run.
LEMMA DirectCodingRun == RunInv /\ DirectCoding => RunInv'
<1>. SUFFICES ASSUME RunInv, DirectCoding PROVE RunInv'
    OBVIOUS
<1>1. pc = "start" /\ pc' = "done" /\ result'.directives = 0 /\ UNCHANGED <<run, req, wf, seen>>
    BY DEF DirectCoding
<1>2. seen.emitted = 0 /\ wf.unheard = 0 /\ ~seen.stopped /\ ~seen.blocks
    BY <1>1 DEF RunInv, RunType, DirectivesCounted, Pending, InWorkflow, PlacesKnown, EffectsAccountedFor
<1>3. Repeated' \in {0, 1}
    BY DEF Repeated, DirectivesIn
<1>4. seen'.emitted = 0 /\ wf'.unheard = 0 /\ ~seen'.stopped /\ ~seen'.blocks
    BY <1>1, <1>2
<1>5. result'.directives \in (seen'.emitted - wf'.unheard) .. ((seen'.emitted - wf'.unheard) + Repeated')
    BY <1>1, <1>3, <1>4, BitsAreNumbers
<1>6. EffectsAccountedFor'
    BY <1>4, <1>5 DEF EffectsAccountedFor
<1>. QED  BY <1>1, <1>2, <1>6 DEF RunInv, RunType, DirectivesCounted, PlacesKnown, InWorkflow

\* The steps into an attempt and its first mode.
LEMMA BeginRun == RunInv /\ (BeginAttempts \/ AttemptTools) => RunInv'
<1>. SUFFICES ASSUME RunInv, BeginAttempts \/ AttemptTools PROVE RunInv'
    OBVIOUS
<1>1. CASE BeginAttempts
  <2>1. pc = "start" /\ pc' = "attempt" /\ UNCHANGED <<run, req, wf, seen>>
      BY <1>1 DEF BeginAttempts
  <2>. QED  BY <2>1, QuietInv DEF RunInv, RunType
<1>2. CASE AttemptTools
  <2>1. pc = "attempt" /\ UNCHANGED <<wf, seen>> /\ HandsOver(0)
      BY <1>2, AskHandsOver DEF AttemptTools, StartToolMode, Requesters
  <2>. QED  BY <2>1, SilentHandOver
<1>. QED  BY <1>1, <1>2

LEMMA AttemptWorkflowRun == RunInv /\ AttemptWorkflow => RunInv'
<1>. SUFFICES ASSUME RunInv, AttemptWorkflow PROVE RunInv'
    OBVIOUS
<1>1. pc = "attempt" /\ pc' = "workflow" /\ wf' = FreshWorkflow /\ UNCHANGED <<run, req, seen, result>>
    BY DEF AttemptWorkflow
<1>2. wf'.directives = 0 /\ wf'.unheard = 0 /\ WorkflowFields \subseteq DOMAIN wf'
    BY <1>1 DEF FreshWorkflow, WorkflowFields
<1>3. ~seen.stopped /\ ~seen.blocks /\ Pending = 0 /\ Pending' = 0 /\ wf.unheard = 0
    BY <1>1, <1>2 DEF RunInv, EffectsAccountedFor, Pending, InWorkflow, PlacesKnown
<1>4. RunType'
    BY <1>1, <1>2 DEF RunInv, RunType
<1>5. DirectivesCounted' /\ PlacesKnown'
    BY <1>1, <1>2, <1>3 DEF RunInv, DirectivesCounted, PlacesKnown
<1>6. EffectsAccountedFor'
    BY <1>1, <1>3 DEF EffectsAccountedFor
<1>. QED  BY <1>4, <1>5, <1>6 DEF RunInv

(***************************************************************************)
(* The workflow                                                            *)
(***************************************************************************)
\* A workflow that ends without a result has printed no directive and run no block; one that
\* ends without text hands over the last block's directives again.
LEMMA WorkflowReturnsRun ==
    ASSUME RunInv, pc = "workflow", NEW text, NEW again \in Nat, WorkflowReturns(text, wf.directives + again),
           seen' = seen, again <= Repeated', Repeated' \in Nat,
           WorkflowFields \subseteq DOMAIN wf', wf'.directives = wf.directives, wf'.unheard = wf.unheard,
           seen.blocks => text # "empty"
    PROVE  RunInv'
<1>1. Pending = wf.directives /\ wf.directives \in Nat /\ ~seen.stopped
    BY DEF RunInv, RunType, Pending, InWorkflow, EffectsAccountedFor
<1>. DEFINE n == wf.directives + again
<1>2. HandsOver(n) /\ (seen.blocks => pc' = "done")
  <2>1. CASE text = "empty" /\ n = 0
    <3>1. HandsOver(0)
        BY <2>1, AskHandsOver DEF WorkflowReturns, StartToolMode, Requesters
    <3>. QED  BY <2>1, <3>1
  <2>2. CASE ~(text = "empty" /\ n = 0)
    <3>1. AttemptReturns("text", n)
        BY <2>2 DEF WorkflowReturns
    <3>. QED  BY <3>1, AttemptHandsOver
  <2>. QED  BY <2>1, <2>2
<1>3. SeenFields \subseteq DOMAIN seen /\ seen.emitted = seen.emitted + 0
    BY DEF RunInv, RunType, SeenFields
<1>4. n \in Nat /\ n = (Pending + 0) + again /\ 0 \in Nat
    BY <1>1
<1>. HIDE DEF n
<1>. QED  BY <1>1, <1>2, <1>3, <1>4, HandOverAgain DEF SeenFields

LEMMA AllGrow ==
    ASSUME NEW a \in Nat, NEW b \in Nat, NEW u \in Nat, NEW c \in Nat, NEW n \in Nat, NEW m \in Nat,
           (a + b) + u = c
    PROVE  /\ b + n \in Nat /\ u + m \in Nat /\ c + n + m \in Nat
           /\ (a + (b + n)) + (u + m) = c + n + m
    OBVIOUS

\* A step inside the workflow keeps the directives of its blocks with it.
LEMMA InsideWorkflow ==
    ASSUME RunInv, InWorkflow, InWorkflow', UNCHANGED <<run, req>>,
           WorkflowFields \subseteq DOMAIN wf', SeenFields \subseteq DOMAIN seen',
           NEW n \in Nat, NEW m \in Nat, wf'.directives = wf.directives + n, wf'.unheard = wf.unheard + m,
           seen'.emitted = seen.emitted + n + m,
           seen'.stopped = seen.stopped, seen'.blocks => wf'.last # "", ~seen'.blocks => ~seen.blocks /\ m = 0
    PROVE  RunInv'
<1>1. /\ run.directives \in Nat /\ wf.directives \in Nat /\ wf.unheard \in Nat /\ seen.emitted \in Nat
      /\ {"attempt", "directives", "crashes"} \subseteq DOMAIN run /\ {"by", "retries"} \subseteq DOMAIN req
    BY DEF RunInv, RunType
<1>2. pc \in {"workflow", "blocks"} /\ pc' \in {"workflow", "blocks"}
    BY DEF InWorkflow
<1>3. (run.directives + wf.directives) + wf.unheard = seen.emitted
    BY <1>2 DEF RunInv, DirectivesCounted, Pending
<1>4. /\ wf.directives + n \in Nat /\ wf.unheard + m \in Nat /\ seen.emitted + n + m \in Nat
      /\ (run.directives + (wf.directives + n)) + (wf.unheard + m) = seen.emitted + n + m
    BY ONLY <1>1, <1>3, n \in Nat, m \in Nat, AllGrow
<1>5. RunType'
    BY <1>1, <1>4 DEF RunType, SeenFields
<1>6. (run'.directives + wf'.directives) + wf'.unheard = seen'.emitted
    BY <1>4
<1>7. DirectivesCounted'
    BY <1>6 DEF DirectivesCounted, Pending
<1>8. ~seen'.blocks => wf'.unheard = 0
  <2>1. ASSUME ~seen'.blocks PROVE wf'.unheard = 0
    <3>1. m = 0 /\ wf.unheard = 0
        BY <2>1 DEF RunInv, PlacesKnown
    <3>. QED  BY ONLY <3>1, wf'.unheard = wf.unheard + m, BitsAreNumbers
  <2>. QED  BY <2>1
<1>9. PlacesKnown'
    BY <1>2, <1>8 DEF PlacesKnown
<1>10. ~seen'.stopped
    BY <1>2 DEF RunInv, EffectsAccountedFor
<1>11. EffectsAccountedFor'
    BY <1>2, <1>10 DEF EffectsAccountedFor
<1>. QED  BY <1>5, <1>7, <1>9, <1>11 DEF RunInv

LEMMA WorkflowMovesRun ==
    RunInv /\ (WorkflowAnswered \/ WorkflowEnds \/ WorkflowCalls \/ BlocksDone) => RunInv'
<1>. SUFFICES ASSUME RunInv, WorkflowAnswered \/ WorkflowEnds \/ WorkflowCalls \/ BlocksDone PROVE RunInv'
    OBVIOUS
<1>. DEFINE Stays == /\ InWorkflow /\ InWorkflow' /\ UNCHANGED <<run, req, seen>>
                     /\ wf' = wf \/ wf' = [wf EXCEPT !.step = @ + 1]
<1>1. ASSUME Stays PROVE RunInv'
  <2>1. /\ WorkflowFields \subseteq DOMAIN wf' /\ SeenFields \subseteq DOMAIN seen'
        /\ wf'.last = wf.last /\ wf'.directives = wf.directives /\ wf'.unheard = wf.unheard /\ seen' = seen
      BY <1>1 DEF RunInv, RunType, SeenFields, WorkflowFields
  <2>2. /\ wf'.directives = wf.directives + 0 /\ wf'.unheard = wf.unheard + 0
        /\ seen'.emitted = seen.emitted + 0 + 0 /\ 0 \in Nat
      BY <2>1 DEF RunInv, RunType
  <2>3. seen'.blocks => wf'.last # ""
      BY <1>1, <2>1 DEF RunInv, PlacesKnown
  <2>. QED  BY <1>1, <2>1, <2>2, <2>3, InsideWorkflow
<1>2. CASE WorkflowAnswered
  <2>1. CASE WorkflowReturns("text", wf.directives) /\ UNCHANGED wf
    <3>1. wf.directives = wf.directives + 0 /\ 0 \in Nat /\ WorkflowFields \subseteq DOMAIN wf'
        BY <2>1 DEF RunInv, RunType
    <3>2. WorkflowReturns("text", wf.directives + 0)
        BY <2>1, <3>1
    <3>3. Repeated' \in {0, 1}
        BY DEF Repeated, DirectivesIn
    <3>4. 0 <= Repeated' /\ Repeated' \in Nat
        BY <3>3
    <3>5. pc = "workflow" /\ seen' = seen
        BY <1>2 DEF WorkflowAnswered
    <3>. QED  BY <2>1, <3>1, <3>2, <3>4, <3>5, WorkflowReturnsRun
  <2>2. CASE ~(WorkflowReturns("text", wf.directives) /\ UNCHANGED wf)
      BY <1>1, <1>2, <2>2 DEF WorkflowAnswered, InWorkflow
  <2>. QED  BY <2>1, <2>2
<1>3. CASE WorkflowEnds
  <2>. DEFINE again == DirectivesIn(wf.last)
              text == IF wf.last = "" THEN "empty" ELSE "text"
  <2>1. /\ pc = "workflow" /\ WorkflowReturns(text, wf.directives + again) /\ seen' = seen
        /\ wf' = [wf EXCEPT !.wordless = TRUE]
      BY <1>3 DEF WorkflowEnds
  <2>2. seen.blocks => text # "empty"
      BY <2>1 DEF RunInv, PlacesKnown, InWorkflow
  <2>3. /\ WorkflowFields \subseteq DOMAIN wf' /\ wf'.directives = wf.directives /\ wf'.unheard = wf.unheard
        /\ wf'.last = wf.last /\ wf'.wordless = TRUE
      BY <2>1 DEF RunInv, RunType, WorkflowFields
  <2>4. again \in Nat
      BY DEF DirectivesIn
  <2>5. Repeated' = again
      BY <2>3 DEF Repeated
  <2>. HIDE DEF again, text
  <2>6. again <= Repeated' /\ Repeated' \in Nat
      BY <2>4, <2>5
  <2>. QED  BY <2>1, <2>2, <2>3, <2>4, <2>6, WorkflowReturnsRun
<1>4. CASE WorkflowCalls
    BY <1>1, <1>4 DEF WorkflowCalls, InWorkflow
<1>5. CASE BlocksDone
    BY <1>1, <1>5 DEF BlocksDone, InWorkflow
<1>. QED  BY <1>2, <1>3, <1>4, <1>5

\* The shell tool never returns an empty output, so a block that ran leaves a result.
LEMMA RunBlockRun == RunInv /\ RunBlock => RunInv'
<1>. SUFFICES ASSUME RunInv, RunBlock PROVE RunInv'
    OBVIOUS
<1>1. pc = "blocks" /\ InWorkflow /\ InWorkflow' /\ UNCHANGED <<run, req>>
    BY DEF RunBlock, InWorkflow
<1>2. CASE UNCHANGED <<wf, seen>>
  <2>1. /\ wf.directives = wf.directives + 0 /\ wf.unheard = wf.unheard + 0
        /\ seen.emitted = seen.emitted + 0 + 0 /\ 0 \in Nat
      BY DEF RunInv, RunType
  <2>2. /\ WorkflowFields \subseteq DOMAIN wf /\ SeenFields \subseteq DOMAIN seen
        /\ seen.blocks => wf.last # ""
      BY <1>1 DEF RunInv, RunType, SeenFields, PlacesKnown
  <2>. QED  BY <1>1, <1>2, <2>1, <2>2, InsideWorkflow
<1>3. CASE ~UNCHANGED <<wf, seen>>
  <2>1. PICK printed, recovery \in Outputs :
            LET new == DirectivesIn(printed)
                unheard == DirectivesIn(recovery)
            IN  /\ wf' = [wf EXCEPT !.last = BashOutput(printed), !.directives = @ + new,
                                    !.unheard = @ + unheard]
                /\ seen' = [seen EXCEPT !.blocks = TRUE, !.emitted = @ + new + unheard]
      BY <1>3 DEF RunBlock
  <2>. DEFINE new == DirectivesIn(printed)
              unheard == DirectivesIn(recovery)
  <2>2. /\ wf' = [wf EXCEPT !.last = BashOutput(printed), !.directives = @ + new, !.unheard = @ + unheard]
        /\ seen' = [seen EXCEPT !.blocks = TRUE, !.emitted = @ + new + unheard]
      BY <2>1
  <2>7. new \in {0, 1} /\ unheard \in {0, 1}
      BY DEF DirectivesIn
  <2>. HIDE DEF new, unheard
  <2>3. BashOutput(printed) # ""
      BY DEF BashOutput
  <2>4. /\ WorkflowFields \subseteq DOMAIN wf' /\ SeenFields \subseteq DOMAIN seen'
        /\ wf'.directives = wf.directives + new /\ wf'.unheard = wf.unheard + unheard /\ wf'.last # ""
      BY <2>2, <2>3 DEF RunInv, RunType, SeenFields, WorkflowFields
  <2>5. seen'.emitted = seen.emitted + new + unheard /\ seen'.stopped = seen.stopped /\ seen'.blocks = TRUE
      BY <2>2 DEF RunInv, RunType
  <2>6. new \in Nat /\ unheard \in Nat
      BY <2>7, BitsAreNumbers
  <2>. QED  BY <1>1, <2>4, <2>5, <2>6, InsideWorkflow
<1>. QED  BY <1>2, <1>3

(***************************************************************************)
(* Requests and the tool-call loop                                         *)
(***************************************************************************)
\* What a step of these parts starts from.
LEMMA OutsideWorkflow ==
    ASSUME RunInv, pc \in {"request", "first", "tools", "turn", "loop", "final", "command"}
    PROVE  /\ pc \notin {"workflow", "blocks", "done", "raised"}
           /\ ~seen.blocks /\ ~seen.stopped /\ Pending = 0
           /\ {"attempt", "directives", "crashes"} \subseteq DOMAIN run
           /\ {"by", "retries"} \subseteq DOMAIN req /\ SeenFields \subseteq DOMAIN seen
           /\ run.directives \in Nat /\ seen.emitted \in Nat
    BY DEF RunInv, RunType, EffectsAccountedFor, Pending, InWorkflow, SeenFields

\* A request that is given up is an empty result of the loop or the end of the run.
LEMMA GiveUpRun ==
    ASSUME RunInv, pc = "request", GiveUp, seen' = seen, wf' = wf PROVE RunInv'
<1>1. CASE req.by = "first"
  <2>1. HandsOver(0)
      BY <1>1, ToolModeHandsOver DEF GiveUp
  <2>. QED  BY <2>1, SilentHandOver
<1>2. CASE req.by # "first"
  <2>1. pc' = "raised" /\ UNCHANGED <<run, req>>
      BY <1>2 DEF GiveUp
  <2>. QED  BY <2>1, QuietInv, OutsideWorkflow DEF SeenFields
<1>. QED  BY <1>1, <1>2

LEMMA RequestRun == RunInv /\ (ModelAnswers \/ RequestOverflows \/ RequestFails \/ RequestRejected) => RunInv'
<1>. SUFFICES ASSUME RunInv, ModelAnswers \/ RequestOverflows \/ RequestFails \/ RequestRejected PROVE RunInv'
    OBVIOUS
<1>1. pc = "request" /\ wf' = wf
    BY DEF ModelAnswers, RequestOverflows, RequestFails, RequestRejected
<1>2. CASE ModelAnswers
  <2>1. pc' = req.by /\ req.by \in Requesters /\ UNCHANGED <<run, req, seen>>
      BY <1>1, <1>2 DEF ModelAnswers, RunInv, PlacesKnown
  <2>2. pc' \notin {"start", "workflow", "blocks", "done", "request"}
      BY <2>1 DEF Requesters
  <2>. QED  BY <1>1, <2>1, <2>2, QuietInv, OutsideWorkflow DEF SeenFields
<1>3. ASSUME pc' = pc, run' = run, seen' = seen \/ seen' = [seen EXCEPT !.compacted = TRUE],
             NEW r, req' = [req EXCEPT !.retries = r]
      PROVE  RunInv'
  <2>1. /\ SeenFields \subseteq DOMAIN seen' /\ seen'.blocks = seen.blocks /\ seen'.stopped = seen.stopped
        /\ seen'.emitted = seen.emitted
      BY <1>1, <1>3, OutsideWorkflow DEF SeenFields
  <2>2. {"by", "retries"} \subseteq DOMAIN req' /\ req'.by \in Requesters
      BY <1>1, <1>3, OutsideWorkflow DEF RunInv, PlacesKnown
  <2>. QED  BY <1>1, <1>3, <2>1, <2>2, QuietInv, OutsideWorkflow DEF SeenFields
<1>4. CASE RequestOverflows
  <2>1. CASE Len(Compact(msgs)) < Len(msgs)
      BY <1>3, <1>4, <2>1 DEF RequestOverflows
  <2>2. CASE ~(Len(Compact(msgs)) < Len(msgs))
    <3>1. GiveUp /\ seen' = seen
        BY <1>4, <2>2 DEF RequestOverflows
    <3>. QED  BY <1>1, <3>1, GiveUpRun
  <2>. QED  BY <2>1, <2>2
<1>5. CASE RequestFails
  <2>1. CASE req.retries + 1 >= InvokeRetries
    <3>1. GiveUp /\ seen' = seen
        BY <1>5, <2>1 DEF RequestFails
    <3>. QED  BY <1>1, <3>1, GiveUpRun
  <2>2. CASE ~(req.retries + 1 >= InvokeRetries)
      BY <1>3, <1>5, <2>2 DEF RequestFails
  <2>. QED  BY <2>1, <2>2
<1>6. CASE RequestRejected
    BY <1>1, <1>6, GiveUpRun DEF RequestRejected
<1>. QED  BY <1>2, <1>4, <1>5, <1>6

LEMMA FirstAnswerRun == RunInv /\ FirstAnswer => RunInv'
<1>. SUFFICES ASSUME RunInv, FirstAnswer PROVE RunInv'
    OBVIOUS
<1>1. pc = "first" /\ wf' = wf
    BY DEF FirstAnswer
<1>2. seen' = [seen EXCEPT !.executed = {}, !.ran = [c \in Calls |-> 0], !.compacted = FALSE]
    BY DEF FirstAnswer
<1>3. /\ SeenFields \subseteq DOMAIN seen' /\ seen'.blocks = seen.blocks /\ seen'.stopped = seen.stopped
      /\ seen'.emitted = seen.emitted
    BY <1>1, <1>2, OutsideWorkflow DEF SeenFields
<1>4. CASE resp.calls = <<>>
  <2>1. HandsOver(0)
      BY <1>4, ToolModeHandsOver DEF FirstAnswer
  <2>2. seen'.emitted = seen.emitted + 0 /\ 0 = Pending + 0
      BY <1>1, <1>3, OutsideWorkflow
  <2>. QED  BY <1>1, <1>3, <2>1, <2>2, HandOverInv, OutsideWorkflow DEF SeenFields
<1>5. CASE resp.calls # <<>>
  <2>1. pc' = "tools" /\ UNCHANGED <<run, req>>
      BY <1>5 DEF FirstAnswer
  <2>. QED  BY <1>1, <1>3, <2>1, QuietInv, OutsideWorkflow DEF SeenFields
<1>. QED  BY <1>4, <1>5

\* Executing a tool counts the directive it prints.
LEMMA ExecuteRun == RunInv /\ ExecuteToolCall => RunInv'
<1>. SUFFICES ASSUME RunInv, ExecuteToolCall PROVE RunInv'
    OBVIOUS
<1>1. pc = "tools" /\ pc' = pc /\ wf' = wf /\ req' = req
    BY DEF ExecuteToolCall
<1>2. PICK after : /\ \E id : after = [seen EXCEPT !.executed = @ \cup {id}, !.ran[Head(todo)] = @ + 1]
                   /\ \/ run' = run /\ seen' = after
                      \/ /\ \E c \in Crashes : run' = [run EXCEPT !.crashes[c] = Min({@ + 1, AbortCrash})]
                         /\ seen' = after
                      \/ /\ run' = [run EXCEPT !.directives = @ + 1]
                         /\ seen' = [after EXCEPT !.emitted = @ + 1]
    BY DEF ExecuteToolCall
<1>3. /\ SeenFields \subseteq DOMAIN after /\ after.emitted = seen.emitted /\ after.blocks = seen.blocks
      /\ after.stopped = seen.stopped
    BY <1>1, <1>2, OutsideWorkflow DEF SeenFields
<1>4. CASE run' = run /\ seen' = after
    BY <1>1, <1>3, <1>4, QuietInv, OutsideWorkflow DEF SeenFields
<1>5. CASE /\ \E c \in Crashes : run' = [run EXCEPT !.crashes[c] = Min({@ + 1, AbortCrash})]
           /\ seen' = after
  <2>1. run'.directives = run.directives /\ {"attempt", "directives", "crashes"} \subseteq DOMAIN run'
      BY <1>1, <1>5, OutsideWorkflow
  <2>. QED  BY <1>1, <1>3, <1>5, <2>1, QuietInv, OutsideWorkflow DEF SeenFields
<1>6. CASE run' = [run EXCEPT !.directives = @ + 1] /\ seen' = [after EXCEPT !.emitted = @ + 1]
  <2>1. run'.directives = run.directives + 1 /\ {"attempt", "directives", "crashes"} \subseteq DOMAIN run'
      BY <1>1, <1>6, OutsideWorkflow
  <2>2. /\ SeenFields \subseteq DOMAIN seen' /\ seen'.emitted = seen.emitted + 1 /\ seen'.blocks = seen.blocks
        /\ seen'.stopped = seen.stopped
      BY <1>3, <1>6 DEF SeenFields
  <2>. QED  BY <1>1, <2>1, <2>2, QuietInv, OutsideWorkflow DEF SeenFields
<1>. QED  BY <1>2, <1>4, <1>5, <1>6

\* A breaker ends the run: its note is a result, so no other mode follows.
LEMMA StoppedRun ==
    ASSUME RunInv, pc \in {"tools", "loop"}, ToolModeReturns(StoppedResult(resp.text)), wf' = wf,
           seen' = [seen EXCEPT !.stopped = TRUE]
    PROVE  RunInv'
<1>1. HandsOver(0) /\ pc' = "done" /\ result'.text = "stopped"
    BY ToolModeHandsOver DEF StoppedResult
<1>2. SeenFields \subseteq DOMAIN seen' /\ seen'.blocks = seen.blocks /\ seen'.emitted = seen.emitted + 0
    BY OutsideWorkflow DEF SeenFields
<1>3. 0 = Pending + 0
    BY OutsideWorkflow
<1>. QED  BY <1>1, <1>2, <1>3, HandOverInv, OutsideWorkflow DEF SeenFields

LEMMA ToolsDoneRun == RunInv /\ (ToolsDone \/ LoopStops) => RunInv'
<1>. SUFFICES ASSUME RunInv, ToolsDone \/ LoopStops PROVE RunInv'
    OBVIOUS
<1>1. CASE LoopStops
    BY <1>1, StoppedRun DEF LoopStops
<1>2. CASE ToolsDone
  <2>1. pc = "tools" /\ wf' = wf
      BY <1>2 DEF ToolsDone
  <2>2. CASE loop.turn > 0 /\ SkillBroken
      BY <1>2, <2>1, <2>2, StoppedRun DEF ToolsDone
  <2>3. CASE ~(loop.turn > 0 /\ SkillBroken)
    <3>1. pc' = "turn" /\ UNCHANGED <<run, req, seen>>
        BY <1>2, <2>3 DEF ToolsDone
    <3>. QED  BY <2>1, <3>1, QuietInv, OutsideWorkflow DEF SeenFields
  <2>. QED  BY <2>2, <2>3
<1>. QED  BY <1>1, <1>2

\* The other steps of the loop print nothing and stop nothing.
LEMMA LoopRun ==
    RunInv /\ (NextTurn \/ TurnsSpent \/ FinalAnswer \/ LoopNudges \/ LoopAnswers \/ LoopCalls \/ NoCommand)
    => RunInv'
<1>. SUFFICES ASSUME RunInv,
                     NextTurn \/ TurnsSpent \/ FinalAnswer \/ LoopNudges \/ LoopAnswers \/ LoopCalls \/ NoCommand
              PROVE  RunInv'
    OBVIOUS
<1>1. pc \in {"turn", "final", "loop", "command"} /\ UNCHANGED <<wf, seen>>
    BY DEF NextTurn, TurnsSpent, FinalAnswer, LoopNudges, LoopAnswers, LoopCalls, NoCommand
<1>2. CASE NextTurn
    BY <1>1, <1>2, AskHandsOver, SilentHandOver DEF NextTurn, Requesters
<1>3. CASE TurnsSpent
  <2>1. HandsOver(0)
    <3>1. CASE resp.calls # <<>>
        BY <1>3, <3>1, AskHandsOver DEF TurnsSpent, Requesters
    <3>2. CASE resp.calls = <<>>
        BY <1>3, <3>2, ToolModeHandsOver DEF TurnsSpent
    <3>. QED  BY <3>1, <3>2
  <2>. QED  BY <1>1, <2>1, SilentHandOver
<1>4. CASE FinalAnswer \/ LoopAnswers
  <2>1. HandsOver(0)
      BY <1>4, ToolModeHandsOver DEF FinalAnswer, LoopAnswers
  <2>. QED  BY <1>1, <2>1, SilentHandOver
<1>5. CASE NoCommand
  <2>1. HandsOver(0)
      BY <1>5, AttemptHandsOver DEF NoCommand
  <2>. QED  BY <1>1, <2>1, SilentHandOver
<1>6. CASE LoopNudges \/ LoopCalls
  <2>1. pc' \in {"turn", "tools"} /\ UNCHANGED <<run, req>>
      BY <1>6 DEF LoopNudges, LoopCalls
  <2>. QED  BY <1>1, <2>1, QuietInv, OutsideWorkflow DEF SeenFields
<1>. QED  BY <1>2, <1>3, <1>4, <1>5, <1>6

\* The directives of a command are in its output, which is the result.
LEMMA CommandRun == RunInv /\ CommandRuns => RunInv'
<1>. SUFFICES ASSUME RunInv, CommandRuns PROVE RunInv'
    OBVIOUS
<1>1. PICK text \in {"empty", "text"}, new \in {0, 1} :
          seen' = [seen EXCEPT !.emitted = @ + new] /\ AttemptReturns(text, new)
    BY DEF CommandRuns, DirectivesIn, Outputs
<1>2. new \in Nat /\ new = 0 + new
    OBVIOUS
<1>3. /\ SeenFields \subseteq DOMAIN seen' /\ seen'.blocks = seen.blocks /\ seen'.stopped = seen.stopped
      /\ pc = "command" /\ wf' = wf
    BY <1>1, OutsideWorkflow DEF SeenFields, CommandRuns
<1>4. seen'.emitted = seen.emitted + new
    BY <1>1, <1>3, OutsideWorkflow DEF SeenFields
<1>5. HandsOver(new)
    BY <1>1, AttemptHandsOver
<1>6. new = Pending + new
    BY <1>2, <1>3, OutsideWorkflow
<1>. QED  BY <1>2, <1>3, <1>4, <1>5, <1>6, HandOverInv, OutsideWorkflow DEF SeenFields

LEMMA RunStep == RunInv /\ [Next]_vars => RunInv'
<1>. SUFFICES ASSUME RunInv, [Next]_vars PROVE RunInv'
    OBVIOUS
<1>1. CASE DirectCoding \/ BeginAttempts \/ AttemptTools \/ AttemptWorkflow
    BY <1>1, DirectCodingRun, BeginRun, AttemptWorkflowRun
<1>2. CASE WorkflowAnswered \/ WorkflowEnds \/ WorkflowCalls \/ BlocksDone \/ RunBlock
    BY <1>2, WorkflowMovesRun, RunBlockRun
<1>3. CASE ModelAnswers \/ RequestOverflows \/ RequestFails \/ RequestRejected
    BY <1>3, RequestRun
<1>4. CASE FirstAnswer \/ ExecuteToolCall \/ ToolsDone \/ LoopStops \/ CommandRuns
    BY <1>4, FirstAnswerRun, ExecuteRun, ToolsDoneRun, CommandRun
<1>5. CASE NextTurn \/ TurnsSpent \/ FinalAnswer \/ LoopNudges \/ LoopAnswers \/ LoopCalls \/ NoCommand
    BY <1>5, LoopRun
<1>6. CASE UNCHANGED vars
  <2>1. Repeated' = Repeated
      BY <1>6 DEF vars, Repeated
  <2>2. UNCHANGED <<pc, run, req, wf, result, seen>>
      BY <1>6 DEF vars
  <2>3. RunType' /\ DirectivesCounted' /\ PlacesKnown'
      BY <2>2 DEF RunInv, RunType, DirectivesCounted, Pending, InWorkflow, PlacesKnown
  <2>4. EffectsAccountedFor'
      BY <2>1, <2>2 DEF RunInv, EffectsAccountedFor
  <2>. QED  BY <2>3, <2>4 DEF RunInv
<1>. QED  BY <1>1, <1>2, <1>3, <1>4, <1>5, <1>6 DEF Next

\* What a run of a skill has done is neither done again nor kept from the caller, for any
\* setup, tool calls and limits (SkillRunnerAgent.run and _attempt in agents/skill_runner.py).
THEOREM RunsAreAccountedFor == Spec => []EffectsAccountedFor
<1>1. RunInv => EffectsAccountedFor
    BY DEF RunInv
<1>. QED  BY <1>1, RunStart, RunStep, PTL DEF Spec

(***************************************************************************)
(* Lists of messages                                                       *)
(***************************************************************************)
Roles == {"system", "task", "note", "ai", "tool"}

Messages == [role : Roles, ids : SUBSET Int]

\* The i-th message is the result of the call id, which the m-th message made: nothing but
\* results stands between the two.
BehindCall(ms, i, m, id) ==
    /\ i \in 1 .. Len(ms) /\ m \in 1 .. i - 1
    /\ ms[i] = Message("tool", {id})
    /\ ms[m].role = "ai" /\ id \in ms[m].ids
    /\ \A j \in m + 1 .. i - 1 : ms[j].role = "tool"

Reported(ms, id) == \E i, m \in 1 .. Len(ms) : BehindCall(ms, i, m, id)

\* The last message that is no result makes these calls.
LastCalls(ms, ids) ==
    \E m \in 1 .. Len(ms) :
        /\ ms[m].role = "ai" /\ ms[m].ids = ids
        /\ \A j \in m + 1 .. Len(ms) : ms[j].role = "tool"

Rank(kept, i) == Cardinality({j \in kept : j <= i})

LEMMA MessageIs ==
    ASSUME NEW role \in Roles, NEW ids \in SUBSET Int
    PROVE  /\ Message(role, ids) \in Messages
           /\ Message(role, ids).role = role /\ Message(role, ids).ids = ids
    BY DEF Message, Messages

LEMMA PositionsFinite ==
    ASSUME NEW n \in Nat, NEW kept \in SUBSET (1 .. n)
    PROVE  IsFiniteSet(kept) /\ Cardinality(kept) \in Nat /\ kept \subseteq Int
<1>1. IsFiniteSet(1 .. n)
    BY FS_Interval
<1>2. IsFiniteSet(kept)
    BY <1>1, FS_Subset
<1>3. kept \subseteq Int
    OBVIOUS
<1>. QED  BY <1>2, <1>3, FS_CardinalityType

\* Positions are ranked in order, from 1 to their number.
LEMMA RankGrows ==
    ASSUME NEW n \in Nat, NEW kept \in SUBSET (1 .. n), NEW i \in kept, NEW j \in kept, i < j
    PROVE  Rank(kept, i) < Rank(kept, j)
<1>. DEFINE S == {k \in kept : k <= i}
            T == {k \in kept : k <= j}
<1>1. IsFiniteSet(kept) /\ kept \subseteq Int
    BY PositionsFinite
<1>2. IsFiniteSet(T) /\ Cardinality(T) \in Nat
    BY <1>1, FS_Subset, FS_CardinalityType
<1>3. j \in T /\ S \subseteq T \ {j}
  <2>1. i \in Int /\ j \in Int /\ j <= j
      BY <1>1
  <2>2. ASSUME NEW k \in S PROVE k \in T \ {j}
    <3>1. k \in Int /\ k <= i
        BY <1>1
    <3>. QED  BY <2>1, <3>1
  <2>. QED  BY <2>1, <2>2
<1>. HIDE DEF S, T
<1>4. IsFiniteSet(T \ {j}) /\ Cardinality(T \ {j}) = Cardinality(T) - 1
    BY <1>2, <1>3, FS_RemoveElement
<1>5. Cardinality(S) <= Cardinality(T \ {j}) /\ Cardinality(S) \in Nat
    BY <1>3, <1>4, FS_Subset, FS_CardinalityType
<1>6. Cardinality(S) < Cardinality(T)
    BY <1>2, <1>4, <1>5
<1>. QED  BY <1>6 DEF Rank, S, T

LEMMA RankType ==
    ASSUME NEW n \in Nat, NEW kept \in SUBSET (1 .. n), NEW i \in kept
    PROVE  IsFiniteSet(kept) /\ Cardinality(kept) \in Nat /\ Rank(kept, i) \in 1 .. Cardinality(kept)
<1>. DEFINE S == {k \in kept : k <= i}
<1>1. IsFiniteSet(kept) /\ Cardinality(kept) \in Nat /\ kept \subseteq Int
    BY PositionsFinite
<1>2. S \subseteq kept /\ S # {}
  <2>1. i <= i
      BY <1>1
  <2>. QED  BY <2>1
<1>. HIDE DEF S
<1>3. IsFiniteSet(S) /\ Cardinality(S) <= Cardinality(kept) /\ Cardinality(S) \in Nat /\ Cardinality(S) # 0
    BY <1>1, <1>2, FS_Subset, FS_CardinalityType, FS_EmptySet
<1>4. Cardinality(S) \in 1 .. Cardinality(kept)
    BY <1>1, <1>3
<1>. QED  BY <1>1, <1>4 DEF Rank, S

LEMMA RankUnique ==
    ASSUME NEW n \in Nat, NEW kept \in SUBSET (1 .. n), NEW i \in kept, NEW j \in kept,
           Rank(kept, i) = Rank(kept, j)
    PROVE  i = j
<1>1. i \in Int /\ j \in Int
    BY PositionsFinite
<1>2. Rank(kept, i) \in Int
  <2>1. Rank(kept, i) \in 1 .. Cardinality(kept)
      BY RankType
  <2>. QED  BY <2>1
<1>3. CASE i < j
  <2>1. Rank(kept, i) < Rank(kept, j)
      BY <1>3, RankGrows
  <2>. QED  BY <1>2, <2>1
<1>4. CASE j < i
  <2>1. Rank(kept, j) < Rank(kept, i)
      BY <1>4, RankGrows
  <2>. QED  BY <1>2, <2>1
<1>. QED  BY <1>1, <1>3, <1>4

\* Every number up to their number is the rank of a position.
LEMMA RankOnto ==
    ASSUME NEW n \in Nat, NEW kept \in SUBSET (1 .. n), NEW r \in 1 .. Cardinality(kept)
    PROVE  \E i \in kept : Rank(kept, i) = r
<1>. DEFINE c == Cardinality(kept)
            f == [i \in kept |-> Rank(kept, i)]
<1>1. IsFiniteSet(kept) /\ c \in Nat
    BY PositionsFinite
<1>2. f \in [kept -> 1 .. c]
    BY RankType
<1>3. \A i, j \in kept : f[i] = f[j] => i = j
    BY RankUnique
<1>. HIDE DEF f, c
<1>4. f \in Injection(kept, 1 .. c)
    BY <1>2, <1>3, Fun_IsInj
<1>5. IsFiniteSet(1 .. c) /\ Cardinality(1 .. c) = c
    BY <1>1, FS_Interval
<1>6. f \in Surjection(kept, 1 .. c)
    BY <1>4, <1>5, FS_Injection DEF c
<1>7. \A k \in 1 .. c : \E i \in kept : f[i] = k
    BY <1>6, Fun_SurjectionProperties
<1>. QED  BY <1>7 DEF f, c

\* What Keep keeps, it keeps in order: at says where a kept message was.
LEMMA KeepIs ==
    ASSUME NEW ms \in Seq(Messages), NEW kept \in SUBSET DOMAIN ms
    PROVE  /\ Keep(ms, kept) \in Seq(Messages)
           /\ \E at \in [1 .. Len(Keep(ms, kept)) -> kept] :
                 /\ \A r \in 1 .. Len(Keep(ms, kept)) : Keep(ms, kept)[r] = ms[at[r]]
                 /\ \A i \in kept : \E r \in 1 .. Len(Keep(ms, kept)) : at[r] = i
                 /\ \A r, s \in 1 .. Len(Keep(ms, kept)) : at[r] < at[s] => r < s
                 /\ \A r, s \in 1 .. Len(Keep(ms, kept)) : r < s => at[r] < at[s]
<1>1. Len(ms) \in Nat /\ DOMAIN ms = 1 .. Len(ms) /\ \A i \in 1 .. Len(ms) : ms[i] \in Messages
    BY LenProperties, ElementOfSeq
<1>2. CASE kept = DOMAIN ms
  <2>1. Keep(ms, kept) = ms
      BY <1>2 DEF Keep
  <2>. DEFINE at == [i \in 1 .. Len(ms) |-> i]
  <2>2. at \in [1 .. Len(ms) -> kept]
      BY <1>1, <1>2
  <2>3. \A r \in 1 .. Len(ms) : at[r] = r
      OBVIOUS
  <2>. HIDE DEF at
  <2>. QED  BY <1>1, <1>2, <2>1, <2>2, <2>3
<1>3. CASE kept # DOMAIN ms
  <2>. DEFINE c == Cardinality(kept)
              at == [r \in 1 .. c |-> CHOOSE i \in kept : Rank(kept, i) = r]
  <2>0. kept \in SUBSET (1 .. Len(ms))
      BY <1>1
  <2>1. c \in Nat
      BY <1>1, <2>0, PositionsFinite
  <2>2. \A r \in 1 .. c : at[r] \in kept /\ Rank(kept, at[r]) = r
      BY <1>1, <2>0, RankOnto
  <2>3. at \in [1 .. c -> kept]
      BY <2>2
  <2>4. Keep(ms, kept) = [r \in 1 .. c |-> ms[at[r]]]
      BY <1>3 DEF Keep, Rank
  <2>. HIDE DEF at, c
  <2>5. \A r \in 1 .. c : ms[at[r]] \in Messages
      BY <1>1, <2>3
  <2>6. [r \in 1 .. c |-> ms[at[r]]] \in Seq(Messages)
      BY <2>1, <2>5, IsASeq
  <2>7. Keep(ms, kept) \in Seq(Messages) /\ Len(Keep(ms, kept)) = c
      BY <2>1, <2>4, <2>6, LenProperties
  <2>8. \A r \in 1 .. c : Keep(ms, kept)[r] = ms[at[r]]
      BY <2>4
  <2>9. ASSUME NEW i \in kept PROVE Rank(kept, i) \in 1 .. c /\ at[Rank(kept, i)] = i
    <3>1. Rank(kept, i) \in 1 .. c
        BY <1>1, <2>0, RankType DEF c
    <3>2. at[Rank(kept, i)] \in kept /\ Rank(kept, at[Rank(kept, i)]) = Rank(kept, i)
        BY <2>2, <3>1
    <3>. QED  BY <1>1, <2>0, <3>1, <3>2, RankUnique
  <2>10. ASSUME NEW r \in 1 .. c, NEW s \in 1 .. c, at[r] < at[s] PROVE r < s
      BY <1>1, <2>0, <2>2, <2>10, RankGrows
  <2>11. ASSUME NEW r \in 1 .. c, NEW s \in 1 .. c, r < s PROVE at[r] < at[s]
    <3>1. at[r] \in Int /\ at[s] \in Int /\ at[r] # at[s]
        BY <1>1, <2>2, <2>11
    <3>2. ~(at[s] < at[r])
        BY <2>1, <2>10, <2>11
    <3>. QED  BY <3>1, <3>2
  <2>. QED  BY <2>3, <2>7, <2>8, <2>9, <2>10, <2>11
<1>. QED  BY <1>2, <1>3

\* A result and its call that are both kept stay together.
LEMMA KeepReports ==
    ASSUME NEW ms \in Seq(Messages), NEW kept \in SUBSET DOMAIN ms, NEW i \in kept, NEW m \in kept, NEW id,
           BehindCall(ms, i, m, id)
    PROVE  Reported(Keep(ms, kept), id)
<1>. DEFINE ks == Keep(ms, kept)
<1>1. PICK at \in [1 .. Len(ks) -> kept] :
          /\ \A r \in 1 .. Len(ks) : ks[r] = ms[at[r]]
          /\ \A k \in kept : \E r \in 1 .. Len(ks) : at[r] = k
          /\ \A r, s \in 1 .. Len(ks) : at[r] < at[s] => r < s
          /\ \A r, s \in 1 .. Len(ks) : r < s => at[r] < at[s]
    BY KeepIs
<1>2. Len(ks) \in Nat /\ DOMAIN ms = 1 .. Len(ms) /\ Len(ms) \in Nat
    BY KeepIs, LenProperties
<1>. HIDE DEF ks
<1>3. PICK r \in 1 .. Len(ks), s \in 1 .. Len(ks) : at[r] = i /\ at[s] = m
    BY <1>1
<1>4. m < i /\ s < r /\ s \in 1 .. r - 1
    BY <1>1, <1>2, <1>3 DEF BehindCall
<1>5. ASSUME NEW t \in s + 1 .. r - 1 PROVE ks[t].role = "tool"
  <2>1. t \in 1 .. Len(ks) /\ s < t /\ t < r
      BY <1>2, <1>3, <1>4
  <2>2. at[t] \in kept /\ m < at[t] /\ at[t] < i /\ ks[t] = ms[at[t]]
      BY <1>1, <1>3, <2>1
  <2>3. at[t] \in m + 1 .. i - 1
      BY <1>2, <2>2
  <2>. QED  BY <2>2, <2>3 DEF BehindCall
<1>6. BehindCall(ks, r, s, id)
    BY <1>1, <1>3, <1>4, <1>5 DEF BehindCall
<1>. QED  BY <1>3, <1>6 DEF Reported, ks

\* A result behind its call is no orphan, and neither of the two is a human message.
LEMMA BehindIsKnown ==
    ASSUME NEW ms \in Seq(Messages), NEW i, NEW m, NEW id, BehindCall(ms, i, m, id)
    PROVE  /\ id \in KnownIds(ms, i) /\ ~Orphan(ms, i) /\ ~Orphan(ms, m)
           /\ ~IsHuman(ms[i]) /\ ~IsHuman(ms[m])
           /\ i \in DOMAIN ms /\ m \in DOMAIN ms
<1>. DEFINE other == {j \in 1 .. i - 1 : ms[j].role # "tool"}
<1>1. /\ Len(ms) \in Nat /\ DOMAIN ms = 1 .. Len(ms) /\ i \in 1 .. Len(ms) /\ m \in 1 .. i - 1
      /\ ms[m].role = "ai" /\ id \in ms[m].ids
    BY LenProperties DEF BehindCall
<1>2. m \in other /\ \A j \in other : m >= j
    BY <1>1 DEF BehindCall
<1>3. other \subseteq Int
    BY <1>1
<1>. HIDE DEF other
<1>4. Max(other) = m
  <2>1. Max(other) \in other /\ \A y \in other : Max(other) >= y
      BY <1>2 DEF Max
  <2>2. PICK x : x = Max(other)
      OBVIOUS
  <2>3. x \in Int /\ m \in Int /\ x >= m /\ m >= x
      BY <1>2, <1>3, <2>1, <2>2
  <2>4. x = m
      BY ONLY <2>3
  <2>. QED  BY <2>2, <2>4
<1>5. KnownIds(ms, i) = ms[m].ids
    BY <1>1, <1>2, <1>4 DEF KnownIds, other
<1>6. ms[i].role = "tool" /\ ms[i].ids = {id}
    BY DEF BehindCall, Message
<1>. QED  BY <1>1, <1>5, <1>6 DEF Orphan, IsHuman

\* The repair of a list takes no result from its call.
LEMMA SanitizeReports ==
    ASSUME NEW ms \in Seq(Messages)
    PROVE  /\ Sanitize(ms) \in Seq(Messages)
           /\ \A id : Reported(ms, id) => Reported(Sanitize(ms), id)
<1>. DEFINE kept == {i \in DOMAIN ms : ~Orphan(ms, i)}
            ks == Keep(ms, kept)
            left == {i \in DOMAIN ks : ~(i > 1 /\ IsHuman(ks[i]) /\ IsHuman(ks[i - 1]))}
<1>1. ks \in Seq(Messages)
    BY KeepIs
<1>2. Sanitize(ms) = Keep(ks, left)
    BY DEF Sanitize, MergeHumans, DropOrphans
<1>3. ASSUME NEW id, Reported(ms, id) PROVE Reported(ks, id)
  <2>1. PICK i, m \in 1 .. Len(ms) : BehindCall(ms, i, m, id)
      BY <1>3 DEF Reported
  <2>2. i \in kept /\ m \in kept
      BY <2>1, BehindIsKnown
  <2>. HIDE DEF kept
  <2>3. kept \subseteq DOMAIN ms
      BY DEF kept
  <2>. QED  BY <2>1, <2>2, <2>3, KeepReports
<1>. HIDE DEF ks
<1>4. ASSUME NEW id, Reported(ks, id) PROVE Reported(Keep(ks, left), id)
  <2>1. PICK i, m \in 1 .. Len(ks) : BehindCall(ks, i, m, id)
      BY <1>4 DEF Reported
  <2>2. i \in left /\ m \in left
      BY <1>1, <2>1, BehindIsKnown
  <2>. HIDE DEF left
  <2>3. left \subseteq DOMAIN ks
      BY DEF left
  <2>. QED  BY <1>1, <2>1, <2>2, <2>3, KeepReports
<1>5. Keep(ks, left) \in Seq(Messages)
    BY <1>1, KeepIs
<1>. QED  BY <1>2, <1>3, <1>4, <1>5

\* What is appended leaves every earlier result behind its call.
LEMMA ConcatReports ==
    ASSUME NEW ms \in Seq(Messages), NEW more \in Seq(Messages)
    PROVE  /\ ms \o more \in Seq(Messages)
           /\ \A id : Reported(ms, id) => Reported(ms \o more, id)
<1>. DEFINE all == ms \o more
<1>1. /\ all \in Seq(Messages) /\ Len(all) = Len(ms) + Len(more) /\ Len(ms) \in Nat /\ Len(more) \in Nat
      /\ \A i \in 1 .. Len(ms) : all[i] = ms[i]
    BY ConcatProperties, LenProperties
<1>. HIDE DEF all
<1>2. ASSUME NEW id, Reported(ms, id) PROVE Reported(all, id)
  <2>1. PICK i, m \in 1 .. Len(ms) : BehindCall(ms, i, m, id)
      BY <1>2 DEF Reported
  <2>2. i \in 1 .. Len(all) /\ m \in 1 .. Len(all) /\ all[i] = ms[i] /\ all[m] = ms[m]
      BY <1>1
  <2>3. \A j \in m + 1 .. i - 1 : all[j] = ms[j]
      BY <1>1
  <2>4. BehindCall(all, i, m, id)
      BY <2>1, <2>2, <2>3 DEF BehindCall
  <2>. QED  BY <2>2, <2>4 DEF Reported
<1>. QED  BY <1>1, <1>2 DEF all

LEMMA AppendReports ==
    ASSUME NEW ms \in Seq(Messages), NEW x \in Messages
    PROVE  /\ Append(ms, x) \in Seq(Messages)
           /\ \A id : Reported(ms, id) => Reported(Append(ms, x), id)
<1>1. Append(ms, x) = ms \o <<x>> /\ <<x>> \in Seq(Messages)
    BY AppendIsConcat
<1>. QED  BY <1>1, ConcatReports

\* The calls of an answer are the last ones, and their results come right behind them.
LEMMA CallsAreLast ==
    ASSUME NEW ms \in Seq(Messages), NEW ids \in SUBSET Int
    PROVE  LastCalls(Append(ms, Message("ai", ids)), ids)
<1>. DEFINE all == Append(ms, Message("ai", ids))
<1>1. Message("ai", ids) \in Messages /\ Message("ai", ids).role = "ai" /\ Message("ai", ids).ids = ids
    BY MessageIs DEF Roles
<1>2. Len(all) = Len(ms) + 1 /\ all[Len(ms) + 1] = Message("ai", ids) /\ Len(ms) \in Nat
    BY <1>1, AppendProperties, LenProperties
<1>. HIDE DEF all
<1>3. Len(all) \in 1 .. Len(all) /\ \A j \in Len(all) + 1 .. Len(all) : FALSE
    BY <1>2
<1>. QED  BY <1>1, <1>2, <1>3 DEF LastCalls, all

LEMMA ResultIsReported ==
    ASSUME NEW ms \in Seq(Messages), NEW ids \in SUBSET Int, NEW id \in ids, LastCalls(ms, ids)
    PROVE  /\ LastCalls(Append(ms, Message("tool", {id})), ids)
           /\ Reported(Append(ms, Message("tool", {id})), id)
<1>. DEFINE all == Append(ms, Message("tool", {id}))
            n == Len(ms) + 1
<1>1. Message("tool", {id}) \in Messages /\ Message("tool", {id}).role = "tool"
    BY MessageIs DEF Roles
<1>2. /\ Len(all) = n /\ all[n] = Message("tool", {id}) /\ Len(ms) \in Nat
      /\ \A i \in 1 .. Len(ms) : all[i] = ms[i]
    BY <1>1, AppendProperties, LenProperties
<1>. HIDE DEF all
<1>3. PICK m \in 1 .. Len(ms) : /\ ms[m].role = "ai" /\ ms[m].ids = ids
                               /\ \A j \in m + 1 .. Len(ms) : ms[j].role = "tool"
    BY DEF LastCalls
<1>4. all[m] = ms[m] /\ m \in 1 .. n - 1 /\ m \in 1 .. Len(all) /\ n \in 1 .. Len(all)
    BY <1>2
<1>5. \A j \in m + 1 .. n - 1 : all[j].role = "tool"
    BY <1>2, <1>3
<1>6. \A j \in m + 1 .. Len(all) : all[j].role = "tool"
    BY <1>1, <1>2, <1>5
<1>7. LastCalls(all, ids)
    BY <1>3, <1>4, <1>6 DEF LastCalls
<1>8. BehindCall(all, n, m, id)
    BY <1>2, <1>3, <1>4, <1>5 DEF BehindCall
<1>9. Reported(all, id)
    BY <1>4, <1>8 DEF Reported
<1>. QED  BY <1>7, <1>9 DEF all

LEMMA CompactType ==
    ASSUME NEW ms \in Seq(Messages) PROVE Compact(ms) \in Seq(Messages)
<1>1. CASE Len(ms) <= 4
    BY <1>1 DEF Compact
<1>2. CASE ~(Len(ms) <= 4)
  <2>1. Len(ms) \in Nat /\ \A i \in 1 .. Len(ms) : ms[i] \in Messages
      BY LenProperties, ElementOfSeq
  <2>2. \A i \in Len(ms) - 3 .. Len(ms) : ms[i] \in Messages
      BY <1>2, <2>1
  <2>3. SubSeq(ms, Len(ms) - 3, Len(ms)) \in Seq(Messages)
      BY <2>1, <2>2, SubSeqProperties
  <2>4. ms[1] \in Messages /\ Message("note", {}) \in Messages
      BY <1>2, <2>1, MessageIs DEF Roles
  <2>5. <<ms[1], Message("note", {})>> \in Seq(Messages)
      BY <2>4
  <2>6. <<ms[1], Message("note", {})>> \o SubSeq(ms, Len(ms) - 3, Len(ms)) \in Seq(Messages)
      BY <2>3, <2>5, ConcatProperties
  <2>. QED  BY <1>2, <2>6 DEF Compact
<1>. QED  BY <1>1, <1>2

(***************************************************************************)
(* What the model is told                                                  *)
(***************************************************************************)
InLoop ==
    \/ pc \in {"tools", "turn", "loop", "final"}
    \/ pc = "request" /\ req.by \in {"loop", "final"}

TurnIds(round, calls) == {CallId(round, k) : k \in DOMAIN calls}

\* What the variables of the loop are used for.
LoopType ==
    /\ msgs \in Seq(Messages)
    /\ "calls" \in DOMAIN resp /\ resp.calls \in Seq(Calls)
    /\ "turn" \in DOMAIN loop /\ loop.turn \in Nat

\* While the calls of a turn are executed, no other message follows the answer that made them.
TurnUnderWay ==
    pc = "tools" =>
        /\ todo \in Seq(Calls) /\ Len(todo) <= Len(resp.calls)
        /\ LastCalls(msgs, TurnIds(loop.turn, resp.calls))

\* The results of the executed calls are behind their calls wherever the loop is.
AllReported == InLoop /\ ~seen.compacted => \A id \in seen.executed : Reported(msgs, id)

\* Inductive, with RunInv for the records and the way an answer takes.
ReportInv == LoopType /\ TurnUnderWay /\ AllReported

LEMMA CallsType ==
    ASSUME NEW round \in Nat, NEW calls \in Seq(Calls)
    PROVE  /\ TurnIds(round, calls) \in SUBSET Int
           /\ CallsMessage(round, calls) = Message("ai", TurnIds(round, calls))
           /\ CallsMessage(round, calls) \in Messages
<1>1. DOMAIN calls = 1 .. Len(calls)
    BY LenProperties
<1>2. MaxBatch \in Nat
    BY SkillRunnerConstants
<1>3. round * MaxBatch \in Int
    BY <1>2
<1>4. \A k \in DOMAIN calls : CallId(round, k) \in Int
    BY <1>1, <1>3 DEF CallId
<1>5. TurnIds(round, calls) \in SUBSET Int
    BY <1>4 DEF TurnIds
<1>6. CallsMessage(round, calls) = Message("ai", TurnIds(round, calls))
    BY DEF CallsMessage, TurnIds
<1>. QED  BY <1>5, <1>6, MessageIs DEF Roles

\* A mode starts with messages of its own or with none, and hands over outside the loop.
Leaves ==
    /\ msgs' = msgs \/ msgs' = Sanitize(FreshMessages)
    /\ \/ pc' \in {"attempt", "done", "raised"}
       \/ pc' = "request" /\ req'.by \in {"first", "command"}

LEMMA AttemptLeaves == ASSUME NEW text, NEW n, AttemptReturns(text, n) PROVE Leaves
    BY DEF AttemptReturns, Leaves

LEMMA AskLeaves ==
    ASSUME NEW by \in {"first", "command"}, Ask(by, FreshMessages) PROVE Leaves
    BY DEF Ask, Leaves

LEMMA ToolModeLeaves == ASSUME NEW text, ToolModeReturns(text) PROVE Leaves
<1>1. CASE text = "empty" /\ setup.fallback
    BY <1>1, AskLeaves DEF ToolModeReturns
<1>2. CASE ~(text = "empty" /\ setup.fallback)
    BY <1>2, AttemptLeaves DEF ToolModeReturns
<1>. QED  BY <1>1, <1>2

LEMMA GiveUpLeaves == ASSUME GiveUp PROVE Leaves
<1>1. CASE req.by = "first"
    BY <1>1, ToolModeLeaves DEF GiveUp
<1>2. CASE req.by # "first"
    BY <1>2 DEF GiveUp, Leaves
<1>. QED  BY <1>1, <1>2

\* Outside the loop only the types are left to keep.
LEMMA LeavesInv ==
    ASSUME ReportInv, Leaves, resp' = resp, "turn" \in DOMAIN loop', loop'.turn \in Nat
    PROVE  ReportInv'
<1>1. Message("system", {}) \in Messages /\ Message("task", {}) \in Messages
    BY MessageIs DEF Roles
<1>2. FreshMessages \in Seq(Messages)
    BY <1>1 DEF FreshMessages
<1>3. Sanitize(FreshMessages) \in Seq(Messages)
    BY <1>2, SanitizeReports
<1>4. LoopType'
    BY <1>3 DEF ReportInv, LoopType, Leaves
<1>5. pc' # "tools" /\ ~InLoop'
    BY DEF Leaves, InLoop
<1>. QED  BY <1>4, <1>5 DEF ReportInv, TurnUnderWay, AllReported

\* So do steps of the workflow and other steps outside the loop.
LEMMA ElsewhereInv ==
    ASSUME ReportInv, UNCHANGED <<msgs, resp, loop>>,
           pc' \notin {"request", "tools", "turn", "loop", "final"}
    PROVE  ReportInv'
<1>1. LoopType'
    BY DEF ReportInv, LoopType
<1>2. pc' # "tools" /\ ~InLoop'
    BY DEF InLoop
<1>. QED  BY <1>1, <1>2 DEF ReportInv, TurnUnderWay, AllReported

\* A step inside the loop that executes nothing and loses no result.
LEMMA InsideInv ==
    ASSUME ReportInv, InLoop, UNCHANGED resp, msgs' \in Seq(Messages),
           seen'.compacted \/ (seen'.compacted = seen.compacted /\ seen'.executed = seen.executed),
           \A id : Reported(msgs, id) => Reported(msgs', id),
           "turn" \in DOMAIN loop', loop'.turn \in Nat, pc' # "tools"
    PROVE  ReportInv'
    BY DEF ReportInv, LoopType, TurnUnderWay, AllReported

LEMMA ReportStart == Init => ReportInv
<1>. SUFFICES ASSUME Init PROVE ReportInv
    OBVIOUS
<1>1. msgs = <<>> /\ resp = NoAnswer /\ pc = "start" /\ loop = FreshLoop(<<>>)
    BY DEF Init
<1>2. resp.calls = <<>> /\ "calls" \in DOMAIN resp
    BY <1>1 DEF NoAnswer
<1>3. loop.turn = 0 /\ "turn" \in DOMAIN loop
    BY <1>1 DEF FreshLoop, EmptyLoop
<1>4. LoopType
    BY <1>1, <1>2, <1>3, EmptySeq DEF LoopType
<1>. QED  BY <1>1, <1>4 DEF ReportInv, TurnUnderWay, AllReported, InLoop

\* The workflow and command mode.
LEMMA ElsewhereReport ==
    ReportInv /\ (\/ DirectCoding \/ BeginAttempts \/ AttemptWorkflow \/ AttemptTools \/ WorkflowAnswered
                  \/ WorkflowEnds \/ WorkflowCalls \/ RunBlock \/ BlocksDone \/ CommandRuns \/ NoCommand)
    => ReportInv'
<1>. SUFFICES ASSUME ReportInv,
                     \/ DirectCoding \/ BeginAttempts \/ AttemptWorkflow \/ AttemptTools \/ WorkflowAnswered
                     \/ WorkflowEnds \/ WorkflowCalls \/ RunBlock \/ BlocksDone \/ CommandRuns \/ NoCommand
              PROVE  ReportInv'
    OBVIOUS
<1>1. ASSUME Leaves, UNCHANGED <<resp, loop>> PROVE ReportInv'
    BY <1>1, LeavesInv DEF ReportInv, LoopType
<1>2. ASSUME NEW text, NEW n, WorkflowReturns(text, n) PROVE Leaves
    BY <1>2, AskLeaves, AttemptLeaves DEF WorkflowReturns, StartToolMode
<1>3. CASE DirectCoding \/ BeginAttempts \/ AttemptWorkflow \/ WorkflowCalls \/ RunBlock \/ BlocksDone
    BY <1>3, ElsewhereInv DEF DirectCoding, BeginAttempts, AttemptWorkflow, WorkflowCalls, RunBlock, BlocksDone
<1>4. CASE AttemptTools
    BY <1>1, <1>4, AskLeaves DEF AttemptTools, StartToolMode
<1>5. CASE WorkflowAnswered
  <2>1. CASE WorkflowReturns("text", wf.directives)
      BY <1>1, <1>2, <1>5, <2>1 DEF WorkflowAnswered
  <2>2. CASE ~WorkflowReturns("text", wf.directives)
      BY <1>5, <2>2, ElsewhereInv DEF WorkflowAnswered
  <2>. QED  BY <2>1, <2>2
<1>6. CASE WorkflowEnds
    BY <1>1, <1>2, <1>6 DEF WorkflowEnds
<1>7. CASE CommandRuns \/ NoCommand
    BY <1>1, <1>7, AttemptLeaves DEF CommandRuns, NoCommand
<1>. QED  BY <1>3, <1>4, <1>5, <1>6, <1>7

\* An answer goes to who asked for it; its calls are a sequence.
LEMMA AnswerReport == RunInv /\ ReportInv /\ ModelAnswers => ReportInv'
<1>. SUFFICES ASSUME RunInv, ReportInv, ModelAnswers PROVE ReportInv'
    OBVIOUS
<1>1. pc = "request" /\ pc' = req.by /\ req.by \in Requesters /\ UNCHANGED <<msgs, seen>> /\ resp' \in Answers
    BY DEF ModelAnswers, RunInv, PlacesKnown
<1>2. "calls" \in DOMAIN resp' /\ resp'.calls \in Seq(Calls)
  <2>1. \A calls \in Batches(Calls) : calls \in Seq(Calls)
      BY SkillRunnerConstants DEF Batches
  <2>2. resp'.calls = <<>> \/ resp'.calls \in Batches(Calls)
      BY <1>1 DEF Answers
  <2>3. "calls" \in DOMAIN resp'
      BY <1>1 DEF Answers
  <2>. QED  BY <2>1, <2>2, <2>3, EmptySeq
<1>3. loop.turn \in Nat /\ "turn" \in DOMAIN loop
    BY DEF ReportInv, LoopType
<1>4. loop' = loop \/ \E v : loop' = [loop EXCEPT !.overflow = v]
    BY DEF ModelAnswers
<1>5. loop'.turn = loop.turn /\ "turn" \in DOMAIN loop'
    BY <1>3, <1>4
<1>6. LoopType'
    BY <1>1, <1>2, <1>3, <1>5 DEF ReportInv, LoopType
<1>7. pc' # "tools" /\ (InLoop' => InLoop)
    BY <1>1 DEF InLoop, Requesters
<1>. QED  BY <1>1, <1>6, <1>7 DEF ReportInv, TurnUnderWay, AllReported

\* A request that fails and is tried again keeps the results unless the list is compacted.
LEMMA RequestReport ==
    RunInv /\ ReportInv /\ (RequestOverflows \/ RequestFails \/ RequestRejected) => ReportInv'
<1>. SUFFICES ASSUME RunInv, ReportInv, RequestOverflows \/ RequestFails \/ RequestRejected PROVE ReportInv'
    OBVIOUS
<1>1. /\ pc = "request" /\ UNCHANGED <<resp, loop>> /\ "turn" \in DOMAIN loop /\ loop.turn \in Nat
      /\ msgs \in Seq(Messages)
    BY DEF RequestOverflows, RequestFails, RequestRejected, ReportInv, LoopType
<1>2. ASSUME GiveUp PROVE ReportInv'
    BY <1>1, <1>2, GiveUpLeaves, LeavesInv
<1>3. ASSUME pc' = pc, msgs' \in Seq(Messages), NEW r, req' = [req EXCEPT !.retries = r],
             \/ seen'.compacted
             \/ seen' = seen /\ \A id : Reported(msgs, id) => Reported(msgs', id)
      PROVE  ReportInv'
  <2>1. req'.by = req.by
      BY <1>3 DEF RunInv, RunType
  <2>2. InLoop' <=> InLoop
      BY <1>1, <1>3, <2>1 DEF InLoop
  <2>3. LoopType' /\ TurnUnderWay'
      BY <1>1, <1>3 DEF ReportInv, LoopType, TurnUnderWay
  <2>4. AllReported'
      BY <1>3, <2>2 DEF ReportInv, AllReported
  <2>. QED  BY <2>3, <2>4 DEF ReportInv
<1>4. CASE RequestOverflows
  <2>1. CASE Len(Compact(msgs)) < Len(msgs)
    <3>1. /\ pc' = pc /\ msgs' = Compact(msgs) /\ seen' = [seen EXCEPT !.compacted = TRUE]
          /\ \E r : req' = [req EXCEPT !.retries = r]
        BY <1>4, <2>1 DEF RequestOverflows
    <3>2. seen'.compacted /\ msgs' \in Seq(Messages)
        BY <1>1, <3>1, CompactType DEF RunInv, RunType
    <3>. QED  BY <1>3, <3>1, <3>2
  <2>2. CASE ~(Len(Compact(msgs)) < Len(msgs))
      BY <1>2, <1>4, <2>2 DEF RequestOverflows
  <2>. QED  BY <2>1, <2>2
<1>5. CASE RequestFails
  <2>1. CASE req.retries + 1 >= InvokeRetries
      BY <1>2, <1>5, <2>1 DEF RequestFails
  <2>2. CASE ~(req.retries + 1 >= InvokeRetries)
    <3>1. /\ pc' = pc /\ seen' = seen /\ msgs' \in {msgs, Append(msgs, Message("tool", {0}))}
          /\ \E r : req' = [req EXCEPT !.retries = r]
        BY <1>5, <2>2 DEF RequestFails
    <3>2. Message("tool", {0}) \in Messages
        BY MessageIs DEF Roles
    <3>3. msgs' \in Seq(Messages) /\ \A id : Reported(msgs, id) => Reported(msgs', id)
        BY <1>1, <3>1, <3>2, AppendReports
    <3>. QED  BY <1>3, <3>1, <3>3
  <2>. QED  BY <2>1, <2>2
<1>6. CASE RequestRejected
    BY <1>2, <1>6 DEF RequestRejected
<1>. QED  BY <1>4, <1>5, <1>6

\* The first answer of an attempt starts with no calls executed.
LEMMA FirstReport == RunInv /\ ReportInv /\ FirstAnswer => ReportInv'
<1>. SUFFICES ASSUME RunInv, ReportInv, FirstAnswer PROVE ReportInv'
    OBVIOUS
<1>1. resp' = resp /\ resp.calls \in Seq(Calls) /\ loop.turn \in Nat /\ "turn" \in DOMAIN loop /\ msgs \in Seq(Messages)
    BY DEF FirstAnswer, ReportInv, LoopType
<1>2. seen' = [seen EXCEPT !.executed = {}, !.ran = [c \in Calls |-> 0], !.compacted = FALSE]
    BY DEF FirstAnswer
<1>3. seen'.executed = {}
    BY <1>2 DEF RunInv, RunType
<1>4. CASE resp.calls = <<>>
  <2>1. Leaves /\ loop' = loop
      BY <1>4, ToolModeLeaves DEF FirstAnswer
  <2>. QED  BY <1>1, <2>1, LeavesInv
<1>5. CASE resp.calls # <<>>
  <2>1. /\ msgs' = Append(msgs, CallsMessage(0, resp.calls)) /\ loop' = FreshLoop(resp.calls)
        /\ todo' = resp.calls /\ pc' = "tools"
      BY <1>5 DEF FirstAnswer, WithCalls
  <2>2. loop'.turn = 0 /\ "turn" \in DOMAIN loop'
      BY <2>1 DEF FreshLoop, EmptyLoop
  <2>3. CallsMessage(0, resp.calls) \in Messages /\ TurnIds(0, resp.calls) \in SUBSET Int
      BY <1>1, CallsType
  <2>4. CallsMessage(0, resp.calls) = Message("ai", TurnIds(0, resp.calls))
      BY <1>1, CallsType
  <2>5. msgs' \in Seq(Messages) /\ LastCalls(msgs', TurnIds(0, resp.calls))
      BY <1>1, <2>1, <2>3, <2>4, AppendReports, CallsAreLast
  <2>6. LoopType'
      BY <1>1, <2>2, <2>5 DEF ReportInv, LoopType
  <2>7. Len(todo') <= Len(resp'.calls)
      BY <1>1, <2>1, LenProperties
  <2>8. TurnUnderWay'
      BY <1>1, <2>1, <2>2, <2>5, <2>7 DEF TurnUnderWay
  <2>. QED  BY <1>3, <2>6, <2>8 DEF ReportInv, AllReported
<1>. QED  BY <1>4, <1>5

\* The calls of a later answer follow the results of the earlier ones.
LEMMA CallsReport == RunInv /\ ReportInv /\ LoopCalls => ReportInv'
<1>. SUFFICES ASSUME RunInv, ReportInv, LoopCalls PROVE ReportInv'
    OBVIOUS
<1>1. /\ resp' = resp /\ seen' = seen /\ resp.calls \in Seq(Calls) /\ loop.turn \in Nat /\ "turn" \in DOMAIN loop
      /\ msgs \in Seq(Messages) /\ InLoop
    BY DEF LoopCalls, ReportInv, LoopType, InLoop
<1>2. /\ msgs' = Append(msgs, CallsMessage(loop.turn, resp.calls)) /\ todo' = resp.calls /\ pc' = "tools"
    BY DEF LoopCalls, WithCalls
<1>3. \E a, b, c : loop' = [loop EXCEPT !.silent = a, !.asked = b, !.failed = FALSE, !.nudge = c]
    BY DEF LoopCalls
<1>4. loop'.turn = loop.turn /\ "turn" \in DOMAIN loop'
    BY <1>1, <1>3
<1>5. /\ CallsMessage(loop.turn, resp.calls) \in Messages /\ TurnIds(loop.turn, resp.calls) \in SUBSET Int
      /\ CallsMessage(loop.turn, resp.calls) = Message("ai", TurnIds(loop.turn, resp.calls))
    BY <1>1, CallsType
<1>6. /\ msgs' \in Seq(Messages) /\ LastCalls(msgs', TurnIds(loop.turn, resp.calls))
      /\ \A id : Reported(msgs, id) => Reported(msgs', id)
    BY <1>1, <1>2, <1>5, AppendReports, CallsAreLast
<1>7. LoopType'
    BY <1>1, <1>4, <1>6 DEF ReportInv, LoopType
<1>8. Len(todo') <= Len(resp'.calls)
    BY <1>1, <1>2, LenProperties
<1>9. TurnUnderWay'
    BY <1>1, <1>2, <1>4, <1>6, <1>8 DEF TurnUnderWay
<1>10. AllReported'
    BY <1>1, <1>6 DEF ReportInv, AllReported
<1>. QED  BY <1>7, <1>9, <1>10 DEF ReportInv

\* The result of a call is appended behind the answer that made it.
LEMMA ExecuteReport == RunInv /\ ReportInv /\ ExecuteToolCall => ReportInv'
<1>. SUFFICES ASSUME RunInv, ReportInv, ExecuteToolCall PROVE ReportInv'
    OBVIOUS
<1>. DEFINE k == Len(resp.calls) - Len(todo) + 1
            id == CallId(loop.turn, k)
            ids == TurnIds(loop.turn, resp.calls)
<1>1. /\ pc = "tools" /\ pc' = "tools" /\ todo # <<>> /\ todo' = Tail(todo) /\ resp' = resp
      /\ msgs' = Append(msgs, Message("tool", {id})) /\ req' = req
    BY DEF ExecuteToolCall
<1>2. /\ resp.calls \in Seq(Calls) /\ loop.turn \in Nat /\ "turn" \in DOMAIN loop /\ msgs \in Seq(Messages)
      /\ todo \in Seq(Calls) /\ Len(todo) <= Len(resp.calls) /\ LastCalls(msgs, ids)
    BY <1>1 DEF ReportInv, LoopType, TurnUnderWay
<1>3. PICK after : /\ after = [seen EXCEPT !.executed = @ \cup {id}, !.ran[Head(todo)] = @ + 1]
                   /\ seen' = after \/ seen' = [after EXCEPT !.emitted = @ + 1]
                   /\ loop' = loop \/ loop' = [loop EXCEPT !.failed = TRUE]
    BY DEF ExecuteToolCall
<1>4. seen'.executed = seen.executed \cup {id} /\ seen'.compacted = seen.compacted
    BY <1>3 DEF RunInv, RunType
<1>5. loop'.turn = loop.turn /\ "turn" \in DOMAIN loop'
    BY <1>2, <1>3
<1>6. /\ Len(resp.calls) \in Nat /\ DOMAIN resp.calls = 1 .. Len(resp.calls)
      /\ Len(todo) \in Nat \ {0} /\ Tail(todo) \in Seq(Calls) /\ Len(Tail(todo)) = Len(todo) - 1
    BY <1>1, <1>2, LenProperties, EmptySeq, HeadTailProperties
<1>7. k \in DOMAIN resp.calls
    BY <1>2, <1>6
<1>8. id \in ids /\ ids \in SUBSET Int
    BY <1>2, <1>7, CallsType DEF TurnIds
<1>. HIDE DEF k, id, ids
<1>9. LastCalls(msgs', ids) /\ Reported(msgs', id)
    BY <1>1, <1>2, <1>8, ResultIsReported
<1>10. Message("tool", {id}) \in Messages
    BY <1>8, MessageIs DEF Roles
<1>11. msgs' \in Seq(Messages) /\ \A x : Reported(msgs, x) => Reported(msgs', x)
    BY <1>1, <1>2, <1>10, AppendReports
<1>12. LoopType'
    BY <1>1, <1>2, <1>5, <1>11 DEF ReportInv, LoopType
<1>13. Len(todo') <= Len(resp.calls)
    BY <1>1, <1>2, <1>6
<1>14. TurnUnderWay'
    BY <1>1, <1>5, <1>6, <1>9, <1>13 DEF TurnUnderWay, ids
<1>15. AllReported'
    BY <1>1, <1>4, <1>9, <1>11 DEF ReportInv, AllReported, InLoop
<1>. QED  BY <1>12, <1>14, <1>15 DEF ReportInv

\* Nudges and guidance come after the results of the turn.
LEMMA TurnReport == RunInv /\ ReportInv /\ (ToolsDone \/ LoopNudges \/ NextTurn) => ReportInv'
<1>. SUFFICES ASSUME RunInv, ReportInv, ToolsDone \/ LoopNudges \/ NextTurn PROVE ReportInv'
    OBVIOUS
<1>1. /\ resp' = resp /\ InLoop /\ msgs \in Seq(Messages) /\ loop.turn \in Nat /\ "turn" \in DOMAIN loop
    BY DEF ToolsDone, LoopNudges, NextTurn, ReportInv, LoopType, InLoop
<1>2. Message("ai", {}) \in Messages /\ Message("note", {}) \in Messages
    BY MessageIs DEF Roles
<1>3. /\ <<Message("ai", {}), Message("note", {})>> \in Seq(Messages)
      /\ \A given : Guidance(given) \in Seq(Messages)
    BY <1>2 DEF Guidance
<1>4. CASE ToolsDone
  <2>1. loop'.turn = loop.turn + 1 /\ "turn" \in DOMAIN loop'
      BY <1>1, <1>4 DEF ToolsDone
  <2>2. CASE loop.turn > 0 /\ SkillBroken
    <3>1. Leaves
        BY <1>4, <2>2, ToolModeLeaves DEF ToolsDone
    <3>. QED  BY <1>1, <2>1, <3>1, LeavesInv
  <2>3. CASE ~(loop.turn > 0 /\ SkillBroken)
    <3>1. PICK g, h \in Seq(Messages) : msgs' = (msgs \o g) \o h
        BY <1>3, <1>4, <2>3 DEF ToolsDone
    <3>2. pc' = "turn" /\ seen' = seen
        BY <1>4, <2>3 DEF ToolsDone
    <3>3. msgs \o g \in Seq(Messages) /\ \A id : Reported(msgs, id) => Reported(msgs \o g, id)
        BY <1>1, ConcatReports
    <3>4. msgs' \in Seq(Messages) /\ \A id : Reported(msgs \o g, id) => Reported(msgs', id)
        BY <3>1, <3>3, ConcatReports
    <3>5. loop'.turn \in Nat
        BY <1>1, <2>1
    <3>. QED  BY <1>1, <2>1, <3>2, <3>3, <3>4, <3>5, InsideInv
  <2>. QED  BY <2>2, <2>3
<1>5. CASE LoopNudges
  <2>1. /\ msgs' = msgs \o <<Message("ai", {}), Message("note", {})>> /\ pc' = "turn" /\ seen' = seen
        /\ loop' = [loop EXCEPT !.nudges = @ + 1, !.turn = @ + 1]
      BY <1>5 DEF LoopNudges
  <2>2. loop'.turn \in Nat /\ "turn" \in DOMAIN loop'
      BY <1>1, <2>1
  <2>3. msgs' \in Seq(Messages) /\ \A id : Reported(msgs, id) => Reported(msgs', id)
      BY <1>1, <1>3, <2>1, ConcatReports
  <2>. QED  BY <1>1, <2>1, <2>2, <2>3, InsideInv
<1>6. CASE NextTurn
  <2>1. msgs' = Sanitize(msgs) /\ pc' = "request" /\ seen' = seen /\ loop' = loop
      BY <1>6 DEF NextTurn, Ask
  <2>2. msgs' \in Seq(Messages) /\ \A id : Reported(msgs, id) => Reported(msgs', id)
      BY <1>1, <2>1, SanitizeReports
  <2>. QED  BY <1>1, <2>1, <2>2, InsideInv
<1>. QED  BY <1>4, <1>5, <1>6

LEMMA EndOfLoopReport == ReportInv /\ (TurnsSpent \/ FinalAnswer \/ LoopStops \/ LoopAnswers) => ReportInv'
<1>. SUFFICES ASSUME ReportInv, TurnsSpent \/ FinalAnswer \/ LoopStops \/ LoopAnswers PROVE ReportInv'
    OBVIOUS
<1>1. /\ UNCHANGED <<resp, loop>> /\ InLoop /\ msgs \in Seq(Messages)
      /\ loop.turn \in Nat /\ "turn" \in DOMAIN loop
    BY DEF TurnsSpent, FinalAnswer, LoopStops, LoopAnswers, ReportInv, LoopType, InLoop
<1>2. CASE TurnsSpent /\ resp.calls # <<>>
  <2>1. msgs' = Sanitize(msgs) /\ pc' = "request" /\ seen' = seen
      BY <1>2 DEF TurnsSpent, Ask
  <2>2. msgs' \in Seq(Messages) /\ \A id : Reported(msgs, id) => Reported(msgs', id)
      BY <1>1, <2>1, SanitizeReports
  <2>. QED  BY <1>1, <2>1, <2>2, InsideInv
<1>3. CASE ~(TurnsSpent /\ resp.calls # <<>>)
  <2>1. Leaves
      BY <1>3, ToolModeLeaves DEF TurnsSpent, FinalAnswer, LoopStops, LoopAnswers
  <2>. QED  BY <1>1, <2>1, LeavesInv
<1>. QED  BY <1>2, <1>3

LEMMA ReportStep == RunInv /\ ReportInv /\ [Next]_vars => ReportInv'
<1>. SUFFICES ASSUME RunInv, ReportInv, [Next]_vars PROVE ReportInv'
    OBVIOUS
<1>1. CASE \/ DirectCoding \/ BeginAttempts \/ AttemptWorkflow \/ AttemptTools \/ WorkflowAnswered
           \/ WorkflowEnds \/ WorkflowCalls \/ RunBlock \/ BlocksDone \/ CommandRuns \/ NoCommand
    BY <1>1, ElsewhereReport
<1>2. CASE ModelAnswers \/ RequestOverflows \/ RequestFails \/ RequestRejected
    BY <1>2, AnswerReport, RequestReport
<1>3. CASE FirstAnswer \/ ExecuteToolCall \/ LoopCalls
    BY <1>3, FirstReport, ExecuteReport, CallsReport
<1>4. CASE ToolsDone \/ LoopNudges \/ NextTurn
    BY <1>4, TurnReport
<1>5. CASE TurnsSpent \/ FinalAnswer \/ LoopStops \/ LoopAnswers
    BY <1>5, EndOfLoopReport
<1>6. CASE UNCHANGED vars
  <2>1. UNCHANGED <<pc, msgs, req, resp, loop, todo, seen>>
      BY <1>6 DEF vars
  <2>. QED  BY <2>1 DEF ReportInv, LoopType, TurnUnderWay, AllReported, InLoop
<1>. QED  BY <1>1, <1>2, <1>3, <1>4, <1>5, <1>6 DEF Next

\* No nudge, guidance or repair of the list separates a result from the call that asked for
\* it, for any calls, limits and failures of the requests (_tool_call_loop in
\* agents/skill_runner.py, _sanitize_messages in agents/base.py).
THEOREM ResultsFollowCalls == Spec => []ResultsReachModel
<1>1. ReportInv => ResultsReachModel
  <2>. SUFFICES ASSUME ReportInv, pc = "request", req.by \in {"loop", "final"}, ~seen.compacted,
                       NEW id \in seen.executed
                PROVE  \E i \in DOMAIN msgs : msgs[i] = Message("tool", {id}) /\ id \in KnownIds(msgs, i)
      BY DEF ResultsReachModel
  <2>1. Reported(msgs, id) /\ msgs \in Seq(Messages)
      BY DEF ReportInv, AllReported, InLoop, LoopType
  <2>2. PICK i, m \in 1 .. Len(msgs) : BehindCall(msgs, i, m, id)
      BY <2>1 DEF Reported
  <2>3. msgs[i] = Message("tool", {id})
      BY <2>2 DEF BehindCall
  <2>. QED  BY <2>1, <2>2, <2>3, BehindIsKnown
<1>2. Spec => []RunInv
    BY RunStart, RunStep, PTL DEF Spec
<1>. QED  BY <1>1, <1>2, ReportStart, ReportStep, PTL DEF Spec

(***************************************************************************)
(* The limits of a run                                                     *)
(***************************************************************************)
\* The loop has not handed over: its next answer may begin another turn.
Going == pc \in {"tools", "turn", "loop"} \/ (pc = "request" /\ req.by = "loop")

\* Attempts, retries of a request and steps of a workflow stay within their limits.
CountersInv ==
    /\ run.attempt \in 1 .. MaxRetries /\ req.retries \in 0 .. InvokeRetries
    /\ wf.step \in 0 .. MaxSteps
    /\ pc = "blocks" => wf.step < MaxSteps

\* A mode that is over counts an attempt, if one is left, and no more.
Counts ==
    /\ pc' # "blocks"
    /\ run' = run \/ (run.attempt < MaxRetries /\ run' = [run EXCEPT !.attempt = @ + 1])
    /\ req' = req \/ \E by : req' = [by |-> by, retries |-> 0]

LEMMA AttemptCounts == ASSUME NEW text, NEW n, AttemptReturns(text, n) PROVE Counts
    BY DEF AttemptReturns, Counts

LEMMA AskCounts == ASSUME NEW by, NEW ms, Ask(by, ms), run' = run PROVE Counts
    BY DEF Ask, Counts

LEMMA ToolModeCounts == ASSUME NEW text, ToolModeReturns(text) PROVE Counts
    BY AttemptCounts, AskCounts DEF ToolModeReturns

LEMMA GiveUpCounts == ASSUME GiveUp PROVE Counts
<1>1. CASE req.by = "first"
    BY <1>1, ToolModeCounts DEF GiveUp
<1>2. CASE req.by # "first"
    BY <1>2 DEF GiveUp, Counts
<1>. QED  BY <1>1, <1>2

LEMMA CountsInv ==
    ASSUME RunInv, CountersInv, Counts, wf'.step = wf.step PROVE CountersInv'
<1>1. run'.attempt \in 1 .. MaxRetries
    BY SkillRunnerConstants DEF Counts, CountersInv, RunInv, RunType
<1>2. req'.retries \in 0 .. InvokeRetries
    BY SkillRunnerConstants DEF Counts, CountersInv
<1>. QED  BY <1>1, <1>2 DEF CountersInv, Counts

\* The smaller of two numbers.
LEMMA MinOfTwo ==
    ASSUME NEW a \in Nat, NEW b \in Nat PROVE Min({a, b}) \in {a, b} /\ Min({a, b}) <= b
<1>1. \E x \in {a, b} : \A y \in {a, b} : x <= y
    BY a <= b \/ b <= a
<1>2. Min({a, b}) = CHOOSE x \in {a, b} : \A y \in {a, b} : x <= y
    BY DEF Min
<1>. QED  BY <1>1, <1>2

LEMMA CountersStart == Init => CountersInv
<1>. SUFFICES ASSUME Init PROVE CountersInv
    OBVIOUS
<1>1. run.attempt = 1 /\ req.retries = 0 /\ wf.step = 0 /\ pc = "start"
    BY DEF Init, FreshWorkflow
<1>2. 1 <= MaxRetries /\ MaxRetries \in Nat /\ InvokeRetries \in Nat /\ MaxSteps \in Nat
    BY SkillRunnerConstants
<1>. QED  BY <1>1, <1>2 DEF CountersInv

LEMMA CountersStep == RunInv /\ CountersInv /\ [Next]_vars => CountersInv'
<1>. SUFFICES ASSUME RunInv, CountersInv, [Next]_vars PROVE CountersInv'
    OBVIOUS
<1>1. CASE DirectCoding \/ BeginAttempts \/ ModelAnswers \/ LoopNudges \/ LoopCalls \/ UNCHANGED vars
  <2>1. UNCHANGED <<run, req, wf>> /\ (pc' = "blocks" => pc = "blocks")
      BY <1>1 DEF DirectCoding, BeginAttempts, ModelAnswers, LoopNudges, LoopCalls, vars, RunInv, PlacesKnown,
                  Requesters
  <2>. QED  BY <2>1 DEF CountersInv
<1>2. CASE AttemptTools \/ NextTurn \/ TurnsSpent \/ FinalAnswer \/ LoopStops \/ LoopAnswers \/ CommandRuns
           \/ NoCommand \/ RequestRejected
  <2>1. wf' = wf
      BY <1>2 DEF AttemptTools, NextTurn, TurnsSpent, FinalAnswer, LoopStops, LoopAnswers, CommandRuns, NoCommand,
                  RequestRejected
  <2>2. CASE AttemptTools \/ NextTurn \/ TurnsSpent
      BY <2>1, <2>2, AskCounts, ToolModeCounts, CountsInv DEF AttemptTools, StartToolMode, NextTurn, TurnsSpent
  <2>3. CASE FinalAnswer \/ LoopStops \/ LoopAnswers
      BY <2>1, <2>3, ToolModeCounts, CountsInv DEF FinalAnswer, LoopStops, LoopAnswers
  <2>4. CASE CommandRuns \/ NoCommand
      BY <2>1, <2>4, AttemptCounts, CountsInv DEF CommandRuns, NoCommand
  <2>5. CASE RequestRejected
      BY <2>1, <2>5, GiveUpCounts, CountsInv DEF RequestRejected
  <2>. QED  BY <1>2, <2>2, <2>3, <2>4, <2>5
<1>3. CASE AttemptWorkflow
  <2>1. pc' = "workflow" /\ wf'.step = 0 /\ UNCHANGED <<run, req>> /\ MaxSteps \in Nat
      BY <1>3, SkillRunnerConstants DEF AttemptWorkflow, FreshWorkflow
  <2>. QED  BY <2>1 DEF CountersInv
<1>4. ASSUME NEW text, NEW n, WorkflowReturns(text, n) PROVE Counts
    BY <1>4, AskCounts, AttemptCounts DEF WorkflowReturns, StartToolMode
<1>5. CASE WorkflowAnswered
  <2>1. CASE WorkflowReturns("text", wf.directives) /\ UNCHANGED wf
      BY <1>4, <2>1, CountsInv
  <2>2. CASE ~(WorkflowReturns("text", wf.directives) /\ UNCHANGED wf)
    <3>1. wf.step < MaxSteps /\ wf' = [wf EXCEPT !.step = @ + 1] /\ UNCHANGED <<pc, run, req>> /\ pc = "workflow"
        BY <1>5, <2>2 DEF WorkflowAnswered
    <3>2. wf'.step = wf.step + 1
        BY <3>1 DEF RunInv, RunType
    <3>. QED  BY <3>1, <3>2, SkillRunnerConstants DEF CountersInv
  <2>. QED  BY <2>1, <2>2
<1>6. CASE WorkflowEnds
  <2>1. Counts /\ wf' = [wf EXCEPT !.wordless = TRUE]
      BY <1>4, <1>6 DEF WorkflowEnds
  <2>2. wf'.step = wf.step
      BY <2>1 DEF RunInv, RunType, WorkflowFields
  <2>. QED  BY <2>1, <2>2, CountsInv
<1>7. CASE WorkflowCalls
    BY <1>7 DEF WorkflowCalls, CountersInv
<1>8. CASE RunBlock
  <2>1. UNCHANGED <<pc, run, req>>
      BY <1>8 DEF RunBlock
  <2>2. wf'.step = wf.step
    <3>1. "step" \in DOMAIN wf
        BY DEF RunInv, RunType, WorkflowFields
    <3>2. CASE wf' = wf
        BY <3>2
    <3>3. CASE wf' # wf
      <4>1. PICK printed, recovery \in Outputs :
                wf' = [wf EXCEPT !.last = BashOutput(printed), !.directives = @ + DirectivesIn(printed),
                                 !.unheard = @ + DirectivesIn(recovery)]
          BY <1>8, <3>3 DEF RunBlock
      <4>. QED  BY <3>1, <4>1
    <3>. QED  BY <3>2, <3>3
  <2>. QED  BY <2>1, <2>2 DEF CountersInv
<1>9. CASE BlocksDone
  <2>1. wf.step < MaxSteps /\ wf'.step = wf.step + 1 /\ UNCHANGED <<run, req>> /\ pc' = "workflow"
      BY <1>9 DEF BlocksDone, CountersInv, RunInv, RunType
  <2>. QED  BY <2>1, SkillRunnerConstants DEF CountersInv
<1>10. CASE RequestOverflows
  <2>1. CASE Len(Compact(msgs)) < Len(msgs)
    <3>1. /\ req' = [req EXCEPT !.retries = Min({req.retries + 1, InvokeRetries})]
          /\ UNCHANGED <<pc, run, wf>>
        BY <1>10, <2>1 DEF RequestOverflows
    <3>2. req'.retries = Min({req.retries + 1, InvokeRetries})
        BY <3>1 DEF RunInv, RunType
    <3>3. req'.retries \in 0 .. InvokeRetries
        BY <3>2, MinOfTwo, SkillRunnerConstants DEF CountersInv
    <3>. QED  BY <3>1, <3>3 DEF CountersInv
  <2>2. CASE ~(Len(Compact(msgs)) < Len(msgs))
      BY <1>10, <2>2, GiveUpCounts, CountsInv DEF RequestOverflows
  <2>. QED  BY <2>1, <2>2
<1>11. CASE RequestFails
  <2>1. CASE req.retries + 1 >= InvokeRetries
      BY <1>11, <2>1, GiveUpCounts, CountsInv DEF RequestFails
  <2>2. CASE ~(req.retries + 1 >= InvokeRetries)
    <3>1. req'.retries = req.retries + 1 /\ UNCHANGED <<pc, run, wf>>
        BY <1>11, <2>2 DEF RequestFails, RunInv, RunType
    <3>. QED  BY <2>2, <3>1, SkillRunnerConstants DEF CountersInv
  <2>. QED  BY <2>1, <2>2
<1>12. CASE FirstAnswer
  <2>1. CASE resp.calls = <<>>
      BY <1>12, <2>1, ToolModeCounts, CountsInv DEF FirstAnswer
  <2>2. CASE resp.calls # <<>>
      BY <1>12, <2>2 DEF FirstAnswer, CountersInv
  <2>. QED  BY <2>1, <2>2
<1>13. CASE ExecuteToolCall
  <2>1. UNCHANGED <<pc, req, wf>> /\ pc = "tools"
      BY <1>13 DEF ExecuteToolCall
  <2>2. \/ run' = run \/ \E c, x : run' = [run EXCEPT !.crashes[c] = x]
        \/ run' = [run EXCEPT !.directives = @ + 1]
      BY <1>13 DEF ExecuteToolCall
  <2>3. run'.attempt = run.attempt
      BY <2>2 DEF RunInv, RunType
  <2>. QED  BY <2>1, <2>3 DEF CountersInv
<1>14. CASE ToolsDone
  <2>1. CASE loop.turn > 0 /\ SkillBroken
      BY <1>14, <2>1, ToolModeCounts, CountsInv DEF ToolsDone
  <2>2. CASE ~(loop.turn > 0 /\ SkillBroken)
      BY <1>14, <2>2 DEF ToolsDone, CountersInv
  <2>. QED  BY <2>1, <2>2
<1>. QED  BY <1>1, <1>2, <1>3, <1>5, <1>6, <1>7, <1>8, <1>9, <1>10, <1>11, <1>12, <1>13, <1>14 DEF Next

LoopFields == {"turn", "nudges", "overflow", "silent", "asked", "failed", "nudge", "silentNudged", "sameNudged"}

\* A turn is begun only below the limits, and what a breaker counts ends the loop in time.
LoopLimits ==
    /\ LoopFields \subseteq DOMAIN loop
    /\ loop.turn \in 0 .. MaxTurns /\ loop.nudges \in 0 .. 2
    /\ loop.overflow \in 0 .. MaxOverflow
    /\ loop.silent \in Nat /\ loop.silent < AbortSilent
    /\ Going /\ pc # "turn" => loop.turn < MaxTurns
    /\ Going /\ pc # "loop" => loop.overflow < MaxOverflow

\* Who leaves the loop does not come back to it.
LEMMA LeavesGoing == Leaves => ~Going'
    BY DEF Leaves, Going

LEMMA LimitsStay ==
    ASSUME LoopLimits, loop' = loop, ~Going' \/ (pc' = pc /\ req'.by = req.by) PROVE LoopLimits'
    BY DEF LoopLimits, Going

\* A loop that starts anew.
LEMMA FreshLoopIs ==
    ASSUME NEW calls
    PROVE  /\ LoopFields \subseteq DOMAIN FreshLoop(calls)
           /\ FreshLoop(calls).turn = 0 /\ FreshLoop(calls).nudges = 0 /\ FreshLoop(calls).overflow = 0
           /\ FreshLoop(calls).silent = 0
           /\ FreshLoop(calls).asked = [c \in Calls |-> Cardinality({i \in DOMAIN calls : calls[i] = c})]
    BY DEF FreshLoop, EmptyLoop, LoopFields

LEMMA FreshLimits ==
    ASSUME NEW calls, loop' = FreshLoop(calls) PROVE LoopLimits'
<1>1. /\ LoopFields \subseteq DOMAIN loop' /\ loop'.turn = 0 /\ loop'.nudges = 0 /\ loop'.overflow = 0
      /\ loop'.silent = 0
    BY FreshLoopIs
<1>2. MaxTurns \in Nat \ {0} /\ MaxOverflow \in Nat \ {0} /\ AbortSilent \in Nat /\ 0 < AbortSilent
    BY SkillRunnerConstants
<1>. QED  BY <1>1, <1>2 DEF LoopLimits

LEMMA LimitsStart == Init => LoopLimits
<1>. SUFFICES ASSUME Init PROVE LoopLimits
    OBVIOUS
<1>1. /\ LoopFields \subseteq DOMAIN loop /\ loop.turn = 0 /\ loop.nudges = 0 /\ loop.overflow = 0
      /\ loop.silent = 0
    BY FreshLoopIs DEF Init
<1>2. MaxTurns \in Nat \ {0} /\ MaxOverflow \in Nat \ {0} /\ AbortSilent \in Nat /\ 0 < AbortSilent
    BY SkillRunnerConstants
<1>. QED  BY <1>1, <1>2 DEF LoopLimits

\* The steps that end the loop, and those outside it.
Leaving ==
    \/ DirectCoding \/ BeginAttempts \/ AttemptWorkflow \/ AttemptTools \/ WorkflowAnswered \/ WorkflowEnds
    \/ WorkflowCalls \/ RunBlock \/ BlocksDone \/ CommandRuns \/ NoCommand \/ TurnsSpent \/ FinalAnswer
    \/ LoopStops \/ LoopAnswers \/ RequestRejected

LEMMA LeavingIs == RunInv /\ Leaving => ~Going' /\ UNCHANGED <<loop, resp>> /\ seen'.ran = seen.ran
<1>. SUFFICES ASSUME RunInv, Leaving PROVE ~Going' /\ UNCHANGED <<loop, resp>> /\ seen'.ran = seen.ran
    OBVIOUS
<1>1. ASSUME NEW text, NEW n, WorkflowReturns(text, n) PROVE Leaves
    BY <1>1, AskLeaves, AttemptLeaves DEF WorkflowReturns, StartToolMode
<1>2. CASE DirectCoding \/ BeginAttempts \/ AttemptWorkflow \/ WorkflowCalls \/ BlocksDone
    BY <1>2 DEF DirectCoding, BeginAttempts, AttemptWorkflow, WorkflowCalls, BlocksDone, Going
<1>3. CASE RunBlock
  <2>1. pc' = "blocks" /\ UNCHANGED <<loop, resp>>
        /\ (seen' = seen \/ \E n : seen' = [seen EXCEPT !.blocks = TRUE, !.emitted = n])
      BY <1>3 DEF RunBlock
  <2>. QED  BY <2>1 DEF Going, RunInv, RunType
<1>4. CASE AttemptTools
    BY <1>4, AskLeaves, LeavesGoing DEF AttemptTools, StartToolMode
<1>5. CASE WorkflowAnswered
  <2>1. CASE WorkflowReturns("text", wf.directives)
      BY <1>1, <1>5, <2>1, LeavesGoing DEF WorkflowAnswered
  <2>2. CASE ~WorkflowReturns("text", wf.directives)
      BY <1>5, <2>2 DEF WorkflowAnswered, Going
  <2>. QED  BY <2>1, <2>2
<1>6. CASE WorkflowEnds
    BY <1>1, <1>6, LeavesGoing DEF WorkflowEnds
<1>7. CASE CommandRuns
  <2>1. Leaves /\ UNCHANGED <<loop, resp>> /\ \E n : seen' = [seen EXCEPT !.emitted = @ + n]
      BY <1>7, AttemptLeaves DEF CommandRuns
  <2>. QED  BY <2>1, LeavesGoing DEF RunInv, RunType
<1>8. CASE NoCommand
    BY <1>8, AttemptLeaves, LeavesGoing DEF NoCommand
<1>9. CASE TurnsSpent
  <2>1. UNCHANGED <<loop, resp, seen>>
      BY <1>9 DEF TurnsSpent
  <2>2. CASE resp.calls # <<>>
      BY <1>9, <2>1, <2>2 DEF TurnsSpent, Ask, Going
  <2>3. CASE resp.calls = <<>>
      BY <1>9, <2>1, <2>3, ToolModeLeaves, LeavesGoing DEF TurnsSpent
  <2>. QED  BY <2>2, <2>3
<1>10. CASE FinalAnswer \/ LoopAnswers
    BY <1>10, ToolModeLeaves, LeavesGoing DEF FinalAnswer, LoopAnswers
<1>11. CASE LoopStops
  <2>1. Leaves /\ UNCHANGED <<loop, resp>> /\ seen' = [seen EXCEPT !.stopped = TRUE]
      BY <1>11, ToolModeLeaves DEF LoopStops
  <2>. QED  BY <2>1, LeavesGoing DEF RunInv, RunType
<1>12. CASE RequestRejected
    BY <1>12, GiveUpLeaves, LeavesGoing DEF RequestRejected
<1>. QED  BY <1>2, <1>3, <1>4, <1>5, <1>6, <1>7, <1>8, <1>9, <1>10, <1>11, <1>12 DEF Leaving

\* A request that is tried again stays that of the same mode.
LEMMA RetryIs ==
    RunInv /\ (RequestOverflows \/ RequestFails)
    => /\ ~Going' \/ (pc' = pc /\ req'.by = req.by)
       /\ pc = "request" /\ UNCHANGED <<loop, resp>> /\ seen'.ran = seen.ran
<1>. SUFFICES ASSUME RunInv, RequestOverflows \/ RequestFails
              PROVE  /\ ~Going' \/ (pc' = pc /\ req'.by = req.by)
                     /\ pc = "request" /\ UNCHANGED <<loop, resp>> /\ seen'.ran = seen.ran
    OBVIOUS
<1>1. pc = "request" /\ UNCHANGED <<loop, resp>> /\ (seen' = seen \/ seen' = [seen EXCEPT !.compacted = TRUE])
    BY DEF RequestOverflows, RequestFails
<1>2. seen'.ran = seen.ran
    BY <1>1 DEF RunInv, RunType
<1>3. GiveUp \/ (pc' = pc /\ \E r : req' = [req EXCEPT !.retries = r])
    BY DEF RequestOverflows, RequestFails
<1>4. ~Going' \/ (pc' = pc /\ req'.by = req.by)
  <2>1. CASE GiveUp
      BY <2>1, GiveUpLeaves, LeavesGoing
  <2>2. CASE pc' = pc /\ \E r : req' = [req EXCEPT !.retries = r]
      BY <2>2 DEF RunInv, RunType
  <2>. QED  BY <1>3, <2>1, <2>2
<1>. QED  BY <1>1, <1>2, <1>4

LEMMA LimitsStep == RunInv /\ LoopLimits /\ [Next]_vars => LoopLimits'
<1>. SUFFICES ASSUME RunInv, LoopLimits, [Next]_vars PROVE LoopLimits'
    OBVIOUS
<1>0. /\ LoopFields \subseteq DOMAIN loop /\ loop.turn \in 0 .. MaxTurns /\ loop.nudges \in 0 .. 2
      /\ loop.overflow \in 0 .. MaxOverflow /\ loop.silent \in Nat /\ loop.silent < AbortSilent
      /\ MaxTurns \in Nat \ {0} /\ MaxOverflow \in Nat \ {0} /\ AbortSilent \in Nat
    BY SkillRunnerConstants DEF LoopLimits
<1>1. CASE Leaving
    BY <1>1, LeavingIs, LimitsStay
<1>2. CASE RequestOverflows \/ RequestFails
    BY <1>2, RetryIs, LimitsStay
<1>3. CASE ModelAnswers
  <2>1. pc' = req.by /\ pc = "request" /\ req' = req
      BY <1>3 DEF ModelAnswers
  <2>2. CASE req.by = "loop"
    <3>1. PICK n : loop' = [loop EXCEPT !.overflow = n] /\ n \in {0, loop.overflow + 1}
        BY <1>3, <2>2 DEF ModelAnswers
    <3>2. loop.overflow < MaxOverflow /\ loop.turn < MaxTurns
        BY <2>1, <2>2 DEF LoopLimits, Going
    <3>3. /\ LoopFields \subseteq DOMAIN loop' /\ loop'.turn = loop.turn /\ loop'.nudges = loop.nudges
          /\ loop'.overflow = n /\ loop'.silent = loop.silent
        BY <1>0, <3>1 DEF LoopFields
    <3>4. n \in 0 .. MaxOverflow
        BY <1>0, <3>1, <3>2
    <3>. QED  BY <1>0, <2>1, <2>2, <3>2, <3>3, <3>4 DEF LoopLimits
  <2>3. CASE req.by # "loop"
    <3>1. ~Going' /\ loop' = loop
        BY <1>3, <2>1, <2>3 DEF ModelAnswers, Going, RunInv, PlacesKnown, Requesters
    <3>. QED  BY <3>1, LimitsStay
  <2>. QED  BY <2>2, <2>3
<1>4. CASE FirstAnswer
  <2>1. CASE resp.calls = <<>>
    <3>1. Leaves /\ loop' = loop
        BY <1>4, <2>1, ToolModeLeaves DEF FirstAnswer
    <3>. QED  BY <3>1, LeavesGoing, LimitsStay
  <2>2. CASE resp.calls # <<>>
      BY <1>4, <2>2, FreshLimits DEF FirstAnswer
  <2>. QED  BY <2>1, <2>2
<1>5. CASE ExecuteToolCall
  <2>1. pc = "tools" /\ pc' = pc /\ (loop' = loop \/ loop' = [loop EXCEPT !.failed = TRUE])
      BY <1>5 DEF ExecuteToolCall
  <2>2. /\ LoopFields \subseteq DOMAIN loop' /\ loop'.turn = loop.turn /\ loop'.nudges = loop.nudges
        /\ loop'.overflow = loop.overflow /\ loop'.silent = loop.silent
      BY <1>0, <2>1 DEF LoopFields
  <2>3. Going
      BY <2>1 DEF Going
  <2>. QED  BY <2>1, <2>2, <2>3 DEF LoopLimits
<1>6. CASE ToolsDone
  <2>1. \E a, b : loop' = [loop EXCEPT !.turn = @ + 1, !.nudge = "none", !.silentNudged = a, !.sameNudged = b]
      BY <1>6 DEF ToolsDone
  <2>2. /\ LoopFields \subseteq DOMAIN loop' /\ loop'.turn = loop.turn + 1 /\ loop'.nudges = loop.nudges
        /\ loop'.overflow = loop.overflow /\ loop'.silent = loop.silent
      BY <1>0, <2>1 DEF LoopFields
  <2>3. loop.turn < MaxTurns /\ loop.overflow < MaxOverflow
      BY <1>6 DEF ToolsDone, LoopLimits, Going
  <2>4. ~Going' \/ pc' = "turn"
    <3>1. CASE loop.turn > 0 /\ SkillBroken
        BY <1>6, <3>1, ToolModeLeaves, LeavesGoing DEF ToolsDone
    <3>2. CASE ~(loop.turn > 0 /\ SkillBroken)
        BY <1>6, <3>2 DEF ToolsDone
    <3>. QED  BY <3>1, <3>2
  <2>5. loop.turn + 1 \in 0 .. MaxTurns
      BY <1>0, <2>3
  <2>. QED  BY <1>0, <2>2, <2>3, <2>4, <2>5 DEF LoopLimits
<1>7. CASE NextTurn
  <2>1. pc = "turn" /\ loop.turn < MaxTurns /\ loop' = loop /\ pc' = "request"
      BY <1>7 DEF NextTurn, Ask
  <2>2. loop.overflow < MaxOverflow
      BY <2>1 DEF LoopLimits, Going
  <2>. QED  BY <1>0, <2>1, <2>2 DEF LoopLimits
<1>8. CASE LoopNudges
  <2>1. /\ pc = "loop" /\ pc' = "turn" /\ loop.nudges < 2 /\ ~(loop.overflow >= MaxOverflow)
        /\ loop' = [loop EXCEPT !.nudges = @ + 1, !.turn = @ + 1]
      BY <1>8 DEF LoopNudges, WantsNudge, MustStop
  <2>2. loop.turn < MaxTurns
      BY <2>1 DEF LoopLimits, Going
  <2>3. /\ LoopFields \subseteq DOMAIN loop' /\ loop'.turn = loop.turn + 1 /\ loop'.nudges = loop.nudges + 1
        /\ loop'.overflow = loop.overflow /\ loop'.silent = loop.silent
      BY <1>0, <2>1 DEF LoopFields
  <2>4. loop'.turn \in 0 .. MaxTurns /\ loop'.nudges \in 0 .. 2 /\ loop'.overflow < MaxOverflow
      BY <1>0, <2>1, <2>2, <2>3
  <2>. QED  BY <1>0, <2>1, <2>3, <2>4 DEF LoopLimits
<1>9. CASE LoopCalls
  <2>1. /\ pc = "loop" /\ pc' = "tools" /\ ~(loop.overflow >= MaxOverflow) /\ ~(Silents >= AbortSilent)
        /\ \E b, c : loop' = [loop EXCEPT !.silent = Silents, !.asked = b, !.failed = FALSE, !.nudge = c]
      BY <1>9 DEF LoopCalls, MustStop
  <2>2. loop.turn < MaxTurns
      BY <2>1 DEF LoopLimits, Going
  <2>3. /\ LoopFields \subseteq DOMAIN loop' /\ loop'.turn = loop.turn /\ loop'.nudges = loop.nudges
        /\ loop'.overflow = loop.overflow /\ loop'.silent = Silents
      BY <1>0, <2>1 DEF LoopFields
  <2>4. Silents \in Nat
      BY <1>0 DEF Silents
  <2>5. Silents < AbortSilent /\ loop.overflow < MaxOverflow
      BY <1>0, <2>1, <2>4
  <2>. QED  BY <1>0, <2>1, <2>2, <2>3, <2>4, <2>5 DEF LoopLimits
<1>10. CASE UNCHANGED vars
    BY <1>10 DEF vars, LoopLimits, Going
<1>. QED  BY <1>1, <1>2, <1>3, <1>4, <1>5, <1>6, <1>7, <1>8, <1>9, <1>10 DEF Next, Leaving

CountIn(calls, c) == Cardinality({k \in DOMAIN calls : calls[k] = c})

\* No more often than the breaker for repeated calls lets pass, or than one answer can ask.
Few(n) == n < AbortSame \/ n <= MaxBatch

\* A call has been executed as often as it was asked for, less what is still to do.
AskedInv ==
    /\ Len(resp.calls) <= MaxBatch
    /\ loop.asked \in [Calls -> Nat] /\ seen.ran \in [Calls -> Nat]
    /\ \A c \in Calls : Few(loop.asked[c]) /\ Few(seen.ran[c])
    /\ Going => \A c \in Calls : seen.ran[c] <= loop.asked[c]
    /\ pc = "tools" => \A c \in Calls : seen.ran[c] + CountIn(todo, c) <= loop.asked[c]

LEMMA CountType ==
    ASSUME NEW calls \in Seq(Calls), NEW c
    PROVE  CountIn(calls, c) \in Nat /\ CountIn(calls, c) <= Len(calls)
<1>1. DOMAIN calls = 1 .. Len(calls) /\ Len(calls) \in Nat
    BY LenProperties
<1>2. IsFiniteSet(1 .. Len(calls)) /\ Cardinality(1 .. Len(calls)) = Len(calls)
    BY <1>1, FS_Interval
<1>3. {k \in DOMAIN calls : calls[k] = c} \subseteq 1 .. Len(calls)
    BY <1>1
<1>. QED  BY <1>2, <1>3, FS_Subset, FS_CardinalityType DEF CountIn

\* The call at the head is one of its kind more than there are behind it.
LEMMA CountBehind ==
    ASSUME NEW calls \in Seq(Calls), calls # <<>>, NEW c
    PROVE  /\ CountIn(Tail(calls), c) <= CountIn(calls, c)
           /\ Head(calls) = c => CountIn(Tail(calls), c) + 1 <= CountIn(calls, c)
<1>. DEFINE A == {k \in DOMAIN calls : calls[k] = c}
            B == {k \in DOMAIN Tail(calls) : Tail(calls)[k] = c}
            f == [k \in B |-> k + 1]
<1>1. /\ Tail(calls) \in Seq(Calls) /\ Len(calls) \in Nat /\ DOMAIN calls = 1 .. Len(calls)
      /\ Len(Tail(calls)) = Len(calls) - 1 /\ DOMAIN Tail(calls) = 1 .. Len(Tail(calls))
      /\ \A k \in 1 .. Len(Tail(calls)) : Tail(calls)[k] = calls[k + 1]
      /\ Head(calls) = calls[1] /\ Len(calls) # 0
    BY HeadTailProperties, LenProperties, EmptySeq
<1>2. B \subseteq 1 .. (Len(calls) - 1) /\ \A k \in B : calls[k + 1] = c
    BY <1>1
<1>3. \A k \in B : k + 1 \in A \ {1}
  <2>1. \A k \in B : k + 1 \in 2 .. Len(calls)
      BY <1>1, <1>2
  <2>. QED  BY <1>1, <1>2, <2>1
<1>4. \A j, k \in B : j + 1 = k + 1 => j = k
    BY <1>1, <1>2
<1>5. IsFiniteSet(A) /\ Cardinality(A) \in Nat
  <2>1. A \subseteq 1 .. Len(calls) /\ IsFiniteSet(1 .. Len(calls))
      BY <1>1, FS_Interval
  <2>. QED  BY <2>1, FS_Subset, FS_CardinalityType
<1>6. Head(calls) = c => 1 \in A
    BY <1>1
<1>. HIDE DEF A, B
<1>7. f \in Injection(B, A \ {1})
    BY <1>3, <1>4 DEF Injection, IsInjective
<1>8. IsFiniteSet(A \ {1})
    BY <1>5, FS_Subset
<1>9. Cardinality(B) <= Cardinality(A \ {1}) /\ Cardinality(B) \in Nat /\ Cardinality(A \ {1}) \in Nat
  <2>. HIDE DEF f
  <2>1. IsFiniteSet(B) /\ Cardinality(B) <= Cardinality(A \ {1})
      BY <1>7, <1>8, FS_Injection
  <2>. QED  BY <1>8, <2>1, FS_CardinalityType
<1>10. Cardinality(A \ {1}) <= Cardinality(A)
    BY <1>5, FS_Subset
<1>11. 1 \in A => Cardinality(A \ {1}) = Cardinality(A) - 1
    BY <1>5, FS_RemoveElement
<1>12. CountIn(calls, c) = Cardinality(A) /\ CountIn(Tail(calls), c) = Cardinality(B)
    BY DEF CountIn, A, B
<1>. QED  BY <1>5, <1>6, <1>9, <1>10, <1>11, <1>12

LEMMA FewerAreFew ==
    ASSUME NEW m \in Nat, NEW n \in Nat, m <= n, Few(n) PROVE Few(m)
    BY SkillRunnerConstants DEF Few

LEMMA AskedStart == Init => AskedInv
<1>. SUFFICES ASSUME Init PROVE AskedInv
    OBVIOUS
<1>1. /\ pc = "start" /\ resp = NoAnswer /\ seen.ran = [c \in Calls |-> 0]
      /\ loop.asked = [c \in Calls |-> Cardinality({i \in DOMAIN <<>> : <<>>[i] = c})]
    BY FreshLoopIs DEF Init
<1>2. \A c \in Calls : {i \in DOMAIN <<>> : <<>>[i] = c} = {}
    OBVIOUS
<1>3. loop.asked = [c \in Calls |-> 0]
    BY <1>1, <1>2, FS_EmptySet
<1>4. Few(0) /\ Len(resp.calls) <= MaxBatch
    BY <1>1, SkillRunnerConstants, EmptySeq DEF Few, NoAnswer
<1>5. ~Going
    BY <1>1 DEF Going
<1>. QED  BY <1>1, <1>3, <1>4, <1>5 DEF AskedInv

\* Whoever leaves the loop, or stays at its request, executes and counts nothing.
LEMMA AskedStays ==
    ASSUME AskedInv, UNCHANGED <<loop, resp>>, seen'.ran = seen.ran,
           ~Going' \/ (pc = "request" /\ pc' = pc /\ req'.by = req.by)
    PROVE  AskedInv'
    BY DEF AskedInv, Going

\* The calls of an answer are fewer than the model may make at once.
LEMMA AnswerIs == ModelAnswers => resp'.calls \in Seq(Calls) /\ Len(resp'.calls) <= MaxBatch
<1>. SUFFICES ASSUME ModelAnswers PROVE resp'.calls \in Seq(Calls) /\ Len(resp'.calls) <= MaxBatch
    OBVIOUS
<1>1. MaxBatch \in Nat
    BY SkillRunnerConstants
<1>2. resp'.calls = <<>> \/ resp'.calls \in Batches(Calls)
    BY DEF ModelAnswers, Answers
<1>3. CASE resp'.calls = <<>>
    BY <1>1, <1>3, EmptySeq
<1>4. CASE resp'.calls \in Batches(Calls)
  <2>1. PICK n \in 0 .. MaxBatch : resp'.calls \in [1 .. n -> Calls]
      BY <1>4 DEF Batches
  <2>2. resp'.calls \in Seq(Calls) /\ Len(resp'.calls) = n
      BY <1>1, <2>1, LenProperties
  <2>. QED  BY <1>1, <2>1, <2>2
<1>. QED  BY <1>2, <1>3, <1>4

\* The most repeated call was not asked for too often, so none was.
LEMMA WorstIs ==
    ASSUME AskedInv, resp.calls \in Seq(Calls), ~(Worst(Asked) >= AbortSame), NEW c \in Calls
    PROVE  Asked[c] \in Nat /\ Asked[c] < AbortSame /\ Asked[c] = loop.asked[c] + CountIn(resp.calls, c)
<1>. DEFINE top == AbortSame + MaxBatch + MaxBatch
            S == {Asked[d] : d \in Calls}
<1>1. AbortSame \in Nat /\ MaxBatch \in Nat
    BY SkillRunnerConstants
<1>2. ASSUME NEW d \in Calls PROVE Asked[d] = loop.asked[d] + CountIn(resp.calls, d) /\ Asked[d] \in 0 .. top
  <2>1. Asked[d] = loop.asked[d] + CountIn(resp.calls, d)
      BY DEF Asked, CountIn
  <2>2. loop.asked[d] \in Nat /\ loop.asked[d] <= AbortSame + MaxBatch
      BY <1>1 DEF AskedInv, Few
  <2>3. CountIn(resp.calls, d) \in Nat /\ CountIn(resp.calls, d) <= Len(resp.calls) /\ Len(resp.calls) <= MaxBatch
        /\ Len(resp.calls) \in Nat
      BY CountType, LenProperties DEF AskedInv
  <2>. QED  BY <1>1, <2>1, <2>2, <2>3
<1>3. S \subseteq 0 .. top /\ Asked[c] \in S /\ top \in Nat
    BY <1>1, <1>2
<1>4. Worst(Asked) = Max(S)
    BY DEF Worst
<1>. HIDE DEF S, top
<1>5. Max(S) \in S /\ Asked[c] <= Max(S)
    BY <1>3, MaxOfBounded
<1>6. Asked[c] \in 0 .. top /\ Max(S) \in 0 .. top
    BY <1>2, <1>3, <1>5
<1>. QED  BY <1>1, <1>2, <1>3, <1>4, <1>5, <1>6

\* Every call of the turn under way is executed once.
LEMMA ExecuteAsked == RunInv /\ ReportInv /\ LoopLimits /\ AskedInv /\ ExecuteToolCall => AskedInv'
<1>. SUFFICES ASSUME RunInv, ReportInv, LoopLimits, AskedInv, ExecuteToolCall PROVE AskedInv'
    OBVIOUS
<1>1. /\ pc = "tools" /\ pc' = pc /\ todo # <<>> /\ todo' = Tail(todo) /\ resp' = resp
      /\ loop' = loop \/ loop' = [loop EXCEPT !.failed = TRUE]
    BY DEF ExecuteToolCall
<1>2. todo \in Seq(Calls)
    BY <1>1 DEF ReportInv, TurnUnderWay
<1>3. PICK id : LET after == [seen EXCEPT !.executed = @ \cup {id}, !.ran[Head(todo)] = @ + 1]
                IN  seen' = after \/ seen' = [after EXCEPT !.emitted = @ + 1]
    BY DEF ExecuteToolCall
<1>4. seen'.ran = [seen.ran EXCEPT ![Head(todo)] = @ + 1]
    BY <1>3 DEF RunInv, RunType
<1>5. loop'.asked = loop.asked
    BY <1>1 DEF LoopLimits, LoopFields
<1>6. Head(todo) \in Calls /\ Tail(todo) \in Seq(Calls)
    BY <1>1, <1>2, HeadTailProperties
<1>7. seen'.ran \in [Calls -> Nat]
    BY <1>4, <1>6 DEF AskedInv
<1>8. ASSUME NEW c \in Calls
      PROVE  seen'.ran[c] + CountIn(todo', c) <= loop.asked[c] /\ seen'.ran[c] <= loop.asked[c]
             /\ Few(seen'.ran[c])
  <2>1. seen.ran[c] + CountIn(todo, c) <= loop.asked[c] /\ seen.ran[c] \in Nat /\ loop.asked[c] \in Nat
        /\ Few(loop.asked[c])
      BY <1>1 DEF AskedInv
  <2>2. CountIn(todo, c) \in Nat /\ CountIn(todo', c) \in Nat
      BY <1>1, <1>2, <1>6, CountType
  <2>3. /\ CountIn(todo', c) <= CountIn(todo, c)
        /\ Head(todo) = c => CountIn(todo', c) + 1 <= CountIn(todo, c)
      BY <1>1, <1>2, CountBehind
  <2>4. seen'.ran[c] = IF Head(todo) = c THEN seen.ran[c] + 1 ELSE seen.ran[c]
      BY <1>4 DEF AskedInv
  <2>5. seen'.ran[c] + CountIn(todo', c) <= loop.asked[c] /\ seen'.ran[c] \in Nat
      BY <2>1, <2>2, <2>3, <2>4
  <2>6. seen'.ran[c] <= loop.asked[c]
      BY <2>1, <2>2, <2>5
  <2>. QED  BY <2>1, <2>5, <2>6, FewerAreFew
<1>. QED  BY <1>1, <1>5, <1>7, <1>8 DEF AskedInv

LEMMA AskedStep == RunInv /\ ReportInv /\ LoopLimits /\ AskedInv /\ [Next]_vars => AskedInv'
<1>. SUFFICES ASSUME RunInv, ReportInv, LoopLimits, AskedInv, [Next]_vars PROVE AskedInv'
    OBVIOUS
<1>0. resp.calls \in Seq(Calls) /\ "asked" \in DOMAIN loop
    BY DEF ReportInv, LoopType, LoopLimits, LoopFields
<1>1. CASE Leaving
    BY <1>1, LeavingIs, AskedStays
<1>2. CASE RequestOverflows \/ RequestFails
    BY <1>2, RetryIs, AskedStays
<1>3. CASE ModelAnswers
  <2>1. pc' = req.by /\ pc = "request" /\ req' = req /\ seen' = seen
        /\ (loop' = loop \/ \E n : loop' = [loop EXCEPT !.overflow = n])
      BY <1>3 DEF ModelAnswers
  <2>2. loop'.asked = loop.asked
      BY <1>0, <2>1
  <2>3. pc' # "tools" /\ (Going' => Going)
      BY <2>1 DEF Going, RunInv, PlacesKnown, Requesters
  <2>. QED  BY <1>3, <2>1, <2>2, <2>3, AnswerIs DEF AskedInv
<1>4. CASE FirstAnswer
  <2>1. seen'.ran = [c \in Calls |-> 0] /\ resp' = resp
      BY <1>4 DEF FirstAnswer, RunInv, RunType
  <2>2. Few(0)
      BY SkillRunnerConstants DEF Few
  <2>3. CASE resp.calls = <<>>
    <3>1. ~Going' /\ loop' = loop
        BY <1>4, <2>3, ToolModeLeaves, LeavesGoing DEF FirstAnswer
    <3>2. pc' # "tools"
        BY <3>1 DEF Going
    <3>. QED  BY <2>1, <2>2, <3>1, <3>2 DEF AskedInv
  <2>4. CASE resp.calls # <<>>
    <3>1. loop'.asked = [c \in Calls |-> CountIn(resp.calls, c)] /\ todo' = resp.calls
        BY <1>4, <2>4, FreshLoopIs DEF FirstAnswer, CountIn
    <3>2. ASSUME NEW c \in Calls
          PROVE  CountIn(resp.calls, c) \in Nat /\ Few(CountIn(resp.calls, c))
      <4>1. CountIn(resp.calls, c) \in Nat /\ CountIn(resp.calls, c) <= Len(resp.calls) /\ Len(resp.calls) \in Nat
          BY <1>0, CountType, LenProperties
      <4>2. Len(resp.calls) <= MaxBatch /\ MaxBatch \in Nat
          BY SkillRunnerConstants DEF AskedInv
      <4>. QED  BY <4>1, <4>2 DEF Few
    <3>3. \A c \in Calls : 0 + CountIn(resp.calls, c) <= CountIn(resp.calls, c) /\ 0 <= CountIn(resp.calls, c)
        BY <3>2
    <3>. QED  BY <2>1, <2>2, <3>1, <3>2, <3>3 DEF AskedInv
  <2>. QED  BY <2>3, <2>4
<1>5. CASE ExecuteToolCall
    BY <1>5, ExecuteAsked
<1>6. CASE ToolsDone
  <2>1. pc = "tools" /\ resp' = resp /\ seen'.ran = seen.ran /\ pc' # "tools"
        /\ \E a, b : loop' = [loop EXCEPT !.turn = @ + 1, !.nudge = "none", !.silentNudged = a, !.sameNudged = b]
    <3>1. resp' = resp /\ pc = "tools"
          /\ \E a, b : loop' = [loop EXCEPT !.turn = @ + 1, !.nudge = "none", !.silentNudged = a, !.sameNudged = b]
        BY <1>6 DEF ToolsDone
    <3>2. seen' = seen \/ seen' = [seen EXCEPT !.stopped = TRUE]
        BY <1>6 DEF ToolsDone
    <3>3. pc' # "tools"
      <4>1. CASE loop.turn > 0 /\ SkillBroken
          BY <1>6, <4>1, ToolModeLeaves DEF ToolsDone, Leaves
      <4>2. CASE ~(loop.turn > 0 /\ SkillBroken)
          BY <1>6, <4>2 DEF ToolsDone
      <4>. QED  BY <4>1, <4>2
    <3>. QED  BY <3>1, <3>2, <3>3 DEF RunInv, RunType
  <2>2. loop'.asked = loop.asked
      BY <1>0, <2>1
  <2>3. Going
      BY <2>1 DEF Going
  <2>. QED  BY <2>1, <2>2, <2>3 DEF AskedInv
<1>7. CASE NextTurn
    BY <1>7 DEF NextTurn, Ask, AskedInv, Going
<1>8. CASE LoopNudges
  <2>1. /\ pc = "loop" /\ pc' = "turn" /\ UNCHANGED <<resp, seen>>
        /\ loop' = [loop EXCEPT !.nudges = @ + 1, !.turn = @ + 1]
      BY <1>8 DEF LoopNudges
  <2>2. loop'.asked = loop.asked /\ Going
      BY <1>0, <2>1 DEF Going
  <2>. QED  BY <2>1, <2>2 DEF AskedInv
<1>9. CASE LoopCalls
  <2>1. /\ pc = "loop" /\ pc' = "tools" /\ UNCHANGED <<resp, seen>> /\ todo' = resp.calls
        /\ ~(Worst(Asked) >= AbortSame)
        /\ \E a, b, c : loop' = [loop EXCEPT !.silent = a, !.asked = Asked, !.failed = b, !.nudge = c]
      BY <1>9 DEF LoopCalls, MustStop
  <2>2. loop'.asked = Asked
      BY <1>0, <2>1
  <2>3. Asked = [c \in Calls |-> Asked[c]]
      BY DEF Asked
  <2>4. ASSUME NEW c \in Calls
        PROVE  /\ Asked[c] \in Nat /\ Few(Asked[c])
               /\ seen.ran[c] + CountIn(resp.calls, c) <= Asked[c] /\ seen.ran[c] <= Asked[c]
    <3>1. Asked[c] \in Nat /\ Asked[c] < AbortSame /\ Asked[c] = loop.asked[c] + CountIn(resp.calls, c)
        BY <1>0, <2>1, WorstIs
    <3>2. seen.ran[c] \in Nat /\ loop.asked[c] \in Nat /\ seen.ran[c] <= loop.asked[c]
        BY <2>1 DEF AskedInv, Going
    <3>3. CountIn(resp.calls, c) \in Nat
        BY <1>0, CountType
    <3>. QED  BY <3>1, <3>2, <3>3 DEF Few
  <2>5. loop'.asked \in [Calls -> Nat]
      BY <2>2, <2>3, <2>4
  <2>. QED  BY <2>1, <2>2, <2>4, <2>5 DEF AskedInv
<1>10. CASE UNCHANGED vars
    BY <1>10 DEF vars, AskedInv, Going
<1>. QED  BY <1>1, <1>2, <1>3, <1>4, <1>5, <1>6, <1>7, <1>8, <1>9, <1>10 DEF Next, Leaving

\* What bounds a run: attempts, retries of a request, turns and nudges of the loop, steps of the
\* workflow; a loop that overflows or stays silent is ended by its breakers; and within a
\* tool-call loop the same call is executed less often than the breaker's limit, or no more
\* often than one answer can ask for it.
WithinLimits ==
    /\ run.attempt \in 1 .. MaxRetries /\ req.retries \in 0 .. InvokeRetries
    /\ loop.turn \in 0 .. MaxTurns /\ loop.nudges \in 0 .. 2
    /\ loop.overflow <= MaxOverflow /\ loop.silent < AbortSilent
    /\ wf.step \in 0 .. MaxSteps
    /\ \A c \in Calls : seen.ran[c] < AbortSame \/ seen.ran[c] <= MaxBatch

\* Whatever the model answers and however requests fail, a run stays within its limits
\* (MAX_RETRIES, max_tool_turns and the breakers of _tool_call_loop in agents/skill_runner.py,
\* max_retries of _invoke in agents/base.py, max_steps in skills/executor.py).
THEOREM RunsStayWithinLimits == Spec => []WithinLimits
<1>1. CountersInv /\ LoopLimits /\ AskedInv => WithinLimits
    BY DEF CountersInv, LoopLimits, AskedInv, Few, WithinLimits
<1>2. Spec => []RunInv
    BY RunStart, RunStep, PTL DEF Spec
<1>3. Spec => []ReportInv
    BY <1>2, ReportStart, ReportStep, PTL DEF Spec
<1>. QED  BY <1>1, <1>2, <1>3, CountersStart, CountersStep, LimitsStart, LimitsStep, AskedStart, AskedStep,
             PTL DEF Spec

=============================================================================

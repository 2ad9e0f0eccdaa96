------------------------------ MODULE Settings ------------------------------
(***************************************************************************)
(* What one user has chosen - models per agent, TTS voice, disabled skills *)
(* - and how turns come to use it.  The same choice is kept in several     *)
(* places: the session's config.yaml, the Session object in memory, the    *)
(* agents an interface has cached, and the models a running turn is bound  *)
(* to (memory.py, app.py, llm.py, agents/router.py, agents/chat.py,        *)
(* interfaces/common.py).  Two parties write it: the bot, through /model   *)
(* and through the __directive__ lines of skills, and the command line of  *)
(* the config skill (skills/config/scripts/config.py), which runs as       *)
(* another process while the bot goes on.                                  *)
(*                                                                         *)
(* A model selector is a sequence of names, as in "smart,fast".  A name is *)
(* a key of the models section or the name of a model itself.  Private     *)
(* mode, the other directive, belongs to SessionMemory.                    *)
(***************************************************************************)
EXTENDS Integers, Sequences, FiniteSets, SequencesExt

CONSTANTS
    Turns,         \* turns of the user's chats
    Threads,       \* cache keys: the main chat and the threads
    Kinds,         \* agent types a turn asks for: "chat", "vision"
    Paths,         \* agent types that can be overridden
    Keys,          \* keys of the models section, in order KeyOrder
    KeyOrder,
    Raw,           \* names of models that are no keys
    ModelOf,       \* the model field of each key
    Local,         \* keys whose provider has the backend "pawlia"
    Selectors,     \* selectors that commands enter
    Skills,        \* names of skills
    Bundled,       \* skills that come with the bot
    Voices,        \* TTS voices
    None,          \* no value
    MaxEdits,      \* bound: commands that change a setting
    MaxReloads,    \* bound: /reload commands
    MaxRestarts    \* bound: restarts of the process

ASSUME SettingsConstants ==
    /\ Range(KeyOrder) = Keys /\ Len(KeyOrder) = Cardinality(Keys)
    /\ Local \subseteq Keys /\ Local # {} /\ Keys \cap Raw = {}
    /\ ModelOf \in [Keys -> Raw]
    /\ Paths \subseteq {"skill", "skill_runner", "chat", "vision", "compiler", "default"}
    /\ Selectors \subseteq Seq(Keys \cup Raw) \ {<<>>}
    /\ Bundled \subseteq Skills
    /\ None \notin Selectors \cup Voices \cup Turns

VARIABLES
    file,        \* session/<user>/config.yaml
    voiceFile,   \* memory/voice_override.txt
    session,     \* the Session object: agent_overrides, disabled_skills, voice_override
    configFile,  \* the agents section of the global config.yaml
    config,      \* the one the App has loaded
    disk,        \* skills on disk
    cache,       \* AgentCache: the agent of each cache key
    agent,       \* the agents made so far, named after the turn that needed them
    turn,        \* where each turn stands
    edits, reloads, restarts,   \* bounds
    asked,       \* history: the disabled skills the user asked for
    drift        \* history: why file and session may differ since load_session

vars == <<file, voiceFile, session, configFile, config, disk, cache, agent, turn,
          edits, reloads, restarts, asked, drift>>
bounds == <<edits, reloads, restarts>>

Overrides == [Paths -> Selectors \cup {None}]
NoOverrides == [p \in Paths |-> None]

-----------------------------------------------------------------------------
(* Which model an agent type means (LLMFactory).                           *)

\* The order in which agent types stand in for one another (_fallback_agent).
Ancestors(type) ==
    CASE type = "skill"        -> <<"skill", "skill_runner", "chat", "default">>
      [] type = "skill_runner" -> <<"skill_runner", "chat", "default">>
      [] type \in {"chat", "vision", "compiler"} ->
             (IF type = "vision" THEN <<"vision", "chat">> ELSE <<type>>) \o <<"default">>
      [] OTHER -> <<type>>

\* An override wins over the global selector of the same type, not over others.
AgentValue(type, overrides, global) ==
    IF type \notin Paths THEN None
    ELSE IF overrides[type] # None THEN overrides[type] ELSE global[type]

\* The types of the chain that have a selector.
Chosen(type, overrides, global) ==
    SelectSeq(Ancestors(type), LAMBDA a : AgentValue(a, overrides, global) # None)

\* The name a turn is routed by: the first of the first selector.
DefaultModelName(type, overrides, global) ==
    LET chosen == Chosen(type, overrides, global)
    IN  IF chosen = <<>> THEN KeyOrder[1]
        ELSE AgentValue(chosen[1], overrides, global)[1]

Entry(key) == [from |-> key, model |-> ModelOf[key]]

\* The configuration of a name: that of the key, of the first key with this
\* model, or that of the default agent with the model put in.
ModelConfig(name, default) ==
    LET same == SelectSeq(KeyOrder, LAMBDA k : ModelOf[k] = name)
    IN  CASE name \in Keys -> Entry(name)
          [] name \notin Keys /\ same # <<>> -> Entry(same[1])
          [] OTHER -> [from |-> default, model |-> name]

\* What a selector is built from: a name that is no key takes the first entry
\* as its template.
SelectorConfigs(selector) ==
    [i \in DOMAIN selector |->
        IF selector[i] \in Keys THEN Entry(selector[i])
        ELSE [from |-> KeyOrder[1], model |-> selector[i]]]

LocalOnly(configs) == SelectSeq(configs, LAMBDA c : c.from \in Local)

\* The models an agent type is bound to, in the order they are tried.
Candidates(type, overrides, global) ==
    LET usable == SelectSeq(Ancestors(type), LAMBDA a :
                      /\ AgentValue(a, overrides, global) # None
                      /\ LocalOnly(SelectorConfigs(AgentValue(a, overrides, global))) # <<>>)
    IN  IF usable # <<>>
        THEN LocalOnly(SelectorConfigs(AgentValue(usable[1], overrides, global)))
        ELSE <<Entry(SelectSeq(KeyOrder, LAMBDA k : k \in Local)[1])>>

\* "pawlia" or the backend of another provider (describe_backend).
IsLocalTurn(type, overrides, global) ==
    ModelConfig(DefaultModelName(type, overrides, global),
                Candidates("default", NoOverrides, global)[1].from).from \in Local

-----------------------------------------------------------------------------
NoTurn == [at |-> "new", kind |-> None, agent |-> None, name |-> None,
           chain |-> <<>>, fresh |-> FALSE, read |-> None, said |-> <<>>]
NoAgent == [made |-> FALSE]

Init ==
    /\ file = [agents |-> NoOverrides, disabled |-> {}, voice |-> None]
    /\ voiceFile = None
    /\ session = file
    /\ configFile = [NoOverrides EXCEPT !["default"] = <<KeyOrder[1]>>]
    /\ config = configFile
    /\ disk = Bundled
    /\ cache = [h \in Threads |-> None]
    /\ agent = [t \in Turns |-> NoAgent]
    /\ turn = [t \in Turns |-> NoTurn]
    /\ edits = 0 /\ reloads = 0 /\ restarts = 0
    /\ asked = {}
    /\ drift = {}

\* make_agent: skills are looked up once, without the disabled ones; the dict of the
\* lookup is the agent's own at first.  The local agent with its model is made when
\* a turn needs it.
MakeAgent ==
    [made |-> TRUE, overrides |-> session.agents, config |-> config, chain |-> <<>>,
     all |-> disk \ session.disabled, skills |-> disk \ session.disabled, shared |-> TRUE]

EnsureLocal(a) ==
    IF a.chain # <<>> THEN a
    ELSE [a EXCEPT !.chain = Candidates("chat", session.agents, config)]

\* A message: the cached agent of its thread, or a new one, is asked to run.  The
\* router decides by the configuration it was made with, the models come from
\* the present one.
StartTurn(t, h, kind) ==
    LET mine == IF cache[h] = None THEN MakeAgent ELSE agent[cache[h]]
        id == IF cache[h] = None THEN t ELSE cache[h]
        local == IsLocalTurn(kind, session.agents, mine.config)
    IN  /\ turn[t].at = "new"
        /\ agent' = [agent EXCEPT ![id] = IF local THEN EnsureLocal(mine) ELSE mine]
        /\ cache' = [cache EXCEPT ![h] = id]
        /\ turn' = [turn EXCEPT ![t] =
               [NoTurn EXCEPT !.at = IF local THEN "model" ELSE "remote",
                              !.kind = kind, !.agent = id,
                              !.name = DefaultModelName(kind, session.agents, mine.config),
                              !.chain = IF local THEN Candidates(kind, session.agents, config)
                                        ELSE <<>>,
                              !.fresh = mine.config = config]]
        /\ UNCHANGED <<file, voiceFile, session, configFile, config, disk, bounds, asked, drift>>

\* The model calls the config skill or skill-creator.
CallSkill(t, s, at) ==
    /\ turn[t].at = "model"
    /\ s \in agent[turn[t].agent].skills
    /\ turn' = [turn EXCEPT ![t].at = at]
    /\ UNCHANGED <<file, voiceFile, session, configFile, config, disk, cache, agent, bounds,
                   asked, drift>>

EndTurn(t) ==
    /\ turn[t].at \in {"model", "remote"}
    /\ turn' = [turn EXCEPT ![t].at = "done"]
    /\ UNCHANGED <<file, voiceFile, session, configFile, config, disk, cache, agent, bounds,
                   asked, drift>>

-----------------------------------------------------------------------------
(* The config skill's command line: another process.  It reads the file,   *)
(* changes it, writes it whole and prints a directive for the bot.         *)

ScriptReads(t) ==
    /\ turn[t].at = "config"
    /\ edits < MaxEdits
    /\ edits' = edits + 1
    /\ turn' = [turn EXCEPT ![t].at = "script", ![t].read = file]
    /\ UNCHANGED <<file, voiceFile, session, configFile, config, disk, cache, agent, reloads,
                   restarts, asked, drift>>

\* The script's copy, changed by it, replaces the file.
ScriptWrites(t, new, directives) ==
    /\ turn[t].at = "script"
    /\ file' = new
    /\ turn' = [turn EXCEPT ![t].at = "config", ![t].read = None,
                            ![t].said = @ \o directives]
    /\ UNCHANGED <<session, config, disk, cache, agent, bounds>>

Raced(t) == IF turn[t].read # file THEN {"raced"} ELSE {}

\* model, agent: set or clear (None) an override.
ScriptAgent(t, path, value) ==
    /\ ScriptWrites(t, [turn[t].read EXCEPT !.agents[path] = value],
                    <<[do |-> "set_agent_override", path |-> path, value |-> value]>>)
    /\ drift' = drift \cup Raced(t)
    /\ UNCHANGED <<voiceFile, configFile, asked>>

\* session --set-path agents.<path>: the file only.
ScriptSession(t, path, value) ==
    /\ ScriptWrites(t, [turn[t].read EXCEPT !.agents[path] = value], <<>>)
    /\ drift' = drift \cup Raced(t) \cup {"file only"}
    /\ UNCHANGED <<voiceFile, configFile, asked>>

\* disabled-skills --add and --remove: only --add leaves a file alone that it would
\* not change.
ScriptSkills(t, disabled, writes) ==
    /\ ScriptWrites(t, IF writes THEN [turn[t].read EXCEPT !.disabled = disabled] ELSE file,
                    <<[do |-> "reload_skills"]>>)
    /\ asked' = IF disabled = turn[t].read.disabled THEN asked ELSE disabled
    /\ drift' = drift \cup (IF writes THEN Raced(t) ELSE {})
    /\ UNCHANGED <<voiceFile, configFile>>

\* voice --name, --off: a file of its own and the directive.
ScriptVoice(t, voice) ==
    /\ ScriptWrites(t, file, <<[do |-> "set_voice", voice |-> voice]>>)
    /\ voiceFile' = voice
    /\ UNCHANGED <<configFile, asked, drift>>

\* set agents.<path>: the global file, read and written at once, no directive.
ScriptSet(t, path, value) ==
    /\ ScriptWrites(t, file, <<>>)
    /\ configFile' = [configFile EXCEPT ![path] = value]
    /\ UNCHANGED <<voiceFile, asked, drift>>

Script(t) ==
    \/ \E p \in Paths, v \in Selectors \cup {None} :
           \/ ScriptAgent(t, p, v)
           \/ ScriptSession(t, p, v)
    \/ \E p \in Paths, v \in Selectors : ScriptSet(t, p, v)
    \/ \E s \in Skills :
           \/ ScriptSkills(t, turn[t].read.disabled \cup {s}, s \notin turn[t].read.disabled)
           \/ ScriptSkills(t, turn[t].read.disabled \ {s}, TRUE)
    \/ \E v \in Voices \cup {None} : ScriptVoice(t, v)

-----------------------------------------------------------------------------
(* The bot.                                                                *)

\* Mutant of SetOverride: the whole session replaces the file.
SetOverrideWhole(s, path, value) ==
    LET new == [s.session EXCEPT !.agents[path] = value]
    IN  [s EXCEPT !.session = new, !.file = new]

\* set_agent_override_value: the session's overrides, changed, replace the agents
\* section of the file; the other sections are read from the file.
SetOverride(s, path, value) ==
    LET agents == [s.session.agents EXCEPT ![path] = value]
    IN  [s EXCEPT !.session.agents = agents, !.file.agents = agents]

\* Mutant: the voice is not saved.
SetVoiceUnsaved(s, voice) == [s EXCEPT !.session.voice = voice]

SetVoice(s, voice) == [s EXCEPT !.session.voice = voice, !.file.voice = voice]

\* Mutant: what was found is taken over as it is.
ApplyAll(a, disabled) == [a EXCEPT !.skills = a.all, !.shared = FALSE]

\* _apply_disabled_skills: what the agent knows, without what the session disables.
ApplyDisabled(a, disabled) == [a EXCEPT !.skills = a.all \ disabled, !.shared = FALSE]

\* One directive line of a skill's result.
Obey(s, d) ==
    CASE d.do = "set_agent_override" ->
             [SetOverride(s, d.path, d.value) EXCEPT !.invalid = TRUE]
      [] d.do = "set_voice"     -> SetVoice(s, d.voice)
      [] d.do = "reload_skills" -> [s EXCEPT !.agent = ApplyDisabled(@, s.session.disabled)]

\* The directives of a result, obeyed in order.
Obeyed(start, said) ==
    LET after[i \in 0..Len(said)] ==
            IF i = 0 THEN start ELSE Obey(after[i - 1], said[i])
    IN  after[Len(said)]

\* Mutant: the cache keeps its agents.
InvalidateNone(invalid) == cache

\* AgentCache.invalidate drops the agents of all the user's threads.
Invalidate(invalid) == IF invalid THEN [h \in Threads |-> None] ELSE cache

\* The config skill has returned: its directives are obeyed in order.
ConfigReturns(t) ==
    LET id == turn[t].agent
        new == Obeyed([session |-> session, file |-> file, agent |-> agent[id],
                       invalid |-> FALSE], turn[t].said)
    IN  /\ turn[t].at = "config"
        /\ session' = new.session
        /\ file' = new.file
        /\ agent' = [agent EXCEPT ![id] = new.agent]
        /\ cache' = Invalidate(new.invalid)
        /\ turn' = [turn EXCEPT ![t].at = "model", ![t].said = <<>>]
        /\ UNCHANGED <<voiceFile, configFile, config, disk, bounds, asked, drift>>

\* //stop or an error ends the turn inside the skill: its result is not looked at.
SkillAborted(t) ==
    /\ turn[t].at \in {"config", "creator"}
    /\ turn' = [turn EXCEPT ![t].at = "done", ![t].said = <<>>]
    /\ drift' = IF turn[t].said = <<>> THEN drift ELSE drift \cup {"unheard"}
    /\ UNCHANGED <<file, voiceFile, session, configFile, config, disk, cache, agent, bounds,
                   asked>>

\* skill-creator has put a skill into the workspace and returned.  The agent looks
\* for skills anew: the refresher fills the dict the agent was made with, the agent
\* takes over what is in its own, and is bound to its own model if the number changed.
CreatorReturns(t, s) ==
    LET id == turn[t].agent
        a == agent[id]
        found == IF a.shared THEN disk \cup {s} ELSE a.skills
        known == [a EXCEPT !.all = @ \cup found]
        new == ApplyDisabled(known, session.disabled)
    IN  /\ turn[t].at = "creator"
        /\ s \in Skills
        /\ disk' = disk \cup {s}
        /\ agent' = [agent EXCEPT ![id] = new]
        /\ turn' = [turn EXCEPT ![t].at = "model",
                        ![t].chain = IF Cardinality(new.skills) # Cardinality(a.skills)
                                     THEN a.chain ELSE @]
        /\ UNCHANGED <<file, voiceFile, session, configFile, config, cache, bounds, asked, drift>>

\* /model <path> <selector> and /model <path> off.
ModelCommand(path, value) ==
    LET new == SetOverride([session |-> session, file |-> file], path, value)
    IN  /\ edits < MaxEdits
        /\ edits' = edits + 1
        /\ session' = new.session
        /\ file' = new.file
        /\ cache' = Invalidate(TRUE)
        /\ UNCHANGED <<voiceFile, configFile, config, disk, agent, turn, reloads, restarts,
                       asked, drift>>

\* /reload, in this interface or another one: only the caller's cache is emptied.
Reload(here) ==
    /\ reloads < MaxReloads
    /\ reloads' = reloads + 1
    /\ config' = configFile
    /\ cache' = Invalidate(here)
    /\ UNCHANGED <<file, voiceFile, session, configFile, disk, agent, turn, edits, restarts,
                   asked, drift>>

\* The process starts anew and load_session reads the file, taking over a voice from
\* the file of its own when the session file has none.  A script goes down with the bot.
Restart ==
    LET legacy == file.voice = None /\ voiceFile # None
        loaded == IF legacy THEN [file EXCEPT !.voice = voiceFile] ELSE file
    IN  /\ restarts < MaxRestarts
        /\ restarts' = restarts + 1
        /\ file' = loaded
        /\ voiceFile' = IF legacy THEN None ELSE voiceFile
        /\ session' = loaded
        /\ config' = configFile
        /\ cache' = Invalidate(TRUE)
        /\ turn' = [t \in Turns |-> IF turn[t].at = "new" THEN turn[t]
                                    ELSE [turn[t] EXCEPT !.at = "done", !.said = <<>>]]
        /\ drift' = drift \cap {"raced"}
        /\ UNCHANGED <<configFile, disk, agent, edits, reloads, asked>>

Next ==
    \/ \E t \in Turns, h \in Threads, k \in Kinds : StartTurn(t, h, k)
    \/ \E t \in Turns : \/ CallSkill(t, "config", "config")
                        \/ CallSkill(t, "skill-creator", "creator")
                        \/ ScriptReads(t) \/ Script(t)
                        \/ ConfigReturns(t) \/ SkillAborted(t) \/ EndTurn(t)
    \/ \E t \in Turns, s \in Skills \ Bundled : CreatorReturns(t, s)
    \/ \E p \in Paths, v \in Selectors \cup {None} : ModelCommand(p, v)
    \/ \E here \in BOOLEAN : Reload(here)
    \/ Restart

Spec == Init /\ [][Next]_vars

-----------------------------------------------------------------------------
TypeOK ==
    /\ file \in [agents : Overrides, disabled : SUBSET Skills, voice : Voices \cup {None}]
    /\ session \in [agents : Overrides, disabled : SUBSET Skills, voice : Voices \cup {None}]
    /\ voiceFile \in Voices \cup {None}
    /\ {configFile, config} \subseteq [Paths -> Selectors \cup {None, <<KeyOrder[1]>>}]
    /\ Bundled \subseteq disk /\ disk \subseteq Skills
    /\ cache \in [Threads -> Turns \cup {None}]
    /\ \A h \in Threads : cache[h] # None => agent[cache[h]].made
    /\ \A t \in Turns : turn[t].at \in {"new", "model", "remote", "config", "script",
                                        "creator", "done"}
    /\ asked \subseteq Skills
    /\ drift \subseteq {"raced", "file only", "unheard"}

\* What the bot goes by is what the file keeps for the next start, once the
\* directives of every skill have been obeyed: unless the file was written between
\* the script's read and its write, a result was never looked at, or the script was
\* asked to change the file alone (set_agent_override_value, config.py).  And saving one
\* section loses no other: the skills disabled there are those the user disabled, whatever
\* /model and the voice directive have written since (_update_session_config).
SettingsSurvive ==
    /\ (drift = {} /\ \A t \in Turns : turn[t].said = <<>>) =>
           session.agents = file.agents /\ session.voice = file.voice
    /\ "raced" \notin drift => file.disabled = asked

\* An agent that the next message will be answered by was built with the overrides
\* now in force: every path that changes them empties the cache (AgentCache,
\* on_model_change).  And it offers no skill that the session disables, however often
\* skills have been created and looked up anew since (_apply_disabled_skills).
CachedAgentCurrent ==
    \A h \in Threads : cache[h] # None =>
        /\ agent[cache[h]].overrides = session.agents
        /\ agent[cache[h]].skills \cap session.disabled = {}

=============================================================================

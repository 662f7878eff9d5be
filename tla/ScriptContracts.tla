---------------------------- MODULE ScriptContracts ----------------------------
(***************************************************************************)
(* The scripts the engine holds and the functions a mission calls in them  *)
(* (bw-scripting, engine.rs, mission_runner.rs): a script is put there at  *)
(* the start, unchecked, or by a reload, which first compares its          *)
(* functions with the contract inferred from its path                      *)
(* (validators.rs).  A function is looked up by its name when it is        *)
(* checked, and by its name and number of parameters when it is called.    *)
(***************************************************************************)
EXTENDS Naturals, FiniteSets

CONSTANTS
    Missions,       \* the paths under missions/
    Optional,       \* on_combat_resolved and on_tick, or one of them
    Loaders,      \* tasks that reload or load scripts
    NoScript,       \* nothing is loaded under the path
    Unparsable,     \* a file with a syntax error
    NoLoad,         \* a task that does nothing
    MaxWrites       \* bound: changes of the files

ASSUME WritesAssumption == MaxWrites \in Nat

VARIABLES
    source,         \* the file on disk
    ast,            \* ScriptEngine.scripts
    vetted,         \* the script was put there by a reload (history)
    underway,       \* the script's mission has started
    load,           \* what each task is about to do
    writes          \* how often a file was changed

contractVars == <<source, ast, vetted, underway, load, writes>>

Required == {"on_start", "on_choice"}
ContractHooks == Required \cup Optional

\* How a function of a contract is defined: not at all, with the parameters it
\* is called with, with others, or both ways and the others are found first.
Forms == {"none", "right", "wrong", "wrong first"}
ScriptContents == [ContractHooks -> Forms]

\* Rhai finds the function with as many parameters as there are arguments.
Answers(content, hook) == content[hook] \in {"right", "wrong first"}

\* Mutant of FitsContract: a function is only looked for by its name.
FitsByName(form) == form # "none"

\* What validate_script makes of a required function: the first of its name
\* counts.
FitsContract(form) == form = "right"

\* ValidationResult.is_valid: an optional function with other parameters is a
\* warning.
IsValid(content) == \A hook \in Required : FitsContract(content[hook])

\* Type correctness.
ContractsTypeOK ==
    /\ source \in [Missions -> ScriptContents \cup {Unparsable}]
    /\ ast \in [Missions -> ScriptContents \cup {NoScript}]
    /\ vetted \in [Missions -> BOOLEAN] /\ underway \in [Missions -> BOOLEAN]
    /\ \A t \in Loaders :
            \/ load[t] = NoLoad
            \/ load[t].op \in {"insert", "check", "remove"} /\ load[t].path \in Missions
    /\ writes \in 0..MaxWrites

\* The files that start the server are complete.
ContractsInit ==
    /\ source = [m \in Missions |-> [hook \in ContractHooks |-> "right"]]
    /\ ast = [m \in Missions |-> NoScript]
    /\ vetted = [m \in Missions |-> FALSE]
    /\ underway = [m \in Missions |-> FALSE]
    /\ load = [t \in Loaders |-> NoLoad]
    /\ writes = 0

-----------------------------------------------------------------------------

\* A file is written, whole, with one function changed or a syntax error, or
\* complete again.
WriteSource(m) ==
    /\ writes < MaxWrites /\ writes' = writes + 1
    /\ \/ source[m] # Unparsable /\ source' = [source EXCEPT ![m] = Unparsable]
       \/ \E hook \in ContractHooks, form \in Forms :
            /\ source[m] # Unparsable /\ source[m][hook] # form
            /\ source' = [source EXCEPT ![m][hook] = form]
       \/ /\ source[m] = Unparsable
          /\ source' = [source EXCEPT ![m] = [hook \in ContractHooks |-> "right"]]
    /\ UNCHANGED <<ast, vetted, underway, load>>

\* load_all_scripts: files in the order of the directory, up to the first that
\* does not compile.
LoadAllScripts(done) ==
    /\ \A m \in done : source[m] # Unparsable
    /\ done = Missions \/ (\E m \in Missions \ done : source[m] = Unparsable)
    /\ ast' = [m \in Missions |-> IF m \in done THEN source[m] ELSE ast[m]]
    /\ vetted' = [m \in Missions |-> vetted[m] /\ m \notin done]
    /\ UNCHANGED <<source, underway, load, writes>>

\* load_and_validate: the script is there before it is checked, ...
LoadScript(t, m) ==
    /\ load[t] = NoLoad /\ source[m] # Unparsable
    /\ ast' = [ast EXCEPT ![m] = source[m]]
    /\ vetted' = [vetted EXCEPT ![m] = FALSE]
    /\ load' = [load EXCEPT ![t] = [op |-> "check", path |-> m]]
    /\ UNCHANGED <<source, underway, writes>>

\* ... what is there by then is checked, ...
CheckLoaded(t) ==
    /\ load[t] # NoLoad /\ load[t].op = "check"
    /\ LET m == load[t].path
           fits == ast[m] # NoScript /\ IsValid(ast[m])
       IN  /\ vetted' = [vetted EXCEPT ![m] = @ \/ fits]
           /\ load' = [load EXCEPT ![t] =
                   IF ast[m] = NoScript \/ fits THEN NoLoad
                   ELSE [op |-> "remove", path |-> m]]
    /\ UNCHANGED <<source, ast, underway, writes>>

\* ... and whatever is there when it has failed is removed.
RemoveFailed(t) ==
    /\ load[t] # NoLoad /\ load[t].op = "remove"
    /\ ast' = [ast EXCEPT ![load[t].path] = NoScript]
    /\ load' = [load EXCEPT ![t] = NoLoad]
    /\ UNCHANGED <<source, vetted, underway, writes>>

\* reload_script: the file is compiled, ...
CompileForReload(t, m) ==
    /\ load[t] = NoLoad /\ source[m] # Unparsable
    /\ load' = [load EXCEPT ![t] = [op |-> "insert", path |-> m, ast |-> source[m]]]
    /\ UNCHANGED <<source, ast, vetted, underway, writes>>

\* ... and takes the place of the other if it meets the contract.
InsertReloaded(t) ==
    /\ load[t] # NoLoad /\ load[t].op = "insert"
    /\ LET m == load[t].path
           ok == IsValid(load[t].ast)
       IN  /\ ast' = IF ok THEN [ast EXCEPT ![m] = load[t].ast] ELSE ast
           /\ vetted' = [vetted EXCEPT ![m] = @ \/ ok]
    /\ load' = [load EXCEPT ![t] = NoLoad]
    /\ UNCHANGED <<source, underway, writes>>

-----------------------------------------------------------------------------

\* call_function_dynamic, under the read guard of the scripts.
CanCall(m, hook) == ast[m] # NoScript /\ Answers(ast[m], hook)

\* start_mission.
StartMission(m) ==
    /\ ~underway[m]
    /\ CanCall(m, "on_start")
    /\ underway' = [underway EXCEPT ![m] = TRUE]
    /\ UNCHANGED <<source, ast, vetted, load, writes>>

\* process_choice, process_combat_result and process_tick: the function is called
\* and may end the mission; a tick without a function is no error.
Proceed(m, hook) ==
    /\ underway[m] /\ hook # "on_start" /\ CanCall(m, hook)
    /\ underway' = [underway EXCEPT ![m] = FALSE]
    /\ UNCHANGED <<source, ast, vetted, load, writes>>

ContractsNext ==
    \/ \E m \in Missions : WriteSource(m) \/ StartMission(m)
    \/ \E done \in SUBSET Missions : LoadAllScripts(done)
    \/ \E t \in Loaders, m \in Missions : LoadScript(t, m) \/ CompileForReload(t, m)
    \/ \E t \in Loaders : CheckLoaded(t) \/ RemoveFailed(t) \/ InsertReloaded(t)
    \/ \E m \in Missions, hook \in ContractHooks : Proceed(m, hook)

ContractsSpec == ContractsInit /\ [][ContractsNext]_contractVars

-----------------------------------------------------------------------------

\* Whatever is written to the files while a mission is under way, and however
\* reloads overlap with it, a script that a reload let in answers every function
\* its mission needs, with the arguments the runner passes (reload_script,
\* validate_script, start_mission, process_choice).
VettedScriptsAnswer ==
    \A m \in Missions : vetted[m] /\ ast[m] # NoScript =>
        \A hook \in Required : Answers(ast[m], hook)
=============================================================================

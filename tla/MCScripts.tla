------------------------------- MODULE MCScripts -------------------------------
(***************************************************************************)
(* What the engine keeps for scripts, checked in one run: the store of     *)
(* script state, the changes scripts make, behaviours with their           *)
(* subscriptions, the reload of scripts, their analysis, the dispatch of   *)
(* events and actions, what scripts read and write, property watches, the  *)
(* contracts of mission scripts, the validator of action scripts, and the  *)
(* archetypes they look up.  The modules share no variable: `component`    *)
(* says which of them a behaviour is about, and the others keep an initial *)
(* state.                                                                  *)
(***************************************************************************)
EXTENDS ScriptStore, ScriptTransactions, Behaviors, ScriptReload,
        ScriptChecks, Dispatch, ScriptState, Watches, ScriptContracts,
        ActionScripts, GameData, TLC

VARIABLE component

scriptsVars == <<component, storeVars, stVars, beVars, reVars, chkVars,
                 dispatchVars, ssVars, watchVars, contractVars, actionVars,
                 dataVars>>

\* Only the component under way chooses among its initial states.
ScriptsInit ==
    /\ component \in {"store", "changes", "behaviors", "reload", "checks",
                     "dispatch", "state", "watches", "contracts", "actions",
                     "data"}
    /\ StoreInit /\ ScriptInit /\ BehaviorsInit
    /\ ReloadInit /\ ChecksInit /\ DispatchInit /\ ScriptStateInit /\ WatchesInit
    /\ ContractsInit /\ ActionsInit /\ DataInit
    /\ component = "reload" \/ \A f \in Files : disk[f].names = {}
    /\ component = "state" \/ \A v \in Vessels : ships[v].zone = CHOOSE z \in Zones : TRUE

ScriptsNext ==
    \/ /\ component = "store" /\ StoreNext
       /\ UNCHANGED <<component, stVars, beVars, reVars, chkVars,
                    dispatchVars, ssVars, watchVars, contractVars, actionVars,
                    dataVars>>
    \/ /\ component = "changes" /\ ScriptNext
       /\ UNCHANGED <<component, storeVars, beVars, reVars, chkVars,
                    dispatchVars, ssVars, watchVars, contractVars, actionVars,
                    dataVars>>
    \/ /\ component = "behaviors" /\ BehaviorsNext
       /\ UNCHANGED <<component, storeVars, stVars, reVars, chkVars,
                    dispatchVars, ssVars, watchVars, contractVars, actionVars,
                    dataVars>>
    \/ /\ component = "reload" /\ ReloadNext
       /\ UNCHANGED <<component, storeVars, stVars, beVars, chkVars,
                    dispatchVars, ssVars, watchVars, contractVars, actionVars,
                    dataVars>>
    \/ /\ component = "checks" /\ ChecksNext
       /\ UNCHANGED <<component, storeVars, stVars, beVars, reVars,
                    dispatchVars, ssVars, watchVars, contractVars, actionVars,
                    dataVars>>
    \/ /\ component = "dispatch" /\ DispatchNext
       /\ UNCHANGED <<component, storeVars, stVars, beVars, reVars,
                    chkVars, ssVars, watchVars, contractVars, actionVars,
                    dataVars>>
    \/ /\ component = "state" /\ ScriptStateNext
       /\ UNCHANGED <<component, storeVars, stVars, beVars, reVars,
                    chkVars, dispatchVars, watchVars, contractVars, actionVars,
                    dataVars>>
    \/ /\ component = "watches" /\ WatchesNext
       /\ UNCHANGED <<component, storeVars, stVars, beVars, reVars,
                    chkVars, dispatchVars, ssVars, contractVars, actionVars,
                    dataVars>>
    \/ /\ component = "contracts" /\ ContractsNext
       /\ UNCHANGED <<component, storeVars, stVars, beVars, reVars,
                    chkVars, dispatchVars, ssVars, watchVars, actionVars,
                    dataVars>>
    \/ /\ component = "actions" /\ ActionsNext
       /\ UNCHANGED <<component, storeVars, stVars, beVars, reVars,
                    chkVars, dispatchVars, ssVars, watchVars, contractVars,
                    dataVars>>
    \/ /\ component = "data" /\ DataNext
       /\ UNCHANGED <<component, storeVars, stVars, beVars, reVars,
                    chkVars, dispatchVars, ssVars, watchVars, contractVars,
                    actionVars>>

ScriptsSpec == ScriptsInit /\ [][ScriptsNext]_scriptsVars

\* The type invariant of the component that runs: for the scripts' changes, what is
\* applied to the live state stays within the hull's bounds (Clamp).
ScriptsTypeOK ==
    CASE component = "store" -> StoreTypeOK
      [] component = "changes" -> ScriptTypeOK
      [] component = "behaviors" -> BehaviorsTypeOK
      [] component = "reload" -> ReloadTypeOK
      [] component = "checks" -> ChecksTypeOK
      [] component = "dispatch" -> DispatchTypeOK
      [] component = "state" -> ScriptStateTypeOK
      [] component = "watches" -> WatchesTypeOK
      [] component = "contracts" -> ContractsTypeOK
      [] component = "actions" -> ActionsTypeOK
      [] component = "data" -> DataTypeOK

\* What a script is promised by what calls it and what it calls: its handlers are
\* called in order, their changes kept apart and those of a failed one dropped
\* (HandlersIsolated); it reads what it wrote (ReadsWhatItWrote); a one-shot watch
\* triggers once (OnceMeansOnce); the archetypes it looks up are of one edition
\* (ShelvesWhole).
ScriptsAreServed ==
    /\ component = "dispatch" => HandlersIsolated
    /\ component = "state" => ReadsWhatItWrote
    /\ component = "watches" => OnceMeansOnce
    /\ component = "data" => ShelvesWhole

\* What a game master or an author is told before a script runs: a missing return or an
\* unchecked access that the analysis reports has a cause (NoFalseAlarm), a valid action
\* script serves its actions (ReportsHold), and a mission script that a reload let
\* in answers what its mission calls (VettedScriptsAnswer).
ValidationHolds ==
    /\ component = "checks" => NoFalseAlarm
    /\ component = "actions" => ReportsHold
    /\ component = "contracts" => VettedScriptsAnswer

\* The modules share these model values (a thread that runs scripts, a ship with a
\* behavior, a script file, a local variable, a key of the store, a subscription, a
\* thread that checks watches, a task that reloads, an action script), so that one
\* permutation of two values reduces all.
Symmetry == Permutations(Runners)
=============================================================================

-------------------------------- MODULE MCWorld --------------------------------
(***************************************************************************)
(* What goes on in one sector, checked in one run: squadrons, combat,      *)
(* missions, station services, buildings and PvP.  The modules share no    *)
(* variable: `component` says which of them a behaviour is about, and the  *)
(* others keep their initial states.                                       *)
(***************************************************************************)
EXTENDS Squadron, Combat, Missions, StationServices, SquadronBases, SquadronRules, TLC

VARIABLE component

worldVars == <<component, vars, combatVars, missionVars, serviceVars, baseVars, rulesVars>>

WorldInit ==
    /\ component \in {"squadrons", "combat", "missions", "services", "bases", "rules"}
    /\ Init /\ CombatInit /\ MissionsInit /\ ServicesInit /\ BasesInit /\ RulesInit

WorldNext ==
    \/ /\ component = "squadrons" /\ Next
       /\ UNCHANGED <<component, combatVars, missionVars, serviceVars, baseVars, rulesVars>>
    \/ /\ component = "combat" /\ CombatNext
       /\ UNCHANGED <<component, vars, missionVars, serviceVars, baseVars, rulesVars>>
    \/ /\ component = "missions" /\ MissionsNext
       /\ UNCHANGED <<component, vars, combatVars, serviceVars, baseVars, rulesVars>>
    \/ /\ component = "services" /\ ServicesNext
       /\ UNCHANGED <<component, vars, combatVars, missionVars, baseVars, rulesVars>>
    \/ /\ component = "bases" /\ BasesNext
       /\ UNCHANGED <<component, vars, combatVars, missionVars, serviceVars, rulesVars>>
    \/ /\ component = "rules" /\ RulesNext
       /\ UNCHANGED <<component, vars, combatVars, missionVars, serviceVars, baseVars>>

WorldSpec == WorldInit /\ [][WorldNext]_worldVars

\* The type invariant of the component that runs: among others, no hull is negative
\* (Kill), no sector holds more missions than its limit (PostMission) and a
\* reputation stays within its bounds (Serve, Spend).
WorldTypeOK ==
    CASE component = "squadrons" -> TypeOK
      [] component = "combat" -> CombatTypeOK
      [] component = "missions" -> MissionsTypeOK
      [] component = "services" -> ServicesTypeOK
      [] component = "bases" -> BasesTypeOK
      [] component = "rules" -> RulesTypeOK

\* What build_structure takes is what it builds, where the squadron had control,
\* and the two rules for PvP agree with each other.
BasesHold ==
    /\ component = "bases" => PaidIsBuilt /\ BuiltByRight
    /\ component = "rules" => RulesAgree

\* The station's requests wait for each other in no circle, and whoever was served
\* was docked there.
StationsServe == []RequestsNeverEmbrace /\ ServedWhileDocked

\* The modules share these model values (a ship and its captain, an engagement and
\* a mission, a task that fights and one that serves a request), so that one small
\* group of permutations reduces all of them.
Symmetry == Permutations(PlayerShips) \cup Permutations(Engagements) \cup Permutations(Fighters)
=============================================================================

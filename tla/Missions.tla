-------------------------------- MODULE Missions --------------------------------
(***************************************************************************)
(* The missions of one sector: simulation/mission_executor.rs with the     *)
(* runner of bw-scripting, and the phases of a tick that post missions and *)
(* let them expire.                                                        *)
(*                                                                         *)
(* Every request holds the lock of the mission while the script runs, so a *)
(* request is one step; the expiry collects under no lock that lasts and   *)
(* then marks one mission at a time.  What the script answers is a choice. *)
(* Texts, choices and the distance to the mission's target are left out.   *)
(***************************************************************************)
EXTENDS Integers, FiniteSets

CONSTANTS
    Captains,     \* players with a session
    MissionIds,   \* identifiers of missions, each drawn once
    MaxMissions,  \* the limit of five missions per sector
    NoCaptain

ASSUME MissionsAssumption ==
    MaxMissions \in Nat \ {0} /\ NoCaptain \notin Captains

VARIABLES
    board,      \* keys of the sector's missions
    posted,     \* identifiers drawn so far
    state,      \* status of each mission
    holder,     \* assigned_to
    overdue,    \* missions whose expires_at has passed
    sweep,      \* missions the expiry phase has collected
    here,       \* captains whose session names this sector
    owed        \* what each captain's last outcome changes, until it is applied

missionVars == <<board, posted, state, holder, overdue, sweep, here, owed>>

States == {"Available", "InProgress", "Won", "Lost", "Expired"}

\* What a script's map says: the state it names, and whether it sets "complete" and
\* "success".
Replies == [stage : {"open", "ended", "complete"},
            complete : {"unset", "yes", "no"}, success : BOOLEAN]

\* MissionOutcome::from_dynamic: an explicit "complete" decides, and without one the
\* name of the state; success is never read off the state.
IsOver(r)  == IF r.complete = "unset" THEN r.stage # "open" ELSE r.complete = "yes"
Verdict(r) == IF r.success THEN "Won" ELSE "Lost"

MissionsTypeOK ==
    /\ board \subseteq posted /\ posted \subseteq MissionIds
    /\ Cardinality(board) <= MaxMissions
    /\ state \in [MissionIds -> States]
    /\ holder \in [MissionIds -> Captains \union {NoCaptain}]
    /\ overdue \subseteq posted /\ sweep \subseteq posted
    /\ here \subseteq Captains
    /\ owed \in [Captains -> {"nothing", "some", "all"}]

MissionsInit ==
    /\ board = {} /\ posted = {}
    /\ state = [m \in MissionIds |-> "Available"]
    /\ holder = [m \in MissionIds |-> NoCaptain]
    /\ overdue = {} /\ sweep = {}
    /\ here = Captains
    /\ owed = [c \in Captains |-> "nothing"]
-----------------------------------------------------------------------------
Reaches(c, m) == c \in here /\ m \in board

\* Mutant of CanAccept: the status is compared with what makes a mission playable.
CanAcceptAnyOpen(m) == state[m] \in {"Available", "InProgress"}

\* A mission for one squadron is never accepted: start_mission names no squadron.
CanAccept(m) == state[m] = "Available"

\* start_mission: a script that is over at once leaves the mission in progress.
StartMission(c, m) ==
    /\ Reaches(c, m) /\ CanAccept(m)
    /\ holder' = [holder EXCEPT ![m] = c]
    /\ state' = [state EXCEPT ![m] = "InProgress"]
    /\ owed' = [owed EXCEPT ![c] = "all"]
    /\ UNCHANGED <<board, posted, overdue, sweep, here>>

Settle(m, r) == state' = [state EXCEPT ![m] = IF IsOver(r) THEN Verdict(r) ELSE @]

\* process_mission_choice asks who holds the mission, not whether it is still open.
MakeChoice(c, m, r) ==
    /\ Reaches(c, m) /\ holder[m] = c
    /\ Settle(m, r)
    /\ owed' = [owed EXCEPT ![c] = "all"]
    /\ UNCHANGED <<board, posted, holder, overdue, sweep, here>>

\* process_mission_combat_result does not even ask who holds it.
ReportCombat(c, m, r) ==
    /\ Reaches(c, m)
    /\ Settle(m, r)
    /\ owed' = [owed EXCEPT ![c] = "all"]
    /\ UNCHANGED <<board, posted, holder, overdue, sweep, here>>

\* apply_resource_changes: the ship first, then, the ship let go, the player.
ApplyToShip(c) ==
    /\ owed[c] = "all"
    /\ owed' = [owed EXCEPT ![c] = "some"]
    /\ UNCHANGED <<board, posted, state, holder, overdue, sweep, here>>

ApplyToPlayer(c) ==
    /\ owed[c] = "some"
    /\ owed' = [owed EXCEPT ![c] = "nothing"]
    /\ UNCHANGED <<board, posted, state, holder, overdue, sweep, here>>

Travel(c) ==
    /\ here' \in {here \union {c}, here \ {c}} /\ here' # here
    /\ UNCHANGED <<board, posted, state, holder, overdue, sweep, owed>>
-----------------------------------------------------------------------------
\* The game loop posts a mission while the sector has fewer than the limit, whatever
\* the status of those it has, and then lets the available ones expire.

PostMission(m) ==
    /\ sweep = {} /\ m \notin posted
    /\ Cardinality(board) < MaxMissions
    /\ board' = board \union {m} /\ posted' = posted \union {m}
    /\ UNCHANGED <<state, holder, overdue, sweep, here, owed>>

PassTime(m) ==
    /\ m \in board \ overdue
    /\ overdue' = overdue \union {m}
    /\ UNCHANGED <<board, posted, state, holder, sweep, here, owed>>

\* Mutant of Expirable: whatever is overdue and not finished.
ExpirableUnfinished == {m \in board \cap overdue : state[m] \in {"Available", "InProgress"}}

Expirable == {m \in board \cap overdue : state[m] = "Available"}

CollectExpired ==
    /\ sweep = {} /\ Expirable # {}
    /\ sweep' = Expirable
    /\ UNCHANGED <<board, posted, state, holder, overdue, here, owed>>

\* The status is not looked at again.
Expire(m) ==
    /\ m \in sweep
    /\ sweep' = sweep \ {m}
    /\ state' = [state EXCEPT ![m] = IF m \in board THEN "Expired" ELSE @]
    /\ UNCHANGED <<board, posted, holder, overdue, here, owed>>

\* DestroyEntity of a mission, by a script or the game master: the only removal.
DestroyMission(m) ==
    /\ m \in board
    /\ board' = board \ {m}
    /\ UNCHANGED <<posted, state, holder, overdue, sweep, here, owed>>

MissionsNext ==
    \/ \E c \in Captains, m \in MissionIds :
        \/ StartMission(c, m)
        \/ \E r \in Replies : MakeChoice(c, m, r) \/ ReportCombat(c, m, r)
    \/ \E c \in Captains : ApplyToShip(c) \/ ApplyToPlayer(c) \/ Travel(c)
    \/ \E m \in MissionIds : PostMission(m) \/ PassTime(m) \/ Expire(m) \/ DestroyMission(m)
    \/ CollectExpired

MissionsSpec == MissionsInit /\ [][MissionsNext]_missionVars
-----------------------------------------------------------------------------
\* A mission is taken once: whoever holds it keeps it, through expiry and completion,
\* whatever requests of several players race for it.
TakenOnce ==
    \A m \in MissionIds : holder[m] # NoCaptain => holder'[m] = holder[m]

\* A mission accepted before the expiry collects is out of its reach, overdue or not:
\* only one accepted between the collection and its turn expires under its holder.
AcceptedIsSafe ==
    \A m \in MissionIds :
        state[m] = "InProgress" /\ m \notin sweep =>
            state'[m] # "Expired" /\ m \notin sweep'

\* A mission keeps its captain, and the captain a mission that the expiry has not
\* collected: requests of several players race for it, and a tick of the game loop
\* collects the overdue missions under no lock and marks them one by one.
MissionsStayTaken == [][TakenOnce /\ AcceptedIsSafe]_missionVars
=============================================================================

---------------------------- MODULE StationServices ----------------------------
(***************************************************************************)
(* Docking and the services of stations (simulation/station_services.rs),  *)
(* with the locks they share with the game loop's combat: a service holds  *)
(* the ship's entry and asks for the player's, the reward of a kill holds  *)
(* the player's and asks for the ship's.                                   *)
(*                                                                         *)
(* What a ship lacks is a set, reputation a small number (a unit stands    *)
(* for five points), the distance to a station a choice of the caller.     *)
(* Credits are only reported, never charged.  The services that open a     *)
(* window (trade, upgrades, missions...) change nothing and are left out.  *)
(***************************************************************************)
EXTENDS Integers

CONSTANTS
    Pilots,       \* players with a session; each has one ship
    Requests,     \* tasks that serve requests
    Loop,         \* the game loop's thread
    Stations, NavalStations,
    MaxReputation,
    NoPilot

ASSUME ServicesAssumption ==
    /\ Loop \notin Requests /\ NoPilot \notin Pilots
    /\ NavalStations \subseteq Stations
    /\ Stations \cap {"Idle", "InCombat", "Disabled", "Destroyed"} = {}
    /\ MaxReputation \in Nat

VARIABLES
    ship,         \* status of each ship; a station when it is docked there
    lacks,        \* what each ship is short of
    reputation,
    task          \* what each thread does, for whom, and which entries it holds

serviceVars == <<ship, lacks, reputation, task>>

\* "dry" is no fuel at all, "fuel" less than a full tank; rearming costs and does
\* what refuelling does and is left out.
Supplies   == {"fuel", "hull", "morale"}
Shortages  == Supplies \union {"dry"}
ShipStates == Stations \union {"Idle", "InCombat", "Disabled", "Destroyed"}
Threads    == Requests \union {Loop}

\* "context" is build_mission_context, "reward" the loop's reward of a kill.
Operations == Supplies \union {"context", "reward"}
Task       == [op : Operations \union {"none"}, pilot : Pilots \union {NoPilot},
               held : SUBSET {"ship", "player"}]
NoTask     == [op |-> "none", pilot |-> NoPilot, held |-> {}]

ServicesTypeOK ==
    /\ ship \in [Pilots -> ShipStates]
    /\ lacks \in [Pilots -> SUBSET Shortages]
    /\ reputation \in [Pilots -> 0 .. MaxReputation]
    /\ task \in [Threads -> Task]

ServicesInit ==
    /\ ship = [p \in Pilots |-> "Idle"]
    /\ lacks = [p \in Pilots |-> {}]
    /\ reputation = [p \in Pilots |-> MaxReputation]
    /\ task = [t \in Threads |-> NoTask]
-----------------------------------------------------------------------------
\* Readers share an entry, a writer has it alone.
Reads(t)        == task[t].op = "context"
Holds(t, p, e)  == task[t].pilot = p /\ e \in task[t].held
Free(p, e)      == \A t \in Threads : ~Holds(t, p, e)
MayTake(t, p, e) == \A u \in Threads \ {t} : Holds(u, p, e) => Reads(t) /\ Reads(u)

\* Mutant of First: the reputation is looked at before the ship.
FirstOf(op) == IF op \in {"reward", "morale"} THEN "player" ELSE "ship"

\* The entry an operation asks for first; it keeps it and asks for the other.
First(op) == IF op = "reward" THEN "player" ELSE "ship"

Other(e) == IF e = "ship" THEN "player" ELSE "ship"

Wanted(t) == IF task[t].held = {} THEN First(task[t].op)
                                  ELSE Other(First(task[t].op))

\* can_move, and no docking in combat or when docked.
CanMove(p) == ship[p] = "Idle" /\ "dry" \notin lacks[p]

\* dock_at_station and undock hold the ship's entry alone.
Dock(p, s) ==
    /\ Free(p, "ship") /\ CanMove(p)
    /\ ship' = [ship EXCEPT ![p] = s]
    /\ UNCHANGED <<lacks, reputation, task>>

Undock(p) ==
    /\ Free(p, "ship") /\ ship[p] \in Stations
    /\ ship' = [ship EXCEPT ![p] = "Idle"]
    /\ UNCHANGED <<lacks, reputation, task>>

Begin(t, op, p) ==
    /\ task[t].op = "none"
    /\ (t = Loop) <=> (op = "reward")
    /\ task' = [task EXCEPT ![t] = [NoTask EXCEPT !.op = op, !.pilot = p]]
    /\ UNCHANGED <<ship, lacks, reputation>>

Take(t) ==
    /\ task[t].op # "none" /\ task[t].held # {"ship", "player"}
    /\ MayTake(t, task[t].pilot, Wanted(t))
    /\ task' = [task EXCEPT ![t].held = @ \union {Wanted(t)}]
    /\ UNCHANGED <<ship, lacks, reputation>>

Finished(t) == task' = [task EXCEPT ![t] = NoTask]

\* use_service gives up when the ship is not docked where the service is offered.
GiveUp(t) ==
    /\ task[t].op \in Supplies /\ task[t].held = {"ship"}
    /\ Finished(t)
    /\ UNCHANGED <<ship, lacks, reputation>>

Cost(what, station) ==
    CASE what = "hull" -> 0
      [] what = "morale" -> 2
      [] OTHER -> IF station \in NavalStations THEN 0 ELSE 1

\* spend_reputation.
CanAfford(p, cost) == reputation[p] >= cost

Supplied(what) == IF what = "fuel" THEN {"fuel", "dry"} ELSE {what}

\* Mutant of Serve: what the ship's state was when it was asked for is trusted.
ServeUnseen(t) ==
    LET p == task[t].pilot  what == task[t].op  IN
    /\ what \in Supplies /\ task[t].held = {"ship", "player"}
    /\ what \in lacks[p]
    /\ lacks' = [lacks EXCEPT ![p] = @ \ Supplied(what)]
    /\ Finished(t)
    /\ UNCHANGED <<ship, reputation>>

Serve(t) ==
    LET p == task[t].pilot  what == task[t].op  IN
    /\ what \in Supplies /\ task[t].held = {"ship", "player"}
    /\ ship[p] \in Stations /\ what \in lacks[p]
    /\ CanAfford(p, Cost(what, ship[p]))
    /\ lacks' = [lacks EXCEPT ![p] = @ \ Supplied(what)]
    /\ reputation' = [reputation EXCEPT ![p] = @ - Cost(what, ship[p])]
    /\ Finished(t)
    /\ UNCHANGED ship

\* Nothing lacks, the reputation does not do, or the operation changes nothing here.
Refuse(t) ==
    /\ task[t].held = {"ship", "player"}
    /\ Finished(t)
    /\ UNCHANGED <<ship, lacks, reputation>>
-----------------------------------------------------------------------------
\* The rest of the game.  Voyages use up fuel and morale; start_combat takes any ship
\* that is not in combat, docked, disabled or destroyed ones too; the loop's hits
\* disable or destroy a ship in combat, and an engagement's end or a flight makes it
\* idle.

Use(p, what) ==
    /\ Free(p, "ship") /\ what \notin lacks[p]
    /\ what = "dry" => "fuel" \in lacks[p]
    /\ lacks' = [lacks EXCEPT ![p] = @ \union {what}]
    /\ UNCHANGED <<ship, reputation, task>>

Engage(p) ==
    /\ Free(p, "ship") /\ ship[p] # "InCombat"
    /\ ship' = [ship EXCEPT ![p] = "InCombat"]
    /\ UNCHANGED <<lacks, reputation, task>>

EndCombat(p, outcome) ==
    /\ Free(p, "ship") /\ task[Loop] = NoTask
    /\ ship[p] = "InCombat"
    /\ ship' = [ship EXCEPT ![p] = outcome]
    /\ lacks' = [lacks EXCEPT ![p] = IF outcome = "Idle" THEN @ ELSE @ \union {"hull"}]
    /\ UNCHANGED <<reputation, task>>

ServicesNext ==
    \/ \E p \in Pilots :
        \/ \E s \in Stations : Dock(p, s)
        \/ Undock(p) \/ Engage(p)
        \/ \E what \in Shortages \ {"hull"} : Use(p, what)
        \/ \E outcome \in {"Idle", "Disabled", "Destroyed"} : EndCombat(p, outcome)
        \/ \E t \in Threads, op \in Operations : Begin(t, op, p)
    \/ \E t \in Threads : Take(t) \/ GiveUp(t) \/ Serve(t) \/ Refuse(t)

ServicesSpec == ServicesInit /\ [][ServicesNext]_serviceVars
-----------------------------------------------------------------------------
WaitsFor(t, u) ==
    /\ task[t].op # "none" /\ task[t].held # {"ship", "player"}
    /\ Holds(u, task[t].pilot, Wanted(t)) /\ ~(Reads(t) /\ Reads(u))

\* Two requests never wait for each other: the only embrace is that of a request
\* with the game loop, which takes the two entries in the other order when it
\* rewards a kill.
RequestsNeverEmbrace ==
    \A t, u \in Threads : t # u /\ WaitsFor(t, u) /\ WaitsFor(u, t) => Loop \in {t, u}

\* A ship is supplied only while it is docked, although it is asked for in one lock
\* and served in another, and combat may take a docked ship in between.
ServedWhileDocked ==
    [][\A p \in Pilots : lacks[p] \ lacks'[p] # {} => ship[p] \in Stations]_serviceVars
=============================================================================

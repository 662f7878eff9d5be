----------------------------- MODULE ScriptState -----------------------------
(***************************************************************************)
(* What a script reads and writes: the functions bound to its engine       *)
(* (bw-scripting/src/bindings/state_api.rs) on the state accessor          *)
(* (bw-game/src/state/accessor.rs), which checks the script's permissions, *)
(* queues a change (mutations.rs) and records it in an overlay             *)
(* (overlay.rs) through which later reads go, until the queue is taken and *)
(* applied to the live state (bw-runtime/src/state.rs, apply_mutation).    *)
(*                                                                         *)
(* ScriptTransactions has the threads that share one accessor and the      *)
(* checkpoints; here there is one script, and what its calls mean.         *)
(***************************************************************************)
EXTENDS Naturals, Sequences, SequencesExt

CONSTANTS
    Vessels,        \* ids of ships
    Zones,          \* sectors
    Nowhere,        \* no sector: the nil id of a ship whose sector was destroyed
    FullHull,       \* the hull a ship cannot exceed
    MaxTodo         \* bound: the length of the queue

ASSUME ZoneAssumption == Nowhere \notin Zones
ASSUME HullPointsAssumption == FullHull \in Nat \ {0} /\ MaxTodo \in Nat

VARIABLES
    limits,         \* the accessor's permissions
    context,        \* the sector of the accessor's relative queries
    ships,          \* the live ships
    zones,          \* the live sectors
    todo,           \* the queue of changes
    merged,         \* overlay: per ship the changes of its hull and hold, merged
    doomed          \* overlay: what is about to be destroyed

ssVars == <<limits, context, ships, zones, todo, merged, doomed>>

NoShipHere == [zone |-> Nowhere, hull |-> 0, cargo |-> 0, live |-> FALSE]
ShipRecord == [zone : Zones \cup {Nowhere}, hull : 0..FullHull, cargo : 0..1, live : BOOLEAN]
Hulls == 0..FullHull + 1
Untouched == [hull |-> {}, cargo |-> 0]
Limits == [write : BOOLEAN, create : BOOLEAN, emit : BOOLEAN, zones : SUBSET Zones]
Todo == [kind : {"hull"}, of : Vessels, value : Hulls]
        \cup [kind : {"load", "destroy", "spawn"}, of : Vessels, zone : Zones]
        \cup [kind : {"raze", "notice"}, zone : Zones]

\* Type correctness.
ScriptStateTypeOK ==
    /\ limits \in Limits /\ context \in Zones \cup {Nowhere}
    /\ ships \in [Vessels -> ShipRecord] /\ zones \subseteq Zones
    /\ todo \in Seq(Todo)
    /\ merged \in [Vessels -> [hull : SUBSET Hulls, cargo : 0..1]]
    /\ doomed \subseteq Vessels

\* AccessPermissions: the default, and what the executors set.
Default == [write |-> FALSE, create |-> FALSE, emit |-> FALSE, zones |-> Zones]
Trusted == [write |-> TRUE, create |-> TRUE, emit |-> TRUE, zones |-> Zones]
NpcBehavior(z) == [write |-> TRUE, create |-> FALSE, emit |-> TRUE, zones |-> {z}]
ReadOnly == Default

ScriptStateInit ==
    /\ limits = Default /\ context = Nowhere /\ zones = Zones
    /\ \E z \in Zones : ships = [v \in Vessels |->
            [zone |-> z, hull |-> FullHull, cargo |-> 0, live |-> TRUE]]
    /\ todo = <<>> /\ merged = [v \in Vessels |-> Untouched] /\ doomed = {}

-----------------------------------------------------------------------------
(* Reading *)

\* A merged change of the hull is the last one made (at most one).
HullOf(v) == IF merged[v].hull = {} THEN ships[v].hull
             ELSE CHOOSE h \in merged[v].hull : TRUE

\* apply_to_ship: the live ship with the changed fields replaced.  The changes of
\* its hold are kept in the overlay but not shown.
Overlaid(v) == [ships[v] EXCEPT !.hull = HullOf(v),
                                !.live = ships[v].live /\ v \notin doomed]

\* get_ship refuses a ship outside the sectors of the permissions.
MayRead(v) == ships[v].zone \in limits.zones
GetShip(v) == IF MayRead(v) /\ Overlaid(v).live THEN {Overlaid(v)} ELSE {}
ShipsInSector(z) == {v \in Vessels : z \in limits.zones /\ ships[v].zone = z /\ Overlaid(v).live}

\* get_context_sector, for queries near a position and for a spawn.
ContextSector == IF context \in limits.zones \cap zones THEN context ELSE Nowhere

-----------------------------------------------------------------------------
(* Writing *)

SameLive == UNCHANGED <<limits, context, ships, zones>>

Queue(change) ==
    /\ Len(todo) < MaxTodo
    /\ todo' = Append(todo, change)

\* Mutant of MergeHull: the first value stays.
MergeHullFirst(old, h) == IF old = {} THEN {h} ELSE old

\* ShipChanges::merge: a later value of the same field replaces the earlier one.
MergeHull(old, h) == {h}

\* modify_ship: permission to write covers every ship of every sector.
WritesAllowed == limits.write

\* The hull stands for every field that is set (stance, locked target, position).
ModifyHull(v, h) ==
    /\ WritesAllowed
    /\ merged' = [merged EXCEPT ![v].hull = MergeHull(@, h)]
    /\ Queue([kind |-> "hull", of |-> v, value |-> h])
    /\ UNCHANGED doomed /\ SameLive

\* damage_ship: the hull read through the overlay, or a full one if the ship
\* cannot be read, less the damage.
Damage(v) ==
    \E current \in IF GetShip(v) = {} THEN {FullHull} ELSE {s.hull : s \in GetShip(v)} :
        ModifyHull(v, IF current = 0 THEN 0 ELSE current - 1)

\* add_cargo.
AddCargo(v) ==
    /\ WritesAllowed
    /\ merged' = [merged EXCEPT ![v].cargo = 1]
    /\ Queue([kind |-> "load", of |-> v, zone |-> ships[v].zone])
    /\ ships[v].zone # Nowhere
    /\ UNCHANGED doomed /\ SameLive

\* spawn_npc, where the script says or in the context sector.
SpawnNpc(v, z) ==
    /\ limits.create /\ z \in limits.zones \cap {z, ContextSector}
    /\ ~ships[v].live /\ \A i \in DOMAIN todo : todo[i].kind = "spawn" => todo[i].of # v
    /\ v \notin doomed /\ merged[v] = Untouched
    /\ Queue([kind |-> "spawn", of |-> v, zone |-> z])
    /\ UNCHANGED <<merged, doomed>> /\ SameLive

\* destroy_entity, of a ship and of a sector.
DestroyShip(v) ==
    /\ limits.create
    /\ doomed' = doomed \cup {v}
    /\ Queue([kind |-> "destroy", of |-> v, zone |-> CHOOSE z \in Zones : TRUE])
    /\ UNCHANGED merged /\ SameLive

DestroySector(z) ==
    /\ limits.create
    /\ Queue([kind |-> "raze", zone |-> z])
    /\ UNCHANGED <<merged, doomed>> /\ SameLive

\* emit_event, broadcast_to_sector, send_notification: queued, and no read shows it.
Announce(z) ==
    /\ limits.emit \/ z \in limits.zones
    /\ Queue([kind |-> "notice", zone |-> z])
    /\ UNCHANGED <<merged, doomed>> /\ SameLive

-----------------------------------------------------------------------------
(* Applying *)

Within(h) == IF h > FullHull THEN FullHull ELSE h

\* apply_mutation: a change of what is not there fails and changes nothing.
Applied(f, c) ==
    CASE c.kind = "hull" /\ f[c.of].live -> [f EXCEPT ![c.of].hull = Within(c.value)]
      [] c.kind = "load" /\ f[c.of].live -> [f EXCEPT ![c.of].cargo = 1]
      [] c.kind = "destroy" -> [f EXCEPT ![c.of] = NoShipHere]
      [] c.kind = "spawn" -> [f EXCEPT ![c.of] = [zone |-> c.zone, hull |-> FullHull,
                                                  cargo |-> 0, live |-> TRUE]]
      [] c.kind = "raze" -> [v \in Vessels |->
            IF f[v].zone = c.zone THEN [f[v] EXCEPT !.zone = Nowhere] ELSE f[v]]
      [] OTHER -> f

AfterTodo ==
    LET after[n \in 0..Len(todo)] ==
            IF n = 0 THEN ships ELSE Applied(after[n - 1], todo[n])
    IN  after[Len(todo)]

\* take_mutations and apply_mutations.
ApplyPending ==
    /\ todo # <<>>
    /\ ships' = AfterTodo
    /\ zones' = zones \ {todo[i].zone : i \in {j \in DOMAIN todo : todo[j].kind = "raze"}}
    /\ todo' = <<>> /\ merged' = [v \in Vessels |-> Untouched] /\ doomed' = {}
    /\ UNCHANGED <<limits, context>>

\* clear_mutations.
Clear ==
    /\ todo' = <<>> /\ merged' = [v \in Vessels |-> Untouched] /\ doomed' = {}
    /\ SameLive

\* The next script of the accessor.
SetPermissions(p, z) ==
    /\ limits' = p /\ context' = z
    /\ UNCHANGED <<ships, zones, todo, merged, doomed>>

\* The rest of the game damages a ship meanwhile.
Hit(v) ==
    /\ ships[v].live /\ ships[v].hull > 0
    /\ ships' = [ships EXCEPT ![v].hull = @ - 1]
    /\ UNCHANGED <<limits, context, zones, todo, merged, doomed>>

ScriptStateNext ==
    \/ ApplyPending \/ Clear
    \/ \E v \in Vessels : \/ Damage(v) \/ AddCargo(v) \/ DestroyShip(v) \/ Hit(v)
                          \/ \E h \in Hulls : ModifyHull(v, h)
                          \/ \E z \in zones : SpawnNpc(v, z)
    \/ \E z \in zones : \/ DestroySector(z) \/ Announce(z)
                        \/ \E p \in {Trusted, NpcBehavior(z), ReadOnly} : SetPermissions(p, z)

ScriptStateSpec == ScriptStateInit /\ [][ScriptStateNext]_ssVars

-----------------------------------------------------------------------------
(* Properties *)

\* "Read your own writes": whatever a script queued, in whatever order, the ship it
\* would read is the ship that applying its queue leaves, up to the bounds of a hull;
\* the hold is left out, as the overlay leaves it out (overlay.rs:77).  The ships
\* listed in a sector are those that can be read one by one.
ReadsWhatItWrote ==
    /\ \A z \in Zones, v \in Vessels :
        (v \in ShipsInSector(z)) = (ships[v].zone = z /\ GetShip(v) # {})
    /\ \A v \in Vessels : ships[v].live =>
        /\ Overlaid(v).live = AfterTodo[v].live
        /\ Overlaid(v).live => Within(Overlaid(v).hull) = AfterTodo[v].hull
=============================================================================

--------------------------------- MODULE Combat ---------------------------------
(***************************************************************************)
(* Combat in one sector: simulation/combat_processor.rs over the           *)
(* CombatEngagement of bw-game, the damage model of Ship, and the spawning *)
(* and clean-up of NPC ships that share the tick.                          *)
(*                                                                         *)
(* The game loop goes through the engagements once a tick; other tasks     *)
(* start engagements and flee from them at any time.  Every access to the  *)
(* map of ships or of engagements locks one entry, so an operation is cut  *)
(* where it lets one entry go and takes the next.  A status is Idle,       *)
(* Disabled, Destroyed or the engagement of InCombat; a hull is gone (0),  *)
(* below a quarter (1) or sound (2).  Ammunition, weapons, ranges and the  *)
(* rules scripts compute are choices.                                      *)
(***************************************************************************)
EXTENDS Integers, FiniteSets

CONSTANTS
    Ships, PlayerShips,   \* all ships that may ever exist, and those of players
    Engagements,          \* identifiers of engagements
    Fighters,             \* tasks that call start_combat and flee_from_combat
    NoEngagement, NoShip,
    MaxNpcs,              \* the limit of NPC ships of the sector
    MaxCrashes            \* bound: stops of the process

ASSUME CombatAssumption ==
    /\ PlayerShips \subseteq Ships
    /\ NoEngagement \notin Engagements /\ NoShip \notin Ships
    /\ Engagements \cap {"Idle", "Disabled", "Destroyed"} = {}
    /\ MaxNpcs \in Nat /\ MaxCrashes \in Nat

VARIABLES
    present,        \* keys of GameState::ships, all listed in the sector
    spawned,        \* ships that exist or existed: a Uuid is not drawn twice
    status, hull,   \* of each ship
    side,           \* side_a and side_b of each engagement
    open,           \* keys of the sector's combats
    resolved,       \* engagements whose is_resolved is set
    begun,          \* identifiers of engagements ever drawn
    round,          \* the game loop inside process_sector_combats and cleanup_npcs
    fighter,        \* each task inside start_combat or flee_from_combat
    crashes, forgotten   \* stops of the process, engagements they made it forget

combatVars == <<present, spawned, status, hull, side, open, resolved, begun, round,
                fighter, crashes, forgotten>>

Npcs     == Ships \ PlayerShips
Statuses == {"Idle", "Disabled", "Destroyed"} \union Engagements
Pairs    == Ships \X Ships

\* What the loop holds: identifiers still to visit, the engagement it is at with
\* the attacks left and the ships destroyed, the engagements resolved so far, the
\* ships to release or to despawn, and the ships it has locked for good.
Round   == [pc : {"idle", "scan", "fight", "release", "spawned", "cleanup", "stuck"},
            todo : SUBSET Engagements, at : Engagements \union {NoEngagement},
            attacks : SUBSET Pairs, dead : SUBSET Ships,
            ended : SUBSET Engagements, ships : SUBSET Ships, locked : SUBSET Ships]
NoRound == [pc |-> "idle", todo |-> {}, at |-> NoEngagement, attacks |-> {}, dead |-> {},
            ended |-> {}, ships |-> {}, locked |-> {}]

Fight   == [pc : {"idle", "initiator", "target", "insert", "leave", "rest"},
            a : Ships \union {NoShip}, b : Ships \union {NoShip},
            e : Engagements \union {NoEngagement}]
NoFight == [pc |-> "idle", a |-> NoShip, b |-> NoShip, e |-> NoEngagement]

NoSides == [a |-> {}, b |-> {}]

CombatTypeOK ==
    /\ present \subseteq spawned /\ spawned \subseteq Ships
    /\ status \in [Ships -> Statuses]
    /\ hull \in [Ships -> 0 .. 2]
    /\ side \in [Engagements -> [a : SUBSET Ships, b : SUBSET Ships]]
    /\ open \subseteq begun /\ begun \subseteq Engagements
    /\ resolved \subseteq begun /\ forgotten \subseteq begun
    /\ round \in Round
    /\ fighter \in [Fighters -> Fight]
    /\ crashes \in 0 .. MaxCrashes

CombatInit ==
    /\ present = PlayerShips /\ spawned = PlayerShips
    /\ status = [s \in Ships |-> "Idle"]
    /\ hull = [s \in Ships |-> 2]
    /\ side = [e \in Engagements |-> NoSides]
    /\ open = {} /\ resolved = {} /\ begun = {} /\ forgotten = {}
    /\ round = NoRound
    /\ fighter = [f \in Fighters |-> NoFight]
    /\ crashes = 0

InCombat(s)      == status[s] \in Engagements
FightDone(f)     == fighter' = [fighter EXCEPT ![f] = NoFight]
Participants(e)  == side[e].a \union side[e].b
Locked(s)        == s \in round.locked
\* The loop holds the entry of the engagement it is at.
BeingFought(e)   == round.at = e

\* A change of a ship's status when the map still has it.
Becomes(s, new) ==
    /\ ~Locked(s)
    /\ status' = IF s \in present THEN [status EXCEPT ![s] = new] ELSE status

\* CombatEngagement::remove_ship: an empty side resolves the engagement.
RemoveShip(e, s) ==
    /\ side' = [side EXCEPT ![e] = [a |-> @.a \ {s}, b |-> @.b \ {s}]]
    /\ resolved' = IF side'[e].a = {} \/ side'[e].b = {} THEN resolved \union {e}
                                                         ELSE resolved
-----------------------------------------------------------------------------
\* start_combat: both ships are looked at under their locks and then changed one
\* after the other; nothing looks at them again.

FightAt(f, pc)   == fighter[f].pc = pc
FightGoes(f, pc) == fighter' = [fighter EXCEPT ![f].pc = pc]

StartCombat(f, a, b, e) ==
    /\ FightAt(f, "idle")
    /\ {a, b} \subseteq present /\ ~Locked(a) /\ ~Locked(b)
    /\ ~InCombat(a) /\ ~InCombat(b)
    /\ e \notin begun
    /\ begun' = begun \union {e}
    /\ fighter' = [fighter EXCEPT ![f] = [pc |-> "initiator", a |-> a, b |-> b, e |-> e]]
    /\ UNCHANGED <<present, spawned, status, hull, side, open, resolved, round, crashes,
                   forgotten>>

EngageInitiator(f) ==
    /\ FightAt(f, "initiator")
    /\ Becomes(fighter[f].a, fighter[f].e)
    /\ FightGoes(f, "target")
    /\ UNCHANGED <<present, spawned, hull, side, open, resolved, begun, round, crashes,
                   forgotten>>

EngageTarget(f) ==
    /\ FightAt(f, "target")
    /\ Becomes(fighter[f].b, fighter[f].e)
    /\ FightGoes(f, "insert")
    /\ UNCHANGED <<present, spawned, hull, side, open, resolved, begun, round, crashes,
                   forgotten>>

InsertCombat(f) ==
    /\ FightAt(f, "insert")
    /\ open' = open \union {fighter[f].e}
    /\ side' = [side EXCEPT ![fighter[f].e] = [a |-> {fighter[f].a}, b |-> {fighter[f].b}]]
    /\ FightDone(f)
    /\ UNCHANGED <<present, spawned, status, hull, resolved, begun, round, crashes, forgotten>>

\* flee_from_combat, when the dice let it: the engagement is read from the ship,
\* the ship leaves it, if the sector still has it, and becomes idle.
Flee(f, s) ==
    /\ FightAt(f, "idle")
    /\ s \in present /\ ~Locked(s) /\ InCombat(s)
    /\ fighter' = [fighter EXCEPT ![f] = [pc |-> "leave", a |-> s, b |-> s, e |-> status[s]]]
    /\ UNCHANGED <<present, spawned, status, hull, side, open, resolved, begun, round,
                   crashes, forgotten>>

LeaveCombat(f) ==
    /\ FightAt(f, "leave")
    /\ ~BeingFought(fighter[f].e)
    /\ IF fighter[f].e \in open THEN RemoveShip(fighter[f].e, fighter[f].a)
                                ELSE UNCHANGED <<side, resolved>>
    /\ FightGoes(f, "rest")
    /\ UNCHANGED <<present, spawned, status, hull, open, begun, round, crashes, forgotten>>

Rest(f) ==
    /\ FightAt(f, "rest")
    /\ Becomes(fighter[f].a, "Idle")
    /\ FightDone(f)
    /\ UNCHANGED <<present, spawned, hull, side, open, resolved, begun, round, crashes,
                   forgotten>>
-----------------------------------------------------------------------------
\* process_sector_combats: the identifiers are collected, then each engagement is
\* fought for a round under its lock.

TickUnchanged == UNCHANGED <<present, spawned, begun, fighter, crashes, forgotten>>
RoundAt(pc)   == round.pc = pc

BeginTick ==
    /\ RoundAt("idle")
    /\ round' = [NoRound EXCEPT !.pc = "scan", !.todo = open]
    /\ UNCHANGED <<status, hull, side, open, resolved>> /\ TickUnchanged

\* Mutant of PassOver: an engagement resolved by a flight is taken away as well.
PassOverEnding(e) ==
    /\ RoundAt("scan") /\ e \in round.todo
    /\ e \notin open \/ e \in resolved
    /\ round' = [round EXCEPT !.todo = @ \ {e}, !.ended = @ \union ({e} \cap open)]
    /\ UNCHANGED <<status, hull, side, open, resolved>> /\ TickUnchanged

\* An engagement that is gone or resolved already is passed over.
PassOver(e) ==
    /\ RoundAt("scan") /\ e \in round.todo
    /\ e \notin open \/ e \in resolved
    /\ round' = [round EXCEPT !.todo = @ \ {e}]
    /\ UNCHANGED <<status, hull, side, open, resolved>> /\ TickUnchanged

\* Whoever is still there picks one target of the other side, or none, as the script
\* says.
BeginRound(e) ==
    /\ RoundAt("scan") /\ e \in round.todo \cap (open \ resolved)
    /\ \E chosen \in SUBSET ((side[e].a \X side[e].b) \union (side[e].b \X side[e].a)) :
        /\ \A p, q \in chosen : p[1] \in present /\ (p[1] = q[1] => p = q)
        /\ round' = [round EXCEPT !.pc = "fight", !.at = e, !.attacks = chosen,
                                  !.todo = @ \ {e}]
    /\ UNCHANGED <<status, hull, side, open, resolved>> /\ TickUnchanged

CanAttack(s) == hull[s] > 0 /\ status[s] \notin {"Disabled", "Destroyed"}

\* A side of a dead ship, a ship that is not there, an attack on oneself, one that
\* the ship is in no state for; for want of ammunition or of a rule any attack.
SkipAttack(p) ==
    /\ RoundAt("fight") /\ p \in round.attacks
    /\ round' = [round EXCEPT !.attacks = @ \ {p}]
    /\ UNCHANGED <<status, hull, side, open, resolved>> /\ TickUnchanged

MayHit(p) ==
    /\ RoundAt("fight") /\ p \in round.attacks
    /\ p[1] # p[2] /\ {p[1], p[2]} \cap round.dead = {}
    /\ {p[1], p[2]} \subseteq present /\ CanAttack(p[1])

\* Mutant of Kill: the hull is not kept from falling below zero.
KillUnclamped(p) ==
    /\ MayHit(p)
    /\ hull' = [hull EXCEPT ![p[2]] = @ - 3]
    /\ status' = [status EXCEPT ![p[2]] = "Destroyed"]
    /\ RemoveShip(round.at, p[2])
    /\ round' = [round EXCEPT !.attacks = @ \ {p}, !.dead = @ \union {p[2]}]
    /\ UNCHANGED open /\ TickUnchanged

\* apply_damage leaves no hull: the locks are let go before the target is removed.
Kill(p) ==
    /\ MayHit(p)
    /\ hull' = [hull EXCEPT ![p[2]] = 0]
    /\ status' = [status EXCEPT ![p[2]] = "Destroyed"]
    /\ RemoveShip(round.at, p[2])
    /\ round' = [round EXCEPT !.attacks = @ \ {p}, !.dead = @ \union {p[2]}]
    /\ UNCHANGED open /\ TickUnchanged

\* The status apply_damage leaves when h of the hull is left.
DamagedStatus(s, h) == IF h = 1 THEN "Disabled" ELSE status[s]

\* A miss or a hit the target survives: resolve_attack still holds the locks of
\* both ships when it looks both up again for the event's names, and waits for itself.
Graze(p) ==
    /\ MayHit(p)
    /\ \E h \in 1 .. hull[p[2]] :
        /\ hull' = [hull EXCEPT ![p[2]] = h]
        /\ status' = [status EXCEPT ![p[2]] = DamagedStatus(p[2], h)]
    /\ round' = [round EXCEPT !.pc = "stuck", !.locked = {p[1], p[2]}]
    /\ UNCHANGED <<side, open, resolved>> /\ TickUnchanged

EndRound ==
    /\ RoundAt("fight") /\ round.attacks = {}
    /\ round' = [round EXCEPT !.pc = "scan", !.at = NoEngagement, !.dead = {},
                              !.ended = @ \union ({round.at} \cap resolved)]
    /\ UNCHANGED <<status, hull, side, open, resolved>> /\ TickUnchanged

\* Mutant of RemoveCombat: only the initiator's side is released.
RemoveCombatSideA(e) ==
    /\ RoundAt("scan") /\ round.todo = {} /\ e \in round.ended
    /\ open' = open \ {e}
    /\ round' = [round EXCEPT !.pc = "release", !.ended = @ \ {e}, !.ships = side[e].a]
    /\ side' = [side EXCEPT ![e] = NoSides] /\ resolved' = resolved \ {e}
    /\ UNCHANGED <<status, hull>> /\ TickUnchanged

\* The engagement leaves the sector; its ships are released one after the other.
RemoveCombat(e) ==
    /\ RoundAt("scan") /\ round.todo = {} /\ e \in round.ended
    /\ open' = open \ {e}
    /\ round' = [round EXCEPT !.pc = "release", !.ended = @ \ {e}, !.ships = Participants(e)]
    /\ side' = [side EXCEPT ![e] = NoSides] /\ resolved' = resolved \ {e}
    /\ UNCHANGED <<status, hull>> /\ TickUnchanged

\* Mutant of Released: the status of the survivor is not looked at.
ReleasedAnyway(s) == Becomes(s, "Idle")

Released(s) == IF InCombat(s) THEN Becomes(s, "Idle") ELSE UNCHANGED status

Release(s) ==
    /\ RoundAt("release") /\ s \in round.ships
    /\ Released(s)
    /\ round' = [round EXCEPT !.ships = @ \ {s}]
    /\ UNCHANGED <<hull, side, open, resolved>> /\ TickUnchanged

EndRelease ==
    /\ RoundAt("release") /\ round.ships = {}
    /\ round' = [round EXCEPT !.pc = "scan"]
    /\ UNCHANGED <<status, hull, side, open, resolved>> /\ TickUnchanged

CombatsDone == RoundAt("scan") /\ round.todo = {} /\ round.ended = {}

\* try_spawn_npcs: below the limit a new ship may enter, which is taken out again
\* when no behavior can be attached to it.  A bound: none enters after a restart.
Spawn(s) ==
    /\ CombatsDone
    /\ s \in Npcs \ spawned
    /\ Cardinality(present \cap Npcs) < MaxNpcs /\ crashes = 0
    /\ present' \in {present \union {s}, present}
    /\ spawned' = spawned \union {s}
    /\ round' = [round EXCEPT !.pc = "spawned"]
    /\ UNCHANGED <<status, hull, side, open, resolved, begun, fighter, crashes, forgotten>>

\* cleanup_npcs: the destroyed and some of those out of combat are collected.
CollectNpcs ==
    /\ CombatsDone \/ RoundAt("spawned")
    /\ \E far \in SUBSET {s \in present \cap Npcs : ~InCombat(s)} :
        round' = [round EXCEPT
            !.pc = "cleanup",
            !.ships = far \union {s \in present \cap Npcs : status[s] = "Destroyed"}]
    /\ UNCHANGED <<status, hull, side, open, resolved>> /\ TickUnchanged

RemoveNpc(s) ==
    /\ RoundAt("cleanup") /\ s \in round.ships
    /\ present' = present \ {s}
    /\ round' = [round EXCEPT !.ships = @ \ {s}]
    /\ UNCHANGED <<spawned, status, hull, side, open, resolved, begun, fighter, crashes,
                   forgotten>>

EndTick ==
    /\ RoundAt("cleanup") /\ round.ships = {}
    /\ round' = NoRound
    /\ UNCHANGED <<status, hull, side, open, resolved>> /\ TickUnchanged

\* A stop forgets the engagements and the NPC ships; the rows keep the statuses.
Crash ==
    /\ crashes < MaxCrashes
    /\ crashes' = crashes + 1
    /\ present' = PlayerShips
    /\ open' = {} /\ forgotten' = begun
    /\ round' = NoRound
    /\ fighter' = [f \in Fighters |-> NoFight]
    /\ side' = [e \in Engagements |-> NoSides] /\ resolved' = {}
    /\ UNCHANGED <<spawned, status, hull, begun>>

Tick ==
    \/ BeginTick \/ EndRound \/ EndRelease \/ CollectNpcs \/ EndTick
    \/ \E e \in Engagements : PassOver(e) \/ BeginRound(e) \/ RemoveCombat(e)
    \/ \E p \in Pairs : SkipAttack(p) \/ Kill(p) \/ Graze(p)
    \/ \E s \in Ships : Release(s) \/ Spawn(s) \/ RemoveNpc(s)

Orders ==
    \E f \in Fighters :
        \/ \E a, b \in Ships, e \in Engagements : StartCombat(f, a, b, e)
        \/ EngageInitiator(f) \/ EngageTarget(f) \/ InsertCombat(f)
        \/ \E s \in Ships : Flee(f, s)
        \/ LeaveCombat(f) \/ Rest(f)

CombatNext == Tick \/ Orders \/ Crash

CombatSpec == CombatInit /\ [][CombatNext]_combatVars
FairCombat == CombatSpec /\ WF_combatVars(Tick)
-----------------------------------------------------------------------------
\* Who may still be about to change the status of s away from e, or to list s in e.
Underway(s, e) ==
    \/ \E f \in Fighters : /\ fighter[f].e = e /\ s \in {fighter[f].a, fighter[f].b}
                           /\ fighter[f].pc \in {"target", "insert", "rest"}
    \/ RoundAt("release") /\ s \in round.ships

\* A ship in combat is listed by the engagement its status names and the sector
\* still has it; otherwise somebody is about to put that right, or the engagement was
\* forgotten by a restart, which no code repairs.
StatusNamesEngagement ==
    \A s \in present : InCombat(s) =>
        \/ status[s] \in open /\ s \in Participants(status[s])
        \/ Underway(s, status[s])
        \/ status[s] \in forgotten

\* The game loop never brings a destroyed ship back, though a ship may be in two
\* engagements and be destroyed in one while the other ends with it as the survivor.
LoopRaisesNoWreck ==
    [][round' # round /\ crashes' = crashes =>
         \A s \in Ships : status[s] = "Destroyed" => status'[s] = "Destroyed"]_combatVars

\* An engagement that a flight resolved stays in the sector for good, and with it the
\* status of the ship left behind: no later round ends it, only a restart forgets it.
FledEngagementStays ==
    [][crashes' = crashes =>
         \A e \in (open \cap resolved) \ round.ended :
            round.at # e => e \in open' /\ e \notin round'.ended]_combatVars

\* What combat leaves behind it: the loop raises no wreck, and an engagement that a
\* flight resolved stays.
CombatKeepsRecords == LoopRaisesNoWreck /\ FledEngagementStays

\* "Process all active combats in a sector for one tick" (combat_processor.rs:34):
\* a round that begins comes to its end.
RoundsEnd == RoundAt("fight") ~> RoundAt("scan")
=============================================================================

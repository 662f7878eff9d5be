----------------------------- MODULE ClientView -----------------------------
(***************************************************************************)
(* What a player's client shows of its sector against what the server      *)
(* lists there.  The server sends a snapshot (InitialState) when a client  *)
(* authenticates or joins a sector, and the spawns and despawns of         *)
(* StateUpdate afterwards: bw-runtime/src/ws/handler.rs, game_loop.rs and  *)
(* npc_spawner.rs.  The web client (bw-frontend/src/state/game_state.rs)   *)
(* and the terminal client (bw-tui/src/state/game_state.rs) apply them.    *)
(*                                                                         *)
(* A player has one ship, named as the player, and one connection; the     *)
(* messages of a connection arrive in order.  A client's list is taken as  *)
(* a set: a ship listed twice is not told apart (both copies go at its     *)
(* despawn).  Positions, hull, missions, chat and combat are left out.     *)
(***************************************************************************)
EXTENDS Integers, Sequences, FiniteSets, SequencesExt

CONSTANTS
  ViewPlayers,    \* players, each with the ship of that name
  Terminals,      \* the players that use the terminal client
  ViewNpcs,       \* NPC ships, each used once
  ViewSectors,
  NoWhere,        \* a player without a connection
  MaxMoves,       \* bound on joins of another sector
  MaxQueue        \* bound on the messages on their way to one client

ASSUME TerminalsAssumption == Terminals \subseteq ViewPlayers

ASSUME ViewAssumption ==
  /\ ViewPlayers \cap ViewNpcs = {} /\ NoWhere \notin ViewSectors
  /\ MaxQueue \in Nat

VARIABLES
  listed,         \* [ViewSectors -> ships], SectorInstance.ship_ids
  connected,      \* [ViewSectors -> players], SectorInstance.connections
  serving,        \* [ViewPlayers -> what the player's handler is doing]
  wire,           \* [ViewPlayers -> Seq of messages]
  shown,          \* [ViewPlayers -> ships], the client's list
  looping,        \* the tick of one sector: [sector, phase, spawns, despawns]
  usedNpcs,       \* NPC ids used so far
  moves,          \* joins so far
  silent,         \* history: ships listed, removed or announced without the other
  flickered,      \* history: ships in the spawns and despawns of one update
  raced           \* history: players sent an update between their snapshot and
                  \* its being sent and registered

viewVars == <<listed, connected, serving, wire, shown, looping, usedNpcs, moves,
              silent, flickered, raced>>

NotServing == [phase |-> "idle", from |-> NoWhere, to |-> NoWhere, snapshot |-> {}]
NoTick == [phase |-> "idle", sector |-> NoWhere, spawns |-> {}, despawns |-> {}]
InitialState(ships) == [kind |-> "initial", ships |-> ships, gone |-> {}]
StateUpdate(spawns, despawns) == [kind |-> "update", ships |-> spawns, gone |-> despawns]

SectorsOf(p) == {s \in ViewSectors : p \in listed[s]}
RoomFor(players) == \A p \in players : Len(wire[p]) < MaxQueue

\* SectorInstance.broadcast: to every connection of the sector but one.
Tell(players, message) ==
  /\ RoomFor(players)
  /\ wire' = [p \in ViewPlayers |-> IF p \in players THEN Append(wire[p], message) ELSE wire[p]]

\* History: players whose snapshot has been taken but not sent and registered.
Between == {p \in ViewPlayers : serving[p].phase \in {"snapped", "answered"}}

ViewInit ==
  /\ listed \in [ViewSectors -> {{}}]
  /\ connected = [s \in ViewSectors |-> {}]
  /\ serving = [p \in ViewPlayers |-> NotServing]
  /\ wire = [p \in ViewPlayers |-> <<>>]
  /\ shown = [p \in ViewPlayers |-> {}]
  /\ looping = NoTick
  /\ usedNpcs = {}
  /\ moves = 0
  /\ silent = {}
  /\ flickered = {}
  /\ raced = {}

-----------------------------------------------------------------------------
(* The first connection: the ship was listed by the log-in, which tells     *)
(* nobody; then send_initial_state.                                         *)

Authenticate(p, s) ==
  /\ serving[p] = NotServing /\ SectorsOf(p) = {}
  /\ listed' = [listed EXCEPT ![s] = @ \cup {p}]
  /\ silent' = silent \cup {p}
  /\ serving' = [serving EXCEPT ![p] = [NotServing EXCEPT !.phase = "connecting", !.to = s]]
  /\ UNCHANGED <<connected, wire, shown, looping, usedNpcs, moves, flickered, raced>>

\* The snapshot of both handlers: every listed ship but the player's own.
Snapshot(p) ==
  /\ serving[p].phase \in {"connecting", "entered"}
  /\ serving' = [serving EXCEPT ![p].phase = IF @ = "entered" THEN "snapped" ELSE "answered",
                                ![p].snapshot = listed[serving[p].to] \ {p}]
  /\ raced' = raced \ {p}
  /\ UNCHANGED <<listed, connected, wire, shown, looping, usedNpcs, moves, silent, flickered>>

\* send_initial_state sends the snapshot and registers the connection after it.
AnswerConnection(p) ==
  /\ serving[p].phase = "answered" /\ serving[p].snapshot # {p}
  /\ Tell({p}, InitialState(serving[p].snapshot))
  /\ serving' = [serving EXCEPT ![p].snapshot = {p}]
  /\ UNCHANGED <<listed, connected, shown, looping, usedNpcs, moves, silent, flickered, raced>>

RegisterConnection(p) ==
  /\ serving[p].phase = "answered" /\ serving[p].snapshot = {p}
  /\ connected' = [connected EXCEPT ![serving[p].to] = @ \cup {p}]
  /\ serving' = [serving EXCEPT ![p] = NotServing]
  /\ UNCHANGED <<listed, wire, shown, looping, usedNpcs, moves, silent, flickered, raced>>

-----------------------------------------------------------------------------
(* handle_join_sector *)

LeaveOldSector(p, s, t) ==
  /\ serving[p] = NotServing /\ s # t
  /\ p \in listed[s] /\ p \in connected[s]
  /\ moves < MaxMoves
  /\ moves' = moves + 1
  /\ listed' = [listed EXCEPT ![s] = @ \ {p}]
  /\ connected' = [connected EXCEPT ![s] = @ \ {p}]
  /\ serving' = [serving EXCEPT ![p] = [NotServing EXCEPT !.phase = "left", !.from = s, !.to = t]]
  /\ UNCHANGED <<wire, shown, looping, usedNpcs, silent, flickered, raced>>

TellOldSector(p) ==
  /\ serving[p].phase = "left"
  /\ Tell(connected[serving[p].from], StateUpdate({}, {p}))
  /\ raced' = raced \cup {q \in Between : serving[q].to = serving[p].from}
  /\ serving' = [serving EXCEPT ![p].phase = "told"]
  /\ UNCHANGED <<listed, connected, shown, looping, usedNpcs, moves, silent, flickered>>

EnterNewSector(p) ==
  /\ serving[p].phase = "told"
  /\ listed' = [listed EXCEPT ![serving[p].to] = @ \cup {p}]
  /\ connected' = [connected EXCEPT ![serving[p].to] = @ \cup {p}]
  /\ serving' = [serving EXCEPT ![p].phase = "entered"]
  /\ UNCHANGED <<wire, shown, looping, usedNpcs, moves, silent, flickered, raced>>

\* InitialState to the player itself, after the snapshot.
Welcome(p) ==
  /\ serving[p].phase = "snapped"
  /\ Tell({p}, InitialState(serving[p].snapshot))
  /\ serving' = [serving EXCEPT ![p].phase = "welcomed"]
  /\ UNCHANGED <<listed, connected, shown, looping, usedNpcs, moves, silent, flickered, raced>>

\* The spawn to the others; from here on the ship has been announced.
Announce(p) ==
  /\ serving[p].phase = "welcomed"
  /\ Tell(connected[serving[p].to] \ {p}, StateUpdate({p}, {}))
  /\ raced' = raced \cup {q \in Between : serving[q].to = serving[p].to}
  /\ silent' = silent \ {p}
  /\ serving' = [serving EXCEPT ![p] = NotServing]
  /\ UNCHANGED <<listed, connected, shown, looping, usedNpcs, moves, flickered>>

-----------------------------------------------------------------------------
(* One sector's tick: NPCs spawn, lose their behaviour, are cleaned up, and  *)
(* the update goes to the connections there are by then.                     *)

StartTick(s) ==
  /\ looping = NoTick
  /\ looping' = [NoTick EXCEPT !.phase = "spawn", !.sector = s]
  /\ UNCHANGED <<listed, connected, serving, wire, shown, usedNpcs, moves, silent, flickered, raced>>

SpawnNpc(n) ==
  /\ looping.phase = "spawn" /\ n \notin usedNpcs
  /\ listed' = [listed EXCEPT ![looping.sector] = @ \cup {n}]
  /\ looping' = [looping EXCEPT !.phase = "attach", !.spawns = {n}]
  /\ usedNpcs' = usedNpcs \cup {n}
  /\ UNCHANGED <<connected, serving, wire, shown, moves, silent, flickered, raced>>

\* The behaviour is attached, or it cannot be and the ship is removed although
\* the update already names it.
AttachBehavior(works) ==
  /\ looping.phase = "attach"
  /\ listed' = IF works THEN listed
               ELSE [listed EXCEPT ![looping.sector] = @ \ looping.spawns]
  /\ silent' = IF works THEN silent ELSE silent \cup looping.spawns
  /\ looping' = [looping EXCEPT !.phase = "clean"]
  /\ UNCHANGED <<connected, serving, wire, shown, usedNpcs, moves, flickered, raced>>

\* cleanup_npcs: any NPC of the sector may be destroyed or too far away.
CleanUp(gone) ==
  /\ looping.phase \in {"spawn", "clean"}
  /\ gone \subseteq listed[looping.sector] \cap ViewNpcs
  /\ listed' = [listed EXCEPT ![looping.sector] = @ \ gone]
  /\ looping' = [looping EXCEPT !.phase = "send", !.despawns = gone]
  /\ flickered' = flickered \cup (gone \cap looping.spawns)
  /\ UNCHANGED <<connected, serving, wire, shown, usedNpcs, moves, silent, raced>>

\* The end of process_sector.  An update that names no ship changes no list and
\* is left out.
SendUpdate ==
  /\ looping.phase = "send"
  /\ IF looping.spawns \cup looping.despawns = {}
     THEN UNCHANGED <<wire, raced>>
     ELSE /\ Tell(connected[looping.sector], StateUpdate(looping.spawns, looping.despawns))
          /\ raced' = raced \cup {q \in Between : serving[q].to = looping.sector}
  /\ looping' = NoTick
  /\ UNCHANGED <<listed, connected, serving, shown, usedNpcs, moves, silent, flickered>>

\* apply_mutation's SpawnShip and DestroyEntity, the game master's commit and
\* the promotion of a playtest change the list and send nothing.
ChangeSilently(s, n) ==
  /\ \/ n \notin usedNpcs /\ listed' = [listed EXCEPT ![s] = @ \cup {n}]
     \/ n \in listed[s] /\ listed' = [listed EXCEPT ![s] = @ \ {n}]
  /\ usedNpcs' = usedNpcs \cup {n}
  /\ silent' = silent \cup {n}
  /\ UNCHANGED <<connected, serving, wire, shown, looping, moves, flickered, raced>>

-----------------------------------------------------------------------------
(* The clients *)

\* Mutant of TerminalApplied: the terminal client in the order of the web one.
TerminalAppliedBefore(ships, m) == (ships \ m.gone) \cup m.ships

\* bw-tui: spawns first, then despawns.
TerminalApplied(ships, m) == (ships \cup m.ships) \ m.gone

\* bw-frontend: despawns first, then spawns.
WebApplied(ships, m) == (ships \ m.gone) \cup m.ships

Receive(p) ==
  /\ wire[p] # <<>>
  /\ wire' = [wire EXCEPT ![p] = Tail(@)]
  /\ LET m == Head(wire[p])
     IN  shown' = [shown EXCEPT ![p] =
                     IF m.kind = "initial" THEN m.ships
                     ELSE IF p \in Terminals THEN TerminalApplied(@, m) ELSE WebApplied(@, m)]
  /\ UNCHANGED <<listed, connected, serving, looping, usedNpcs, moves, silent, flickered, raced>>

ViewNext ==
  \/ \E p \in ViewPlayers :
       \/ \E s \in ViewSectors : Authenticate(p, s)
       \/ Snapshot(p) \/ AnswerConnection(p) \/ RegisterConnection(p)
       \/ \E s, t \in ViewSectors : LeaveOldSector(p, s, t)
       \/ TellOldSector(p) \/ EnterNewSector(p) \/ Welcome(p) \/ Announce(p)
       \/ Receive(p)
  \/ \E s \in ViewSectors : StartTick(s)
  \/ \E n \in ViewNpcs : SpawnNpc(n)
  \/ \E works \in BOOLEAN : AttachBehavior(works)
  \/ \E gone \in SUBSET ViewNpcs : CleanUp(gone)
  \/ SendUpdate
  \/ \E s \in ViewSectors, n \in ViewNpcs : ChangeSilently(s, n)

ViewSpec == ViewInit /\ [][ViewNext]_viewVars

-----------------------------------------------------------------------------

Ships == ViewPlayers \cup ViewNpcs

\* Type invariant; a ship is listed in one sector.
ViewTypeOK ==
  /\ listed \in [ViewSectors -> SUBSET Ships]
  /\ connected \in [ViewSectors -> SUBSET ViewPlayers]
  /\ shown \in [ViewPlayers -> SUBSET Ships]
  /\ \A p \in ViewPlayers : Len(wire[p]) <= MaxQueue /\ Cardinality(SectorsOf(p)) <= 1

\* Whether a change of the list of s has still to be sent.
Unsent(s) ==
  \/ looping.sector = s
  \/ \E p \in ViewPlayers : \/ serving[p].phase \in {"left"} /\ serving[p].from = s
                            \/ serving[p].phase # "idle" /\ serving[p].to = s

\* Once everything sent has arrived, a client shows exactly the other ships of
\* its sector: those that appear and go without a word, those that came and went
\* within one update (in the web client) and clients that were sent an update
\* while they were being welcomed are the only exceptions.
ClientShowsSector ==
  \A p \in ViewPlayers, s \in ViewSectors :
    /\ p \in connected[s] /\ p \notin raced
    /\ serving[p] = NotServing /\ wire[p] = <<>> /\ ~Unsent(s)
    => LET Odd == silent \cup (IF p \in Terminals THEN {} ELSE flickered)
       IN  shown[p] \ Odd = (listed[s] \ {p}) \ Odd
=============================================================================

-------------------------------- MODULE Sessions --------------------------------
(***************************************************************************)
(* Connections, sessions and presence in sectors: ws/handler.rs and the    *)
(* log-in of routes/auth.rs.  Every websocket is a task of its own, and a  *)
(* player may have several open, the old one of a reconnect among them; a  *)
(* step runs to the task's next await.  One player has one ship, named by  *)
(* the player.                                                             *)
(*                                                                         *)
(* A connection stands for the connection_id it drew last: the cleanup     *)
(* compares ids only for the player authenticated last, whose session got  *)
(* that id.  Sessions are never removed, ships are not destroyed here and  *)
(* messages are left out, but for the awaits they cause.                   *)
(***************************************************************************)
EXTENDS Integers, FiniteSets, TLC

CONSTANTS
    Players, Conns, Sectors,
    NoPlayer, NoConn, NoSector,
    Home         \* patrol_sector_id of each player's row, which nothing updates

ASSUME SessionsAssumption ==
    /\ NoPlayer \notin Players /\ NoConn \notin Conns /\ NoSector \notin Sectors
    /\ Home \in [Players -> Sectors]

VARIABLES
    pc,             \* what each connection's task does
    asked,          \* player whose rows an authentication is waiting for
    playerOf,       \* player_id of each connection's task
    sectorOf,       \* sector_id of each connection's task, a copy
    target,         \* sector a join moves to
    session,        \* sector_id in players, GameState's sessions; NoSector: none
    owner,          \* connection_id there
    shipSector,     \* sector_id of each player's ship
    listed,         \* ship_ids of each sector
    heard           \* connections of each sector: per player, where messages go

task == <<asked, playerOf, sectorOf, target>>
vars == <<pc, task, session, owner, shipSector, listed, heard>>

\* A start of the server: ships are where their rows say, nobody is in memory.
Init ==
    /\ pc = [c \in Conns |-> "open"]
    /\ asked = [c \in Conns |-> NoPlayer]
    /\ playerOf = [c \in Conns |-> NoPlayer]
    /\ sectorOf = [c \in Conns |-> NoSector]
    /\ target = [c \in Conns |-> NoSector]
    /\ session = [p \in Players |-> NoSector]
    /\ owner = [p \in Players |-> NoConn]
    /\ shipSector \in [Players -> Sectors]
    /\ listed = [s \in Sectors |-> {}]
    /\ heard = [s \in Sectors |-> [p \in Players |-> NoConn]]

Becomes(c, step) == pc' = [pc EXCEPT ![c] = step]

\* A new session without a connection, and the ship on the list of its sector.
NewSession(p) ==
    /\ session' = [session EXCEPT ![p] = Home[p]]
    /\ owner' = [owner EXCEPT ![p] = NoConn]
    /\ listed' = [listed EXCEPT ![Home[p]] = @ \union {p}]

\* Registration, or a log-in whether or not the player has a session.
Login(p) ==
    /\ NewSession(p)
    /\ UNCHANGED <<pc, task, shipSector, heard>>

-----------------------------------------------------------------------------
(***************************************************************************)
(* Authenticate, on a connection that may be authenticated already.        *)
(***************************************************************************)
Authenticated(c, p, s) ==
    /\ playerOf' = [playerOf EXCEPT ![c] = p]
    /\ sectorOf' = [sectorOf EXCEPT ![c] = s]
    /\ Becomes(c, "register")

AuthCached(c, p) ==
    /\ pc[c] = "open"
    /\ session[p] # NoSector
    /\ Authenticated(c, p, session[p])
    /\ UNCHANGED <<asked, target, session, owner, shipSector, listed, heard>>

AuthMiss(c, p) ==
    /\ pc[c] = "open"
    /\ session[p] = NoSector
    /\ asked' = [asked EXCEPT ![c] = p]
    /\ Becomes(c, "loading")
    /\ UNCHANGED <<playerOf, sectorOf, target, session, owner, shipSector, listed, heard>>

LoadFails(c) ==
    /\ pc[c] = "loading"
    /\ asked' = [asked EXCEPT ![c] = NoPlayer]
    /\ Becomes(c, "open")
    /\ UNCHANGED <<playerOf, sectorOf, target, session, owner, shipSector, listed, heard>>

\* The rows are there.  Whether another task made a session meanwhile is not asked.
Load(c, p) ==
    /\ pc[c] = "loading"
    /\ p = asked[c]
    /\ NewSession(p)
    /\ Authenticated(c, p, Home[p])
    /\ asked' = [asked EXCEPT ![c] = NoPlayer]
    /\ UNCHANGED <<target, shipSector, heard>>

Register(c) ==
    /\ pc[c] = "register"
    /\ owner' = [owner EXCEPT ![playerOf[c]] = c]
    /\ Becomes(c, "welcome")
    /\ UNCHANGED <<task, session, shipSector, listed, heard>>

\* The end of send_initial_state.
Welcome(c) ==
    /\ pc[c] = "welcome"
    /\ heard' = [heard EXCEPT ![sectorOf[c]][playerOf[c]] = c]
    /\ Becomes(c, "open")
    /\ UNCHANGED <<task, session, owner, shipSector, listed>>

\* The ship is not in memory, since its row could not be read: nothing more is done.
WelcomeFails(c) ==
    /\ pc[c] = "welcome"
    /\ Becomes(c, "open")
    /\ UNCHANGED <<task, session, owner, shipSector, listed, heard>>

-----------------------------------------------------------------------------
(***************************************************************************)
(* JoinSector and LeaveSector.                                             *)
(***************************************************************************)
OutOf(s, p) ==
    /\ listed' = [listed EXCEPT ![s] = @ \ {p}]
    /\ heard' = [heard EXCEPT ![s][p] = NoConn]

\* The ship's entry is held from here to the arrival, across the broadcast to the
\* sector it leaves: one join of a ship at a time.
ShipHeld(p) == \E d \in Conns : pc[d] = "joining" /\ playerOf[d] = p

JoinDepart(c, s) ==
    /\ pc[c] = "open"
    /\ playerOf[c] # NoPlayer
    /\ s # sectorOf[c]
    /\ ~ShipHeld(playerOf[c])
    /\ OutOf(sectorOf[c], playerOf[c])
    /\ target' = [target EXCEPT ![c] = s]
    /\ Becomes(c, "joining")
    /\ UNCHANGED <<asked, playerOf, sectorOf, session, owner, shipSector>>

JoinArrive(c) ==
    LET p == playerOf[c]
        s == target[c]
    IN  /\ pc[c] = "joining"
        /\ shipSector' = [shipSector EXCEPT ![p] = s]
        /\ listed' = [listed EXCEPT ![s] = @ \union {p}]
        /\ heard' = [heard EXCEPT ![s][p] = c]
        /\ session' = [session EXCEPT ![p] = s]
        /\ sectorOf' = [sectorOf EXCEPT ![c] = s]
        /\ target' = [target EXCEPT ![c] = NoSector]
        /\ Becomes(c, "open")
        /\ UNCHANGED <<asked, playerOf, owner>>

Leave(c) ==
    /\ pc[c] = "open"
    /\ playerOf[c] # NoPlayer
    /\ OutOf(sectorOf[c], playerOf[c])
    /\ UNCHANGED <<pc, task, session, owner, shipSector>>

-----------------------------------------------------------------------------
(***************************************************************************)
(* The end of a connection.                                                *)
(***************************************************************************)

\* Mutant of Owns: a reconnect is not told from the old connection.
OwnsAnyway(c) == playerOf[c] # NoPlayer

Owns(c) == playerOf[c] # NoPlayer /\ owner[playerOf[c]] = c

\* Mutant of CloseOwner: the session keeps the connection.
CloseOwnerKeeping(c) ==
    /\ pc[c] = "open"
    /\ Owns(c)
    /\ Becomes(c, "closing")
    /\ UNCHANGED <<task, session, owner, shipSector, listed, heard>>

\* Mutant of CloseOwner: the session goes with its connection.
CloseOwnerForgetting(c) ==
    /\ pc[c] = "open"
    /\ Owns(c)
    /\ owner' = [owner EXCEPT ![playerOf[c]] = NoConn]
    /\ session' = [session EXCEPT ![playerOf[c]] = NoSector]
    /\ Becomes(c, "closing")
    /\ UNCHANGED <<task, shipSector, listed, heard>>

CloseOwner(c) ==
    /\ pc[c] = "open"
    /\ Owns(c)
    /\ owner' = [owner EXCEPT ![playerOf[c]] = NoConn]
    /\ Becomes(c, "closing")
    /\ UNCHANGED <<task, session, shipSector, listed, heard>>

\* Never authenticated, or a newer connection or session has taken over.
CloseOther(c) ==
    /\ pc[c] = "open"
    /\ ~Owns(c)
    /\ Becomes(c, "closed")
    /\ UNCHANGED <<task, session, owner, shipSector, listed, heard>>

\* After the session's entry is released, in the sector the task remembers.
CleanSector(c) ==
    /\ pc[c] = "closing"
    /\ heard' = [heard EXCEPT ![sectorOf[c]][playerOf[c]] = NoConn]
    /\ Becomes(c, "closed")
    /\ UNCHANGED <<task, session, owner, shipSector, listed>>

Step(c) ==
    \/ LoadFails(c) \/ Register(c) \/ Welcome(c) \/ WelcomeFails(c)
    \/ JoinArrive(c) \/ Leave(c)
    \/ CloseOwner(c) \/ CloseOther(c) \/ CleanSector(c)
    \/ \E p \in Players : AuthCached(c, p) \/ AuthMiss(c, p) \/ Load(c, p)
    \/ \E s \in Sectors : JoinDepart(c, s)

Next == (\E c \in Conns : Step(c)) \/ (\E p \in Players : Login(p))

Spec == Init /\ [][Next]_vars

-----------------------------------------------------------------------------
Gone(c) == pc[c] \in {"closing", "closed"}

TypeOK ==
    /\ pc \in [Conns -> {"open", "loading", "register", "welcome", "joining",
                         "closing", "closed"}]
    /\ asked \in [Conns -> Players \union {NoPlayer}]
    /\ playerOf \in [Conns -> Players \union {NoPlayer}]
    /\ sectorOf \in [Conns -> Sectors \union {NoSector}]
    /\ target \in [Conns -> Sectors \union {NoSector}]
    /\ session \in [Players -> Sectors \union {NoSector}]
    /\ owner \in [Players -> Conns \union {NoConn}]
    /\ shipSector \in [Players -> Sectors]
    /\ listed \in [Sectors -> SUBSET Players]
    /\ heard \in [Sectors -> [Players -> Conns \union {NoConn}]]
    /\ \A c \in Conns :
          /\ pc[c] = "loading" => asked[c] # NoPlayer
          /\ pc[c] \in {"register", "welcome", "joining", "closing"} => playerOf[c] # NoPlayer
          /\ pc[c] = "joining" => target[c] # NoSector
          /\ playerOf[c] # NoPlayer =>
                sectorOf[c] # NoSector /\ session[playerOf[c]] # NoSector

\* A session never keeps a connection that is gone, however log-ins, loads and
\* reconnects overlapped with it, unless that connection authenticated as another
\* player before it went.
GoneOwnsNothing ==
    \A c \in Conns, p \in Players : Gone(c) /\ playerOf[c] = p => owner[p] # c

\* "Only clear connection if it's still ours (prevents race condition on reconnect)":
\* a session loses the connection it has to a newer connection or a newer session of
\* the player, or to the end of that very connection; never to the end of another.
KeepsItsConnection ==
    [][\A p \in Players :
          LET c == owner[p] IN
          c # NoConn /\ owner'[p] # c =>
             \/ Login(p)
             \/ \E d \in Conns : Load(d, p) \/ (Register(d) /\ playerOf[d] = p)
             \/ pc[c] = "open" /\ pc'[c] = "closing" /\ playerOf[c] = p]_vars

Presence(p) == {s \in Sectors : p \in listed[s] \/ heard[s][p] # NoConn}

\* "Handle joining a new sector (transfers player/ship to target sector)": a player
\* and the player's ship are in one sector at a time.
OnePresence == \A p \in Players : Cardinality(Presence(p)) <= 1

-----------------------------------------------------------------------------
\* For the runs: all players at home in one sector; players are alike, and connections.
OneHome == [p \in Players |-> CHOOSE s \in Sectors : TRUE]

Symmetry == Permutations(Conns) \union Permutations(Players)
=============================================================================

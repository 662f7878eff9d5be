----------------------------- MODULE Playtests -----------------------------
(***************************************************************************)
(* Who is in which playtest: the manager's instances and its index of      *)
(* players (bw-playtest/src/manager.rs), the participants of an instance   *)
(* (instance.rs), its simulation loop (simulation.rs), and the playtest a  *)
(* player's session names (ws/admin_handler.rs).                           *)
(*                                                                         *)
(* Every player is taken for an administrator with one connection, whose   *)
(* messages are handled one after the other; handlers of different players *)
(* interleave.                                                             *)
(***************************************************************************)
EXTENDS Naturals, FiniteSets

CONSTANTS
    Players,
    Playtests,          \* the identifiers of playtests, used once each
    NoPlaytest,
    Offline,            \* the player has no session
    MaxInstances,       \* PlaytestManager::new(10)
    MaxParticipants     \* MAX_PARTICIPANTS, 20

ASSUME LimitsAssumption ==
    MaxInstances \in Nat \ {0} /\ MaxParticipants \in Nat \ {0}

ASSUME MarkersAssumption == NoPlaytest \notin Playtests /\ Offline \notin Players

VARIABLES
    named,              \* per player: the playtest its session names
    instances,          \* the playtests the manager holds
    owner,              \* per playtest: the player who created it
    participants,       \* per playtest: its participants
    index,              \* per player: player_playtest
    loops,              \* the playtests whose simulation loop runs
    doing               \* per player: the handler under way

ptVars == <<named, instances, owner, participants, index, loops, doing>>

Idle == [step |-> "idle"]
Doing(step, t, q) == [step |-> step, playtest |-> t, player |-> q]

Doings == {"forked", "marked", "counted", "registered", "join", "joined",
          "invite", "left", "destroy"}

\* Type correctness.
PlaytestsTypeOK ==
    /\ named \in [Players -> Playtests \cup {NoPlaytest, Offline}]
    /\ instances \subseteq Playtests /\ loops \subseteq Playtests
    /\ owner \in [Playtests -> Players \cup {Offline}]
    /\ participants \in [Playtests -> SUBSET Players]
    /\ index \in [Players -> Playtests \cup {NoPlaytest}]
    /\ \A p \in Players :
        doing[p] = Idle \/ doing[p] \in [step : Doings,
                                         playtest : Playtests \cup {NoPlaytest},
                                         player : Players]
    /\ \A t \in Playtests : Cardinality(participants[t]) <= MaxParticipants

PlaytestsInit ==
    /\ named = [p \in Players |-> NoPlaytest]
    /\ instances = {} /\ loops = {}
    /\ owner = [t \in Playtests |-> Offline]
    /\ participants = [t \in Playtests |-> {}]
    /\ index = [p \in Players |-> NoPlaytest]
    /\ doing = [p \in Players |-> Idle]

\* The session of p, if it is there, names t.
Name(p, t) == [named EXCEPT ![p] = IF @ = Offline THEN Offline ELSE t]

\* is_authorized
Authorized(g, t) == t \in instances /\ owner[t] = g

-----------------------------------------------------------------------------
(* handle_create_playtest *)

\* The session is there and names no playtest: the state is forked.
CreateBegin(p, t) ==
    /\ doing[p] = Idle
    /\ named[p] = NoPlaytest
    /\ owner[t] = Offline
    /\ owner' = [owner EXCEPT ![t] = p]
    /\ doing' = [doing EXCEPT ![p] = Doing("forked", t, p)]
    /\ UNCHANGED <<named, instances, participants, index, loops>>

\* The owner is added and the session marked before the registration.
CreateMark(p) ==
    /\ doing[p].step = "forked"
    /\ participants' = [participants EXCEPT ![doing[p].playtest] = {p}]
    /\ named' = Name(p, doing[p].playtest)
    /\ doing' = [doing EXCEPT ![p].step = "marked"]
    /\ UNCHANGED <<instances, owner, index, loops>>

\* register: the instances are counted; at the limit the mark is undone.
CreateCount(p) ==
    /\ doing[p].step = "marked"
    /\ IF Cardinality(instances) < MaxInstances
        THEN /\ doing' = [doing EXCEPT ![p].step = "counted"]
             /\ UNCHANGED <<named, participants>>
        ELSE /\ doing' = [doing EXCEPT ![p] = Idle]
             /\ named' = Name(p, NoPlaytest)
             /\ participants' =
                    [participants EXCEPT ![doing[p].playtest] = {}]
    /\ UNCHANGED <<instances, owner, index, loops>>

\* register: the instance and the owner's index entry, overwriting one.
CreateRegister(p) ==
    /\ doing[p].step = "counted"
    /\ instances' = instances \cup {doing[p].playtest}
    /\ index' = [index EXCEPT ![p] = doing[p].playtest]
    /\ doing' = [doing EXCEPT ![p].step = "registered"]
    /\ UNCHANGED <<named, owner, participants, loops>>

\* The behaviours are attached, the loop is spawned and its handle kept.
CreateSpawn(p) ==
    /\ doing[p].step = "registered"
    /\ loops' = loops \cup {doing[p].playtest}
    /\ doing' = [doing EXCEPT ![p] = Idle]
    /\ UNCHANGED <<named, instances, owner, participants, index>>

-----------------------------------------------------------------------------
(* Joining *)

\* handle_join_playtest: the session is there and the index has no entry.
JoinBegin(p, t) ==
    /\ doing[p] = Idle
    /\ named[p] # Offline /\ index[p] = NoPlaytest
    /\ doing' = [doing EXCEPT ![p] = Doing("join", t, p)]
    /\ UNCHANGED <<named, instances, owner, participants, index, loops>>

\* handle_invite_to_playtest: the owner joins a connected player in its
\* stead; the player's session is not marked.
InviteBegin(g, t, q) ==
    /\ doing[g] = Idle
    /\ Authorized(g, t)
    /\ named[q] # Offline /\ index[q] = NoPlaytest
    /\ doing' = [doing EXCEPT ![g] = Doing("invite", t, q)]
    /\ UNCHANGED <<named, instances, owner, participants, index, loops>>

\* Mutant of MayEnter: the instance is not looked up again.
MayEnterAnyway(q, t) ==
    q \notin participants[t] /\ Cardinality(participants[t]) < MaxParticipants

\* join_playtest holds the instance while it adds the participant.
MayEnter(q, t) ==
    /\ t \in instances
    /\ q \notin participants[t]
    /\ Cardinality(participants[t]) < MaxParticipants

\* join_playtest after its first check: the participant, then the index.
JoinEnter(p) ==
    /\ doing[p].step \in {"join", "invite"}
    /\ LET t == doing[p].playtest
           q == doing[p].player
       IN  IF MayEnter(q, t)
             THEN /\ participants' = [participants EXCEPT ![t] = @ \cup {q}]
                  /\ index' = [index EXCEPT ![q] = t]
                  /\ doing' = [doing EXCEPT ![p] =
                        IF @.step = "join" THEN Doing("joined", t, q) ELSE Idle]
             ELSE /\ doing' = [doing EXCEPT ![p] = Idle]
                  /\ UNCHANGED <<participants, index>>
    /\ UNCHANGED <<named, instances, owner, loops>>

\* The session is marked last.
JoinMark(p) ==
    /\ doing[p].step = "joined"
    /\ named' = Name(p, doing[p].playtest)
    /\ doing' = [doing EXCEPT ![p] = Idle]
    /\ UNCHANGED <<instances, owner, participants, index, loops>>

-----------------------------------------------------------------------------
(* Leaving *)

\* leave_playtest: the index entry goes, and the participant of the
\* instance it named.
Left(q) ==
    /\ index' = [index EXCEPT ![q] = NoPlaytest]
    /\ participants' = [t \in Playtests |->
            IF t = index[q] /\ t \in instances THEN participants[t] \ {q}
                                               ELSE participants[t]]

\* handle_leave_playtest: refused without an index entry.
Leave(p) ==
    /\ doing[p] = Idle
    /\ index[p] # NoPlaytest
    /\ Left(p)
    /\ doing' = [doing EXCEPT ![p] = Doing("left", NoPlaytest, p)]
    /\ UNCHANGED <<named, instances, owner, loops>>

LeaveMark(p) ==
    /\ doing[p].step = "left"
    /\ named' = Name(p, NoPlaytest)
    /\ doing' = [doing EXCEPT ![p] = Idle]
    /\ UNCHANGED <<instances, owner, participants, index, loops>>

\* handle_kick_from_playtest: the player leaves whatever playtest the index
\* names, the owner's or not.
KickFromPlaytest(g, t, q) ==
    /\ doing[g] = Idle
    /\ Authorized(g, t) /\ q # g
    /\ Left(q)
    /\ named' = Name(q, NoPlaytest)
    /\ UNCHANGED <<instances, owner, loops, doing>>

\* handle_destroy_playtest: the sessions of the participants are cleared,
DestroyBegin(g, t) ==
    /\ doing[g] = Idle
    /\ Authorized(g, t)
    /\ named' = [p \in Players |->
            IF p \in participants[t] /\ named[p] # Offline
                THEN NoPlaytest ELSE named[p]]
    /\ doing' = [doing EXCEPT ![g] = Doing("destroy", t, g)]
    /\ UNCHANGED <<instances, owner, participants, index, loops>>

\* The simulation task is aborted.
StopLoop(t) == loops \ {t}

\* then the manager removes the instance, stops its loop and drops the
\* index entries of the participants, wherever they point.
DestroyFinish(g) ==
    /\ doing[g].step = "destroy"
    /\ LET t == doing[g].playtest
       IN  /\ instances' = instances \ {t}
           /\ loops' = StopLoop(t)
           /\ index' = [p \in Players |->
                IF p \in participants[t] THEN NoPlaytest ELSE index[p]]
           /\ participants' = [participants EXCEPT ![t] = {}]
    /\ doing' = [doing EXCEPT ![g] = Idle]
    /\ UNCHANGED <<named, owner>>

\* A connection's end removes the session; no playtest hears of it.
Disconnect(p) ==
    /\ doing[p] = Idle /\ named[p] # Offline
    /\ named' = [named EXCEPT ![p] = Offline]
    /\ UNCHANGED <<instances, owner, participants, index, loops, doing>>

LogIn(p) ==
    /\ named[p] = Offline
    /\ named' = [named EXCEPT ![p] = NoPlaytest]
    /\ UNCHANGED <<instances, owner, participants, index, loops, doing>>

PlaytestsNext ==
    \/ \E p \in Players, t \in Playtests : CreateBegin(p, t)
    \/ \E p \in Players : CreateMark(p)
    \/ \E p \in Players : CreateCount(p)
    \/ \E p \in Players : CreateRegister(p)
    \/ \E p \in Players : CreateSpawn(p)
    \/ \E p \in Players, t \in Playtests : JoinBegin(p, t)
    \/ \E g, q \in Players, t \in Playtests : InviteBegin(g, t, q)
    \/ \E p \in Players : JoinEnter(p)
    \/ \E p \in Players : JoinMark(p)
    \/ \E p \in Players : Leave(p)
    \/ \E p \in Players : LeaveMark(p)
    \/ \E g, q \in Players, t \in Playtests : KickFromPlaytest(g, t, q)
    \/ \E g \in Players, t \in Playtests : DestroyBegin(g, t)
    \/ \E g \in Players : DestroyFinish(g)
    \/ \E p \in Players : Disconnect(p)
    \/ \E p \in Players : LogIn(p)

PlaytestsSpec == PlaytestsInit /\ [][PlaytestsNext]_ptVars

-----------------------------------------------------------------------------
(* Properties *)

\* Where the index sends a player is a playtest that exists and that lists
\* the player, although joins, invitations, kicks and destructions by other
\* players come between the steps of a handler.  (The converse does not
\* hold: an invited player who creates a playtest is listed in two.)
ListedWhereIndexed ==
    \A p \in Players : index[p] # NoPlaytest =>
        index[p] \in instances /\ p \in participants[index[p]]

\* A simulation loop runs for every playtest and for no other, but for the
\* one that its owner is just registering.
OneLoopEach ==
    loops = instances \ {doing[p].playtest :
                p \in {q \in Players : doing[q].step = "registered"}}

\* The manager's three records and the tasks it starts agree.
PlaytestsAgree == ListedWhereIndexed /\ OneLoopEach
=============================================================================

-------------------------------- MODULE Squadron --------------------------------
(***************************************************************************)
(* Who belongs to which squadron: simulation/squadron_manager.rs over the  *)
(* Squadron of bw-core.  Two records say it, the squadron's lists of       *)
(* members and officers and the player's own squadron_id and rank, and     *)
(* every operation updates them one after the other.                       *)
(*                                                                         *)
(* An operation is one step: squadron_manager has no caller but the tests, *)
(* which run one operation at a time.  Names, tags and the reputation that *)
(* create_squadron spends are left out, so that it may always succeed, and *)
(* a refused operation that changes nothing is no step.                    *)
(***************************************************************************)
EXTENDS Integers, FiniteSets

CONSTANTS Players, Squadrons, Nobody, NoSquadron

ASSUME SquadronAssumption ==
    /\ Nobody \notin Players
    /\ NoSquadron \notin Squadrons
    /\ IsFiniteSet(Players)

Ranks == {"none", "Member", "Officer", "Leader"}

VARIABLES
    exists,     \* keys of GameState::squadrons
    created,    \* identifiers ever used: a Uuid is not drawn twice
    leader, officers, members,     \* the fields of each squadron
    squadronId, rank,              \* squadron_id and squadron_rank of each player
    invite      \* pending_squadron_invites: per invitee, the inviting squadron

vars == <<exists, created, leader, officers, members, squadronId, rank, invite>>

Init ==
    /\ exists = {} /\ created = {}
    /\ leader = [q \in Squadrons |-> Nobody]
    /\ officers = [q \in Squadrons |-> {}]
    /\ members = [q \in Squadrons |-> {}]
    /\ squadronId = [p \in Players |-> NoSquadron]
    /\ rank = [p \in Players |-> "none"]
    /\ invite = [p \in Players |-> NoSquadron]

IsLeader(q, p)  == leader[q] = p
CanManage(q, p) == IsLeader(q, p) \/ p \in officers[q]

\* The head of process_squadron_action: p acts in the squadron p's own record
\* names, and that squadron exists.
ActsIn(p, q) == q \in exists /\ squadronId[p] = q

SetPlayer(p, q, r) ==
    /\ squadronId' = [squadronId EXCEPT ![p] = q]
    /\ rank' = [rank EXCEPT ![p] = r]

\* Mutant of NewId: an identifier may be drawn again once its squadron is gone.
NewIdAgain(q) ==
    /\ q \notin exists
    /\ UNCHANGED created

NewId(q) ==
    /\ q \notin created
    /\ created' = created \union {q}

CreateSquadron(p, q) ==
    /\ squadronId[p] = NoSquadron
    /\ NewId(q)
    /\ exists' = exists \union {q}
    /\ leader' = [leader EXCEPT ![q] = p]
    /\ officers' = [officers EXCEPT ![q] = {}]
    /\ members' = [members EXCEPT ![q] = {p}]
    /\ SetPlayer(p, q, "Leader")
    /\ UNCHANGED invite

\* members_can_invite keeps its default, FALSE: nothing sets it.
Invite(p, t) ==
    /\ \E q \in Squadrons :
          /\ ActsIn(p, q)
          /\ CanManage(q, p)
          /\ invite' = [invite EXCEPT ![t] = q]
    /\ squadronId[t] = NoSquadron
    /\ invite[t] = NoSquadron
    /\ UNCHANGED <<exists, created, leader, officers, members, squadronId, rank>>

\* The invite is taken out first, whatever happens next.  The player's record is
\* written before the squadron is looked up, and stays when it no longer exists.
AcceptInvite(p) ==
    LET q == invite[p] IN
    /\ q # NoSquadron
    /\ invite' = [invite EXCEPT ![p] = NoSquadron]
    /\ IF squadronId[p] # NoSquadron
       THEN UNCHANGED <<squadronId, rank, members>>
       ELSE /\ SetPlayer(p, q, "Member")
            /\ members' = IF q \in exists
                          THEN [members EXCEPT ![q] = @ \union {p}] ELSE members
    /\ UNCHANGED <<exists, created, leader, officers>>

\* Declined, or accepted or declined under an id that is not the pending one's.
DropInvite(p) ==
    /\ invite[p] # NoSquadron
    /\ invite' = [invite EXCEPT ![p] = NoSquadron]
    /\ UNCHANGED <<exists, created, leader, officers, members, squadronId, rank>>

\* Mutant of RemoveMember: the member stays an officer.
RemoveMemberOnly(q, p) ==
    /\ members' = [members EXCEPT ![q] = @ \ {p}]
    /\ UNCHANGED officers

\* Squadron::remove_member of a player who is not the leader.
RemoveMember(q, p) ==
    /\ members' = [members EXCEPT ![q] = @ \ {p}]
    /\ officers' = [officers EXCEPT ![q] = @ \ {p}]

\* The squadron a player names is gone: only the player's record is left to clear.
LeaveGone(p) ==
    /\ squadronId[p] # NoSquadron
    /\ squadronId[p] \notin exists
    /\ SetPlayer(p, NoSquadron, "none")
    /\ UNCHANGED <<exists, created, leader, officers, members, invite>>

\* A leader may leave alone only; the squadron goes with its leader.
Disband(p, q) ==
    /\ ActsIn(p, q)
    /\ IsLeader(q, p)
    /\ Cardinality(members[q]) = 1
    /\ exists' = exists \ {q}
    /\ SetPlayer(p, NoSquadron, "none")
    /\ UNCHANGED <<created, leader, officers, members, invite>>

Leave(p, q) ==
    /\ ActsIn(p, q)
    /\ ~IsLeader(q, p)
    /\ RemoveMember(q, p)
    /\ SetPlayer(p, NoSquadron, "none")
    /\ UNCHANGED <<exists, created, leader, invite>>

\* Squadron::promote_to_officer leaves the leader alone; the rank is set all the same.
Promote(p, q, t) ==
    /\ ActsIn(p, q)
    /\ IsLeader(q, p)
    /\ t \in members[q]
    /\ officers' = IF IsLeader(q, t) THEN officers ELSE [officers EXCEPT ![q] = @ \union {t}]
    /\ rank' = [rank EXCEPT ![t] = "Officer"]
    /\ UNCHANGED <<exists, created, leader, members, squadronId, invite>>

\* The target need not be an officer, nor a member.
Demote(p, q, t) ==
    /\ ActsIn(p, q)
    /\ IsLeader(q, p)
    /\ officers' = [officers EXCEPT ![q] = @ \ {t}]
    /\ rank' = [rank EXCEPT ![t] = "Member"]
    /\ UNCHANGED <<exists, created, leader, members, squadronId, invite>>

\* Mutant of Kick: the player's own record keeps the squadron.
KickFromList(p, q, t) ==
    /\ ActsIn(p, q)
    /\ ~IsLeader(q, t)
    /\ IF t \in officers[q] THEN IsLeader(q, p) ELSE CanManage(q, p)
    /\ RemoveMember(q, t)
    /\ UNCHANGED <<exists, created, leader, squadronId, rank, invite>>

\* Only the leader kicks an officer, an officer kicks a member: anyone who is
\* neither the leader nor an officer is taken for a member.
Kick(p, q, t) ==
    /\ ActsIn(p, q)
    /\ ~IsLeader(q, t)
    /\ IF t \in officers[q] THEN IsLeader(q, p) ELSE CanManage(q, p)
    /\ RemoveMember(q, t)
    /\ SetPlayer(t, NoSquadron, "none")
    /\ UNCHANGED <<exists, created, leader, invite>>

\* Mutant of PassLeadership: the new leader stays an officer.
PassLeadershipOnly(q, t) ==
    /\ leader' = [leader EXCEPT ![q] = t]
    /\ officers' = [officers EXCEPT ![q] = @ \union {leader[q]}]

\* Squadron::transfer_leadership to a member, who may be the leader.
PassLeadership(q, t) ==
    /\ leader' = [leader EXCEPT ![q] = t]
    /\ officers' = [officers EXCEPT ![q] = (@ \union {leader[q]}) \ {t}]

TransferLeadership(p, q, t) ==
    /\ ActsIn(p, q)
    /\ IsLeader(q, p)
    /\ t \in members[q]
    /\ PassLeadership(q, t)
    /\ rank' = [[rank EXCEPT ![p] = "Officer"] EXCEPT ![t] = "Leader"]
    /\ UNCHANGED <<exists, created, members, squadronId, invite>>

\* The process stops and starts again: GameState::new loads factions and sectors,
\* players come back from their rows as they log in, squadrons do not.
Restart ==
    /\ exists' = {}
    /\ invite' = [p \in Players |-> NoSquadron]
    /\ UNCHANGED <<created, leader, officers, members, squadronId, rank>>

Alone(p) ==
    \/ \E q \in Squadrons : CreateSquadron(p, q) \/ Disband(p, q) \/ Leave(p, q)
    \/ AcceptInvite(p)
    \/ DropInvite(p)
    \/ LeaveGone(p)

Manage(p, t) ==
    \/ Invite(p, t)
    \/ \E q \in Squadrons :
          Promote(p, q, t) \/ Demote(p, q, t) \/ Kick(p, q, t) \/ TransferLeadership(p, q, t)

Next ==
    \/ \E p \in Players : Alone(p)
    \/ \E p, t \in Players : Manage(p, t)
    \/ Restart

Spec == Init /\ [][Next]_vars

-----------------------------------------------------------------------------
TypeOK ==
    /\ exists \subseteq created /\ created \subseteq Squadrons
    /\ leader \in [Squadrons -> Players \union {Nobody}]
    /\ officers \in [Squadrons -> SUBSET Players]
    /\ members \in [Squadrons -> SUBSET Players]
    /\ squadronId \in [Players -> created \union {NoSquadron}]
    /\ rank \in [Players -> Ranks]
    /\ invite \in [Players -> created \union {NoSquadron}]

\* "All member player IDs (includes leader and officers)": the leader of a squadron
\* is a member of it, so are its officers, and the leader is none of them, through
\* every order of promotions, transfers, kicks and departures.
RolesWithinMembers ==
    \A q \in exists :
        /\ leader[q] \in members[q]
        /\ officers[q] \subseteq members[q] \ {leader[q]}

\* A player whose record names a squadron that exists is on its list: whoever can
\* act in a squadron, the handlers go by the record, has not been removed from it.
ActorsAreListed ==
    \A p \in Players : squadronId[p] \in exists => p \in members[squadronId[p]]

\* The converse, that whoever is on the list of a squadron has it in the record.
\* "All member player IDs" says so; kick_member never asks whether its target is a
\* member, and takes a player of another squadron out of the record only.
MembersAgree ==
    \A q \in exists : \A p \in members[q] : squadronId[p] = q
=============================================================================

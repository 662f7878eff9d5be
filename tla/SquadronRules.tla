----------------------------- MODULE SquadronRules -----------------------------
(***************************************************************************)
(* Whom the members of squadrons may fight (can_engage_pvp and             *)
(* get_pvp_engagement_type in bw-runtime's simulation/squadron_manager.rs) *)
(* and what decides it: the war games and the privateering a leader allows *)
(* and the wars that each side declares and ends for itself.  Membership   *)
(* is that of module Squadron, reduced to the fields that matter here.     *)
(***************************************************************************)
EXTENDS FiniteSets

CONSTANTS
    Duelists,       \* players
    Corps,          \* squadrons
    NoDuelist,      \* the leader of a squadron not founded yet
    NoCorps         \* a player in no squadron

ASSUME RulesAssumption == NoCorps \notin Corps /\ NoDuelist \notin Duelists

VARIABLES
    corpsOf,        \* squadron_id of each player
    chief,          \* leader_id of each squadron
    raised,         \* keys of GameState::squadrons
    enemies,        \* hostile_squadrons of each squadron
    wargames,       \* squadrons with wargames_enabled
    privateers      \* squadrons with privateering_enabled

rulesVars == <<corpsOf, chief, raised, enemies, wargames, privateers>>

\* Type correctness.
RulesTypeOK ==
    /\ corpsOf \in [Duelists -> Corps \cup {NoCorps}]
    /\ chief \in [Corps -> Duelists \cup {NoDuelist}]
    /\ raised \subseteq Corps
    /\ enemies \in [Corps -> SUBSET Corps]
    /\ wargames \cup privateers \subseteq Corps

RulesInit ==
    /\ corpsOf = [p \in Duelists |-> NoCorps]
    /\ chief = [c \in Corps |-> NoDuelist]
    /\ raised = {}
    /\ enemies = [c \in Corps |-> {}]
    /\ wargames = {} /\ privateers = {}

\* process_squadron_action takes the player's own squadron; is_leader.
Leads(p, c) == corpsOf[p] = c /\ c \in raised /\ chief[c] = p

-----------------------------------------------------------------------------

\* toggle_wargames and toggle_privateering.
SetWargames(p, c, enabled) ==
    /\ Leads(p, c)
    /\ wargames' = IF enabled THEN wargames \cup {c} ELSE wargames \ {c}
    /\ UNCHANGED <<corpsOf, chief, raised, enemies, privateers>>

SetPrivateering(p, c, enabled) ==
    /\ Leads(p, c)
    /\ privateers' = IF enabled THEN privateers \cup {c} ELSE privateers \ {c}
    /\ UNCHANGED <<corpsOf, chief, raised, enemies, wargames>>

\* declare_war and make_peace, each on the own side only.
OpenWar(p, c, d) ==
    /\ Leads(p, c) /\ d \in raised \ {c}
    /\ enemies' = [enemies EXCEPT ![c] = @ \cup {d}]
    /\ UNCHANGED <<corpsOf, chief, raised, wargames, privateers>>

EndWar(p, c, d) ==
    /\ Leads(p, c) /\ d \in enemies[c]
    /\ enemies' = [enemies EXCEPT ![c] = @ \ {d}]
    /\ UNCHANGED <<corpsOf, chief, raised, wargames, privateers>>

\* create_squadron.
RaiseCorps(p, c) ==
    /\ corpsOf[p] = NoCorps /\ chief[c] = NoDuelist
    /\ corpsOf' = [corpsOf EXCEPT ![p] = c]
    /\ chief' = [chief EXCEPT ![c] = p]
    /\ raised' = raised \cup {c}
    /\ UNCHANGED <<enemies, wargames, privateers>>

\* An invitation is accepted.
JoinCorps(p, c) ==
    /\ corpsOf[p] = NoCorps /\ c \in raised
    /\ corpsOf' = [corpsOf EXCEPT ![p] = c]
    /\ UNCHANGED <<chief, raised, enemies, wargames, privateers>>

\* leave_squadron: a leader only leaves as the last one, and the squadron is removed;
\* others keep it among their enemies.
LeaveCorps(p, c) ==
    /\ corpsOf[p] = c /\ c \in raised
    /\ chief[c] = p => \A q \in Duelists \ {p} : corpsOf[q] # c
    /\ corpsOf' = [corpsOf EXCEPT ![p] = NoCorps]
    /\ raised' = IF chief[c] = p THEN raised \ {c} ELSE raised
    /\ UNCHANGED <<chief, enemies, wargames, privateers>>

RulesNext ==
    \E p \in Duelists, c \in Corps :
        \/ \E enabled \in BOOLEAN : SetWargames(p, c, enabled) \/ SetPrivateering(p, c, enabled)
        \/ \E d \in Corps : OpenWar(p, c, d) \/ EndWar(p, c, d)
        \/ RaiseCorps(p, c) \/ JoinCorps(p, c) \/ LeaveCorps(p, c)

RulesSpec == RulesInit /\ [][RulesNext]_rulesVars

-----------------------------------------------------------------------------

\* Mutant of AtWar: only the attacker's list is asked.
AtWarFor(c, d) == d \in enemies[c]

\* can_engage_pvp: either squadron has declared war on the other.
AtWar(c, d) == d \in enemies[c] \/ c \in enemies[d]

CanEngage(p, q) ==
    LET c == corpsOf[p]
        d == corpsOf[q]
    IN  /\ {c, d} \subseteq raised
        /\ IF c = d THEN c \in wargames
                    ELSE AtWar(c, d) \/ {c, d} \subseteq privateers

\* get_pvp_engagement_type.
EngagementType(p, q) ==
    LET c == corpsOf[p]
        d == corpsOf[q]
    IN  IF NoCorps \in {c, d} THEN "none"
        ELSE IF c = d THEN "wargames"
        ELSE IF ~({c, d} \subseteq raised) THEN "none"
        ELSE IF d \in enemies[c] \/ c \in enemies[d] THEN "war"
        ELSE IF {c, d} \subseteq privateers THEN "privateering"
        ELSE "none"

\* Whether two players may fight does not depend on who attacks, and a fight that
\* is allowed has a type; between two squadrons also the reverse.  (Within one,
\* "wargames" is the type whether or not they are enabled.)
RulesAgree ==
    \A p, q \in Duelists :
        /\ CanEngage(p, q) = CanEngage(q, p)
        /\ CanEngage(p, q) => EngagementType(p, q) # "none"
        /\ corpsOf[p] # corpsOf[q] =>
                (EngagementType(p, q) # "none" => CanEngage(p, q))
=============================================================================

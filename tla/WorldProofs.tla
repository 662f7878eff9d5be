------------------------------ MODULE WorldProofs ------------------------------
(***************************************************************************)
(* Theorems about what goes on in a sector: who is in a squadron, where a  *)
(* ship in combat belongs, who has a mission, what stations sell, what     *)
(* squadrons build and whom they may fight.  The modules share no variable, *)
(* so each has its own part here; the last part puts them together.        *)
(***************************************************************************)
EXTENDS MCWorld, IntervalInduction, FiniteSetTheorems, TLAPS

(***************************************************************************)
(* Squadrons.  RolesWithinMembers and ActorsAreListed are inductive once   *)
(* the types are known: the types say that no player and no invite names   *)
(* an identifier that is yet to be drawn, which is what keeps a new        *)
(* squadron free of strangers.                                             *)
(***************************************************************************)

USE SquadronAssumption

SquadronInv == TypeOK /\ RolesWithinMembers /\ ActorsAreListed

\* No squadron exists and nobody names one at the start.
LEMMA InitSquadronInv == Init => SquadronInv
BY DEF Init, SquadronInv, TypeOK, RolesWithinMembers, ActorsAreListed, Ranks

\* What the operations on one player keep.
LEMMA AloneStep ==
    ASSUME SquadronInv, NEW p \in Players, Alone(p)
    PROVE  SquadronInv'
<1>1. ASSUME NEW q \in Squadrons, CreateSquadron(p, q) PROVE SquadronInv'
  <2>1. TypeOK'
    BY <1>1 DEF SquadronInv, TypeOK, CreateSquadron, NewId, SetPlayer, Ranks
  <2>2. RolesWithinMembers'
    BY <1>1 DEF SquadronInv, TypeOK, RolesWithinMembers, CreateSquadron, NewId
  <2>3. ActorsAreListed'
    BY <1>1 DEF SquadronInv, TypeOK, ActorsAreListed, CreateSquadron, NewId, SetPlayer
  <2>. QED BY <2>1, <2>2, <2>3 DEF SquadronInv
<1>2. ASSUME NEW q \in Squadrons, Disband(p, q) PROVE SquadronInv'
  <2>1. TypeOK'
    BY <1>2 DEF SquadronInv, TypeOK, Disband, SetPlayer, Ranks
  <2>2. RolesWithinMembers'
    BY <1>2 DEF SquadronInv, RolesWithinMembers, Disband
  <2>3. ActorsAreListed'
    BY <1>2 DEF SquadronInv, TypeOK, ActorsAreListed, Disband, SetPlayer
  <2>. QED BY <2>1, <2>2, <2>3 DEF SquadronInv
<1>3. ASSUME NEW q \in Squadrons, Leave(p, q) PROVE SquadronInv'
  <2>1. TypeOK'
    BY <1>3 DEF SquadronInv, TypeOK, Leave, RemoveMember, SetPlayer, Ranks
  <2>2. RolesWithinMembers'
    BY <1>3 DEF SquadronInv, TypeOK, RolesWithinMembers, Leave, RemoveMember, IsLeader
  <2>3. ActorsAreListed'
    BY <1>3 DEF SquadronInv, TypeOK, ActorsAreListed, Leave, RemoveMember, SetPlayer
  <2>. QED BY <2>1, <2>2, <2>3 DEF SquadronInv
<1>4. CASE AcceptInvite(p)
  <2>1. invite[p] \in created
    BY <1>4 DEF AcceptInvite, SquadronInv, TypeOK
  <2>2. CASE squadronId[p] # NoSquadron
    BY <1>4, <2>2 DEF AcceptInvite, SquadronInv, TypeOK, RolesWithinMembers, ActorsAreListed
  <2>3. CASE squadronId[p] = NoSquadron
    <3>1. TypeOK'
      BY <1>4, <2>1, <2>3 DEF SquadronInv, TypeOK, AcceptInvite, SetPlayer, Ranks
    <3>2. RolesWithinMembers'
      BY <1>4, <2>1, <2>3 DEF SquadronInv, TypeOK, RolesWithinMembers, AcceptInvite
    <3>3. ActorsAreListed'
      BY <1>4, <2>1, <2>3 DEF SquadronInv, TypeOK, ActorsAreListed, AcceptInvite, SetPlayer
    <3>. QED BY <3>1, <3>2, <3>3 DEF SquadronInv
  <2>. QED BY <2>2, <2>3
<1>5. CASE DropInvite(p)
  BY <1>5 DEF DropInvite, SquadronInv, TypeOK, RolesWithinMembers, ActorsAreListed
<1>6. CASE LeaveGone(p)
  BY <1>6 DEF LeaveGone, SetPlayer, SquadronInv, TypeOK, RolesWithinMembers, ActorsAreListed, Ranks
<1>. QED BY <1>1, <1>2, <1>3, <1>4, <1>5, <1>6 DEF Alone

\* What a manager's operations on a member keep.
LEMMA ManageStep ==
    ASSUME SquadronInv, NEW p \in Players, NEW t \in Players, Manage(p, t)
    PROVE  SquadronInv'
<1>1. CASE Invite(p, t)
  BY <1>1 DEF Invite, ActsIn, SquadronInv, TypeOK, RolesWithinMembers, ActorsAreListed
<1>2. ASSUME NEW q \in Squadrons, Promote(p, q, t) PROVE SquadronInv'
  <2>1. TypeOK'
    BY <1>2 DEF SquadronInv, TypeOK, Promote, Ranks
  <2>2. RolesWithinMembers' /\ ActorsAreListed'
    BY <1>2 DEF SquadronInv, TypeOK, RolesWithinMembers, ActorsAreListed, Promote, IsLeader
  <2>. QED BY <2>1, <2>2 DEF SquadronInv
<1>3. ASSUME NEW q \in Squadrons, Demote(p, q, t) PROVE SquadronInv'
  <2>1. TypeOK'
    BY <1>3 DEF SquadronInv, TypeOK, Demote, Ranks
  <2>2. RolesWithinMembers' /\ ActorsAreListed'
    BY <1>3 DEF SquadronInv, TypeOK, RolesWithinMembers, ActorsAreListed, Demote
  <2>. QED BY <2>1, <2>2 DEF SquadronInv
<1>4. ASSUME NEW q \in Squadrons, Kick(p, q, t) PROVE SquadronInv'
  <2>1. TypeOK'
    BY <1>4 DEF SquadronInv, TypeOK, Kick, RemoveMember, SetPlayer, Ranks
  <2>2. RolesWithinMembers'
    BY <1>4 DEF SquadronInv, TypeOK, RolesWithinMembers, Kick, RemoveMember, IsLeader
  <2>3. ActorsAreListed'
    BY <1>4 DEF SquadronInv, TypeOK, ActorsAreListed, Kick, RemoveMember, SetPlayer
  <2>. QED BY <2>1, <2>2, <2>3 DEF SquadronInv
<1>5. ASSUME NEW q \in Squadrons, TransferLeadership(p, q, t) PROVE SquadronInv'
  <2>1. TypeOK'
    <3>1. officers' \in [Squadrons -> SUBSET Players]
      <4>1. (officers[q] \union {leader[q]}) \ {t} \subseteq Players
        BY <1>5 DEF SquadronInv, TypeOK, RolesWithinMembers, TransferLeadership, IsLeader
      <4>. QED BY <1>5, <4>1 DEF SquadronInv, TypeOK, TransferLeadership, PassLeadership
    <3>2. rank' \in [Players -> Ranks] /\ leader' \in [Squadrons -> Players \union {Nobody}]
      BY <1>5 DEF SquadronInv, TypeOK, TransferLeadership, PassLeadership, Ranks
    <3>. QED BY <1>5, <3>1, <3>2 DEF SquadronInv, TypeOK, TransferLeadership
  <2>2. RolesWithinMembers' /\ ActorsAreListed'
    BY <1>5 DEF SquadronInv, TypeOK, RolesWithinMembers, ActorsAreListed,
                TransferLeadership, PassLeadership
  <2>. QED BY <2>1, <2>2 DEF SquadronInv
<1>. QED BY <1>1, <1>2, <1>3, <1>4, <1>5 DEF Manage

\* Every step keeps the three invariants together.
LEMMA NextSquadronInv == SquadronInv /\ [Next]_vars => SquadronInv'
<1>. SUFFICES ASSUME SquadronInv, [Next]_vars PROVE SquadronInv'
  OBVIOUS
<1>1. CASE \E p \in Players : Alone(p)
  BY <1>1, AloneStep
<1>2. CASE \E p, t \in Players : Manage(p, t)
  BY <1>2, ManageStep
<1>3. CASE Restart
  BY <1>3 DEF Restart, SquadronInv, TypeOK, RolesWithinMembers, ActorsAreListed
<1>4. CASE UNCHANGED vars
  BY <1>4 DEF vars, SquadronInv, TypeOK, RolesWithinMembers, ActorsAreListed
<1>. QED BY <1>1, <1>2, <1>3, <1>4 DEF Next

\* The types of the squadron manager's state.
THEOREM SquadronTypes == Spec => []TypeOK
<1>. QED BY InitSquadronInv, NextSquadronInv, PTL DEF Spec, SquadronInv

\* "All member player IDs (includes leader and officers)".
THEOREM SquadronRoles == Spec => []RolesWithinMembers
<1>. QED BY InitSquadronInv, NextSquadronInv, PTL DEF Spec, SquadronInv

\* Whoever can act in a squadron is on its list of members.
THEOREM SquadronActors == Spec => []ActorsAreListed
<1>. QED BY InitSquadronInv, NextSquadronInv, PTL DEF Spec, SquadronInv

HIDE SquadronAssumption
-----------------------------------------------------------------------------
(***************************************************************************)
(* Missions.  A mission that is still available has no captain: whoever    *)
(* takes one finds it available, so it is never taken from another.        *)
(***************************************************************************)

\* The statuses and the captains; only a mission that left "Available" has one.
MissionInv ==
    /\ state \in [MissionIds -> States]
    /\ holder \in [MissionIds -> Captains \union {NoCaptain}]
    /\ \A m \in MissionIds : state[m] = "Available" => holder[m] = NoCaptain

\* What a script's reply makes of a status (Settle, Verdict).
LEMMA Settled ==
    ASSUME MissionInv, NEW m \in MissionIds, NEW r \in Replies, Settle(m, r)
    PROVE  /\ state' \in [MissionIds -> States]
           /\ \A n \in MissionIds : n # m => state'[n] = state[n]
           /\ state'[m] \in {state[m], "Won", "Lost"}
  BY DEF MissionInv, Settle, Verdict, States

\* MissionInv holds at the start and every step keeps it.
LEMMA MissionInvInductive ==
    /\ MissionsInit => MissionInv
    /\ MissionInv /\ [MissionsNext]_missionVars => MissionInv'
<1>1. MissionsInit => MissionInv
  BY DEF MissionsInit, MissionInv, States
<1>2. ASSUME MissionInv, [MissionsNext]_missionVars PROVE MissionInv'
  <2>1. ASSUME NEW c \in Captains, NEW m \in MissionIds, StartMission(c, m)
        PROVE  MissionInv'
    BY <1>2, <2>1 DEF MissionInv, StartMission, States
  <2>2. ASSUME NEW c \in Captains, NEW m \in MissionIds, NEW r \in Replies,
               MakeChoice(c, m, r) \/ ReportCombat(c, m, r)
        PROVE  MissionInv'
    <3>1. Settle(m, r) /\ UNCHANGED holder
      BY <2>2 DEF MakeChoice, ReportCombat
    <3>. QED BY <1>2, <3>1, Settled DEF MissionInv
  <2>3. ASSUME NEW m \in MissionIds, Expire(m) PROVE MissionInv'
    BY <1>2, <2>3 DEF MissionInv, Expire, States
  <2>4. CASE UNCHANGED <<state, holder>>
    BY <1>2, <2>4 DEF MissionInv
  <2>5. ASSUME NEW c \in Captains, ApplyToShip(c) \/ ApplyToPlayer(c) \/ Travel(c)
        PROVE  MissionInv'
    BY <2>4, <2>5 DEF ApplyToShip, ApplyToPlayer, Travel
  <2>6. ASSUME NEW m \in MissionIds, PostMission(m) \/ PassTime(m) \/ DestroyMission(m)
        PROVE  MissionInv'
    BY <2>4, <2>6 DEF PostMission, PassTime, DestroyMission
  <2>7. CASE CollectExpired
    BY <2>4, <2>7 DEF CollectExpired
  <2>8. CASE UNCHANGED missionVars
    BY <2>4, <2>8 DEF missionVars
  <2>. QED BY <1>2, <2>1, <2>2, <2>3, <2>5, <2>6, <2>7, <2>8 DEF MissionsNext
<1>. QED BY <1>1, <1>2

\* In every reachable state a mission without a captain is all that can be taken.
THEOREM MissionInvariant == MissionsSpec => []MissionInv
  BY MissionInvInductive, PTL DEF MissionsSpec

\* Requests of any number of players race for any number of missions while the game
\* loop lets them expire: a mission keeps the captain who took it, and one taken
\* before the expiry collects is out of its reach (start_mission, process_expired).
THEOREM MissionsAreKept == MissionsSpec => MissionsStayTaken
<1>1. ASSUME MissionInv, [MissionsNext]_missionVars
      PROVE  [TakenOnce /\ AcceptedIsSafe]_missionVars
  <2>. SUFFICES ASSUME MissionsNext PROVE TakenOnce /\ AcceptedIsSafe
    BY <1>1
  <2>1. ASSUME NEW c \in Captains, NEW m \in MissionIds, StartMission(c, m)
        PROVE  TakenOnce /\ AcceptedIsSafe
    BY <1>1, <2>1 DEF MissionInv, StartMission, CanAccept, TakenOnce, AcceptedIsSafe
  <2>2. ASSUME NEW c \in Captains, NEW m \in MissionIds, NEW r \in Replies,
               MakeChoice(c, m, r) \/ ReportCombat(c, m, r)
        PROVE  TakenOnce /\ AcceptedIsSafe
    <3>1. Settle(m, r) /\ UNCHANGED <<holder, sweep>>
      BY <2>2 DEF MakeChoice, ReportCombat
    <3>. QED BY <1>1, <3>1, Settled DEF TakenOnce, AcceptedIsSafe
  <2>3. ASSUME NEW m \in MissionIds, Expire(m) PROVE TakenOnce /\ AcceptedIsSafe
    BY <1>1, <2>3 DEF MissionInv, Expire, TakenOnce, AcceptedIsSafe
  <2>4. CASE UNCHANGED <<state, holder, sweep>>
    BY <2>4 DEF TakenOnce, AcceptedIsSafe
  <2>5. ASSUME NEW c \in Captains, ApplyToShip(c) \/ ApplyToPlayer(c) \/ Travel(c)
        PROVE  TakenOnce /\ AcceptedIsSafe
    BY <2>4, <2>5 DEF ApplyToShip, ApplyToPlayer, Travel
  <2>6. ASSUME NEW m \in MissionIds, PostMission(m) \/ PassTime(m) \/ DestroyMission(m)
        PROVE  TakenOnce /\ AcceptedIsSafe
    BY <2>4, <2>6 DEF PostMission, PassTime, DestroyMission
  <2>7. CASE CollectExpired
    BY <2>7 DEF CollectExpired, Expirable, TakenOnce, AcceptedIsSafe
  <2>. QED BY <2>1, <2>2, <2>3, <2>5, <2>6, <2>7 DEF MissionsNext
<1>. QED BY <1>1, MissionInvariant, PTL DEF MissionsSpec, MissionsStayTaken

\* The types of the missions; the board has finitely many, so a sector never holds
\* more than its limit.
MissionsTyped == MissionsTypeOK /\ IsFiniteSet(board)

\* They hold at the start and every step keeps them.
LEMMA MissionsTypedInductive ==
    /\ MissionsInit => MissionsTyped
    /\ MissionsTyped /\ [MissionsNext]_missionVars => MissionsTyped'
<1>. USE MissionsAssumption
<1>1. MissionsInit => MissionsTyped
  BY FS_EmptySet DEF MissionsInit, MissionsTyped, MissionsTypeOK, States
<1>2. ASSUME MissionsTyped, [MissionsNext]_missionVars PROVE MissionsTyped'
  <2>1. ASSUME NEW c \in Captains, NEW m \in MissionIds, StartMission(c, m)
        PROVE  MissionsTyped'
    BY <1>2, <2>1 DEF MissionsTyped, MissionsTypeOK, StartMission, States
  <2>2. ASSUME NEW c \in Captains, NEW m \in MissionIds, NEW r \in Replies,
               MakeChoice(c, m, r) \/ ReportCombat(c, m, r)
        PROVE  MissionsTyped'
    <3>1. /\ Settle(m, r) /\ owed' = [owed EXCEPT ![c] = "all"]
          /\ UNCHANGED <<board, posted, holder, overdue, sweep, here>>
      BY <2>2 DEF MakeChoice, ReportCombat
    <3>2. state' \in [MissionIds -> States]
      BY <1>2, <3>1 DEF MissionsTyped, MissionsTypeOK, Settle, Verdict, States
    <3>. QED BY <1>2, <3>1, <3>2 DEF MissionsTyped, MissionsTypeOK
  <2>3. ASSUME NEW c \in Captains, ApplyToShip(c) \/ ApplyToPlayer(c) \/ Travel(c)
        PROVE  MissionsTyped'
    BY <1>2, <2>3 DEF MissionsTyped, MissionsTypeOK, ApplyToShip, ApplyToPlayer, Travel
  <2>4. ASSUME NEW m \in MissionIds, PostMission(m) PROVE MissionsTyped'
    <3>1. IsFiniteSet(board') /\ Cardinality(board') <= MaxMissions
      <4>1. /\ IsFiniteSet(board \cup {m})
            /\ \/ Cardinality(board \cup {m}) = Cardinality(board)
               \/ Cardinality(board \cup {m}) = Cardinality(board) + 1
        BY <1>2, FS_AddElement DEF MissionsTyped
      <4>2. Cardinality(board) \in Nat
        BY <1>2, FS_CardinalityType DEF MissionsTyped
      <4>. QED BY <2>4, <4>1, <4>2 DEF PostMission
    <3>. QED BY <1>2, <2>4, <3>1 DEF MissionsTyped, MissionsTypeOK, PostMission
  <2>5. ASSUME NEW m \in MissionIds, DestroyMission(m) PROVE MissionsTyped'
    <3>1. board' \subseteq board
      BY <2>5 DEF DestroyMission
    <3>2. IsFiniteSet(board') /\ Cardinality(board') <= Cardinality(board)
      BY <1>2, <3>1, FS_Subset DEF MissionsTyped
    <3>3. Cardinality(board) \in Nat /\ Cardinality(board') \in Nat
      BY <1>2, <3>2, FS_CardinalityType DEF MissionsTyped
    <3>4. Cardinality(board') <= MaxMissions
      BY <1>2, <3>2, <3>3 DEF MissionsTyped, MissionsTypeOK
    <3>. QED BY <1>2, <2>5, <3>1, <3>2, <3>4 DEF MissionsTyped, MissionsTypeOK, DestroyMission
  <2>6. ASSUME NEW m \in MissionIds, PassTime(m) \/ Expire(m) PROVE MissionsTyped'
    BY <1>2, <2>6 DEF MissionsTyped, MissionsTypeOK, PassTime, Expire, States
  <2>7. CASE CollectExpired
    BY <1>2, <2>7 DEF MissionsTyped, MissionsTypeOK, CollectExpired, Expirable
  <2>8. CASE UNCHANGED missionVars
    BY <1>2, <2>8 DEF MissionsTyped, MissionsTypeOK, missionVars
  <2>. QED BY <1>2, <2>1, <2>2, <2>3, <2>4, <2>5, <2>6, <2>7, <2>8 DEF MissionsNext
<1>. QED BY <1>1, <1>2

\* Whatever is posted, destroyed and raced for, a sector holds at most MaxMissions.
THEOREM MissionTypes == MissionsSpec => []MissionsTypeOK
  BY MissionsTypedInductive, PTL DEF MissionsSpec, MissionsTyped
-----------------------------------------------------------------------------
(***************************************************************************)
(* Whom the members of squadrons may fight.                                *)
(***************************************************************************)

USE RulesAssumption

\* Types of the records the rules read, for any players and squadrons.
THEOREM RulesTypes == RulesSpec => []RulesTypeOK
<1>1. RulesInit => RulesTypeOK
  BY DEF RulesInit, RulesTypeOK
<1>2. ASSUME RulesTypeOK, [RulesNext]_rulesVars PROVE RulesTypeOK'
  <2>1. ASSUME NEW p \in Duelists, NEW c \in Corps, NEW enabled \in BOOLEAN,
               SetWargames(p, c, enabled) \/ SetPrivateering(p, c, enabled)
        PROVE  RulesTypeOK'
    BY <1>2, <2>1 DEF RulesTypeOK, SetWargames, SetPrivateering
  <2>2. ASSUME NEW p \in Duelists, NEW c \in Corps, NEW d \in Corps,
               OpenWar(p, c, d) \/ EndWar(p, c, d)
        PROVE  RulesTypeOK'
    BY <1>2, <2>2 DEF RulesTypeOK, OpenWar, EndWar
  <2>3. ASSUME NEW p \in Duelists, NEW c \in Corps,
               RaiseCorps(p, c) \/ JoinCorps(p, c) \/ LeaveCorps(p, c)
        PROVE  RulesTypeOK'
    BY <1>2, <2>3 DEF RulesTypeOK, RaiseCorps, JoinCorps, LeaveCorps
  <2>4. CASE UNCHANGED rulesVars
    BY <1>2, <2>4 DEF RulesTypeOK, rulesVars
  <2>. QED BY <1>2, <2>1, <2>2, <2>3, <2>4 DEF RulesNext
<1>. QED BY <1>1, <1>2, PTL DEF RulesSpec

\* Whatever each side declares and ends for itself, whether two players may fight does
\* not depend on who attacks, and between two squadrons can_engage_pvp allows a fight
\* exactly when get_pvp_engagement_type has a type for it.
THEOREM RulesAreOne == RulesSpec => []RulesAgree
<1>1. RulesTypeOK => RulesAgree
  BY DEF RulesTypeOK, RulesAgree, CanEngage, EngagementType, AtWar
<1>. QED BY <1>1, RulesTypes, PTL

HIDE RulesAssumption
-----------------------------------------------------------------------------
(***************************************************************************)
(* Buildings.  A structure on its way keeps what the checks found: its     *)
(* squadron had control then, and a squadron that is gone stays gone.      *)
(***************************************************************************)

USE HouseAssumption

\* What is true of a structure from the payment on.
Rightful(s) ==
    /\ s.kind = "outpost" => s.house \in rights
    /\ head[s.house] # NoBuilder
    /\ s.name \notin {s.house, NoHouse} => s.name = Unknown /\ s.house \notin standing

\* A squadron that controls the sector is among those that ever did; a squadron that
\* stands has a leader, so an identifier is not drawn twice.
BaseInv ==
    /\ site \in [Builders -> Sites \cup {NotBuilding}]
    /\ built \in Seq([site : Sites, by : Builders])
    /\ head \in [Houses -> Builders \cup {NoBuilder}] /\ standing \subseteq Houses
    /\ lord # NoHouse => lord \in rights
    /\ \A h \in standing : head[h] # NoBuilder
    /\ \A p \in Builders : site[p] # NotBuilding => Rightful(site[p])
    /\ \A i \in DOMAIN built : Rightful(built[i].site) /\ built[i].site.name # NoHouse

\* An element of a sequence has the elements' type.
LEMMA ElementIn ==
    ASSUME NEW S, NEW s \in Seq(S), NEW i \in DOMAIN s PROVE s[i] \in S
OBVIOUS

\* What is appended is of the elements' type.
LEMMA AppendIn ==
    ASSUME NEW S, NEW s \in Seq(S), NEW e \in S PROVE Append(s, e) \in Seq(S)
OBVIOUS

\* A structure stays rightful while rights only grow, founders keep their squadrons
\* and a name once used is not used again.
LEMMA RightsLast ==
    ASSUME NEW s \in Sites, Rightful(s), rights \subseteq rights',
           \A h \in Houses : head[h] # NoBuilder => head'[h] = head[h],
           \A h \in standing' : h \in standing \/ head[h] = NoBuilder
    PROVE  Rightful(s)'
BY DEF Rightful, Sites

\* A step that builds nothing and takes nobody's rights keeps the invariant.
LEMMA BaseKept ==
    ASSUME BaseInv, UNCHANGED <<site, built>>, rights \subseteq rights',
           head' \in [Houses -> Builders \cup {NoBuilder}],
           standing' \subseteq Houses,
           \A h \in Houses : head[h] # NoBuilder => head'[h] = head[h],
           \A h \in standing' : head'[h] # NoBuilder,
           \A h \in standing' : h \in standing \/ head[h] = NoBuilder,
           lord' # NoHouse => lord' \in rights'
    PROVE  BaseInv'
<1>1. ASSUME NEW s \in Sites, Rightful(s) PROVE Rightful(s)'
  BY <1>1, RightsLast
<1>2. ASSUME NEW p \in Builders, site[p] # NotBuilding PROVE Rightful(site[p])'
  <2>1. site[p] \in Sites /\ Rightful(site[p])
    BY <1>2 DEF BaseInv
  <2>. QED BY <2>1, <1>1 DEF Rightful
<1>3. ASSUME NEW i \in DOMAIN built
      PROVE  Rightful(built[i].site)' /\ built[i].site.name # NoHouse
  <2>1. built[i] \in [site : Sites, by : Builders]
    BY <1>3, ElementIn DEF BaseInv
  <2>2. Rightful(built[i].site) /\ built[i].site.name # NoHouse
    BY <1>3 DEF BaseInv
  <2>. QED BY <2>1, <2>2, <1>1 DEF Rightful
<1>. QED BY <1>2, <1>3 DEF BaseInv

\* A step that pays for a structure or names it keeps what is built, and the rest.
LEMMA BaseSited ==
    ASSUME BaseInv, UNCHANGED <<built, head, standing, lord, rights>>,
           NEW p \in Builders, NEW s \in Sites,
           site' = [site EXCEPT ![p] = s], Rightful(s)
    PROVE  BaseInv'
<1>1. ASSUME NEW q \in Builders, site'[q] # NotBuilding PROVE Rightful(site'[q])
  BY <1>1 DEF BaseInv
<1>2. ASSUME NEW r, Rightful(r) PROVE Rightful(r)'
  BY <1>2 DEF Rightful
<1>. QED BY <1>1, <1>2 DEF BaseInv, Rightful

\* Each step of the builders, the squadrons and the sector keeps the invariant.
LEMMA BaseInductive == BaseInv /\ [BasesNext]_baseVars => BaseInv'
<1>. SUFFICES ASSUME BaseInv, [BasesNext]_baseVars PROVE BaseInv'
  OBVIOUS
<1>1. ASSUME NEW p \in Builders, NEW kind \in Structures, PayForStructure(p, kind)
      PROVE  BaseInv'
  <2> DEFINE s == [kind |-> kind, house |-> houseOf[p], name |-> NoHouse]
  <2>1. houseOf[p] \in standing /\ standing \subseteq Houses
    BY <1>1 DEF PayForStructure, MayBuild, MayManage, BaseInv
  <2>2. s \in Sites
    BY <2>1 DEF Sites
  <2>3. lord = houseOf[p] => houseOf[p] \in rights
    BY <2>1 DEF BaseInv
  <2>4. Rightful(s)
    BY <1>1, <2>1, <2>3 DEF Rightful, PayForStructure, MayBuild, BaseInv
  <2>. QED BY <1>1, <2>2, <2>4, BaseSited DEF PayForStructure, SamePeople
<1>2. ASSUME NEW p \in Builders, NameStructure(p) PROVE BaseInv'
  <2> DEFINE h == site[p].house
             s == [site[p] EXCEPT !.name = IF h \in standing THEN h ELSE Unknown]
  <2>1. site[p] \in Sites /\ Rightful(site[p])
    BY <1>2 DEF NameStructure, BaseInv
  <2>2. s \in Sites
    BY <2>1 DEF Sites
  <2>3. Rightful(s)
    BY <2>1 DEF Rightful, Sites
  <2>4. site' = [site EXCEPT ![p] = s]
    BY <1>2, <2>1 DEF NameStructure, Sites, BaseInv
  <2>. QED BY <1>2, <2>2, <2>3, <2>4, BaseSited DEF NameStructure, SamePeople
<1>3. ASSUME NEW p \in Builders, PlaceStructure(p) PROVE BaseInv'
  <2>1. site[p] \in Sites /\ Rightful(site[p]) /\ site[p].name # NoHouse
    BY <1>3 DEF PlaceStructure, BaseInv
  <2> DEFINE b == [site |-> site[p], by |-> p]
  <2>2. built' \in Seq([site : Sites, by : Builders])
    <3>1. b \in [site : Sites, by : Builders]
      BY <2>1
    <3>. QED BY <1>3, <3>1, AppendIn DEF PlaceStructure, BaseInv
  <2>3. ASSUME NEW i \in DOMAIN built'
        PROVE  Rightful(built'[i].site) /\ built'[i].site.name # NoHouse
    <3>1. CASE i \in DOMAIN built /\ built'[i] = built[i]
      BY <3>1 DEF BaseInv
    <3>2. CASE built'[i] = b
      BY <3>2, <2>1
    <3>. QED BY <1>3, <2>3, <3>1, <3>2 DEF PlaceStructure, BaseInv
  <2>4. ASSUME NEW q \in Builders, site'[q] # NotBuilding PROVE Rightful(site'[q])
    BY <1>3, <2>4 DEF PlaceStructure, BaseInv
  <2>5. ASSUME NEW r, Rightful(r) PROVE Rightful(r)'
    BY <1>3, <2>5 DEF Rightful, PlaceStructure, SamePeople
  <2>6. site' \in [Builders -> Sites \cup {NotBuilding}]
    BY <1>3 DEF PlaceStructure, BaseInv
  <2>. QED BY <1>3, <2>2, <2>3, <2>4, <2>5, <2>6
       DEF BaseInv, Rightful, PlaceStructure, SamePeople
<1>4. ASSUME NEW p \in Builders, NEW h \in Houses, FoundHouse(p, h) PROVE BaseInv'
  BY <1>4, BaseKept DEF FoundHouse, BaseInv
<1>5. ASSUME NEW p \in Builders, NEW h \in Houses, NEW q \in Builders,
             JoinHouse(p, h) \/ LeaveHouse(p, h) \/ MakeAide(p, h, q)
      PROVE  BaseInv'
  BY <1>5, BaseKept DEF JoinHouse, LeaveHouse, MakeAide, SameBuildings, BaseInv
<1>6. ASSUME NEW h \in Houses \cup {NoHouse}, PassSector(h) PROVE BaseInv'
  BY <1>6, BaseKept DEF PassSector, SameBuildings, BaseInv
<1>7. CASE DestroySite
  BY <1>7, BaseKept DEF DestroySite, SamePeople, BaseInv
<1>8. CASE UNCHANGED baseVars
  BY <1>8, BaseKept DEF baseVars, BaseInv
<1>. QED BY <1>1, <1>2, <1>3, <1>4, <1>5, <1>6, <1>7, <1>8 DEF BasesNext

\* Whatever the squadrons do between payment and placing (build_structure), an outpost
\* stands only where its squadron had control, and under its name unless it is gone.
THEOREM BuiltRightfully == BasesSpec => []BuiltByRight
<1>1. BasesInit => BaseInv
  BY DEF BasesInit, BaseInv
<1>2. BaseInv => BuiltByRight
  BY DEF BaseInv, BuiltByRight, Rightful
<1>. QED BY <1>1, <1>2, BaseInductive, PTL DEF BasesSpec

\* f holds the partial sums of Worth up to n.
Partial(p, list, f, n) ==
    f = [i \in 0 .. n |-> IF i = 0 THEN 0 ELSE f[i - 1] + Share(p, list[i])]

\* There is such an f, whatever the list holds.
LEMMA PartialExists ==
    ASSUME NEW p, NEW list, NEW n \in Nat
    PROVE  \E f : Partial(p, list, f, n)
<1>. DEFINE T == {m \in 0 .. n : \E f : Partial(p, list, f, m)}
<1>1. 0 \in T
  <2>1. Partial(p, list, [i \in 0 .. 0 |-> 0], 0)
    BY DEF Partial
  <2>. QED BY <2>1
<1>2. ASSUME NEW m \in 1 .. n, m - 1 \in T PROVE m \in T
  <2>1. PICK f : Partial(p, list, f, m - 1)
    BY <1>2
  <2>. DEFINE g == [i \in 0 .. m |-> IF i = m THEN f[m - 1] + Share(p, list[m]) ELSE f[i]]
  <2>2. Partial(p, list, g, m)
    <3>1. ASSUME NEW i \in 0 .. m
          PROVE  g[i] = IF i = 0 THEN 0 ELSE g[i - 1] + Share(p, list[i])
      <4>1. CASE i = m
        BY <4>1
      <4>2. CASE i # m
        <5>1. i \in 0 .. m - 1 /\ (i # 0 => i - 1 \in 0 .. m - 1)
          BY <4>2
        <5>2. f[i] = IF i = 0 THEN 0 ELSE f[i - 1] + Share(p, list[i])
          BY <2>1, <5>1 DEF Partial
        <5>. QED BY <4>2, <5>1, <5>2
      <4>. QED BY <4>1, <4>2
    <3>. QED BY <3>1 DEF Partial
  <2>. QED BY <2>2
<1>3. 0 .. n \subseteq T
  <2>. HIDE DEF T
  <2>. QED BY <1>1, <1>2, Upto
<1>. QED BY <1>3

\* What Worth is made of.
Sums(p, list, f) ==
    /\ f[0] = 0
    /\ \A i \in 1 .. Len(list) : f[i] = f[i - 1] + Share(p, list[i])

\* Worth is the last of the partial sums.
LEMMA WorthSums ==
    ASSUME NEW p, NEW list, Len(list) \in Nat
    PROVE  \E f : Sums(p, list, f) /\ Worth(p, list) = f[Len(list)]
<1>. DEFINE f == CHOOSE f : Partial(p, list, f, Len(list))
<1>1. Partial(p, list, f, Len(list))
  BY PartialExists
<1>2. Worth(p, list) = f[Len(list)]
  BY DEF Worth, Partial
<1>3. Sums(p, list, f)
  <2>. HIDE DEF f
  <2>1. 0 \in 0 .. Len(list) /\ \A i \in 1 .. Len(list) : i \in 0 .. Len(list) /\ i # 0
    OBVIOUS
  <2>2. \A i \in 0 .. Len(list) : f[i] = IF i = 0 THEN 0 ELSE f[i - 1] + Share(p, list[i])
    BY <1>1 DEF Partial
  <2>. QED BY <2>1, <2>2 DEF Sums
<1>. QED BY <1>2, <1>3

Structure == [site : Sites, by : Builders]

\* Nothing is worth nothing, and what is appended adds its share.
LEMMA WorthNothing == ASSUME NEW p PROVE Worth(p, <<>>) = 0
<1>1. PICK f : Sums(p, <<>>, f) /\ Worth(p, <<>>) = f[Len(<<>>)]
  <2>1. Len(<<>>) \in Nat
    OBVIOUS
  <2>. QED BY <2>1, WorthSums
<1>. QED BY <1>1 DEF Sums

\* One more structure adds its share.
LEMMA WorthAppend ==
    ASSUME NEW p, NEW list \in Seq(Structure), NEW b
    PROVE  Worth(p, Append(list, b)) = Worth(p, list) + Share(p, b)
<1>. DEFINE r == Append(list, b)
<1>0. /\ Len(list) \in Nat /\ Len(r) = Len(list) + 1 /\ r[Len(r)] = b
      /\ \A i \in 1 .. Len(list) : r[i] = list[i]
  OBVIOUS
<1>1. PICK f : Sums(p, list, f) /\ Worth(p, list) = f[Len(list)]
  BY <1>0, WorthSums
<1>2. PICK g : Sums(p, r, g) /\ Worth(p, r) = g[Len(r)]
  <2>1. Len(r) \in Nat
    BY <1>0
  <2>. QED BY <2>1, WorthSums
<1>. HIDE DEF r
<1>. DEFINE T == {i \in 0 .. Len(list) : g[i] = f[i]}
<1>3. 0 \in T
  BY <1>0, <1>1, <1>2 DEF Sums
<1>4. ASSUME NEW i \in 1 .. Len(list), i - 1 \in T PROVE i \in T
  <2>1. i \in 1 .. Len(r) /\ r[i] = list[i]
    BY <1>0
  <2>. QED BY <1>0, <1>1, <1>2, <1>4, <2>1 DEF Sums
<1>5. Len(list) \in T
  <2>. HIDE DEF T
  <2>1. 0 .. Len(list) \subseteq T
    BY <1>0, <1>3, <1>4, Upto
  <2>. QED BY <1>0, <2>1
<1>6. g[Len(r)] = g[Len(list)] + Share(p, b)
  <2>1. Len(r) \in 1 .. Len(r) /\ Len(r) - 1 = Len(list)
    BY <1>0
  <2>. QED BY <1>0, <1>2, <2>1 DEF Sums
<1>. QED BY <1>1, <1>2, <1>5, <1>6 DEF r

\* What is built is worth a natural number.
LEMMA WorthNat ==
    ASSUME NEW p, NEW list \in Seq(Structure)
    PROVE  Worth(p, list) \in Nat
<1>0. Len(list) \in Nat
  OBVIOUS
<1>1. PICK f : Sums(p, list, f) /\ Worth(p, list) = f[Len(list)]
  BY <1>0, WorthSums
<1>. DEFINE T == {i \in 0 .. Len(list) : f[i] \in Nat}
<1>2. 0 \in T
  BY <1>0, <1>1 DEF Sums
<1>3. ASSUME NEW i \in 1 .. Len(list), i - 1 \in T PROVE i \in T
  <2>1. Share(p, list[i]) \in Nat
    BY DEF Share, BuildCost
  <2>2. i \in 0 .. Len(list) /\ f[i] = f[i - 1] + Share(p, list[i])
    BY <1>0, <1>1 DEF Sums
  <2>. QED BY <1>3, <2>1, <2>2
<1>4. Len(list) \in T
  <2>. HIDE DEF T
  <2>1. 0 .. Len(list) \subseteq T
    BY <1>0, <1>2, <1>3, Upto
  <2>. QED BY <1>0, <2>1
<1>. QED BY <1>1, <1>4

USE PurseAssumption, SiteAssumption

\* The types of what squadrons own and build.
LEMMA BasesTyped == BasesTypeOK /\ [BasesNext]_baseVars => BasesTypeOK'
<1>. SUFFICES ASSUME BasesTypeOK, [BasesNext]_baseVars PROVE BasesTypeOK'
  OBVIOUS
<1>0. \A p \in Builders, c \in {1, 2} : Spend(p, c) => purse' \in [Builders -> 0 .. Purse]
  BY DEF BasesTypeOK, Spend
<1>1. ASSUME NEW p \in Builders, NEW kind \in Structures, PayForStructure(p, kind)
      PROVE  BasesTypeOK'
  <2>1. purse' \in [Builders -> 0 .. Purse]
    BY <1>0, <1>1 DEF PayForStructure, BuildCost
  <2>2. houseOf[p] \in Houses
    BY <1>1 DEF PayForStructure, MayBuild, MayManage, BasesTypeOK
  <2>. QED BY <1>1, <2>1, <2>2 DEF PayForStructure, SamePeople, BasesTypeOK, Sites
<1>2. ASSUME NEW p \in Builders, NameStructure(p) PROVE BasesTypeOK'
  <2>1. site[p] \in Sites
    BY <1>2 DEF NameStructure, BasesTypeOK
  <2>2. [site[p] EXCEPT !.name = IF site[p].house \in standing THEN site[p].house ELSE Unknown]
            \in Sites
    BY <2>1 DEF Sites
  <2>. QED BY <1>2, <2>1, <2>2 DEF NameStructure, SamePeople, BasesTypeOK
<1>3. ASSUME NEW p \in Builders, PlaceStructure(p) PROVE BasesTypeOK'
  <2>1. site[p] \in Sites
    BY <1>3 DEF PlaceStructure, BasesTypeOK
  <2>2. built' \in Seq([site : Sites, by : Builders])
    <3>. DEFINE b == [site |-> site[p], by |-> p]
    <3>1. b \in [site : Sites, by : Builders]
      BY <2>1
    <3>. HIDE DEF b
    <3>2. Append(built, b) \in Seq([site : Sites, by : Builders])
      BY <3>1, AppendIn DEF BasesTypeOK
    <3>. QED BY <1>3, <3>2 DEF PlaceStructure, BasesTypeOK, b
  <2>. QED BY <1>3, <2>2 DEF PlaceStructure, SamePeople, BasesTypeOK
<1>4. ASSUME NEW p \in Builders, NEW h \in Houses, FoundHouse(p, h) PROVE BasesTypeOK'
  <2>1. purse' \in [Builders -> 0 .. Purse]
    BY <1>0, <1>4 DEF FoundHouse, CreationCost
  <2>. QED BY <1>4, <2>1 DEF FoundHouse, BasesTypeOK
<1>5. ASSUME NEW p \in Builders, NEW h \in Houses, NEW q \in Builders,
             JoinHouse(p, h) \/ LeaveHouse(p, h) \/ MakeAide(p, h, q)
      PROVE  BasesTypeOK'
  <2>1. CASE JoinHouse(p, h)
    BY <2>1 DEF JoinHouse, SameBuildings, BasesTypeOK
  <2>2. CASE LeaveHouse(p, h)
    BY <2>2 DEF LeaveHouse, SameBuildings, BasesTypeOK
  <2>3. CASE MakeAide(p, h, q)
    BY <2>3 DEF MakeAide, SameBuildings, BasesTypeOK
  <2>. QED BY <1>5, <2>1, <2>2, <2>3
<1>6. ASSUME NEW h \in Houses \cup {NoHouse}, PassSector(h) PROVE BasesTypeOK'
  BY <1>6 DEF PassSector, SameBuildings, BasesTypeOK
<1>7. CASE DestroySite
  BY <1>7 DEF DestroySite, SamePeople, BasesTypeOK
<1>8. CASE UNCHANGED baseVars
  BY <1>8 DEF baseVars, BasesTypeOK
<1>. QED BY <1>1, <1>2, <1>3, <1>4, <1>5, <1>6, <1>7, <1>8 DEF BasesNext

\* What a player has on its way, and the squadrons he founded.
OnItsWay(p) == IF site[p] = NotBuilding THEN 0 ELSE BuildCost(site[p].kind)
Founded(p)  == {h \in Houses : head[h] = p}

PaidInv ==
    /\ BasesTypeOK
    /\ \A p \in Builders : IsFiniteSet(Founded(p))
    /\ PaidIsBuilt

\* What is spent is a number, made of three.
LEMMA SpentIs ==
    ASSUME BasesTypeOK, NEW p \in Builders, IsFiniteSet(Founded(p))
    PROVE  /\ Spent(p) = Worth(p, built) + OnItsWay(p) + Cardinality(Founded(p))
           /\ Worth(p, built) \in Nat /\ OnItsWay(p) \in Nat
           /\ Cardinality(Founded(p)) \in Nat /\ purse[p] \in Nat
<1>1. Worth(p, built) \in Nat
  BY WorthNat DEF BasesTypeOK, Structure
<1>2. Cardinality(Founded(p)) \in Nat
  BY FS_CardinalityType
<1>3. OnItsWay(p) \in Nat
  BY DEF OnItsWay, BuildCost
<1>4. Spent(p) = Worth(p, built) + OnItsWay(p) + Cardinality(Founded(p))
  BY <1>1, <1>2, <1>3 DEF Spent, OnItsWay, Founded, CreationCost
<1>5. purse[p] \in Nat
  BY DEF BasesTypeOK
<1>. QED BY <1>1, <1>2, <1>3, <1>4, <1>5

\* The four parts of an account.
Account(p) == purse[p] + Worth(p, built) + OnItsWay(p) + Cardinality(Founded(p))

\* So purse and expenses together are the account, before a step and after it.
LEMMA AccountIs ==
    BasesTypeOK /\ (\A p \in Builders : IsFiniteSet(Founded(p)))
        => \A p \in Builders : purse[p] + Spent(p) = Account(p) /\ Account(p) \in Nat
  BY SpentIs DEF Account

\* The same after a step.
LEMMA AccountIsNext ==
    (BasesTypeOK /\ (\A p \in Builders : IsFiniteSet(Founded(p)))
        => \A p \in Builders : purse[p] + Spent(p) = Account(p) /\ Account(p) \in Nat)'
  BY AccountIs, PTL

\* A step that keeps every account, or lowers it where there is no sector.
LEMMA AccountsKept ==
    ASSUME PaidInv, BasesTypeOK', charted' => charted,
           \A p \in Builders :
              /\ IsFiniteSet(Founded(p))'
              /\ Account(p)' <= Account(p) /\ (charted' => Account(p)' = Account(p))
    PROVE  PaidInv'
<1>. SUFFICES ASSUME NEW p \in Builders
              PROVE  /\ (purse[p] + Spent(p) <= Purse)'
                     /\ charted' => (purse[p] + Spent(p) = Purse)'
  BY DEF PaidInv, PaidIsBuilt
<1>1. purse[p] + Spent(p) = Account(p) /\ Account(p) \in Nat
  BY AccountIs DEF PaidInv
<1>2. (purse[p] + Spent(p) = Account(p) /\ Account(p) \in Nat)'
  BY AccountIsNext
<1>3. (purse[p] + Spent(p) <= Purse) /\ (charted => purse[p] + Spent(p) = Purse)
  BY DEF PaidInv, PaidIsBuilt
<1>. QED BY <1>1, <1>2, <1>3

\* What a step of the builders, of the squadrons and of the sector does to accounts.
LEMMA PaidInductive == PaidInv /\ [BasesNext]_baseVars => PaidInv'
<1>. SUFFICES ASSUME PaidInv, [BasesNext]_baseVars PROVE PaidInv'
  OBVIOUS
<1>0. BasesTypeOK /\ BasesTypeOK'
  BY BasesTyped DEF PaidInv
<1>n. \A p \in Builders : /\ Worth(p, built) \in Nat /\ OnItsWay(p) \in Nat
                          /\ Cardinality(Founded(p)) \in Nat /\ purse[p] \in Nat
  BY SpentIs DEF PaidInv
\* Whoever founds no squadron has those he had.
<1>f. ASSUME NEW p \in Builders, \A h \in Houses : head'[h] = p <=> head[h] = p
      PROVE  Founded(p)' = Founded(p) /\ IsFiniteSet(Founded(p))'
  <2>1. Founded(p)' = Founded(p)
    BY <1>f DEF Founded
  <2>. QED BY <2>1 DEF PaidInv
<1>1. ASSUME NEW p \in Builders, NEW kind \in Structures, PayForStructure(p, kind)
      PROVE  PaidInv'
  <2>. DEFINE s == [kind |-> kind, house |-> houseOf[p], name |-> NoHouse]
  <2>1. /\ UNCHANGED <<head, built, charted>>
        /\ site[p] = NotBuilding /\ site' = [site EXCEPT ![p] = s]
        /\ purse' = [purse EXCEPT ![p] = @ - BuildCost(kind)]
    BY <1>1 DEF PayForStructure, SamePeople, Spend
  <2>2. site'[p] = s /\ s \in Sites /\ s.kind = kind
    BY <1>0, <1>1, <2>1 DEF PayForStructure, MayBuild, MayManage, BasesTypeOK, Sites
  <2>3. BuildCost(kind) \in Nat
    BY DEF BuildCost
  <2>. HIDE DEF s
  <2>4. ASSUME NEW q \in Builders PROVE Account(q)' = Account(q)
    <3>1. Founded(q)' = Founded(q)
      BY <2>1 DEF Founded
    <3>2. CASE q = p
      <4>1. OnItsWay(q)' = BuildCost(kind) /\ OnItsWay(q) = 0
        BY <2>1, <2>2, <3>2 DEF OnItsWay
      <4>2. purse'[q] = purse[q] - BuildCost(kind)
        BY <1>0, <2>1, <3>2 DEF BasesTypeOK
      <4>. QED BY <1>n, <2>1, <2>3, <3>1, <4>1, <4>2 DEF Account
    <3>3. CASE q # p
      BY <1>0, <2>1, <3>1, <3>3 DEF Account, OnItsWay, BasesTypeOK
    <3>. QED BY <3>2, <3>3
  <2>. QED BY <1>0, <1>n, <1>f, <2>1, <2>4, AccountsKept DEF Account
<1>2. ASSUME NEW p \in Builders, NameStructure(p) PROVE PaidInv'
  <2>1. /\ UNCHANGED <<head, built, charted, purse>> /\ site[p] \in Sites
        /\ site' = [site EXCEPT ![p].name = IF site[p].house \in standing
                                            THEN site[p].house ELSE Unknown]
    BY <1>0, <1>2 DEF NameStructure, SamePeople, BasesTypeOK
  <2>2. site'[p].kind = site[p].kind /\ site'[p] \in Sites
    BY <1>0, <2>1 DEF BasesTypeOK, Sites
  <2>3. ASSUME NEW q \in Builders PROVE OnItsWay(q)' = OnItsWay(q)
    <3>1. CASE q = p
      BY <2>1, <2>2, <3>1 DEF OnItsWay
    <3>2. CASE q # p
      <4>1. site'[q] = site[q]
        BY <1>0, <2>1, <3>2 DEF BasesTypeOK
      <4>. QED BY <4>1 DEF OnItsWay
    <3>. QED BY <3>1, <3>2
  <2>. QED BY <1>0, <1>n, <1>f, <2>1, <2>3, AccountsKept DEF Account
<1>3. ASSUME NEW p \in Builders, PlaceStructure(p) PROVE PaidInv'
  <2>. DEFINE b == [site |-> site[p], by |-> p]
  <2>1. /\ UNCHANGED <<head, charted, purse>> /\ site[p] \in Sites
        /\ site' = [site EXCEPT ![p] = NotBuilding]
        /\ built' = IF charted THEN Append(built, b) ELSE built
    BY <1>0, <1>3 DEF PlaceStructure, SamePeople, BasesTypeOK
  <2>2. b.by = p /\ b.site = site[p]
    OBVIOUS
  <2>. HIDE DEF b
  <2>3. ASSUME NEW q \in Builders
        PROVE  Account(q)' <= Account(q) /\ (charted' => Account(q)' = Account(q))
    <3>1. Worth(q, built') = IF charted THEN Worth(q, built) + Share(q, b) ELSE Worth(q, built)
      BY <1>0, <2>1, WorthAppend DEF BasesTypeOK, Structure
    <3>2. Founded(q)' = Founded(q)
      BY <2>1 DEF Founded
    <3>3. CASE q = p
      <4>1. OnItsWay(q)' = 0 /\ OnItsWay(q) = Share(q, b)
        BY <1>0, <2>1, <2>2, <3>3 DEF OnItsWay, Share, BasesTypeOK
      <4>. QED BY <1>n, <2>1, <3>1, <3>2, <4>1 DEF Account
    <3>4. CASE q # p
      <4>1. OnItsWay(q)' = OnItsWay(q) /\ Share(q, b) = 0
        BY <1>0, <2>1, <2>2, <3>4 DEF OnItsWay, Share, BasesTypeOK
      <4>. QED BY <1>n, <2>1, <3>1, <3>2, <4>1 DEF Account
    <3>. QED BY <3>3, <3>4
  <2>. QED BY <1>0, <1>f, <2>1, <2>3, AccountsKept
<1>4. ASSUME NEW p \in Builders, NEW h \in Houses, FoundHouse(p, h) PROVE PaidInv'
  <2>1. /\ UNCHANGED <<charted, site, built>> /\ head[h] = NoBuilder
        /\ head' = [head EXCEPT ![h] = p] /\ purse' = [purse EXCEPT ![p] = @ - 1]
    BY <1>4 DEF FoundHouse, Spend, CreationCost
  <2>2. /\ Founded(p)' = Founded(p) \cup {h} /\ h \notin Founded(p)
        /\ IsFiniteSet(Founded(p))
    BY <1>0, <2>1 DEF Founded, BasesTypeOK, PaidInv
  <2>3. Cardinality(Founded(p))' = Cardinality(Founded(p)) + 1 /\ IsFiniteSet(Founded(p))'
    BY <2>2, FS_AddElement
  <2>4. ASSUME NEW q \in Builders, q # p
        PROVE  Founded(q)' = Founded(q) /\ IsFiniteSet(Founded(q))'
    BY <1>0, <1>f, <2>1, <2>4 DEF BasesTypeOK
  <2>5. ASSUME NEW q \in Builders PROVE Account(q)' = Account(q)
    <3>1. OnItsWay(q)' = OnItsWay(q)
      BY <2>1 DEF OnItsWay
    <3>2. CASE q = p
      <4>1. purse'[q] = purse[q] - 1
        BY <1>0, <2>1, <3>2 DEF BasesTypeOK
      <4>. QED BY <1>n, <2>1, <2>3, <3>1, <3>2, <4>1 DEF Account
    <3>3. CASE q # p
      <4>1. purse'[q] = purse[q]
        BY <1>0, <2>1, <3>3 DEF BasesTypeOK
      <4>. QED BY <2>1, <2>4, <3>1, <3>3, <4>1 DEF Account
    <3>. QED BY <3>2, <3>3
  <2>6. \A q \in Builders : Account(q) \in Nat /\ IsFiniteSet(Founded(q))'
    BY <1>n, <2>3, <2>4 DEF Account
  <2>. QED BY <1>0, <2>1, <2>5, <2>6, AccountsKept
<1>5. CASE UNCHANGED <<purse, built, site, head>> /\ (charted' => charted)
  <2>1. ASSUME NEW q \in Builders
        PROVE  Account(q)' = Account(q) /\ Account(q) \in Nat /\ IsFiniteSet(Founded(q))'
    BY <1>5, <1>n, <1>f DEF Account, OnItsWay, Founded
  <2>. QED BY <1>0, <1>5, <2>1, AccountsKept
<1>6. ASSUME NEW p \in Builders, NEW h \in Houses, NEW q \in Builders,
             JoinHouse(p, h) \/ LeaveHouse(p, h) \/ MakeAide(p, h, q)
      PROVE  PaidInv'
  BY <1>5, <1>6 DEF JoinHouse, LeaveHouse, MakeAide, SameBuildings
<1>7. ASSUME NEW h \in Houses \cup {NoHouse}, PassSector(h) PROVE PaidInv'
  BY <1>5, <1>7 DEF PassSector, SameBuildings
<1>8. CASE DestroySite
  BY <1>5, <1>8 DEF DestroySite, SamePeople
<1>9. CASE UNCHANGED baseVars
  BY <1>5, <1>9 DEF baseVars
<1>. QED BY <1>1, <1>2, <1>3, <1>4, <1>6, <1>7, <1>8, <1>9 DEF BasesNext

\* Nobody founds, pays or builds before the start.
LEMMA PaidInit == BasesInit => PaidInv
<1>. SUFFICES ASSUME BasesInit PROVE PaidInv
  OBVIOUS
<1>1. BasesTypeOK
  BY DEF BasesInit, BasesTypeOK
<1>2. ASSUME NEW p \in Builders PROVE Founded(p) = {}
  BY DEF Founded, BasesInit
<1>3. ASSUME NEW p \in Builders
      PROVE  IsFiniteSet(Founded(p)) /\ purse[p] + Spent(p) = Purse
  <2>1. IsFiniteSet(Founded(p)) /\ Cardinality(Founded(p)) = 0
    BY <1>2, FS_EmptySet
  <2>2. Worth(p, built) = 0 /\ OnItsWay(p) = 0 /\ purse[p] = Purse
    BY WorthNothing DEF BasesInit, OnItsWay
  <2>. QED BY <1>1, <2>1, <2>2, SpentIs
<1>. QED BY <1>1, <1>3 DEF PaidInv, PaidIsBuilt

\* A player has paid once for all he founded and built, and for nothing else, unless
\* the sector was destroyed between payment and placing (build_structure).
THEOREM PaidOnce == BasesSpec => [](BasesTypeOK /\ PaidIsBuilt)
<1>1. PaidInv => BasesTypeOK /\ PaidIsBuilt
  BY DEF PaidInv
<1>. QED BY <1>1, PaidInit, PaidInductive, PTL DEF BasesSpec

HIDE SiteAssumption
HIDE PurseAssumption
HIDE HouseAssumption
-----------------------------------------------------------------------------
(***************************************************************************)
(* Combat.  A ship in combat has a place: the engagement that lists it, or *)
(* a task or the game loop that is about to put its status right.  Each    *)
(* step keeps every place it does not fill itself.                         *)
(***************************************************************************)

USE CombatAssumption
\* A task between start_combat's checks and its insert holds an identifier nobody
\* else starts a combat with, and no engagement has it yet.
Starts(f) == fighter[f].pc \in {"initiator", "target", "insert"}

OwnStart(f) ==
    /\ fighter[f].e \in begun \ open
    /\ fighter[f].a \in Ships /\ fighter[f].b \in Ships
    /\ \A g \in Fighters : Starts(g) /\ fighter[g].e = fighter[f].e => g = f

\* The facts about combat that StatusNamesEngagement and LoopRaisesNoWreck rest on.
CombatInv ==
    /\ CombatTypeOK
    /\ PlayerShips \subseteq spawned
    /\ \A s \in Ships : InCombat(s) => status[s] \in begun
    /\ \A s \in Ships \ spawned : status[s] = "Idle"
    /\ \A s \in Ships : status[s] = "Destroyed" => hull[s] = 0
    /\ \A f \in Fighters : Starts(f) => OwnStart(f)
    /\ \A f \in Fighters : fighter[f].pc \in {"leave", "rest"}
             => fighter[f].a = fighter[f].b /\ fighter[f].a \in Ships
    /\ round.ended \subseteq open
    /\ RoundAt("fight") => round.at \in open
    /\ StatusNamesEngagement

\* A ship and the engagement its status names, one by one.
Named(s, e) ==
    (e \in open /\ s \in Participants(e)) \/ Underway(s, e) \/ e \in forgotten

\* StatusNamesEngagement, ship by ship.
LEMMA Naming ==
    StatusNamesEngagement
        <=> \A s \in present, e \in Engagements : status[s] = e => Named(s, e)
  BY DEF StatusNamesEngagement, Named, InCombat

\* The same after a step.
LEMMA NamingNext ==
    (StatusNamesEngagement
        <=> \A s \in present, e \in Engagements : status[s] = e => Named(s, e))'
  BY Naming, PTL

\* A step of the game loop alone that stays clear of what it has to release.
LEMMA LoopMoves ==
    ASSUME CombatInv,
           UNCHANGED <<present, spawned, status, hull, side, open, resolved, begun, fighter,
                       crashes, forgotten>>,
           round' \in Round, round'.ended \subseteq open,
           round'.pc = "fight" => round'.at \in open,
           RoundAt("release") => round.ships = {}
    PROVE  CombatInv'
<1>1. CombatTypeOK'
  BY DEF CombatInv, CombatTypeOK
<1>2. StatusNamesEngagement'
  BY DEF CombatInv, StatusNamesEngagement, InCombat, Participants, Underway, RoundAt
<1>3. \A f \in Fighters : Starts(f)' => OwnStart(f)'
  BY DEF CombatInv, Starts, OwnStart
<1>. QED BY <1>1, <1>2, <1>3 DEF CombatInv, InCombat, RoundAt

\* The game loop's steps that change nothing but its own place.
LEMMA LoopTurns ==
    ASSUME CombatInv,
           \/ BeginTick \/ EndRound \/ EndRelease \/ CollectNpcs \/ EndTick
           \/ \E e \in Engagements : PassOver(e) \/ BeginRound(e)
           \/ \E p \in Pairs : SkipAttack(p)
    PROVE  CombatInv'
<1>0. round \in Round /\ open \subseteq Engagements /\ present \subseteq Ships
      /\ round.ended \subseteq open /\ (RoundAt("fight") => round.at \in open)
  BY DEF CombatInv, CombatTypeOK
<1>. USE DEF RoundAt
<1>1. CASE BeginTick
  <2>1. round' \in Round /\ round'.ended = {} /\ round'.pc = "scan"
    BY <1>0, <1>1 DEF BeginTick, NoRound, Round
  <2>. QED BY <1>1, <2>1, LoopMoves DEF BeginTick, TickUnchanged
<1>2. CASE EndRound
  <2>1. round' \in Round /\ round'.pc = "scan" /\ round'.ended \subseteq open
    BY <1>0, <1>2 DEF EndRound, Round
  <2>. QED BY <1>2, <2>1, LoopMoves DEF EndRound, TickUnchanged
<1>3. CASE EndRelease
  <2>1. round' \in Round /\ round'.pc = "scan" /\ round'.ended \subseteq open
    BY <1>0, <1>3 DEF EndRelease, Round
  <2>. QED BY <1>3, <2>1, LoopMoves DEF EndRelease, TickUnchanged
<1>4. CASE CollectNpcs
  <2>1. PICK far \in SUBSET {s \in present \cap Npcs : ~InCombat(s)} :
          round' = [round EXCEPT !.pc = "cleanup",
                      !.ships = far \union {s \in present \cap Npcs : status[s] = "Destroyed"}]
    BY <1>4 DEF CollectNpcs
  <2>2. far \union {s \in present \cap Npcs : status[s] = "Destroyed"} \subseteq Ships
    BY <1>0
  <2>3. round' \in Round /\ round'.pc = "cleanup" /\ round'.ended \subseteq open
    BY <1>0, <2>1, <2>2 DEF Round
  <2>. QED BY <1>4, <2>3, LoopMoves DEF CollectNpcs, CombatsDone, TickUnchanged
<1>5. CASE EndTick
  <2>1. round' \in Round /\ round'.pc = "idle" /\ round'.ended = {}
    BY <1>5 DEF EndTick, NoRound, Round
  <2>. QED BY <1>5, <2>1, LoopMoves DEF EndTick, TickUnchanged
<1>6. ASSUME NEW e \in Engagements, PassOver(e) PROVE CombatInv'
  <2>1. round' \in Round /\ round'.pc = "scan" /\ round'.ended \subseteq open
    BY <1>0, <1>6 DEF PassOver, Round
  <2>. QED BY <1>6, <2>1, LoopMoves DEF PassOver, TickUnchanged
<1>7. ASSUME NEW e \in Engagements, BeginRound(e) PROVE CombatInv'
  <2>1. PICK chosen \in SUBSET ((side[e].a \X side[e].b) \union (side[e].b \X side[e].a)) :
          round' = [round EXCEPT !.pc = "fight", !.at = e, !.attacks = chosen, !.todo = @ \ {e}]
    BY <1>7 DEF BeginRound
  <2>2. side[e].a \subseteq Ships /\ side[e].b \subseteq Ships
    BY DEF CombatInv, CombatTypeOK
  <2>3. chosen \subseteq Pairs
    BY <2>1, <2>2 DEF Pairs
  <2>4. round' \in Round /\ round'.at = e /\ round'.ended \subseteq open /\ e \in open
    BY <1>0, <1>7, <2>1, <2>3 DEF BeginRound, Round
  <2>. QED BY <1>7, <2>4, LoopMoves DEF BeginRound, TickUnchanged
<1>8. ASSUME NEW p \in Pairs, SkipAttack(p) PROVE CombatInv'
  <2>1. round' \in Round /\ round'.pc = "fight" /\ round'.at \in open /\ round'.ended \subseteq open
    BY <1>0, <1>8 DEF SkipAttack, Round
  <2>. QED BY <1>8, <2>1, LoopMoves DEF SkipAttack, TickUnchanged
<1>. QED BY <1>1, <1>2, <1>3, <1>4, <1>5, <1>6, <1>7, <1>8

\* Whoever leaves an engagement leaves the others' places as they are.
LEMMA RemoveKeeps ==
    ASSUME CombatInv, NEW e \in open, NEW s \in Ships, RemoveShip(e, s)
    PROVE  /\ side' \in [Engagements -> [a : SUBSET Ships, b : SUBSET Ships]]
           /\ resolved' \subseteq begun
           /\ \A d \in Engagements, r \in Ships :
                 r \in Participants(d) /\ (d # e \/ r # s) => r \in Participants(d)'
<1>1. /\ side \in [Engagements -> [a : SUBSET Ships, b : SUBSET Ships]]
      /\ e \in Engagements /\ e \in begun /\ resolved \subseteq begun
  BY DEF CombatInv, CombatTypeOK
<1>2. side' = [side EXCEPT ![e] = [a |-> @.a \ {s}, b |-> @.b \ {s}]]
  BY DEF RemoveShip
<1>3. side'[e] = [a |-> side[e].a \ {s}, b |-> side[e].b \ {s}]
      /\ \A d \in Engagements \ {e} : side'[d] = side[d]
  BY <1>1, <1>2
<1>4. side' \in [Engagements -> [a : SUBSET Ships, b : SUBSET Ships]]
  BY <1>1, <1>2
<1>5. resolved' \subseteq begun
  BY <1>1 DEF RemoveShip
<1>. QED BY <1>3, <1>4, <1>5 DEF Participants

\* A shot in the round: the target is destroyed and leaves the engagement, or it
\* survives and the loop waits for itself.
LEMMA ShotsKeep ==
    ASSUME CombatInv, NEW p \in Pairs, Kill(p) \/ Graze(p)
    PROVE  CombatInv'
<1>. DEFINE s == p[2]
<1>0. /\ s \in Ships /\ s \in present /\ s \in spawned
      /\ round \in Round /\ round.pc = "fight" /\ round.at \in open
      /\ hull \in [Ships -> 0 .. 2] /\ status \in [Ships -> Statuses]
      /\ round.ended \subseteq open
      /\ TickUnchanged /\ UNCHANGED open
  BY DEF Kill, Graze, MayHit, CombatInv, CombatTypeOK, RoundAt, Pairs
<1>s. \A f \in Fighters : /\ Starts(f)' => OwnStart(f)'
                          /\ fighter'[f].pc \in {"leave", "rest"}
                                   => fighter'[f].a = fighter'[f].b /\ fighter'[f].a \in Ships
  BY <1>0 DEF CombatInv, TickUnchanged, Starts, OwnStart
<1>1. CASE Kill(p)
  <2>1. /\ hull' = [hull EXCEPT ![s] = 0] /\ status' = [status EXCEPT ![s] = "Destroyed"]
        /\ RemoveShip(round.at, s)
        /\ round' = [round EXCEPT !.attacks = @ \ {p}, !.dead = @ \union {s}]
    BY <1>1 DEF Kill
  <2>. HIDE DEF s
  <2>2. /\ side' \in [Engagements -> [a : SUBSET Ships, b : SUBSET Ships]]
        /\ resolved' \subseteq begun
        /\ \A d \in Engagements, r \in Ships :
              r \in Participants(d) /\ (d # round.at \/ r # s) => r \in Participants(d)'
    BY <1>0, <2>1, RemoveKeeps
  <2>3. round' \in Round /\ round'.pc = "fight" /\ round'.at = round.at
        /\ round'.ended = round.ended
    BY <1>0, <2>1 DEF Round
  <2>4. CombatTypeOK'
    BY <1>0, <2>1, <2>2, <2>3 DEF CombatInv, CombatTypeOK, TickUnchanged, Statuses
  <2>5. StatusNamesEngagement'
    <3>. SUFFICES ASSUME NEW r \in present, NEW e \in Engagements, status'[r] = e
                  PROVE  Named(r, e)'
      BY <1>0, NamingNext DEF TickUnchanged
    <3>1. r # s /\ status[r] = e /\ r \in Ships
      BY <1>0, <2>1 DEF CombatInv, CombatTypeOK
    <3>2. Named(r, e)
      BY <3>1, Naming DEF CombatInv
    <3>3. CASE e \in open /\ r \in Participants(e)
      BY <1>0, <2>2, <3>1, <3>3 DEF Named
    <3>4. CASE Underway(r, e)
      BY <1>0, <3>4 DEF Named, Underway, RoundAt, TickUnchanged
    <3>. QED BY <1>0, <3>2, <3>3, <3>4 DEF Named, TickUnchanged
  <2>6. \A r \in Ships : /\ InCombat(r)' => status'[r] \in begun
                         /\ r \notin spawned => status'[r] = "Idle"
                         /\ status'[r] = "Destroyed" => hull'[r] = 0
    BY <1>0, <2>1 DEF CombatInv, InCombat
  <2>. QED BY <1>0, <2>3, <2>4, <2>5, <2>6, <1>s
       DEF CombatInv, TickUnchanged, RoundAt, InCombat
<1>2. CASE Graze(p)
  <2>1. PICK h \in 1 .. hull[s] :
          /\ hull' = [hull EXCEPT ![s] = h]
          /\ status' = [status EXCEPT ![s] = DamagedStatus(s, h)]
    BY <1>2 DEF Graze
  <2>2. /\ round' = [round EXCEPT !.pc = "stuck", !.locked = {p[1], s}]
        /\ UNCHANGED <<side, open, resolved>> /\ p[1] \in Ships
    BY <1>2 DEF Graze, Pairs
  <2>. HIDE DEF s
  <2>3. round' \in Round /\ round'.pc = "stuck" /\ round'.ended = round.ended
    BY <1>0, <2>2 DEF Round
  <2>4. status[s] # "Destroyed" /\ h \in 0 .. 2
    BY <1>0, <2>1 DEF CombatInv
  <2>5. CombatTypeOK'
    BY <1>0, <2>1, <2>2, <2>3, <2>4
       DEF CombatInv, CombatTypeOK, TickUnchanged, DamagedStatus, Statuses
  <2>6. \A r \in Ships : InCombat(r)' => InCombat(r) /\ status'[r] = status[r]
    BY <1>0, <2>1 DEF InCombat, DamagedStatus
  <2>7. StatusNamesEngagement'
    BY <1>0, <2>2, <2>6
       DEF CombatInv, CombatTypeOK, StatusNamesEngagement, Participants, Underway, RoundAt,
           TickUnchanged, InCombat
  <2>8. \A r \in Ships : /\ InCombat(r)' => status'[r] \in begun
                         /\ r \notin spawned => status'[r] = "Idle"
                         /\ status'[r] = "Destroyed" => hull'[r] = 0
    BY <1>0, <2>1, <2>4, <2>6 DEF CombatInv, DamagedStatus
  <2>. QED BY <1>0, <1>s, <2>3, <2>5, <2>7, <2>8
       DEF CombatInv, TickUnchanged, RoundAt, InCombat
<1>. QED BY <1>1, <1>2

\* An engagement that ended is taken away and its ships are released one by one.
LEMMA EndingsKeep ==
    ASSUME CombatInv,
           (\E e \in Engagements : RemoveCombat(e)) \/ (\E s \in Ships : Release(s))
    PROVE  CombatInv'
<1>0. /\ round \in Round /\ round.ended \subseteq open /\ open \subseteq begun
      /\ side \in [Engagements -> [a : SUBSET Ships, b : SUBSET Ships]]
      /\ status \in [Ships -> Statuses] /\ present \subseteq spawned /\ spawned \subseteq Ships
  BY DEF CombatInv, CombatTypeOK
<1>1. ASSUME NEW e \in Engagements, RemoveCombat(e) PROVE CombatInv'
  <2>1. /\ round.pc = "scan" /\ e \in round.ended /\ open' = open \ {e}
        /\ round' = [round EXCEPT !.pc = "release", !.ended = @ \ {e},
                                  !.ships = Participants(e)]
        /\ side' = [side EXCEPT ![e] = NoSides] /\ resolved' = resolved \ {e}
        /\ UNCHANGED <<status, hull>> /\ TickUnchanged
    BY <1>1 DEF RemoveCombat, RoundAt
  <2>2. Participants(e) \subseteq Ships
    BY <1>0 DEF Participants
  <2>3. round' \in Round /\ round'.pc = "release" /\ round'.ships = Participants(e)
        /\ round'.ended \subseteq open'
    BY <1>0, <2>1, <2>2 DEF Round
  <2>4. side' \in [Engagements -> [a : SUBSET Ships, b : SUBSET Ships]]
        /\ \A d \in Engagements \ {e} : Participants(d)' = Participants(d)
    BY <1>0, <2>1 DEF NoSides, Participants
  <2>5. CombatTypeOK'
    BY <2>1, <2>3, <2>4 DEF CombatInv, CombatTypeOK, TickUnchanged
  <2>6. StatusNamesEngagement'
    <3>. SUFFICES ASSUME NEW s \in present, InCombat(s)
                  PROVE  \/ status[s] \in open' /\ s \in Participants(status[s])'
                         \/ Underway(s, status[s])'
                         \/ status[s] \in forgotten
      BY <2>1 DEF StatusNamesEngagement, TickUnchanged, InCombat
    <3>1. CASE status[s] \in open /\ s \in Participants(status[s])
      <4>1. CASE status[s] = e
        BY <2>3, <3>1, <4>1 DEF Underway, RoundAt
      <4>2. CASE status[s] # e
        BY <2>1, <2>4, <3>1, <4>2 DEF InCombat
      <4>. QED BY <4>1, <4>2
    <3>2. CASE Underway(s, status[s])
      BY <2>1, <3>2 DEF Underway, RoundAt, TickUnchanged
    <3>. QED BY <3>1, <3>2 DEF CombatInv, StatusNamesEngagement
  <2>7. \A f \in Fighters : Starts(f)' => OwnStart(f)'
    BY <2>1 DEF CombatInv, TickUnchanged, Starts, OwnStart
  <2>. QED BY <2>1, <2>3, <2>5, <2>6, <2>7 DEF CombatInv, TickUnchanged, InCombat, RoundAt
<1>2. ASSUME NEW s \in Ships, Release(s) PROVE CombatInv'
  <2>1. /\ round.pc = "release" /\ round' = [round EXCEPT !.ships = @ \ {s}]
        /\ UNCHANGED <<hull, side, open, resolved>> /\ TickUnchanged
    BY <1>2 DEF Release, RoundAt
  <2>2. \/ status' = [status EXCEPT ![s] = "Idle"]
        \/ status' = status /\ (s \in present => ~InCombat(s))
    BY <1>2 DEF Release, Released, Becomes
  <2>3. round' \in Round /\ round'.pc = "release" /\ round'.ended = round.ended
        /\ round'.ships = round.ships \ {s}
    BY <1>0, <2>1 DEF Round
  <2>4. \A r \in Ships : status'[r] = status[r] \/ status'[r] = "Idle"
    BY <1>0, <2>2
  <2>5. \A r \in present : InCombat(r)' => r # s /\ status'[r] = status[r] /\ InCombat(r)
    BY <1>0, <2>2 DEF InCombat
  <2>6. CombatTypeOK'
    BY <1>0, <2>1, <2>2, <2>3 DEF CombatInv, CombatTypeOK, TickUnchanged, Statuses
  <2>7. StatusNamesEngagement'
    BY <2>1, <2>3, <2>5
       DEF CombatInv, StatusNamesEngagement, Participants, Underway, RoundAt, TickUnchanged
  <2>8. \A r \in Ships : /\ InCombat(r)' => status'[r] \in begun
                         /\ r \notin spawned => status'[r] = "Idle"
                         /\ status'[r] = "Destroyed" => hull[r] = 0
    BY <2>4 DEF CombatInv, InCombat
  <2>9. \A f \in Fighters : /\ Starts(f)' => OwnStart(f)'
                            /\ fighter'[f].pc \in {"leave", "rest"}
                                     => fighter'[f].a = fighter'[f].b /\ fighter'[f].a \in Ships
    BY <2>1 DEF CombatInv, TickUnchanged, Starts, OwnStart
  <2>. QED BY <2>1, <2>3, <2>6, <2>7, <2>8, <2>9
       DEF CombatInv, TickUnchanged, RoundAt, InCombat
<1>. QED BY <1>1, <1>2

\* NPC ships come and go.
LEMMA NpcsKeep ==
    ASSUME CombatInv, NEW s \in Ships, Spawn(s) \/ RemoveNpc(s)
    PROVE  CombatInv'
<1>0. round \in Round /\ round.ended \subseteq open
  BY DEF CombatInv, CombatTypeOK
<1>1. CASE Spawn(s)
  <2>1. /\ s \notin spawned /\ present' \in {present \union {s}, present}
        /\ spawned' = spawned \union {s} /\ round' = [round EXCEPT !.pc = "spawned"]
        /\ UNCHANGED <<status, hull, side, open, resolved, begun, fighter, crashes, forgotten>>
        /\ round.pc = "scan"
    BY <1>1 DEF Spawn, CombatsDone, RoundAt
  <2>2. round' \in Round /\ round'.pc = "spawned" /\ round'.ended = round.ended
    BY <1>0, <2>1 DEF Round
  <2>3. status[s] = "Idle"
    BY <2>1 DEF CombatInv
  <2>4. CombatTypeOK'
    BY <2>1, <2>2 DEF CombatInv, CombatTypeOK
  <2>5. StatusNamesEngagement'
    BY <2>1, <2>2, <2>3
       DEF CombatInv, StatusNamesEngagement, InCombat, Participants, Underway, RoundAt
  <2>. QED BY <1>0, <2>1, <2>2, <2>4, <2>5 DEF CombatInv, InCombat, Starts, OwnStart, RoundAt
<1>2. CASE RemoveNpc(s)
  <2>1. /\ present' = present \ {s} /\ round' = [round EXCEPT !.ships = @ \ {s}]
        /\ UNCHANGED <<spawned, status, hull, side, open, resolved, begun, fighter, crashes,
                       forgotten>>
        /\ round.pc = "cleanup"
    BY <1>2 DEF RemoveNpc, RoundAt
  <2>2. round' \in Round /\ round'.pc = "cleanup" /\ round'.ended = round.ended
    BY <1>0, <2>1 DEF Round
  <2>3. CombatTypeOK'
    BY <2>1, <2>2 DEF CombatInv, CombatTypeOK
  <2>4. StatusNamesEngagement'
    BY <2>1, <2>2
       DEF CombatInv, StatusNamesEngagement, InCombat, Participants, Underway, RoundAt
  <2>. QED BY <1>0, <2>1, <2>2, <2>3, <2>4 DEF CombatInv, InCombat, Starts, OwnStart, RoundAt
<1>. QED BY <1>1, <1>2

\* A restart forgets every engagement begun so far.
LEMMA CrashKeeps == ASSUME CombatInv, Crash PROVE CombatInv'
<1>1. round' = NoRound /\ NoRound \in Round /\ NoRound.ended = {} /\ NoRound.pc = "idle"
  BY DEF Crash, NoRound, Round
<1>2. fighter' = [f \in Fighters |-> NoFight] /\ NoFight \in Fight /\ NoFight.pc = "idle"
  BY DEF Crash, NoFight, Fight
<1>3. side' \in [Engagements -> [a : SUBSET Ships, b : SUBSET Ships]]
  BY DEF Crash, NoSides
<1>4. /\ crashes' \in 0 .. MaxCrashes /\ present' = PlayerShips /\ open' = {}
      /\ forgotten' = begun /\ resolved' = {} /\ UNCHANGED <<spawned, status, hull, begun>>
  BY DEF Crash, CombatInv, CombatTypeOK
<1>5. CombatTypeOK'
  BY <1>1, <1>2, <1>3, <1>4 DEF CombatInv, CombatTypeOK
<1>6. StatusNamesEngagement'
  BY <1>4 DEF CombatInv, StatusNamesEngagement, InCombat
<1>. QED BY <1>1, <1>2, <1>4, <1>5, <1>6 DEF CombatInv, InCombat, Starts, OwnStart, RoundAt

\* A task that starts a combat or flees from one leaves the loop alone.
OthersKept ==
    UNCHANGED <<present, spawned, hull, round, crashes, forgotten>>

\* What a task's step has to keep for the engagements.
LEMMA OrdersMove ==
    ASSUME CombatInv, OthersKept, CombatTypeOK',
           NEW f \in Fighters, NEW k, fighter' = [fighter EXCEPT ![f] = k],
           UNCHANGED status \/ \E s \in present, e \in (Engagements \cap begun) \union {"Idle"} :
                                  status' = [status EXCEPT ![s] = e],
           begun \subseteq begun', open \subseteq open',
           \A g \in Fighters \ {f} : Starts(g) => fighter[g].e \notin open',
           k.pc \in {"initiator", "target", "insert"} =>
               /\ k.e \in begun' \ open' /\ k.a \in Ships /\ k.b \in Ships
               /\ \A g \in Fighters \ {f} : Starts(g) => fighter[g].e # k.e,
           k.pc \in {"leave", "rest"} => k.a = k.b /\ k.a \in Ships,
           StatusNamesEngagement'
    PROVE  CombatInv'
<1>0. /\ fighter \in [Fighters -> Fight] /\ status \in [Ships -> Statuses]
      /\ present \subseteq spawned /\ spawned \subseteq Ships
  BY DEF CombatInv, CombatTypeOK
<1>1. fighter'[f] = k /\ \A g \in Fighters \ {f} : fighter'[g] = fighter[g]
  BY <1>0
<1>2. ASSUME NEW g \in Fighters, Starts(g)' PROVE OwnStart(g)'
  <2>1. CASE g = f
    BY <1>1, <1>2, <2>1 DEF Starts, OwnStart
  <2>2. CASE g # f
    <3>1. Starts(g) /\ OwnStart(g) /\ fighter'[g] = fighter[g]
      BY <1>1, <1>2, <2>2 DEF Starts, CombatInv
    <3>2. fighter'[g].e \in begun' \ open' /\ fighter'[g].a \in Ships /\ fighter'[g].b \in Ships
      BY <2>2, <3>1 DEF OwnStart
    <3>3. ASSUME NEW h \in Fighters, Starts(h)', fighter'[h].e = fighter'[g].e PROVE h = g
      <4>1. CASE h = f
        BY <1>1, <2>2, <3>1, <3>3, <4>1 DEF Starts
      <4>2. CASE h # f
        BY <1>1, <3>1, <3>3, <4>2 DEF Starts, OwnStart
      <4>. QED BY <4>1, <4>2
    <3>. QED BY <3>2, <3>3 DEF OwnStart
  <2>. QED BY <2>1, <2>2
<1>3. \A g \in Fighters : fighter'[g].pc \in {"leave", "rest"}
         => fighter'[g].a = fighter'[g].b /\ fighter'[g].a \in Ships
  BY <1>1 DEF CombatInv
<1>4. \A s \in Ships : InCombat(s)' => status'[s] \in begun'
  BY <1>0 DEF CombatInv, InCombat
<1>5. \A s \in Ships \ spawned : status'[s] = "Idle"
  BY <1>0 DEF CombatInv
<1>6. \A s \in Ships : status'[s] = "Destroyed" => hull'[s] = 0
  BY <1>0 DEF CombatInv, OthersKept
<1>7. round'.ended \subseteq open' /\ (RoundAt("fight")' => round'.at \in open')
  BY DEF CombatInv, OthersKept, RoundAt
<1>. QED BY <1>2, <1>3, <1>4, <1>5, <1>6, <1>7 DEF CombatInv, OthersKept

\* A ship keeps its place when its status, its engagement and whoever is under way
\* with it stay.
LEMMA NamedStays ==
    ASSUME CombatInv, OthersKept, NEW f \in Fighters, NEW k,
           fighter' = [fighter EXCEPT ![f] = k], open \subseteq open',
           NEW s \in present, NEW e \in Engagements, Named(s, e),
           e \in open /\ s \in Participants(e) =>
               s \in Participants(e)' \/ Underway(s, e)',
           fighter[f].e = e /\ s \in {fighter[f].a, fighter[f].b}
               /\ fighter[f].pc \in {"target", "insert", "rest"} => Named(s, e)'
    PROVE  Named(s, e)'
<1>0. fighter \in [Fighters -> Fight]
  BY DEF CombatInv, CombatTypeOK
<1>1. CASE e \in open /\ s \in Participants(e)
  BY <1>1 DEF Named
<1>2. ASSUME NEW g \in Fighters, fighter[g].e = e, s \in {fighter[g].a, fighter[g].b},
             fighter[g].pc \in {"target", "insert", "rest"}
      PROVE  Named(s, e)'
  <2>1. CASE g = f
    BY <1>2, <2>1
  <2>2. CASE g # f
    <3>1. fighter'[g] = fighter[g]
      BY <1>0, <2>2
    <3>. QED BY <1>2, <3>1 DEF Named, Underway
  <2>. QED BY <2>1, <2>2
<1>3. CASE RoundAt("release") /\ s \in round.ships
  BY <1>3 DEF Named, Underway, RoundAt, OthersKept
<1>4. CASE e \in forgotten
  BY <1>4 DEF Named, OthersKept
<1>. QED BY <1>1, <1>2, <1>3, <1>4 DEF Named, Underway

\* start_combat draws an identifier, engages both ships and inserts the engagement.
LEMMA StartsKeep ==
    ASSUME CombatInv, NEW f \in Fighters,
           \/ \E a, b \in Ships, e \in Engagements : StartCombat(f, a, b, e)
           \/ EngageInitiator(f) \/ EngageTarget(f) \/ InsertCombat(f)
    PROVE  CombatInv'
<1>0. /\ fighter \in [Fighters -> Fight] /\ status \in [Ships -> Statuses]
      /\ side \in [Engagements -> [a : SUBSET Ships, b : SUBSET Ships]]
      /\ present \subseteq Ships /\ begun \subseteq Engagements /\ open \subseteq begun
      /\ \A g \in Fighters : Starts(g) => OwnStart(g)
  BY DEF CombatInv, CombatTypeOK
<1>1. ASSUME NEW a \in Ships, NEW b \in Ships, NEW e \in Engagements, StartCombat(f, a, b, e)
      PROVE  CombatInv'
  <2>. DEFINE k == [pc |-> "initiator", a |-> a, b |-> b, e |-> e]
  <2>1. /\ fighter' = [fighter EXCEPT ![f] = k] /\ begun' = begun \union {e} /\ e \notin begun
        /\ fighter[f].pc = "idle"
        /\ UNCHANGED <<status, side, open, resolved>> /\ OthersKept
    BY <1>1 DEF StartCombat, OthersKept, FightAt
  <2>2. k \in Fight /\ k.pc = "initiator" /\ k.e = e /\ k.a \in Ships /\ k.b \in Ships
    BY DEF Fight
  <2>. HIDE DEF k
  <2>3. CombatTypeOK'
    BY <2>1, <2>2 DEF CombatInv, CombatTypeOK, OthersKept
  <2>4. StatusNamesEngagement'
    <3>. SUFFICES ASSUME NEW s \in present, NEW d \in Engagements, status[s] = d
                  PROVE  Named(s, d)'
      BY <2>1, NamingNext DEF OthersKept
    <3>1. Named(s, d)
      BY Naming DEF CombatInv
    <3>. QED BY <2>1, <3>1, NamedStays DEF Participants
  <2>5. \A g \in Fighters : Starts(g) => fighter[g].e \in begun \ open
    BY <1>0 DEF OwnStart
  <2>6. \A g \in Fighters \ {f} : Starts(g) => fighter[g].e # e
    BY <2>1, <2>5
  <2>7. e \in begun' \ open'
    BY <1>0, <2>1
  <2>. QED BY <2>1, <2>2, <2>3, <2>4, <2>5, <2>6, <2>7, OrdersMove
<1>2. ASSUME NEW from \in {"initiator", "target"}, NEW to, NEW s,
             <<from, to, s>> \in {<<"initiator", "target", fighter[f].a>>,
                                  <<"target", "insert", fighter[f].b>>},
             FightAt(f, from), Becomes(s, fighter[f].e), FightGoes(f, to),
             UNCHANGED <<side, open, resolved, begun>>, OthersKept
      PROVE  CombatInv'
  <2>0. PICK k, e : k = [fighter[f] EXCEPT !.pc = to] /\ e = fighter[f].e
    OBVIOUS
  <2>1. /\ fighter' = [fighter EXCEPT ![f] = k] /\ fighter[f] \in Fight
        /\ fighter[f].pc = from /\ to \in {"target", "insert"}
        /\ s \in {fighter[f].a, fighter[f].b}
    BY <1>0, <1>2, <2>0 DEF FightGoes, FightAt
  <2>2. /\ k \in Fight /\ k.pc = to /\ k.e = e
        /\ k.a = fighter[f].a /\ k.b = fighter[f].b /\ k.a \in Ships /\ k.b \in Ships
    BY <1>0, <1>2, <2>0, <2>1 DEF Fight, Starts, OwnStart
  <2>3. e \in begun \ open /\ \A g \in Fighters \ {f} : Starts(g) => fighter[g].e # e
    BY <1>0, <1>2, <2>0, <2>1 DEF Starts, OwnStart
  <2>4. status' = IF s \in present THEN [status EXCEPT ![s] = e] ELSE status
    BY <1>2, <2>0 DEF Becomes
  <2>5. CombatTypeOK'
    BY <1>0, <1>2, <2>1, <2>2, <2>3, <2>4 DEF CombatInv, CombatTypeOK, OthersKept, Statuses
  <2>6. fighter'[f] = k
    BY <1>0, <2>1
  <2>7. ASSUME NEW r \in {fighter[f].a, fighter[f].b} PROVE Named(r, e)'
    BY <2>1, <2>2, <2>6, <2>7 DEF Named, Underway
  <2>8. StatusNamesEngagement'
    <3>. SUFFICES ASSUME NEW r \in present, NEW d \in Engagements, status'[r] = d
                  PROVE  Named(r, d)'
      BY <1>2, NamingNext DEF OthersKept
    <3>1. CASE r = s /\ d = e
      BY <2>1, <2>7, <3>1
    <3>2. CASE ~(r = s /\ d = e)
      <4>1. status[r] = d
        BY <1>0, <2>4, <3>2
      <4>2. Named(r, d)
        BY <4>1, Naming DEF CombatInv
      <4>3. fighter[f].e = d /\ r \in {fighter[f].a, fighter[f].b} => Named(r, d)'
        BY <2>0, <2>7
      <4>. QED BY <1>2, <2>1, <4>2, <4>3, NamedStays DEF Participants
    <3>. QED BY <3>1, <3>2
  <2>9. \A g \in Fighters : Starts(g) => fighter[g].e \in begun \ open
    BY <1>0 DEF OwnStart
  <2>10. UNCHANGED status \/ \E r \in present, d \in (Engagements \cap begun) \union {"Idle"} :
                                status' = [status EXCEPT ![r] = d]
    BY <1>0, <2>3, <2>4
  <2>. QED BY <1>2, <2>1, <2>2, <2>3, <2>5, <2>8, <2>9, <2>10, OrdersMove
<1>3. CASE EngageInitiator(f)
  BY <1>2, <1>3 DEF EngageInitiator, OthersKept
<1>4. CASE EngageTarget(f)
  BY <1>2, <1>4 DEF EngageTarget, OthersKept
<1>5. CASE InsertCombat(f)
  <2>0. PICK k, e : k = NoFight /\ e = fighter[f].e
    OBVIOUS
  <2>1. /\ fighter' = [fighter EXCEPT ![f] = k] /\ open' = open \union {e}
        /\ side' = [side EXCEPT ![e] = [a |-> {fighter[f].a}, b |-> {fighter[f].b}]]
        /\ fighter[f].pc = "insert" /\ fighter[f] \in Fight
        /\ UNCHANGED <<status, resolved, begun>> /\ OthersKept
    BY <1>0, <1>5, <2>0 DEF InsertCombat, OthersKept, FightAt, FightDone
  <2>2. k \in Fight /\ k.pc = "idle"
    BY <2>0 DEF NoFight, Fight
  <2>3. e \in begun \ open /\ \A g \in Fighters \ {f} : Starts(g) => fighter[g].e # e
    BY <1>0, <2>0, <2>1 DEF Starts, OwnStart
  <2>a. [a |-> {fighter[f].a}, b |-> {fighter[f].b}] \in [a : SUBSET Ships, b : SUBSET Ships]
    BY <1>0, <2>1 DEF Starts, OwnStart
  <2>4. CombatTypeOK'
    BY <1>0, <2>1, <2>2, <2>3, <2>a DEF CombatInv, CombatTypeOK, OthersKept
  <2>5. StatusNamesEngagement'
    <3>. SUFFICES ASSUME NEW s \in present, NEW d \in Engagements, status[s] = d
                  PROVE  Named(s, d)'
      BY <2>1, NamingNext DEF OthersKept
    <3>1. Named(s, d)
      BY Naming DEF CombatInv
    <3>2. d \in open => Participants(d)' = Participants(d)
      BY <1>0, <2>1, <2>3 DEF Participants
    <3>3. ASSUME d = e, s \in {fighter[f].a, fighter[f].b} PROVE Named(s, d)'
      <4>1. s \in Participants(d)' /\ d \in open'
        BY <1>0, <2>1, <2>3, <3>3 DEF Participants
      <4>. QED BY <4>1 DEF Named
    <3>4. /\ open \subseteq open' /\ fighter' = [fighter EXCEPT ![f] = k]
          /\ d \in open /\ s \in Participants(d) => s \in Participants(d)'
          /\ fighter[f].e = d /\ s \in {fighter[f].a, fighter[f].b} => Named(s, d)'
      BY <2>0, <2>1, <3>2, <3>3
    <3>. QED BY <2>1, <3>1, <3>4, NamedStays
  <2>6. \A g \in Fighters \ {f} : Starts(g) => fighter[g].e \notin open'
    BY <1>0, <2>1, <2>3 DEF OwnStart
  <2>. QED BY <2>1, <2>2, <2>4, <2>5, <2>6, OrdersMove
<1>. QED BY <1>1, <1>3, <1>4, <1>5

\* flee_from_combat reads the engagement, leaves it and puts the ship to rest.
LEMMA FleesKeep ==
    ASSUME CombatInv, NEW f \in Fighters,
           (\E s \in Ships : Flee(f, s)) \/ LeaveCombat(f) \/ Rest(f)
    PROVE  CombatInv'
<1>0. /\ fighter \in [Fighters -> Fight] /\ status \in [Ships -> Statuses]
      /\ side \in [Engagements -> [a : SUBSET Ships, b : SUBSET Ships]]
      /\ present \subseteq Ships /\ begun \subseteq Engagements /\ open \subseteq begun
      /\ \A g \in Fighters : Starts(g) => fighter[g].e \notin open
  BY DEF CombatInv, CombatTypeOK, OwnStart
<1>1. ASSUME NEW s \in Ships, Flee(f, s) PROVE CombatInv'
  <2>0. PICK k : k = [pc |-> "leave", a |-> s, b |-> s, e |-> status[s]]
    OBVIOUS
  <2>1. /\ fighter' = [fighter EXCEPT ![f] = k] /\ fighter[f].pc = "idle"
        /\ UNCHANGED <<status, side, open, resolved, begun>> /\ OthersKept
        /\ status[s] \in Engagements
    BY <1>1, <2>0 DEF Flee, OthersKept, FightAt, InCombat
  <2>2. k \in Fight /\ k.pc = "leave" /\ k.a = s /\ k.b = s
    BY <2>0, <2>1 DEF Fight
  <2>3. CombatTypeOK'
    BY <2>1, <2>2 DEF CombatInv, CombatTypeOK, OthersKept
  <2>4. StatusNamesEngagement'
    <3>. SUFFICES ASSUME NEW r \in present, NEW d \in Engagements, status[r] = d
                  PROVE  Named(r, d)'
      BY <2>1, NamingNext DEF OthersKept
    <3>1. Named(r, d)
      BY Naming DEF CombatInv
    <3>. QED BY <2>1, <3>1, NamedStays DEF Participants
  <2>. QED BY <1>0, <2>1, <2>2, <2>3, <2>4, OrdersMove
<1>2. CASE LeaveCombat(f)
  <2>0. PICK k, e, s : k = [fighter[f] EXCEPT !.pc = "rest"] /\ e = fighter[f].e
                       /\ s = fighter[f].a
    OBVIOUS
  <2>1. /\ fighter' = [fighter EXCEPT ![f] = k] /\ fighter[f] \in Fight
        /\ fighter[f].pc = "leave" /\ fighter[f].b = s /\ s \in Ships
        /\ UNCHANGED <<status, open, begun>> /\ OthersKept
        /\ IF e \in open THEN RemoveShip(e, s) ELSE UNCHANGED <<side, resolved>>
    BY <1>0, <1>2, <2>0 DEF LeaveCombat, OthersKept, FightAt, FightGoes, CombatInv
  <2>2. k \in Fight /\ k.pc = "rest" /\ k.a = s /\ k.b = s /\ k.e = e
    BY <2>0, <2>1 DEF Fight
  <2>3. /\ side' \in [Engagements -> [a : SUBSET Ships, b : SUBSET Ships]]
        /\ resolved' \subseteq begun
        /\ \A d \in Engagements, r \in Ships :
              r \in Participants(d) /\ (d # e \/ r # s) => r \in Participants(d)'
    <3>1. CASE e \in open
      BY <2>1, <3>1, RemoveKeeps
    <3>2. CASE e \notin open
      BY <1>0, <2>1, <3>2 DEF CombatInv, CombatTypeOK, Participants
    <3>. QED BY <3>1, <3>2
  <2>4. CombatTypeOK'
    BY <2>1, <2>2, <2>3 DEF CombatInv, CombatTypeOK, OthersKept
  <2>5. fighter'[f] = k
    BY <1>0, <2>1
  <2>6. StatusNamesEngagement'
    <3>. SUFFICES ASSUME NEW r \in present, NEW d \in Engagements, status[r] = d
                  PROVE  Named(r, d)'
      BY <2>1, NamingNext DEF OthersKept
    <3>1. Named(r, d)
      BY Naming DEF CombatInv
    <3>2. CASE r = s /\ d = e
      BY <2>2, <2>5, <3>2 DEF Named, Underway
    <3>3. CASE ~(r = s /\ d = e)
      BY <1>0, <2>1, <2>3, <3>1, <3>3, NamedStays
    <3>. QED BY <3>2, <3>3
  <2>. QED BY <1>0, <2>1, <2>2, <2>4, <2>6, OrdersMove
<1>3. CASE Rest(f)
  <2>0. PICK k, s : k = NoFight /\ s = fighter[f].a
    OBVIOUS
  <2>1. /\ fighter' = [fighter EXCEPT ![f] = k] /\ fighter[f].pc = "rest"
        /\ fighter[f].b = s /\ s \in Ships
        /\ status' = IF s \in present THEN [status EXCEPT ![s] = "Idle"] ELSE status
        /\ UNCHANGED <<side, open, resolved, begun>> /\ OthersKept
    BY <1>3, <2>0 DEF Rest, OthersKept, FightAt, FightDone, Becomes, CombatInv
  <2>2. k \in Fight /\ k.pc = "idle"
    BY <2>0 DEF NoFight, Fight
  <2>3. CombatTypeOK'
    BY <1>0, <2>1, <2>2 DEF CombatInv, CombatTypeOK, OthersKept, Statuses
  <2>4. StatusNamesEngagement'
    <3>. SUFFICES ASSUME NEW r \in present, NEW d \in Engagements, status'[r] = d
                  PROVE  Named(r, d)'
      BY <2>1, NamingNext DEF OthersKept
    <3>1. r # s /\ status[r] = d
      BY <1>0, <2>1, CombatAssumption
    <3>2. Named(r, d)
      BY <3>1, Naming DEF CombatInv
    <3>. QED BY <2>0, <2>1, <3>1, <3>2, NamedStays DEF Participants
  <2>5. UNCHANGED status \/ \E r \in present, d \in (Engagements \cap begun) \union {"Idle"} :
                               status' = [status EXCEPT ![r] = d]
    BY <1>0, <2>1
  <2>. QED BY <1>0, <2>1, <2>2, <2>3, <2>4, <2>5, OrdersMove
<1>. QED BY <1>1, <1>2, <1>3

\* CombatInv holds at the start.
LEMMA CombatStarts == CombatInit => CombatInv
<1>. SUFFICES ASSUME CombatInit PROVE CombatInv
  OBVIOUS
<1>1. NoRound \in Round /\ NoRound.ended = {} /\ NoRound.pc = "idle"
      /\ NoFight \in Fight /\ NoFight.pc = "idle"
      /\ NoSides \in [a : SUBSET Ships, b : SUBSET Ships]
  BY DEF NoRound, Round, NoFight, Fight, NoSides
<1>2. CombatTypeOK
  BY <1>1 DEF CombatInit, CombatTypeOK, Statuses
<1>3. \A s \in Ships : status[s] = "Idle" /\ ~InCombat(s)
  BY DEF CombatInit, InCombat
<1>4. \A f \in Fighters : fighter[f] = NoFight
  BY DEF CombatInit
<1>5. StatusNamesEngagement
  BY <1>2, <1>3 DEF StatusNamesEngagement, CombatTypeOK
<1>. QED BY <1>1, <1>2, <1>3, <1>4, <1>5 DEF CombatInv, CombatInit, Starts, RoundAt

\* Every step of the loop, of the tasks and a restart keep CombatInv.
LEMMA CombatInductive == CombatInv /\ [CombatNext]_combatVars => CombatInv'
<1>. SUFFICES ASSUME CombatInv, [CombatNext]_combatVars PROVE CombatInv'
  OBVIOUS
<1>1. CASE UNCHANGED combatVars
  BY <1>1 DEF combatVars, CombatInv, CombatTypeOK, InCombat, Starts, OwnStart, RoundAt,
              StatusNamesEngagement, Participants, Underway
<1>2. CASE Tick
  BY <1>2, LoopTurns, ShotsKeep, EndingsKeep, NpcsKeep DEF Tick
<1>3. CASE Orders
  BY <1>3, StartsKeep, FleesKeep DEF Orders
<1>4. CASE Crash
  BY <1>4, CrashKeeps
<1>. QED BY <1>1, <1>2, <1>3, <1>4 DEF CombatNext

\* CombatInv holds in every reachable state.
LEMMA CombatInvariant == CombatSpec => []CombatInv
BY CombatStarts, CombatInductive, PTL DEF CombatSpec

\* Any number of tasks start combats and flee while the game loop fights them: a ship
\* in combat is in the engagement its status names, or somebody is about to put that
\* right, or a restart forgot it (start_combat, flee_from_combat, combat_processor.rs).
THEOREM ShipsNameTheirEngagement == CombatSpec => []StatusNamesEngagement
<1>1. CombatInv => StatusNamesEngagement
  BY DEF CombatInv
<1>. QED BY <1>1, CombatInvariant, PTL

\* What a step does to wrecks and to engagements a flight resolved.
LEMMA RecordsStep ==
    CombatInv /\ [CombatNext]_combatVars =>
        /\ [round' # round /\ crashes' = crashes =>
              \A s \in Ships : status[s] = "Destroyed" => status'[s] = "Destroyed"]_combatVars
        /\ [crashes' = crashes =>
              \A e \in (open \cap resolved) \ round.ended :
                 round.at # e => e \in open' /\ e \notin round'.ended]_combatVars
<1>. SUFFICES ASSUME CombatInv, CombatNext, crashes' = crashes
              PROVE  /\ round' # round =>
                           \A s \in Ships : status[s] = "Destroyed" => status'[s] = "Destroyed"
                     /\ \A e \in (open \cap resolved) \ round.ended :
                           round.at # e => e \in open' /\ e \notin round'.ended
  BY DEF CombatNext
<1>. USE CombatAssumption
<1>0. /\ round \in Round /\ status \in [Ships -> Statuses] /\ crashes \in Nat
      /\ hull \in [Ships -> 0 .. 2]
      /\ \A s \in Ships : status[s] = "Destroyed" => hull[s] = 0
  BY DEF CombatInv, CombatTypeOK
<1>1. CASE Orders
  <2>1. UNCHANGED round /\ open \subseteq open'
    BY <1>1 DEF Orders, StartCombat, EngageInitiator, EngageTarget, InsertCombat, Flee,
                LeaveCombat, Rest
  <2>. QED BY <2>1
<1>2. CASE Crash
  BY <1>0, <1>2 DEF Crash
<1>3. CASE Tick
  <2>. USE DEF RoundAt
  <2>1. CASE BeginTick
    BY <1>0, <2>1 DEF BeginTick, NoRound
  <2>2. CASE EndRound
    BY <1>0, <2>2 DEF EndRound, Round
  <2>3. CASE EndRelease
    BY <1>0, <2>3 DEF EndRelease, Round
  <2>4. CASE CollectNpcs
    BY <1>0, <2>4 DEF CollectNpcs, Round
  <2>5. CASE EndTick
    BY <1>0, <2>5 DEF EndTick, NoRound
  <2>6. ASSUME NEW d \in Engagements, PassOver(d) \/ BeginRound(d)
        PROVE  UNCHANGED <<status, open>> /\ round'.ended = round.ended
    BY <1>0, <2>6 DEF PassOver, BeginRound, Round
  <2>7. ASSUME NEW d \in Engagements, RemoveCombat(d)
        PROVE  UNCHANGED status /\ open' = open \ {d} /\ d \in round.ended
               /\ round'.ended = round.ended \ {d}
    BY <1>0, <2>7 DEF RemoveCombat, Round
  <2>8. ASSUME NEW p \in Pairs, SkipAttack(p)
        PROVE  UNCHANGED <<status, open>> /\ round'.ended = round.ended
    BY <1>0, <2>8 DEF SkipAttack, Round
  <2>9. ASSUME NEW p \in Pairs, Kill(p)
        PROVE  /\ status' = [status EXCEPT ![p[2]] = "Destroyed"]
               /\ UNCHANGED open /\ round'.ended = round.ended
    BY <1>0, <2>9 DEF Kill, MayHit, Round
  <2>10. ASSUME NEW p \in Pairs, Graze(p)
         PROVE  /\ UNCHANGED open /\ round'.ended = round.ended
                /\ \A s \in Ships : status[s] = "Destroyed" => status'[s] = "Destroyed"
    <3>. DEFINE s == p[2]
    <3>1. PICK h \in 1 .. hull[s] : status' = [status EXCEPT ![s] = DamagedStatus(s, h)]
      BY <2>10 DEF Graze
    <3>2. s \in Ships
      BY DEF Pairs
    <3>. HIDE DEF s
    <3>3. status[s] # "Destroyed"
      BY <1>0, <3>1, <3>2
    <3>. QED BY <1>0, <2>10, <3>1, <3>3 DEF Graze, MayHit, Round
  <2>11. ASSUME NEW r \in Ships, Release(r)
         PROVE  /\ UNCHANGED open /\ round'.ended = round.ended
                /\ \A s \in Ships : status[s] = "Destroyed" => status'[s] = "Destroyed"
    BY <1>0, <2>11 DEF Release, Released, Becomes, InCombat, Round
  <2>12. ASSUME NEW r \in Ships, Spawn(r) \/ RemoveNpc(r)
         PROVE  UNCHANGED <<status, open>> /\ round'.ended = round.ended
    BY <1>0, <2>12 DEF Spawn, RemoveNpc, CombatsDone, Round
  <2>. QED BY <1>0, <1>3, <2>1, <2>2, <2>3, <2>4, <2>5, <2>6, <2>7, <2>8, <2>9, <2>10, <2>11,
              <2>12 DEF Tick
<1>. QED BY <1>1, <1>2, <1>3 DEF CombatNext

\* The loop raises no wreck, and an engagement that a flight resolved stays in the
\* sector until a restart (process_sector_combats).
THEOREM CombatRecords == CombatSpec => CombatKeepsRecords
BY CombatInvariant, RecordsStep, PTL
   DEF CombatSpec, CombatKeepsRecords, LoopRaisesNoWreck, FledEngagementStays

HIDE CombatAssumption
-----------------------------------------------------------------------------
(***************************************************************************)
(* Station services.  A thread takes the entry it asks for first and then  *)
(* the other one, and what it holds says how far it has come.              *)
(***************************************************************************)

\* What a thread can hold: nothing, the entry its operation asks for first, or both;
\* only the game loop rewards.
InTurn(t) ==
    /\ task[t].op = "none" => task[t].held = {}
    /\ task[t].held \in {{}, {First(task[t].op)}, {"ship", "player"}}
    /\ t = Loop \/ task[t].op # "reward"

ServicesInv == ServicesTypeOK /\ \A t \in Threads : InTurn(t)

\* A step that changes no task but one.
LEMMA OneTask ==
    ASSUME ServicesInv, NEW t \in Threads, NEW k \in Task, task' = [task EXCEPT ![t] = k],
           InTurn(t)'
    PROVE  task' \in [Threads -> Task] /\ \A u \in Threads : InTurn(u)'
<1>1. task \in [Threads -> Task]
  BY DEF ServicesInv, ServicesTypeOK
<1>2. ASSUME NEW u \in Threads PROVE InTurn(u)'
  <2>1. CASE u = t
    BY <2>1
  <2>2. CASE u # t
    <3>1. task'[u] = task[u]
      BY <1>1, <2>2
    <3>. QED BY <3>1 DEF ServicesInv, InTurn, First
  <2>. QED BY <2>1, <2>2
<1>. QED BY <1>1, <1>2

\* A thread that is done holds nothing.
LEMMA DoneInTurn ==
    ASSUME ServicesInv, NEW t \in Threads, Finished(t)
    PROVE  task' \in [Threads -> Task] /\ \A u \in Threads : InTurn(u)'
<1>1. NoTask \in Task /\ task' = [task EXCEPT ![t] = NoTask]
  BY DEF NoTask, Task, Finished
<1>2. task'[t] = NoTask
  BY <1>1 DEF ServicesInv, ServicesTypeOK
<1>3. InTurn(t)'
  BY <1>2 DEF InTurn, NoTask
<1>. QED BY <1>1, <1>3, OneTask

\* Every step keeps the types and what the threads hold in turn.
LEMMA ServicesInductive == ServicesInv /\ [ServicesNext]_serviceVars => ServicesInv'
<1>. SUFFICES ASSUME ServicesInv, [ServicesNext]_serviceVars PROVE ServicesInv'
  OBVIOUS
<1>. USE ServicesAssumption
<1>1. ASSUME NEW p \in Pilots,
             \/ \E s \in Stations : Dock(p, s)
             \/ Undock(p) \/ Engage(p)
             \/ \E what \in Shortages \ {"hull"} : Use(p, what)
             \/ \E outcome \in {"Idle", "Disabled", "Destroyed"} : EndCombat(p, outcome)
      PROVE  ServicesInv'
  <2>1. UNCHANGED <<reputation, task>>
    BY <1>1 DEF Dock, Undock, Engage, Use, EndCombat
  <2>2. ship' \in [Pilots -> ShipStates]
    BY <1>1 DEF ServicesInv, ServicesTypeOK, Dock, Undock, Engage, Use, EndCombat, ShipStates
  <2>3. lacks' \in [Pilots -> SUBSET Shortages]
    BY <1>1 DEF ServicesInv, ServicesTypeOK, Dock, Undock, Engage, Use, EndCombat, Shortages,
                Supplies
  <2>. QED BY <2>1, <2>2, <2>3 DEF ServicesInv, ServicesTypeOK, InTurn
<1>2. ASSUME NEW p \in Pilots, NEW t \in Threads, NEW op \in Operations, Begin(t, op, p)
      PROVE  ServicesInv'
  <2>. DEFINE k == [NoTask EXCEPT !.op = op, !.pilot = p]
  <2>1. k \in Task /\ task' = [task EXCEPT ![t] = k]
    BY <1>2 DEF Begin, NoTask, Task
  <2>2. task'[t].op = op /\ task'[t].held = {}
    BY <2>1 DEF ServicesInv, ServicesTypeOK, NoTask
  <2>3. InTurn(t)'
    BY <1>2, <2>2 DEF InTurn, Begin, Operations, Supplies
  <2>. HIDE DEF k
  <2>. QED BY <1>2, <2>1, <2>3, OneTask DEF Begin, ServicesInv, ServicesTypeOK
<1>3. ASSUME NEW t \in Threads, Take(t) PROVE ServicesInv'
  <2>. DEFINE k == [task[t] EXCEPT !.held = @ \union {Wanted(t)}]
  <2>1. task[t] \in Task /\ InTurn(t)
    BY DEF ServicesInv, ServicesTypeOK
  <2>2. Wanted(t) \in {"ship", "player"}
    BY DEF Wanted, First, Other
  <2>3. k \in Task /\ task' = [task EXCEPT ![t] = k] /\ task'[t] = k
    BY <1>3, <2>1, <2>2 DEF Take, Task, ServicesInv, ServicesTypeOK
  <2>4. task[t].held \in {{}, {First(task[t].op)}}
    BY <1>3, <2>1 DEF Take, InTurn
  <2>5. k.op = task[t].op /\ k.held = task[t].held \union {Wanted(t)}
    BY <2>1 DEF Task
  <2>. HIDE DEF k
  <2>6. InTurn(t)'
    BY <1>3, <2>1, <2>3, <2>4, <2>5 DEF InTurn, Take, Wanted, First, Other
  <2>. QED BY <1>3, <2>3, <2>6, OneTask DEF Take, ServicesInv, ServicesTypeOK
<1>4. ASSUME NEW t \in Threads, GiveUp(t) \/ Refuse(t) PROVE ServicesInv'
  BY <1>4, DoneInTurn DEF GiveUp, Refuse, ServicesInv, ServicesTypeOK
<1>5. ASSUME NEW t \in Threads, Serve(t) PROVE ServicesInv'
  <2>. DEFINE p == task[t].pilot
              cost == Cost(task[t].op, ship[p])
  <2>1. p \in Pilots \union {NoPilot} /\ cost \in Nat
    BY DEF ServicesInv, ServicesTypeOK, Task, Cost
  <2>2. /\ reputation \in [Pilots -> 0 .. MaxReputation] /\ lacks \in [Pilots -> SUBSET Shortages]
        /\ reputation[p] >= cost /\ reputation' = [reputation EXCEPT ![p] = @ - cost]
        /\ lacks' = [lacks EXCEPT ![p] = @ \ Supplied(task[t].op)]
    BY <1>5 DEF Serve, CanAfford, ServicesInv, ServicesTypeOK
  <2>. HIDE DEF p, cost
  <2>3. reputation' \in [Pilots -> 0 .. MaxReputation] /\ lacks' \in [Pilots -> SUBSET Shortages]
    <3>1. p \in Pilots => reputation[p] - cost \in 0 .. MaxReputation
      BY <2>1, <2>2
    <3>. QED BY <2>2, <3>1
  <2>4. Finished(t) /\ UNCHANGED ship
    BY <1>5 DEF Serve
  <2>. QED BY <2>3, <2>4, DoneInTurn DEF ServicesInv, ServicesTypeOK
<1>6. CASE UNCHANGED serviceVars
  BY <1>6 DEF serviceVars, ServicesInv, ServicesTypeOK, InTurn
<1>. QED BY <1>1, <1>2, <1>3, <1>4, <1>5, <1>6 DEF ServicesNext

\* They hold in every reachable state.
LEMMA ServicesInvariant == ServicesSpec => []ServicesInv
<1>1. ServicesInit => ServicesInv
  <2>. SUFFICES ASSUME ServicesInit PROVE ServicesInv
    OBVIOUS
  <2>1. NoTask \in Task /\ \A t \in Threads : task[t] = NoTask
    BY DEF ServicesInit, NoTask, Task
  <2>2. ServicesTypeOK
    BY <2>1, ServicesAssumption DEF ServicesInit, ServicesTypeOK, ShipStates
  <2>. QED BY <2>1, <2>2 DEF ServicesInv, InTurn, NoTask
<1>. QED BY <1>1, ServicesInductive, PTL DEF ServicesSpec

\* Two requests that wait for each other would have to hold, both, the player's entry
\* and not yet the ship's; they take the ship's first.
LEMMA OneOrder == ServicesInv => RequestsNeverEmbrace
<1>. SUFFICES ASSUME ServicesInv, NEW t \in Requests, NEW u \in Requests,
                     WaitsFor(t, u), WaitsFor(u, t)
              PROVE  FALSE
  BY DEF RequestsNeverEmbrace, Threads
<1>1. InTurn(t) /\ InTurn(u) /\ t # Loop /\ u # Loop
  BY ServicesAssumption DEF ServicesInv, Threads
<1>2. First(task[t].op) = "ship" /\ First(task[u].op) = "ship"
  BY <1>1 DEF InTurn, First
<1>3. task[t].held = {"ship"} /\ task[u].held = {"ship"}
  BY <1>1, <1>2 DEF WaitsFor, Holds, InTurn
<1>4. Wanted(t) = "player"
  BY <1>2, <1>3 DEF Wanted, Other
<1>. QED BY <1>3, <1>4 DEF WaitsFor, Holds

\* Requests never embrace, and supplies come to docked ships only.
THEOREM StationsInOrder == ServicesSpec => []RequestsNeverEmbrace /\ ServedWhileDocked
<1>1. ServicesInv /\ [ServicesNext]_serviceVars =>
        [\A p \in Pilots : lacks[p] \ lacks'[p] # {} => ship[p] \in Stations]_serviceVars
  <2>. SUFFICES ASSUME ServicesInv, ServicesNext, NEW p \in Pilots, lacks[p] \ lacks'[p] # {}
                PROVE  ship[p] \in Stations
    OBVIOUS
  <2>1. ASSUME NEW t \in Threads, Serve(t) PROVE ship[p] \in Stations
    BY <2>1 DEF Serve, ServicesInv, ServicesTypeOK
  <2>2. ASSUME NEW q \in Pilots, NEW S, lacks' = [lacks EXCEPT ![q] = @ \union S] PROVE FALSE
    BY <2>2 DEF ServicesInv, ServicesTypeOK
  <2>3. CASE UNCHANGED lacks
    BY <2>3
  <2>4. ASSUME NEW q \in Pilots, NEW what, Use(q, what) PROVE FALSE
    BY <2>2, <2>4 DEF Use
  <2>5. ASSUME NEW q \in Pilots, NEW o, EndCombat(q, o) PROVE FALSE
    BY <2>5 DEF EndCombat, ServicesInv, ServicesTypeOK
  <2>. QED BY <2>1, <2>3, <2>4, <2>5
       DEF ServicesNext, Dock, Undock, Engage, Begin, Take, GiveUp, Refuse
<1>. QED BY <1>1, OneOrder, ServicesInvariant, PTL
         DEF ServicesSpec, StationsServe, ServedWhileDocked
-----------------------------------------------------------------------------
(***************************************************************************)
(* The sector.  Its parts share no variable, so a behaviour of WorldSpec,  *)
(* which moves one of them, is a behaviour of each: what was proved of the *)
(* parts holds of what the run World checks.                               *)
(***************************************************************************)


\* A step of one part leaves the others where they are.
LEMMA WorldSteps ==
    [WorldNext]_worldVars =>
        /\ [Next]_vars /\ [CombatNext]_combatVars /\ [MissionsNext]_missionVars
        /\ [ServicesNext]_serviceVars /\ [BasesNext]_baseVars /\ [RulesNext]_rulesVars
        /\ UNCHANGED component
BY DEF WorldNext, worldVars

\* A behaviour of the sector is one of each part.
LEMMA WorldRunsItsParts ==
    WorldSpec => Spec /\ CombatSpec /\ MissionsSpec /\ ServicesSpec /\ BasesSpec /\ RulesSpec
BY WorldSteps, PTL
   DEF WorldSpec, WorldInit, Spec, CombatSpec, MissionsSpec, ServicesSpec, BasesSpec, RulesSpec

\* A run is about one of the parts.
SomePart == component \in {"squadrons", "combat", "missions", "services", "bases", "rules"}

\* The types of all that goes on in a sector, for any number of players, squadrons,
\* ships, engagements and missions.
THEOREM WorldTypes == WorldSpec => []WorldTypeOK
<1>1. WorldSpec => []SomePart
  <2>1. WorldInit => SomePart
    BY DEF WorldInit, SomePart
  <2>2. SomePart /\ [WorldNext]_worldVars => SomePart'
    BY DEF WorldNext, worldVars, SomePart
  <2>. QED BY <2>1, <2>2, PTL DEF WorldSpec
<1>2. ServicesInv => ServicesTypeOK
  BY DEF ServicesInv
<1>3. CombatInv => CombatTypeOK
  BY DEF CombatInv
<1>4. SomePart /\ TypeOK /\ CombatTypeOK /\ MissionsTypeOK /\ ServicesTypeOK /\ BasesTypeOK
        /\ RulesTypeOK => WorldTypeOK
  <2>. SUFFICES ASSUME SomePart, TypeOK, CombatTypeOK, MissionsTypeOK, ServicesTypeOK, BasesTypeOK,
                       RulesTypeOK
                PROVE  WorldTypeOK
    OBVIOUS
  <2>1. CASE component = "squadrons"
    BY <2>1, Zenon DEF WorldTypeOK
  <2>2. CASE component = "combat"
    BY <2>2, Zenon DEF WorldTypeOK
  <2>3. CASE component = "missions"
    BY <2>3, Zenon DEF WorldTypeOK
  <2>4. CASE component = "services"
    BY <2>4, Zenon DEF WorldTypeOK
  <2>5. CASE component = "bases"
    BY <2>5, Zenon DEF WorldTypeOK
  <2>6. CASE component = "rules"
    BY <2>6, Zenon DEF WorldTypeOK
  <2>. QED BY <2>1, <2>2, <2>3, <2>4, <2>5, <2>6 DEF SomePart
<1>. QED BY <1>1, <1>2, <1>3, <1>4, WorldRunsItsParts, SquadronTypes, CombatInvariant, MissionTypes,
            ServicesInvariant, PaidOnce, RulesTypes, PTL

\* Squadrons build what they pay for, by right, and the rules for PvP are one.
THEOREM WorldBases == WorldSpec => []BasesHold
<1>1. PaidIsBuilt /\ BuiltByRight /\ RulesAgree => BasesHold
  BY DEF BasesHold
<1>. QED BY <1>1, WorldRunsItsParts, PaidOnce, BuiltRightfully, RulesAreOne, PTL

\* The other invariants of the run World.
THEOREM WorldInvariants ==
    WorldSpec => [](RolesWithinMembers /\ ActorsAreListed /\ StatusNamesEngagement)
BY WorldRunsItsParts, SquadronRoles, SquadronActors, ShipsNameTheirEngagement, PTL

\* Its action and temporal properties.
THEOREM WorldProperties == WorldSpec => CombatKeepsRecords /\ MissionsStayTaken /\ StationsServe
BY WorldRunsItsParts, CombatRecords, MissionsAreKept, StationsInOrder, PTL
   DEF CombatKeepsRecords, LoopRaisesNoWreck, FledEngagementStays, MissionsStayTaken,
       StationsServe, ServedWhileDocked
=============================================================================

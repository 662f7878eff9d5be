----------------------------- MODULE SectorControl -----------------------------
(***************************************************************************)
(* Wars, alliances and the control of sectors between squadrons, from      *)
(* simulation/squadron_manager.rs.  Control is recorded twice: a sector    *)
(* names its controlling squadron, a squadron lists the sectors it         *)
(* patrols; a contest for a sector is a third record, which names the      *)
(* squadron that held the sector when the contest began.                   *)
(*                                                                         *)
(* A squadron acts through its leader or an officer (module Squadron says  *)
(* who that is), one operation at a time.  Players, reputation, structures *)
(* and the switches for war games and privateering are left out.           *)
(***************************************************************************)
EXTENDS Integers, FiniteSets

CONSTANTS
    Squadrons, Sectors,
    None,        \* no squadron
    Presence,    \* numbers of own ships a squadron may have in a sector
    MaxProposals \* bound: alliance proposals pending at once

ASSUME SectorAssumption ==
    /\ None \notin Squadrons
    /\ Presence \subseteq Nat
    /\ MaxProposals \in Nat

FirstClaim == 10     \* attacker_influence of a new contest
Victory    == 100    \* attacker_influence that wins it

Contest   == [def : Squadrons, att : Squadrons, influence : FirstClaim .. Victory - 1]
NoContest == [def |-> None, att |-> None, influence |-> 0]

VARIABLES
    exists, created,       \* keys of GameState::squadrons, identifiers ever used
    hostile, allied,       \* hostile_squadrons and allied_squadrons of each squadron
    patrol,                \* patrol_sectors of each squadron
    proposal,              \* pending_alliances: per squadron, who proposes to it
    controller,            \* controlling_squadron of each sector
    contest                \* contested_sectors

relations == <<hostile, allied, proposal>>
control   == <<patrol, controller, contest>>
vars == <<exists, created, hostile, allied, patrol, proposal, controller, contest>>

Init ==
    /\ exists = {} /\ created = {}
    /\ hostile = [q \in Squadrons |-> {}]
    /\ allied = [q \in Squadrons |-> {}]
    /\ patrol = [q \in Squadrons |-> {}]
    /\ proposal = [q \in Squadrons |-> None]
    /\ controller = [s \in Sectors |-> None]
    /\ contest = [s \in Sectors |-> NoContest]

-----------------------------------------------------------------------------
Found(q) ==
    /\ q \notin created
    /\ exists' = exists \union {q}
    /\ created' = created \union {q}
    /\ UNCHANGED <<relations, control>>

\* The leader, alone, leaves: the entry goes, every mention of it elsewhere stays.
Disband(q) ==
    /\ q \in exists
    /\ exists' = exists \ {q}
    /\ UNCHANGED <<created, relations, control>>

\* Mutant of TurnHostile: the alliance stays.
TurnHostileOnly(q, r) ==
    /\ hostile' = [hostile EXCEPT ![q] = @ \union {r}]
    /\ UNCHANGED allied

\* Squadron::declare_war: one side only.
TurnHostile(q, r) ==
    /\ hostile' = [hostile EXCEPT ![q] = @ \union {r}]
    /\ allied' = [allied EXCEPT ![q] = @ \ {r}]

\* Mutant of DeclareWar: the target is not looked up.
DeclareWarBlindly(q, r) ==
    /\ q \in exists /\ r \in created /\ q # r
    /\ TurnHostile(q, r)
    /\ UNCHANGED <<exists, created, proposal, control>>

DeclareWar(q, r) ==
    /\ q \in exists /\ r \in exists /\ q # r
    /\ TurnHostile(q, r)
    /\ UNCHANGED <<exists, created, proposal, control>>

\* The enemy need not exist any more.
MakePeace(q, r) ==
    /\ q \in exists
    /\ r \in hostile[q]
    /\ hostile' = [hostile EXCEPT ![q] = @ \ {r}]
    /\ UNCHANGED <<exists, created, allied, proposal, control>>

ProposeAlliance(q, r) ==
    /\ q \in exists /\ r \in exists /\ q # r
    /\ r \notin allied[q]
    /\ proposal[r] = None
    /\ Cardinality({x \in Squadrons : proposal[x] # None}) < MaxProposals
    /\ proposal' = [proposal EXCEPT ![r] = q]
    /\ UNCHANGED <<exists, created, hostile, allied, control>>

\* Both ways, for whichever of the two still exists.
AcceptAlliance(r) ==
    LET q     == proposal[r]
        Other == [x \in {q, r} |-> IF x = q THEN r ELSE q]
        Both  == {q, r} \intersect exists
    IN  /\ r \in exists
        /\ q # None
        /\ proposal' = [proposal EXCEPT ![r] = None]
        /\ allied' = [x \in Squadrons |->
                        IF x \in Both THEN allied[x] \union {Other[x]} ELSE allied[x]]
        /\ hostile' = [x \in Squadrons |->
                        IF x \in Both THEN hostile[x] \ {Other[x]} ELSE hostile[x]]
        /\ UNCHANGED <<exists, created, control>>

\* Declined, or answered under an id that is not the pending proposal's.
DropProposal(r) ==
    /\ r \in exists
    /\ proposal[r] # None
    /\ proposal' = [proposal EXCEPT ![r] = None]
    /\ UNCHANGED <<exists, created, hostile, allied, control>>

-----------------------------------------------------------------------------
(***************************************************************************)
(* claim_sector_control and release_sector_control.                        *)
(***************************************************************************)

\* Nobody controls the sector.  A contest that is still recorded stays.
ClaimFree(q, s) ==
    /\ q \in exists
    /\ controller[s] = None
    /\ controller' = [controller EXCEPT ![s] = q]
    /\ patrol' = [patrol EXCEPT ![q] = @ \union {s}]
    /\ UNCHANGED <<exists, created, relations, contest>>

\* Mutant of MayContest: the squadrons need not be at war.
MayContestAnyone(q, s) == q \in exists /\ controller[s] \notin {None, q}

\* Another squadron controls the sector and q is at war with it.
MayContest(q, s) ==
    /\ q \in exists
    /\ controller[s] \notin {None, q}
    /\ controller[s] \in hostile[q]

\* Mutant of Wins.
WinsAbove(influence) == influence > Victory

Wins(influence) == influence >= Victory

StartContest(q, s) ==
    /\ MayContest(q, s)
    /\ contest[s] = NoContest
    /\ contest' = [contest EXCEPT ![s] =
                     [def |-> controller[s], att |-> q, influence |-> FirstClaim]]
    /\ UNCHANGED <<exists, created, relations, patrol, controller>>

\* A contest is recorded, whoever began it: the caller's n ships count for it.
Press(q, s, n) ==
    /\ MayContest(q, s)
    /\ contest[s] # NoContest
    /\ ~Wins(contest[s].influence + n)
    /\ contest' = [contest EXCEPT ![s].influence = @ + n]
    /\ UNCHANGED <<exists, created, relations, patrol, controller>>

\* Mutant of HandOver: the list of the victor is not extended.
HandOverSectorOnly(q, s) ==
    /\ controller' = [controller EXCEPT ![s] = q]
    /\ patrol' = [patrol EXCEPT ![contest[s].def] = @ \ {s}]

\* The sector goes to q; the squadron the contest names as the defender strikes it
\* off its list, if it exists, and q enters it.
HandOver(q, s) ==
    LET def    == contest[s].def
        struck == IF def \in exists THEN [patrol EXCEPT ![def] = @ \ {s}] ELSE patrol
    IN  /\ controller' = [controller EXCEPT ![s] = q]
        /\ patrol' = [struck EXCEPT ![q] = @ \union {s}]

Capture(q, s, n) ==
    /\ MayContest(q, s)
    /\ contest[s] # NoContest
    /\ Wins(contest[s].influence + n)
    /\ HandOver(q, s)
    /\ contest' = [contest EXCEPT ![s] = NoContest]
    /\ UNCHANGED <<exists, created, relations>>

\* A contest that is recorded stays, with the squadron that gave the sector up.
Release(q, s) ==
    /\ q \in exists
    /\ controller[s] = q
    /\ controller' = [controller EXCEPT ![s] = None]
    /\ patrol' = [patrol EXCEPT ![q] = @ \ {s}]
    /\ UNCHANGED <<exists, created, relations, contest>>

Diplomacy(q) ==
    \/ Found(q) \/ Disband(q) \/ AcceptAlliance(q) \/ DropProposal(q)
    \/ \E r \in Squadrons : DeclareWar(q, r) \/ MakePeace(q, r) \/ ProposeAlliance(q, r)

Territory(q, s) ==
    \/ ClaimFree(q, s) \/ StartContest(q, s) \/ Release(q, s)
    \/ \E n \in Presence : Press(q, s, n) \/ Capture(q, s, n)

Next ==
    \E q \in Squadrons : Diplomacy(q) \/ (\E s \in Sectors : Territory(q, s))

Spec == Init /\ [][Next]_vars

-----------------------------------------------------------------------------
TypeOK ==
    /\ exists \subseteq created /\ created \subseteq Squadrons
    /\ hostile \in [Squadrons -> SUBSET created]
    /\ allied \in [Squadrons -> SUBSET created]
    /\ patrol \in [Squadrons -> SUBSET Sectors]
    /\ proposal \in [Squadrons -> created \union {None}]
    /\ controller \in [Sectors -> created \union {None}]
    /\ contest \in [Sectors -> Contest \union {NoContest}]

\* The squadron a sector names, as long as it exists, lists the sector: a contest
\* that outlives releases, new claims and the defender itself never leaves the
\* victor, or a squadron that took a free sector, without its sector.
ControllerPatrols ==
    \A s \in Sectors : controller[s] \in exists => s \in patrol[controller[s]]

\* Nobody is an ally and an enemy of the same squadron at once, through one-sided
\* declarations, one-sided peace and alliances accepted after a war was declared.
NeverAllyAndEnemy == \A q \in Squadrons : allied[q] \intersect hostile[q] = {}

\* A sector changes hands only by war: it passes straight from one squadron to
\* another only when the taker is at war with the one that controls it now, whoever
\* the recorded contest was begun against.
TakenByWar ==
    [][\A s \in Sectors :
          controller[s] # None /\ controller'[s] \notin {None, controller[s]}
             => controller[s] \in hostile[controller'[s]]]_vars

\* A sector whose controller disbanded while no squadron was at war with it: a war is
\* declared on a squadron that exists.
Orphan(s) ==
    /\ controller[s] \in created \ exists
    /\ \A q \in exists : controller[s] \notin hostile[q]

\* Such a sector is lost to the game: no operation ever frees or transfers it, not
\* even for a squadron that is founded later.
OrphanForever ==
    [][\A s \in Sectors :
          Orphan(s) => Orphan(s)' /\ controller'[s] = controller[s]]_vars

\* "Patrol sectors the squadron controls".  A contest that outlives the defender's
\* control strikes the sector off the wrong list.
PatrolIsControlled ==
    \A q \in exists : \A s \in patrol[q] : controller[s] = q
=============================================================================

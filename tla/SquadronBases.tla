----------------------------- MODULE SquadronBases -----------------------------
(***************************************************************************)
(* What squadrons build (build_structure in bw-runtime's                   *)
(* simulation/squadron_manager.rs): a structure is paid with the builder's *)
(* reputation under the guards of the checks and put into the sector after *)
(* these are released; between the two the squadron may disband, or lose   *)
(* the sector or the builder, and a script may destroy the sector.         *)
(* Membership and control are those of modules Squadron and SectorControl, *)
(* reduced to the fields that matter here.                                 *)
(***************************************************************************)
EXTENDS Integers, Sequences, FiniteSets

CONSTANTS
    Builders,       \* players
    Houses,         \* squadrons
    NoBuilder,      \* the leader of a squadron not founded yet
    NoHouse,        \* in no squadron; the sector is controlled by none
    Unknown,        \* the name given when the squadron is gone
    NotBuilding,    \* a player who builds nothing
    Purse           \* the reputation a player starts with

ASSUME PurseAssumption == Purse \in Nat
ASSUME HouseAssumption ==
    NoBuilder \notin Builders /\ NoHouse \notin Houses \cup {Unknown}

VARIABLES
    houseOf,        \* squadron_id of each player
    head,           \* leader_id of each squadron
    aides,          \* officers of each squadron
    standing,       \* keys of GameState::squadrons
    lord,           \* controlling_squadron of the sector
    charted,        \* the sector exists
    purse,          \* reputation of each player
    site,           \* the structure each player has paid for, on its way
    built,          \* locations and ships in the sector, as they came
    rights          \* squadrons that ever controlled the sector (history)

baseVars == <<houseOf, head, aides, standing, lord, charted, purse, site, built,
              rights>>

\* An outpost stands for station and shipyard, which need control of the sector
\* too; a patrol ship for the defense ship.
Structures == {"outpost", "patrol"}
CreationCost == 1
BuildCost(kind) == IF kind = "outpost" THEN 2 ELSE 1
Sites == [kind: Structures, house: Houses, name: Houses \cup {NoHouse, Unknown}]

ASSUME SiteAssumption == NotBuilding \notin Sites

\* Type correctness: a reputation is never negative.
BasesTypeOK ==
    /\ houseOf \in [Builders -> Houses \cup {NoHouse}]
    /\ head \in [Houses -> Builders \cup {NoBuilder}] /\ aides \in [Houses -> SUBSET Builders]
    /\ standing \subseteq Houses
    /\ lord \in Houses \cup {NoHouse} /\ charted \in BOOLEAN
    /\ purse \in [Builders -> 0..Purse]
    /\ site \in [Builders -> Sites \cup {NotBuilding}]
    /\ built \in Seq([site : Sites, by : Builders])
    /\ rights \subseteq Houses

BasesInit ==
    /\ houseOf = [p \in Builders |-> NoHouse]
    /\ head = [h \in Houses |-> NoBuilder]
    /\ aides = [h \in Houses |-> {}]
    /\ standing = {}
    /\ lord = NoHouse /\ charted = TRUE
    /\ purse = [p \in Builders |-> Purse]
    /\ site = [p \in Builders |-> NotBuilding]
    /\ built = <<>> /\ rights = {}

MayManage(p, h) == h \in standing /\ (head[h] = p \/ p \in aides[h])

-----------------------------------------------------------------------------
(* Buildings *)

SamePeople == UNCHANGED <<houseOf, head, aides, standing, lord, rights>>

\* Mutant of MayBuild: outposts are built anywhere.
MayBuildAnywhere(p, kind) == MayManage(p, houseOf[p]) /\ charted

\* The checks of build_structure.
MayBuild(p, kind) ==
    /\ MayManage(p, houseOf[p])
    /\ charted
    /\ kind = "outpost" => lord = houseOf[p]

\* spend_reputation.
Spend(p, cost) == purse[p] >= cost /\ purse' = [purse EXCEPT ![p] = @ - cost]

\* The player's guard is held from the checks to the payment.
PayForStructure(p, kind) ==
    /\ site[p] = NotBuilding
    /\ MayBuild(p, kind)
    /\ Spend(p, BuildCost(kind))
    /\ site' = [site EXCEPT ![p] = [kind |-> kind, house |-> houseOf[p], name |-> NoHouse]]
    /\ UNCHANGED <<charted, built>> /\ SamePeople

\* The squadron is looked up again for its name.
NameStructure(p) ==
    /\ site[p] # NotBuilding /\ site[p].name = NoHouse
    /\ site' = [site EXCEPT ![p].name =
            IF site[p].house \in standing THEN site[p].house ELSE Unknown]
    /\ UNCHANGED <<charted, purse, built>> /\ SamePeople

\* The sector is looked up again: the structure is put into it, or there is none
\* and what was paid is lost.
PlaceStructure(p) ==
    /\ site[p] # NotBuilding /\ site[p].name # NoHouse
    /\ built' = IF charted THEN Append(built, [site |-> site[p], by |-> p]) ELSE built
    /\ site' = [site EXCEPT ![p] = NotBuilding]
    /\ UNCHANGED <<charted, purse>> /\ SamePeople

-----------------------------------------------------------------------------
(* What happens to squadrons and to the sector meanwhile *)

SameBuildings == UNCHANGED <<charted, purse, site, built>>

\* create_squadron.
FoundHouse(p, h) ==
    /\ houseOf[p] = NoHouse /\ head[h] = NoBuilder
    /\ Spend(p, CreationCost)
    /\ houseOf' = [houseOf EXCEPT ![p] = h]
    /\ head' = [head EXCEPT ![h] = p]
    /\ standing' = standing \cup {h}
    /\ UNCHANGED <<aides, lord, rights, charted, site, built>>

\* An invitation is accepted.
JoinHouse(p, h) ==
    /\ houseOf[p] = NoHouse /\ h \in standing
    /\ houseOf' = [houseOf EXCEPT ![p] = h]
    /\ UNCHANGED <<head, aides, standing, lord, rights>> /\ SameBuildings

\* leave_squadron: a member goes; a leader only as the last one, and the squadron
\* is removed.
LeaveHouse(p, h) ==
    /\ houseOf[p] = h /\ h \in standing
    /\ head[h] = p => \A q \in Builders \ {p} : houseOf[q] # h
    /\ houseOf' = [houseOf EXCEPT ![p] = NoHouse]
    /\ aides' = [aides EXCEPT ![h] = @ \ {p}]
    /\ standing' = IF head[h] = p THEN standing \ {h} ELSE standing
    /\ UNCHANGED <<head, lord, rights>> /\ SameBuildings

\* promote_to_officer.
MakeAide(p, h, q) ==
    /\ h \in standing /\ head[h] = p /\ q # p /\ houseOf[q] = h
    /\ aides' = [aides EXCEPT ![h] = @ \cup {q}]
    /\ UNCHANGED <<houseOf, head, standing, lord, rights>> /\ SameBuildings

\* The sector is claimed or captured by any squadron, or released.
PassSector(h) ==
    /\ h \in (standing \cup {NoHouse}) \ {lord}
    /\ lord' = h
    /\ rights' = rights \cup ({h} \ {NoHouse})
    /\ UNCHANGED <<houseOf, head, aides, standing>> /\ SameBuildings

\* A script's destroy_entity removes the sector.
DestroySite ==
    /\ charted /\ charted' = FALSE
    /\ UNCHANGED <<purse, site, built>> /\ SamePeople

BasesNext ==
    \/ \E p \in Builders :
        \/ NameStructure(p) \/ PlaceStructure(p)
        \/ \E kind \in Structures : PayForStructure(p, kind)
        \/ \E h \in Houses : \/ FoundHouse(p, h) \/ JoinHouse(p, h) \/ LeaveHouse(p, h)
                             \/ \E q \in Builders : MakeAide(p, h, q)
    \/ \E h \in Houses \cup {NoHouse} : PassSector(h)
    \/ DestroySite

BasesSpec == BasesInit /\ [][BasesNext]_baseVars

-----------------------------------------------------------------------------
(* Properties *)

\* What one structure, or all those of a list, cost player p.
Share(p, b) == IF b.by = p THEN BuildCost(b.site.kind) ELSE 0

Worth(p, list) ==
    LET upto[i \in 0 .. Len(list)] ==
            IF i = 0 THEN 0 ELSE upto[i - 1] + Share(p, list[i])
    IN  upto[Len(list)]

\* What a player's squadrons and structures cost, and the one on its way.
Spent(p) ==
    Worth(p, built)
        + (IF site[p] = NotBuilding THEN 0 ELSE BuildCost(site[p].kind))
        + CreationCost * Cardinality({h \in Houses : head[h] = p})

\* A player has paid for squadrons founded and for what stands in the sector, once,
\* and for nothing else, unless the sector was destroyed under it (build_structure).
PaidIsBuilt ==
    \A p \in Builders : /\ purse[p] + Spent(p) <= Purse
                        /\ charted => purse[p] + Spent(p) = Purse

\* Whatever changes between payment and placing, an outpost is only ever built
\* where its squadron had control, and under the squadron's name unless it is gone.
BuiltByRight ==
    \A i \in DOMAIN built :
        LET s == built[i].site
        IN  /\ s.kind = "outpost" => s.house \in rights
            /\ s.name # s.house => s.name = Unknown /\ s.house \notin standing
=============================================================================

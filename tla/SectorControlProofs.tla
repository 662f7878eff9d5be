--------------------------- MODULE SectorControlProofs ---------------------------
(***************************************************************************)
(* The properties of SectorControl for any squadrons, sectors, numbers of  *)
(* ships and pending proposals.  The three invariants are inductive with   *)
(* two more facts: a squadron that is yet to be founded has no enemies,    *)
(* without which an orphaned sector could be conquered by it, and the      *)
(* types, which keep such a squadron out of every record.                  *)
(***************************************************************************)
EXTENDS SectorControl, TLAPS

USE SectorAssumption

\* A squadron that is yet to be founded is at war with nobody.
NoEnemiesYet == \A q \in Squadrons \ created : hostile[q] = {}

IInv == TypeOK /\ ControllerPatrols /\ NeverAllyAndEnemy /\ NoEnemiesYet

\* Nothing is controlled and nobody is at war at the start.
LEMMA InitIInv == Init => IInv
BY DEF Init, IInv, TypeOK, ControllerPatrols, NeverAllyAndEnemy, NoEnemiesYet, Contest, NoContest

\* What founding, disbanding and diplomacy keep.
LEMMA DiplomacyStep ==
    ASSUME IInv, NEW q \in Squadrons, Diplomacy(q)
    PROVE  IInv'
<1>. USE DEF relations, control
<1>1. CASE Found(q)
  BY <1>1 DEF Found, IInv, TypeOK, ControllerPatrols, NeverAllyAndEnemy, NoEnemiesYet
<1>2. CASE Disband(q)
  BY <1>2 DEF Disband, IInv, TypeOK, ControllerPatrols, NeverAllyAndEnemy, NoEnemiesYet
<1>3. CASE AcceptAlliance(q)
  <2>. DEFINE p == proposal[q]
              Both == {p, q} \intersect exists
              Other == [x \in {p, q} |-> IF x = p THEN q ELSE p]
  <2>1. p \in created /\ q \in created /\ created \subseteq Squadrons
    BY <1>3 DEF AcceptAlliance, IInv, TypeOK
  <2>2. \A x \in Both : x \in Squadrons /\ Other[x] \in created
    BY <2>1
  <2>3. /\ allied' = [x \in Squadrons |->
                        IF x \in Both THEN allied[x] \union {Other[x]} ELSE allied[x]]
        /\ hostile' = [x \in Squadrons |->
                        IF x \in Both THEN hostile[x] \ {Other[x]} ELSE hostile[x]]
        /\ proposal' = [proposal EXCEPT ![q] = None]
        /\ UNCHANGED <<exists, created, patrol, controller, contest>>
    BY <1>3 DEF AcceptAlliance
  <2>. HIDE DEF p, Both, Other
  <2>4. TypeOK'
    <3>1. allied' \in [Squadrons -> SUBSET created]
      BY <2>2, <2>3 DEF IInv, TypeOK
    <3>2. hostile' \in [Squadrons -> SUBSET created]
      BY <2>2, <2>3 DEF IInv, TypeOK
    <3>. QED BY <2>3, <3>1, <3>2 DEF IInv, TypeOK
  <2>5. NeverAllyAndEnemy'
    BY <2>2, <2>3 DEF IInv, TypeOK, NeverAllyAndEnemy
  <2>6. ControllerPatrols' /\ NoEnemiesYet'
    BY <2>2, <2>3 DEF IInv, TypeOK, ControllerPatrols, NoEnemiesYet
  <2>. QED BY <2>4, <2>5, <2>6 DEF IInv
<1>4. CASE DropProposal(q)
  BY <1>4 DEF DropProposal, IInv, TypeOK, ControllerPatrols, NeverAllyAndEnemy, NoEnemiesYet
<1>5. ASSUME NEW r \in Squadrons, DeclareWar(q, r) PROVE IInv'
  BY <1>5 DEF DeclareWar, TurnHostile, IInv, TypeOK, ControllerPatrols, NeverAllyAndEnemy,
              NoEnemiesYet
<1>6. ASSUME NEW r \in Squadrons, MakePeace(q, r) PROVE IInv'
  BY <1>6 DEF MakePeace, IInv, TypeOK, ControllerPatrols, NeverAllyAndEnemy, NoEnemiesYet
<1>7. ASSUME NEW r \in Squadrons, ProposeAlliance(q, r) PROVE IInv'
  BY <1>7 DEF ProposeAlliance, IInv, TypeOK, ControllerPatrols, NeverAllyAndEnemy, NoEnemiesYet
<1>. QED BY <1>1, <1>2, <1>3, <1>4, <1>5, <1>6, <1>7 DEF Diplomacy

\* What claims, contests and releases keep.
LEMMA TerritoryStep ==
    ASSUME IInv, NEW q \in Squadrons, NEW s \in Sectors, Territory(q, s)
    PROVE  IInv'
<1>. USE DEF relations
<1>1. CASE ClaimFree(q, s)
  BY <1>1 DEF ClaimFree, IInv, TypeOK, ControllerPatrols, NeverAllyAndEnemy, NoEnemiesYet
<1>2. CASE StartContest(q, s)
  <2>1. [def |-> controller[s], att |-> q, influence |-> FirstClaim] \in Contest
    BY <1>2 DEF StartContest, MayContest, IInv, TypeOK, Contest, FirstClaim, Victory
  <2>. QED
    BY <1>2, <2>1 DEF StartContest, IInv, TypeOK, ControllerPatrols, NeverAllyAndEnemy,
                      NoEnemiesYet
<1>3. CASE Release(q, s)
  BY <1>3 DEF Release, IInv, TypeOK, ControllerPatrols, NeverAllyAndEnemy, NoEnemiesYet
<1>4. ASSUME NEW n \in Presence, Press(q, s, n) PROVE IInv'
  <2>1. contest[s] \in Contest
    BY <1>4 DEF Press, IInv, TypeOK
  <2>2. [contest[s] EXCEPT !.influence = @ + n] \in Contest
    BY <1>4, <2>1 DEF Press, Wins, Contest, FirstClaim, Victory
  <2>3. contest' \in [Sectors -> Contest \union {NoContest}]
    BY <1>4, <2>2 DEF Press, IInv, TypeOK
  <2>. QED
    BY <1>4, <2>3 DEF Press, IInv, TypeOK, ControllerPatrols, NeverAllyAndEnemy, NoEnemiesYet
<1>5. ASSUME NEW n \in Presence, Capture(q, s, n) PROVE IInv'
  <2>1. contest[s].def \in Squadrons /\ q \in exists
    BY <1>5 DEF Capture, MayContest, IInv, TypeOK, Contest
  <2>2. TypeOK'
    BY <1>5, <2>1 DEF Capture, HandOver, IInv, TypeOK
  <2>3. ControllerPatrols'
    BY <1>5, <2>1 DEF Capture, HandOver, IInv, TypeOK, ControllerPatrols
  <2>. QED BY <1>5, <2>2, <2>3 DEF Capture, IInv, NeverAllyAndEnemy, NoEnemiesYet
<1>. QED BY <1>1, <1>2, <1>3, <1>4, <1>5 DEF Territory

\* Every step keeps the four together.
LEMMA NextIInv == IInv /\ [Next]_vars => IInv'
<1>. SUFFICES ASSUME IInv, [Next]_vars PROVE IInv'
  OBVIOUS
<1>1. CASE Next
  BY <1>1, DiplomacyStep, TerritoryStep DEF Next
<1>2. CASE UNCHANGED vars
  BY <1>2 DEF vars, IInv, TypeOK, ControllerPatrols, NeverAllyAndEnemy, NoEnemiesYet
<1>. QED BY <1>1, <1>2

\* The four hold in every reachable state.
LEMMA Inductive == Spec => []IInv
<1>. QED BY InitIInv, NextIInv, PTL DEF Spec

-----------------------------------------------------------------------------
\* No step of diplomacy touches a sector.
LEMMA DiplomacyKeepsSectors ==
    ASSUME NEW q \in Squadrons, Diplomacy(q)
    PROVE  controller' = controller
BY DEF Diplomacy, Found, Disband, AcceptAlliance, DropProposal, DeclareWar, MakePeace,
       ProposeAlliance, control

\* A territorial step changes one sector, from or to nobody or by war.
LEMMA HandsChange ==
    ASSUME IInv, NEW q \in Squadrons, NEW s \in Sectors, Territory(q, s),
           NEW t \in Sectors, controller'[t] # controller[t]
    PROVE  \/ controller[t] = None
           \/ controller'[t] = None /\ controller[t] \in exists
           \/ controller'[t] = q /\ q \in exists /\ controller[t] \in hostile[q]
<1>1. CASE ClaimFree(q, s)
  BY <1>1 DEF ClaimFree, IInv, TypeOK
<1>2. CASE StartContest(q, s)
  BY <1>2 DEF StartContest
<1>3. CASE Release(q, s)
  BY <1>3 DEF Release, IInv, TypeOK
<1>4. ASSUME NEW n \in Presence, Press(q, s, n) PROVE FALSE
  BY <1>4 DEF Press
<1>5. ASSUME NEW n \in Presence, Capture(q, s, n)
      PROVE  controller'[t] = q /\ q \in exists /\ controller[t] \in hostile[q]
  BY <1>5 DEF Capture, MayContest, HandOver, IInv, TypeOK
<1>. QED BY <1>1, <1>2, <1>3, <1>4, <1>5 DEF Territory

\* The taker of a controlled sector is at war with its controller.
LEMMA TakenByWarStep ==
    ASSUME IInv, [Next]_vars, NEW s \in Sectors,
           controller[s] # None, controller'[s] \notin {None, controller[s]}
    PROVE  controller[s] \in hostile[controller'[s]]
<1>1. controller' # controller
  OBVIOUS
<1>2. PICK q \in Squadrons, t \in Sectors : Territory(q, t)
  BY <1>1, DiplomacyKeepsSectors DEF Next, vars
<1>. QED BY <1>2, HandsChange

\* A diplomatic step turns nobody on a squadron that is gone.
LEMMA NobodyTurnsOnGone ==
    ASSUME IInv, NEW q \in Squadrons, Diplomacy(q),
           NEW g \in created \ exists, \A x \in exists : g \notin hostile[x]
    PROVE  g \in created' \ exists' /\ \A x \in exists' : g \notin hostile'[x]
<1>. USE DEF relations, control
<1>1. CASE Found(q)
  BY <1>1 DEF Found, IInv, TypeOK, NoEnemiesYet
<1>2. CASE Disband(q)
  BY <1>2 DEF Disband
<1>3. CASE AcceptAlliance(q)
  <2>1. /\ UNCHANGED <<exists, created>>
        /\ \A x \in Squadrons : hostile'[x] \subseteq hostile[x]
    BY <1>3 DEF AcceptAlliance
  <2>. QED BY <2>1 DEF IInv, TypeOK
<1>4. CASE DropProposal(q)
  BY <1>4 DEF DropProposal
<1>5. ASSUME NEW r \in Squadrons, DeclareWar(q, r)
      PROVE  g \in created' \ exists' /\ \A x \in exists' : g \notin hostile'[x]
  BY <1>5 DEF DeclareWar, TurnHostile, IInv, TypeOK
<1>6. ASSUME NEW r \in Squadrons, MakePeace(q, r)
      PROVE  g \in created' \ exists' /\ \A x \in exists' : g \notin hostile'[x]
  BY <1>6 DEF MakePeace, IInv, TypeOK
<1>7. ASSUME NEW r \in Squadrons, ProposeAlliance(q, r)
      PROVE  g \in created' \ exists' /\ \A x \in exists' : g \notin hostile'[x]
  BY <1>7 DEF ProposeAlliance
<1>. QED BY <1>1, <1>2, <1>3, <1>4, <1>5, <1>6, <1>7 DEF Diplomacy

\* A territorial step changes no relation and founds or ends no squadron.
LEMMA TerritoryKeepsSquadrons ==
    ASSUME NEW q \in Squadrons, NEW s \in Sectors, Territory(q, s)
    PROVE  UNCHANGED <<exists, created, hostile>>
BY DEF Territory, ClaimFree, StartContest, Release, Press, Capture, relations

\* An orphaned sector keeps its controller and stays orphaned.
LEMMA OrphanStep ==
    ASSUME IInv, [Next]_vars, NEW s \in Sectors, Orphan(s)
    PROVE  Orphan(s)' /\ controller'[s] = controller[s]
<1>1. CASE UNCHANGED vars
  BY <1>1 DEF vars, Orphan
<1>2. ASSUME NEW q \in Squadrons, Diplomacy(q)
      PROVE  Orphan(s)' /\ controller'[s] = controller[s]
  <2>1. controller' = controller
    BY <1>2, DiplomacyKeepsSectors
  <2>2. controller[s] \in created' \ exists' /\ \A x \in exists' : controller[s] \notin hostile'[x]
    BY <1>2, NobodyTurnsOnGone DEF Orphan
  <2>. QED BY <2>1, <2>2 DEF Orphan
<1>3. ASSUME NEW q \in Squadrons, NEW t \in Sectors, Territory(q, t)
      PROVE  Orphan(s)' /\ controller'[s] = controller[s]
  <2>1. controller[s] # None
    BY DEF Orphan, IInv, TypeOK
  <2>2. controller'[s] = controller[s]
    BY <1>3, <2>1, HandsChange DEF Orphan
  <2>. QED BY <1>3, <2>2, TerritoryKeepsSquadrons DEF Orphan
<1>. QED BY <1>1, <1>2, <1>3 DEF Next

-----------------------------------------------------------------------------
\* The types of the records of control, wars and alliances; the influence of a
\* contest that goes on stays below the one that wins it.
THEOREM Types == Spec => []TypeOK
<1>. QED BY Inductive, PTL DEF IInv

\* Whoever controls a sector patrols it.
THEOREM Patrols == Spec => []ControllerPatrols
<1>. QED BY Inductive, PTL DEF IInv

\* An ally is no enemy.
THEOREM AlliesAreNoEnemies == Spec => []NeverAllyAndEnemy
<1>. QED BY Inductive, PTL DEF IInv

\* A sector passes from one squadron straight to another by war alone.
THEOREM WarAlone == Spec => TakenByWar
<1>1. IInv /\ [Next]_vars =>
        [\A s \in Sectors :
           controller[s] # None /\ controller'[s] \notin {None, controller[s]}
             => controller[s] \in hostile[controller'[s]]]_vars
  BY TakenByWarStep
<1>. QED BY <1>1, Inductive, PTL DEF Spec, TakenByWar

\* An orphaned sector is lost to the game.
THEOREM Orphans == Spec => OrphanForever
<1>1. IInv /\ [Next]_vars =>
        [\A s \in Sectors :
           Orphan(s) => Orphan(s)' /\ controller'[s] = controller[s]]_vars
  BY OrphanStep
<1>. QED BY <1>1, Inductive, PTL DEF Spec, OrphanForever
=============================================================================

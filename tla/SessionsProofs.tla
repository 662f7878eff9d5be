----------------------------- MODULE SessionsProofs -----------------------------
(***************************************************************************)
(* The properties of Sessions for any players, connections and sectors.    *)
(* GoneOwnsNothing is inductive with the types: whoever registers is not   *)
(* gone, and a connection goes out of the session it is found in.          *)
(***************************************************************************)
EXTENDS Sessions, TLAPS

USE SessionsAssumption

IInv == TypeOK /\ GoneOwnsNothing

\* Nobody is authenticated at the start.
LEMMA InitIInv == Init => IInv
BY DEF Init, IInv, TypeOK, GoneOwnsNothing, Gone

\* A new session is a session without a connection.
LEMMA LoginStep ==
    ASSUME IInv, NEW p \in Players, Login(p)
    PROVE  IInv'
<1>1. Home[p] \in Sectors
  OBVIOUS
<1>2. TypeOK'
  BY <1>1 DEF Login, NewSession, task, IInv, TypeOK
<1>3. GoneOwnsNothing'
  BY DEF Login, NewSession, task, IInv, TypeOK, GoneOwnsNothing, Gone
<1>. QED BY <1>2, <1>3 DEF IInv

\* What the steps of a connection that authenticates keep.
LEMMA AuthStep ==
    ASSUME IInv, NEW c \in Conns,
           \/ LoadFails(c) \/ Register(c) \/ Welcome(c) \/ WelcomeFails(c)
           \/ \E p \in Players : AuthCached(c, p) \/ AuthMiss(c, p) \/ Load(c, p)
    PROVE  IInv'
<1>. USE DEF task, Becomes
<1>1. CASE LoadFails(c)
  BY <1>1 DEF LoadFails, IInv, TypeOK, GoneOwnsNothing, Gone
<1>2. CASE Register(c)
  <2>1. playerOf[c] \in Players
    BY <1>2 DEF Register, IInv, TypeOK
  <2>2. TypeOK'
    BY <1>2, <2>1 DEF Register, IInv, TypeOK
  <2>3. GoneOwnsNothing'
    BY <1>2, <2>1 DEF Register, IInv, TypeOK, GoneOwnsNothing, Gone
  <2>. QED BY <2>2, <2>3 DEF IInv
<1>3. CASE Welcome(c)
  <2>1. playerOf[c] \in Players /\ sectorOf[c] \in Sectors
    BY <1>3 DEF Welcome, IInv, TypeOK
  <2>2. heard' \in [Sectors -> [Players -> Conns \union {NoConn}]]
    BY <1>3, <2>1 DEF Welcome, IInv, TypeOK
  <2>. QED BY <1>3, <2>2 DEF Welcome, IInv, TypeOK, GoneOwnsNothing, Gone
<1>4. ASSUME NEW p \in Players, AuthCached(c, p) PROVE IInv'
  <2>1. TypeOK'
    BY <1>4 DEF AuthCached, Authenticated, IInv, TypeOK
  <2>2. GoneOwnsNothing'
    BY <1>4 DEF AuthCached, Authenticated, IInv, TypeOK, GoneOwnsNothing, Gone
  <2>. QED BY <2>1, <2>2 DEF IInv
<1>5. ASSUME NEW p \in Players, AuthMiss(c, p) PROVE IInv'
  BY <1>5 DEF AuthMiss, IInv, TypeOK, GoneOwnsNothing, Gone
<1>6. ASSUME NEW p \in Players, Load(c, p) PROVE IInv'
  <2>1. Home[p] \in Sectors
    OBVIOUS
  <2>2. TypeOK'
    BY <1>6, <2>1 DEF Load, NewSession, Authenticated, IInv, TypeOK
  <2>3. GoneOwnsNothing'
    BY <1>6 DEF Load, NewSession, Authenticated, IInv, TypeOK, GoneOwnsNothing, Gone
  <2>. QED BY <2>2, <2>3 DEF IInv
<1>7. CASE WelcomeFails(c)
  BY <1>7 DEF WelcomeFails, IInv, TypeOK, GoneOwnsNothing, Gone
<1>. QED BY <1>1, <1>2, <1>3, <1>4, <1>5, <1>6, <1>7

\* What joining and leaving a sector keep.
LEMMA TravelStep ==
    ASSUME IInv, NEW c \in Conns,
           JoinArrive(c) \/ Leave(c) \/ (\E s \in Sectors : JoinDepart(c, s))
    PROVE  IInv'
<1>. USE DEF task, Becomes
<1>1. playerOf[c] \in Players /\ sectorOf[c] \in Sectors
  BY DEF JoinArrive, Leave, JoinDepart, IInv, TypeOK
<1>2. CASE JoinArrive(c)
  <2>1. target[c] \in Sectors
    BY <1>2 DEF JoinArrive, IInv, TypeOK
  <2>2. heard' \in [Sectors -> [Players -> Conns \union {NoConn}]]
    BY <1>1, <1>2, <2>1 DEF JoinArrive, IInv, TypeOK
  <2>3. listed' \in [Sectors -> SUBSET Players]
    BY <1>1, <1>2, <2>1 DEF JoinArrive, IInv, TypeOK
  <2>4. TypeOK'
    BY <1>1, <1>2, <2>1, <2>2, <2>3 DEF JoinArrive, IInv, TypeOK
  <2>5. GoneOwnsNothing'
    BY <1>2 DEF JoinArrive, IInv, TypeOK, GoneOwnsNothing, Gone
  <2>. QED BY <2>4, <2>5 DEF IInv
<1>3. CASE Leave(c)
  <2>1. heard' \in [Sectors -> [Players -> Conns \union {NoConn}]]
    BY <1>1, <1>3 DEF Leave, OutOf, IInv, TypeOK
  <2>2. listed' \in [Sectors -> SUBSET Players]
    BY <1>1, <1>3 DEF Leave, OutOf, IInv, TypeOK
  <2>. QED BY <1>3, <2>1, <2>2 DEF Leave, IInv, TypeOK, GoneOwnsNothing, Gone
<1>4. ASSUME NEW s \in Sectors, JoinDepart(c, s) PROVE IInv'
  <2>1. heard' \in [Sectors -> [Players -> Conns \union {NoConn}]]
    BY <1>1, <1>4 DEF JoinDepart, OutOf, IInv, TypeOK
  <2>2. listed' \in [Sectors -> SUBSET Players]
    BY <1>1, <1>4 DEF JoinDepart, OutOf, IInv, TypeOK
  <2>3. TypeOK'
    BY <1>1, <1>4, <2>1, <2>2 DEF JoinDepart, IInv, TypeOK
  <2>4. GoneOwnsNothing'
    BY <1>4 DEF JoinDepart, IInv, TypeOK, GoneOwnsNothing, Gone
  <2>. QED BY <2>3, <2>4 DEF IInv
<1>. QED BY <1>2, <1>3, <1>4

\* What the end of a connection keeps.
LEMMA CloseStep ==
    ASSUME IInv, NEW c \in Conns, CloseOwner(c) \/ CloseOther(c) \/ CleanSector(c)
    PROVE  IInv'
<1>. USE DEF task, Becomes, Owns
<1>1. CASE CloseOwner(c)
  <2>1. TypeOK'
    BY <1>1 DEF CloseOwner, IInv, TypeOK
  <2>2. GoneOwnsNothing'
    BY <1>1 DEF CloseOwner, IInv, TypeOK, GoneOwnsNothing, Gone
  <2>. QED BY <2>1, <2>2 DEF IInv
<1>2. CASE CloseOther(c)
  <2>1. TypeOK'
    BY <1>2 DEF CloseOther, IInv, TypeOK
  <2>2. GoneOwnsNothing'
    BY <1>2 DEF CloseOther, IInv, TypeOK, GoneOwnsNothing, Gone
  <2>. QED BY <2>1, <2>2 DEF IInv
<1>3. CASE CleanSector(c)
  <2>1. playerOf[c] \in Players /\ sectorOf[c] \in Sectors
    BY <1>3 DEF CleanSector, IInv, TypeOK
  <2>2. heard' \in [Sectors -> [Players -> Conns \union {NoConn}]]
    BY <1>3, <2>1 DEF CleanSector, IInv, TypeOK
  <2>. QED BY <1>3, <2>2 DEF CleanSector, IInv, TypeOK, GoneOwnsNothing, Gone
<1>. QED BY <1>1, <1>2, <1>3

\* Every step keeps both.
LEMMA NextIInv == IInv /\ [Next]_vars => IInv'
<1>. SUFFICES ASSUME IInv, [Next]_vars PROVE IInv'
  OBVIOUS
<1>1. CASE \E p \in Players : Login(p)
  BY <1>1, LoginStep
<1>2. ASSUME NEW c \in Conns, Step(c) PROVE IInv'
  BY <1>2, AuthStep, TravelStep, CloseStep DEF Step
<1>3. CASE UNCHANGED vars
  BY <1>3 DEF vars, task, IInv, TypeOK, GoneOwnsNothing, Gone
<1>. QED BY <1>1, <1>2, <1>3 DEF Next

\* Both hold in every reachable state.
LEMMA Inductive == Spec => []IInv
<1>. QED BY InitIInv, NextIInv, PTL DEF Spec

Taken(p) ==
    LET c == owner[p] IN
    c # NoConn /\ owner'[p] # c =>
       \/ Login(p)
       \/ \E d \in Conns : Load(d, p) \/ (Register(d) /\ playerOf[d] = p)
       \/ pc[c] = "open" /\ pc'[c] = "closing" /\ playerOf[c] = p

\* A step that takes a session's connection is one of the four that may.
LEMMA TakenStep ==
    ASSUME IInv, [Next]_vars, NEW p \in Players
    PROVE  Taken(p)
<1>1. SUFFICES ASSUME owner[p] # NoConn, owner'[p] # owner[p] PROVE Taken(p)
  BY DEF Taken
<1>2. CASE \E q \in Players : Login(q)
  BY <1>1, <1>2 DEF Login, NewSession, Taken, IInv, TypeOK
<1>3. ASSUME NEW c \in Conns, Step(c) PROVE Taken(p)
  <2>. USE DEF task, Becomes
  <2>1. ASSUME NEW q \in Players, Load(c, q) PROVE Taken(p)
    BY <1>1, <2>1 DEF Load, NewSession, Taken, IInv, TypeOK
  <2>2. CASE Register(c)
    BY <1>1, <2>2 DEF Register, Taken, IInv, TypeOK
  <2>3. CASE CloseOwner(c)
    BY <1>1, <2>3 DEF CloseOwner, Owns, Taken, IInv, TypeOK
  <2>4. CASE UNCHANGED owner
    BY <1>1, <2>4
  <2>. QED
    BY <1>3, <2>1, <2>2, <2>3, <2>4
    DEF Step, LoadFails, Welcome, WelcomeFails, JoinArrive, Leave, CloseOther, CleanSector, AuthCached,
        AuthMiss, JoinDepart
<1>. QED BY <1>1, <1>2, <1>3 DEF Next, vars

-----------------------------------------------------------------------------
\* The types of connections, sessions and sectors; a task that has authenticated
\* always finds the session of its player.
THEOREM Types == Spec => []TypeOK
<1>. QED BY Inductive, PTL DEF IInv

\* No session keeps a connection that is gone.
THEOREM GoneOwns == Spec => []GoneOwnsNothing
<1>. QED BY Inductive, PTL DEF IInv

\* The end of a connection takes no session from another one.
THEOREM Keeps == Spec => KeepsItsConnection
<1>1. IInv /\ [Next]_vars => [\A p \in Players : Taken(p)]_vars
  BY TakenStep
<1>. QED BY <1>1, Inductive, PTL DEF Spec, KeepsItsConnection, Taken
=============================================================================

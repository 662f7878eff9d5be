------------------------------ MODULE ToolsProofs ------------------------------
(***************************************************************************)
(* Theorems about what players and game masters work with: playtests,      *)
(* edits of the live world, the view of a sector, the connection of the    *)
(* web client, the panels of the editor and the keyboard of the terminal   *)
(* client.  The modules share no variable, so each has its own part here;  *)
(* the last part puts them together.                                       *)
(***************************************************************************)
EXTENDS MCTools, FiniteSetTheorems, SequenceTheorems, TLAPS

(***************************************************************************)
(* Lines of messages.  A client is behind what it was sent, and the server *)
(* behind what it was asked; what both will agree on is decided by the     *)
(* last message on the way that is about it, if there is one.              *)
(***************************************************************************)

\* No message of s is in M; the last message of s that is in M is in G.
NoneOf(s, M) == \A i \in 1..Len(s) : s[i] \notin M
LastOf(s, M, G) ==
    \E i \in 1..Len(s) : s[i] \in G /\ \A j \in 1..Len(s) : j > i => s[j] \notin M

\* A message at the end is the last of its kind, and no other kind's.
LEMMA AtTheEnd ==
    ASSUME NEW S, NEW s \in Seq(S), NEW m \in S, NEW M, NEW G
    PROVE  /\ NoneOf(s, M) /\ m \notin M => NoneOf(Append(s, m), M)
           /\ LastOf(s, M, G) /\ m \notin M => LastOf(Append(s, m), M, G)
           /\ m \in G => LastOf(Append(s, m), M, G)
<1>. DEFINE t == Append(s, m)
<1>1. /\ Len(s) \in Nat /\ Len(t) = Len(s) + 1 /\ t[Len(s) + 1] = m
      /\ \A i \in 1..Len(s) : t[i] = s[i]
  BY AppendProperties, LenProperties
<1>2. NoneOf(s, M) /\ m \notin M => NoneOf(t, M)
  BY <1>1 DEF NoneOf
<1>3. LastOf(s, M, G) /\ m \notin M => LastOf(t, M, G)
  <2>. SUFFICES ASSUME m \notin M, NEW i \in 1..Len(s), s[i] \in G,
                       \A j \in 1..Len(s) : j > i => s[j] \notin M
                PROVE  LastOf(t, M, G)
    BY DEF LastOf
  <2>1. i \in 1..Len(t) /\ t[i] \in G
    BY <1>1
  <2>2. ASSUME NEW j \in 1..Len(t), j > i PROVE t[j] \notin M
    BY <1>1, <2>2
  <2>. QED BY <2>1, <2>2 DEF LastOf
<1>4. m \in G => LastOf(t, M, G)
  <2>. SUFFICES ASSUME m \in G PROVE LastOf(t, M, G)
    OBVIOUS
  <2>1. Len(t) \in 1..Len(t) /\ t[Len(t)] \in G /\ \A j \in 1..Len(t) : ~(j > Len(t))
    BY <1>1
  <2>. QED BY <2>1 DEF LastOf
<1>. QED BY <1>2, <1>3, <1>4

\* Once the first message is taken, the last of its kind is still to come, or was it.
LEMMA AtTheFront ==
    ASSUME NEW S, NEW s \in Seq(S), s # <<>>, NEW M, NEW G
    PROVE  /\ NoneOf(s, M) => NoneOf(Tail(s), M) /\ Head(s) \notin M
           /\ LastOf(s, M, G) => LastOf(Tail(s), M, G) \/ (Head(s) \in G /\ NoneOf(Tail(s), M))
<1>1. /\ Len(s) \in Nat \ {0} /\ Len(Tail(s)) = Len(s) - 1 /\ Head(s) = s[1]
      /\ \A i \in 1..Len(Tail(s)) : Tail(s)[i] = s[i + 1]
  BY HeadTailProperties, EmptySeq
<1>2. NoneOf(s, M) => NoneOf(Tail(s), M) /\ Head(s) \notin M
  BY <1>1 DEF NoneOf
<1>3. LastOf(s, M, G) => LastOf(Tail(s), M, G) \/ (Head(s) \in G /\ NoneOf(Tail(s), M))
  <2>. SUFFICES ASSUME NEW i \in 1..Len(s), s[i] \in G,
                       \A j \in 1..Len(s) : j > i => s[j] \notin M
                PROVE  LastOf(Tail(s), M, G) \/ (Head(s) \in G /\ NoneOf(Tail(s), M))
    BY DEF LastOf
  <2>1. CASE i = 1
    BY <1>1, <2>1 DEF NoneOf
  <2>2. CASE i > 1
    <3>1. i - 1 \in 1..Len(Tail(s)) /\ Tail(s)[i - 1] \in G
      BY <1>1, <2>2
    <3>2. \A j \in 1..Len(Tail(s)) : j > i - 1 => Tail(s)[j] \notin M
      BY <1>1, <2>2
    <3>. QED BY <3>1, <3>2 DEF LastOf
  <2>. QED BY <2>1, <2>2
<1>. QED BY <1>2, <1>3

\* Nothing is under way.
LEMMA NothingInLine ==
    ASSUME NEW M, NEW G
    PROVE  NoneOf(<<>>, M) /\ ~LastOf(<<>>, M, G)
BY EmptySeq DEF NoneOf, LastOf

\* Two messages at the end, one after the other.
LEMMA TwoAtTheEnd ==
    ASSUME NEW S, NEW s \in Seq(S), NEW c \in S, NEW d \in S
    PROVE  s \o <<c, d>> = Append(Append(s, c), d)
<1>. DEFINE t == Append(s, c)
            u == Append(t, d)
            v == s \o <<c, d>>
<1>1. /\ <<c, d>> \in Seq(S) /\ Len(<<c, d>>) = 2 /\ <<c, d>>[1] = c /\ <<c, d>>[2] = d
      /\ Len(s) \in Nat
  BY LenProperties
<1>2. /\ v \in Seq(S) /\ Len(v) = Len(s) + 2
      /\ \A i \in 1..(Len(s) + 2) : v[i] = IF i <= Len(s) THEN s[i] ELSE <<c, d>>[i - Len(s)]
  <2>. HIDE DEF v
  <2>. QED BY <1>1, ConcatProperties DEF v
<1>3. /\ t \in Seq(S) /\ Len(t) = Len(s) + 1 /\ t[Len(s) + 1] = c
      /\ \A i \in 1..Len(s) : t[i] = s[i]
  BY AppendProperties
<1>4. /\ u \in Seq(S) /\ Len(u) = Len(t) + 1 /\ u[Len(t) + 1] = d
      /\ \A i \in 1..Len(t) : u[i] = t[i]
  <2>. HIDE DEF t
  <2>. QED BY <1>3, AppendProperties
<1>. HIDE DEF t, u, v
<1>5. ASSUME NEW i \in 1..Len(v) PROVE v[i] = u[i]
  <2>1. CASE i \in 1..Len(s)
    BY <1>1, <1>2, <1>3, <1>4, <2>1
  <2>2. CASE i = Len(s) + 1
    BY <1>1, <1>2, <1>3, <1>4, <2>2
  <2>3. CASE i = Len(s) + 2
    BY <1>1, <1>2, <1>3, <1>4, <2>3
  <2>. QED BY <1>1, <1>2, <2>1, <2>2, <2>3
<1>6. Len(u) = Len(v)
  BY <1>1, <1>2, <1>3, <1>4
<1>7. v = u
  BY <1>2, <1>4, <1>5, <1>6, SeqEqual
<1>. QED BY <1>7 DEF t, u, v

-----------------------------------------------------------------------------
(***************************************************************************)
(* Playtests.  A handler that creates a playtest has forked and marked it  *)
(* before the manager holds it, so the agreement of the manager, the index *)
(* and the loops needs to be known of the handlers under way (PtHandler).  *)
(***************************************************************************)

USE LimitsAssumption, MarkersAssumption

PtHandlers == [step : Doings, playtest : Playtests \cup {NoPlaytest}, player : Players]

\* The types, with the participants counted.
PtTypes ==
    /\ named \in [Players -> Playtests \cup {NoPlaytest, Offline}]
    /\ instances \subseteq Playtests /\ loops \subseteq Playtests
    /\ owner \in [Playtests -> Players \cup {Offline}]
    /\ participants \in [Playtests -> SUBSET Players]
    /\ index \in [Players -> Playtests \cup {NoPlaytest}]
    /\ doing \in [Players -> {Idle} \cup PtHandlers]
    /\ \A t \in Playtests : /\ IsFiniteSet(participants[t])
                            /\ Cardinality(participants[t]) <= MaxParticipants

\* A handler that creates or destroys a playtest is its owner's; until it is registered
\* the manager does not hold it, and what lists its owner is already there.
PtHandler(p) ==
    /\ doing[p].step \in {"forked", "marked", "counted", "registered", "destroy"}
         => doing[p].playtest \in Playtests /\ owner[doing[p].playtest] = p
    /\ doing[p].step \in {"forked", "marked", "counted"} => doing[p].playtest \notin instances
    /\ doing[p].step \in {"marked", "counted"} => p \in participants[doing[p].playtest]
    /\ doing[p].step \in {"registered", "destroy"} => doing[p].playtest \in instances
    /\ doing[p].step \in {"join", "invite", "joined"} => doing[p].playtest \in Playtests

PtInv ==
    /\ PtTypes
    /\ \A p \in Players : PtHandler(p)
    /\ \A t \in instances : owner[t] \in Players
    /\ ListedWhereIndexed
    /\ OneLoopEach

\* Nobody is in a playtest at the start.
LEMMA PtStart == PlaytestsInit => PtInv
<1>. SUFFICES ASSUME PlaytestsInit PROVE PtInv
  OBVIOUS
<1>1. PtTypes
  BY FS_EmptySet DEF PlaytestsInit, PtTypes
<1>2. \A p \in Players : PtHandler(p)
  BY DEF PlaytestsInit, PtHandler, Idle
<1>. QED BY <1>1, <1>2 DEF PlaytestsInit, PtInv, ListedWhereIndexed, OneLoopEach

\* A session names a playtest or none.
LEMMA PtNamedKept ==
    ASSUME PtTypes, NEW p \in Players, NEW t \in Playtests \cup {NoPlaytest}
    PROVE  Name(p, t) \in [Players -> Playtests \cup {NoPlaytest, Offline}]
BY DEF PtTypes, Name

\* The record of a handler.
LEMMA PtDoing ==
    ASSUME NEW s \in Doings, NEW t \in Playtests \cup {NoPlaytest}, NEW p \in Players
    PROVE  /\ Doing(s, t, p) \in PtHandlers
           /\ Doing(s, t, p).step = s /\ Doing(s, t, p).playtest = t
BY DEF Doing, PtHandlers

\* A handler that goes on.
LEMMA PtDoingOn ==
    ASSUME NEW s \in Doings, NEW d \in PtHandlers
    PROVE  /\ [d EXCEPT !.step = s] \in PtHandlers
           /\ [d EXCEPT !.step = s].step = s /\ [d EXCEPT !.step = s].playtest = d.playtest
BY DEF PtHandlers

\* A handler that moves on touches nobody else's.
LEMMA PtStep ==
    ASSUME PtInv, NEW p \in Players, NEW d \in {Idle} \cup PtHandlers,
           doing' = [doing EXCEPT ![p] = d]
    PROVE  /\ doing' \in [Players -> {Idle} \cup PtHandlers]
           /\ doing'[p] = d
           /\ \A q \in Players \ {p} : doing'[q] = doing[q]
BY DEF PtInv, PtTypes

\* A step that neither registers nor destroys a playtest and lists whom it indexes.
LEMMA PtQuiet ==
    ASSUME PtInv, NEW p \in Players, NEW d \in {Idle} \cup PtHandlers,
           doing' = [doing EXCEPT ![p] = d], d.step # "registered",
           doing[p].step # "registered",
           UNCHANGED <<instances, loops>>
    PROVE  OneLoopEach'
<1>1. \A q \in Players : doing'[q].step = "registered" <=> doing[q].step = "registered"
  BY PtStep
<1>2. \A q \in Players : doing[q].step = "registered" => doing'[q] = doing[q]
  BY PtStep
<1>. QED BY <1>1, <1>2 DEF PtInv, OneLoopEach

\* The fork is nobody's yet; its owner's handler is at work on it.
LEMMA PtCreateBegin ==
    ASSUME PtInv, NEW p \in Players, NEW t \in Playtests, CreateBegin(p, t) PROVE PtInv'
<1>1. Doing("forked", t, p) \in PtHandlers /\ Doing("forked", t, p).step = "forked"
      /\ Doing("forked", t, p).playtest = t
  BY DEF Doing, PtHandlers, Doings
<1>2. PICK d \in PtHandlers : d = Doing("forked", t, p)
  BY <1>1
<1>3. doing' = [doing EXCEPT ![p] = d] /\ doing[p] = Idle /\ doing[p].step # "registered"
  BY <1>2 DEF CreateBegin, Idle
<1>4. doing' \in [Players -> {Idle} \cup PtHandlers] /\ doing'[p] = d
      /\ \A q \in Players \ {p} : doing'[q] = doing[q]
  BY <1>2, <1>3, PtStep
<1>5. OneLoopEach'
  BY <1>1, <1>2, <1>3, PtQuiet DEF CreateBegin
<1>6. owner' \in [Playtests -> Players \cup {Offline}] /\ owner'[t] = p
      /\ \A u \in Playtests \ {t} : owner'[u] = owner[u]
  BY DEF CreateBegin, PtInv, PtTypes
<1>7. owner[t] = Offline /\ t \notin instances
      /\ UNCHANGED <<named, instances, participants, index, loops>>
  BY DEF CreateBegin, PtInv
<1>8. PtTypes'
  BY <1>4, <1>6, <1>7 DEF PtInv, PtTypes
<1>9. ASSUME NEW q \in Players PROVE PtHandler(q)'
  BY <1>1, <1>2, <1>4, <1>6, <1>7 DEF PtInv, PtHandler
<1>10. \A u \in instances' : owner'[u] \in Players
  BY <1>6, <1>7 DEF PtInv, PtTypes
<1>. QED BY <1>5, <1>7, <1>8, <1>9, <1>10 DEF PtInv, ListedWhereIndexed

\* The owner is listed before the manager holds the playtest.
LEMMA PtCreateMark ==
    ASSUME PtInv, NEW p \in Players, CreateMark(p) PROVE PtInv'
<1>1. PICK t \in Playtests : t = doing[p].playtest /\ owner[t] = p /\ t \notin instances
  BY DEF CreateMark, PtInv, PtHandler
<1>2. PICK d \in PtHandlers : d = [doing[p] EXCEPT !.step = "marked"]
        /\ d.step = "marked" /\ d.playtest = t
  <2>1. doing[p] \in PtHandlers
    BY DEF PtInv, PtTypes, CreateMark, Idle
  <2>2. "marked" \in Doings
    BY DEF Doings
  <2>3. [doing[p] EXCEPT !.step = "marked"] \in PtHandlers
        /\ [doing[p] EXCEPT !.step = "marked"].step = "marked"
        /\ [doing[p] EXCEPT !.step = "marked"].playtest = doing[p].playtest
    BY <2>1, <2>2, PtDoingOn
  <2>. QED BY <1>1, <2>3
<1>3. doing' = [doing EXCEPT ![p] = d] /\ doing[p].step = "forked"
  BY <1>2 DEF CreateMark
<1>4. doing' \in [Players -> {Idle} \cup PtHandlers] /\ doing'[p] = d
      /\ \A q \in Players \ {p} : doing'[q] = doing[q]
  BY <1>2, <1>3, PtStep
<1>5. OneLoopEach'
  BY <1>2, <1>3, PtQuiet DEF CreateMark
<1>6. participants' \in [Playtests -> SUBSET Players] /\ participants'[t] = {p}
      /\ \A u \in Playtests \ {t} : participants'[u] = participants[u]
  BY <1>1 DEF CreateMark, PtInv, PtTypes
<1>7. UNCHANGED <<instances, owner, index, loops>> /\ named' = Name(p, t)
  BY <1>1 DEF CreateMark
<1>8. PtTypes'
  <2>1. \A u \in Playtests : /\ IsFiniteSet(participants'[u])
                             /\ Cardinality(participants'[u]) <= MaxParticipants
    <3>1. IsFiniteSet({p}) /\ Cardinality({p}) = 1
      BY FS_Singleton
    <3>2. \A u \in Playtests : /\ IsFiniteSet(participants[u])
                               /\ Cardinality(participants[u]) <= MaxParticipants
      BY DEF PtInv, PtTypes
    <3>. QED BY <1>6, <3>1, <3>2
  <2>2. named' \in [Players -> Playtests \cup {NoPlaytest, Offline}]
    BY <1>7, PtNamedKept DEF PtInv
  <2>. QED BY <1>4, <1>6, <1>7, <2>1, <2>2 DEF PtInv, PtTypes
<1>9. ASSUME NEW q \in Players PROVE PtHandler(q)'
  <2>1. CASE q = p
    BY <1>1, <1>2, <1>4, <1>6, <1>7, <2>1 DEF PtHandler
  <2>2. CASE q # p
    <3>1. PtHandler(q) /\ doing'[q] = doing[q]
      BY <1>4, <2>2 DEF PtInv
    <3>2. doing[q].step \in {"marked", "counted"} => doing[q].playtest # t
      BY <1>1, <2>2, <3>1 DEF PtHandler
    <3>. QED BY <1>6, <1>7, <3>1, <3>2 DEF PtHandler
  <2>. QED BY <2>1, <2>2
<1>10. ListedWhereIndexed'
  BY <1>1, <1>6, <1>7 DEF PtInv, PtTypes, ListedWhereIndexed
<1>. QED BY <1>5, <1>7, <1>8, <1>9, <1>10 DEF PtInv

\* The instances are counted: too many, and the owner is taken out again.
LEMMA PtCreateCount ==
    ASSUME PtInv, NEW p \in Players, CreateCount(p) PROVE PtInv'
<1>1. PICK t \in Playtests : t = doing[p].playtest /\ owner[t] = p /\ t \notin instances
                              /\ p \in participants[t]
  BY DEF CreateCount, PtInv, PtHandler
<1>2. PICK c \in PtHandlers : c = [doing[p] EXCEPT !.step = "counted"]
        /\ c.step = "counted" /\ c.playtest = t
  <2>1. doing[p] \in PtHandlers
    BY DEF PtInv, PtTypes, CreateCount, Idle
  <2>2. "counted" \in Doings
    BY DEF Doings
  <2>3. [doing[p] EXCEPT !.step = "counted"] \in PtHandlers
        /\ [doing[p] EXCEPT !.step = "counted"].step = "counted"
        /\ [doing[p] EXCEPT !.step = "counted"].playtest = doing[p].playtest
    BY <2>1, <2>2, PtDoingOn
  <2>. QED BY <1>1, <2>3
<1>3. UNCHANGED <<instances, owner, index, loops>> /\ doing[p].step = "marked"
  BY DEF CreateCount
<1>4. CASE Cardinality(instances) < MaxInstances
  <2>1. doing' = [doing EXCEPT ![p] = c] /\ UNCHANGED <<named, participants>>
    BY <1>2, <1>4 DEF CreateCount
  <2>2. doing' \in [Players -> {Idle} \cup PtHandlers] /\ doing'[p] = c
        /\ \A q \in Players \ {p} : doing'[q] = doing[q]
    BY <1>2, <2>1, PtStep
  <2>3. OneLoopEach'
    BY <1>2, <1>3, <2>1, PtQuiet
  <2>4. \A q \in Players : PtHandler(q)'
    BY <1>1, <1>2, <1>3, <2>1, <2>2 DEF PtInv, PtHandler
  <2>. QED BY <1>3, <2>1, <2>2, <2>3, <2>4 DEF PtInv, PtTypes, ListedWhereIndexed
<1>5. CASE ~ (Cardinality(instances) < MaxInstances)
  <2>1. doing' = [doing EXCEPT ![p] = Idle] /\ named' = Name(p, NoPlaytest)
        /\ participants' = [participants EXCEPT ![t] = {}]
    BY <1>1, <1>5 DEF CreateCount
  <2>2. doing' \in [Players -> {Idle} \cup PtHandlers] /\ doing'[p] = Idle
        /\ \A q \in Players \ {p} : doing'[q] = doing[q]
    BY <2>1, PtStep
  <2>3. OneLoopEach'
    <3>1. Idle.step # "registered"
      BY DEF Idle
    <3>. QED BY <1>3, <2>1, <3>1, PtQuiet
  <2>4. participants' \in [Playtests -> SUBSET Players] /\ participants'[t] = {}
        /\ \A u \in Playtests \ {t} : participants'[u] = participants[u]
    BY <1>1, <2>1 DEF PtInv, PtTypes
  <2>5. PtTypes'
    <3>1. \A u \in Playtests : /\ IsFiniteSet(participants'[u])
                               /\ Cardinality(participants'[u]) <= MaxParticipants
      <4>1. IsFiniteSet({}) /\ Cardinality({}) = 0
        BY FS_EmptySet
      <4>2. \A u \in Playtests : /\ IsFiniteSet(participants[u])
                                 /\ Cardinality(participants[u]) <= MaxParticipants
        BY DEF PtInv, PtTypes
      <4>. QED BY <2>4, <4>1, <4>2
    <3>2. named' \in [Players -> Playtests \cup {NoPlaytest, Offline}]
      BY <2>1, PtNamedKept DEF PtInv
    <3>. QED BY <1>3, <2>2, <2>4, <3>1, <3>2 DEF PtInv, PtTypes
  <2>6. ASSUME NEW q \in Players PROVE PtHandler(q)'
    <3>1. CASE q = p
      BY <2>2, <3>1 DEF PtHandler, Idle
    <3>2. CASE q # p
      <4>1. PtHandler(q) /\ doing'[q] = doing[q]
        BY <2>2, <3>2 DEF PtInv
      <4>2. doing[q].step \in {"marked", "counted"} => doing[q].playtest # t
        BY <1>1, <3>2, <4>1 DEF PtHandler
      <4>. QED BY <1>3, <2>4, <4>1, <4>2 DEF PtHandler
    <3>. QED BY <3>1, <3>2
  <2>7. ListedWhereIndexed'
    BY <1>1, <1>3, <2>4 DEF PtInv, PtTypes, ListedWhereIndexed
  <2>. QED BY <1>3, <2>3, <2>5, <2>6, <2>7 DEF PtInv
<1>. QED BY <1>4, <1>5

\* The manager holds the playtest from here on.
LEMMA PtCreateRegister ==
    ASSUME PtInv, NEW p \in Players, CreateRegister(p) PROVE PtInv'
<1>1. PICK t \in Playtests : t = doing[p].playtest /\ owner[t] = p /\ t \notin instances
                              /\ p \in participants[t]
  BY DEF CreateRegister, PtInv, PtHandler
<1>2. PICK d \in PtHandlers : d = [doing[p] EXCEPT !.step = "registered"]
        /\ d.step = "registered" /\ d.playtest = t
  <2>1. doing[p] \in PtHandlers
    BY DEF PtInv, PtTypes, CreateRegister, Idle
  <2>2. "registered" \in Doings
    BY DEF Doings
  <2>3. [doing[p] EXCEPT !.step = "registered"] \in PtHandlers
        /\ [doing[p] EXCEPT !.step = "registered"].step = "registered"
        /\ [doing[p] EXCEPT !.step = "registered"].playtest = doing[p].playtest
    BY <2>1, <2>2, PtDoingOn
  <2>. QED BY <1>1, <2>3
<1>3. doing' = [doing EXCEPT ![p] = d] /\ doing[p].step = "counted"
  BY <1>2 DEF CreateRegister
<1>4. doing' \in [Players -> {Idle} \cup PtHandlers] /\ doing'[p] = d
      /\ \A q \in Players \ {p} : doing'[q] = doing[q]
  BY <1>2, <1>3, PtStep
<1>5. UNCHANGED <<named, owner, participants, loops>> /\ instances' = instances \cup {t}
      /\ index' = [index EXCEPT ![p] = t]
  BY <1>1 DEF CreateRegister
<1>6. OneLoopEach'
  <2>1. ASSUME NEW q \in Players
        PROVE  doing'[q].step = "registered" <=> q = p \/ doing[q].step = "registered"
    BY <1>2, <1>4
  <2>2. t \notin loops
    BY <1>1 DEF PtInv, OneLoopEach
  <2>3. \A q \in Players : doing[q].step = "registered" => q # p /\ doing'[q] = doing[q]
    BY <1>3, <1>4
  <2>. DEFINE Loading == {doing[o].playtest : o \in {q \in Players : doing[q].step = "registered"}}
              LoadingNow == {doing'[o].playtest :
                                o \in {q \in Players : doing'[q].step = "registered"}}
  <2>4. LoadingNow = Loading \cup {t}
    <3>1. \A o \in Players : doing'[o].step = "registered"
                => \/ o = p /\ doing'[o].playtest = t
                   \/ o # p /\ doing[o].step = "registered"
                        /\ doing'[o].playtest = doing[o].playtest
      BY <1>2, <1>4, <2>1, <2>3
    <3>2. LoadingNow \subseteq Loading \cup {t}
      BY <3>1
    <3>3. t \in LoadingNow
      BY <1>2, <1>4
    <3>4. Loading \subseteq LoadingNow
      BY <2>1, <2>3
    <3>. QED BY <3>2, <3>3, <3>4
  <2>5. loops = instances \ Loading
    BY DEF PtInv, OneLoopEach
  <2>6. loops' = instances' \ LoadingNow
    BY <1>1, <1>5, <2>2, <2>4, <2>5
  <2>. QED BY <2>6 DEF OneLoopEach
<1>7. PtTypes'
  BY <1>4, <1>5 DEF PtInv, PtTypes
<1>8. ASSUME NEW q \in Players PROVE PtHandler(q)'
  <2>1. CASE q = p
    BY <1>1, <1>2, <1>4, <1>5, <2>1 DEF PtHandler
  <2>2. CASE q # p
    <3>1. PtHandler(q) /\ doing'[q] = doing[q]
      BY <1>4, <2>2 DEF PtInv
    <3>2. doing[q].step \in {"forked", "marked", "counted"} => doing[q].playtest # t
      BY <1>1, <2>2, <3>1 DEF PtHandler
    <3>. QED BY <1>5, <3>1, <3>2 DEF PtHandler
  <2>. QED BY <2>1, <2>2
<1>9. ListedWhereIndexed'
  BY <1>1, <1>5 DEF PtInv, PtTypes, ListedWhereIndexed
<1>10. \A u \in instances' : owner'[u] \in Players
  BY <1>1, <1>5 DEF PtInv
<1>. QED BY <1>6, <1>7, <1>8, <1>9, <1>10 DEF PtInv

\* Its loop starts.
LEMMA PtCreateSpawn ==
    ASSUME PtInv, NEW p \in Players, CreateSpawn(p) PROVE PtInv'
<1>1. PICK t \in Playtests : t = doing[p].playtest /\ owner[t] = p /\ t \in instances
  BY DEF CreateSpawn, PtInv, PtHandler
<1>2. doing' = [doing EXCEPT ![p] = Idle] /\ doing[p].step = "registered"
      /\ loops' = loops \cup {t} /\ UNCHANGED <<named, instances, owner, participants, index>>
  BY <1>1 DEF CreateSpawn
<1>3. doing' \in [Players -> {Idle} \cup PtHandlers] /\ doing'[p] = Idle
      /\ \A q \in Players \ {p} : doing'[q] = doing[q]
  BY <1>2, PtStep
<1>4. OneLoopEach'
  <2>1. \A q \in Players : doing'[q].step = "registered"
                            <=> q # p /\ doing[q].step = "registered"
    BY <1>3 DEF Idle
  <2>2. \A q \in Players : doing[q].step = "registered" /\ q # p
                            => doing[q].playtest # t /\ doing'[q] = doing[q]
    BY <1>1, <1>3 DEF PtInv, PtHandler
  <2>. QED BY <1>1, <1>2, <2>1, <2>2 DEF PtInv, OneLoopEach
<1>5. \A q \in Players : PtHandler(q)'
  BY <1>2, <1>3 DEF PtInv, PtHandler, Idle
<1>. QED BY <1>1, <1>2, <1>3, <1>4, <1>5 DEF PtInv, PtTypes, ListedWhereIndexed

\* A handler begins, or comes to its end, with a session marked and nothing else.
LEMMA PtMarks ==
    ASSUME PtInv, NEW p \in Players, NEW d \in {Idle} \cup PtHandlers,
           doing' = [doing EXCEPT ![p] = d], doing[p].step # "registered",
           d.step \in {"idle", "join", "invite", "left", "joined"},
           d.step \in {"join", "invite", "joined"} => d.playtest \in Playtests,
           named' \in [Players -> Playtests \cup {NoPlaytest, Offline}],
           UNCHANGED <<instances, owner, participants, index, loops>>
    PROVE  PtInv'
<1>1. doing' \in [Players -> {Idle} \cup PtHandlers] /\ doing'[p] = d
      /\ \A q \in Players \ {p} : doing'[q] = doing[q]
  BY PtStep
<1>2. OneLoopEach'
  BY PtQuiet
<1>3. \A q \in Players : PtHandler(q)'
  BY <1>1 DEF PtInv, PtHandler
<1>. QED BY <1>1, <1>2, <1>3 DEF PtInv, PtTypes, ListedWhereIndexed

\* A player begins to join, or the owner to invite.
LEMMA PtBegins ==
    ASSUME PtInv, NEW g \in Players, NEW q \in Players, NEW t \in Playtests,
           JoinBegin(g, t) \/ InviteBegin(g, t, q)
    PROVE  PtInv'
<1>1. PICK d \in PtHandlers : doing' = [doing EXCEPT ![g] = d]
        /\ d.step \in {"join", "invite"} /\ d.playtest = t
  <2>1. \A o \in Players : /\ Doing("join", t, o) \in PtHandlers
                           /\ Doing("join", t, o).step = "join"
                           /\ Doing("join", t, o).playtest = t
    BY PtDoing DEF Doings
  <2>2. \A o \in Players : /\ Doing("invite", t, o) \in PtHandlers
                           /\ Doing("invite", t, o).step = "invite"
                           /\ Doing("invite", t, o).playtest = t
    BY PtDoing DEF Doings
  <2>3. CASE JoinBegin(g, t)
    <3>1. doing' = [doing EXCEPT ![g] = Doing("join", t, g)]
      BY <2>3 DEF JoinBegin
    <3>. QED BY <2>1, <3>1
  <2>4. CASE InviteBegin(g, t, q)
    <3>1. doing' = [doing EXCEPT ![g] = Doing("invite", t, q)]
      BY <2>4 DEF InviteBegin
    <3>. QED BY <2>2, <3>1
  <2>. QED BY <2>3, <2>4
<1>2. doing[g].step # "registered"
  BY DEF JoinBegin, InviteBegin, Idle
<1>3. UNCHANGED <<named, instances, owner, participants, index, loops>>
  BY DEF JoinBegin, InviteBegin
<1>4. named' \in [Players -> Playtests \cup {NoPlaytest, Offline}]
  BY <1>3 DEF PtInv, PtTypes
<1>. QED BY <1>1, <1>2, <1>3, <1>4, PtMarks

\* A session takes or drops the name of the playtest after the player joined or left.
LEMMA PtJoinMark ==
    ASSUME PtInv, NEW p \in Players, JoinMark(p) \/ LeaveMark(p) PROVE PtInv'
<1>1. named' \in [Players -> Playtests \cup {NoPlaytest, Offline}]
  BY PtNamedKept DEF JoinMark, LeaveMark, PtInv, PtHandler
<1>2. doing' = [doing EXCEPT ![p] = Idle] /\ doing[p].step # "registered"
      /\ UNCHANGED <<instances, owner, participants, index, loops>>
  BY DEF JoinMark, LeaveMark
<1>3. Idle.step = "idle"
  BY DEF Idle
<1>. QED BY <1>1, <1>2, <1>3, PtMarks

\* It is listed where the index says, if there is room.
LEMMA PtJoinEnter ==
    ASSUME PtInv, NEW p \in Players, JoinEnter(p) PROVE PtInv'
<1>1. PICK t \in Playtests, q \in Players : t = doing[p].playtest /\ q = doing[p].player
  <2>1. doing[p] \in PtHandlers /\ doing[p].playtest \in Playtests
    BY DEF JoinEnter, PtInv, PtTypes, PtHandler, Idle
  <2>. QED BY <2>1 DEF PtHandlers
<1>2. doing[p].step \in {"join", "invite"} /\ UNCHANGED <<named, instances, owner, loops>>
  BY DEF JoinEnter
<1>3. CASE ~ MayEnter(q, t)
  <2>1. doing' = [doing EXCEPT ![p] = Idle] /\ UNCHANGED <<participants, index>>
    BY <1>1, <1>3 DEF JoinEnter
  <2>2. named' \in [Players -> Playtests \cup {NoPlaytest, Offline}]
    BY <1>2 DEF PtInv, PtTypes
  <2>. QED BY <1>2, <2>1, <2>2, PtMarks DEF Idle
<1>4. CASE MayEnter(q, t)
  <2>1. PICK d \in {Idle} \cup PtHandlers :
            d = (IF doing[p].step = "join" THEN Doing("joined", t, q) ELSE Idle)
    BY DEF Doing, PtHandlers, Doings
  <2>2. d.step \in {"idle", "joined"} /\ (d.step = "joined" => d.playtest = t)
    BY <2>1 DEF Doing, Idle
  <2>3. /\ participants' = [participants EXCEPT ![t] = @ \cup {q}]
        /\ index' = [index EXCEPT ![q] = t]
        /\ doing' = [doing EXCEPT ![p] = d]
    BY <1>1, <1>4, <2>1 DEF JoinEnter
  <2>4. doing' \in [Players -> {Idle} \cup PtHandlers] /\ doing'[p] = d
        /\ \A o \in Players \ {p} : doing'[o] = doing[o]
    BY <2>3, PtStep
  <2>5. OneLoopEach'
    BY <1>2, <2>2, <2>3, PtQuiet
  <2>6. participants' \in [Playtests -> SUBSET Players]
        /\ participants'[t] = participants[t] \cup {q}
        /\ \A u \in Playtests \ {t} : participants'[u] = participants[u]
    BY <2>3 DEF PtInv, PtTypes
  <2>7. PtTypes'
    <3>1. ASSUME NEW u \in Playtests
          PROVE  /\ IsFiniteSet(participants'[u])
                 /\ Cardinality(participants'[u]) <= MaxParticipants
      <4>1. CASE u = t
        <5>1. IsFiniteSet(participants[t]) /\ Cardinality(participants[t]) \in Nat
              /\ q \notin participants[t] /\ Cardinality(participants[t]) < MaxParticipants
          <6>1. IsFiniteSet(participants[t])
            BY DEF PtInv, PtTypes
          <6>2. q \notin participants[t] /\ Cardinality(participants[t]) < MaxParticipants
            BY <1>4 DEF MayEnter
          <6>. QED BY <6>1, <6>2, FS_CardinalityType
        <5>2. IsFiniteSet(participants[t] \cup {q})
              /\ Cardinality(participants[t] \cup {q}) = Cardinality(participants[t]) + 1
          BY <5>1, FS_AddElement
        <5>3. Cardinality(participants[t] \cup {q}) <= MaxParticipants
          BY <5>1, <5>2
        <5>. QED BY <2>6, <4>1, <5>2, <5>3
      <4>2. CASE u # t
        BY <2>6, <4>2 DEF PtInv, PtTypes
      <4>. QED BY <4>1, <4>2
    <3>2. index' \in [Players -> Playtests \cup {NoPlaytest}]
      BY <2>3 DEF PtInv, PtTypes
    <3>. QED BY <1>2, <2>4, <2>6, <3>1, <3>2 DEF PtInv, PtTypes
  <2>8. ASSUME NEW o \in Players PROVE PtHandler(o)'
    <3>1. PtHandler(o)
      BY DEF PtInv
    <3>2. \A u \in Playtests : participants[u] \subseteq participants'[u]
      BY <2>6
    <3>. QED BY <1>2, <2>2, <2>4, <3>1, <3>2 DEF PtHandler
  <2>9. ListedWhereIndexed'
    BY <1>2, <1>4, <2>3, <2>6 DEF PtInv, PtTypes, ListedWhereIndexed, MayEnter
  <2>. QED BY <1>2, <2>5, <2>7, <2>8, <2>9 DEF PtInv
<1>. QED BY <1>3, <1>4

\* Who leaves is not listed where the index no longer sends it.
LEMMA PtLeft ==
    ASSUME PtInv, NEW q \in Players, Left(q),
           UNCHANGED <<instances, owner, loops>>,
           named' \in [Players -> Playtests \cup {NoPlaytest, Offline}],
           NEW p \in Players, NEW d \in {Idle} \cup PtHandlers,
           doing' = [doing EXCEPT ![p] = d], doing[p].step # "registered",
           d.step \in {"idle", "left"}
    PROVE  PtInv'
<1>1. doing' \in [Players -> {Idle} \cup PtHandlers] /\ doing'[p] = d
      /\ \A o \in Players \ {p} : doing'[o] = doing[o]
  BY PtStep
<1>2. OneLoopEach'
  BY PtQuiet
<1>3. index' = [index EXCEPT ![q] = NoPlaytest]
      /\ participants' \in [Playtests -> SUBSET Players]
      /\ \A u \in Playtests : participants'[u] = IF u = index[q] /\ u \in instances
                                THEN participants[u] \ {q} ELSE participants[u]
  BY DEF Left, PtInv, PtTypes
<1>4. PtTypes'
  <2>1. ASSUME NEW u \in Playtests
        PROVE  /\ IsFiniteSet(participants'[u])
               /\ Cardinality(participants'[u]) <= MaxParticipants
    <3>1. IsFiniteSet(participants[u]) /\ Cardinality(participants[u]) <= MaxParticipants
      BY DEF PtInv, PtTypes
    <3>2. IsFiniteSet(participants[u] \ {q})
          /\ Cardinality(participants[u] \ {q}) <= Cardinality(participants[u])
      BY <3>1, FS_Subset
    <3>3. Cardinality(participants[u] \ {q}) \in Nat /\ Cardinality(participants[u]) \in Nat
      BY <3>1, <3>2, FS_CardinalityType
    <3>4. Cardinality(participants[u] \ {q}) <= MaxParticipants
      BY <3>1, <3>2, <3>3
    <3>. QED BY <1>3, <3>1, <3>2, <3>4
  <2>2. index' \in [Players -> Playtests \cup {NoPlaytest}]
    BY <1>3 DEF PtInv, PtTypes
  <2>. QED BY <1>1, <1>3, <2>1, <2>2 DEF PtInv, PtTypes
<1>5. ASSUME NEW o \in Players PROVE PtHandler(o)'
  <2>1. PtHandler(o)
    BY DEF PtInv
  <2>2. \A u \in Playtests \ instances : participants'[u] = participants[u]
    BY <1>3
  <2>. QED BY <1>1, <2>1, <2>2 DEF PtHandler
<1>6. ListedWhereIndexed'
  BY <1>3 DEF PtInv, PtTypes, ListedWhereIndexed
<1>. QED BY <1>2, <1>4, <1>5, <1>6 DEF PtInv

\* A player leaves, or the owner puts one out.
LEMMA PtLeaves ==
    ASSUME PtInv,
           \/ \E p \in Players : Leave(p)
           \/ \E g, q \in Players, t \in Playtests : KickFromPlaytest(g, t, q)
    PROVE  PtInv'
<1>1. ASSUME NEW p \in Players, Leave(p) PROVE PtInv'
  <2>1. PICK d \in PtHandlers : d = Doing("left", NoPlaytest, p) /\ d.step = "left"
    <3>1. Doing("left", NoPlaytest, p) \in PtHandlers /\ Doing("left", NoPlaytest, p).step = "left"
      BY PtDoing DEF Doings
    <3>. QED BY <3>1
  <2>2. doing' = [doing EXCEPT ![p] = d] /\ Left(p) /\ doing[p].step # "registered"
        /\ UNCHANGED <<named, instances, owner, loops>>
    BY <1>1, <2>1 DEF Leave, Idle
  <2>3. named' \in [Players -> Playtests \cup {NoPlaytest, Offline}]
    BY <2>2 DEF PtInv, PtTypes
  <2>. QED BY <2>1, <2>2, <2>3, PtLeft
<1>2. ASSUME NEW g \in Players, NEW q \in Players, NEW t \in Playtests, KickFromPlaytest(g, t, q)
      PROVE  PtInv'
  <2>1. doing' = [doing EXCEPT ![g] = Idle] /\ doing[g].step # "registered"
    BY <1>2 DEF KickFromPlaytest, PtInv, PtTypes, Idle
  <2>2. Left(q) /\ UNCHANGED <<instances, owner, loops>>
    BY <1>2 DEF KickFromPlaytest
  <2>3. named' \in [Players -> Playtests \cup {NoPlaytest, Offline}]
    BY <1>2, PtNamedKept DEF KickFromPlaytest, PtInv
  <2>4. Idle.step = "idle"
    BY DEF Idle
  <2>. QED BY <2>1, <2>2, <2>3, <2>4, PtLeft
<1>. QED BY <1>1, <1>2

\* The owner's request to destroy a playtest the manager holds.
LEMMA PtDestroyBegin ==
    ASSUME PtInv, NEW g \in Players, NEW t \in Playtests, DestroyBegin(g, t) PROVE PtInv'
<1>1. PICK d \in PtHandlers : d = Doing("destroy", t, g) /\ d.step = "destroy" /\ d.playtest = t
  <2>1. Doing("destroy", t, g) \in PtHandlers /\ Doing("destroy", t, g).step = "destroy"
        /\ Doing("destroy", t, g).playtest = t
    BY PtDoing DEF Doings
  <2>. QED BY <2>1
<1>2. doing' = [doing EXCEPT ![g] = d] /\ doing[g].step # "registered"
      /\ t \in instances /\ owner[t] = g
      /\ UNCHANGED <<instances, owner, participants, index, loops>>
  BY <1>1 DEF DestroyBegin, Idle, Authorized
<1>3. doing' \in [Players -> {Idle} \cup PtHandlers] /\ doing'[g] = d
      /\ \A o \in Players \ {g} : doing'[o] = doing[o]
  BY <1>1, <1>2, PtStep
<1>4. OneLoopEach'
  BY <1>1, <1>2, PtQuiet
<1>5. named' \in [Players -> Playtests \cup {NoPlaytest, Offline}]
  BY DEF DestroyBegin, PtInv, PtTypes
<1>6. \A o \in Players : PtHandler(o)'
  BY <1>1, <1>2, <1>3 DEF PtInv, PtHandler
<1>. QED BY <1>2, <1>3, <1>4, <1>5, <1>6 DEF PtInv, PtTypes, ListedWhereIndexed

\* The playtest goes, with its loop and whoever was in it.
LEMMA PtDestroyFinish ==
    ASSUME PtInv, NEW g \in Players, DestroyFinish(g) PROVE PtInv'
<1>1. PICK t \in Playtests : t = doing[g].playtest /\ owner[t] = g /\ t \in instances
  BY DEF DestroyFinish, PtInv, PtHandler
<1>2. /\ doing' = [doing EXCEPT ![g] = Idle] /\ doing[g].step = "destroy"
      /\ instances' = instances \ {t} /\ loops' = loops \ {t} /\ UNCHANGED <<named, owner>>
      /\ index' = [p \in Players |-> IF p \in participants[t] THEN NoPlaytest ELSE index[p]]
      /\ participants' = [participants EXCEPT ![t] = {}]
  BY <1>1 DEF DestroyFinish, StopLoop
<1>3. doing' \in [Players -> {Idle} \cup PtHandlers] /\ doing'[g] = Idle
      /\ \A o \in Players \ {g} : doing'[o] = doing[o]
  BY <1>2, PtStep
<1>4. OneLoopEach'
  <2>1. \A q \in Players : doing'[q].step = "registered" <=> doing[q].step = "registered"
    BY <1>2, <1>3 DEF Idle
  <2>2. \A q \in Players : doing[q].step = "registered" => doing'[q] = doing[q]
    BY <1>2, <1>3
  <2>. QED BY <1>2, <2>1, <2>2 DEF PtInv, OneLoopEach
<1>5. participants' \in [Playtests -> SUBSET Players] /\ participants'[t] = {}
      /\ \A u \in Playtests \ {t} : participants'[u] = participants[u]
  BY <1>2 DEF PtInv, PtTypes
<1>6. PtTypes'
  <2>1. \A u \in Playtests : /\ IsFiniteSet(participants'[u])
                             /\ Cardinality(participants'[u]) <= MaxParticipants
    <3>1. IsFiniteSet({}) /\ Cardinality({}) = 0
      BY FS_EmptySet
    <3>2. \A u \in Playtests : /\ IsFiniteSet(participants[u])
                               /\ Cardinality(participants[u]) <= MaxParticipants
      BY DEF PtInv, PtTypes
    <3>. QED BY <1>5, <3>1, <3>2
  <2>. QED BY <1>2, <1>3, <1>5, <2>1 DEF PtInv, PtTypes
<1>7. ASSUME NEW q \in Players PROVE PtHandler(q)'
  <2>1. CASE q = g
    BY <1>3, <2>1 DEF PtHandler, Idle
  <2>2. CASE q # g
    <3>1. PtHandler(q) /\ doing'[q] = doing[q]
      BY <1>3, <2>2 DEF PtInv
    <3>2. doing[q].step \in {"forked", "marked", "counted", "registered", "destroy"}
            => doing[q].playtest # t
      BY <1>1, <2>2, <3>1 DEF PtHandler
    <3>. QED BY <1>2, <1>5, <3>1, <3>2 DEF PtHandler
  <2>. QED BY <2>1, <2>2
<1>8. ListedWhereIndexed'
  BY <1>1, <1>2, <1>5 DEF PtInv, PtTypes, ListedWhereIndexed
<1>9. \A u \in instances' : owner'[u] \in Players
  BY <1>2 DEF PtInv
<1>. QED BY <1>4, <1>6, <1>7, <1>8, <1>9 DEF PtInv

\* A connection that comes or goes changes what its session names.
LEMMA PtSession ==
    ASSUME PtInv, NEW p \in Players, Disconnect(p) \/ LogIn(p) PROVE PtInv'
<1>1. named' \in [Players -> Playtests \cup {NoPlaytest, Offline}]
  BY DEF Disconnect, LogIn, PtInv, PtTypes
<1>2. UNCHANGED <<instances, owner, participants, index, loops, doing>>
  BY DEF Disconnect, LogIn
<1>. QED BY <1>1, <1>2 DEF PtInv, PtTypes, PtHandler, ListedWhereIndexed, OneLoopEach

\* Every step keeps the invariant.
LEMMA PtKept == PtInv /\ [PlaytestsNext]_ptVars => PtInv'
<1>. SUFFICES ASSUME PtInv, [PlaytestsNext]_ptVars PROVE PtInv'
  OBVIOUS
<1>1. CASE UNCHANGED ptVars
  BY <1>1 DEF ptVars, PtInv, PtTypes, PtHandler, ListedWhereIndexed, OneLoopEach
<1>2. CASE PlaytestsNext
  BY <1>2, PtCreateBegin, PtCreateMark, PtCreateCount, PtCreateRegister, PtCreateSpawn,
     PtBegins, PtJoinMark, PtJoinEnter, PtLeaves, PtDestroyBegin, PtDestroyFinish,
     PtSession DEF PlaytestsNext
<1>. QED BY <1>1, <1>2

\* The invariant says what is checked.
LEMMA PtInvSays == PtInv => PlaytestsTypeOK /\ PlaytestsAgree
BY DEF PtInv, PtTypes, PtHandlers, PlaytestsTypeOK, PlaytestsAgree

\* The manager, its index and the loops agree on who is in which playtest,
\* and no playtest has more participants than it may.
THEOREM PlaytestsAlwaysAgree == PlaytestsSpec => [](PlaytestsTypeOK /\ PlaytestsAgree)
<1>. QED BY PtStart, PtKept, PtInvSays, PTL DEF PlaytestsSpec

HIDE LimitsAssumption
HIDE MarkersAssumption

-----------------------------------------------------------------------------
(***************************************************************************)
(* Edits of the live world.  That a promotion writes what the playtest     *)
(* reports needs where its ships come from; that a live ship is in a list  *)
(* needs the one that a promotion has put there and is about to list.      *)
(***************************************************************************)

USE MaxStagedAssumption, PlacesAssumption

\* A flying ship of the playtest came with the fork or was made there; a live ship is
\* in its sector's list, or a promotion has just put it there and is about to list it.
EditsInv ==
    /\ GmEditsTypeOK
    /\ deleted \subseteq forked \ created
    /\ created \cap forked = {}
    /\ Flying(play) \subseteq forked \cup created
    /\ \A s \in AllShips :
        live.at[s] \in live.sectors =>
            \/ s \in live.list[live.at[s]]
            \/ promoting.step = "listing" /\ promoting.ship = s
                 /\ promoting.sector = live.at[s]
    /\ promoting.step = "listing" => promoting.ship \in AllShips /\ promoting.sector \in Sectors

\* What either world does to a ship keeps its shape and its lists.
LEMMA PutKeeps ==
    ASSUME NEW w \in Worlds, NEW s \in AllShips, NEW c \in Sectors
    PROVE  /\ Put(w, s, c) \in Worlds
           /\ Flying(Put(w, s, c)) = Flying(w) \cup {s}
           /\ Put(w, s, c).sectors = w.sectors
           /\ Put(w, s, c).at = [w.at EXCEPT ![s] = c]
           /\ \A r \in AllShips, d \in Sectors :
                r \in Put(w, s, c).list[d] <=>
                    r \in w.list[d] \/ (r = s /\ d = c /\ c \in w.sectors)
BY DEF Put, Worlds, Flying

\* A ship that goes.
LEMMA DropKeeps ==
    ASSUME NEW w \in Worlds, NEW s \in AllShips
    PROVE  /\ Drop(w, s) \in Worlds
           /\ Flying(Drop(w, s)) = Flying(w) \ {s}
           /\ Drop(w, s).sectors = w.sectors
           /\ Drop(w, s).at = [w.at EXCEPT ![s] = Gone]
           /\ \A r \in AllShips, d \in Sectors :
                r # s => (r \in Drop(w, s).list[d] <=> r \in w.list[d])
BY DEF Drop, Worlds, Flying

\* A sector that goes; its ships are nowhere.
LEMMA DropSectorKeeps ==
    ASSUME NEW w \in Worlds, NEW c \in Sectors
    PROVE  /\ DropSector(w, c) \in Worlds
           /\ Flying(DropSector(w, c)) \subseteq Flying(w)
           /\ DropSector(w, c).sectors = w.sectors \ {c}
           /\ \A r \in AllShips : DropSector(w, c).at[r] \in {w.at[r], NoSector}
           /\ \A d \in Sectors \ {c} : DropSector(w, c).list[d] = w.list[d]
BY DEF DropSector, Worlds, Flying

\* Both worlds list what flies in them at the start.
LEMMA EditsStart == GmEditsInit => EditsInv
<1>. SUFFICES ASSUME GmEditsInit PROVE EditsInv
  OBVIOUS
<1>1. PICK f \in [OldShips -> Sectors] :
        live = [sectors |-> Sectors,
                at |-> [s \in AllShips |-> IF s \in OldShips THEN f[s] ELSE Gone],
                list |-> [c \in Sectors |-> {s \in OldShips : f[s] = c}]]
  BY DEF GmEditsInit
<1>2. live \in Worlds /\ play \in Worlds
  BY <1>1 DEF GmEditsInit, Worlds, Empty, AllShips
<1>3. staged \in UNION {[1..n -> Changes] : n \in 0..MaxStaged}
  <2>1. staged \in [1..0 -> Changes]
    BY DEF GmEditsInit
  <2>. QED BY <2>1
<1>4. GmEditsTypeOK
  BY <1>2, <1>3 DEF GmEditsInit, GmEditsTypeOK, NotPromoting
<1>5. Flying(play) = {}
  BY DEF GmEditsInit, Empty, Flying
<1>6. \A s \in AllShips : live.at[s] \in Sectors => s \in live.list[live.at[s]]
  BY <1>1 DEF AllShips
<1>. QED BY <1>1, <1>4, <1>5, <1>6 DEF EditsInv, GmEditsInit, NotPromoting

\* The live world.
LEMMA LiveKeeps ==
    ASSUME EditsInv,
           \/ \E s \in AllShips, c \in Sectors : LiveMove(s, c)
           \/ \E s \in AllShips : LiveDestroy(s)
           \/ \E c \in Sectors : LiveDestroySector(c)
    PROVE  EditsInv'
<1>1. ASSUME NEW s \in AllShips, NEW c \in Sectors, LiveMove(s, c) PROVE EditsInv'
  <2>1. live' \in Worlds
    BY <1>1 DEF LiveMove, EditsInv, GmEditsTypeOK, Worlds
  <2>2. ASSUME NEW r \in AllShips, live'.at[r] \in live'.sectors
        PROVE  \/ r \in live'.list[live'.at[r]]
               \/ promoting.step = "listing" /\ promoting.ship = r
                    /\ promoting.sector = live'.at[r]
    BY <1>1, <2>2 DEF LiveMove, EditsInv, GmEditsTypeOK, Worlds
  <2>. QED BY <1>1, <2>1, <2>2 DEF LiveMove, EditsInv, GmEditsTypeOK, Flying
<1>2. ASSUME NEW s \in AllShips, LiveDestroy(s) PROVE EditsInv'
  <2>1. live \in Worlds
    BY DEF EditsInv, GmEditsTypeOK
  <2>2. ASSUME NEW r \in AllShips, live'.at[r] \in live'.sectors
        PROVE  \/ r \in live'.list[live'.at[r]]
               \/ promoting.step = "listing" /\ promoting.ship = r
                    /\ promoting.sector = live'.at[r]
    <3>1. live'.at = [live.at EXCEPT ![s] = Gone] /\ live'.sectors = live.sectors
      BY <1>2, <2>1, DropKeeps DEF LiveDestroy
    <3>2. r # s /\ live'.at[r] = live.at[r] /\ live.at[r] \in Sectors
      BY <2>1, <2>2, <3>1 DEF Worlds
    <3>. QED BY <1>2, <2>1, <2>2, <3>1, <3>2, DropKeeps DEF LiveDestroy, EditsInv
  <2>. QED BY <1>2, <2>1, <2>2, DropKeeps DEF LiveDestroy, EditsInv, GmEditsTypeOK, Flying
<1>3. ASSUME NEW c \in Sectors, LiveDestroySector(c) PROVE EditsInv'
  <2>1. live \in Worlds
    BY DEF EditsInv, GmEditsTypeOK
  <2>2. ASSUME NEW r \in AllShips, live'.at[r] \in live'.sectors
        PROVE  \/ r \in live'.list[live'.at[r]]
               \/ promoting.step = "listing" /\ promoting.ship = r
                    /\ promoting.sector = live'.at[r]
    <3>1. live' = DropSector(live, c)
      BY <1>3 DEF LiveDestroySector
    <3>2. /\ live'.sectors = live.sectors \ {c} /\ live.sectors \subseteq Sectors
          /\ live'.at[r] \in {live.at[r], NoSector}
          /\ \A d \in Sectors \ {c} : live'.list[d] = live.list[d]
      BY <2>1, <3>1, DropSectorKeeps DEF Worlds
    <3>3. live'.at[r] = live.at[r] /\ live.at[r] \in Sectors \ {c}
      BY <2>2, <3>2
    <3>. QED BY <1>3, <2>2, <3>2, <3>3 DEF LiveDestroySector, EditsInv
  <2>. QED BY <1>3, <2>1, <2>2, DropSectorKeeps DEF LiveDestroySector, EditsInv, GmEditsTypeOK, Flying
<1>. QED BY <1>1, <1>2, <1>3

\* The playtest's world.
LEMMA PlayKeeps ==
    ASSUME EditsInv,
           \/ \E cs \in SUBSET Sectors : ForkSectors(cs)
           \/ \E s \in AllShips : ForkShip(s) \/ PlayDestroy(s) \/ PlayKill(s)
           \/ \E s \in AllShips, c \in Sectors : PlaySpawn(s, c)
           \/ \E c \in Sectors : PlayDestroySector(c)
    PROVE  EditsInv'
<1>0. live \in Worlds /\ play \in Worlds
  BY DEF EditsInv, GmEditsTypeOK
<1>1. ASSUME NEW cs \in SUBSET Sectors, ForkSectors(cs) PROVE EditsInv'
  <2>1. play' \in Worlds /\ Flying(play') = Flying(play)
    BY <1>0, <1>1 DEF ForkSectors, Worlds, Flying
  <2>. QED BY <1>1, <2>1 DEF ForkSectors, EditsInv, GmEditsTypeOK
<1>2. ASSUME NEW s \in AllShips, ForkShip(s) PROVE EditsInv'
  <2>1. live.at[s] \in Sectors
    BY <1>0, <1>2 DEF ForkShip, Worlds
  <2>2. play' \in Worlds /\ Flying(play') = Flying(play) \cup {s}
    BY <1>0, <1>2, <2>1, PutKeeps DEF ForkShip
  <2>. QED BY <1>2, <2>2 DEF ForkShip, EditsInv, GmEditsTypeOK
<1>3. ASSUME NEW s \in AllShips, PlayDestroy(s) PROVE EditsInv'
  <2>1. play' \in Worlds /\ Flying(play') = Flying(play) \ {s}
    BY <1>0, <1>3, DropKeeps DEF PlayDestroy
  <2>2. s \in Flying(play)
    BY <1>3 DEF PlayDestroy
  <2>. QED BY <1>3, <2>1, <2>2 DEF PlayDestroy, EditsInv, GmEditsTypeOK
<1>4. ASSUME NEW s \in AllShips, PlayKill(s) PROVE EditsInv'
  <2>1. play' \in Worlds /\ Flying(play') = Flying(play) \ {s}
    BY <1>0, <1>4, DropKeeps DEF PlayKill
  <2>2. s \in Flying(play)
    BY <1>0, <1>4 DEF PlayKill, Flying, Worlds
  <2>. QED BY <1>4, <2>1, <2>2 DEF PlayKill, LostInCombat, EditsInv, GmEditsTypeOK
<1>5. ASSUME NEW s \in AllShips, NEW c \in Sectors, PlaySpawn(s, c) PROVE EditsInv'
  <2>1. play' \in Worlds /\ Flying(play') = Flying(play) \cup {s}
    BY <1>0, <1>5, PutKeeps DEF PlaySpawn
  <2>. QED BY <1>5, <2>1 DEF PlaySpawn, Fresh, EditsInv, GmEditsTypeOK
<1>6. ASSUME NEW c \in Sectors, PlayDestroySector(c) PROVE EditsInv'
  <2>1. play' \in Worlds /\ Flying(play') \subseteq Flying(play)
    BY <1>0, <1>6, DropSectorKeeps DEF PlayDestroySector
  <2>. QED BY <1>6, <2>1 DEF PlayDestroySector, EditsInv, GmEditsTypeOK
<1>. QED BY <1>1, <1>2, <1>3, <1>4, <1>5, <1>6

\* A promotion.
LEMMA PromotionKeeps ==
    ASSUME EditsInv,
           \/ \E spawns, deletes \in BOOLEAN : PromoteBegin(spawns, deletes)
           \/ \E s \in AllShips : PromoteInsert(s) \/ PromoteDelete(s)
           \/ PromoteList \/ PromoteDeletes \/ PromoteDone
    PROVE  EditsInv'
<1>0. live \in Worlds /\ play \in Worlds
  BY DEF EditsInv, GmEditsTypeOK
<1>1. ASSUME NEW spawns \in BOOLEAN, NEW deletes \in BOOLEAN, PromoteBegin(spawns, deletes)
      PROVE  EditsInv'
  <2>1. promoting' \in [step : {"no", "spawn", "listing", "delete"}, todo : SUBSET AllShips,
                        ship : AllShips \cup {Gone}, sector : Sectors \cup {NoSector},
                        deletes : BOOLEAN]
        /\ promoting'.step = "spawn"
    BY <1>1 DEF PromoteBegin, EditsInv, GmEditsTypeOK, NotPromoting
  <2>2. promoting.step = "no"
    BY <1>1 DEF PromoteBegin, NotPromoting
  <2>. QED BY <1>1, <2>1, <2>2 DEF PromoteBegin, EditsInv, GmEditsTypeOK
<1>2. ASSUME NEW s \in AllShips, PromoteInsert(s) PROVE EditsInv'
  <2>1. CASE MaySpawn(s)
    <3>1. play.at[s] \in Sectors
      BY <1>0, <2>1 DEF MaySpawn, Worlds
    <3>2. live' \in Worlds /\ live'.sectors = live.sectors /\ live'.list = live.list
            /\ live'.at = [live.at EXCEPT ![s] = play.at[s]]
      <4>1. live' = [live EXCEPT !.at[s] = play.at[s]]
        BY <1>2, <2>1 DEF PromoteInsert
      <4>. QED BY <1>0, <3>1, <4>1 DEF Worlds
    <3>3. promoting' = [promoting EXCEPT !.step = "listing", !.todo = @ \ {s}, !.ship = s,
                            !.sector = play.at[s]]
      BY <1>2, <2>1 DEF PromoteInsert
    <3>4. promoting' \in [step : {"no", "spawn", "listing", "delete"}, todo : SUBSET AllShips,
                          ship : AllShips \cup {Gone}, sector : Sectors \cup {NoSector},
                          deletes : BOOLEAN]
          /\ promoting'.step = "listing" /\ promoting'.ship = s
          /\ promoting'.sector = play.at[s]
      BY <3>1, <3>3 DEF EditsInv, GmEditsTypeOK
    <3>5. promoting.step = "spawn"
      BY <1>2 DEF PromoteInsert
    <3>6. ASSUME NEW r \in AllShips, live'.at[r] \in live'.sectors
          PROVE  \/ r \in live'.list[live'.at[r]]
                 \/ promoting'.step = "listing" /\ promoting'.ship = r
                      /\ promoting'.sector = live'.at[r]
      BY <1>0, <3>2, <3>4, <3>5, <3>6 DEF EditsInv, Worlds
    <3>. QED BY <1>2, <3>1, <3>2, <3>4, <3>6 DEF PromoteInsert, EditsInv, GmEditsTypeOK
  <2>2. CASE ~MaySpawn(s)
    <3>1. promoting'.step = "spawn" /\ promoting.step = "spawn"
          /\ promoting' \in [step : {"no", "spawn", "listing", "delete"}, todo : SUBSET AllShips,
                             ship : AllShips \cup {Gone}, sector : Sectors \cup {NoSector},
                             deletes : BOOLEAN]
      <4>1. promoting' = [promoting EXCEPT !.todo = @ \ {s}] /\ promoting.step = "spawn"
        BY <1>2, <2>2 DEF PromoteInsert
      <4>. QED BY <4>1 DEF EditsInv, GmEditsTypeOK
    <3>. QED BY <1>2, <2>2, <3>1 DEF PromoteInsert, EditsInv, GmEditsTypeOK
  <2>. QED BY <2>1, <2>2
<1>3. ASSUME NEW s \in AllShips, PromoteDelete(s) PROVE EditsInv'
  <2>1. live' \in Worlds
    BY <1>0, <1>3, DropKeeps DEF PromoteDelete
  <2>2. promoting.step = "delete" /\ promoting'.step = "delete"
        /\ promoting' \in [step : {"no", "spawn", "listing", "delete"}, todo : SUBSET AllShips,
                           ship : AllShips \cup {Gone}, sector : Sectors \cup {NoSector},
                           deletes : BOOLEAN]
    BY <1>3 DEF PromoteDelete, EditsInv, GmEditsTypeOK
  <2>3. ASSUME NEW r \in AllShips, live'.at[r] \in live'.sectors
        PROVE  r \in live'.list[live'.at[r]]
    <3>1. CASE live' = live
      BY <2>2, <2>3, <3>1 DEF EditsInv
    <3>2. CASE live' = Drop(live, s)
      <4>1. live'.at = [live.at EXCEPT ![s] = Gone] /\ live'.sectors = live.sectors
        BY <1>0, <3>2, DropKeeps
      <4>2. r # s /\ live'.at[r] = live.at[r] /\ live.at[r] \in Sectors
        BY <1>0, <2>3, <4>1 DEF Worlds
      <4>. QED BY <1>0, <2>2, <2>3, <3>2, <4>1, <4>2, DropKeeps DEF EditsInv
    <3>. QED BY <1>3, <3>1, <3>2 DEF PromoteDelete
  <2>. QED BY <1>3, <2>1, <2>2, <2>3 DEF PromoteDelete, EditsInv, GmEditsTypeOK
<1>4. CASE PromoteList
  <2>1. live' \in Worlds /\ live'.at = live.at /\ live'.sectors = live.sectors
    BY <1>0, <1>4 DEF PromoteList, Worlds, EditsInv, GmEditsTypeOK
  <2>2. promoting'.step = "spawn"
        /\ promoting' \in [step : {"no", "spawn", "listing", "delete"}, todo : SUBSET AllShips,
                           ship : AllShips \cup {Gone}, sector : Sectors \cup {NoSector},
                           deletes : BOOLEAN]
    BY <1>4 DEF PromoteList, EditsInv, GmEditsTypeOK
  <2>3. ASSUME NEW r \in AllShips, live'.at[r] \in live'.sectors
        PROVE  r \in live'.list[live'.at[r]]
    BY <1>0, <1>4, <2>1, <2>3 DEF PromoteList, EditsInv, Worlds
  <2>. QED BY <1>4, <2>1, <2>2, <2>3 DEF PromoteList, EditsInv, GmEditsTypeOK
<1>5. CASE PromoteDeletes
  <2>1. promoting'.step = "delete" /\ promoting.step = "spawn"
        /\ promoting' \in [step : {"no", "spawn", "listing", "delete"}, todo : SUBSET AllShips,
                           ship : AllShips \cup {Gone}, sector : Sectors \cup {NoSector},
                           deletes : BOOLEAN]
    BY <1>5 DEF PromoteDeletes, EditsInv, GmEditsTypeOK
  <2>. QED BY <1>5, <2>1 DEF PromoteDeletes, EditsInv, GmEditsTypeOK
<1>6. CASE PromoteDone
  <2>1. promoting'.step = "no" /\ promoting.step = "delete"
        /\ promoting' \in [step : {"no", "spawn", "listing", "delete"}, todo : SUBSET AllShips,
                           ship : AllShips \cup {Gone}, sector : Sectors \cup {NoSector},
                           deletes : BOOLEAN]
    BY <1>6 DEF PromoteDone, EditsInv, GmEditsTypeOK, NotPromoting
  <2>. QED BY <1>6, <2>1 DEF PromoteDone, EditsInv, GmEditsTypeOK
<1>. QED BY <1>1, <1>2, <1>3, <1>4, <1>5, <1>6

\* A commit.
LEMMA CommitKeeps ==
    ASSUME EditsInv,
           \/ \E n \in 1..MaxStaged : \E changes \in [1..n -> Changes] : CommitBegin(changes)
           \/ CommitApply
    PROVE  EditsInv'
<1>0. live \in Worlds
  BY DEF EditsInv, GmEditsTypeOK
<1>1. ASSUME NEW n \in 1..MaxStaged, NEW changes \in [1..n -> Changes], CommitBegin(changes)
      PROVE  EditsInv'
  <2>1. staged' \in UNION {[1..m -> Changes] : m \in 0..MaxStaged}
    BY <1>1 DEF CommitBegin
  <2>. QED BY <1>1, <2>1 DEF CommitBegin, EditsInv, GmEditsTypeOK
<1>2. CASE CommitApply
  <2>1. PICK n \in 0..MaxStaged : staged \in [1..n -> Changes]
    BY DEF EditsInv, GmEditsTypeOK
  <2>2. staged \in Seq(Changes) /\ Len(staged) = n /\ staged # <<>>
    BY <1>2, <2>1 DEF CommitApply
  <2>3. Head(staged) \in Changes /\ Tail(staged) \in Seq(Changes) /\ Len(Tail(staged)) = n - 1
    BY <2>2, HeadTailProperties
  <2>4. staged' \in UNION {[1..m -> Changes] : m \in 0..MaxStaged}
    <3>1. n - 1 \in 0..MaxStaged
      BY <2>1, <2>2, <2>3
    <3>2. staged' \in [1..(n - 1) -> Changes]
      BY <1>2, <2>3, LenProperties DEF CommitApply
    <3>. QED BY <3>1, <3>2
  <2>. DEFINE change == Head(staged)
  <2>5. live' = Applied(change) /\ change \in Changes
    BY <1>2, <2>3 DEF CommitApply
  <2>. HIDE DEF change
  <2>6. change.kind = "delete" => change.ship \in AllShips
    BY <2>5 DEF Changes
  <2>7. change.kind = "spawn" => change.ship \in AllShips /\ change.sector \in Sectors
    BY <2>5 DEF Changes, AllShips
  <2>8. ASSUME change.kind = "delete", change.ship \in Flying(live)
        PROVE  live' \in Worlds /\ \A r \in AllShips : live'.at[r] \in live'.sectors =>
            \/ r \in live'.list[live'.at[r]]
            \/ promoting.step = "listing" /\ promoting.ship = r
                 /\ promoting.sector = live'.at[r]
    <3>1. live' = Drop(live, change.ship)
      BY <2>5, <2>8 DEF Applied
    <3>2. live'.at = [live.at EXCEPT ![change.ship] = Gone] /\ live'.sectors = live.sectors
          /\ live' \in Worlds
      BY <1>0, <2>6, <2>8, <3>1, DropKeeps
    <3>3. ASSUME NEW r \in AllShips, live'.at[r] \in live'.sectors
          PROVE  r # change.ship /\ live'.at[r] = live.at[r] /\ live.at[r] \in Sectors
      BY <1>0, <2>6, <2>8, <3>2, <3>3 DEF Worlds
    <3>. QED BY <1>0, <2>6, <2>8, <3>1, <3>2, <3>3, DropKeeps DEF EditsInv
  <2>9. ASSUME change.kind = "spawn"
        PROVE  live' \in Worlds /\ \A r \in AllShips : live'.at[r] \in live'.sectors =>
            \/ r \in live'.list[live'.at[r]]
            \/ promoting.step = "listing" /\ promoting.ship = r
                 /\ promoting.sector = live'.at[r]
    <3>1. live' = Put(live, change.ship, change.sector)
      BY <2>5, <2>9 DEF Applied
    <3>2. live'.at = [live.at EXCEPT ![change.ship] = change.sector]
          /\ live'.sectors = live.sectors /\ live' \in Worlds
      BY <1>0, <2>7, <2>9, <3>1, PutKeeps
    <3>3. ASSUME NEW r \in AllShips, live'.at[r] \in live'.sectors
          PROVE  live'.at[r] \in Sectors
      BY <1>0, <3>2, <3>3 DEF Worlds
    <3>4. ASSUME NEW r \in AllShips, live'.at[r] \in live'.sectors
          PROVE  \/ r \in live'.list[live'.at[r]]
                 \/ promoting.step = "listing" /\ promoting.ship = r
                      /\ promoting.sector = live'.at[r]
      <4>0. /\ change.ship \in AllShips /\ change.sector \in Sectors
            /\ \A x \in AllShips, d \in Sectors :
                 x \in live'.list[d] <=>
                    x \in live.list[d] \/ (x = change.ship /\ d = change.sector
                                              /\ change.sector \in live.sectors)
        <5>1. \A x \in AllShips, d \in Sectors :
                x \in Put(live, change.ship, change.sector).list[d] <=>
                    x \in live.list[d] \/ (x = change.ship /\ d = change.sector
                                              /\ change.sector \in live.sectors)
          <6>1. change.ship \in AllShips /\ change.sector \in Sectors
            BY <2>7, <2>9
          <6>. QED BY <1>0, <6>1, PutKeeps, Zenon
        <5>. QED BY <2>7, <2>9, <3>1, <5>1
      <4>1. CASE r = change.ship
        <5>1. live'.at[r] = change.sector
          BY <1>0, <3>2, <4>1 DEF Worlds
        <5>. QED BY <3>2, <3>4, <4>0, <4>1, <5>1
      <4>2. CASE r # change.ship
        <5>1. live'.at[r] = live.at[r]
          BY <1>0, <3>2, <4>2 DEF Worlds
        <5>. QED BY <3>2, <3>3, <3>4, <4>0, <5>1 DEF EditsInv
      <4>. QED BY <4>1, <4>2
    <3>. QED BY <3>2, <3>4
  <2>10. CASE change.kind # "spawn" /\ ~(change.kind = "delete" /\ change.ship \in Flying(live))
    <3>1. live' = live
      BY <2>5, <2>10 DEF Applied
    <3>. QED BY <1>2, <2>4, <3>1 DEF CommitApply, EditsInv, GmEditsTypeOK
  <2>. QED BY <1>2, <2>4, <2>8, <2>9, <2>10 DEF CommitApply, EditsInv, GmEditsTypeOK
<1>. QED BY <1>1, <1>2

\* Every step keeps the invariant.
LEMMA EditsInductive == EditsInv /\ [GmEditsNext]_geVars => EditsInv'
<1>. SUFFICES ASSUME EditsInv, [GmEditsNext]_geVars PROVE EditsInv'
  OBVIOUS
<1>1. CASE UNCHANGED geVars
  BY <1>1 DEF geVars, EditsInv, GmEditsTypeOK, Flying
<1>. QED BY <1>1, LiveKeeps, PlayKeeps, PromotionKeeps, CommitKeeps DEF GmEditsNext

\* What promotions and commits report of the live world is in it.
THEOREM EditsAgreeAlways == GmEditsSpec => [](GmEditsTypeOK /\ EditsAgree)
<1>1. EditsInv => GmEditsTypeOK /\ EditsAgree
  BY DEF EditsInv, EditsAgree, ListedWhereFlying, DeletedWereForked
<1>. QED BY <1>1, EditsStart, EditsInductive, PTL DEF GmEditsSpec

HIDE MaxStagedAssumption
HIDE PlacesAssumption

-----------------------------------------------------------------------------
(***************************************************************************)
(* The view of a sector.  A client is right once all that was sent to it   *)
(* has arrived; before, a ship it will show (Believes) is listed or about  *)
(* to be announced as gone, and a listed ship it will not show is about to *)
(* be announced (Knows).  The invariant adds where the ship and the        *)
(* connection of a player are while its handler is at work (Placed), what  *)
(* the tick that is under way will send (TickAgrees), and that no client   *)
(* is sent its own ship (Unnamed).                                         *)
(***************************************************************************)

USE TerminalsAssumption, ViewAssumption

Message == [kind : {"initial", "update"}, ships : SUBSET Ships, gone : SUBSET Ships]
Phases == {"idle", "connecting", "answered", "left", "told", "entered", "snapped", "welcomed"}
Places == ViewSectors \cup {NoWhere}
Service == [phase : Phases, from : Places, to : Places, snapshot : SUBSET Ships]
Tick == [phase : {"idle", "spawn", "attach", "clean", "send"}, sector : Places,
         spawns : SUBSET ViewNpcs, despawns : SUBSET ViewNpcs]

ViewTypes ==
    /\ listed \in [ViewSectors -> SUBSET Ships]
    /\ connected \in [ViewSectors -> SUBSET ViewPlayers]
    /\ serving \in [ViewPlayers -> Service]
    /\ wire \in [ViewPlayers -> Seq(Message)]
    /\ \A p \in ViewPlayers : Len(wire[p]) <= MaxQueue
    /\ shown \in [ViewPlayers -> SUBSET Ships]
    /\ looping \in Tick

\* A player's ship is listed in sector h alone, its connection in sector c alone.
At(p, h, c) ==
    \A s \in ViewSectors : /\ p \in listed[s] <=> s = h
                           /\ p \in connected[s] <=> s = c

\* Where a player is while its handler is at work.
Placed(p) ==
    /\ serving[p].phase = "idle" => \E h \in Places : At(p, h, h)
    /\ serving[p].phase \in {"connecting", "answered"} =>
            serving[p].to \in ViewSectors /\ At(p, serving[p].to, NoWhere)
    /\ serving[p].phase \in {"left", "told"} =>
            /\ serving[p].from \in ViewSectors /\ serving[p].to \in ViewSectors
            /\ serving[p].from # serving[p].to /\ At(p, NoWhere, NoWhere)
    /\ serving[p].phase \in {"entered", "snapped", "welcomed"} =>
            serving[p].to \in ViewSectors /\ At(p, serving[p].to, serving[p].to)

\* What a tick is about to send, but for what was changed silently.
TickAgrees ==
    /\ looping.phase # "idle" => looping.sector \in ViewSectors
    /\ looping.phase \in {"idle", "spawn"} => looping.spawns = {}
    /\ looping.phase # "send" => looping.despawns = {}
    /\ \A x \in looping.despawns \ silent :
            looping.sector \in ViewSectors => x \notin listed[looping.sector]
    /\ \A x \in looping.spawns \ (looping.despawns \cup silent) :
            looping.sector \in ViewSectors => x \in listed[looping.sector]
    /\ looping.spawns \cap looping.despawns \subseteq flickered

\* What is on the way about a ship: the last message that mentions it decides.
Mentions(x) == {m \in Message : m.kind = "initial" \/ x \in m.ships \cup m.gone}
Showing(p, x) ==
    {m \in Message : x \in m.ships /\ (m.kind = "initial" \/ p \notin Terminals \/ x \notin m.gone)}
Seen(p, x, list, line) ==
    \/ NoneOf(line, Mentions(x)) /\ x \in list
    \/ LastOf(line, Mentions(x), Showing(p, x))

\* Whether the snapshot of p has still to be sent.
Unanswered(p) ==
    \/ serving[p].phase = "snapped"
    \/ serving[p].phase = "answered" /\ serving[p].snapshot # {p}

\* The client will list x once everything has arrived.
Believes(p, x) ==
    IF Unanswered(p) THEN x \in serving[p].snapshot ELSE Seen(p, x, shown[p], wire[p])

\* What it was sent or is about to be sent is about sector s.
Follows(p, s) ==
    \/ serving[p].phase = "idle" /\ p \in connected[s]
    \/ serving[p].phase \in {"snapped", "answered", "welcomed"} /\ serving[p].to = s

\* A change of the list of s that has still to be sent.
Arriving(x, s) ==
    \/ /\ x \in ViewPlayers /\ serving[x].phase \in {"entered", "snapped", "welcomed"}
       /\ serving[x].to = s
    \/ looping.sector = s /\ x \in looping.spawns
Leaving(x, s) ==
    \/ x \in ViewPlayers /\ serving[x].phase = "left" /\ serving[x].from = s
    \/ looping.sector = s /\ x \in looping.despawns

OddFor(p) == silent \cup (IF p \in Terminals THEN {} ELSE flickered)

\* The client knows of the ship x what the server lists, or will be told.
Knows(p, s, x) ==
    /\ x \in listed[s] /\ x \notin OddFor(p) => Believes(p, x) \/ Arriving(x, s)
    /\ Believes(p, x) /\ (x \in ViewPlayers \/ x \notin OddFor(p)) => x \in listed[s] \/ Leaving(x, s)

Informed(p) ==
    \A s \in ViewSectors :
        Follows(p, s) /\ p \notin raced => \A x \in Ships \ {p} : Knows(p, s, x)

\* No client is shown its own ship.
Naming(x) == {m \in Message : x \in m.ships}
Unnamed(p) ==
    /\ p \notin shown[p] /\ NoneOf(wire[p], Naming(p))
    /\ Unanswered(p) => p \notin serving[p].snapshot

ViewInv ==
    /\ ViewTypes
    /\ TickAgrees
    /\ \A p \in ViewPlayers : Placed(p) /\ Unnamed(p) /\ Informed(p)

-----------------------------------------------------------------------------

\* What a line holds after one message more, and without the first.
LEMMA LineLonger ==
    ASSUME NEW S, NEW line \in Seq(S), NEW m \in S, NEW M, NEW G
    PROVE  /\ NoneOf(Append(line, m), M) <=> NoneOf(line, M) /\ m \notin M
           /\ LastOf(Append(line, m), M, G) <=> m \in G \/ (m \notin M /\ LastOf(line, M, G))
<1>0. PICK t : t = Append(line, m)
  OBVIOUS
<1>1. /\ Len(line) \in Nat /\ Len(t) = Len(line) + 1 /\ t[Len(line) + 1] = m
      /\ \A i \in 1..Len(line) : t[i] = line[i]
  BY <1>0, AppendProperties, LenProperties
<1>2. /\ \A i \in 1..Len(t) : i \in 1..Len(line) \/ i = Len(line) + 1
      /\ \A i \in 1..Len(line) : i \in 1..Len(t) /\ Len(line) + 1 > i
      /\ Len(line) + 1 \in 1..Len(t) /\ \A i \in 1..Len(t) : ~(i > Len(line) + 1)
  BY <1>1
<1>3. NoneOf(t, M) <=> NoneOf(line, M) /\ m \notin M
  BY <1>1, <1>2 DEF NoneOf
<1>4. ASSUME LastOf(t, M, G) PROVE m \in G \/ (m \notin M /\ LastOf(line, M, G))
  <2>1. PICK i \in 1..Len(t) : t[i] \in G /\ \A j \in 1..Len(t) : j > i => t[j] \notin M
    BY <1>4 DEF LastOf
  <2>2. CASE i = Len(line) + 1
    BY <1>1, <2>1, <2>2
  <2>3. CASE i \in 1..Len(line)
    <3>1. m \notin M
      BY <1>1, <1>2, <2>1, <2>3
    <3>2. LastOf(line, M, G)
      BY <1>1, <1>2, <2>1, <2>3 DEF LastOf
    <3>. QED BY <3>1, <3>2
  <2>. QED BY <1>2, <2>2, <2>3
<1>5. ASSUME m \in G PROVE LastOf(t, M, G)
  BY <1>1, <1>2, <1>5 DEF LastOf
<1>6. ASSUME m \notin M, LastOf(line, M, G) PROVE LastOf(t, M, G)
  <2>1. PICK i \in 1..Len(line) : line[i] \in G /\ \A j \in 1..Len(line) : j > i => line[j] \notin M
    BY <1>6 DEF LastOf
  <2>2. \A j \in 1..Len(t) : j > i => t[j] \notin M
    BY <1>1, <1>2, <1>6, <2>1
  <2>. QED BY <1>1, <1>2, <2>1, <2>2 DEF LastOf
<1>. QED BY <1>0, <1>3, <1>4, <1>5, <1>6

\* What a line holds without its first message.
LEMMA LineShorter ==
    ASSUME NEW S, NEW line \in Seq(S), line # <<>>, NEW M, NEW G
    PROVE  /\ NoneOf(line, M) <=> Head(line) \notin M /\ NoneOf(Tail(line), M)
           /\ LastOf(line, M, G) <=>
                LastOf(Tail(line), M, G) \/ (Head(line) \in G /\ NoneOf(Tail(line), M))
<1>0. PICK t : t = Tail(line)
  OBVIOUS
<1>1. /\ Len(line) \in Nat \ {0} /\ Len(t) = Len(line) - 1 /\ Head(line) = line[1]
      /\ \A i \in 1..Len(t) : t[i] = line[i + 1]
  BY <1>0, HeadTailProperties, EmptySeq
<1>2. /\ \A i \in 1..Len(t) : i + 1 \in 1..Len(line) /\ i + 1 > 1
      /\ \A i \in 1..Len(line) : i = 1 \/ (i - 1 \in 1..Len(t) /\ (i - 1) + 1 = i)
      /\ 1 \in 1..Len(line)
  BY <1>1
<1>3. NoneOf(line, M) <=> line[1] \notin M /\ NoneOf(t, M)
  BY <1>1, <1>2 DEF NoneOf
<1>4. ASSUME LastOf(line, M, G) PROVE LastOf(t, M, G) \/ (line[1] \in G /\ NoneOf(t, M))
  <2>1. PICK i \in 1..Len(line) : line[i] \in G /\ \A j \in 1..Len(line) : j > i => line[j] \notin M
    BY <1>4 DEF LastOf
  <2>2. CASE i = 1
    BY <1>1, <1>2, <2>1, <2>2 DEF NoneOf
  <2>3. CASE i # 1
    <3>1. i - 1 \in 1..Len(t) /\ t[i - 1] \in G
      BY <1>1, <1>2, <2>1, <2>3
    <3>2. ASSUME NEW j \in 1..Len(t), j > i - 1 PROVE t[j] \notin M
      <4>1. j + 1 > i
        BY <1>1, <3>2
      <4>. QED BY <1>1, <1>2, <2>1, <4>1
    <3>. QED BY <3>1, <3>2 DEF LastOf
  <2>. QED BY <2>2, <2>3
<1>5. ASSUME line[1] \in G, NoneOf(t, M) PROVE LastOf(line, M, G)
  <2>1. ASSUME NEW j \in 1..Len(line), j > 1 PROVE line[j] \notin M
    <3>1. j - 1 \in 1..Len(t) /\ t[j - 1] = line[j]
      BY <1>1, <1>2, <2>1
    <3>. QED BY <1>5, <3>1 DEF NoneOf
  <2>. QED BY <1>2, <1>5, <2>1 DEF LastOf
<1>6. ASSUME LastOf(t, M, G) PROVE LastOf(line, M, G)
  <2>1. PICK i \in 1..Len(t) : t[i] \in G /\ \A j \in 1..Len(t) : j > i => t[j] \notin M
    BY <1>6 DEF LastOf
  <2>2. ASSUME NEW j \in 1..Len(line), j > i + 1 PROVE line[j] \notin M
    <3>1. j - 1 \in 1..Len(t) /\ j - 1 > i /\ t[j - 1] = line[j]
      BY <1>1, <1>2, <2>2
    <3>. QED BY <2>1, <3>1
  <2>3. i + 1 \in 1..Len(line) /\ line[i + 1] \in G
    BY <1>1, <1>2, <2>1
  <2>. QED BY <2>2, <2>3 DEF LastOf
<1>. QED BY <1>0, <1>1, <1>3, <1>4, <1>5, <1>6

\* What a message more, or one taken in, does to what the client will show.
LEMMA SeenMore ==
    ASSUME NEW p, NEW x, NEW list, NEW line \in Seq(Message), NEW m \in Message
    PROVE  /\ m \notin Mentions(x) =>
                (Seen(p, x, list, Append(line, m)) <=> Seen(p, x, list, line))
           /\ m \in Mentions(x) =>
                (Seen(p, x, list, Append(line, m)) <=> m \in Showing(p, x))
<1>1. Showing(p, x) \subseteq Mentions(x)
  BY DEF Showing, Mentions
<1>2. PICK M : M = Mentions(x)
  OBVIOUS
<1>3. PICK G : G = Showing(p, x)
  OBVIOUS
<1>4. /\ NoneOf(Append(line, m), M) <=> NoneOf(line, M) /\ m \notin M
      /\ LastOf(Append(line, m), M, G) <=> m \in G \/ (m \notin M /\ LastOf(line, M, G))
  BY LineLonger
<1>. QED BY <1>1, <1>2, <1>3, <1>4, Zenon DEF Seen

\* What the client shows after a message is what it would have shown with it on
\* the way.
LEMMA SeenTaken ==
    ASSUME NEW p, NEW x, NEW list, NEW line \in Seq(Message), line # <<>>, NEW after,
           Head(line) \in Mentions(x) => (x \in after <=> Head(line) \in Showing(p, x)),
           Head(line) \notin Mentions(x) => (x \in after <=> x \in list)
    PROVE  Seen(p, x, after, Tail(line)) <=> Seen(p, x, list, line)
<1>1. Showing(p, x) \subseteq Mentions(x)
  BY DEF Showing, Mentions
<1>2. PICK M : M = Mentions(x)
  OBVIOUS
<1>3. PICK G : G = Showing(p, x)
  OBVIOUS
<1>4. /\ NoneOf(line, M) <=> Head(line) \notin M /\ NoneOf(Tail(line), M)
      /\ LastOf(line, M, G) <=>
            LastOf(Tail(line), M, G) \/ (Head(line) \in G /\ NoneOf(Tail(line), M))
  BY LineShorter
<1>. QED BY <1>1, <1>2, <1>3, <1>4, Zenon DEF Seen

-----------------------------------------------------------------------------

\* What a handler does next: all that is known of it after the step.
Becomes(p, phase, from, to, snapshot) ==
    /\ serving' \in [ViewPlayers -> Service]
    /\ serving'[p].phase = phase /\ serving'[p].from = from
    /\ serving'[p].to = to /\ serving'[p].snapshot = snapshot
    /\ \A d \in ViewPlayers : d # p => serving'[d] = serving[d]

\* A handler's record is replaced.
LEMMA ServiceBecomes ==
    ASSUME serving \in [ViewPlayers -> Service], NEW p \in ViewPlayers, NEW phase \in Phases,
           NEW from \in Places, NEW to \in Places, NEW snapshot \in SUBSET Ships,
           serving' = [serving EXCEPT ![p] = [phase |-> phase, from |-> from, to |-> to,
                                              snapshot |-> snapshot]]
    PROVE  Becomes(p, phase, from, to, snapshot)
<1>1. [phase |-> phase, from |-> from, to |-> to, snapshot |-> snapshot] \in Service
  BY DEF Service
<1>2. PICK new \in Service : /\ new = [phase |-> phase, from |-> from, to |-> to,
                                       snapshot |-> snapshot]
                             /\ new.phase = phase /\ new.from = from
                             /\ new.to = to /\ new.snapshot = snapshot
  BY <1>1
<1>3. serving' = [serving EXCEPT ![p] = new]
  BY <1>2
<1>. QED BY <1>2, <1>3 DEF Becomes

\* A record of a handler that changes in some fields.
LEMMA ServiceSteps ==
    ASSUME serving \in [ViewPlayers -> Service], NEW p \in ViewPlayers, NEW phase \in Phases,
           NEW snapshot \in SUBSET Ships
    PROVE  /\ serving' = [serving EXCEPT ![p].phase = phase] =>
                Becomes(p, phase, serving[p].from, serving[p].to, serving[p].snapshot)
           /\ serving' = [serving EXCEPT ![p].snapshot = snapshot] =>
                Becomes(p, serving[p].phase, serving[p].from, serving[p].to, snapshot)
           /\ serving' = [serving EXCEPT ![p].phase = phase, ![p].snapshot = snapshot] =>
                Becomes(p, phase, serving[p].from, serving[p].to, snapshot)
<1>1. PICK r \in [phase : Phases, from : Places, to : Places, snapshot : SUBSET Ships] :
        r = serving[p]
  BY DEF Service
<1>2. /\ r.phase \in Phases /\ r.from \in Places /\ r.to \in Places
      /\ r.snapshot \in SUBSET Ships
  OBVIOUS
<1>3. [r EXCEPT !.phase = phase] =
        [phase |-> phase, from |-> r.from, to |-> r.to, snapshot |-> r.snapshot]
  OBVIOUS
<1>4. [r EXCEPT !.snapshot = snapshot] =
        [phase |-> r.phase, from |-> r.from, to |-> r.to, snapshot |-> snapshot]
  OBVIOUS
<1>5. [r EXCEPT !.phase = phase, !.snapshot = snapshot] =
        [phase |-> phase, from |-> r.from, to |-> r.to, snapshot |-> snapshot]
  <2>1. PICK c \in [phase : Phases, from : Places, to : Places, snapshot : SUBSET Ships] :
            /\ c = [r EXCEPT !.phase = phase]
            /\ c.phase = phase /\ c.from = r.from /\ c.to = r.to
    <3>1. [r EXCEPT !.phase = phase] \in
                [phase : Phases, from : Places, to : Places, snapshot : SUBSET Ships]
      OBVIOUS
    <3>2. /\ [r EXCEPT !.phase = phase].phase = phase
          /\ [r EXCEPT !.phase = phase].from = r.from
          /\ [r EXCEPT !.phase = phase].to = r.to
      OBVIOUS
    <3>. QED BY <3>1, <3>2
  <2>2. [c EXCEPT !.snapshot = snapshot] =
            [phase |-> c.phase, from |-> c.from, to |-> c.to, snapshot |-> snapshot]
    OBVIOUS
  <2>3. [r EXCEPT !.phase = phase, !.snapshot = snapshot] =
            [[r EXCEPT !.phase = phase] EXCEPT !.snapshot = snapshot]
    BY Zenon
  <2>. QED BY <2>1, <2>2, <2>3, Zenon
<1>6. ASSUME serving' = [serving EXCEPT ![p].phase = phase]
      PROVE  Becomes(p, phase, serving[p].from, serving[p].to, serving[p].snapshot)
  <2>1. serving' = [serving EXCEPT ![p] = [r EXCEPT !.phase = phase]]
    BY <1>1, <1>6
  <2>2. serving' = [serving EXCEPT ![p] =
            [phase |-> phase, from |-> r.from, to |-> r.to, snapshot |-> r.snapshot]]
    BY <1>3, <2>1, Zenon
  <2>3. Becomes(p, phase, r.from, r.to, r.snapshot)
    BY <1>2, <2>2, ServiceBecomes
  <2>. QED BY <1>1, <2>3, Zenon
<1>7. ASSUME serving' = [serving EXCEPT ![p].snapshot = snapshot]
      PROVE  Becomes(p, serving[p].phase, serving[p].from, serving[p].to, snapshot)
  <2>1. serving' = [serving EXCEPT ![p] = [r EXCEPT !.snapshot = snapshot]]
    BY <1>1, <1>7
  <2>2. serving' = [serving EXCEPT ![p] =
            [phase |-> r.phase, from |-> r.from, to |-> r.to, snapshot |-> snapshot]]
    BY <1>4, <2>1, Zenon
  <2>3. Becomes(p, r.phase, r.from, r.to, snapshot)
    BY <1>2, <2>2, ServiceBecomes
  <2>. QED BY <1>1, <2>3, Zenon
<1>8. ASSUME serving' = [serving EXCEPT ![p].phase = phase, ![p].snapshot = snapshot]
      PROVE  Becomes(p, phase, serving[p].from, serving[p].to, snapshot)
  <2>1. serving' = [serving EXCEPT ![p] = [r EXCEPT !.phase = phase, !.snapshot = snapshot]]
    BY <1>1, <1>8
  <2>2. serving' = [serving EXCEPT ![p] =
            [phase |-> phase, from |-> r.from, to |-> r.to, snapshot |-> snapshot]]
    BY <1>5, <2>1, Zenon
  <2>3. Becomes(p, phase, r.from, r.to, snapshot)
    BY <1>2, <2>2, ServiceBecomes
  <2>. QED BY <1>1, <2>3, Zenon
<1>. QED BY <1>6, <1>7, <1>8

\* The record of a handler that begins.
LEMMA ServiceBegins ==
    ASSUME NEW phase, NEW to
    PROVE  [NotServing EXCEPT !.phase = phase, !.to = to] =
                [phase |-> phase, from |-> NoWhere, to |-> to, snapshot |-> {}]
<1>1. [NotServing EXCEPT !.phase = phase] =
        [phase |-> phase, from |-> NoWhere, to |-> NoWhere, snapshot |-> {}]
  BY DEF NotServing
<1>2. [[phase |-> phase, from |-> NoWhere, to |-> NoWhere, snapshot |-> {}] EXCEPT !.to = to] =
        [phase |-> phase, from |-> NoWhere, to |-> to, snapshot |-> {}]
  OBVIOUS
<1>3. [NotServing EXCEPT !.phase = phase, !.to = to] =
            [[NotServing EXCEPT !.phase = phase] EXCEPT !.to = to]
  BY Zenon
<1>. QED BY <1>1, <1>2, <1>3, Zenon

\* What a tell does to the lines.
LEMMA TellAdds ==
    ASSUME ViewTypes, NEW players \in SUBSET ViewPlayers, NEW m \in Message, Tell(players, m)
    PROVE  /\ wire' \in [ViewPlayers -> Seq(Message)]
           /\ \A q \in ViewPlayers : Len(wire'[q]) <= MaxQueue
           /\ \A q \in ViewPlayers :
                wire'[q] = IF q \in players THEN Append(wire[q], m) ELSE wire[q]
<1>1. wire' = [q \in ViewPlayers |-> IF q \in players THEN Append(wire[q], m) ELSE wire[q]]
  BY DEF Tell
<1>2. \A q \in ViewPlayers : wire[q] \in Seq(Message) /\ Len(wire[q]) <= MaxQueue
  BY DEF ViewTypes
<1>3. \A q \in players : Len(wire[q]) < MaxQueue
  BY DEF Tell, RoomFor
<1>4. ASSUME NEW q \in ViewPlayers
      PROVE  /\ wire'[q] \in Seq(Message) /\ Len(wire'[q]) <= MaxQueue
             /\ wire'[q] = IF q \in players THEN Append(wire[q], m) ELSE wire[q]
  <2>1. CASE q \in players
    <3>1. /\ Append(wire[q], m) \in Seq(Message) /\ Len(wire[q]) \in Nat
          /\ Len(Append(wire[q], m)) = Len(wire[q]) + 1
      BY <1>2, AppendProperties, LenProperties
    <3>2. wire'[q] = Append(wire[q], m)
      BY <1>1, <2>1
    <3>3. Len(wire[q]) < MaxQueue
      BY <1>3, <2>1
    <3>. QED BY <2>1, <3>1, <3>2, <3>3
  <2>2. CASE q \notin players
    BY <1>1, <1>2, <2>2
  <2>. QED BY <2>1, <2>2
<1>. QED BY <1>1, <1>4

\* What keeps each part of the invariant when little changes.
LEMMA TickKept ==
    ASSUME TickAgrees, looping \in Tick, UNCHANGED <<looping, flickered>>,
           \A n \in ViewNpcs : n \in silent' <=> n \in silent,
           \A n \in ViewNpcs, s \in ViewSectors : n \in listed'[s] <=> n \in listed[s]
    PROVE  TickAgrees'
<1>1. looping.spawns \subseteq ViewNpcs /\ looping.despawns \subseteq ViewNpcs
  BY DEF Tick
<1>. QED BY <1>1 DEF TickAgrees

\* A player stays where its ship and its connection stay.
LEMMA PlacedKept ==
    ASSUME NEW q \in ViewPlayers, Placed(q), serving'[q] = serving[q],
           \A s \in ViewSectors : /\ q \in listed'[s] <=> q \in listed[s]
                                  /\ q \in connected'[s] <=> q \in connected[s]
    PROVE  Placed(q)'
<1>1. \A h, c : At(q, h, c) => At(q, h, c)'
  BY DEF At
<1>. QED BY <1>1, Zenon DEF Placed

\* A client hears nothing.
LEMMA BelievesKept ==
    ASSUME NEW q, NEW x, serving'[q] = serving[q], wire'[q] = wire[q], shown'[q] = shown[q]
    PROVE  (Unanswered(q)' <=> Unanswered(q)) /\ (Believes(q, x)' <=> Believes(q, x))
BY Zenon DEF Believes, Unanswered

\* It is not told of its own ship then.
LEMMA UnnamedKept ==
    ASSUME NEW q, Unnamed(q), serving'[q] = serving[q], wire'[q] = wire[q], shown'[q] = shown[q]
    PROVE  Unnamed(q)'
BY Zenon DEF Unnamed, Unanswered

\* A client that hears nothing stays informed, if what appears or goes is about to
\* be sent, or silent.
LEMMA StillInformed ==
    ASSUME NEW q \in ViewPlayers, Informed(q), q \in raced => q \in raced',
           \A s \in ViewSectors : Follows(q, s)' => Follows(q, s),
           \A x \in Ships : Believes(q, x)' <=> Believes(q, x),
           \A x \in Ships, s \in ViewSectors :
                /\ x \in listed'[s] /\ x \notin OddFor(q)' =>
                        \/ x \in listed[s] /\ x \notin OddFor(q) /\ ~Arriving(x, s)
                        \/ Arriving(x, s)'
                /\ x \in listed[s] \/ Leaving(x, s) =>
                        \/ x \in listed'[s] \/ Leaving(x, s)'
                        \/ x \notin ViewPlayers /\ x \in OddFor(q)'
                /\ x \notin ViewPlayers /\ x \in OddFor(q) => x \in OddFor(q)'
    PROVE  Informed(q)'
<1>. SUFFICES ASSUME NEW s \in ViewSectors, Follows(q, s)', q \notin raced',
                     NEW x \in Ships \ {q}
              PROVE  Knows(q, s, x)'
  BY DEF Informed
<1>1. Knows(q, s, x)
  BY DEF Informed
<1>. QED BY <1>1, Zenon DEF Knows

\* Who is in the way of what is said in sector s.
LEMMA Recipients ==
    ASSUME NEW q \in ViewPlayers, Placed(q), NEW s \in ViewSectors, NEW u \in ViewSectors,
           Follows(q, u), ~(q \in Between /\ serving[q].to = s)
    PROVE  (q \in connected[s] <=> u = s) /\ (u = s => ~Unanswered(q))
<1>1. CASE serving[q].phase = "idle" /\ q \in connected[u]
  <2>1. PICK h \in Places : At(q, h, h)
    BY <1>1 DEF Placed
  <2>. QED BY <1>1, <2>1 DEF At, Unanswered
<1>2. CASE serving[q].phase \in {"snapped", "answered", "welcomed"} /\ serving[q].to = u
  BY <1>2 DEF Placed, At, Unanswered, Between
<1>. QED BY <1>1, <1>2 DEF Follows

\* What is pending about a ship.
LEMMA PendingKept ==
    ASSUME UNCHANGED looping, NEW x, x \in ViewPlayers => serving'[x] = serving[x], NEW s
    PROVE  (Arriving(x, s)' <=> Arriving(x, s)) /\ (Leaving(x, s)' <=> Leaving(x, s))
BY Zenon DEF Arriving, Leaving

\* What is pending about a player's ship is its handler's.
LEMMA PlayerPending ==
    ASSUME looping \in Tick, UNCHANGED looping, NEW p \in ViewPlayers, NEW s
    PROVE  /\ Arriving(p, s) <=> /\ serving[p].phase \in {"entered", "snapped", "welcomed"}
                                 /\ serving[p].to = s
           /\ Leaving(p, s) <=> serving[p].phase = "left" /\ serving[p].from = s
           /\ Arriving(p, s)' <=> /\ serving'[p].phase \in {"entered", "snapped", "welcomed"}
                                  /\ serving'[p].to = s
           /\ Leaving(p, s)' <=> serving'[p].phase = "left" /\ serving'[p].from = s
<1>1. p \notin looping.spawns /\ p \notin looping.despawns
  BY DEF Tick
<1>. QED BY <1>1, Zenon DEF Arriving, Leaving

\* Nobody is connected at the start.
LEMMA ViewStarts == ViewInit => ViewInv
<1>. SUFFICES ASSUME ViewInit PROVE ViewInv
  OBVIOUS
<1>1. NotServing \in Service /\ NotServing.phase = "idle"
  BY DEF NotServing, Service, Phases, Places
<1>2. /\ NoTick \in Tick /\ NoTick.phase = "idle" /\ NoTick.spawns = {} /\ NoTick.despawns = {}
  BY DEF NoTick, Tick, Places
<1>3. <<>> \in Seq(Message) /\ Len(<<>>) = 0
  OBVIOUS
<1>4. /\ \A s \in ViewSectors : listed[s] = {} /\ connected[s] = {}
      /\ \A p \in ViewPlayers : /\ serving[p] = NotServing /\ wire[p] = <<>> /\ shown[p] = {}
      /\ looping = NoTick
  BY DEF ViewInit
<1>5. ViewTypes
  <2>1. /\ listed \in [ViewSectors -> SUBSET Ships]
        /\ connected \in [ViewSectors -> SUBSET ViewPlayers]
    BY DEF ViewInit
  <2>2. serving \in [ViewPlayers -> Service]
    BY <1>1 DEF ViewInit
  <2>3. wire \in [ViewPlayers -> Seq(Message)]
    BY <1>3 DEF ViewInit
  <2>4. shown \in [ViewPlayers -> SUBSET Ships]
    BY DEF ViewInit
  <2>5. \A p \in ViewPlayers : Len(wire[p]) <= MaxQueue
    BY <1>3, <1>4
  <2>. QED BY <1>2, <1>4, <2>1, <2>2, <2>3, <2>4, <2>5 DEF ViewTypes
<1>6. TickAgrees
  BY <1>2, <1>4 DEF TickAgrees
<1>7. ASSUME NEW p \in ViewPlayers PROVE Placed(p) /\ Unnamed(p) /\ Informed(p)
  <2>1. serving[p].phase = "idle"
    BY <1>1, <1>4
  <2>2. At(p, NoWhere, NoWhere) /\ NoWhere \in Places
    BY <1>4 DEF At, Places
  <2>3. Placed(p)
    BY <2>1, <2>2 DEF Placed
  <2>4. NoneOf(wire[p], Naming(p))
    BY <1>4, NothingInLine
  <2>5. Unnamed(p)
    BY <1>4, <2>1, <2>4 DEF Unnamed, Unanswered
  <2>6. \A s \in ViewSectors : ~Follows(p, s)
    BY <1>4, <2>1 DEF Follows
  <2>. QED BY <2>3, <2>5, <2>6 DEF Informed
<1>. QED BY <1>5, <1>6, <1>7 DEF ViewInv

\* A step of p's handler, or of p's client, as the others see it: all that may change
\* for them is where the ship p is.
LEMMA OthersStay ==
    ASSUME ViewInv, NEW p \in ViewPlayers, UNCHANGED <<looping, flickered>>,
           \A q \in ViewPlayers : q # p =>
                /\ serving'[q] = serving[q] /\ wire'[q] = wire[q] /\ shown'[q] = shown[q]
                /\ q \in raced => q \in raced'
                /\ \A u \in ViewSectors : q \in connected'[u] <=> q \in connected[u],
           \A x \in Ships : x # p =>
                /\ x \in silent' <=> x \in silent
                /\ \A u \in ViewSectors : x \in listed'[u] <=> x \in listed[u],
           \A u \in ViewSectors :
                /\ p \in listed'[u] /\ p \notin silent' =>
                        \/ p \in listed[u] /\ p \notin silent /\ ~Arriving(p, u)
                        \/ Arriving(p, u)'
                /\ p \in listed[u] \/ Leaving(p, u) => p \in listed'[u] \/ Leaving(p, u)'
    PROVE  /\ TickAgrees'
           /\ \A q \in ViewPlayers : q # p => Placed(q)' /\ Unnamed(q)' /\ Informed(q)'
           /\ /\ p \in raced => p \in raced'
              /\ \A s \in ViewSectors : Follows(p, s)' => Follows(p, s)
              /\ \A x \in Ships : Believes(p, x)' <=> Believes(p, x)
              => Informed(p)'
<1>1. TickAgrees'
  <2>1. \A n \in ViewNpcs : n # p /\ n \in Ships
    BY DEF Ships
  <2>. QED BY <2>1, TickKept DEF ViewInv, ViewTypes
<1>2. ASSUME NEW q \in ViewPlayers, NEW x \in Ships, NEW u \in ViewSectors
      PROVE  /\ x \in listed'[u] /\ x \notin OddFor(q)' =>
                    \/ x \in listed[u] /\ x \notin OddFor(q) /\ ~Arriving(x, u)
                    \/ Arriving(x, u)'
             /\ x \in listed[u] \/ Leaving(x, u) =>
                    \/ x \in listed'[u] \/ Leaving(x, u)'
                    \/ x \notin ViewPlayers /\ x \in OddFor(q)'
             /\ x \notin ViewPlayers /\ x \in OddFor(q) => x \in OddFor(q)'
  <2>1. /\ x \in silent => x \in OddFor(q)
        /\ x \in silent' => x \in OddFor(q)'
        /\ (x \in silent' <=> x \in silent) => (x \in OddFor(q)' <=> x \in OddFor(q))
        /\ x \notin silent /\ x \notin OddFor(q)' => x \notin OddFor(q)
    BY DEF OddFor
  <2>2. CASE x # p
    <3>1. (Arriving(x, u)' <=> Arriving(x, u)) /\ (Leaving(x, u)' <=> Leaving(x, u))
      BY <2>2, PendingKept
    <3>. QED BY <2>1, <2>2, <3>1, Zenon
  <2>3. CASE x = p
    BY <2>1, <2>3, Zenon
  <2>. QED BY <2>2, <2>3
<1>3. ASSUME NEW q \in ViewPlayers, q # p PROVE Placed(q)' /\ Unnamed(q)' /\ Informed(q)'
  <2>0. Placed(q) /\ Unnamed(q) /\ Informed(q) /\ q \in Ships
    BY DEF ViewInv, Ships
  <2>1. serving'[q] = serving[q] /\ wire'[q] = wire[q] /\ shown'[q] = shown[q]
    BY <1>3
  <2>2. Placed(q)'
    BY <1>3, <2>0, <2>1, PlacedKept
  <2>3. Unnamed(q)'
    BY <2>0, <2>1, UnnamedKept
  <2>4. \A u \in ViewSectors : Follows(q, u)' => Follows(q, u)
    BY <1>3, <2>1 DEF Follows
  <2>5. \A x \in Ships : Believes(q, x)' <=> Believes(q, x)
    BY <2>1, BelievesKept
  <2>6. Informed(q)'
    BY <1>2, <1>3, <2>0, <2>4, <2>5, StillInformed, Zenon
  <2>. QED BY <2>2, <2>3, <2>6
<1>4. ASSUME p \in raced => p \in raced',
             \A s \in ViewSectors : Follows(p, s)' => Follows(p, s),
             \A x \in Ships : Believes(p, x)' <=> Believes(p, x)
      PROVE  Informed(p)'
  <2>1. Informed(p)
    BY DEF ViewInv
  <2>. QED BY <1>2, <1>4, <2>1, StillInformed, Zenon
<1>. QED BY <1>1, <1>3, <1>4, Zenon

\* The ship that a log-in lists is silent: nobody is told.
LEMMA ViewAuthenticates ==
    ASSUME ViewInv, NEW p \in ViewPlayers, NEW s \in ViewSectors, Authenticate(p, s)
    PROVE  ViewInv'
<1>0. ViewTypes
  BY DEF ViewInv
<1>1. /\ serving[p].phase = "idle" /\ \A u \in ViewSectors : p \notin listed[u]
      /\ silent' = silent \cup {p}
      /\ UNCHANGED <<connected, wire, shown, looping, usedNpcs, moves, flickered, raced>>
  <2>1. NotServing.phase = "idle"
    BY DEF NotServing
  <2>. QED BY <2>1 DEF Authenticate, SectorsOf
<1>2. Becomes(p, "connecting", NoWhere, s, {})
  <2>1. [NotServing EXCEPT !.phase = "connecting", !.to = s] =
            [phase |-> "connecting", from |-> NoWhere, to |-> s, snapshot |-> {}]
    BY ServiceBegins
  <2>2. serving' = [serving EXCEPT ![p] =
            [phase |-> "connecting", from |-> NoWhere, to |-> s, snapshot |-> {}]]
    BY <2>1 DEF Authenticate
  <2>3. /\ "connecting" \in Phases /\ NoWhere \in Places /\ s \in Places
        /\ {} \in SUBSET Ships
    BY DEF Phases, Places
  <2>. QED BY <1>0, <2>2, <2>3, ServiceBecomes DEF ViewTypes
<1>3. /\ listed' \in [ViewSectors -> SUBSET Ships]
      /\ \A u \in ViewSectors, x \in Ships :
            x \in listed'[u] <=> x \in listed[u] \/ (u = s /\ x = p)
  BY <1>0 DEF ViewTypes, Authenticate, Ships
<1>4. ViewTypes'
  BY <1>0, <1>1, <1>2, <1>3 DEF ViewTypes, Becomes
<1>5. At(p, s, NoWhere)'
  <2>1. PICK h \in Places : At(p, h, h)
    BY <1>1 DEF ViewInv, Placed
  <2>2. \A u \in ViewSectors : p \notin connected[u]
    BY <1>1, <2>1 DEF At
  <2>. QED BY <1>1, <1>3, <2>2 DEF At, Ships
<1>6. TickAgrees' /\ \A q \in ViewPlayers : q # p => Placed(q)' /\ Unnamed(q)' /\ Informed(q)'
  <2>1. ~Arriving(p, s) /\ \A u \in ViewSectors : ~Leaving(p, u)
    BY <1>0, <1>1, PlayerPending DEF ViewTypes
  <2>2. p \in Ships /\ p \in silent'
    BY <1>1 DEF Ships
  <2>. QED BY <1>1, <1>2, <1>3, <2>1, <2>2, OthersStay DEF Becomes
<1>7. Placed(p)' /\ Unnamed(p)' /\ Informed(p)'
  <2>1. Placed(p)'
    BY <1>2, <1>5 DEF Placed, Becomes
  <2>2. Unnamed(p)'
    BY <1>1, <1>2 DEF ViewInv, Unnamed, Unanswered, Becomes
  <2>3. \A u \in ViewSectors : ~Follows(p, u)'
    BY <1>2 DEF Follows, Becomes
  <2>. QED BY <2>1, <2>2, <2>3 DEF Informed
<1>. QED BY <1>4, <1>6, <1>7 DEF ViewInv

\* The snapshot of p is the list of its sector.
LEMMA ViewSnaps == ASSUME ViewInv, NEW p \in ViewPlayers, Snapshot(p) PROVE ViewInv'
<1>0. ViewTypes /\ Placed(p)
  BY DEF ViewInv
<1>1. PICK t \in ViewSectors : t = serving[p].to
  BY <1>0 DEF Placed, Snapshot
<1>2. /\ raced' = raced \ {p}
      /\ UNCHANGED <<listed, connected, wire, shown, looping, usedNpcs, moves, silent, flickered>>
  BY DEF Snapshot
<1>3. PICK seen \in SUBSET Ships : seen = listed[t] \ {p}
  BY <1>0 DEF ViewTypes
<1>4. PICK ph \in Phases :
        /\ serving' = [serving EXCEPT ![p].phase = ph, ![p].snapshot = seen]
        /\ \/ serving[p].phase = "entered" /\ ph = "snapped"
           \/ serving[p].phase = "connecting" /\ ph = "answered"
  <2>1. CASE serving[p].phase = "entered"
    BY <1>1, <1>3, <2>1 DEF Snapshot, Phases
  <2>2. CASE serving[p].phase = "connecting"
    BY <1>1, <1>3, <2>2 DEF Snapshot, Phases
  <2>. QED BY <2>1, <2>2 DEF Snapshot
<1>5. Becomes(p, ph, serving[p].from, t, seen)
  BY <1>0, <1>1, <1>4, ServiceSteps DEF ViewTypes
<1>6. ViewTypes'
  BY <1>0, <1>2, <1>5 DEF ViewTypes, Becomes
<1>7. TickAgrees' /\ \A q \in ViewPlayers : q # p => Placed(q)' /\ Unnamed(q)' /\ Informed(q)'
  <2>1. \A u \in ViewSectors : /\ Arriving(p, u) => Arriving(p, u)'
                               /\ Leaving(p, u) => Leaving(p, u)'
    <3>. SUFFICES ASSUME NEW u \in ViewSectors
                  PROVE  /\ Arriving(p, u) => Arriving(p, u)'
                         /\ Leaving(p, u) => Leaving(p, u)'
      OBVIOUS
    <3>1. looping \in Tick /\ UNCHANGED looping
      BY <1>0, <1>2 DEF ViewTypes
    <3>2. /\ Arriving(p, u) <=> /\ serving[p].phase \in {"entered", "snapped", "welcomed"}
                                /\ serving[p].to = u
          /\ Leaving(p, u) <=> serving[p].phase = "left" /\ serving[p].from = u
          /\ Arriving(p, u)' <=> /\ serving'[p].phase \in {"entered", "snapped", "welcomed"}
                                 /\ serving'[p].to = u
      BY <3>1, PlayerPending, Zenon
    <3>3. serving'[p].phase = ph /\ serving'[p].to = serving[p].to
      BY <1>1, <1>5 DEF Becomes
    <3>. QED BY <1>4, <3>2, <3>3
  <2>. QED BY <1>2, <1>5, <2>1, OthersStay DEF Becomes
<1>8. Placed(p)' /\ Unnamed(p)'
  <2>1. Placed(p)'
    BY <1>0, <1>1, <1>2, <1>4, <1>5 DEF Placed, At, Becomes
  <2>. QED BY <1>2, <1>3, <1>5, <2>1 DEF ViewInv, Unnamed, Becomes
<1>9. Informed(p)'
  <2>1. Unanswered(p)'
    BY <1>3, <1>4, <1>5 DEF Unanswered, Becomes
  <2>2. \A x \in Ships : x # p => (Believes(p, x)' <=> x \in listed'[t])
    BY <1>2, <1>3, <1>5, <2>1 DEF Believes, Becomes
  <2>3. \A u \in ViewSectors : Follows(p, u)' => u = t
    BY <1>4, <1>5 DEF Follows, Becomes
  <2>. QED BY <2>2, <2>3, Zenon DEF Informed, Knows
<1>. QED BY <1>6, <1>7, <1>8, <1>9 DEF ViewInv

\* The snapshot is sent: what the client believes does not change.
LEMMA SnapshotSent ==
    ASSUME ViewTypes, NEW p \in ViewPlayers, Unanswered(p), Unnamed(p),
           Tell({p}, InitialState(serving[p].snapshot)), UNCHANGED shown, ~Unanswered(p)'
    PROVE  /\ wire' \in [ViewPlayers -> Seq(Message)]
           /\ \A q \in ViewPlayers : Len(wire'[q]) <= MaxQueue
           /\ \A q \in ViewPlayers : q # p => wire'[q] = wire[q]
           /\ \A x \in Ships : Believes(p, x)' <=> Believes(p, x)
           /\ Unnamed(p)'
<1>1. PICK seen \in SUBSET Ships : seen = serving[p].snapshot /\ p \notin seen
  BY DEF ViewTypes, Service, Unnamed
<1>2. InitialState(seen) \in Message
  BY DEF InitialState, Message
<1>3. PICK m \in Message : m = InitialState(seen) /\ m.kind = "initial" /\ m.ships = seen
  BY <1>2 DEF InitialState
<1>4. Tell({p}, m)
  BY <1>1, <1>3
<1>5. /\ wire' \in [ViewPlayers -> Seq(Message)]
      /\ \A q \in ViewPlayers : Len(wire'[q]) <= MaxQueue
      /\ \A q \in ViewPlayers : wire'[q] = IF q \in {p} THEN Append(wire[q], m) ELSE wire[q]
  <2>1. PICK players \in SUBSET ViewPlayers : players = {p}
    OBVIOUS
  <2>2. Tell(players, m)
    BY <1>4, <2>1
  <2>3. /\ wire' \in [ViewPlayers -> Seq(Message)]
        /\ \A q \in ViewPlayers : Len(wire'[q]) <= MaxQueue
        /\ \A q \in ViewPlayers :
                wire'[q] = IF q \in players THEN Append(wire[q], m) ELSE wire[q]
    BY <2>2, TellAdds
  <2>. QED BY <2>1, <2>3, Zenon
<1>6. wire'[p] = Append(wire[p], m) /\ wire[p] \in Seq(Message) /\ shown'[p] = shown[p]
  BY <1>5 DEF ViewTypes
<1>7. ASSUME NEW x \in Ships PROVE Believes(p, x)' <=> Believes(p, x)
  <2>1. m \in Mentions(x) /\ (m \in Showing(p, x) <=> x \in seen)
    BY <1>3 DEF Mentions, Showing
  <2>2. Seen(p, x, shown[p], Append(wire[p], m)) <=> x \in seen
    BY <1>6, <2>1, SeenMore
  <2>3. Believes(p, x)' <=> Seen(p, x, shown[p], Append(wire[p], m))
    BY <1>6, Zenon DEF Believes
  <2>. QED BY <1>1, <2>2, <2>3, Zenon DEF Believes
<1>8. Unnamed(p)'
  <2>1. m \notin Naming(p)
    BY <1>1, <1>3 DEF Naming
  <2>2. NoneOf(wire'[p], Naming(p))
    <3>1. PICK line \in Seq(Message) : line = wire[p]
      BY <1>6
    <3>2. PICK M : M = Naming(p)
      OBVIOUS
    <3>3. NoneOf(Append(line, m), M) <=> NoneOf(line, M) /\ m \notin M
      BY LineLonger
    <3>. QED BY <1>6, <2>1, <3>1, <3>2, <3>3, Zenon DEF Unnamed
  <2>. QED BY <1>6, <2>2, Zenon DEF Unnamed
<1>. QED BY <1>5, <1>7, <1>8

\* The snapshot goes out as the answer to the first connection.
LEMMA ViewAnswers == ASSUME ViewInv, NEW p \in ViewPlayers, AnswerConnection(p) PROVE ViewInv'
<1>0. ViewTypes /\ Placed(p) /\ Unnamed(p) /\ Informed(p)
  BY DEF ViewInv
<1>1. /\ serving[p].phase = "answered" /\ serving[p].snapshot # {p}
      /\ Tell({p}, InitialState(serving[p].snapshot))
      /\ serving' = [serving EXCEPT ![p].snapshot = {p}]
      /\ UNCHANGED <<listed, connected, shown, looping, usedNpcs, moves, silent, flickered,
                     raced>>
  BY DEF AnswerConnection
<1>2. Becomes(p, "answered", serving[p].from, serving[p].to, {p})
  <2>1. {p} \in SUBSET Ships /\ serving[p].phase \in Phases
    BY <1>1 DEF Ships, Phases
  <2>. QED BY <1>0, <1>1, <2>1, ServiceSteps DEF ViewTypes
<1>3. Unanswered(p) /\ ~Unanswered(p)'
  BY <1>1, <1>2 DEF Unanswered, Becomes
<1>4. /\ wire' \in [ViewPlayers -> Seq(Message)]
      /\ \A q \in ViewPlayers : Len(wire'[q]) <= MaxQueue
      /\ \A q \in ViewPlayers : q # p => wire'[q] = wire[q]
      /\ \A x \in Ships : Believes(p, x)' <=> Believes(p, x)
      /\ Unnamed(p)'
  BY <1>0, <1>1, <1>3, SnapshotSent
<1>5. ViewTypes'
  BY <1>0, <1>1, <1>2, <1>4 DEF ViewTypes, Becomes
<1>6. \A u \in ViewSectors : /\ Arriving(p, u)' <=> Arriving(p, u)
                             /\ Leaving(p, u)' <=> Leaving(p, u)
  BY <1>1, <1>2 DEF Arriving, Leaving, Becomes
<1>7. /\ TickAgrees'
      /\ \A q \in ViewPlayers : q # p => Placed(q)' /\ Unnamed(q)' /\ Informed(q)'
      /\ /\ p \in raced => p \in raced'
         /\ \A s \in ViewSectors : Follows(p, s)' => Follows(p, s)
         /\ \A x \in Ships : Believes(p, x)' <=> Believes(p, x)
         => Informed(p)'
  BY <1>1, <1>2, <1>4, <1>6, OthersStay DEF Becomes
<1>8. \A s \in ViewSectors : Follows(p, s)' => Follows(p, s)
  BY <1>1, <1>2 DEF Follows, Becomes
<1>9. Placed(p)'
  BY <1>0, <1>1, <1>2 DEF Placed, At, Becomes
<1>. QED BY <1>1, <1>4, <1>5, <1>7, <1>8, <1>9 DEF ViewInv

\* The snapshot goes out to a ship that has changed its sector.
LEMMA ViewWelcomes == ASSUME ViewInv, NEW p \in ViewPlayers, Welcome(p) PROVE ViewInv'
<1>0. ViewTypes /\ Placed(p) /\ Unnamed(p) /\ Informed(p)
  BY DEF ViewInv
<1>1. /\ serving[p].phase = "snapped" /\ Tell({p}, InitialState(serving[p].snapshot))
      /\ serving' = [serving EXCEPT ![p].phase = "welcomed"]
      /\ UNCHANGED <<listed, connected, shown, looping, usedNpcs, moves, silent, flickered,
                     raced>>
  BY DEF Welcome
<1>2. Becomes(p, "welcomed", serving[p].from, serving[p].to, serving[p].snapshot)
  <2>1. {} \in SUBSET Ships /\ "welcomed" \in Phases
    BY DEF Phases
  <2>. QED BY <1>0, <1>1, <2>1, ServiceSteps DEF ViewTypes
<1>3. Unanswered(p) /\ ~Unanswered(p)'
  BY <1>1, <1>2 DEF Unanswered, Becomes
<1>4. /\ wire' \in [ViewPlayers -> Seq(Message)]
      /\ \A q \in ViewPlayers : Len(wire'[q]) <= MaxQueue
      /\ \A q \in ViewPlayers : q # p => wire'[q] = wire[q]
      /\ \A x \in Ships : Believes(p, x)' <=> Believes(p, x)
      /\ Unnamed(p)'
  BY <1>0, <1>1, <1>3, SnapshotSent
<1>5. ViewTypes'
  BY <1>0, <1>1, <1>2, <1>4 DEF ViewTypes, Becomes
<1>6. \A u \in ViewSectors : /\ Arriving(p, u)' <=> Arriving(p, u)
                             /\ Leaving(p, u)' <=> Leaving(p, u)
  BY <1>1, <1>2 DEF Arriving, Leaving, Becomes
<1>7. /\ TickAgrees'
      /\ \A q \in ViewPlayers : q # p => Placed(q)' /\ Unnamed(q)' /\ Informed(q)'
      /\ /\ p \in raced => p \in raced'
         /\ \A s \in ViewSectors : Follows(p, s)' => Follows(p, s)
         /\ \A x \in Ships : Believes(p, x)' <=> Believes(p, x)
         => Informed(p)'
  BY <1>1, <1>2, <1>4, <1>6, OthersStay DEF Becomes
<1>8. \A s \in ViewSectors : Follows(p, s)' => Follows(p, s)
  BY <1>1, <1>2 DEF Follows, Becomes
<1>9. Placed(p)'
  BY <1>0, <1>1, <1>2 DEF Placed, At, Becomes
<1>. QED BY <1>1, <1>4, <1>5, <1>7, <1>8, <1>9 DEF ViewInv

\* The connection is registered: what was sent in between, it has missed.
LEMMA ViewRegisters ==
    ASSUME ViewInv, NEW p \in ViewPlayers, RegisterConnection(p)
    PROVE  ViewInv'
<1>0. ViewTypes /\ Placed(p) /\ Unnamed(p) /\ Informed(p)
  BY DEF ViewInv
<1>1. /\ serving[p].phase = "answered" /\ serving[p].snapshot = {p}
      /\ serving' = [serving EXCEPT ![p] = NotServing]
      /\ connected' = [connected EXCEPT ![serving[p].to] = @ \cup {p}]
      /\ UNCHANGED <<listed, wire, shown, looping, usedNpcs, moves, silent, flickered, raced>>
  BY DEF RegisterConnection
<1>2. PICK t \in ViewSectors : t = serving[p].to /\ At(p, t, NoWhere)
  BY <1>0, <1>1 DEF Placed
<1>3. Becomes(p, "idle", NoWhere, NoWhere, {})
  <2>1. {} \in SUBSET Ships /\ "idle" \in Phases /\ NoWhere \in Places
    BY DEF Phases, Places
  <2>. QED BY <1>0, <1>1, <2>1, ServiceBecomes DEF ViewTypes, NotServing
<1>4. /\ connected' \in [ViewSectors -> SUBSET ViewPlayers]
      /\ \A u \in ViewSectors, q \in ViewPlayers :
            q \in connected'[u] <=> q \in connected[u] \/ (u = t /\ q = p)
  BY <1>0, <1>1, <1>2 DEF ViewTypes
<1>5. ViewTypes'
  BY <1>0, <1>1, <1>3, <1>4 DEF ViewTypes, Becomes
<1>6. \A u \in ViewSectors : /\ Arriving(p, u)' <=> Arriving(p, u)
                             /\ Leaving(p, u)' <=> Leaving(p, u)
  BY <1>1, <1>3 DEF Arriving, Leaving, Becomes
<1>7. /\ TickAgrees'
      /\ \A q \in ViewPlayers : q # p => Placed(q)' /\ Unnamed(q)' /\ Informed(q)'
      /\ /\ p \in raced => p \in raced'
         /\ \A s \in ViewSectors : Follows(p, s)' => Follows(p, s)
         /\ \A x \in Ships : Believes(p, x)' <=> Believes(p, x)
         => Informed(p)'
  BY <1>1, <1>3, <1>4, <1>6, OthersStay DEF Becomes
<1>8. At(p, t, t)'
  BY <1>1, <1>2, <1>4 DEF At
<1>9. \A s \in ViewSectors : Follows(p, s)' => Follows(p, s)
  BY <1>1, <1>2, <1>3, <1>8 DEF Follows, Becomes, At
<1>10. ~Unanswered(p) /\ ~Unanswered(p)'
  BY <1>1, <1>3 DEF Unanswered, Becomes
<1>11. \A x \in Ships : Believes(p, x)' <=> Believes(p, x)
  BY <1>1, <1>10, Zenon DEF Believes
<1>12. Placed(p)'
  BY <1>3, <1>8 DEF Placed, Becomes, Places
<1>13. Unnamed(p)'
  BY <1>0, <1>1, <1>10, Zenon DEF Unnamed
<1>. QED BY <1>1, <1>5, <1>7, <1>9, <1>11, <1>12, <1>13 DEF ViewInv

\* A ship that leaves is about to be announced as gone.
LEMMA ViewLeaves ==
    ASSUME ViewInv, NEW p \in ViewPlayers, NEW s \in ViewSectors, NEW t \in ViewSectors,
           LeaveOldSector(p, s, t)
    PROVE  ViewInv'
<1>0. ViewTypes /\ Placed(p) /\ Unnamed(p) /\ Informed(p)
  BY DEF ViewInv
<1>1. /\ serving[p].phase = "idle" /\ s # t /\ p \in listed[s] /\ p \in connected[s]
      /\ listed' = [listed EXCEPT ![s] = @ \ {p}]
      /\ connected' = [connected EXCEPT ![s] = @ \ {p}]
      /\ UNCHANGED <<wire, shown, looping, usedNpcs, silent, flickered, raced>>
  BY DEF LeaveOldSector, NotServing
<1>2. Becomes(p, "left", s, t, {})
  <2>1. serving' = [serving EXCEPT ![p] =
            [phase |-> "left", from |-> s, to |-> t, snapshot |-> {}]]
    <3>1. PICK old : old = NotServing
      OBVIOUS
    <3>2. old = [phase |-> "idle", from |-> NoWhere, to |-> NoWhere, snapshot |-> {}]
      BY <3>1 DEF NotServing
    <3>3. [old EXCEPT !.phase = "left", !.from = s, !.to = t] =
            [phase |-> "left", from |-> s, to |-> t, snapshot |-> {}]
      <4>1. [old EXCEPT !.phase = "left", !.from = s, !.to = t] =
                [[[old EXCEPT !.phase = "left"] EXCEPT !.from = s] EXCEPT !.to = t]
        BY Zenon
      <4>2. [old EXCEPT !.phase = "left"] =
                [phase |-> "left", from |-> NoWhere, to |-> NoWhere, snapshot |-> {}]
        BY <3>2
      <4>3. [[phase |-> "left", from |-> NoWhere, to |-> NoWhere, snapshot |-> {}]
                EXCEPT !.from = s] =
                [phase |-> "left", from |-> s, to |-> NoWhere, snapshot |-> {}]
        OBVIOUS
      <4>4. [[phase |-> "left", from |-> s, to |-> NoWhere, snapshot |-> {}] EXCEPT !.to = t] =
                [phase |-> "left", from |-> s, to |-> t, snapshot |-> {}]
        OBVIOUS
      <4>. QED BY <4>1, <4>2, <4>3, <4>4, Zenon
    <3>4. serving' = [serving EXCEPT ![p] =
                [old EXCEPT !.phase = "left", !.from = s, !.to = t]]
      BY <3>1, Zenon DEF LeaveOldSector
    <3>. QED BY <3>3, <3>4, Zenon
  <2>2. {} \in SUBSET Ships /\ "left" \in Phases /\ s \in Places /\ t \in Places
    BY DEF Phases, Places
  <2>. QED BY <1>0, <2>1, <2>2, ServiceBecomes DEF ViewTypes
<1>3. /\ connected' \in [ViewSectors -> SUBSET ViewPlayers]
      /\ listed' \in [ViewSectors -> SUBSET Ships]
      /\ \A u \in ViewSectors, q \in ViewPlayers :
            q \in connected'[u] <=> q \in connected[u] /\ ~(u = s /\ q = p)
      /\ \A u \in ViewSectors, x \in Ships :
            x \in listed'[u] <=> x \in listed[u] /\ ~(u = s /\ x = p)
  BY <1>0, <1>1 DEF ViewTypes
<1>4. ViewTypes'
  BY <1>0, <1>1, <1>2, <1>3 DEF ViewTypes, Becomes
<1>5. At(p, s, s)
  <2>1. PICK h \in Places : At(p, h, h)
    BY <1>0, <1>1 DEF Placed
  <2>. QED BY <1>1, <2>1 DEF At
<1>6. At(p, NoWhere, NoWhere)'
  BY <1>3, <1>5 DEF At, Ships
<1>7. \A u \in ViewSectors : /\ ~Arriving(p, u) /\ ~Leaving(p, u)
                             /\ u = s => Leaving(p, u)'
  <2>. SUFFICES ASSUME NEW u \in ViewSectors
                PROVE  ~Arriving(p, u) /\ ~Leaving(p, u) /\ (u = s => Leaving(p, u)')
    OBVIOUS
  <2>1. /\ Arriving(p, u) <=> /\ serving[p].phase \in {"entered", "snapped", "welcomed"}
                              /\ serving[p].to = u
        /\ Leaving(p, u) <=> serving[p].phase = "left" /\ serving[p].from = u
        /\ Leaving(p, u)' <=> serving'[p].phase = "left" /\ serving'[p].from = u
    BY <1>0, <1>1, PlayerPending, Zenon DEF ViewTypes
  <2>. QED BY <1>1, <1>2, <2>1 DEF Becomes
<1>8. TickAgrees' /\ \A q \in ViewPlayers : q # p => Placed(q)' /\ Unnamed(q)' /\ Informed(q)'
  <2>1. \A u \in ViewSectors :
            /\ p \in listed'[u] => p \in listed[u]
            /\ p \in listed[u] => u = s
    BY <1>3, <1>5 DEF At, Ships
  <2>. QED BY <1>1, <1>2, <1>3, <1>7, <2>1, OthersStay DEF Becomes
<1>9. Placed(p)'
  BY <1>1, <1>2, <1>6 DEF Placed, Becomes
<1>10. Unnamed(p)'
  BY <1>0, <1>1, <1>2 DEF Unnamed, Unanswered, Becomes
<1>11. \A u \in ViewSectors : ~Follows(p, u)'
  BY <1>2 DEF Follows, Becomes
<1>. QED BY <1>4, <1>8, <1>9, <1>10, <1>11 DEF ViewInv, Informed

\* A ship that enters is about to be announced.
LEMMA ViewEnters == ASSUME ViewInv, NEW p \in ViewPlayers, EnterNewSector(p) PROVE ViewInv'
<1>0. ViewTypes /\ Placed(p) /\ Unnamed(p) /\ Informed(p)
  BY DEF ViewInv
<1>1. PICK t \in ViewSectors :
        /\ t = serving[p].to /\ serving[p].phase = "told" /\ At(p, NoWhere, NoWhere)
        /\ listed' = [listed EXCEPT ![t] = @ \cup {p}]
        /\ connected' = [connected EXCEPT ![t] = @ \cup {p}]
        /\ serving' = [serving EXCEPT ![p].phase = "entered"]
        /\ UNCHANGED <<wire, shown, looping, usedNpcs, moves, silent, flickered, raced>>
  BY <1>0 DEF EnterNewSector, Placed
<1>2. Becomes(p, "entered", serving[p].from, t, serving[p].snapshot)
  <2>1. {} \in SUBSET Ships /\ "entered" \in Phases
    BY DEF Phases
  <2>. QED BY <1>0, <1>1, <2>1, ServiceSteps DEF ViewTypes
<1>3. /\ connected' \in [ViewSectors -> SUBSET ViewPlayers]
      /\ listed' \in [ViewSectors -> SUBSET Ships]
      /\ \A u \in ViewSectors, q \in ViewPlayers :
            q \in connected'[u] <=> q \in connected[u] \/ (u = t /\ q = p)
      /\ \A u \in ViewSectors, x \in Ships :
            x \in listed'[u] <=> x \in listed[u] \/ (u = t /\ x = p)
  BY <1>0, <1>1 DEF ViewTypes, Ships
<1>4. ViewTypes'
  BY <1>0, <1>1, <1>2, <1>3 DEF ViewTypes, Becomes
<1>5. At(p, t, t)'
  BY <1>1, <1>3 DEF At, Ships
<1>6. \A u \in ViewSectors : /\ p \notin listed[u] /\ ~Leaving(p, u)
                             /\ p \in listed'[u] => Arriving(p, u)'
  <2>. SUFFICES ASSUME NEW u \in ViewSectors
                PROVE  /\ p \notin listed[u] /\ ~Leaving(p, u)
                       /\ p \in listed'[u] => Arriving(p, u)'
    OBVIOUS
  <2>1. /\ Leaving(p, u) <=> serving[p].phase = "left" /\ serving[p].from = u
        /\ Arriving(p, u)' <=> /\ serving'[p].phase \in {"entered", "snapped", "welcomed"}
                               /\ serving'[p].to = u
    BY <1>0, <1>1, PlayerPending, Zenon DEF ViewTypes
  <2>. QED BY <1>1, <1>2, <1>5, <2>1 DEF Becomes, At
<1>7. TickAgrees' /\ \A q \in ViewPlayers : q # p => Placed(q)' /\ Unnamed(q)' /\ Informed(q)'
  BY <1>1, <1>2, <1>3, <1>6, OthersStay DEF Becomes
<1>8. Placed(p)'
  BY <1>2, <1>5 DEF Placed, Becomes
<1>9. Unnamed(p)'
  BY <1>0, <1>1, <1>2 DEF Unnamed, Unanswered, Becomes
<1>10. \A u \in ViewSectors : ~Follows(p, u)'
  BY <1>2 DEF Follows, Becomes
<1>. QED BY <1>4, <1>7, <1>8, <1>9, <1>10 DEF ViewInv, Informed

\* A client takes in what it believes already.
LEMMA ViewReceives == ASSUME ViewInv, NEW p \in ViewPlayers, Receive(p) PROVE ViewInv'
<1>0. ViewTypes /\ Placed(p) /\ Unnamed(p) /\ Informed(p)
  BY DEF ViewInv
<1>1. wire[p] # <<>> /\ wire' = [wire EXCEPT ![p] = Tail(@)]
      /\ UNCHANGED <<listed, connected, serving, looping, usedNpcs, moves, silent, flickered,
                     raced>>
  BY DEF Receive
<1>2. PICK line \in Seq(Message) : line = wire[p] /\ line # <<>> /\ Len(line) <= MaxQueue
  BY <1>0, <1>1 DEF ViewTypes
<1>3. /\ Head(line) \in Message /\ Tail(line) \in Seq(Message)
      /\ Len(Tail(line)) = Len(line) - 1 /\ Len(line) \in Nat
  BY <1>2, HeadTailProperties, LenProperties
<1>4. PICK m \in Message : m = Head(line)
  BY <1>3
<1>5. m.kind \in {"initial", "update"} /\ m.ships \in SUBSET Ships /\ m.gone \in SUBSET Ships
  BY DEF Message
<1>6. PICK after \in SUBSET Ships :
        /\ shown' = [shown EXCEPT ![p] = after]
        /\ m.kind = "initial" => after = m.ships
        /\ m.kind # "initial" /\ p \in Terminals => after = TerminalApplied(shown[p], m)
        /\ m.kind # "initial" /\ p \notin Terminals => after = WebApplied(shown[p], m)
  <2>0. shown' = [shown EXCEPT ![p] =
                IF m.kind = "initial" THEN m.ships
                ELSE IF p \in Terminals THEN TerminalApplied(shown[p], m)
                     ELSE WebApplied(shown[p], m)]
        /\ shown[p] \subseteq Ships
    <3>1. shown' = [shown EXCEPT ![p] =
                IF Head(wire[p]).kind = "initial" THEN Head(wire[p]).ships
                ELSE IF p \in Terminals THEN TerminalApplied(shown[p], Head(wire[p]))
                     ELSE WebApplied(shown[p], Head(wire[p]))]
      BY <1>0 DEF Receive, ViewTypes
    <3>. QED BY <1>0, <1>2, <1>4, <3>1 DEF ViewTypes
  <2>1. CASE m.kind = "initial"
    <3>1. shown' = [shown EXCEPT ![p] = m.ships]
      BY <2>0, <2>1
    <3>. QED BY <1>5, <2>1, <3>1
  <2>2. CASE m.kind # "initial" /\ p \in Terminals
    <3>1. shown' = [shown EXCEPT ![p] = TerminalApplied(shown[p], m)]
      BY <2>0, <2>2
    <3>2. TerminalApplied(shown[p], m) \in SUBSET Ships
      BY <1>5, <2>0 DEF TerminalApplied
    <3>. QED BY <2>2, <3>1, <3>2
  <2>3. CASE m.kind # "initial" /\ p \notin Terminals
    <3>1. shown' = [shown EXCEPT ![p] = WebApplied(shown[p], m)]
      BY <2>0, <2>3
    <3>2. WebApplied(shown[p], m) \in SUBSET Ships
      BY <1>5, <2>0 DEF WebApplied
    <3>. QED BY <2>3, <3>1, <3>2
  <2>. QED BY <2>1, <2>2, <2>3
<1>7. /\ shown' \in [ViewPlayers -> SUBSET Ships] /\ shown'[p] = after
      /\ wire' \in [ViewPlayers -> Seq(Message)] /\ wire'[p] = Tail(line)
      /\ \A q \in ViewPlayers : q # p => shown'[q] = shown[q] /\ wire'[q] = wire[q]
  BY <1>0, <1>1, <1>2, <1>3, <1>6 DEF ViewTypes
<1>8. ViewTypes'
  <2>1. ASSUME NEW q \in ViewPlayers PROVE Len(wire'[q]) <= MaxQueue
    <3>1. CASE q = p
      BY <1>2, <1>3, <1>7, <3>1
    <3>2. CASE q # p
      <4>1. wire'[q] = wire[q] /\ Len(wire[q]) <= MaxQueue
        BY <1>0, <1>7, <3>2 DEF ViewTypes
      <4>. QED BY <4>1
    <3>. QED BY <3>1, <3>2
  <2>. QED BY <1>0, <1>1, <1>7, <2>1 DEF ViewTypes
<1>9. \A x \in Ships : /\ m \in Mentions(x) => (x \in after <=> m \in Showing(p, x))
                       /\ m \notin Mentions(x) => (x \in after <=> x \in shown[p])
  <2>1. CASE m.kind = "initial"
    BY <1>6, <2>1 DEF Mentions, Showing
  <2>2. CASE m.kind # "initial" /\ p \in Terminals
    BY <1>6, <2>2 DEF Mentions, Showing, TerminalApplied
  <2>3. CASE m.kind # "initial" /\ p \notin Terminals
    BY <1>6, <2>3 DEF Mentions, Showing, WebApplied
  <2>. QED BY <2>1, <2>2, <2>3
<1>10. \A x \in Ships : Seen(p, x, after, Tail(line)) <=> Seen(p, x, shown[p], line)
  BY <1>2, <1>4, <1>9, SeenTaken
<1>11. Unanswered(p)' <=> Unanswered(p)
  BY <1>1 DEF Unanswered
<1>12. \A x \in Ships : Believes(p, x)' <=> Believes(p, x)
  BY <1>1, <1>2, <1>7, <1>10, <1>11, Zenon DEF Believes
<1>13. Unnamed(p)'
  <2>1. PICK M : M = Naming(p)
    OBVIOUS
  <2>2. NoneOf(line, M) <=> Head(line) \notin M /\ NoneOf(Tail(line), M)
    BY <1>2, LineShorter
  <2>3. m \notin Naming(p) /\ NoneOf(wire'[p], Naming(p))
    BY <1>0, <1>2, <1>4, <1>7, <2>1, <2>2, Zenon DEF Unnamed
  <2>4. p \notin after
    <3>1. p \notin m.ships /\ p \notin shown[p]
      BY <1>0, <2>3 DEF Naming, Unnamed
    <3>. QED BY <1>6, <3>1 DEF TerminalApplied, WebApplied
  <2>. QED BY <1>0, <1>1, <1>7, <1>11, <2>3, <2>4, Zenon DEF Unnamed
<1>14. Placed(p)'
  BY <1>0, <1>1, PlacedKept
<1>15. \A u \in ViewSectors : /\ Arriving(p, u)' <=> Arriving(p, u)
                              /\ Leaving(p, u)' <=> Leaving(p, u)
                              /\ Follows(p, u)' <=> Follows(p, u)
  BY <1>1, Zenon DEF Arriving, Leaving, Follows
<1>16. /\ TickAgrees'
       /\ \A q \in ViewPlayers : q # p => Placed(q)' /\ Unnamed(q)' /\ Informed(q)'
       /\ /\ p \in raced => p \in raced'
          /\ \A s \in ViewSectors : Follows(p, s)' => Follows(p, s)
          /\ \A x \in Ships : Believes(p, x)' <=> Believes(p, x)
          => Informed(p)'
  BY <1>1, <1>7, <1>15, OthersStay
<1>. QED BY <1>1, <1>8, <1>12, <1>13, <1>14, <1>15, <1>16 DEF ViewInv

-----------------------------------------------------------------------------

\* What is said to some players, as each of them takes it.
LEMMA Hears ==
    ASSUME ViewTypes, NEW m \in Message, m.kind = "update", NEW players \in SUBSET ViewPlayers,
           Tell(players, m), UNCHANGED shown, NEW q \in ViewPlayers,
           serving'[q] = serving[q] \/ (~Unanswered(q) /\ ~Unanswered(q)')
    PROVE  /\ Unnamed(q) /\ (q \in players => q \notin m.ships) => Unnamed(q)'
           /\ \A x \in Ships : q \notin players \/ x \notin m.ships \cup m.gone =>
                (Believes(q, x)' <=> Believes(q, x))
           /\ \A x \in Ships : (q \in players /\ ~Unanswered(q) /\ x \in m.ships \cup m.gone) =>
                (Believes(q, x)' <=> x \in m.ships /\ (q \notin Terminals \/ x \notin m.gone))
<1>1. PICK line \in Seq(Message) : line = wire[q]
  BY DEF ViewTypes
<1>2. wire'[q] = (IF q \in players THEN Append(line, m) ELSE line) /\ shown'[q] = shown[q]
  BY <1>1, TellAdds
<1>3. /\ Unanswered(q)' <=> Unanswered(q)
      /\ Unanswered(q) => serving'[q] = serving[q]
  BY Zenon DEF Unanswered
<1>4. ASSUME Unnamed(q), q \in players => q \notin m.ships PROVE Unnamed(q)'
  <2>1. PICK M : M = Naming(q)
    OBVIOUS
  <2>2. NoneOf(Append(line, m), M) <=> NoneOf(line, M) /\ m \notin M
    BY LineLonger
  <2>3. q \in players => m \notin M
    BY <1>4, <2>1 DEF Naming
  <2>4. NoneOf(wire'[q], M)
    BY <1>1, <1>2, <1>4, <2>1, <2>2, <2>3, Zenon DEF Unnamed
  <2>. QED BY <1>2, <1>3, <1>4, <2>1, <2>4, Zenon DEF Unnamed
<1>5. ASSUME NEW x \in Ships
      PROVE  /\ q \notin players \/ x \notin m.ships \cup m.gone =>
                    (Believes(q, x)' <=> Believes(q, x))
             /\ (q \in players /\ ~Unanswered(q) /\ x \in m.ships \cup m.gone) =>
                    (Believes(q, x)' <=> x \in m.ships /\ (q \notin Terminals \/ x \notin m.gone))
  <2>1. /\ m \in Mentions(x) <=> x \in m.ships \cup m.gone
        /\ m \in Showing(q, x) <=> x \in m.ships /\ (q \notin Terminals \/ x \notin m.gone)
    BY DEF Mentions, Showing
  <2>2. /\ m \notin Mentions(x) =>
                (Seen(q, x, shown[q], Append(line, m)) <=> Seen(q, x, shown[q], line))
        /\ m \in Mentions(x) =>
                (Seen(q, x, shown[q], Append(line, m)) <=> m \in Showing(q, x))
    BY SeenMore
  <2>3. CASE Unanswered(q)
    <3>1. Believes(q, x)' <=> Believes(q, x)
      BY <1>3, <2>3, Zenon DEF Believes
    <3>. QED BY <2>3, <3>1
  <2>4. CASE ~Unanswered(q)
    <3>1. /\ Believes(q, x) <=> Seen(q, x, shown[q], line)
          /\ Believes(q, x)' <=> Seen(q, x, shown[q], wire'[q])
      BY <1>1, <1>2, <1>3, <2>4, Zenon DEF Believes
    <3>. QED BY <1>2, <2>1, <2>2, <2>4, <3>1, Zenon
  <2>. QED BY <2>3, <2>4
<1>. QED BY <1>4, <1>5, Zenon

\* The others of the old sector are told that the ship is gone.
LEMMA ViewTellsOld == ASSUME ViewInv, NEW p \in ViewPlayers, TellOldSector(p) PROVE ViewInv'
<1>0. ViewTypes /\ Placed(p) /\ Unnamed(p) /\ Informed(p) /\ p \in Ships
  BY DEF ViewInv, Ships
<1>1. PICK s \in ViewSectors :
        /\ s = serving[p].from /\ serving[p].phase = "left" /\ At(p, NoWhere, NoWhere)
        /\ serving[p].to \in ViewSectors /\ s # serving[p].to
        /\ Tell(connected[s], StateUpdate({}, {p}))
        /\ raced' = raced \cup {q \in Between : serving[q].to = s}
        /\ serving' = [serving EXCEPT ![p].phase = "told"]
        /\ UNCHANGED <<listed, connected, shown, looping, usedNpcs, moves, silent, flickered>>
  BY <1>0 DEF TellOldSector, Placed
<1>2. Becomes(p, "told", s, serving[p].to, serving[p].snapshot)
  <2>1. {} \in SUBSET Ships /\ "told" \in Phases
    BY DEF Phases
  <2>. QED BY <1>0, <1>1, <2>1, ServiceSteps DEF ViewTypes
<1>3. PICK m \in Message : /\ m = StateUpdate({}, {p}) /\ m.kind = "update"
                           /\ m.ships = {} /\ m.gone = {p}
  <2>1. StateUpdate({}, {p}) \in Message
    BY <1>0 DEF StateUpdate, Message
  <2>. QED BY <2>1 DEF StateUpdate
<1>4. PICK players \in SUBSET ViewPlayers : players = connected[s]
  BY <1>0 DEF ViewTypes
<1>5. Tell(players, m)
  BY <1>1, <1>3, <1>4
<1>6. ViewTypes'
  <2>1. /\ wire' \in [ViewPlayers -> Seq(Message)]
        /\ \A q \in ViewPlayers : Len(wire'[q]) <= MaxQueue
    BY <1>0, <1>5, TellAdds
  <2>. QED BY <1>0, <1>1, <1>2, <2>1 DEF ViewTypes, Becomes
<1>7. TickAgrees'
  BY <1>0, <1>1, TickKept DEF ViewInv, ViewTypes
<1>8. /\ Placed(p)' /\ \A u \in ViewSectors : ~Follows(p, u)'
      /\ ~Unanswered(p) /\ ~Unanswered(p)'
  BY <1>1, <1>2 DEF Placed, At, Becomes, Follows, Unanswered
<1>9. Unnamed(p)'
  <2>1. UNCHANGED shown
    BY <1>1
  <2>. QED BY <1>0, <1>3, <1>5, <1>8, <2>1, Hears
<1>10. ASSUME NEW q \in ViewPlayers, q # p PROVE Placed(q)' /\ Unnamed(q)' /\ Informed(q)'
  <2>0. Placed(q) /\ Unnamed(q) /\ Informed(q) /\ serving'[q] = serving[q] /\ UNCHANGED shown
    BY <1>1, <1>2, <1>10 DEF ViewInv, Becomes
  <2>1. Placed(q)'
    BY <1>1, <2>0, PlacedKept
  <2>2. /\ Unnamed(q)'
        /\ \A x \in Ships : q \notin players \/ x \notin m.ships \cup m.gone =>
                (Believes(q, x)' <=> Believes(q, x))
        /\ \A x \in Ships : (q \in players /\ ~Unanswered(q) /\ x \in m.ships \cup m.gone) =>
                (Believes(q, x)' <=> x \in m.ships /\ (q \notin Terminals \/ x \notin m.gone))
    BY <1>0, <1>3, <1>5, <2>0, Hears
  <2>3. ASSUME NEW u \in ViewSectors, Follows(q, u)', q \notin raced', NEW x \in Ships \ {q}
        PROVE  Knows(q, u, x)'
    <3>1. Follows(q, u) /\ q \notin raced /\ ~(q \in Between /\ serving[q].to = s)
      BY <1>1, <2>0, <2>3, Zenon DEF Follows
    <3>2. (q \in players <=> u = s) /\ (u = s => ~Unanswered(q))
      BY <1>4, <2>0, <3>1, Recipients
    <3>3. Knows(q, u, x)
      BY <2>0, <3>1 DEF Informed
    <3>4. OddFor(q)' = OddFor(q)
      BY <1>1 DEF OddFor
    <3>5. CASE x # p
      <4>1. Believes(q, x)' <=> Believes(q, x)
        BY <1>3, <2>2, <3>5
      <4>2. (Arriving(x, u)' <=> Arriving(x, u)) /\ (Leaving(x, u)' <=> Leaving(x, u))
        BY <1>1, <1>2, <3>5, PendingKept DEF Becomes
      <4>. QED BY <1>1, <3>3, <3>4, <4>1, <4>2, Zenon DEF Knows
    <3>6. CASE x = p
      <4>1. p \notin listed'[u]
        BY <1>1 DEF At
      <4>2. ~Believes(q, p)'
        <5>1. CASE u = s
          BY <1>0, <1>3, <2>2, <3>2, <5>1
        <5>2. CASE u # s
          <6>1. ~Leaving(p, u)
            BY <1>0, <1>1, <5>2, PlayerPending DEF ViewTypes
          <6>2. ~Believes(q, p)
            BY <1>1, <3>3, <3>6, <4>1, <6>1, Zenon DEF Knows
          <6>. QED BY <1>0, <2>2, <3>2, <5>2, <6>2, Zenon
        <5>. QED BY <5>1, <5>2
      <4>. QED BY <3>6, <4>1, <4>2, Zenon DEF Knows
    <3>. QED BY <3>5, <3>6
  <2>. QED BY <2>1, <2>2, <2>3, Zenon DEF Informed
<1>. QED BY <1>6, <1>7, <1>8, <1>9, <1>10, Zenon DEF ViewInv, Informed

\* The others of the new sector are told that the ship is there.
LEMMA ViewAnnounces == ASSUME ViewInv, NEW p \in ViewPlayers, Announce(p) PROVE ViewInv'
<1>0. ViewTypes /\ Placed(p) /\ Unnamed(p) /\ Informed(p) /\ p \in Ships
  BY DEF ViewInv, Ships
<1>1. PICK t \in ViewSectors :
        /\ t = serving[p].to /\ serving[p].phase = "welcomed" /\ At(p, t, t)
        /\ Tell(connected[t] \ {p}, StateUpdate({p}, {}))
        /\ raced' = raced \cup {q \in Between : serving[q].to = t}
        /\ silent' = silent \ {p}
        /\ serving' = [serving EXCEPT ![p] = NotServing]
        /\ UNCHANGED <<listed, connected, shown, looping, usedNpcs, moves, flickered>>
  BY <1>0 DEF Announce, Placed
<1>2. Becomes(p, "idle", NoWhere, NoWhere, {})
  <2>1. {} \in SUBSET Ships /\ "idle" \in Phases /\ NoWhere \in Places
    BY DEF Phases, Places
  <2>. QED BY <1>0, <1>1, <2>1, ServiceBecomes DEF ViewTypes, NotServing
<1>3. PICK m \in Message : /\ m = StateUpdate({p}, {}) /\ m.kind = "update"
                           /\ m.ships = {p} /\ m.gone = {}
  <2>1. StateUpdate({p}, {}) \in Message
    BY <1>0 DEF StateUpdate, Message
  <2>. QED BY <2>1 DEF StateUpdate
<1>4. PICK players \in SUBSET ViewPlayers : players = connected[t] \ {p}
  BY <1>0 DEF ViewTypes
<1>5. Tell(players, m) /\ UNCHANGED shown
  BY <1>1, <1>3, <1>4
<1>6. ViewTypes'
  <2>1. /\ wire' \in [ViewPlayers -> Seq(Message)]
        /\ \A q \in ViewPlayers : Len(wire'[q]) <= MaxQueue
    BY <1>0, <1>5, TellAdds
  <2>. QED BY <1>0, <1>1, <1>2, <2>1 DEF ViewTypes, Becomes
<1>7. TickAgrees'
  <2>1. p \notin ViewNpcs
    OBVIOUS
  <2>. QED BY <1>0, <1>1, <2>1, TickKept DEF ViewInv, ViewTypes
<1>8. Placed(p)'
  <2>1. At(p, t, t)' /\ t \in Places
    BY <1>1 DEF At, Places
  <2>. QED BY <1>2, <2>1 DEF Placed, Becomes
<1>9. ~Unanswered(p) /\ ~Unanswered(p)'
  BY <1>1, <1>2 DEF Becomes, Unanswered
<1>10. /\ \A u \in ViewSectors : Arriving(p, u) <=> u = t
       /\ \A u \in ViewSectors : ~Leaving(p, u)
  <2>1. ASSUME NEW u \in ViewSectors PROVE (Arriving(p, u) <=> u = t) /\ ~Leaving(p, u)
    <3>1. /\ Arriving(p, u) <=> /\ serving[p].phase \in {"entered", "snapped", "welcomed"}
                                /\ serving[p].to = u
          /\ Leaving(p, u) <=> serving[p].phase = "left" /\ serving[p].from = u
      BY <1>0, <1>1, PlayerPending, Zenon DEF ViewTypes
    <3>. QED BY <1>1, <3>1
  <2>. QED BY <2>1
<1>11. ASSUME NEW q \in ViewPlayers PROVE Unnamed(q)' /\ Informed(q)'
  <2>0. Placed(q) /\ Unnamed(q) /\ Informed(q)
    BY DEF ViewInv
  <2>1. serving'[q] = serving[q] \/ (~Unanswered(q) /\ ~Unanswered(q)')
    BY <1>2, <1>9 DEF Becomes
  <2>2. /\ Unnamed(q) /\ (q \in players => q \notin m.ships) => Unnamed(q)'
        /\ \A x \in Ships : q \notin players \/ x \notin m.ships \cup m.gone =>
                (Believes(q, x)' <=> Believes(q, x))
        /\ \A x \in Ships : (q \in players /\ ~Unanswered(q) /\ x \in m.ships \cup m.gone) =>
                (Believes(q, x)' <=> x \in m.ships /\ (q \notin Terminals \/ x \notin m.gone))
    BY <1>0, <1>3, <1>5, <2>1, Hears
  <2>3. Unnamed(q)'
    BY <1>3, <1>4, <2>0, <2>2
  <2>4. ASSUME NEW u \in ViewSectors, Follows(q, u)', q \notin raced', NEW x \in Ships \ {q}
        PROVE  Knows(q, u, x)'
    <3>1. q \notin raced /\ ~(q \in Between /\ serving[q].to = t)
      BY <1>1, <2>4, Zenon
    <3>2. Follows(q, u)
      <4>1. CASE q = p
        <5>1. q \in connected'[u] /\ connected' = connected
          BY <1>1, <1>2, <2>4, <4>1 DEF Follows, Becomes
        <5>. QED BY <1>1, <4>1, <5>1 DEF Follows, At
      <4>2. CASE q # p
        <5>1. serving'[q] = serving[q]
          BY <1>2, <4>2 DEF Becomes
        <5>. QED BY <1>1, <2>4, <5>1, Zenon DEF Follows
      <4>. QED BY <4>1, <4>2
    <3>3. (q \in connected[t] <=> u = t) /\ (u = t => ~Unanswered(q))
      BY <2>0, <3>1, <3>2, Recipients
    <3>4. Knows(q, u, x)
      BY <2>0, <3>1, <3>2 DEF Informed
    <3>5. CASE x # p
      <4>1. Believes(q, x)' <=> Believes(q, x)
        BY <1>3, <2>2, <3>5
      <4>2. (Arriving(x, u)' <=> Arriving(x, u)) /\ (Leaving(x, u)' <=> Leaving(x, u))
        BY <1>1, <1>2, <3>5, PendingKept DEF Becomes
      <4>3. x \in OddFor(q)' <=> x \in OddFor(q)
        BY <1>1, <3>5 DEF OddFor
      <4>. QED BY <1>1, <3>4, <4>1, <4>2, <4>3, Zenon DEF Knows
    <3>6. CASE x = p
      <4>1. p \in listed'[u] <=> u = t
        BY <1>1 DEF At
      <4>2. Believes(q, p)' <=> u = t
        <5>1. CASE u = t
          <6>1. q \in players
            BY <1>4, <3>3, <3>6, <5>1
          <6>. QED BY <1>0, <1>3, <2>2, <3>3, <5>1, <6>1
        <5>2. CASE u # t
          <6>1. q \notin players
            BY <1>4, <3>3, <5>2
          <6>2. p \notin listed[u]
            BY <1>1, <5>2 DEF At
          <6>3. ~Believes(q, p)
            BY <1>10, <3>4, <3>6, <6>2, Zenon DEF Knows
          <6>. QED BY <1>0, <2>2, <5>2, <6>1, <6>3, Zenon
        <5>. QED BY <5>1, <5>2
      <4>. QED BY <3>6, <4>1, <4>2, Zenon DEF Knows
    <3>. QED BY <3>5, <3>6
  <2>. QED BY <2>3, <2>4, Zenon DEF Informed
<1>12. ASSUME NEW q \in ViewPlayers, q # p PROVE Placed(q)'
  <2>1. Placed(q) /\ serving'[q] = serving[q]
    BY <1>2, <1>12 DEF Becomes, ViewInv
  <2>. QED BY <1>1, <2>1, PlacedKept
<1>. QED BY <1>6, <1>7, <1>8, <1>11, <1>12, Zenon DEF ViewInv

-----------------------------------------------------------------------------

\* A step of a tick, or a silent change: only what is listed of the NPCs changes, and
\* what has still to be sent about them.
LEMMA TickInforms ==
    ASSUME ViewInv, looping' \in Tick, UNCHANGED <<connected, serving, wire, shown, raced>>,
           \A x \in ViewPlayers, u \in ViewSectors : x \in listed'[u] <=> x \in listed[u],
           \A x \in ViewPlayers : /\ x \in silent' <=> x \in silent
                                  /\ x \in flickered' <=> x \in flickered,
           \A x \in ViewNpcs : /\ x \in silent => x \in silent'
                               /\ x \in flickered => x \in flickered',
           \A x \in ViewNpcs, u \in ViewSectors :
                /\ x \in listed'[u] /\ x \notin silent' =>
                        \/ /\ x \in listed[u] /\ x \notin silent
                           /\ ~(looping.sector = u /\ x \in looping.spawns)
                        \/ looping'.sector = u /\ x \in looping'.spawns
                /\ x \in listed[u] \/ (looping.sector = u /\ x \in looping.despawns) =>
                        \/ x \in listed'[u]
                        \/ looping'.sector = u /\ x \in looping'.despawns
                        \/ x \in silent'
    PROVE  \A q \in ViewPlayers : Placed(q)' /\ Unnamed(q)' /\ Informed(q)'
<1>. TAKE q \in ViewPlayers
<1>0. Placed(q) /\ Unnamed(q) /\ Informed(q) /\ looping \in Tick
  BY DEF ViewInv, ViewTypes
<1>1. serving'[q] = serving[q] /\ wire'[q] = wire[q] /\ shown'[q] = shown[q]
  OBVIOUS
<1>2. Placed(q)'
  BY <1>0, <1>1, PlacedKept
<1>3. Unnamed(q)'
  BY <1>0, <1>1, UnnamedKept
<1>4. ASSUME NEW x \in Ships, NEW u \in ViewSectors
      PROVE  /\ x \in listed'[u] /\ x \notin OddFor(q)' =>
                    \/ x \in listed[u] /\ x \notin OddFor(q) /\ ~Arriving(x, u)
                    \/ Arriving(x, u)'
             /\ x \in listed[u] \/ Leaving(x, u) =>
                    \/ x \in listed'[u] \/ Leaving(x, u)'
                    \/ x \notin ViewPlayers /\ x \in OddFor(q)'
             /\ x \notin ViewPlayers /\ x \in OddFor(q) => x \in OddFor(q)'
  <2>1. CASE x \in ViewPlayers
    <3>1. /\ x \notin looping.spawns /\ x \notin looping.despawns
          /\ x \notin looping'.spawns /\ x \notin looping'.despawns
      BY <1>0, <2>1 DEF Tick
    <3>2. (Arriving(x, u)' <=> Arriving(x, u)) /\ (Leaving(x, u)' <=> Leaving(x, u))
      BY <2>1, <3>1, Zenon DEF Arriving, Leaving
    <3>3. x \in OddFor(q)' <=> x \in OddFor(q)
      BY <2>1 DEF OddFor
    <3>. QED BY <2>1, <3>2, <3>3, Zenon
  <2>2. CASE x \notin ViewPlayers
    <3>1. x \in ViewNpcs
      BY <2>2 DEF Ships
    <3>2. /\ Arriving(x, u) <=> looping.sector = u /\ x \in looping.spawns
          /\ Leaving(x, u) <=> looping.sector = u /\ x \in looping.despawns
          /\ Arriving(x, u)' <=> looping'.sector = u /\ x \in looping'.spawns
          /\ Leaving(x, u)' <=> looping'.sector = u /\ x \in looping'.despawns
      BY <2>2, Zenon DEF Arriving, Leaving
    <3>3. /\ x \in OddFor(q) => x \in OddFor(q)'
          /\ x \in silent' => x \in OddFor(q)'
          /\ x \notin silent /\ x \notin OddFor(q)' => x \notin OddFor(q)
      BY <3>1 DEF OddFor
    <3>. QED BY <2>2, <3>1, <3>2, <3>3, Zenon
  <2>. QED BY <2>1, <2>2
<1>5. \A u \in ViewSectors : Follows(q, u)' => Follows(q, u)
  BY <1>1 DEF Follows
<1>6. \A x \in Ships : Believes(q, x)' <=> Believes(q, x)
  BY <1>1, BelievesKept
<1>7. Informed(q)'
  BY <1>0, <1>4, <1>5, <1>6, StillInformed, Zenon
<1>. QED BY <1>2, <1>3, <1>7

\* A tick begins.
LEMMA ViewTicks == ASSUME ViewInv, NEW s \in ViewSectors, StartTick(s) PROVE ViewInv'
<1>0. ViewTypes /\ NoTick.spawns = {} /\ NoTick.despawns = {}
  BY DEF ViewInv, NoTick
<1>1. /\ looping = NoTick
      /\ UNCHANGED <<listed, connected, serving, wire, shown, usedNpcs, moves, silent, flickered,
                     raced>>
  BY DEF StartTick
<1>2. /\ looping' \in Tick /\ looping'.phase = "spawn" /\ looping'.sector = s
      /\ looping'.spawns = {} /\ looping'.despawns = {}
  <2>1. PICK old : old = NoTick
    OBVIOUS
  <2>2. old = [phase |-> "idle", sector |-> NoWhere, spawns |-> {}, despawns |-> {}]
    BY <2>1 DEF NoTick
  <2>3. [old EXCEPT !.phase = "spawn", !.sector = s] =
            [[old EXCEPT !.phase = "spawn"] EXCEPT !.sector = s]
    BY Zenon
  <2>4. [old EXCEPT !.phase = "spawn"] =
            [phase |-> "spawn", sector |-> NoWhere, spawns |-> {}, despawns |-> {}]
    BY <2>2
  <2>5. [[phase |-> "spawn", sector |-> NoWhere, spawns |-> {}, despawns |-> {}]
            EXCEPT !.sector = s] =
            [phase |-> "spawn", sector |-> s, spawns |-> {}, despawns |-> {}]
    OBVIOUS
  <2>6. looping' = [old EXCEPT !.phase = "spawn", !.sector = s]
    BY <2>1, Zenon DEF StartTick
  <2>7. looping' = [phase |-> "spawn", sector |-> s, spawns |-> {}, despawns |-> {}]
    BY <2>3, <2>4, <2>5, <2>6, Zenon
  <2>8. s \in Places
    BY DEF Places
  <2>. QED BY <2>7, <2>8 DEF Tick
<1>3. ViewTypes'
  BY <1>0, <1>1, <1>2 DEF ViewTypes
<1>4. TickAgrees'
  BY <1>2 DEF TickAgrees
<1>5. looping.spawns = {} /\ looping.despawns = {}
  BY <1>0, <1>1
<1>6. \A q \in ViewPlayers : Placed(q)' /\ Unnamed(q)' /\ Informed(q)'
  BY <1>1, <1>2, <1>5, TickInforms
<1>. QED BY <1>3, <1>4, <1>6 DEF ViewInv

\* A record of a tick that changes in some fields.
LEMMA TickSteps ==
    ASSUME looping \in Tick, NEW phase \in {"idle", "spawn", "attach", "clean", "send"},
           NEW ships \in SUBSET ViewNpcs
    PROVE  /\ looping' = [looping EXCEPT !.phase = phase] =>
                /\ looping' \in Tick /\ looping'.phase = phase
                /\ looping'.sector = looping.sector
                /\ looping'.spawns = looping.spawns /\ looping'.despawns = looping.despawns
           /\ looping' = [looping EXCEPT !.phase = phase, !.spawns = ships] =>
                /\ looping' \in Tick /\ looping'.phase = phase
                /\ looping'.sector = looping.sector
                /\ looping'.spawns = ships /\ looping'.despawns = looping.despawns
           /\ looping' = [looping EXCEPT !.phase = phase, !.despawns = ships] =>
                /\ looping' \in Tick /\ looping'.phase = phase
                /\ looping'.sector = looping.sector
                /\ looping'.spawns = looping.spawns /\ looping'.despawns = ships
<1>1. PICK old \in [phase : {"idle", "spawn", "attach", "clean", "send"}, sector : Places,
                    spawns : SUBSET ViewNpcs, despawns : SUBSET ViewNpcs] : old = looping
  BY DEF Tick
<1>2. /\ [old EXCEPT !.phase = phase] \in Tick
      /\ [old EXCEPT !.phase = phase].phase = phase
      /\ [old EXCEPT !.phase = phase].sector = old.sector
      /\ [old EXCEPT !.phase = phase].spawns = old.spawns
      /\ [old EXCEPT !.phase = phase].despawns = old.despawns
  BY DEF Tick
<1>3. PICK mid \in [phase : {"idle", "spawn", "attach", "clean", "send"}, sector : Places,
                    spawns : SUBSET ViewNpcs, despawns : SUBSET ViewNpcs] :
        /\ mid = [old EXCEPT !.phase = phase] /\ mid.phase = phase /\ mid.sector = old.sector
        /\ mid.spawns = old.spawns /\ mid.despawns = old.despawns
  BY <1>2 DEF Tick
<1>4. /\ [mid EXCEPT !.spawns = ships] \in Tick
      /\ [mid EXCEPT !.spawns = ships].phase = mid.phase
      /\ [mid EXCEPT !.spawns = ships].sector = mid.sector
      /\ [mid EXCEPT !.spawns = ships].spawns = ships
      /\ [mid EXCEPT !.spawns = ships].despawns = mid.despawns
  BY DEF Tick
<1>5. /\ [mid EXCEPT !.despawns = ships] \in Tick
      /\ [mid EXCEPT !.despawns = ships].phase = mid.phase
      /\ [mid EXCEPT !.despawns = ships].sector = mid.sector
      /\ [mid EXCEPT !.despawns = ships].spawns = mid.spawns
      /\ [mid EXCEPT !.despawns = ships].despawns = ships
  BY DEF Tick
<1>6. /\ [old EXCEPT !.phase = phase, !.spawns = ships] =
                [[old EXCEPT !.phase = phase] EXCEPT !.spawns = ships]
      /\ [old EXCEPT !.phase = phase, !.despawns = ships] =
                [[old EXCEPT !.phase = phase] EXCEPT !.despawns = ships]
  BY Zenon
<1>. QED BY <1>1, <1>2, <1>3, <1>4, <1>5, <1>6, Zenon

\* An NPC that is listed is about to be sent.
LEMMA ViewSpawns == ASSUME ViewInv, NEW n \in ViewNpcs, SpawnNpc(n) PROVE ViewInv'
<1>0. ViewTypes /\ TickAgrees
  BY DEF ViewInv
<1>1. PICK s \in ViewSectors :
        /\ s = looping.sector /\ looping.phase = "spawn"
        /\ looping.spawns = {} /\ looping.despawns = {}
        /\ listed' = [listed EXCEPT ![s] = @ \cup {n}]
        /\ looping' = [looping EXCEPT !.phase = "attach", !.spawns = {n}]
        /\ UNCHANGED <<connected, serving, wire, shown, moves, silent, flickered, raced>>
  BY <1>0 DEF SpawnNpc, TickAgrees
<1>2. /\ looping' \in Tick /\ looping'.phase = "attach" /\ looping'.sector = s
      /\ looping'.spawns = {n} /\ looping'.despawns = {}
  <2>1. {n} \in SUBSET ViewNpcs /\ looping \in Tick
    BY <1>0 DEF ViewTypes
  <2>. QED BY <1>1, <2>1, TickSteps
<1>3. /\ listed' \in [ViewSectors -> SUBSET Ships]
      /\ \A u \in ViewSectors, x \in Ships :
            x \in listed'[u] <=> x \in listed[u] \/ (u = s /\ x = n)
  BY <1>0, <1>1 DEF ViewTypes, Ships
<1>4. ViewTypes'
  BY <1>0, <1>1, <1>2, <1>3 DEF ViewTypes
<1>5. n \in Ships /\ n \notin ViewPlayers /\ ViewNpcs \subseteq Ships /\ ViewPlayers \subseteq Ships
  BY DEF Ships
<1>6. TickAgrees'
  BY <1>2, <1>3, <1>5 DEF TickAgrees
<1>7. \A q \in ViewPlayers : Placed(q)' /\ Unnamed(q)' /\ Informed(q)'
  BY <1>1, <1>2, <1>3, <1>5, TickInforms
<1>. QED BY <1>4, <1>6, <1>7 DEF ViewInv

\* An NPC without a behavior goes again, silently.
LEMMA ViewAttaches ==
    ASSUME ViewInv, NEW works \in BOOLEAN, AttachBehavior(works)
    PROVE  ViewInv'
<1>0. ViewTypes /\ TickAgrees
  BY DEF ViewInv
<1>1. PICK s \in ViewSectors :
        /\ s = looping.sector /\ looping.phase = "attach" /\ looping.despawns = {}
        /\ listed' = (IF works THEN listed ELSE [listed EXCEPT ![s] = @ \ looping.spawns])
        /\ silent' = (IF works THEN silent ELSE silent \cup looping.spawns)
        /\ looping' = [looping EXCEPT !.phase = "clean"]
        /\ UNCHANGED <<connected, serving, wire, shown, usedNpcs, moves, flickered, raced>>
  BY <1>0 DEF AttachBehavior, TickAgrees
<1>2. /\ looping' \in Tick /\ looping'.phase = "clean" /\ looping'.sector = s
      /\ looping'.spawns = looping.spawns /\ looping'.despawns = {}
  <2>1. {} \in SUBSET ViewNpcs /\ looping \in Tick
    BY <1>0 DEF ViewTypes
  <2>. QED BY <1>1, <2>1, TickSteps
<1>3. PICK lost \in SUBSET ViewNpcs :
        /\ silent' = silent \cup lost /\ lost \subseteq looping.spawns
        /\ listed' \in [ViewSectors -> SUBSET Ships]
        /\ \A u \in ViewSectors, x \in Ships :
            x \in listed'[u] <=> x \in listed[u] /\ ~(u = s /\ x \in lost)
  <2>1. looping.spawns \in SUBSET ViewNpcs
    BY <1>0 DEF ViewTypes, Tick
  <2>2. CASE works
    <3>1. listed' = listed /\ silent' = silent \cup {} /\ {} \subseteq looping.spawns
      BY <1>1, <2>2
    <3>2. \A u \in ViewSectors, x \in Ships :
            x \in listed'[u] <=> x \in listed[u] /\ ~(u = s /\ x \in {})
      BY <3>1
    <3>3. listed' \in [ViewSectors -> SUBSET Ships]
      BY <1>0, <3>1 DEF ViewTypes
    <3>4. {} \in SUBSET ViewNpcs
      OBVIOUS
    <3>. QED BY <3>1, <3>2, <3>3, <3>4
  <2>3. CASE ~works
    <3>1. listed' = [listed EXCEPT ![s] = @ \ looping.spawns]
          /\ silent' = silent \cup looping.spawns
      BY <1>1, <2>3
    <3>2. /\ listed' \in [ViewSectors -> SUBSET Ships]
          /\ \A u \in ViewSectors, x \in Ships :
                x \in listed'[u] <=> x \in listed[u] /\ ~(u = s /\ x \in looping.spawns)
      BY <1>0, <3>1 DEF ViewTypes
    <3>. QED BY <2>1, <3>1, <3>2
  <2>. QED BY <2>2, <2>3
<1>4. ViewTypes'
  BY <1>0, <1>1, <1>2, <1>3 DEF ViewTypes
<1>5. ViewNpcs \subseteq Ships /\ ViewPlayers \subseteq Ships /\ looping.spawns \subseteq ViewNpcs
  BY <1>0 DEF Ships, ViewTypes, Tick
<1>6. TickAgrees'
  <2>1. \A x \in looping.spawns \ silent : x \in listed[s]
    BY <1>0, <1>1 DEF TickAgrees
  <2>. QED BY <1>2, <1>3, <1>5, <2>1 DEF TickAgrees
<1>7. \A q \in ViewPlayers : Placed(q)' /\ Unnamed(q)' /\ Informed(q)'
  BY <1>1, <1>2, <1>3, <1>5, TickInforms
<1>. QED BY <1>4, <1>6, <1>7 DEF ViewInv

\* The NPCs that go are about to be sent, those that have just come too.
LEMMA ViewCleans ==
    ASSUME ViewInv, NEW gone \in SUBSET ViewNpcs, CleanUp(gone) PROVE ViewInv'
<1>0. ViewTypes /\ TickAgrees
  BY DEF ViewInv
<1>1. PICK s \in ViewSectors :
        /\ s = looping.sector /\ looping.phase \in {"spawn", "clean"} /\ looping.despawns = {}
        /\ listed' = [listed EXCEPT ![s] = @ \ gone]
        /\ looping' = [looping EXCEPT !.phase = "send", !.despawns = gone]
        /\ flickered' = flickered \cup (gone \cap looping.spawns)
        /\ UNCHANGED <<connected, serving, wire, shown, usedNpcs, moves, silent, raced>>
  BY <1>0 DEF CleanUp, TickAgrees
<1>2. /\ looping' \in Tick /\ looping'.phase = "send" /\ looping'.sector = s
      /\ looping'.spawns = looping.spawns /\ looping'.despawns = gone
  <2>1. looping \in Tick
    BY <1>0 DEF ViewTypes
  <2>. QED BY <1>1, <2>1, TickSteps
<1>3. /\ listed' \in [ViewSectors -> SUBSET Ships]
      /\ \A u \in ViewSectors, x \in Ships :
            x \in listed'[u] <=> x \in listed[u] /\ ~(u = s /\ x \in gone)
  BY <1>0, <1>1 DEF ViewTypes
<1>4. ViewTypes'
  BY <1>0, <1>1, <1>2, <1>3 DEF ViewTypes
<1>5. ViewNpcs \subseteq Ships /\ ViewPlayers \subseteq Ships /\ looping.spawns \subseteq ViewNpcs
  BY <1>0 DEF Ships, ViewTypes, Tick
<1>6. TickAgrees'
  <2>1. \A x \in looping.spawns \ silent : x \in listed[s]
    BY <1>0, <1>1 DEF TickAgrees
  <2>. QED BY <1>1, <1>2, <1>3, <1>5, <2>1 DEF TickAgrees
<1>7. \A q \in ViewPlayers : Placed(q)' /\ Unnamed(q)' /\ Informed(q)'
  <2>1. \A x \in ViewPlayers : x \notin gone
    OBVIOUS
  <2>. QED BY <1>1, <1>2, <1>3, <1>5, <2>1, TickInforms
<1>. QED BY <1>4, <1>6, <1>7 DEF ViewInv

\* A change that nobody is told of.
LEMMA ViewChangesSilently ==
    ASSUME ViewInv, NEW s \in ViewSectors, NEW n \in ViewNpcs, ChangeSilently(s, n)
    PROVE  ViewInv'
<1>0. ViewTypes /\ TickAgrees
  BY DEF ViewInv
<1>1. /\ silent' = silent \cup {n}
      /\ UNCHANGED <<connected, serving, wire, shown, looping, moves, flickered, raced>>
  BY DEF ChangeSilently
<1>2. ViewNpcs \subseteq Ships /\ ViewPlayers \subseteq Ships /\ looping \in Tick
  BY <1>0 DEF Ships, ViewTypes
<1>3. /\ listed' \in [ViewSectors -> SUBSET Ships]
      /\ \A u \in ViewSectors, x \in Ships : x # n => (x \in listed'[u] <=> x \in listed[u])
  <2>1. CASE listed' = [listed EXCEPT ![s] = @ \cup {n}]
    BY <1>0, <1>2, <2>1 DEF ViewTypes
  <2>2. CASE listed' = [listed EXCEPT ![s] = @ \ {n}]
    BY <1>0, <2>2 DEF ViewTypes
  <2>. QED BY <2>1, <2>2 DEF ChangeSilently
<1>4. ViewTypes'
  BY <1>0, <1>1, <1>3 DEF ViewTypes
<1>5. TickAgrees'
  <2>1. looping.spawns \subseteq ViewNpcs /\ looping.despawns \subseteq ViewNpcs
    BY <1>2 DEF Tick
  <2>. QED BY <1>0, <1>1, <1>2, <1>3, <2>1 DEF TickAgrees
<1>6. \A q \in ViewPlayers : Placed(q)' /\ Unnamed(q)' /\ Informed(q)'
  <2>1. n \notin ViewPlayers
    OBVIOUS
  <2>. QED BY <1>1, <1>2, <1>3, <2>1, TickInforms
<1>. QED BY <1>4, <1>5, <1>6 DEF ViewInv

\* The update: who hears it knows of its ships what is listed by now.
LEMMA ViewSendsUpdate == ASSUME ViewInv, SendUpdate PROVE ViewInv'
<1>0. ViewTypes /\ TickAgrees
  BY DEF ViewInv
<1>1. PICK s \in ViewSectors, S \in SUBSET ViewNpcs, D \in SUBSET ViewNpcs :
        s = looping.sector /\ S = looping.spawns /\ D = looping.despawns
  BY <1>0 DEF SendUpdate, TickAgrees, ViewTypes, Tick
<1>2. /\ looping' = NoTick
      /\ UNCHANGED <<listed, connected, serving, shown, usedNpcs, moves, silent, flickered>>
  BY DEF SendUpdate
<1>3. /\ looping' \in Tick /\ looping'.phase = "idle" /\ looping'.sector = NoWhere
      /\ looping'.spawns = {} /\ looping'.despawns = {}
  BY <1>2 DEF NoTick, Tick, Places
<1>4. TickAgrees'
  BY <1>3 DEF TickAgrees
<1>5. ViewNpcs \subseteq Ships /\ ViewPlayers \subseteq Ships
  BY DEF Ships
<1>6. CASE S \cup D = {}
  <2>1. UNCHANGED <<wire, raced>>
    BY <1>1, <1>6 DEF SendUpdate
  <2>2. ViewTypes'
    BY <1>0, <1>2, <1>3, <2>1 DEF ViewTypes
  <2>3. looping.spawns = {} /\ looping.despawns = {}
    BY <1>1, <1>6
  <2>4. \A q \in ViewPlayers : Placed(q)' /\ Unnamed(q)' /\ Informed(q)'
    BY <1>2, <1>3, <2>1, <2>3, TickInforms
  <2>. QED BY <1>4, <2>2, <2>4 DEF ViewInv
<1>7. CASE S \cup D # {}
  <2>1. /\ Tell(connected[s], StateUpdate(S, D))
        /\ raced' = raced \cup {q \in Between : serving[q].to = s}
    BY <1>1, <1>7 DEF SendUpdate
  <2>2. PICK m \in Message : /\ m = StateUpdate(S, D) /\ m.kind = "update"
                             /\ m.ships = S /\ m.gone = D
    <3>1. StateUpdate(S, D) \in Message
      BY <1>5 DEF StateUpdate, Message
    <3>. QED BY <3>1 DEF StateUpdate
  <2>3. PICK players \in SUBSET ViewPlayers : players = connected[s]
    BY <1>0 DEF ViewTypes
  <2>4. Tell(players, m) /\ UNCHANGED shown
    BY <1>2, <2>1, <2>2, <2>3
  <2>5. ViewTypes'
    <3>1. /\ wire' \in [ViewPlayers -> Seq(Message)]
          /\ \A q \in ViewPlayers : Len(wire'[q]) <= MaxQueue
      BY <1>0, <2>4, TellAdds
    <3>. QED BY <1>0, <1>2, <1>3, <3>1 DEF ViewTypes
  <2>6. /\ \A x \in D \ silent : x \notin listed[s]
        /\ \A x \in S \ (D \cup silent) : x \in listed[s]
        /\ S \cap D \subseteq flickered
    BY <1>0, <1>1 DEF TickAgrees
  <2>7. ASSUME NEW q \in ViewPlayers PROVE Placed(q)' /\ Unnamed(q)' /\ Informed(q)'
    <3>0. Placed(q) /\ Unnamed(q) /\ Informed(q) /\ serving'[q] = serving[q]
      BY <1>2 DEF ViewInv
    <3>1. Placed(q)'
      BY <1>2, <3>0, PlacedKept
    <3>2. /\ Unnamed(q) /\ (q \in players => q \notin m.ships) => Unnamed(q)'
          /\ \A x \in Ships : q \notin players \/ x \notin m.ships \cup m.gone =>
                  (Believes(q, x)' <=> Believes(q, x))
          /\ \A x \in Ships : (q \in players /\ ~Unanswered(q) /\ x \in m.ships \cup m.gone) =>
                  (Believes(q, x)' <=> x \in m.ships /\ (q \notin Terminals \/ x \notin m.gone))
      BY <1>0, <2>2, <2>4, <3>0, Hears
    <3>3. Unnamed(q)'
      BY <2>2, <3>0, <3>2
    <3>4. ASSUME NEW u \in ViewSectors, Follows(q, u)', q \notin raced', NEW x \in Ships \ {q}
          PROVE  Knows(q, u, x)'
      <4>1. Follows(q, u) /\ q \notin raced /\ ~(q \in Between /\ serving[q].to = s)
        BY <1>2, <2>1, <3>0, <3>4, Zenon DEF Follows
      <4>2. (q \in players <=> u = s) /\ (u = s => ~Unanswered(q))
        BY <2>3, <3>0, <4>1, Recipients
      <4>3. Knows(q, u, x)
        BY <3>0, <4>1 DEF Informed
      <4>4. OddFor(q)' = OddFor(q)
        BY <1>2 DEF OddFor
      <4>5. CASE u # s \/ x \notin S \cup D
        <5>1. Believes(q, x)' <=> Believes(q, x)
          BY <2>2, <3>2, <4>2, <4>5
        <5>2. (Arriving(x, u)' <=> Arriving(x, u)) /\ (Leaving(x, u)' <=> Leaving(x, u))
          <6>1. ~(looping.sector = u /\ x \in looping.spawns)
            BY <1>1, <4>5
          <6>2. ~(looping.sector = u /\ x \in looping.despawns)
            BY <1>1, <4>5
          <6>3. x \notin looping'.spawns /\ x \notin looping'.despawns /\ serving' = serving
            BY <1>2, <1>3
          <6>. QED BY <6>1, <6>2, <6>3, Zenon DEF Arriving, Leaving
        <5>. QED BY <1>2, <4>3, <4>4, <5>1, <5>2, Zenon DEF Knows
      <4>6. CASE u = s /\ x \in S \cup D
        <5>1. x \notin ViewPlayers
          BY <4>6
        <5>2. Believes(q, x)' <=> x \in S /\ (q \notin Terminals \/ x \notin D)
          BY <2>2, <3>2, <4>2, <4>6
        <5>3. x \in listed'[s] /\ x \notin OddFor(q)' => x \in S /\ x \notin D
          BY <1>2, <2>6, <4>4, <4>6 DEF OddFor
        <5>4. x \in S /\ (q \notin Terminals \/ x \notin D) /\ x \notin OddFor(q)' =>
                x \in listed'[s]
          BY <1>2, <2>6, <4>4, <4>6 DEF OddFor
        <5>. QED BY <4>6, <5>1, <5>2, <5>3, <5>4, Zenon DEF Knows
      <4>. QED BY <4>5, <4>6
    <3>. QED BY <3>1, <3>3, <3>4, Zenon DEF Informed
  <2>. QED BY <1>4, <2>5, <2>7 DEF ViewInv
<1>. QED BY <1>6, <1>7

\* Every step keeps the invariant.
LEMMA ViewKept == ViewInv /\ [ViewNext]_viewVars => ViewInv'
<1>. SUFFICES ASSUME ViewInv, [ViewNext]_viewVars PROVE ViewInv'
  OBVIOUS
<1>1. CASE UNCHANGED viewVars
  <2>1. UNCHANGED <<listed, connected, serving, wire, shown, looping, silent, flickered, raced>>
    BY <1>1 DEF viewVars
  <2>2. ViewTypes /\ TickAgrees /\ looping \in Tick
    BY DEF ViewInv, ViewTypes
  <2>3. ViewTypes'
    BY <2>1, <2>2 DEF ViewTypes
  <2>4. TickAgrees'
    BY <2>1, <2>2, TickKept
  <2>5. ASSUME NEW q \in ViewPlayers PROVE Placed(q)' /\ Unnamed(q)' /\ Informed(q)'
    <3>1. Placed(q) /\ Unnamed(q) /\ Informed(q)
      BY DEF ViewInv
    <3>2. /\ serving'[q] = serving[q] /\ wire'[q] = wire[q] /\ shown'[q] = shown[q]
      BY <2>1
    <3>3. Placed(q)'
      BY <2>1, <3>1, <3>2, PlacedKept
    <3>4. Unnamed(q)'
      BY <3>1, <3>2, UnnamedKept
    <3>5. ASSUME NEW u \in ViewSectors, Follows(q, u)', q \notin raced', NEW x \in Ships \ {q}
          PROVE  Knows(q, u, x)'
      <4>1. Follows(q, u)
        BY <2>1, <3>5, Zenon DEF Follows
      <4>2. Knows(q, u, x)
        BY <2>1, <3>1, <3>5, <4>1 DEF Informed
      <4>3. (Arriving(x, u)' <=> Arriving(x, u)) /\ (Leaving(x, u)' <=> Leaving(x, u))
        BY <2>1, PendingKept
      <4>4. Believes(q, x)' <=> Believes(q, x)
        BY <3>2, BelievesKept
      <4>5. OddFor(q)' = OddFor(q)
        BY <2>1 DEF OddFor
      <4>. QED BY <2>1, <4>2, <4>3, <4>4, <4>5, Zenon DEF Knows
    <3>. QED BY <3>3, <3>4, <3>5, Zenon DEF Informed
  <2>. QED BY <2>3, <2>4, <2>5 DEF ViewInv
<1>2. CASE ViewNext
  BY <1>2, ViewAuthenticates, ViewSnaps, ViewAnswers, ViewRegisters, ViewLeaves, ViewTellsOld,
     ViewEnters, ViewWelcomes, ViewAnnounces, ViewReceives, ViewTicks, ViewSpawns, ViewAttaches,
     ViewCleans, ViewSendsUpdate, ViewChangesSilently, Zenon DEF ViewNext
<1>. QED BY <1>1, <1>2

\* What the invariant says of the types, and of a client that has been told everything.
LEMMA ViewInvSays == ViewInv => ViewTypeOK /\ ClientShowsSector
<1>. SUFFICES ASSUME ViewInv PROVE ViewTypeOK /\ ClientShowsSector
  OBVIOUS
<1>0. ViewTypes
  BY DEF ViewInv
<1>1. ASSUME NEW p \in ViewPlayers PROVE Cardinality(SectorsOf(p)) <= 1
  <2>1. Placed(p) /\ serving[p].phase \in Phases
    BY <1>0 DEF ViewInv, ViewTypes, Service
  <2>2. PICK h \in Places, c \in Places : At(p, h, c)
    BY <2>1 DEF Placed, Phases, Places
  <2>3. CASE h \in ViewSectors
    <3>1. SectorsOf(p) = {h}
      BY <2>2, <2>3 DEF SectorsOf, At
    <3>. QED BY <3>1, FS_Singleton
  <2>4. CASE h \notin ViewSectors
    <3>1. SectorsOf(p) = {}
      BY <2>2, <2>4 DEF SectorsOf, At
    <3>. QED BY <3>1, FS_EmptySet
  <2>. QED BY <2>3, <2>4
<1>2. ViewTypeOK
  BY <1>0, <1>1 DEF ViewTypeOK, ViewTypes
<1>3. ASSUME NEW p \in ViewPlayers, NEW s \in ViewSectors, p \in connected[s], p \notin raced,
             serving[p] = NotServing, wire[p] = <<>>, ~Unsent(s)
      PROVE  shown[p] \ OddFor(p) = (listed[s] \ {p}) \ OddFor(p)
  <2>1. serving[p].phase = "idle"
    BY <1>3 DEF NotServing
  <2>2. Follows(p, s) /\ ~Unanswered(p) /\ Unnamed(p) /\ Informed(p)
    BY <1>3, <2>1 DEF Follows, Unanswered, ViewInv
  <2>3. shown[p] \in SUBSET Ships /\ listed[s] \in SUBSET Ships
    BY <1>0 DEF ViewTypes
  <2>4. ASSUME NEW x \in Ships \ {p}, x \notin OddFor(p) PROVE x \in shown[p] <=> x \in listed[s]
    <3>1. Knows(p, s, x)
      BY <1>3, <2>2, <2>4 DEF Informed
    <3>2. ~Arriving(x, s) /\ ~Leaving(x, s)
      BY <1>3, Zenon DEF Unsent, Arriving, Leaving
    <3>3. Believes(p, x) <=> x \in shown[p]
      <4>1. Believes(p, x) <=> Seen(p, x, shown[p], wire[p])
        BY <2>2, Zenon DEF Believes
      <4>2. PICK M : M = Mentions(x)
        OBVIOUS
      <4>3. PICK G : G = Showing(p, x)
        OBVIOUS
      <4>4. NoneOf(<<>>, M) /\ ~LastOf(<<>>, M, G)
        BY NothingInLine
      <4>. QED BY <1>3, <4>1, <4>2, <4>3, <4>4, Zenon DEF Seen
    <3>. QED BY <2>4, <3>1, <3>2, <3>3, Zenon DEF Knows
  <2>5. p \notin shown[p]
    BY <2>2 DEF Unnamed
  <2>. QED BY <2>3, <2>4, <2>5
<1>4. ClientShowsSector
  BY <1>3, Zenon DEF ClientShowsSector, OddFor
<1>. QED BY <1>2, <1>4

\* A client that has been told everything shows exactly the other ships of its sector,
\* but for the exceptions the property names.
THEOREM ClientsShowTheirSector == ViewSpec => [](ViewTypeOK /\ ClientShowsSector)
<1>. QED BY ViewStarts, ViewKept, ViewInvSays, PTL DEF ViewSpec

HIDE TerminalsAssumption
HIDE ViewAssumption

-----------------------------------------------------------------------------
(***************************************************************************)
(* The connection of the web client.                                       *)
(***************************************************************************)

USE AttemptsAssumption

\* Types and NeverStuck, kept by every callback: one that ends what was to come, such
\* as a stale timer or a second onclose, either leaves the state to another or names
\* what comes next.
LinkInv == LinkTypeOK /\ NeverStuck

\* Every callback keeps the invariant.
LEMMA LinkInvInductive == LinkInv /\ [LinkNext]_linkVars => LinkInv'
<1>. SUFFICES ASSUME LinkInv, [LinkNext]_linkVars PROVE LinkInv'
  OBVIOUS
<1>1. ASSUME NEW s \in Sockets, PageConnects(s) PROVE LinkInv'
  BY <1>1 DEF LinkInv, NeverStuck, LinkStates, LinkTypeOK, PageConnects, NewSocket, LinkBecomes
<1>2. ASSUME NEW s \in Sockets, Opens(s) PROVE LinkInv'
  BY <1>2 DEF LinkInv, NeverStuck, LinkStates, LinkTypeOK, Opens, LinkBecomes
<1>3. ASSUME NEW s \in Sockets, Fails(s) PROVE LinkInv'
  BY <1>3 DEF LinkInv, NeverStuck, LinkStates, LinkTypeOK, Fails, LinkBecomes
<1>4. ASSUME NEW s \in Sockets, Closes(s) PROVE LinkInv'
  <2>1. socket' \in [Sockets -> {"none", "connecting", "open", "failed"}]
    BY <1>4 DEF LinkInv, LinkTypeOK, Closes
  <2>2. CASE MayReconnect
    <3>1. /\ generation < MaxTimers /\ link' = "Reconnecting" /\ pageDue' = TRUE
          /\ attempts' = attempts + 1 /\ generation' = generation + 1
          /\ timers' = timers \cup {generation + 1} /\ attempts < MaxAttempts
      BY <1>4, <2>2 DEF Closes, LinkBecomes, Expected, MayReconnect
    <3>2. LinkTypeOK'
      BY <2>1, <3>1 DEF LinkInv, LinkTypeOK, LinkStates
    <3>3. NeverStuck'
      BY <3>1 DEF NeverStuck
    <3>. QED BY <3>2, <3>3 DEF LinkInv
  <2>3. CASE ~MayReconnect
    <3>1. link' = "Disconnected" /\ pageDue' = TRUE /\ UNCHANGED <<attempts, generation, timers>>
      BY <1>4, <2>3 DEF Closes, LinkBecomes
    <3>. QED BY <2>1, <3>1 DEF LinkInv, LinkTypeOK, LinkStates, NeverStuck
  <2>. QED BY <2>2, <2>3
<1>5. ASSUME NEW t \in timers, TimerIsStale(t) PROVE LinkInv'
  BY <1>5 DEF LinkInv, NeverStuck, LinkStates, LinkTypeOK, TimerIsStale
<1>6. ASSUME NEW t \in timers, NEW s \in Sockets, TimerReconnects(t, s) PROVE LinkInv'
  <2>1. /\ socket' \in [Sockets -> {"none", "connecting", "open", "failed"}]
        /\ socket'[s] = "connecting"
    BY <1>6 DEF LinkInv, LinkTypeOK, TimerReconnects, NewSocket
  <2>2. timers' \subseteq timers /\ UNCHANGED <<link, attempts, generation, pageDue>>
        /\ link = "Reconnecting"
    BY <1>6 DEF TimerReconnects
  <2>3. LinkTypeOK'
    BY <2>1, <2>2 DEF LinkInv, LinkTypeOK
  <2>4. NeverStuck'
    BY <2>1, <2>2 DEF NeverStuck
  <2>. QED BY <2>3, <2>4 DEF LinkInv
<1>7. CASE PageLooks
  BY <1>7 DEF LinkInv, NeverStuck, LinkStates, LinkTypeOK, PageLooks
<1>8. ASSUME NEW s \in Sockets, ReceivesInitialState(s) PROVE LinkInv'
  <2>1. attempts' = 0 /\ UNCHANGED <<link, socket, generation, timers, pageDue>>
    BY <1>8 DEF ReceivesInitialState
  <2>2. LinkTypeOK'
    BY <2>1 DEF LinkInv, LinkTypeOK
  <2>3. NeverStuck'
    BY <2>1 DEF LinkInv, NeverStuck
  <2>. QED BY <2>2, <2>3 DEF LinkInv
<1>9. CASE UNCHANGED linkVars
  BY <1>9 DEF LinkInv, NeverStuck, LinkStates, LinkTypeOK, linkVars
<1>. QED BY <1>1, <1>2, <1>3, <1>4, <1>5, <1>6, <1>7, <1>8, <1>9 DEF LinkNext

\* However many sockets, attempts and timers there are, the client never rests without
\* a connection (connect_internal and the page's effect).
THEOREM LinkNeverStuck == LinkSpec => [](LinkTypeOK /\ NeverStuck)
<1>1. LinkInit => LinkInv
  BY DEF LinkInit, LinkInv, NeverStuck, LinkStates, LinkTypeOK
<1>2. LinkInv => LinkTypeOK /\ NeverStuck
  BY DEF LinkInv
<1>. QED BY <1>1, <1>2, LinkInvInductive, PTL DEF LinkSpec

HIDE AttemptsAssumption

-----------------------------------------------------------------------------
(***************************************************************************)
(* The editor's staged changes.  A commit is nowhere, lost, with the       *)
(* server or answered, and in each case it is known which of the staged    *)
(* changes are already in the live world: none but those whose commit      *)
(* failed (Fresh), or all but those staged since (Told).                   *)
(***************************************************************************)

USE CommitsAssumption

Requests(op) == [op : {op}, edits : Seq(Edits)]
AnyRequest == Requests("preview") \cup Requests("commit")
Previews == [op : {"preview"}, wrong : SUBSET Nat, edits : Seq(Edits)]
AllApplied == [op |-> "commit", success |-> TRUE]
WithErrors == [op |-> "commit", success |-> FALSE]
Commits == {AllApplied, WithErrors}

\* The changes in a list of entries, each of which is in it once.
Staged(list) == {list[i].edit : i \in 1..Len(list)}
Apart(list) == \A i, j \in 1..Len(list) : list[i].edit = list[j].edit => i = j

EditorTypes ==
    /\ entries \in Seq(Entry) /\ Apart(entries)
    /\ previewing \in BOOLEAN /\ committing \in BOOLEAN /\ linked \in BOOLEAN
    /\ requests \in Seq(AnyRequest) /\ answers \in Seq(Previews \cup Commits)
    /\ times \in [Edits -> Nat] /\ \A e \in Edits : times[e] <= commits
    /\ commits \in 0..MaxCommits

\* One message of M is in the line s, and it is m.
OneOf(s, M, m) ==
    \E i \in 1..Len(s) : s[i] = m /\ \A j \in 1..Len(s) : j # i => s[j] \notin M

\* What is staged and in the live world came there with a commit that failed.
StagedFresh == \A e \in Staged(entries) : times[e] > 0 => e \in halted

\* Where a commit is: nowhere; lost; with the server, when all that is staged is in it or
\* came later; or answered, when all that is staged is in the world or came later.
Resting == ~committing /\ NoneOf(requests, Requests("commit")) /\ NoneOf(answers, Commits) /\ StagedFresh
Lost == committing /\ NoneOf(requests, Requests("commit")) /\ NoneOf(answers, Commits)
AtServer(r) ==
    /\ committing /\ NoneOf(answers, Commits) /\ OneOf(requests, Requests("commit"), r)
    /\ Staged(entries) \subseteq ToSet(r.edits) \cup late
    /\ \A e \in ToSet(r.edits) : times[e] > 0 => e \in halted
    /\ \A e \in Edits : times[e] < commits
    /\ ToSet(r.edits) \subseteq used
    /\ StagedFresh
Told(a) ==
    /\ committing /\ NoneOf(requests, Requests("commit")) /\ OneOf(answers, Commits, a)
    /\ a = AllApplied => \A e \in Staged(entries) : e \in late \/ times[e] > 0
    /\ a = WithErrors => StagedFresh

Underway ==
    \/ Resting \/ Lost
    \/ \E r \in Requests("commit") : AtServer(r)
    \/ \E a \in Commits : Told(a)

EditorInv ==
    /\ EditorTypes
    /\ used \subseteq Edits /\ Staged(entries) \subseteq used
    /\ \A e \in Edits : times[e] > 0 => e \in used
    /\ used \subseteq discarded \cup late \cup Staged(entries) \cup {e \in Edits : times[e] > 0}
    /\ AppliedAgainAfterErrors
    /\ Underway

-----------------------------------------------------------------------------

\* A list with one more entry, without one, and with other previews.
LEMMA StagedMore ==
    ASSUME NEW list \in Seq(Entry), Apart(list), NEW x \in Entry, x.edit \notin Staged(list)
    PROVE  /\ Append(list, x) \in Seq(Entry) /\ Apart(Append(list, x))
           /\ Staged(Append(list, x)) = Staged(list) \cup {x.edit}
<1>0. PICK longer : longer = Append(list, x)
  OBVIOUS
<1>1. /\ longer \in Seq(Entry) /\ Len(longer) = Len(list) + 1 /\ Len(list) \in Nat
      /\ longer[Len(list) + 1] = x
      /\ \A i \in 1..Len(list) : longer[i] = list[i]
  BY <1>0, AppendProperties, LenProperties
<1>2. \A i \in 1..Len(longer) : i \in 1..Len(list) \/ i = Len(list) + 1
  BY <1>1
<1>3. Len(list) + 1 \in 1..Len(longer) /\ \A i \in 1..Len(list) : i \in 1..Len(longer)
  BY <1>1
<1>4. Staged(longer) = Staged(list) \cup {x.edit}
  BY <1>1, <1>2, <1>3 DEF Staged
<1>5. Apart(longer)
  BY <1>1, <1>2 DEF Staged, Apart
<1>. QED BY <1>0, <1>1, <1>4, <1>5

\* A list without one of its entries.
LEMMA StagedLess ==
    ASSUME NEW list \in Seq(Entry), Apart(list), NEW k \in 1..Len(list)
    PROVE  /\ RemoveAt(list, k) \in Seq(Entry) /\ Apart(RemoveAt(list, k))
           /\ Staged(RemoveAt(list, k)) = Staged(list) \ {list[k].edit}
<1>1. Len(list) \in Nat /\ \A i \in 1..Len(list) : list[i] \in Entry
  BY LenProperties, ElementOfSeq
<1>2. PICK front : front = SubSeq(list, 1, k - 1)
  OBVIOUS
<1>3. PICK back : back = SubSeq(list, k + 1, Len(list))
  OBVIOUS
<1>4. /\ front \in Seq(Entry) /\ Len(front) = k - 1
      /\ \A i \in 1..(k - 1) : front[i] = list[i]
  <2>1. 1 \in Int /\ k - 1 \in Int /\ \A i \in 1..(k - 1) : list[i] \in Entry
    BY <1>1
  <2>2. /\ front \in Seq(Entry)
        /\ Len(front) = IF 1 <= k - 1 THEN (k - 1) - 1 + 1 ELSE 0
        /\ \A i \in 1..((k - 1) - 1 + 1) : front[i] = list[1 + i - 1]
    BY <1>2, <2>1, SubSeqProperties
  <2>. QED BY <1>1, <2>2
<1>5. /\ back \in Seq(Entry) /\ Len(back) = Len(list) - k
      /\ \A i \in 1..(Len(list) - k) : back[i] = list[k + i]
  <2>1. k + 1 \in Int /\ Len(list) \in Int /\ \A i \in (k + 1)..Len(list) : list[i] \in Entry
    BY <1>1
  <2>2. /\ back \in Seq(Entry)
        /\ Len(back) = IF k + 1 <= Len(list) THEN Len(list) - (k + 1) + 1 ELSE 0
        /\ \A i \in 1..(Len(list) - (k + 1) + 1) : back[i] = list[(k + 1) + i - 1]
    BY <1>3, <2>1, SubSeqProperties
  <2>. QED BY <1>1, <2>2
<1>6. PICK rest : rest = front \o back
  OBVIOUS
<1>7. /\ rest \in Seq(Entry) /\ Len(rest) = Len(front) + Len(back)
      /\ \A i \in 1..Len(front) + Len(back) :
            rest[i] = IF i <= Len(front) THEN front[i] ELSE back[i - Len(front)]
  BY <1>4, <1>5, <1>6, ConcatProperties
<1>8. /\ Len(rest) = Len(list) - 1
      /\ \A i \in 1..Len(rest) : rest[i] = IF i < k THEN list[i] ELSE list[i + 1]
  <2>1. ASSUME NEW i \in 1..Len(rest) PROVE rest[i] = IF i < k THEN list[i] ELSE list[i + 1]
    <3>1. CASE i < k
      <4>1. i \in 1..Len(front) + Len(back) /\ i <= Len(front) /\ i \in 1..(k - 1)
        BY <1>1, <1>4, <1>7, <3>1
      <4>2. rest[i] = front[i]
        BY <1>7, <4>1
      <4>. QED BY <1>4, <3>1, <4>1, <4>2
    <3>2. CASE ~(i < k)
      <4>1. rest[i] = back[i - (k - 1)] /\ i - (k - 1) \in 1..(Len(list) - k)
        BY <1>1, <1>4, <1>5, <1>7, <3>2
      <4>2. k + (i - (k - 1)) = i + 1
        BY <1>1, <1>7
      <4>. QED BY <1>5, <3>2, <4>1, <4>2
    <3>. QED BY <3>1, <3>2
  <2>. QED BY <1>1, <1>4, <1>5, <1>7, <2>1
<1>9. /\ \A i \in 1..Len(rest) : /\ i \in 1..Len(list) /\ i + 1 \in 1..Len(list)
                                 /\ i < k => i # k
                                 /\ ~(i < k) => i + 1 # k
      /\ \A i \in 1..Len(list) : i = k \/ (i < k /\ i \in 1..Len(rest))
                                 \/ (i - 1 \in 1..Len(rest) /\ ~(i - 1 < k) /\ (i - 1) + 1 = i)
  BY <1>1, <1>8
<1>10. Apart(rest)
  <2>. SUFFICES ASSUME NEW i \in 1..Len(rest), NEW j \in 1..Len(rest), rest[i].edit = rest[j].edit
                PROVE  i = j
    BY DEF Apart
  <2>. DEFINE at(h) == IF h < k THEN h ELSE h + 1
  <2>1. /\ at(i) \in 1..Len(list) /\ at(j) \in 1..Len(list)
        /\ rest[i] = list[at(i)] /\ rest[j] = list[at(j)]
    BY <1>8, <1>9
  <2>2. at(i) = at(j)
    BY <2>1 DEF Apart
  <2>. QED BY <1>1, <1>8, <2>2
<1>11. Staged(rest) = Staged(list) \ {list[k].edit}
  <2>1. ASSUME NEW i \in 1..Len(rest)
        PROVE  rest[i].edit \in Staged(list) /\ rest[i].edit # list[k].edit
    <3>1. PICK h \in 1..Len(list) : rest[i] = list[h] /\ h # k
      BY <1>8, <1>9
    <3>. QED BY <3>1 DEF Staged, Apart
  <2>2. ASSUME NEW i \in 1..Len(list), i # k PROVE list[i].edit \in Staged(rest)
    <3>1. PICK h \in 1..Len(rest) : rest[h] = list[i]
      BY <1>8, <1>9, <2>2
    <3>. QED BY <3>1 DEF Staged
  <2>3. Staged(rest) \subseteq Staged(list) \ {list[k].edit}
    BY <2>1 DEF Staged
  <2>4. ASSUME NEW e \in Staged(list), e # list[k].edit PROVE e \in Staged(rest)
    BY <2>2, <2>4 DEF Staged
  <2>. QED BY <2>3, <2>4
<1>. QED BY <1>2, <1>3, <1>6, <1>7, <1>10, <1>11 DEF RemoveAt

\* A list with other previews.
LEMMA StagedAgain ==
    ASSUME NEW list \in Seq(Entry), Apart(list), NEW other \in Seq(Entry),
           Len(other) = Len(list), \A i \in 1..Len(list) : other[i].edit = list[i].edit
    PROVE  Apart(other) /\ Staged(other) = Staged(list)
BY DEF Staged, Apart

\* What a request carries.
LEMMA StagedSent ==
    ASSUME NEW list \in Seq(Entry)
    PROVE  /\ EditsOf(list) \in Seq(Edits) /\ ToSet(EditsOf(list)) = Staged(list)
           /\ Staged(list) \subseteq Edits
<1>1. Len(list) \in Nat /\ DOMAIN list = 1..Len(list) /\ \A i \in 1..Len(list) : list[i] \in Entry
  BY LenProperties, ElementOfSeq
<1>2. EditsOf(list) = [i \in 1..Len(list) |-> list[i].edit]
  BY <1>1 DEF EditsOf
<1>3. EditsOf(list) \in [1..Len(list) -> Edits]
  BY <1>1, <1>2 DEF Entry
<1>4. EditsOf(list) \in Seq(Edits)
  BY <1>1, <1>3, SeqDef
<1>. QED BY <1>1, <1>2, <1>4 DEF ToSet, Staged, Entry

\* A line with one message of a kind, and one that gets it.
LEMMA OneAtTheEnd ==
    ASSUME NEW S, NEW s \in Seq(S), NEW m \in S, NEW M, NEW n
    PROVE  /\ NoneOf(s, M) /\ m \in M => OneOf(Append(s, m), M, m)
           /\ OneOf(s, M, n) /\ m \notin M => OneOf(Append(s, m), M, n)
<1>0. PICK t : t = Append(s, m)
  OBVIOUS
<1>1. /\ Len(s) \in Nat /\ Len(t) = Len(s) + 1 /\ t[Len(s) + 1] = m
      /\ \A i \in 1..Len(s) : t[i] = s[i]
  BY <1>0, AppendProperties, LenProperties
<1>2. /\ \A i \in 1..Len(t) : i \in 1..Len(s) \/ i = Len(s) + 1
      /\ \A i \in 1..Len(s) : i \in 1..Len(t) /\ i # Len(s) + 1
      /\ Len(s) + 1 \in 1..Len(t)
  BY <1>1
<1>3. NoneOf(s, M) /\ m \in M => OneOf(t, M, m)
  BY <1>1, <1>2 DEF NoneOf, OneOf
<1>4. OneOf(s, M, n) /\ m \notin M => OneOf(t, M, n)
  <2>. SUFFICES ASSUME m \notin M, NEW i \in 1..Len(s), s[i] = n,
                       \A j \in 1..Len(s) : j # i => s[j] \notin M
                PROVE  OneOf(t, M, n)
    BY DEF OneOf
  <2>. QED BY <1>1, <1>2 DEF OneOf
<1>. QED BY <1>0, <1>3, <1>4

\* The one message of its kind is served or heard.
LEMMA OneAtTheFront ==
    ASSUME NEW S, NEW s \in Seq(S), s # <<>>, NEW M, NEW n \in M, OneOf(s, M, n)
    PROVE  /\ Head(s) \in M => Head(s) = n /\ NoneOf(Tail(s), M)
           /\ Head(s) \notin M => OneOf(Tail(s), M, n)
<1>0. PICK t : t = Tail(s)
  OBVIOUS
<1>1. /\ Len(s) \in Nat \ {0} /\ Len(t) = Len(s) - 1 /\ Head(s) = s[1]
      /\ \A i \in 1..Len(t) : t[i] = s[i + 1]
  BY <1>0, HeadTailProperties, EmptySeq
<1>2. PICK i \in 1..Len(s) : s[i] = n /\ \A j \in 1..Len(s) : j # i => s[j] \notin M
  BY DEF OneOf
<1>3. /\ \A j \in 1..Len(t) : j + 1 \in 1..Len(s) /\ j + 1 # 1
      /\ 1 \in 1..Len(s)
  BY <1>1
<1>4. CASE i = 1
  <2>1. NoneOf(t, M)
    BY <1>1, <1>2, <1>3, <1>4 DEF NoneOf
  <2>. QED BY <1>0, <1>1, <1>2, <1>4, <2>1
<1>5. CASE i # 1
  <2>1. i - 1 \in 1..Len(t) /\ (i - 1) + 1 = i
    BY <1>1, <1>5
  <2>2. t[i - 1] = n
    BY <1>1, <1>2, <2>1
  <2>3. \A j \in 1..Len(t) : j # i - 1 => t[j] \notin M
    <3>. SUFFICES ASSUME NEW j \in 1..Len(t), j # i - 1 PROVE t[j] \notin M
      OBVIOUS
    <3>1. j + 1 # i
      BY <1>1
    <3>. QED BY <1>1, <1>2, <1>3, <3>1
  <2>4. OneOf(t, M, n)
    BY <2>1, <2>2, <2>3 DEF OneOf
  <2>. QED BY <1>0, <1>1, <1>2, <1>3, <1>5, <2>4
<1>. QED BY <1>4, <1>5

-----------------------------------------------------------------------------

\* Nothing is staged at the start.
LEMMA EditorStart == GmEditorInit => EditorInv
<1>. SUFFICES ASSUME GmEditorInit PROVE EditorInv
  OBVIOUS
<1>1. Staged(<<>>) = {} /\ Apart(<<>>)
  BY DEF Staged, Apart
<1>2. /\ entries = <<>> /\ requests = <<>> /\ answers = <<>> /\ ~committing
      /\ \A e \in Edits : times[e] = 0
  BY DEF GmEditorInit
<1>3. EditorTypes
  <2>1. times \in [Edits -> Nat] /\ commits = 0
        /\ previewing \in BOOLEAN /\ committing \in BOOLEAN /\ linked \in BOOLEAN
    BY DEF GmEditorInit
  <2>2. /\ entries \in Seq(Entry) /\ requests \in Seq(AnyRequest)
        /\ answers \in Seq(Previews \cup Commits)
    BY <1>2
  <2>3. Apart(entries)
    BY <1>1, <1>2
  <2>4. commits \in 0..MaxCommits /\ \A e \in Edits : times[e] <= commits
    BY <1>2, <2>1
  <2>. QED BY <2>1, <2>2, <2>3, <2>4 DEF EditorTypes
<1>4. Resting
  BY <1>1, <1>2, NothingInLine DEF Resting, StagedFresh
<1>. QED BY <1>1, <1>2, <1>3, <1>4 DEF EditorInv, Underway, AppliedAgainAfterErrors, GmEditorInit

\* A step that changes neither where the commit is nor what may be staged.
LEMMA UnderwayKept ==
    ASSUME Underway, UNCHANGED <<committing, times, halted, late, used, commits>>,
           Staged(entries') \subseteq Staged(entries),
           NoneOf(requests, Requests("commit")) => NoneOf(requests', Requests("commit")),
           \A r \in Requests("commit") :
                OneOf(requests, Requests("commit"), r) => OneOf(requests', Requests("commit"), r),
           NoneOf(answers, Commits) => NoneOf(answers', Commits),
           \A a \in Commits : OneOf(answers, Commits, a) => OneOf(answers', Commits, a)
    PROVE  Underway'
<1>1. StagedFresh => StagedFresh'
  BY DEF StagedFresh
<1>2. Resting => Resting'
  BY <1>1 DEF Resting
<1>3. Lost => Lost'
  BY DEF Lost
<1>4. \A r \in Requests("commit") : AtServer(r) => AtServer(r)'
  BY <1>1 DEF AtServer
<1>5. \A a \in Commits : Told(a) => Told(a)'
  BY <1>1 DEF Told
<1>. QED BY <1>2, <1>3, <1>4, <1>5 DEF Underway

\* An edit is staged, and counts as late while a commit is under way.
LEMMA EditorStages == ASSUME EditorInv, NEW e \in Edits, StageEdit(e) PROVE EditorInv'
<1>1. [edit |-> e, preview |-> NoEdit, bad |-> FALSE] \in Entry
      /\ [edit |-> e, preview |-> NoEdit, bad |-> FALSE].edit = e
  BY DEF Entry
<1>2. PICK x \in Entry : x = [edit |-> e, preview |-> NoEdit, bad |-> FALSE] /\ x.edit = e
  BY <1>1
<1>3. /\ entries' = Append(entries, x) /\ e \notin used /\ used' = used \cup {e}
      /\ late' = IF committing THEN late \cup {e} ELSE late
      /\ UNCHANGED <<previewing, committing, requests, answers, linked, times,
                     discarded, halted, commits>>
  BY <1>2 DEF StageEdit
<1>4. /\ entries' \in Seq(Entry) /\ Apart(entries')
      /\ Staged(entries') = Staged(entries) \cup {e}
  BY <1>2, <1>3, StagedMore DEF EditorInv, EditorTypes
<1>5. EditorTypes'
  BY <1>3, <1>4 DEF EditorInv, EditorTypes
<1>6. ~(times[e] > 0)
  BY <1>3 DEF EditorInv
<1>7. StagedFresh => StagedFresh'
  BY <1>3, <1>4, <1>6 DEF StagedFresh
<1>8. Resting => Resting'
  BY <1>3, <1>7 DEF Resting
<1>9. Lost => Lost'
  BY <1>3 DEF Lost
<1>10. \A r \in Requests("commit") : AtServer(r) => AtServer(r)'
  BY <1>3, <1>4, <1>7 DEF AtServer
<1>11. \A a \in Commits : Told(a) => Told(a)'
  BY <1>3, <1>4, <1>7 DEF Told
<1>12. Underway'
  BY <1>8, <1>9, <1>10, <1>11 DEF EditorInv, Underway
<1>13. /\ used' \subseteq Edits /\ Staged(entries') \subseteq used'
       /\ \A f \in Edits : times'[f] > 0 => f \in used'
       /\ used' \subseteq discarded' \cup late' \cup Staged(entries')
                        \cup {f \in Edits : times'[f] > 0}
  BY <1>3, <1>4 DEF EditorInv
<1>. QED BY <1>3, <1>5, <1>12, <1>13 DEF EditorInv, AppliedAgainAfterErrors

\* What the game master takes off the list.
LEMMA EditorDiscards ==
    ASSUME EditorInv,
           entries' \in Seq(Entry), Apart(entries'), Staged(entries') \subseteq Staged(entries),
           discarded' = discarded \cup (Staged(entries) \ Staged(entries')),
           UNCHANGED <<previewing, committing, requests, answers, linked, times, used,
                       late, halted, commits>>
    PROVE  EditorInv'
<1>1. EditorTypes'
  BY DEF EditorInv, EditorTypes
<1>2. Underway'
  BY UnderwayKept DEF EditorInv
<1>. QED BY <1>1, <1>2 DEF EditorInv, AppliedAgainAfterErrors

\* A staged edit is removed.
LEMMA EditorRemoves ==
    ASSUME EditorInv, (\E i \in 1..Cardinality(Edits) : RemoveEdit(i)) \/ DiscardAll
    PROVE  EditorInv'
<1>0. entries \in Seq(Entry) /\ Apart(entries)
  BY DEF EditorInv, EditorTypes
<1>1. ASSUME NEW i \in 1..Cardinality(Edits), RemoveEdit(i) PROVE EditorInv'
  <2>1. i \in 1..Len(entries)
    BY <1>0, <1>1, LenProperties DEF RemoveEdit
  <2>2. /\ entries' = RemoveAt(entries, i) /\ discarded' = discarded \cup {entries[i].edit}
        /\ UNCHANGED <<previewing, committing, requests, answers, linked, times, used,
                       late, halted, commits>>
    BY <1>1 DEF RemoveEdit
  <2>3. /\ entries' \in Seq(Entry) /\ Apart(entries')
        /\ Staged(entries') = Staged(entries) \ {entries[i].edit}
    BY <1>0, <2>1, <2>2, StagedLess
  <2>4. entries[i].edit \in Staged(entries)
    BY <2>1 DEF Staged
  <2>5. discarded' = discarded \cup (Staged(entries) \ Staged(entries'))
    BY <2>2, <2>3, <2>4
  <2>6. Staged(entries') \subseteq Staged(entries)
    BY <2>3
  <2>. QED BY <2>2, <2>3, <2>5, <2>6, EditorDiscards
<1>2. CASE DiscardAll
  <2>1. /\ entries' = <<>> /\ discarded' = discarded \cup ToSet(EditsOf(entries))
        /\ UNCHANGED <<previewing, committing, requests, answers, linked, times, used,
                       late, halted, commits>>
    BY <1>2 DEF DiscardAll
  <2>2. ToSet(EditsOf(entries)) = Staged(entries)
    BY <1>0, StagedSent
  <2>3. /\ entries' \in Seq(Entry) /\ Apart(entries') /\ Staged(entries') = {}
    BY <2>1 DEF Apart, Staged
  <2>4. discarded' = discarded \cup (Staged(entries) \ Staged(entries'))
    BY <2>1, <2>2, <2>3
  <2>5. Staged(entries') \subseteq Staged(entries)
    BY <2>3
  <2>. QED BY <2>1, <2>3, <2>4, <2>5, EditorDiscards
<1>. QED BY <1>1, <1>2

\* What the editor sends.
LEMMA EditorSends ==
    ASSUME EditorInv, NEW op \in {"preview", "commit"}, SendToServer(op)
    PROVE  /\ requests' \in Seq(AnyRequest)
           /\ \E r \in Requests(op) : /\ requests' \in {requests, Append(requests, r)}
                                      /\ ToSet(r.edits) = Staged(entries)
<1>1. EditsOf(entries) \in Seq(Edits) /\ ToSet(EditsOf(entries)) = Staged(entries)
  BY StagedSent DEF EditorInv, EditorTypes
<1>2. /\ [op |-> op, edits |-> EditsOf(entries)] \in Requests(op)
      /\ [op |-> op, edits |-> EditsOf(entries)].edits = EditsOf(entries)
  BY <1>1 DEF Requests
<1>3. PICK r \in Requests(op) : r = [op |-> op, edits |-> EditsOf(entries)]
                                   /\ ToSet(r.edits) = Staged(entries)
  BY <1>1, <1>2
<1>4. requests' \in {requests, Append(requests, r)}
  BY <1>3 DEF SendToServer
<1>5. requests \in Seq(AnyRequest) /\ r \in AnyRequest
  BY DEF EditorInv, EditorTypes, AnyRequest
<1>6. requests' \in Seq(AnyRequest)
  BY <1>4, <1>5, AppendProperties
<1>. QED BY <1>3, <1>4, <1>6

\* Previews are no commits.
LEMMA KindsDiffer ==
    /\ \A r \in Requests("preview") : r \notin Requests("commit")
    /\ \A a \in Previews : a \notin Commits
BY DEF Requests, Previews, Commits, AllApplied, WithErrors

\* The previews are asked for again.
LEMMA EditorRefreshes == ASSUME EditorInv, RefreshPreview PROVE EditorInv'
<1>1. /\ SendToServer("preview") /\ previewing' = TRUE
      /\ UNCHANGED <<entries, committing, answers, linked, times, used, discarded,
                     late, halted, commits>>
  BY DEF RefreshPreview
<1>2. PICK r \in Requests("preview") : requests' \in {requests, Append(requests, r)}
  BY <1>1, EditorSends
<1>3. requests' \in Seq(AnyRequest)
  BY <1>1, EditorSends
<1>4. r \in AnyRequest /\ r \notin Requests("commit") /\ requests \in Seq(AnyRequest)
  BY KindsDiffer DEF AnyRequest, EditorInv, EditorTypes
<1>5. NoneOf(requests, Requests("commit")) => NoneOf(requests', Requests("commit"))
  BY <1>2, <1>4, AtTheEnd
<1>6. \A c \in Requests("commit") :
        OneOf(requests, Requests("commit"), c) => OneOf(requests', Requests("commit"), c)
  BY <1>2, <1>4, OneAtTheEnd
<1>7. Underway'
  BY <1>1, <1>5, <1>6, UnderwayKept DEF EditorInv
<1>8. EditorTypes'
  BY <1>1, <1>3 DEF EditorInv, EditorTypes
<1>. QED BY <1>1, <1>7, <1>8 DEF EditorInv, AppliedAgainAfterErrors

\* All that is staged goes to the server at once.
LEMMA EditorCommits == ASSUME EditorInv, CommitAll PROVE EditorInv'
<1>1. /\ SendToServer("commit") /\ ~committing /\ committing' = TRUE
      /\ commits < MaxCommits /\ commits' = commits + 1
      /\ UNCHANGED <<entries, previewing, answers, linked, times, used, discarded,
                     late, halted>>
  BY DEF CommitAll
<1>2. PICK r \in Requests("commit") : requests' \in {requests, Append(requests, r)}
                                      /\ ToSet(r.edits) = Staged(entries)
  BY <1>1, EditorSends
<1>3. requests' \in Seq(AnyRequest)
  BY <1>1, EditorSends
<1>4. Resting
  BY <1>1 DEF EditorInv, Underway, Lost, AtServer, Told
<1>5. commits \in Nat /\ commits' \in 0..MaxCommits
      /\ \A e \in Edits : times[e] \in Nat /\ times[e] <= commits
  BY <1>1 DEF EditorInv, EditorTypes
<1>6. \A e \in Edits : times'[e] < commits' /\ times'[e] <= commits'
  BY <1>1, <1>5
<1>7. EditorTypes'
  BY <1>1, <1>3, <1>5, <1>6 DEF EditorInv, EditorTypes
<1>8. CASE requests' = requests
  <2>1. Lost'
    BY <1>1, <1>4, <1>8 DEF Lost, Resting
  <2>. QED BY <1>1, <1>7, <2>1 DEF EditorInv, Underway, AppliedAgainAfterErrors
<1>9. CASE requests' = Append(requests, r)
  <2>1. r \in AnyRequest /\ requests \in Seq(AnyRequest)
    BY DEF AnyRequest, EditorInv, EditorTypes
  <2>2. OneOf(requests', Requests("commit"), r)
    BY <1>4, <1>9, <2>1, OneAtTheEnd DEF Resting
  <2>3. StagedFresh' /\ \A e \in ToSet(r.edits) : times'[e] > 0 => e \in halted'
    BY <1>1, <1>2, <1>4 DEF Resting, StagedFresh
  <2>4. Staged(entries') \subseteq ToSet(r.edits) \cup late' /\ ToSet(r.edits) \subseteq used'
    BY <1>1, <1>2 DEF EditorInv
  <2>5. NoneOf(answers', Commits)
    BY <1>1, <1>4 DEF Resting
  <2>6. AtServer(r)'
    BY <1>1, <1>6, <2>2, <2>3, <2>4, <2>5 DEF AtServer
  <2>. QED BY <1>1, <1>7, <2>6 DEF EditorInv, Underway, AppliedAgainAfterErrors
<1>. QED BY <1>2, <1>8, <1>9

\* The server previews what it was sent.
LEMMA EditorServesPreview == ASSUME EditorInv, ServePreview PROVE EditorInv'
<1>0. requests \in Seq(AnyRequest) /\ answers \in Seq(Previews \cup Commits)
  BY DEF EditorInv, EditorTypes
<1>1. requests # <<>> /\ Head(requests).op = "preview"
      /\ UNCHANGED <<entries, previewing, committing, linked, times, used, discarded,
                     late, halted, commits>>
  BY DEF ServePreview, Asked
<1>2. PICK s \in Seq(Edits) : s = Head(requests).edits
  BY <1>0, <1>1, HeadTailProperties DEF AnyRequest, Requests
<1>3. Head(requests) \notin Requests("commit")
  BY <1>1 DEF Requests
<1>4. PICK a \in Previews : requests' = Tail(requests)
                             /\ answers' \in {answers, Append(answers, a)}
  <2>0. PICK wrong \in SUBSET DOMAIN s :
          \E right \in InOrder(DOMAIN s \ wrong) :
            Answered([op |-> "preview", wrong |-> wrong,
                      edits |-> [i \in DOMAIN right |-> s[right[i]]]])
    BY <1>2 DEF ServePreview
  <2>1. PICK right \in InOrder(DOMAIN s \ wrong) :
            Answered([op |-> "preview", wrong |-> wrong,
                      edits |-> [i \in DOMAIN right |-> s[right[i]]]])
    BY <2>0
  <2>2. DOMAIN s = 1..Len(s) /\ Len(s) \in Nat /\ \A i \in 1..Len(s) : s[i] \in Edits
    BY LenProperties, ElementOfSeq
  <2>3. PICK ok : ok = DOMAIN s \ wrong
    OBVIOUS
  <2>4. Cardinality(ok) \in Nat
    <3>1. IsFiniteSet(1..Len(s))
      BY <2>2, FS_Interval
    <3>2. IsFiniteSet(ok)
      BY <2>2, <2>3, <3>1, FS_Subset
    <3>. QED BY <3>2, FS_CardinalityType
  <2>5. right \in [1..Cardinality(ok) -> ok]
    BY <2>1, <2>3 DEF InOrder
  <2>6. [i \in DOMAIN right |-> s[right[i]]] \in [1..Cardinality(ok) -> Edits]
    BY <2>2, <2>3, <2>5
  <2>7. [i \in DOMAIN right |-> s[right[i]]] \in Seq(Edits)
    BY <2>4, <2>6, SeqDef
  <2>8. wrong \in SUBSET Nat
    BY <2>2
  <2>9. [op |-> "preview", wrong |-> wrong, edits |-> [i \in DOMAIN right |-> s[right[i]]]]
            \in Previews
    BY <2>7, <2>8 DEF Previews
  <2>. QED BY <2>1, <2>9 DEF Answered
<1>5. /\ Tail(requests) \in Seq(AnyRequest)
      /\ Append(answers, a) \in Seq(Previews \cup Commits)
  BY <1>0, <1>1, HeadTailProperties, AppendProperties
<1>6. EditorTypes'
  BY <1>0, <1>1, <1>4, <1>5 DEF EditorInv, EditorTypes
<1>7. /\ NoneOf(requests, Requests("commit")) => NoneOf(requests', Requests("commit"))
      /\ \A r \in Requests("commit") :
            OneOf(requests, Requests("commit"), r) => OneOf(requests', Requests("commit"), r)
  BY <1>0, <1>1, <1>3, <1>4, AtTheFront, OneAtTheFront
<1>8. /\ NoneOf(answers, Commits) => NoneOf(answers', Commits)
      /\ \A b \in Commits : OneOf(answers, Commits, b) => OneOf(answers', Commits, b)
  <2>1. a \notin Commits /\ a \in Previews \cup Commits
    BY KindsDiffer
  <2>2. Append(answers, a) = Append(answers, a)
        /\ NoneOf(answers, Commits) => NoneOf(Append(answers, a), Commits)
    BY <1>0, <2>1, AtTheEnd
  <2>3. \A b \in Commits :
            OneOf(answers, Commits, b) => OneOf(Append(answers, a), Commits, b)
    BY <1>0, <2>1, OneAtTheEnd
  <2>. QED BY <1>4, <2>2, <2>3, Zenon
<1>9. Underway'
  BY <1>1, <1>7, <1>8, UnderwayKept DEF EditorInv
<1>. QED BY <1>1, <1>6, <1>9 DEF EditorInv, AppliedAgainAfterErrors

\* The server applies a commit, in whole or in part.
LEMMA EditorServesCommit == ASSUME EditorInv, ServeCommit PROVE EditorInv'
<1>0. requests \in Seq(AnyRequest) /\ answers \in Seq(Previews \cup Commits)
  BY DEF EditorInv, EditorTypes
<1>1. requests # <<>> /\ Head(requests).op = "commit"
      /\ UNCHANGED <<entries, previewing, committing, linked, used, discarded, late,
                     commits>>
  BY DEF ServeCommit, Asked
<1>2. Head(requests) \in Requests("commit")
  BY <1>0, <1>1, HeadTailProperties DEF AnyRequest, Requests
<1>3. PICK r \in Requests("commit") : AtServer(r)
  <2>1. ~NoneOf(requests, Requests("commit"))
    BY <1>0, <1>1, <1>2, AtTheFront
  <2>. QED BY <2>1 DEF EditorInv, Underway, Resting, Lost, Told
<1>4. Head(requests) = r /\ NoneOf(Tail(requests), Requests("commit"))
  BY <1>0, <1>1, <1>2, <1>3, OneAtTheFront DEF AtServer
<1>50. PICK all : all = ToSet(r.edits)
  OBVIOUS
<1>5. PICK taken \in SUBSET all :
        /\ times' = [e \in Edits |-> IF e \in taken THEN times[e] + 1 ELSE times[e]]
        /\ Answered([op |-> "commit", success |-> (taken = all)])
        /\ halted' = IF taken = all THEN halted ELSE halted \cup taken
  BY <1>4, <1>50, Zenon DEF ServeCommit
<1>51. /\ \A e \in all : times[e] > 0 => e \in halted
       /\ \A e \in Edits : times[e] < commits
       /\ all \subseteq used /\ Staged(entries) \subseteq all \cup late
  BY <1>3, <1>50, Zenon DEF AtServer
<1>52. /\ committing /\ NoneOf(answers, Commits) /\ StagedFresh
  BY <1>3, Zenon DEF AtServer
<1>53. requests' = Tail(requests)
  BY <1>5, Zenon DEF Answered
<1>54. times' = [e \in Edits |-> IF e \in taken THEN times[e] + 1 ELSE times[e]]
  BY <1>5, Zenon
<1>6. PICK a \in Commits :
        /\ answers' = IF linked THEN Append(answers, a) ELSE answers
        /\ a = AllApplied => taken = all
        /\ a = WithErrors => taken # all
  <2>1. AllApplied # WithErrors
    <3>1. AllApplied.success = TRUE /\ WithErrors.success = FALSE
      BY DEF AllApplied, WithErrors
    <3>. QED BY <3>1
  <2>2. CASE taken = all
    <3>1. (taken = all) = TRUE
      BY <2>2
    <3>2. Answered(AllApplied)
      BY <1>5, <3>1, Zenon DEF AllApplied
    <3>. QED BY <2>1, <2>2, <3>2, Zenon DEF Answered, Commits
  <2>3. CASE taken # all
    <3>1. (taken = all) = FALSE
      BY <2>3
    <3>2. Answered(WithErrors)
      BY <1>5, <3>1, Zenon DEF WithErrors
    <3>. QED BY <2>1, <2>3, <3>2, Zenon DEF Answered, Commits
  <2>. QED BY <2>2, <2>3, Zenon
<1>10. halted \subseteq halted' /\ (taken # all => taken \subseteq halted')
  BY <1>5, Zenon
<1>7. /\ \A e \in Edits : times[e] \in Nat /\ times[e] < commits
      /\ commits \in Nat
      /\ taken \subseteq used /\ used \subseteq Edits
      /\ \A e \in taken : times[e] > 0 => e \in halted
  <2>1. /\ \A e \in Edits : times[e] \in Nat
        /\ commits \in Nat /\ used \subseteq Edits
    BY DEF EditorInv, EditorTypes
  <2>. QED BY <1>51, <2>1
<1>8. /\ times' \in [Edits -> Nat]
      /\ \A e \in Edits :
            /\ times'[e] <= commits
            /\ times[e] > 0 => times'[e] > 0
            /\ e \in taken => times'[e] > 0
            /\ times'[e] > 0 => e \in taken \/ times[e] > 0
            /\ times'[e] > 1 => times[e] > 1 \/ (e \in taken /\ times[e] > 0)
  BY <1>7, <1>54
<1>9. EditorTypes'
  <2>1. /\ requests' \in Seq(AnyRequest)
        /\ answers' \in Seq(Previews \cup Commits)
    BY <1>0, <1>1, <1>6, <1>53, HeadTailProperties, AppendProperties
  <2>. QED BY <1>1, <1>8, <2>1 DEF EditorInv, EditorTypes
<1>11. AppliedAgainAfterErrors'
  <2>1. \A e \in Edits : times[e] > 1 => e \in halted
    BY DEF EditorInv, AppliedAgainAfterErrors
  <2>. QED BY <1>7, <1>8, <1>10, <2>1 DEF AppliedAgainAfterErrors
<1>12. Underway'
  <2>1. CASE ~linked
    <3>1. Lost'
      BY <1>1, <1>4, <1>6, <1>52, <1>53, <2>1, Zenon DEF Lost
    <3>. QED BY <3>1 DEF Underway
  <2>2. CASE linked
    <3>0. answers' = Append(answers, a)
      BY <1>6, <2>2
    <3>1. OneOf(answers', Commits, a)
      <4>1. a \in Previews \cup Commits
        OBVIOUS
      <4>. QED BY <1>0, <1>52, <3>0, <4>1, OneAtTheEnd, Zenon
    <3>2. ASSUME a = AllApplied, NEW e \in Staged(entries) PROVE e \in late \/ times'[e] > 0
      <4>1. e \in taken \/ e \in late
        BY <1>6, <1>51, <3>2, Zenon
      <4>2. e \in Edits
        BY <3>2, Zenon DEF EditorInv
      <4>. QED BY <1>8, <4>1, <4>2, Zenon
    <3>3. ASSUME a = WithErrors PROVE StagedFresh'
      <4>1. Staged(entries) \subseteq Edits /\ entries' = entries
        BY <1>1, Zenon DEF EditorInv
      <4>2. \A e \in Staged(entries) : times[e] > 0 => e \in halted
        BY <1>52, Zenon DEF StagedFresh
      <4>3. \A e \in Staged(entries) : times'[e] > 0 => e \in halted'
        BY <1>6, <1>8, <1>10, <3>3, <4>1, <4>2, Zenon
      <4>4. Staged(entries') = Staged(entries)
        BY <4>1, Zenon
      <4>. QED BY <4>3, <4>4, Zenon DEF StagedFresh
    <3>5. Staged(entries') = Staged(entries) /\ late' = late /\ committing' = committing
      BY <1>1, Zenon
    <3>4. Told(a)'
      BY <1>4, <1>52, <1>53, <3>1, <3>2, <3>3, <3>5, Zenon DEF Told
    <3>. QED BY <3>4, Zenon DEF Underway
  <2>. QED BY <2>1, <2>2, Zenon
<1>13. /\ \A e \in Edits : times'[e] > 0 => e \in used'
       /\ used' \subseteq discarded' \cup late' \cup Staged(entries')
                        \cup {e \in Edits : times'[e] > 0}
  <2>1. /\ \A e \in Edits : times[e] > 0 => e \in used
        /\ \A e \in used : \/ e \in discarded \cup late \cup Staged(entries)
                            \/ times[e] > 0
    BY Zenon DEF EditorInv
  <2>2. /\ used' = used /\ late' = late /\ discarded' = discarded
        /\ Staged(entries') = Staged(entries)
    BY <1>1, Zenon
  <2>3. \A e \in Edits : times'[e] > 0 => e \in used
    BY <1>7, <1>8, <2>1, Zenon
  <2>4. \A e \in used : \/ e \in discarded \cup late \cup Staged(entries)
                        \/ e \in Edits /\ times'[e] > 0
    BY <1>7, <1>8, <2>1, Zenon
  <2>. QED BY <2>2, <2>3, <2>4, Zenon
<1>. QED BY <1>1, <1>9, <1>11, <1>12, <1>13 DEF EditorInv

\* The previews are shown by their place in the list.
LEMMA EditorHearsPreview == ASSUME EditorInv, ReceivePreview PROVE EditorInv'
<1>0. /\ requests \in Seq(AnyRequest) /\ answers \in Seq(Previews \cup Commits)
      /\ entries \in Seq(Entry) /\ Apart(entries)
  BY DEF EditorInv, EditorTypes
<1>1. /\ answers # <<>> /\ Head(answers).op = "preview" /\ answers' = Tail(answers)
      /\ previewing' = FALSE
      /\ UNCHANGED <<committing, requests, linked, times, used, discarded, late, halted,
                     commits>>
  BY DEF ReceivePreview
<1>2. Head(answers) \in Previews /\ Head(answers) \notin Commits
      /\ Tail(answers) \in Seq(Previews \cup Commits)
  BY <1>0, <1>1, HeadTailProperties DEF Previews, Commits, AllApplied, WithErrors
<1>3. PICK a \in Previews : a = Head(answers)
  BY <1>2
<1>4. Len(entries) \in Nat /\ DOMAIN entries = 1..Len(entries)
      /\ \A i \in 1..Len(entries) : entries[i] \in Entry
  BY <1>0, LenProperties, ElementOfSeq
<1>5. entries' = [i \in 1..Len(entries) |->
            [entries[i] EXCEPT
                !.preview = IF i \in DOMAIN a.edits THEN a.edits[i] ELSE NoEdit,
                !.bad = i \in a.wrong]]
  BY <1>3, <1>4 DEF ReceivePreview
<1>6. a.edits \in Seq(Edits) /\ \A i \in DOMAIN a.edits : a.edits[i] \in Edits
  <2>1. a.edits \in Seq(Edits)
    BY DEF Previews
  <2>. QED BY <2>1, LenProperties, ElementOfSeq
<1>7. ASSUME NEW i \in 1..Len(entries)
      PROVE  /\ entries'[i] \in Entry /\ entries'[i].edit = entries[i].edit
  <2>1. PICK p \in Edits \cup {NoEdit} :
            p = IF i \in DOMAIN a.edits THEN a.edits[i] ELSE NoEdit
    BY <1>6
  <2>2. PICK b \in BOOLEAN : b = (i \in a.wrong)
    <3>1. CASE i \in a.wrong
      <4>1. TRUE = (i \in a.wrong)
        BY <3>1
      <4>. QED BY <4>1
    <3>2. CASE i \notin a.wrong
      <4>1. FALSE = (i \in a.wrong)
        BY <3>2
      <4>. QED BY <4>1
    <3>. QED BY <3>1, <3>2
  <2>3. entries'[i] = [entries[i] EXCEPT !.preview = p, !.bad = b]
    BY <1>5, <2>1, <2>2, Zenon
  <2>4. entries[i] \in [edit : Edits, preview : Edits \cup {NoEdit}, bad : BOOLEAN]
    BY <1>4 DEF Entry
  <2>5. [entries[i] EXCEPT !.preview = p, !.bad = b] \in
            [edit : Edits, preview : Edits \cup {NoEdit}, bad : BOOLEAN]
        /\ [entries[i] EXCEPT !.preview = p, !.bad = b].edit = entries[i].edit
    BY <2>4
  <2>. QED BY <2>3, <2>5 DEF Entry
<1>8. entries' \in Seq(Entry) /\ Len(entries') = Len(entries)
  <2>1. entries' \in [1..Len(entries) -> Entry]
    BY <1>5, <1>7
  <2>2. entries' \in Seq(Entry)
    BY <1>4, <2>1, SeqDef
  <2>3. DOMAIN entries' = 1..Len(entries) /\ DOMAIN entries' = 1..Len(entries')
        /\ Len(entries') \in Nat
    BY <2>1, <2>2, LenProperties
  <2>. QED BY <1>4, <2>2, <2>3
<1>9. Apart(entries') /\ Staged(entries') = Staged(entries)
  BY <1>0, <1>7, <1>8, StagedAgain
<1>10. EditorTypes'
  BY <1>1, <1>2, <1>8, <1>9 DEF EditorInv, EditorTypes
<1>11. /\ NoneOf(answers, Commits) => NoneOf(answers', Commits)
       /\ \A b \in Commits : OneOf(answers, Commits, b) => OneOf(answers', Commits, b)
  BY <1>0, <1>1, <1>2, AtTheFront, OneAtTheFront
<1>12. Underway'
  BY <1>1, <1>9, <1>11, UnderwayKept DEF EditorInv
<1>. QED BY <1>1, <1>9, <1>10, <1>12 DEF EditorInv, AppliedAgainAfterErrors

\* The list is emptied after a success, and kept after a failure.
LEMMA EditorHearsCommit == ASSUME EditorInv, ReceiveCommit PROVE EditorInv'
<1>0. /\ answers \in Seq(Previews \cup Commits) /\ entries \in Seq(Entry) /\ Apart(entries)
  BY DEF EditorInv, EditorTypes
<1>1. /\ answers # <<>> /\ Head(answers).op = "commit" /\ answers' = Tail(answers)
      /\ committing' = FALSE
      /\ UNCHANGED <<previewing, requests, linked, times, used, discarded, late, halted,
                     commits>>
  BY DEF ReceiveCommit
<1>20. Head(answers) \in Previews \cup Commits /\ Tail(answers) \in Seq(Previews \cup Commits)
  BY <1>0, <1>1, HeadTailProperties
<1>21. Head(answers) \notin Previews
  BY <1>1 DEF Previews
<1>2. Head(answers) \in Commits /\ Tail(answers) \in Seq(Previews \cup Commits)
  BY <1>20, <1>21, Zenon
<1>3. PICK a \in Commits : Told(a)
  <2>1. ~NoneOf(answers, Commits)
    BY <1>0, <1>1, <1>2, AtTheFront
  <2>. QED BY <2>1 DEF EditorInv, Underway, Resting, Lost, AtServer
<1>4. Head(answers) = a /\ NoneOf(Tail(answers), Commits)
  BY <1>0, <1>1, <1>2, <1>3, OneAtTheFront DEF Told
<1>5. CASE a = AllApplied
  <2>1. entries' = <<>>
    BY <1>4, <1>5 DEF ReceiveCommit, StagedAfter, AllApplied
  <2>2. entries' \in Seq(Entry) /\ Apart(entries') /\ Staged(entries') = {}
    BY <2>1 DEF Apart, Staged
  <2>3. EditorTypes'
    BY <1>1, <1>2, <2>2 DEF EditorInv, EditorTypes
  <2>4. Resting'
    BY <1>1, <1>3, <1>4, <2>2 DEF Resting, Told, StagedFresh
  <2>5. used' \subseteq discarded' \cup late' \cup Staged(entries')
                       \cup {e \in Edits : times'[e] > 0}
    <3>1. \A e \in Staged(entries) : e \in late \/ times[e] > 0
      BY <1>3, <1>5 DEF Told
    <3>. QED BY <1>1, <3>1 DEF EditorInv
  <2>. QED BY <1>1, <2>2, <2>3, <2>4, <2>5 DEF EditorInv, Underway, AppliedAgainAfterErrors
<1>6. CASE a = WithErrors
  <2>1. entries' = entries
    BY <1>4, <1>6 DEF ReceiveCommit, StagedAfter, WithErrors
  <2>2. EditorTypes'
    BY <1>1, <1>2, <2>1 DEF EditorInv, EditorTypes
  <2>3. Resting'
    BY <1>1, <1>3, <1>4, <1>6, <2>1 DEF Resting, Told, StagedFresh
  <2>. QED BY <1>1, <2>1, <2>2, <2>3 DEF EditorInv, Underway, AppliedAgainAfterErrors
<1>. QED BY <1>5, <1>6 DEF Commits

\* All that was on the way is lost with the connection.
LEMMA EditorLosesLink == ASSUME EditorInv, LinkCloses PROVE EditorInv'
<1>1. /\ answers' = <<>> /\ requests' \in {requests, <<>>} /\ linked' = FALSE
      /\ UNCHANGED <<entries, previewing, committing, times, used, discarded, late,
                     halted, commits>>
  BY DEF LinkCloses
<1>2. EditorTypes'
  <2>1. <<>> \in Seq(AnyRequest) /\ <<>> \in Seq(Previews \cup Commits)
    OBVIOUS
  <2>2. requests' \in Seq(AnyRequest) /\ answers' \in Seq(Previews \cup Commits)
    BY <1>1, <2>1, Zenon DEF EditorInv, EditorTypes
  <2>. QED BY <1>1, <2>2 DEF EditorInv, EditorTypes
<1>3. NoneOf(answers', Commits)
  BY <1>1, NothingInLine
<1>4. NoneOf(requests', Requests("commit")) \/ requests' = requests
  BY <1>1, NothingInLine
<1>5. Underway'
  <2>1. CASE Resting
    BY <1>1, <1>3, <1>4, <2>1 DEF Underway, Resting, StagedFresh
  <2>2. CASE Lost \/ \E a \in Commits : Told(a)
    BY <1>1, <1>3, <1>4, <2>2 DEF Underway, Lost, Told
  <2>3. ASSUME NEW r \in Requests("commit"), AtServer(r) PROVE Underway'
    <3>1. CASE requests' = requests
      <4>1. AtServer(r)'
        BY <1>1, <1>3, <2>3, <3>1 DEF AtServer, StagedFresh
      <4>. QED BY <4>1 DEF Underway
    <3>2. CASE NoneOf(requests', Requests("commit"))
      BY <1>1, <1>3, <2>3, <3>2 DEF Underway, AtServer, Lost
    <3>. QED BY <1>4, <3>1, <3>2
  <2>. QED BY <2>1, <2>2, <2>3 DEF EditorInv, Underway
<1>. QED BY <1>1, <1>2, <1>5 DEF EditorInv, AppliedAgainAfterErrors

\* Every step keeps the invariant.
LEMMA EditorKept == EditorInv /\ [GmEditorNext]_gmVars => EditorInv'
<1>. SUFFICES ASSUME EditorInv, [GmEditorNext]_gmVars PROVE EditorInv'
  OBVIOUS
<1>1. CASE UNCHANGED gmVars
  BY <1>1 DEF gmVars, EditorInv, EditorTypes, AppliedAgainAfterErrors, Underway, Resting, Lost,
              AtServer, Told, StagedFresh
<1>2. CASE GmEditorNext
  BY <1>2, EditorStages, EditorRemoves, EditorRefreshes, EditorCommits, EditorServesPreview,
     EditorServesCommit, EditorHearsPreview, EditorHearsCommit, EditorLosesLink
     DEF GmEditorNext
<1>. QED BY <1>1, <1>2

\* The invariant says what is checked.
LEMMA EditorInvSays == EditorInv => GmEditorTypeOK /\ EditsReachOnce
<1>. SUFFICES ASSUME EditorInv PROVE GmEditorTypeOK /\ EditsReachOnce
  OBVIOUS
<1>1. /\ DOMAIN entries = 1..Len(entries) /\ \A i \in 1..Len(entries) : entries[i] \in Entry
  BY LenProperties, ElementOfSeq DEF EditorInv, EditorTypes
<1>2. \A i \in DOMAIN requests : requests[i].op \in {"preview", "commit"}
  <2>1. \A i \in DOMAIN requests : requests[i] \in AnyRequest
    BY LenProperties, ElementOfSeq DEF EditorInv, EditorTypes
  <2>. QED BY <2>1 DEF AnyRequest, Requests
<1>3. \A i \in DOMAIN answers : answers[i].op \in {"preview", "commit"}
  <2>1. \A i \in DOMAIN answers : answers[i] \in Previews \cup Commits
    BY LenProperties, ElementOfSeq DEF EditorInv, EditorTypes
  <2>. QED BY <2>1 DEF Previews, Commits, AllApplied, WithErrors
<1>4. times \in [Edits -> 0..MaxCommits]
  BY DEF EditorInv, EditorTypes
<1>5. GmEditorTypeOK
  BY <1>1, <1>2, <1>3, <1>4 DEF EditorInv, EditorTypes, Apart, GmEditorTypeOK
<1>6. ToSet(EditsOf(entries)) = Staged(entries)
  BY StagedSent DEF EditorInv, EditorTypes
<1>. QED BY <1>5, <1>6 DEF EditorInv, EditsReachOnce, NoEditVanishes

\* What the editor commits reaches the live world once, and nothing else does.
THEOREM EditsAlwaysReach == GmEditorSpec => [](GmEditorTypeOK /\ EditsReachOnce)
<1>. QED BY EditorStart, EditorKept, EditorInvSays, PTL DEF GmEditorSpec

HIDE CommitsAssumption

-----------------------------------------------------------------------------
(***************************************************************************)
(* The editor's debug panel.  What it will show is what the messages on    *)
(* their way make of what it shows, one after the other; the invariant     *)
(* says that this is what the server's session expects (WillFit).          *)
(***************************************************************************)

USE DebugPanelAssumption

DebugPanelSpec == DebugPanelInit /\ [][DebugPanelNext]_panelVars

Plain == {"start", "end", "continue", "step", "pause", "variables", "expand", "set",
          "setFunction", "list"}
Wanted == [does : Plain] \cup [does : {"remove"}, id : Breaks]
            \cup [does : {"toggle"}, id : Breaks, to : {"on", "off"}]
News == [is : {"error", "ended", "resumed", "variables", "paused"}]
          \cup [is : {"started"}, of : PanelSessions]
          \cup [is : {"set", "setFunction", "removed"}, id : Breaks]
          \cup [is : {"toggled"}, id : Breaks, to : {"on", "off"}]
          \cup [is : {"list"}, all : [Breaks -> Shape]]

\* What of the panel is compared with the server, and what a message makes of it.
Looks == [session : PanelSessions \cup {NoPanelSession}, bps : [Breaks -> Shape]]
Look == [session |-> panel.session, bps |-> panel.bps]
Heard(v, m) ==
    [session |-> IF m.is = "started" THEN m.of
                 ELSE IF m.is = "ended" THEN NoPanelSession ELSE v.session,
     bps |-> IF m.is = "list" THEN m.all
             ELSE [b \in Breaks |->
                    IF m.is \in {"set", "removed", "toggled"} /\ m.id = b
                    THEN IF m.is = "set" THEN "on"
                         ELSE IF m.is = "removed" \/ v.bps[b] = "absent" THEN "absent" ELSE m.to
                    ELSE v.bps[b]]]

\* f: what the panel looks like after each of the messages on their way to it.
Foresees(f) ==
    /\ f \in [0..Len(channel.down) -> Looks]
    /\ f[0] = Look
    /\ \A i \in 1..Len(channel.down) : f[i] = Heard(f[i - 1], channel.down[i])

\* The look that the server's session expects.
Fits(v) ==
    v.session # NoPanelSession =>
        v.session = held /\ \A b \in Breaks : breaks[b] # "absent" => v.bps[b] = breaks[b]

WillFit == \E f : Foresees(f) /\ Fits(f[Len(channel.down)])

DebugTypes ==
    /\ held \in PanelSessions \cup {NoPanelSession}
    /\ breaks \in [Breaks -> Shape] /\ rows \in [Breaks -> Shape]
    /\ stopped \in BOOLEAN
    /\ stops \in [PanelSessions -> 0..MaxStops]
    /\ spent \subseteq PanelSessions \cup Breaks
    /\ channel \in [up : Seq(Wanted), down : Seq(News)]
    /\ Len(channel.up) + Len(channel.down) <= MaxWire
    /\ panel \in [session : PanelSessions \cup {NoPanelSession},
                  connecting : BOOLEAN, paused : BOOLEAN, frames : BOOLEAN,
                  locals : BOOLEAN, bps : [Breaks -> Shape], fns : SUBSET Breaks]
    /\ held = NoPanelSession => breaks = NoBreaks

DebugInv == DebugTypes /\ WillFit

\* A message turns a look into a look.
LEMMA HeardLooks == \A v \in Looks, m \in News : Heard(v, m) \in Looks
<1>. SUFFICES ASSUME NEW v \in Looks, NEW m \in News PROVE Heard(v, m) \in Looks
  OBVIOUS
<1>1. m.is = "started" => m.of \in PanelSessions
  BY DEF News
<1>2. m.is = "list" => m.all \in [Breaks -> Shape]
  BY DEF News
<1>3. m.is = "toggled" => m.to \in Shape
  BY DEF News, Shape
<1>4. m.is \in {"set", "removed", "toggled"} => m.id \in Breaks
  BY DEF News
<1>. QED BY <1>1, <1>2, <1>3, <1>4 DEF Heard, Looks, Shape

\* Nothing is debugged at the start.
LEMMA DebugStarts == DebugPanelInit => DebugInv
<1>. SUFFICES ASSUME DebugPanelInit PROVE DebugInv
  OBVIOUS
<1>1. channel \in [up : Seq(Wanted), down : Seq(News)]
      /\ Len(channel.up) = 0 /\ Len(channel.down) = 0
  BY EmptySeq DEF DebugPanelInit
<1>2. DebugTypes
  <2>1. Len(channel.up) + Len(channel.down) <= MaxWire
    BY <1>1
  <2>2. NoBreaks \in [Breaks -> Shape]
    BY DEF NoBreaks, Shape
  <2>3. FreshPanel \in [session : PanelSessions \cup {NoPanelSession},
                  connecting : BOOLEAN, paused : BOOLEAN, frames : BOOLEAN,
                  locals : BOOLEAN, bps : [Breaks -> Shape], fns : SUBSET Breaks]
    BY <2>2 DEF FreshPanel
  <2>4. stopped = FALSE /\ stops \in [PanelSessions -> 0..MaxStops]
    BY DEF DebugPanelInit
  <2>. QED BY <1>1, <2>1, <2>2, <2>3, <2>4 DEF DebugPanelInit, DebugTypes
<1>3. WillFit
  <2>. DEFINE f == [i \in 0..Len(channel.down) |-> Look]
  <2>1. Look \in Looks /\ Look.session = NoPanelSession
    BY DEF Look, Looks, DebugPanelInit, FreshPanel, NoBreaks, Shape
  <2>2. Foresees(f) /\ Fits(f[Len(channel.down)])
    BY <1>1, <2>1 DEF Foresees, Fits
  <2>. QED BY <2>2 DEF WillFit
<1>. QED BY <1>2, <1>3 DEF DebugInv

\* No message comes or goes.
LEMMA FitStays ==
    ASSUME DebugInv, channel'.down = channel.down, Look' = Look,
           \A v \in Looks : Fits(v) => Fits(v)'
    PROVE  WillFit'
<1>1. PICK f : Foresees(f) /\ Fits(f[Len(channel.down)])
  BY DEF DebugInv, WillFit
<1>2. f[Len(channel.down)] \in Looks
  BY <1>1, LenProperties DEF Foresees, DebugInv, DebugTypes
<1>3. Foresees(f)'
  BY <1>1 DEF Foresees
<1>4. PICK v : v = f[Len(channel.down)]
  OBVIOUS
<1>5. Fits(v)' /\ v = f[Len(channel.down')]
  BY <1>1, <1>2, <1>4
<1>. QED BY <1>3, <1>5 DEF WillFit, Fits

\* The server sends a message.
LEMMA FitGrows ==
    ASSUME DebugInv, NEW m \in News, channel'.down = Append(channel.down, m), Look' = Look,
           \A v \in Looks : Fits(v) => Fits(Heard(v, m))'
    PROVE  WillFit'
<1>. DEFINE n == Len(channel.down)
<1>1. PICK f : Foresees(f) /\ Fits(f[n])
  BY DEF DebugInv, WillFit
<1>2. n \in Nat /\ f[n] \in Looks
  <2>1. n \in Nat
    BY LenProperties DEF DebugInv, DebugTypes
  <2>. QED BY <1>1, <2>1 DEF Foresees
<1>3. /\ Len(channel'.down) = n + 1 /\ channel'.down[n + 1] = m
      /\ \A i \in 1..n : channel'.down[i] = channel.down[i]
  BY AppendProperties DEF DebugInv, DebugTypes
<1>4. PICK v : v = Heard(f[n], m)
  OBVIOUS
<1>5. v \in Looks
  BY <1>2, <1>4, HeardLooks
<1>6. PICK g : g = [i \in 0..(n + 1) |-> IF i = n + 1 THEN v ELSE f[i]]
  OBVIOUS
<1>7. Foresees(g)'
  <2>1. g \in [0..(n + 1) -> Looks]
    BY <1>1, <1>2, <1>5, <1>6 DEF Foresees
  <2>2. g[0] = Look'
    BY <1>1, <1>2, <1>6 DEF Foresees
  <2>3. ASSUME NEW i \in 1..(n + 1) PROVE g[i] = Heard(g[i - 1], channel'.down[i])
    <3>1. CASE i = n + 1
      BY <1>2, <1>3, <1>4, <1>6, <3>1
    <3>2. CASE i \in 1..n
      <4>1. g[i] = f[i] /\ g[i - 1] = f[i - 1]
        BY <1>2, <1>6, <3>2
      <4>. QED BY <1>1, <1>3, <3>2, <4>1 DEF Foresees
    <3>. QED BY <1>2, <3>1, <3>2
  <2>. QED BY <1>3, <2>1, <2>2, <2>3 DEF Foresees
<1>8. Fits(v)'
  BY <1>1, <1>2, <1>4
<1>9. g[Len(channel'.down)] = v
  BY <1>2, <1>3, <1>6
<1>. QED BY <1>7, <1>8, <1>9 DEF WillFit, Fits

\* The panel takes a message.
LEMMA FitTakes ==
    ASSUME DebugInv, channel.down # <<>>, channel'.down = Tail(channel.down),
           Look' = Heard(Look, Head(channel.down)), UNCHANGED <<held, breaks>>
    PROVE  WillFit'
<1>. DEFINE n == Len(channel.down)
<1>1. PICK f : Foresees(f) /\ Fits(f[n])
  BY DEF DebugInv, WillFit
<1>2. /\ n \in Nat \ {0} /\ Len(channel'.down) = n - 1 /\ Head(channel.down) = channel.down[1]
      /\ \A i \in 1..(n - 1) : channel'.down[i] = channel.down[i + 1]
  BY HeadTailProperties, EmptySeq, LenProperties DEF DebugInv, DebugTypes
<1>3. PICK g : g = [i \in 0..(n - 1) |-> f[i + 1]]
  OBVIOUS
<1>4. Foresees(g)'
  <2>1. g \in [0..(n - 1) -> Looks]
    BY <1>1, <1>2, <1>3 DEF Foresees
  <2>2. g[0] = Look'
    <3>1. f[0 + 1] = Heard(f[0], channel.down[1])
      BY <1>1, <1>2 DEF Foresees
    <3>. QED BY <1>1, <1>2, <1>3, <3>1 DEF Foresees
  <2>3. ASSUME NEW i \in 1..(n - 1) PROVE g[i] = Heard(g[i - 1], channel'.down[i])
    <3>1. f[i + 1] = Heard(f[i + 1 - 1], channel.down[i + 1])
      BY <1>1, <1>2 DEF Foresees
    <3>2. g[i] = f[i + 1] /\ g[i - 1] = f[i - 1 + 1]
      BY <1>2, <1>3
    <3>3. i - 1 + 1 = i + 1 - 1
      OBVIOUS
    <3>. QED BY <1>2, <3>1, <3>2, <3>3
  <2>. QED BY <1>2, <2>1, <2>2, <2>3 DEF Foresees
<1>5. g[Len(channel'.down)] = f[n]
  BY <1>2, <1>3
<1>6. PICK v : v = f[n]
  OBVIOUS
<1>7. Fits(v)'
  BY <1>1, <1>6 DEF Fits
<1>. QED BY <1>4, <1>5, <1>6, <1>7 DEF WillFit, Fits

\* The clicks.
LEMMA AskKeeps ==
    ASSUME DebugInv, NEW q \in Wanted, Ask(q),
           \/ UNCHANGED panel
           \/ panel' = [panel EXCEPT !.connecting = TRUE]
    PROVE  DebugInv'
<1>1. channel'.up \in Seq(Wanted) /\ Len(channel'.up) = Len(channel.up) + 1
      /\ channel'.down = channel.down /\ channel' \in [up : Seq(Wanted), down : Seq(News)]
  <2>1. channel.up \in Seq(Wanted) /\ channel.down \in Seq(News)
        /\ channel' = [channel EXCEPT !.up = Append(channel.up, q)]
        /\ channel \in [up : Seq(Wanted), down : Seq(News)]
    BY DEF Ask, DebugInv, DebugTypes
  <2>2. Append(channel.up, q) \in Seq(Wanted) /\ Len(Append(channel.up, q)) = Len(channel.up) + 1
    BY <2>1, AppendProperties
  <2>. QED BY <2>1, <2>2
<1>2. Len(channel.up) \in Nat /\ Len(channel.down) \in Nat
  BY LenProperties DEF DebugInv, DebugTypes
<1>3. UNCHANGED <<serverVars, rows>> /\ Look' = Look
  BY DEF Ask, Look, DebugInv, DebugTypes
<1>4. DebugTypes'
  <2>1. Len(channel'.up) + Len(channel'.down) <= MaxWire
    BY <1>1, <1>2 DEF Ask, Room
  <2>2. panel' \in [session : PanelSessions \cup {NoPanelSession},
                  connecting : BOOLEAN, paused : BOOLEAN, frames : BOOLEAN,
                  locals : BOOLEAN, bps : [Breaks -> Shape], fns : SUBSET Breaks]
    BY DEF DebugInv, DebugTypes
  <2>. QED BY <1>1, <1>3, <2>1, <2>2 DEF DebugInv, DebugTypes, serverVars
<1>5. \A v \in Looks : Fits(v) => Fits(v)'
  BY <1>3 DEF Fits, serverVars
<1>. QED BY <1>1, <1>3, <1>4, <1>5, FitStays DEF DebugInv

\* What the panel does keeps the invariant.
LEMMA PanelActsKeep == ASSUME DebugInv, PanelActs PROVE DebugInv'
<1>1. ASSUME NEW c \in Plain PROVE [does |-> c] \in Wanted
  BY DEF Wanted
<1>2. CASE \/ ClickStart \/ ClickEnd \/ SelectFrame \/ ExpandVariable
           \/ \E c \in GoOn \cup {"pause"} : ClickControl(c)
           \/ \E c \in {"set", "setFunction", "list"} : RequestBreakpoint(c)
  <2>1. PICK c \in Plain :
            Ask([does |-> c]) /\ (UNCHANGED panel \/ panel' = [panel EXCEPT !.connecting = TRUE])
    BY <1>2 DEF ClickStart, ClickEnd, SelectFrame, ExpandVariable, ClickControl,
                RequestBreakpoint, Plain, GoOn
  <2>. QED BY <1>1, <2>1, AskKeeps
<1>3. ASSUME NEW b \in Breaks, ToggleRow(b) PROVE DebugInv'
  <2>1. PICK t \in {"on", "off"} : Ask([does |-> "toggle", id |-> b, to |-> t]) /\ UNCHANGED panel
    BY <1>3 DEF ToggleRow
  <2>2. [does |-> "toggle", id |-> b, to |-> t] \in Wanted
    BY DEF Wanted
  <2>. QED BY <2>1, <2>2, AskKeeps
<1>4. ASSUME NEW b \in Breaks, RemoveRow(b) PROVE DebugInv'
  <2>1. [does |-> "remove", id |-> b] \in Wanted
    BY DEF Wanted
  <2>. QED BY <1>4, <2>1, AskKeeps DEF RemoveRow
<1>5. CASE ReopenEditor
  <2>1. channel' \in [up : Seq(Wanted), down : Seq(News)]
        /\ Len(channel'.up) = 0 /\ Len(channel'.down) = 0
    BY <1>5, EmptySeq DEF ReopenEditor
  <2>2. DebugTypes'
    <3>1. Len(channel'.up) + Len(channel'.down) <= MaxWire
      BY <2>1
    <3>2. NoBreaks \in [Breaks -> Shape]
      BY DEF NoBreaks, Shape
    <3>. QED BY <1>5, <2>1, <3>1, <3>2 DEF ReopenEditor, DebugInv, DebugTypes, FreshPanel, serverVars
  <2>3. WillFit'
    <3>1. PICK v : v = Look'
      OBVIOUS
    <3>2. v \in Looks /\ v.session = NoPanelSession
      BY <1>5, <3>1 DEF Look, Looks, ReopenEditor, FreshPanel, NoBreaks, Shape
    <3>3. PICK g : g = [i \in 0..0 |-> v]
      OBVIOUS
    <3>4. Foresees(g)' /\ g[Len(channel'.down)] = v
      BY <2>1, <3>1, <3>2, <3>3 DEF Foresees
    <3>5. Fits(v)'
      BY <3>2 DEF Fits
    <3>. QED BY <3>4, <3>5 DEF WillFit, Fits
  <2>. QED BY <2>2, <2>3 DEF DebugInv
<1>. QED BY <1>2, <1>3, <1>4, <1>5 DEF PanelActs

\* What an answer does to the channel.
LEMMA AnswerChannel ==
    ASSUME DebugInv, NEW m \in News, Answer(m), channel.up # <<>>
    PROVE  /\ channel' \in [up : Seq(Wanted), down : Seq(News)]
           /\ Len(channel'.up) + Len(channel'.down) <= MaxWire
           /\ channel'.down = Append(channel.down, m)
<1>1. Tail(channel.up) \in Seq(Wanted) /\ Len(Tail(channel.up)) = Len(channel.up) - 1
  BY HeadTailProperties DEF DebugInv, DebugTypes
<1>2. Append(channel.down, m) \in Seq(News) /\ Len(Append(channel.down, m)) = Len(channel.down) + 1
  BY AppendProperties DEF DebugInv, DebugTypes
<1>3. Len(channel.up) \in Nat /\ Len(channel.down) \in Nat
  BY LenProperties DEF DebugInv, DebugTypes
<1>. QED BY <1>1, <1>2, <1>3 DEF Answer, DebugInv, DebugTypes

\* An answer that leaves session and breakpoints alone, there and in the panel.
LEMMA QuietAnswer ==
    ASSUME DebugInv, NEW m \in News, m.is \in {"error", "resumed", "variables", "paused", "setFunction"},
           Answer(m), channel.up # <<>>, UNCHANGED <<held, breaks, stops, panel, rows>>,
           stopped' \in BOOLEAN, spent' \subseteq PanelSessions \cup Breaks
    PROVE  DebugInv'
<1>1. Look' = Look
  BY DEF Look
<1>2. \A v \in Looks : Fits(v) => Fits(Heard(v, m))'
  BY DEF Fits, Heard, Looks
<1>3. DebugTypes'
  BY AnswerChannel DEF DebugInv, DebugTypes
<1>. QED BY <1>1, <1>2, <1>3, AnswerChannel, FitGrows DEF DebugInv

\* An answer about the session or its breakpoints.
LEMMA PlainAnswer ==
    ASSUME DebugInv, NEW m \in News, Answer(m), channel.up # <<>>,
           UNCHANGED <<stops, panel, rows>>,
           held' \in PanelSessions \cup {NoPanelSession}, breaks' \in [Breaks -> Shape],
           held' = NoPanelSession => breaks' = NoBreaks,
           stopped' \in BOOLEAN, spent' \subseteq PanelSessions \cup Breaks,
           \A v \in Looks : Fits(v) => Fits(Heard(v, m))'
    PROVE  DebugInv'
<1>1. Look' = Look
  BY DEF Look
<1>2. DebugTypes'
  BY AnswerChannel DEF DebugInv, DebugTypes
<1>. QED BY <1>1, <1>2, AnswerChannel, FitGrows DEF DebugInv

\* What the server does keeps the invariant: what it says turns the look that was
\* expected into the one that is.
LEMMA ServerActsKeep == ASSUME DebugInv, ServerActs PROVE DebugInv'
<1>0. /\ stopped \in BOOLEAN /\ spent \subseteq PanelSessions \cup Breaks
      /\ held \in PanelSessions \cup {NoPanelSession} /\ breaks \in [Breaks -> Shape]
      /\ held = NoPanelSession => breaks = NoBreaks
      /\ stops \in [PanelSessions -> 0..MaxStops]
      /\ channel.up \in Seq(Wanted) /\ channel.down \in Seq(News)
  BY DEF DebugInv, DebugTypes
<1>1. \A k \in {"error", "ended", "resumed", "variables", "paused"} : [is |-> k] \in News
  BY DEF News
<1>2. ASSUME channel.up # <<>> PROVE Head(channel.up) \in Wanted
  BY <1>0, <1>2, HeadTailProperties
<1>3. CASE \/ AnswerPause \/ AnswerVariables \/ AnswerExpand
           \/ \E c \in Needing : NoneActive(c)
           \/ \E c \in GoOn : AnswerGoOn(c)
  <2>1. channel.up # <<>> /\ UNCHANGED <<held, breaks, stops, spent, panel, rows>>
        /\ stopped' \in BOOLEAN
    BY <1>0, <1>3 DEF AnswerPause, AnswerVariables, AnswerExpand, NoneActive, AnswerGoOn, Requested,
                      serverVars
  <2>2. ASSUME NEW k \in {"error", "resumed", "variables"}, Answer([is |-> k]) PROVE DebugInv'
    <3>1. PICK m : m = [is |-> k] /\ m \in News
      BY <1>1
    <3>. QED BY <1>0, <2>1, <2>2, <3>1, QuietAnswer
  <2>3. ASSUME channel' = [channel EXCEPT !.up = Tail(@)], UNCHANGED stopped PROVE DebugInv'
    <3>1. Tail(channel.up) \in Seq(Wanted) /\ Len(Tail(channel.up)) = Len(channel.up) - 1
      BY <1>0, <2>1, HeadTailProperties
    <3>2. /\ channel' \in [up : Seq(Wanted), down : Seq(News)]
          /\ channel'.up = Tail(channel.up) /\ channel'.down = channel.down
      BY <2>3, <3>1 DEF DebugInv, DebugTypes
    <3>3. Len(channel.up) \in Nat /\ Len(channel.down) \in Nat
      BY <1>0, LenProperties
    <3>4. DebugTypes'
      BY <2>1, <2>3, <3>1, <3>2, <3>3 DEF DebugInv, DebugTypes
    <3>5. Look' = Look /\ \A v \in Looks : Fits(v) => Fits(v)'
      BY <2>1 DEF Look, Fits
    <3>. QED BY <3>2, <3>4, <3>5, FitStays DEF DebugInv
  <2>. QED BY <1>3, <2>2, <2>3
       DEF AnswerPause, AnswerVariables, AnswerExpand, NoneActive, AnswerGoOn, serverVars
<1>4. CASE AnswerStart
  <2>1. channel.up # <<>> /\ UNCHANGED <<breaks, stopped, stops, panel, rows>>
    BY <1>4 DEF AnswerStart, Requested
  <2>2. CASE Answer([is |-> "error"]) /\ UNCHANGED <<held, spent>>
    <3>1. PICK m : m = [is |-> "error"] /\ m \in News
      BY <1>1
    <3>. QED BY <1>0, <2>1, <2>2, <3>1, QuietAnswer
  <2>3. ASSUME NEW s \in PanelSessions, held = NoPanelSession, held' = s, spent' = spent \cup {s},
               Answer([is |-> "started", of |-> s])
        PROVE  DebugInv'
    <3>10. [is |-> "started", of |-> s] \in News
      BY DEF News
    <3>1. PICK m : m = [is |-> "started", of |-> s] /\ m \in News
      BY <3>10
    <3>2. breaks' = NoBreaks
      BY <1>0, <2>1, <2>3
    <3>3. \A v \in Looks : Fits(Heard(v, m))'
      BY <2>3, <3>1, <3>2 DEF Fits, Heard, NoBreaks
    <3>. QED BY <1>0, <2>1, <2>3, <3>1, <3>3, PlainAnswer
  <2>. QED BY <1>4, <2>2, <2>3 DEF AnswerStart
<1>5. CASE AnswerEnd
  <2>1. PICK m : m = [is |-> "ended"] /\ m \in News
    BY <1>1
  <2>2. NoBreaks \in [Breaks -> Shape]
    BY DEF NoBreaks, Shape
  <2>3. \A v \in Looks : Fits(Heard(v, m))'
    BY <2>1 DEF Fits, Heard
  <2>. QED BY <1>0, <1>5, <2>1, <2>2, <2>3, PlainAnswer DEF AnswerEnd, Requested
<1>6. CASE AnswerSet
  <2>1. PICK b \in Breaks : /\ breaks' = [breaks EXCEPT ![b] = "on"] /\ spent' = spent \cup {b}
                            /\ Answer([is |-> "set", id |-> b])
    BY <1>6 DEF AnswerSet
  <2>20. [is |-> "set", id |-> b] \in News
    BY DEF News
  <2>2. PICK m : m = [is |-> "set", id |-> b] /\ m \in News
    BY <2>20
  <2>3. UNCHANGED <<held, stopped, stops, panel, rows>> /\ channel.up # <<>> /\ held # NoPanelSession
    BY <1>6 DEF AnswerSet, Requested
  <2>4. \A v \in Looks : Fits(v) => Fits(Heard(v, m))'
    BY <1>0, <2>1, <2>2, <2>3 DEF Fits, Heard, Looks
  <2>5. breaks' \in [Breaks -> Shape]
    BY <1>0, <2>1 DEF Shape
  <2>. QED BY <1>0, <2>1, <2>2, <2>3, <2>4, <2>5, PlainAnswer
<1>7. CASE AnswerSetFunction
  <2>1. PICK b \in Breaks : spent' = spent \cup {b} /\ Answer([is |-> "setFunction", id |-> b])
    BY <1>7 DEF AnswerSetFunction
  <2>20. [is |-> "setFunction", id |-> b] \in News
    BY DEF News
  <2>2. PICK m : m = [is |-> "setFunction", id |-> b] /\ m \in News
    BY <2>20
  <2>. QED BY <1>0, <1>7, <2>1, <2>2, QuietAnswer DEF AnswerSetFunction, Requested
<1>8. CASE AnswerRemove
  <2>1. /\ UNCHANGED <<held, stopped, stops, spent, panel, rows>> /\ channel.up # <<>>
        /\ Head(channel.up).does = "remove" /\ held # NoPanelSession
    BY <1>8 DEF AnswerRemove, Requested
  <2>2. PICK b \in Breaks : b = Head(channel.up).id
    BY <1>2, <2>1 DEF Wanted, Plain
  <2>3. CASE breaks[b] = "absent"
    <3>1. PICK m : m = [is |-> "error"] /\ m \in News
      BY <1>1
    <3>. QED BY <1>0, <1>8, <2>1, <2>2, <2>3, <3>1, QuietAnswer DEF AnswerRemove
  <2>4. CASE breaks[b] # "absent"
    <3>10. [is |-> "removed", id |-> b] \in News
      BY DEF News
    <3>1. PICK m : m = [is |-> "removed", id |-> b] /\ m \in News
      BY <3>10
    <3>2. breaks' = [breaks EXCEPT ![b] = "absent"] /\ Answer(m)
      BY <1>8, <2>2, <2>4, <3>1 DEF AnswerRemove
    <3>3. \A v \in Looks : Fits(v) => Fits(Heard(v, m))'
      BY <1>0, <2>1, <3>1, <3>2 DEF Fits, Heard, Looks
    <3>4. breaks' \in [Breaks -> Shape]
      BY <1>0, <3>2 DEF Shape
    <3>. QED BY <1>0, <2>1, <3>1, <3>2, <3>3, <3>4, PlainAnswer
  <2>. QED BY <2>3, <2>4
<1>9. CASE AnswerToggle
  <2>1. /\ UNCHANGED <<held, stopped, stops, spent, panel, rows>> /\ channel.up # <<>>
        /\ Head(channel.up).does = "toggle" /\ held # NoPanelSession
    BY <1>9 DEF AnswerToggle, Requested
  <2>2. PICK b \in Breaks, t \in {"on", "off"} : b = Head(channel.up).id /\ t = Head(channel.up).to
    BY <1>2, <2>1 DEF Wanted, Plain
  <2>3. CASE breaks[b] = "absent"
    <3>1. PICK m : m = [is |-> "error"] /\ m \in News
      BY <1>1
    <3>. QED BY <1>0, <1>9, <2>1, <2>2, <2>3, <3>1, QuietAnswer DEF AnswerToggle
  <2>4. CASE breaks[b] # "absent"
    <3>10. [is |-> "toggled", id |-> b, to |-> t] \in News
      BY DEF News
    <3>1. PICK m : m = [is |-> "toggled", id |-> b, to |-> t] /\ m \in News
      BY <3>10
    <3>2. breaks' = [breaks EXCEPT ![b] = t] /\ Answer(m)
      BY <1>9, <2>2, <2>4, <3>1 DEF AnswerToggle
    <3>3. \A v \in Looks : Fits(v) => Fits(Heard(v, m))'
      <4>. SUFFICES ASSUME NEW v \in Looks, Fits(v), v.session # NoPanelSession
                    PROVE  v.session = held /\ \A e \in Breaks : breaks'[e] # "absent" =>
                                Heard(v, m).bps[e] = breaks'[e]
        BY <2>1, <3>1 DEF Fits, Heard
      <4>1. v.session = held /\ v.bps[b] = breaks[b]
        BY <2>4 DEF Fits
      <4>2. ASSUME NEW e \in Breaks, breaks'[e] # "absent" PROVE Heard(v, m).bps[e] = breaks'[e]
        <5>1. CASE e = b
          BY <1>0, <2>4, <3>1, <3>2, <4>1, <5>1 DEF Heard
        <5>2. CASE e # b
          BY <1>0, <3>1, <3>2, <4>2, <5>2 DEF Heard, Fits
        <5>. QED BY <5>1, <5>2
      <4>. QED BY <4>1, <4>2
    <3>4. breaks' \in [Breaks -> Shape]
      BY <1>0, <3>2 DEF Shape
    <3>. QED BY <1>0, <2>1, <3>1, <3>2, <3>3, <3>4, PlainAnswer
  <2>. QED BY <2>3, <2>4
<1>10. CASE AnswerBreakpoints
  <2>10. [is |-> "list", all |-> breaks] \in News
    BY <1>0 DEF News
  <2>1. PICK m : m = [is |-> "list", all |-> breaks] /\ m \in News
    BY <2>10
  <2>2. UNCHANGED <<serverVars, panel, rows>> /\ channel.up # <<>> /\ Answer(m)
    BY <1>10, <2>1 DEF AnswerBreakpoints, Requested
  <2>3. \A v \in Looks : Fits(v) => Fits(Heard(v, m))'
    BY <2>1, <2>2 DEF Fits, Heard, serverVars
  <2>. QED BY <1>0, <2>1, <2>2, <2>3, PlainAnswer DEF serverVars
<1>11. CASE ScriptStops
  <2>1. stops' \in [PanelSessions -> 0..MaxStops]
    BY <1>0, <1>11 DEF ScriptStops
  <2>2. DebugTypes'
    BY <1>11, <2>1 DEF ScriptStops, DebugInv, DebugTypes
  <2>3. Look' = Look /\ channel'.down = channel.down /\ \A v \in Looks : Fits(v) => Fits(v)'
    BY <1>11 DEF ScriptStops, Look, Fits
  <2>. QED BY <2>2, <2>3, FitStays DEF DebugInv
<1>12. ASSUME NEW s \in PanelSessions, ForwardStop(s) PROVE DebugInv'
  <2>1. PICK m : m = [is |-> "paused"] /\ m \in News
    BY <1>1
  <2>2. Len(channel.up) \in Nat /\ Len(channel.down) \in Nat
    BY <1>0, LenProperties
  <2>3. Append(channel.down, m) \in Seq(News) /\ Len(Append(channel.down, m)) = Len(channel.down) + 1
    BY <1>0, <2>1, AppendProperties
  <2>4. channel' = [channel EXCEPT !.down = Append(channel.down, m)]
    BY <1>12, <2>1 DEF ForwardStop
  <2>5. /\ channel' \in [up : Seq(Wanted), down : Seq(News)]
        /\ channel'.down = Append(channel.down, m) /\ channel'.up = channel.up
    BY <2>3, <2>4 DEF DebugInv, DebugTypes
  <2>6. stops' \in [PanelSessions -> 0..MaxStops]
    BY <1>0, <1>12 DEF ForwardStop
  <2>7. stopped' \in BOOLEAN
    BY <1>0, <1>12 DEF ForwardStop
  <2>8. Len(channel'.up) + Len(channel'.down) <= MaxWire
    BY <1>12, <2>2, <2>3, <2>5 DEF ForwardStop, Room
  <2>9. DebugTypes'
    BY <1>12, <2>5, <2>6, <2>7, <2>8 DEF ForwardStop, DebugInv, DebugTypes
  <2>10. Look' = Look /\ \A v \in Looks : Fits(v) => Fits(Heard(v, m))'
    BY <1>12, <2>1 DEF ForwardStop, Look, Fits, Heard, Looks
  <2>. QED BY <2>1, <2>5, <2>9, <2>10, FitGrows DEF DebugInv
<1>. QED BY <1>3, <1>4, <1>5, <1>6, <1>7, <1>8, <1>9, <1>10, <1>11, <1>12 DEF ServerActs

\* The panel hears.
LEMMA PanelHearsKeeps == ASSUME DebugInv, PanelHears PROVE DebugInv'
<1>0. /\ channel.up \in Seq(Wanted) /\ channel.down \in Seq(News) /\ channel.down # <<>>
      /\ Len(channel.up) \in Nat /\ Len(channel.down) \in Nat
      /\ UNCHANGED serverVars
  <2>1. channel.down # <<>> /\ UNCHANGED serverVars
    BY DEF PanelHears, OnStarted, OnEnded, OnSet, OnRemoved, OnToggled, OnFunctionSet, OnList,
           OnPaused, OnResumed, OnVariables, OnError, Incoming, Shows
  <2>. QED BY <2>1, LenProperties DEF DebugInv, DebugTypes
<1>1. /\ Head(channel.down) \in News /\ Tail(channel.down) \in Seq(News)
      /\ Len(Tail(channel.down)) = Len(channel.down) - 1
  BY <1>0, HeadTailProperties
<1>2. PICK m \in News : m = Head(channel.down)
  BY <1>1
<1>3. /\ channel' \in [up : Seq(Wanted), down : Seq(News)] /\ channel'.down = Tail(channel.down)
      /\ Len(channel'.up) + Len(channel'.down) <= MaxWire
  <2>1. CASE Took
    <3>1. channel' = [channel EXCEPT !.down = Tail(channel.down)]
      BY <2>1 DEF Took
    <3>2. channel \in [up : Seq(Wanted), down : Seq(News)]
          /\ Len(channel.up) + Len(channel.down) <= MaxWire /\ MaxWire \in Nat
      BY DebugPanelAssumption DEF DebugInv, DebugTypes, DebugPanelAssumption
    <3>3. channel'.up = channel.up /\ channel'.down = Tail(channel.down)
          /\ channel' \in [up : Seq(Wanted), down : Seq(News)]
      BY <1>1, <3>1, <3>2
    <3>. QED BY <1>0, <1>1, <3>2, <3>3
  <2>2. CASE OnPaused
    <3>1. [does |-> "variables"] \in Wanted
      BY DEF Wanted, Plain
    <3>2. /\ Append(channel.up, [does |-> "variables"]) \in Seq(Wanted)
          /\ Len(Append(channel.up, [does |-> "variables"])) = Len(channel.up) + 1
      BY <1>0, <3>1, AppendProperties
    <3>. QED BY <1>0, <1>1, <2>2, <3>2 DEF OnPaused, DebugInv, DebugTypes
  <2>3. OnStarted => Took
    BY DEF OnStarted
  <2>4. OnEnded => Took
    BY DEF OnEnded
  <2>5. OnSet => Took
    BY DEF OnSet, Shows
  <2>6. OnRemoved => Took
    BY DEF OnRemoved, Shows
  <2>7. OnToggled => Took
    BY DEF OnToggled, Shows
  <2>8. OnFunctionSet => Took
    BY DEF OnFunctionSet
  <2>9. OnList => Took
    BY DEF OnList, Shows
  <2>10. OnResumed \/ OnVariables \/ OnError => Took
    BY DEF OnResumed, OnVariables, OnError
  <2>. QED BY <2>1, <2>2, <2>3, <2>4, <2>5, <2>6, <2>7, <2>8, <2>9, <2>10, Zenon DEF PanelHears
<1>. DEFINE PanelType == [session : PanelSessions \cup {NoPanelSession},
                  connecting : BOOLEAN, paused : BOOLEAN, frames : BOOLEAN,
                  locals : BOOLEAN, bps : [Breaks -> Shape], fns : SUBSET Breaks]
<1>4. panel \in PanelType /\ rows \in [Breaks -> Shape]
  BY DEF DebugInv, DebugTypes
<1>5. ASSUME panel' \in PanelType, rows' \in [Breaks -> Shape], Look' = Heard(Look, m)
      PROVE  DebugInv'
  <2>1. DebugTypes'
    BY <1>0, <1>3, <1>5 DEF DebugInv, DebugTypes, serverVars
  <2>2. WillFit'
    BY <1>0, <1>2, <1>3, <1>5, FitTakes DEF serverVars
  <2>. QED BY <2>1, <2>2 DEF DebugInv
<1>6. ASSUME NEW visible \in [Breaks -> Shape] PROVE Redrawn(visible) \in [Breaks -> Shape]
  BY <1>4 DEF Redrawn, Shape
<1>7. CASE OnStarted
  <2>1. m.is = "started" /\ panel' = [panel EXCEPT !.session = m.of, !.connecting = FALSE]
        /\ rows' = rows
    BY <1>2, <1>7 DEF OnStarted, Incoming
  <2>2. m.of \in PanelSessions
    BY <2>1 DEF News
  <2>3. Look' = Heard(Look, m)
    BY <1>4, <2>1 DEF Look, Heard
  <2>. QED BY <1>4, <1>5, <2>1, <2>2, <2>3
<1>8. CASE OnEnded
  <2>1. m.is = "ended" /\ rows' = rows
        /\ panel' = [panel EXCEPT !.session = NoPanelSession, !.paused = FALSE,
                                  !.frames = FALSE, !.locals = FALSE]
    BY <1>2, <1>8 DEF OnEnded, Incoming
  <2>2. Look' = Heard(Look, m)
    BY <1>4, <2>1 DEF Look, Heard
  <2>. QED BY <1>4, <1>5, <2>1, <2>2
<1>9. ASSUME NEW visible \in [Breaks -> Shape], panel' = [panel EXCEPT !.bps = visible],
             rows' = Redrawn(visible), Heard(Look, m) = [session |-> panel.session, bps |-> visible]
      PROVE  DebugInv'
  <2>1. Look' = Heard(Look, m)
    BY <1>4, <1>9 DEF Look
  <2>. QED BY <1>4, <1>5, <1>6, <1>9, <2>1
<1>10. CASE OnSet
  <2>1. m.is = "set" /\ Shows([panel.bps EXCEPT ![m.id] = "on"])
    BY <1>2, <1>10 DEF OnSet, Incoming
  <2>2. m.id \in Breaks
    BY <2>1 DEF News
  <2>3. Heard(Look, m) = [session |-> panel.session, bps |-> [panel.bps EXCEPT ![m.id] = "on"]]
    BY <1>4, <2>1, <2>2 DEF Heard, Look
  <2>4. [panel.bps EXCEPT ![m.id] = "on"] \in [Breaks -> Shape]
    BY <1>4, <2>2 DEF Shape
  <2>. QED BY <1>9, <2>1, <2>3, <2>4 DEF Shows
<1>11. CASE OnRemoved
  <2>1. m.is = "removed" /\ Shows([panel.bps EXCEPT ![m.id] = "absent"])
    BY <1>2, <1>11 DEF OnRemoved, Incoming
  <2>2. m.id \in Breaks
    BY <2>1 DEF News
  <2>3. Heard(Look, m) = [session |-> panel.session, bps |-> [panel.bps EXCEPT ![m.id] = "absent"]]
    BY <1>4, <2>1, <2>2 DEF Heard, Look
  <2>4. [panel.bps EXCEPT ![m.id] = "absent"] \in [Breaks -> Shape]
    BY <1>4, <2>2 DEF Shape
  <2>. QED BY <1>9, <2>1, <2>3, <2>4 DEF Shows
<1>12. CASE OnToggled
  <2>. DEFINE visible == [panel.bps EXCEPT ![m.id] =
                            IF panel.bps[m.id] = "absent" THEN panel.bps[m.id] ELSE m.to]
  <2>1. m.is = "toggled" /\ Shows(visible)
    BY <1>2, <1>12 DEF OnToggled, Incoming
  <2>2. m.id \in Breaks /\ m.to \in Shape
    BY <2>1 DEF News, Shape
  <2>3. Heard(Look, m) = [session |-> panel.session, bps |-> visible]
    BY <1>4, <2>1, <2>2 DEF Heard, Look
  <2>4. visible \in [Breaks -> Shape]
    BY <1>4, <2>2 DEF Shape
  <2>. QED BY <1>9, <2>1, <2>3, <2>4 DEF Shows
<1>13. CASE OnFunctionSet
  <2>1. m.is = "setFunction" /\ panel' = [panel EXCEPT !.fns = @ \cup {m.id}]
        /\ rows' = [rows EXCEPT ![m.id] = "on"]
    BY <1>2, <1>13 DEF OnFunctionSet, Incoming
  <2>2. m.id \in Breaks
    BY <2>1 DEF News
  <2>3. Look' = Heard(Look, m)
    BY <1>4, <2>1 DEF Look, Heard
  <2>4. rows' \in [Breaks -> Shape]
    BY <1>4, <2>1, <2>2 DEF Shape
  <2>. QED BY <1>4, <1>5, <2>1, <2>2, <2>3, <2>4
<1>14. CASE OnList
  <2>1. m.is = "list" /\ panel' = [panel EXCEPT !.bps = m.all, !.fns = {}]
        /\ rows' = Redrawn(m.all)
    BY <1>2, <1>14 DEF OnList, Incoming
  <2>2. m.all \in [Breaks -> Shape]
    BY <2>1 DEF News
  <2>3. Look' = Heard(Look, m)
    BY <1>4, <2>1, <2>2 DEF Look, Heard
  <2>. QED BY <1>4, <1>5, <1>6, <2>1, <2>2, <2>3
<1>15. CASE OnPaused \/ OnResumed \/ OnVariables \/ OnError
  <2>1. m.is \in {"paused", "resumed", "variables", "error"} /\ rows' = rows
    BY <1>2, <1>15 DEF OnPaused, OnResumed, OnVariables, OnError, Incoming
  <2>2. panel' \in PanelType /\ panel'.session = panel.session /\ panel'.bps = panel.bps
    BY <1>4, <1>15 DEF OnPaused, OnResumed, OnVariables, OnError
  <2>3. Look' = Heard(Look, m)
    BY <1>4, <2>1, <2>2 DEF Look, Heard
  <2>. QED BY <1>4, <1>5, <2>1, <2>2, <2>3
<1>. QED BY <1>7, <1>8, <1>10, <1>11, <1>12, <1>13, <1>14, <1>15 DEF PanelHears

\* Every step keeps the invariant.
LEMMA DebugInductive == DebugInv /\ [DebugPanelNext]_panelVars => DebugInv'
<1>. SUFFICES ASSUME DebugInv, [DebugPanelNext]_panelVars PROVE DebugInv'
  OBVIOUS
<1>1. CASE UNCHANGED panelVars
  BY <1>1 DEF panelVars, DebugInv, DebugTypes, WillFit, Foresees, Fits, Look
<1>. QED BY <1>1, PanelActsKeep, ServerActsKeep, PanelHearsKeeps DEF DebugPanelNext

\* Once every message has arrived, the panel shows the session and the breakpoints
\* that the server holds.
THEOREM PanelAlwaysAgrees == DebugPanelSpec => [](DebugPanelTypeOK /\ PanelAgrees)
<1>1. DebugInv => DebugPanelTypeOK
  BY DEF DebugInv, DebugTypes, DebugPanelTypeOK
<1>2. DebugInv => PanelAgrees
  <2>. SUFFICES ASSUME DebugInv, channel.down = <<>> PROVE PanelAgrees
    BY DEF PanelAgrees
  <2>1. PICK f : Foresees(f) /\ Fits(f[Len(channel.down)])
    BY DEF DebugInv, WillFit
  <2>2. Len(channel.down) = 0
    BY EmptySeq
  <2>3. Fits(Look)
    BY <2>1, <2>2 DEF Foresees, Fits
  <2>. QED BY <2>3 DEF Fits, Look, PanelAgrees
<1>. QED BY <1>1, <1>2, DebugStarts, DebugInductive, PTL DEF DebugPanelSpec

HIDE DebugPanelAssumption

-----------------------------------------------------------------------------
(***************************************************************************)
(* The editor's lists.  The last question under way about the tab on       *)
(* display is for what the tab is about, or else the last answer is, or    *)
(* else the list itself (Settles).                                         *)
(***************************************************************************)

USE KindAssumption, PanelBoundsAssumption

EditorPanelsSpec == EditorPanelsInit /\ [][EditorPanelsNext]_editorVars

PageOf == [kind : Kinds, page : 0..MaxPage]
Asks == [for : {"entities", "state"}, about : PageOf]
          \cup [for : {"schemas", "exports", "export"}, about : {Whole}]
          \cup [for : {"fields"}, about : Archetypes]
Tells == {q \in Asks : q.for \notin {"state", "export"}}
           \cup [for : {"state"}, about : PageOf, pages : 0..MaxPage]
           \cup [for : {"exportCreated", "exportFailed"}]
AsksFor(b) == {q \in Asks : q.for = b}
TellsFor(b) == {r \in Tells : r.for = b}
AsksAbout(b, a) == {q \in AsksFor(b) : q.about = a}
TellsAbout(b, a) == {r \in TellsFor(b) : r.about = a}

\* Once all that is under way has arrived, board b loads or shows a.
Settles(b, a) ==
    \/ LastOf(questions, AsksFor(b), AsksAbout(b, a))
    \/ /\ NoneOf(questions, AsksFor(b))
       /\ \/ LastOf(replies, TellsFor(b), TellsAbout(b, a))
          \/ /\ NoneOf(replies, TellsFor(b))
             /\ loading[b] \/ boards[b] = a

\* An export that is announced fails in the next message.
ExportsFail ==
    /\ \A i \in 1..Len(replies) : replies[i].for = "exportCreated" =>
            i + 1 \in 1..Len(replies) /\ replies[i + 1].for = "exportFailed"
    /\ exporting /\ connection # "closed" =>
            replies # <<>> /\ Head(replies).for = "exportFailed"

PanelsTypes ==
    /\ connection \in {"connecting", "open", "closed"}
    /\ questions \in Seq(Asks) /\ replies \in Seq(Tells)
    /\ Len(replies) + 2 * Len(questions) <= 2 * MaxPending
    /\ tab \in Tabs /\ picked \in Kinds
    /\ page \in 0..MaxPage /\ pages \in 0..MaxPage
    /\ schema \in Archetypes \cup {NothingYet}
    /\ loading \in [Boards -> BOOLEAN]
    /\ boards \in [AnswerKinds -> About]
    /\ exporting \in BOOLEAN
    /\ connection # "open" => questions = <<>> /\ replies = <<>>

PanelsInv ==
    /\ PanelsTypes
    /\ boards["fields"] # NothingYet => boards["fields"] = schema
    /\ connection # "closed" =>
        /\ tab = "entities" => Settles("entities", [kind |-> picked, page |-> 0])
        /\ tab = "state" => Settles("state", [kind |-> picked, page |-> page])
    /\ ExportsFail

\* Nothing is asked before there is a connection.
LEMMA PanelsStart == EditorPanelsInit => PanelsInv
<1>. SUFFICES ASSUME EditorPanelsInit PROVE PanelsInv
  OBVIOUS
<1>1. questions \in Seq(Asks) /\ replies \in Seq(Tells) /\ Len(questions) = 0 /\ Len(replies) = 0
  BY EmptySeq DEF EditorPanelsInit
<1>2. PanelsTypes
  <2>1. Len(replies) + 2 * Len(questions) <= 2 * MaxPending
    BY <1>1
  <2>2. /\ loading \in [Boards -> BOOLEAN] /\ boards \in [AnswerKinds -> About]
        /\ exporting \in BOOLEAN
    BY DEF EditorPanelsInit, About
  <2>. QED BY <1>1, <2>1, <2>2 DEF EditorPanelsInit, PanelsTypes, Tabs
<1>3. ExportsFail
  BY <1>1 DEF EditorPanelsInit, ExportsFail
<1>4. boards["fields"] = NothingYet /\ tab = "debug"
  BY DEF EditorPanelsInit, AnswerKinds
<1>. QED BY <1>2, <1>3, <1>4 DEF PanelsInv

\* A question that is asked.
LEMMA AskGrows ==
    ASSUME PanelsInv, NEW q \in Asks, Send(q)
    PROVE  /\ questions' \in Seq(Asks) /\ replies' = replies /\ connection' = connection
           /\ Len(replies') + 2 * Len(questions') <= 2 * MaxPending
           /\ connection' # "open" => questions' = <<>> /\ replies' = <<>>
           /\ connection = "open" => questions' = Append(questions, q)
<1>1. Len(questions) \in Nat /\ Len(replies) \in Nat
  BY LenProperties DEF PanelsInv, PanelsTypes
<1>2. Append(questions, q) \in Seq(Asks) /\ Len(Append(questions, q)) = Len(questions) + 1
  BY AppendProperties DEF PanelsInv, PanelsTypes
<1>. QED BY <1>1, <1>2 DEF Send, PanelsInv, PanelsTypes

\* A question about what is to be shown settles its board.
LEMMA AskSettles ==
    ASSUME PanelsInv, NEW b \in {"entities", "state"}, NEW a \in PageOf,
           Send(Question(b, a)), Load(b), connection # "closed"
    PROVE  Settles(b, a)'
<1>. DEFINE q == Question(b, a)
<1>1. q \in Asks /\ q \in AsksAbout(b, a)
  BY DEF Question, Asks, AsksFor, AsksAbout
<1>2. CASE connection = "open"
  <2>1. questions' = Append(questions, q)
    BY <1>1, <1>2, AskGrows
  <2>2. LastOf(questions', AsksFor(b), AsksAbout(b, a))
    BY <1>1, <2>1, AtTheEnd DEF PanelsInv, PanelsTypes
  <2>. QED BY <2>2 DEF Settles
<1>3. CASE connection # "open"
  <2>1. questions' = <<>> /\ replies' = <<>>
    BY <1>1, <1>3, AskGrows
  <2>2. loading'[b]
    BY DEF Load, PanelsInv, PanelsTypes, Boards
  <2>. QED BY <2>1, <2>2, NothingInLine DEF Settles
<1>. QED BY <1>2, <1>3

\* The tabs.
LEMMA BrowseKeeps ==
    ASSUME PanelsInv, NEW k \in Kinds, BrowseEntities(k)
    PROVE  PanelsInv'
<1>. DEFINE a == [kind |-> k, page |-> 0]
<1>1. a \in PageOf /\ Question("entities", a) \in Asks
  BY DEF PageOf, Question, Asks
<1>2. Send(Question("entities", a)) /\ Load("entities")
  BY DEF BrowseEntities
<1>3. /\ questions' \in Seq(Asks) /\ replies' = replies /\ connection' = connection
      /\ Len(replies') + 2 * Len(questions') <= 2 * MaxPending
      /\ connection' # "open" => questions' = <<>> /\ replies' = <<>>
  BY <1>1, <1>2, AskGrows
<1>4. connection # "closed" => Settles("entities", a)'
  BY <1>1, <1>2, AskSettles
<1>5. /\ UNCHANGED <<page, pages, schema, boards, exporting>> /\ tab' = "entities" /\ picked' = k
      /\ loading' = [loading EXCEPT !["entities"] = TRUE]
  BY DEF BrowseEntities, LeaveAlone, Load
<1>6. PanelsTypes'
  BY <1>3, <1>5 DEF PanelsInv, PanelsTypes, Tabs
<1>7. ExportsFail'
  BY <1>3, <1>5 DEF PanelsInv, ExportsFail
<1>8. connection' # "closed" => Settles("entities", [kind |-> picked, page |-> 0])'
  BY <1>3, <1>4, <1>5 DEF Settles
<1>. QED BY <1>5, <1>6, <1>7, <1>8 DEF PanelsInv

\* The state of a kind is opened at a page.
LEMMA InspectKeeps ==
    ASSUME PanelsInv, NEW k \in Kinds, NEW p \in 0..MaxPage, InspectState(k, p)
    PROVE  PanelsInv'
<1>. DEFINE a == [kind |-> k, page |-> p]
<1>1. a \in PageOf /\ Question("state", a) \in Asks
  BY DEF PageOf, Question, Asks
<1>2. Send(Question("state", a)) /\ Load("state")
  BY DEF InspectState
<1>3. /\ questions' \in Seq(Asks) /\ replies' = replies /\ connection' = connection
      /\ Len(replies') + 2 * Len(questions') <= 2 * MaxPending
      /\ connection' # "open" => questions' = <<>> /\ replies' = <<>>
  BY <1>1, <1>2, AskGrows
<1>4. connection # "closed" => Settles("state", a)'
  BY <1>1, <1>2, AskSettles
<1>5. /\ UNCHANGED <<pages, schema, boards, exporting>> /\ tab' = "state" /\ picked' = k /\ page' = p
      /\ loading' = [loading EXCEPT !["state"] = TRUE]
  BY DEF InspectState, LeaveAlone, Load
<1>6. PanelsTypes'
  BY <1>3, <1>5 DEF PanelsInv, PanelsTypes, Tabs
<1>7. ExportsFail'
  BY <1>3, <1>5 DEF PanelsInv, ExportsFail
<1>8. connection' # "closed" => Settles("state", [kind |-> picked, page |-> page])'
  BY <1>3, <1>4, <1>5 DEF Settles
<1>. QED BY <1>5, <1>6, <1>7, <1>8 DEF PanelsInv

\* A list is opened, and asked for.
LEMMA OpenListKeeps ==
    ASSUME PanelsInv, NEW t \in {"definitions", "export"}, NEW b \in {"schemas", "exports"},
           OpenList(t, b)
    PROVE  PanelsInv'
<1>1. Question(b, Whole) \in Asks
  BY DEF Question, Asks
<1>2. /\ questions' \in Seq(Asks) /\ replies' = replies /\ connection' = connection
      /\ Len(replies') + 2 * Len(questions') <= 2 * MaxPending
      /\ connection' # "open" => questions' = <<>> /\ replies' = <<>>
  BY <1>1, AskGrows DEF OpenList
<1>3. /\ UNCHANGED <<picked, page, pages, schema, boards, exporting>> /\ tab' = t
      /\ loading' = [loading EXCEPT ![b] = TRUE]
  BY DEF OpenList, LeaveAlone, Load
<1>4. PanelsTypes'
  BY <1>2, <1>3 DEF PanelsInv, PanelsTypes, Tabs, Boards
<1>5. ExportsFail'
  BY <1>2, <1>3 DEF PanelsInv, ExportsFail
<1>. QED BY <1>3, <1>4, <1>5 DEF PanelsInv

\* The other keys of the panel.
LEMMA TabsKeep ==
    ASSUME PanelsInv,
           \/ OpenTab \/ TurnPage \/ AskAgain \/ CreateExport
           \/ \E k \in Kinds : PickKind(k)
           \/ \E a \in Archetypes : PickSchema(a)
    PROVE  PanelsInv'
<1>0. page \in 0..MaxPage /\ pages \in 0..MaxPage /\ picked \in Kinds
  BY DEF PanelsInv, PanelsTypes
<1>1. CASE OpenTab
  BY <1>0, <1>1, BrowseKeeps, InspectKeeps, OpenListKeeps DEF OpenTab
<1>2. CASE TurnPage
  <2>1. PICK p \in 0..MaxPage : InspectState(picked, p)
    <3>1. CASE page > 0 /\ InspectState(picked, page - 1)
      <4>1. page - 1 \in 0..MaxPage
        BY <1>0, <3>1
      <4>. QED BY <3>1, <4>1
    <3>2. CASE page < pages /\ InspectState(picked, page + 1)
      <4>1. page + 1 \in 0..MaxPage
        BY <1>0, <3>2
      <4>. QED BY <3>2, <4>1
    <3>. QED BY <1>2, <3>1, <3>2 DEF TurnPage
  <2>. QED BY <1>0, <2>1, InspectKeeps
<1>3. CASE AskAgain
  BY <1>0, <1>3, InspectKeeps DEF AskAgain
<1>4. ASSUME NEW k \in Kinds, PickKind(k) PROVE PanelsInv'
  BY <1>4, BrowseKeeps, InspectKeeps DEF PickKind
<1>5. ASSUME NEW a \in Archetypes, PickSchema(a) PROVE PanelsInv'
  <2>1. Question("fields", a) \in Asks
    BY DEF Question, Asks
  <2>2. /\ questions' \in Seq(Asks) /\ replies' = replies /\ connection' = connection
        /\ Len(replies') + 2 * Len(questions') <= 2 * MaxPending
        /\ connection' # "open" => questions' = <<>> /\ replies' = <<>>
    BY <1>5, <2>1, AskGrows DEF PickSchema
  <2>3. /\ UNCHANGED <<tab, picked, page, pages, exporting>> /\ schema' = a
        /\ boards' = [boards EXCEPT !["fields"] = NothingYet] /\ tab = "definitions"
        /\ loading' = [loading EXCEPT !["schemas"] = TRUE]
    BY <1>5 DEF PickSchema, Load
  <2>4. PanelsTypes' /\ boards'["fields"] = NothingYet
    BY <2>2, <2>3 DEF PanelsInv, PanelsTypes, AnswerKinds, About
  <2>5. ExportsFail'
    BY <2>2, <2>3 DEF PanelsInv, ExportsFail
  <2>. QED BY <2>3, <2>4, <2>5 DEF PanelsInv
<1>6. CASE CreateExport
  <2>1. Question("export", Whole) \in Asks
    BY DEF Question, Asks
  <2>2. /\ questions' \in Seq(Asks) /\ replies' = replies /\ connection' = connection
        /\ Len(replies') + 2 * Len(questions') <= 2 * MaxPending
        /\ connection' # "open" => questions' = <<>> /\ replies' = <<>>
    BY <1>6, <2>1, AskGrows DEF CreateExport
  <2>3. UNCHANGED <<tab, picked, page, boardVars>> /\ tab = "export"
    BY <1>6 DEF CreateExport
  <2>4. PanelsTypes'
    BY <2>2, <2>3 DEF PanelsInv, PanelsTypes, boardVars
  <2>5. ExportsFail'
    BY <2>2, <2>3 DEF PanelsInv, ExportsFail, boardVars
  <2>. QED BY <2>3, <2>4, <2>5 DEF PanelsInv, boardVars
<1>. QED BY <1>1, <1>2, <1>3, <1>4, <1>5, <1>6

\* The connection.
LEMMA ConnectionKeeps ==
    ASSUME PanelsInv, SocketOpens \/ SocketCloses
    PROVE  PanelsInv'
<1>1. CASE SocketOpens
  BY <1>1 DEF SocketOpens, PanelsInv, PanelsTypes, ExportsFail, Settles, boardVars
<1>2. CASE SocketCloses
  <2>1. /\ questions' \in Seq(Asks) /\ replies' \in Seq(Tells)
        /\ Len(questions') = 0 /\ Len(replies') = 0
    BY <1>2, EmptySeq DEF SocketCloses
  <2>2. PanelsTypes'
    BY <1>2, <2>1 DEF SocketCloses, PanelsInv, PanelsTypes, boardVars
  <2>3. ExportsFail'
    BY <1>2, <2>1 DEF SocketCloses, ExportsFail
  <2>. QED BY <1>2, <2>2, <2>3 DEF SocketCloses, PanelsInv, boardVars
<1>. QED BY <1>1, <1>2

\* An answer takes the place of its question.
LEMMA AnswerSettles ==
    ASSUME PanelsInv, NEW b, NEW a, NEW r \in Tells,
           questions # <<>>, questions' = Tail(questions), replies' = Append(replies, r),
           Head(questions) \in AsksFor(b) <=> r \in TellsFor(b),
           Head(questions) \in AsksAbout(b, a) => r \in TellsAbout(b, a),
           UNCHANGED boardVars, Settles(b, a)
    PROVE  Settles(b, a)'
<1>1. questions \in Seq(Asks) /\ replies \in Seq(Tells)
  BY DEF PanelsInv, PanelsTypes
<1>2. CASE LastOf(questions, AsksFor(b), AsksAbout(b, a))
  BY <1>1, <1>2, AtTheFront, AtTheEnd DEF Settles
<1>3. CASE NoneOf(questions, AsksFor(b))
  <2>1. NoneOf(questions', AsksFor(b)) /\ r \notin TellsFor(b)
    BY <1>1, <1>3, AtTheFront
  <2>2. CASE LastOf(questions, AsksFor(b), AsksAbout(b, a))
    BY <1>2, <2>2
  <2>3. CASE LastOf(replies, TellsFor(b), TellsAbout(b, a))
    BY <1>1, <2>1, <2>3, AtTheEnd DEF Settles
  <2>4. CASE NoneOf(replies, TellsFor(b)) /\ (loading[b] \/ boards[b] = a)
    BY <1>1, <2>1, <2>4, AtTheEnd DEF Settles, boardVars
  <2>. QED BY <2>2, <2>3, <2>4 DEF Settles
<1>. QED BY <1>2, <1>3 DEF Settles

\* What every step of the server and of the editor's handlers leaves to be shown.
LEMMA StillSettles ==
    ASSUME PanelsInv, PanelsTypes', ExportsFail', UNCHANGED <<connection, tab, picked, page>>,
           boards'["fields"] # NothingYet => boards'["fields"] = schema',
           connection = "open",
           \A b \in {"entities", "state"} : \A a : Settles(b, a) => Settles(b, a)'
    PROVE  PanelsInv'
<1>1. PICK k, p : k = picked /\ p = page
  OBVIOUS
<1>2. tab = "entities" => Settles("entities", [kind |-> k, page |-> 0])'
  BY <1>1 DEF PanelsInv
<1>3. tab = "state" => Settles("state", [kind |-> k, page |-> p])'
  BY <1>1 DEF PanelsInv
<1>4. k = picked' /\ p = page'
  BY <1>1
<1>. QED BY <1>2, <1>3, <1>4 DEF PanelsInv, Settles

\* The server answers, and the panel takes in an answer.
LEMMA AnswersKeep ==
    ASSUME PanelsInv,
           AnswerEntities \/ AnswerSnapshot \/ AnswerList \/ AnswerFields \/ AnswerExport
    PROVE  PanelsInv'
<1>0. /\ questions \in Seq(Asks) /\ replies \in Seq(Tells)
      /\ Len(questions) \in Nat /\ Len(replies) \in Nat
      /\ questions # <<>> /\ connection = "open"
  <2>1. questions # <<>>
    BY DEF AnswerEntities, AnswerSnapshot, AnswerList, AnswerFields, AnswerExport, For
  <2>. QED BY <2>1, LenProperties DEF PanelsInv, PanelsTypes
<1>1. /\ Head(questions) \in Asks /\ Tail(questions) \in Seq(Asks)
      /\ Len(Tail(questions)) = Len(questions) - 1
  BY <1>0, HeadTailProperties
<1>2. UNCHANGED <<connection, tab, picked, page, boardVars>> /\ questions' = Tail(questions)
  BY DEF AnswerEntities, AnswerSnapshot, AnswerList, AnswerFields, AnswerExport, Reply
<1>3. ASSUME NEW r \in Tells, replies' = replies \o <<r>>,
             r = Head(questions) \/ (Head(questions).for = "state" /\ r.for = "state"
                                       /\ r.about = Head(questions).about),
             r.for # "exportCreated"
      PROVE  PanelsInv'
  <2>1. replies' = Append(replies, r)
    BY <1>0, <1>3, AppendIsConcat
  <2>2. /\ replies' \in Seq(Tells) /\ Len(replies') = Len(replies) + 1
        /\ \A i \in 1..Len(replies) : replies'[i] = replies[i]
        /\ replies'[Len(replies) + 1] = r
    BY <1>0, <2>1, AppendProperties
  <2>3. PanelsTypes'
    BY <1>0, <1>1, <1>2, <2>2 DEF PanelsInv, PanelsTypes, boardVars
  <2>4. ExportsFail'
    <3>1. replies # <<>> => Head(replies') = Head(replies) /\ replies' # <<>>
      BY <1>0, <2>1, <2>2, HeadTailAppend, AppendProperties
    <3>2. ASSUME NEW i \in 1..Len(replies'), replies'[i].for = "exportCreated"
          PROVE  i + 1 \in 1..Len(replies') /\ replies'[i + 1].for = "exportFailed"
      <4>1. i \in 1..Len(replies)
        BY <1>0, <1>3, <2>2, <3>2
      <4>2. i + 1 \in 1..Len(replies) /\ replies[i + 1].for = "exportFailed"
        BY <2>2, <3>2, <4>1 DEF PanelsInv, ExportsFail
      <4>. QED BY <1>0, <2>2, <4>2
    <3>. QED BY <1>2, <3>1, <3>2 DEF PanelsInv, ExportsFail, boardVars
  <2>5. ASSUME NEW b, NEW a, Settles(b, a) PROVE Settles(b, a)'
    <3>1. Head(questions) \in AsksFor(b) <=> r \in TellsFor(b)
      BY <1>1, <1>3 DEF AsksFor, TellsFor, Tells
    <3>2. Head(questions) \in AsksAbout(b, a) => r \in TellsAbout(b, a)
      BY <1>1, <1>3, <3>1 DEF AsksAbout, TellsAbout
    <3>. QED BY <1>0, <1>2, <2>1, <2>5, <3>1, <3>2, AnswerSettles
  <2>6. boards'["fields"] # NothingYet => boards'["fields"] = schema'
    BY <1>2 DEF boardVars, PanelsInv
  <2>. QED BY <1>0, <1>2, <2>3, <2>4, <2>5, <2>6, StillSettles
<1>4. CASE AnswerExport
  <2>1. PICK c \in Tells, d \in Tells :
            /\ c = [for |-> "exportCreated"] /\ d = [for |-> "exportFailed"]
            /\ replies' = replies \o <<c, d>>
    BY <1>4 DEF AnswerExport, Reply, Tells
  <2>2. replies' = Append(Append(replies, c), d)
    BY <1>0, <2>1, TwoAtTheEnd
  <2>. DEFINE n == Len(replies)
  <2>3. /\ replies' \in Seq(Tells) /\ Len(replies') = n + 2
        /\ \A i \in 1..n : replies'[i] = replies[i]
        /\ replies'[n + 1] = c /\ replies'[n + 2] = d
    <3>1. /\ Append(replies, c) \in Seq(Tells) /\ Len(Append(replies, c)) = n + 1
          /\ \A i \in 1..n : Append(replies, c)[i] = replies[i]
          /\ Append(replies, c)[n + 1] = c
      BY <1>0, AppendProperties
    <3>2. /\ replies' \in Seq(Tells) /\ Len(replies') = n + 1 + 1
          /\ \A i \in 1..(n + 1) : replies'[i] = Append(replies, c)[i]
          /\ replies'[n + 1 + 1] = d
      <4>. DEFINE t == Append(replies, c)
      <4>1. t \in Seq(Tells) /\ Len(t) = n + 1 /\ replies' = Append(t, d)
        BY <2>2, <3>1
      <4>. HIDE DEF t
      <4>2. /\ replies' \in Seq(Tells) /\ Len(replies') = Len(t) + 1
            /\ \A i \in 1..Len(t) : replies'[i] = t[i]
            /\ replies'[Len(t) + 1] = d
        BY <4>1, AppendProperties
      <4>. QED BY <4>1, <4>2 DEF t
    <3>. QED BY <1>0, <3>1, <3>2
  <2>4. PanelsTypes'
    BY <1>0, <1>1, <1>2, <2>3 DEF PanelsInv, PanelsTypes, boardVars
  <2>5. ExportsFail'
    <3>1. replies # <<>> => replies' # <<>> /\ Head(replies') = Head(replies)
      <4>1. replies # <<>> => Append(replies, c) # <<>> /\ Head(Append(replies, c)) = Head(replies)
                                /\ Append(replies, c) \in Seq(Tells)
        BY <1>0, AppendProperties, HeadTailAppend
      <4>. QED BY <2>2, <4>1, AppendProperties, HeadTailAppend
    <3>2. ASSUME NEW i \in 1..Len(replies'), replies'[i].for = "exportCreated"
          PROVE  i + 1 \in 1..Len(replies') /\ replies'[i + 1].for = "exportFailed"
      <4>1. CASE i \in 1..n
        <5>1. i + 1 \in 1..n /\ replies[i + 1].for = "exportFailed"
          BY <2>3, <3>2, <4>1 DEF PanelsInv, ExportsFail
        <5>. QED BY <1>0, <2>3, <5>1
      <4>2. CASE i = n + 1
        BY <1>0, <2>1, <2>3, <4>2
      <4>3. CASE i = n + 2
        BY <2>1, <2>3, <3>2, <4>3
      <4>. QED BY <1>0, <2>3, <4>1, <4>2, <4>3
    <3>. QED BY <1>2, <3>1, <3>2 DEF PanelsInv, ExportsFail, boardVars
  <2>6. ASSUME NEW b \in {"entities", "state"}, NEW a, Settles(b, a) PROVE Settles(b, a)'
    <3>1. Head(questions) \notin AsksFor(b) /\ c \notin TellsFor(b) /\ d \notin TellsFor(b)
      BY <1>4, <2>1 DEF AnswerExport, For, AsksFor, TellsFor
    <3>2. Head(questions) \notin AsksAbout(b, a)
      BY <3>1 DEF AsksAbout
    <3>3. LastOf(questions, AsksFor(b), AsksAbout(b, a)) =>
            LastOf(questions', AsksFor(b), AsksAbout(b, a))
      BY <1>0, <1>2, <3>2, AtTheFront
    <3>4. NoneOf(questions, AsksFor(b)) => NoneOf(questions', AsksFor(b))
      BY <1>0, <1>2, AtTheFront
    <3>5. /\ Append(replies, c) \in Seq(Tells)
          /\ LastOf(replies, TellsFor(b), TellsAbout(b, a)) =>
                LastOf(Append(replies, c), TellsFor(b), TellsAbout(b, a))
          /\ NoneOf(replies, TellsFor(b)) => NoneOf(Append(replies, c), TellsFor(b))
      BY <1>0, <3>1, AtTheEnd, AppendProperties
    <3>6. /\ LastOf(replies, TellsFor(b), TellsAbout(b, a)) =>
                LastOf(replies', TellsFor(b), TellsAbout(b, a))
          /\ NoneOf(replies, TellsFor(b)) => NoneOf(replies', TellsFor(b))
      BY <2>2, <3>1, <3>5, AtTheEnd
    <3>. QED BY <1>2, <2>6, <3>3, <3>4, <3>6 DEF Settles, boardVars
  <2>7. boards'["fields"] # NothingYet => boards'["fields"] = schema'
    BY <1>2 DEF boardVars, PanelsInv
  <2>. QED BY <1>0, <1>2, <2>4, <2>5, <2>6, <2>7, StillSettles
<1>5. CASE ~AnswerExport
  <2>1. Head(questions).for # "exportCreated"
    BY <1>1 DEF Asks
  <2>2. ASSUME AnswerSnapshot PROVE PanelsInv'
    <3>1. PICK n \in 0..MaxPage :
            replies' = replies \o <<[for |-> "state", about |-> Head(questions).about, pages |-> n]>>
      BY <2>2 DEF AnswerSnapshot, Reply
    <3>2. Head(questions).for = "state" /\ Head(questions).about \in PageOf
      BY <1>1, <2>2 DEF AnswerSnapshot, For, Asks
    <3>. QED BY <1>3, <3>1, <3>2 DEF Tells
  <2>3. ASSUME AnswerEntities \/ AnswerList \/ AnswerFields
        PROVE  replies' = replies \o <<Head(questions)>> /\ Head(questions) \in Tells
    <3>1. Head(questions).for \in {"entities", "schemas", "exports", "fields"}
      BY <2>3 DEF AnswerEntities, AnswerList, AnswerFields, For
    <3>. QED BY <1>1, <2>3, <3>1 DEF AnswerEntities, AnswerList, AnswerFields, Reply, Tells
  <2>. QED BY <1>3, <1>5, <2>1, <2>2, <2>3
<1>. QED BY <1>4, <1>5

\* What the editor does with an answer.
LEMMA HearingKeeps ==
    ASSUME PanelsInv,
           \/ \E b \in {"entities", "schemas"} : HearBoard(b)
           \/ HearExports \/ HearSnapshot \/ HearFields \/ HearExport
    PROVE  PanelsInv'
<1>0. /\ replies \in Seq(Tells) /\ replies # <<>> /\ connection = "open"
      /\ Len(questions) \in Nat /\ Len(replies) \in Nat
  <2>1. replies # <<>>
    BY DEF HearBoard, HearExports, HearSnapshot, HearFields, HearExport, Came
  <2>. QED BY <2>1, LenProperties DEF PanelsInv, PanelsTypes
<1>. DEFINE r == Head(replies)
<1>1. /\ r \in Tells /\ Tail(replies) \in Seq(Tells) /\ r = replies[1]
      /\ Len(Tail(replies)) = Len(replies) - 1
      /\ \A i \in 1..Len(Tail(replies)) : Tail(replies)[i] = replies[i + 1]
  BY <1>0, HeadTailProperties
<1>2. UNCHANGED <<connection, questions, tab, picked, page>> /\ replies' = Tail(replies)
  BY DEF HearBoard, HearExports, HearSnapshot, HearFields, HearExport, Hear
\* The board an answer is for, the others, and what is known of every answer.
<1>3. ASSUME PanelsTypes', exporting' => r.for = "exportCreated" \/ (exporting /\ r.for # "exportFailed"),
             boards'["fields"] # NothingYet => boards'["fields"] = schema',
             \A b \in {"entities", "state"} :
                IF r \in TellsFor(b) THEN boards'[b] = r.about
                                     ELSE loading'[b] = loading[b] /\ boards'[b] = boards[b]
      PROVE  PanelsInv'
  <2>1. ExportsFail'
    <3>1. ASSUME NEW i \in 1..Len(replies'), replies'[i].for = "exportCreated"
          PROVE  i + 1 \in 1..Len(replies') /\ replies'[i + 1].for = "exportFailed"
      <4>1. i + 1 \in 1..Len(replies) /\ replies[i + 1].for = "exportCreated"
        BY <1>0, <1>1, <1>2, <3>1
      <4>2. i + 1 + 1 \in 1..Len(replies) /\ replies[i + 1 + 1].for = "exportFailed"
        BY <4>1 DEF PanelsInv, ExportsFail
      <4>. QED BY <1>0, <1>1, <1>2, <4>2
    <3>2. ASSUME exporting' PROVE replies' # <<>> /\ Head(replies').for = "exportFailed"
      <4>1. r.for = "exportCreated"
        BY <1>0, <1>3, <3>2 DEF PanelsInv, ExportsFail
      <4>2. 1 \in 1..Len(replies)
        BY <1>0, EmptySeq
      <4>3. 1 + 1 \in 1..Len(replies) /\ replies[1 + 1].for = "exportFailed"
        BY <1>1, <4>1, <4>2 DEF PanelsInv, ExportsFail
      <4>4. 1 \in 1..Len(replies') /\ replies'[1].for = "exportFailed"
        BY <1>0, <1>1, <1>2, <4>3
      <4>5. replies' # <<>>
        BY <1>1, <1>2, <4>4, EmptySeq
      <4>6. Head(replies') = replies'[1]
        BY <1>1, <1>2, <4>5, HeadTailProperties
      <4>. QED BY <4>4, <4>5, <4>6
    <3>. QED BY <3>1, <3>2 DEF ExportsFail
  <2>2. ASSUME NEW b \in {"entities", "state"}, NEW a, Settles(b, a) PROVE Settles(b, a)'
    <3>1. CASE LastOf(questions, AsksFor(b), AsksAbout(b, a))
      BY <1>2, <3>1 DEF Settles
    <3>2. CASE NoneOf(questions, AsksFor(b)) /\ LastOf(replies, TellsFor(b), TellsAbout(b, a))
      <4>1. \/ LastOf(replies', TellsFor(b), TellsAbout(b, a))
            \/ r \in TellsAbout(b, a) /\ NoneOf(replies', TellsFor(b))
        BY <1>0, <1>2, <3>2, AtTheFront
      <4>2. r \in TellsAbout(b, a) => boards'[b] = a
        BY <1>3 DEF TellsAbout
      <4>. QED BY <1>2, <3>2, <4>1, <4>2 DEF Settles
    <3>3. CASE /\ NoneOf(questions, AsksFor(b)) /\ NoneOf(replies, TellsFor(b))
               /\ loading[b] \/ boards[b] = a
      <4>1. NoneOf(replies', TellsFor(b)) /\ r \notin TellsFor(b)
        BY <1>0, <1>2, <3>3, AtTheFront
      <4>. QED BY <1>2, <1>3, <3>3, <4>1 DEF Settles
    <3>. QED BY <2>2, <3>1, <3>2, <3>3 DEF Settles
  <2>. QED BY <1>0, <1>2, <1>3, <2>1, <2>2, StillSettles
<1>4. /\ replies' \in Seq(Tells) /\ Len(replies') + 2 * Len(questions') <= 2 * MaxPending
  BY <1>0, <1>1, <1>2 DEF PanelsInv, PanelsTypes
<1>5. ASSUME NEW b \in {"entities", "schemas"}, HearBoard(b) PROVE PanelsInv'
  <2>1. r.for = b /\ r.about \in About
    BY <1>1, <1>5 DEF HearBoard, Came, Tells, Asks, About, PageOf
  <2>2. /\ boards' = [boards EXCEPT ![b] = r.about] /\ loading' = [loading EXCEPT ![b] = FALSE]
        /\ UNCHANGED <<pages, schema, exporting>>
    BY <1>5 DEF HearBoard
  <2>3. PanelsTypes'
    BY <1>0, <1>2, <1>4, <2>1, <2>2 DEF PanelsInv, PanelsTypes
  <2>4. ASSUME NEW e \in {"entities", "state"}
        PROVE  IF r \in TellsFor(e) THEN boards'[e] = r.about
                                    ELSE loading'[e] = loading[e] /\ boards'[e] = boards[e]
    BY <1>1, <2>1, <2>2 DEF TellsFor, PanelsInv, PanelsTypes, Boards, AnswerKinds
  <2>5. boards'["fields"] = boards["fields"]
    BY <2>2 DEF PanelsInv, PanelsTypes, AnswerKinds
  <2>6. boards'["fields"] # NothingYet => boards'["fields"] = schema'
    BY <2>2, <2>5 DEF PanelsInv
  <2>7. r.for # "exportFailed"
    BY <2>1
  <2>. QED BY <1>3, <2>2, <2>3, <2>4, <2>6, <2>7
<1>6. CASE HearExports
  <2>1. r.for = "exports" /\ UNCHANGED <<pages, schema, boards, exporting>>
        /\ loading' = [loading EXCEPT !["exports"] = FALSE]
    BY <1>6 DEF HearExports, Came
  <2>2. PanelsTypes'
    BY <1>0, <1>2, <1>4, <2>1 DEF PanelsInv, PanelsTypes
  <2>3. ASSUME NEW e \in {"entities", "state"}
        PROVE  r \notin TellsFor(e) /\ loading'[e] = loading[e]
    BY <2>1 DEF TellsFor, PanelsInv, PanelsTypes, Boards
  <2>4. r.for # "exportFailed" /\ (boards'["fields"] # NothingYet => boards'["fields"] = schema')
    BY <2>1 DEF PanelsInv
  <2>. QED BY <1>3, <2>1, <2>2, <2>3, <2>4
<1>7. CASE HearSnapshot
  <2>1. /\ r.for = "state" /\ UNCHANGED <<schema, exporting>>
        /\ boards' = [boards EXCEPT !["state"] = r.about] /\ pages' = r.pages
        /\ loading' = [loading EXCEPT !["state"] = FALSE]
    BY <1>7 DEF HearSnapshot, Came
  <2>2. r.about \in About
    BY <1>1, <2>1 DEF Tells, Asks, About, PageOf
  <2>3. pages' \in 0..MaxPage
    BY <1>1, <2>1 DEF Tells, Asks
  <2>4. PanelsTypes'
    BY <1>0, <1>2, <1>4, <2>1, <2>2, <2>3 DEF PanelsInv, PanelsTypes
  <2>5. ASSUME NEW e \in {"entities", "state"}
        PROVE  IF r \in TellsFor(e) THEN boards'[e] = r.about
                                    ELSE loading'[e] = loading[e] /\ boards'[e] = boards[e]
    BY <1>1, <2>1 DEF TellsFor, PanelsInv, PanelsTypes, Boards, AnswerKinds
  <2>6. boards'["fields"] = boards["fields"]
    BY <2>1 DEF PanelsInv, PanelsTypes, AnswerKinds
  <2>7. boards'["fields"] # NothingYet => boards'["fields"] = schema'
    BY <2>1, <2>6 DEF PanelsInv
  <2>8. r.for # "exportFailed"
    BY <2>1
  <2>. QED BY <1>3, <2>1, <2>4, <2>5, <2>7, <2>8
<1>8. CASE HearFields
  <2>1. /\ r.for = "fields" /\ UNCHANGED <<pages, exporting>> /\ schema' = r.about
        /\ boards' = [boards EXCEPT !["fields"] = r.about]
        /\ loading' = [loading EXCEPT !["schemas"] = FALSE]
    BY <1>8 DEF HearFields, Came
  <2>2. r.about \in Archetypes
    BY <1>1, <2>1 DEF Tells, Asks
  <2>3. PanelsTypes'
    BY <1>0, <1>2, <1>4, <2>1, <2>2 DEF PanelsInv, PanelsTypes, About
  <2>4. ASSUME NEW e \in {"entities", "state"}
        PROVE  r \notin TellsFor(e) /\ loading'[e] = loading[e] /\ boards'[e] = boards[e]
    BY <2>1 DEF TellsFor, PanelsInv, PanelsTypes, Boards, AnswerKinds
  <2>5. boards'["fields"] = schema'
    BY <2>1 DEF PanelsInv, PanelsTypes, AnswerKinds
  <2>6. r.for # "exportFailed"
    BY <2>1
  <2>. QED BY <1>3, <2>1, <2>3, <2>4, <2>5, <2>6
<1>9. CASE HearExport
  <2>1. /\ r.for \in {"exportCreated", "exportFailed"} /\ exporting' = (r.for = "exportCreated")
        /\ UNCHANGED <<pages, schema, loading, boards>>
    BY <1>9 DEF HearExport
  <2>2. PanelsTypes'
    BY <1>0, <1>2, <1>4, <2>1 DEF PanelsInv, PanelsTypes
  <2>3. ASSUME NEW e \in {"entities", "state"} PROVE r \notin TellsFor(e)
    BY <2>1 DEF TellsFor
  <2>4. boards'["fields"] # NothingYet => boards'["fields"] = schema'
    BY <2>1 DEF PanelsInv
  <2>. QED BY <1>3, <2>1, <2>2, <2>3, <2>4
<1>. QED BY <1>5, <1>6, <1>7, <1>8, <1>9

\* Every step keeps the invariant.
LEMMA PanelsInductive == PanelsInv /\ [EditorPanelsNext]_editorVars => PanelsInv'
<1>. SUFFICES ASSUME PanelsInv, [EditorPanelsNext]_editorVars PROVE PanelsInv'
  OBVIOUS
<1>1. CASE UNCHANGED editorVars
  BY <1>1 DEF editorVars, PanelsInv, PanelsTypes, ExportsFail, Settles
<1>. QED BY <1>1, TabsKeep, ConnectionKeeps, AnswersKeep, HearingKeeps DEF EditorPanelsNext

\* Once every question is answered, each list shows what its tab is about.
THEOREM BoardsAlwaysSettle == EditorPanelsSpec => [](EditorPanelsTypeOK /\ BoardsSettle)
<1>1. PanelsInv => EditorPanelsTypeOK
  <2>. SUFFICES ASSUME PanelsInv PROVE EditorPanelsTypeOK
    OBVIOUS
  <2>1. Len(questions) \in Nat /\ Len(replies) \in Nat
    BY LenProperties DEF PanelsInv, PanelsTypes
  <2>2. Len(questions) + Len(replies) <= 2 * MaxPending
    BY <2>1 DEF PanelsInv, PanelsTypes
  <2>. QED BY <2>2 DEF PanelsInv, PanelsTypes, EditorPanelsTypeOK
<1>2. PanelsInv => BoardsSettle
  BY NothingInLine DEF PanelsInv, BoardsSettle, Settles, ExportsFail
<1>. QED BY <1>1, <1>2, PanelsStart, PanelsInductive, PTL DEF EditorPanelsSpec

HIDE KindAssumption
HIDE PanelBoundsAssumption

-----------------------------------------------------------------------------
(***************************************************************************)
(* The script editor.                                                      *)
(***************************************************************************)

USE ScriptPanelAssumption

ScriptPanelSpec == ScriptPanelInit /\ [][ScriptPanelNext]_scriptPanelVars

Calls == [op : {"read"}, of : Paths] \cup [op : {"validate"}, of : AnyText]
Returns == [op : {"content"}, of : Paths, text : AnyText] \cup [op : {"error"}]
             \cup [op : {"result"}, text : AnyText]
Validations == {c \in Calls : c.op = "validate"}
Results == {r \in Returns : r.op = "result"}
ValidationOf(t) == {c \in Validations : c.of = t}
ResultOf(t) == {r \in Results : r.text = t}

\* Without a timer the text is the one sent last; and of that text are the last
\* validation under way, the last result, or the issues on display.
ScriptPanelInv ==
    /\ ScriptPanelTypeOK
    /\ calls \in Seq(Calls) /\ returns \in Seq(Returns)
    /\ path # NoPath /\ due = NoText => text = validated
    /\ \/ LastOf(calls, Validations, ValidationOf(validated))
       \/ /\ NoneOf(calls, Validations)
          /\ \/ LastOf(returns, Results, ResultOf(validated))
             \/ /\ NoneOf(returns, Results)
                /\ \/ verdict = validated /\ ~validating
                   \/ verdict = NoText /\ validated = EmptyText

\* No script is open at the start.
LEMMA ScriptPanelStarts == ScriptPanelInit => ScriptPanelInv
<1>. SUFFICES ASSUME ScriptPanelInit PROVE ScriptPanelInv
  OBVIOUS
<1>1. calls \in Seq(Calls) /\ returns \in Seq(Returns) /\ Len(calls) = 0 /\ Len(returns) = 0
  BY EmptySeq DEF ScriptPanelInit
<1>2. NoneOf(calls, Validations) /\ NoneOf(returns, Results)
  BY NothingInLine DEF ScriptPanelInit
<1>3. ScriptPanelTypeOK
  <2>1. Len(calls) + Len(returns) <= MaxCalls
    BY <1>1
  <2>2. validating \in BOOLEAN
    BY DEF ScriptPanelInit
  <2>. QED BY <2>1, <2>2 DEF ScriptPanelInit, ScriptPanelTypeOK, AnyText
<1>4. path = NoPath /\ verdict = NoText /\ validated = EmptyText
  BY DEF ScriptPanelInit
<1>. QED BY <1>1, <1>2, <1>3, <1>4, Zenon DEF ScriptPanelInv

\* A question goes to the end of the line.
LEMMA CallsGrow ==
    ASSUME ScriptPanelInv, NEW c \in Calls, Call(c), UNCHANGED returns
    PROVE  /\ calls' \in Seq(Calls) /\ calls' = Append(calls, c)
           /\ Len(calls') + Len(returns') <= MaxCalls
<1>1. Len(calls) \in Nat /\ Len(returns) \in Nat
  BY LenProperties DEF ScriptPanelInv
<1>2. calls' \in Seq(Calls) /\ calls' = Append(calls, c) /\ Len(calls') = Len(calls) + 1
  BY AppendProperties DEF Call, ScriptPanelInv
<1>. QED BY <1>1, <1>2 DEF Call

\* What the game master and the timer do.
LEMMA PanelAsks ==
    ASSUME ScriptPanelInv,
           \/ \E p \in Paths : SelectFile(p) \/ OpenFromError(p)
           \/ \E t \in AnyText : EditText(t)
           \/ StageText \/ TimerFires
    PROVE  ScriptPanelInv'
<1>1. ASSUME NEW p \in Paths, SelectFile(p) PROVE ScriptPanelInv'
  <2>. DEFINE c == [op |-> "read", of |-> p]
  <2>1. c \in Calls /\ c \notin Validations
    BY DEF Calls, Validations
  <2>2. Call(c) /\ UNCHANGED returns
    BY <1>1 DEF SelectFile
  <2>. HIDE DEF c
  <2>3. calls' \in Seq(Calls) /\ calls' = Append(calls, c) /\ Len(calls') + Len(returns') <= MaxCalls
    BY <2>1, <2>2, CallsGrow
  <2>. QED BY <1>1, <2>1, <2>2, <2>3, AtTheEnd
       DEF SelectFile, ScriptPanelInv, ScriptPanelTypeOK
<1>2. ASSUME NEW p \in Paths, OpenFromError(p) PROVE ScriptPanelInv'
  <2>. DEFINE c == [op |-> "read", of |-> p]
  <2>1. c \in Calls /\ c \notin Validations
    BY DEF Calls, Validations
  <2>2. Call(c) /\ UNCHANGED returns
    BY <1>2 DEF OpenFromError
  <2>. HIDE DEF c
  <2>3. calls' \in Seq(Calls) /\ calls' = Append(calls, c) /\ Len(calls') + Len(returns') <= MaxCalls
    BY <2>1, <2>2, CallsGrow
  <2>4. due' \in AnyText \cup {NoText} /\ (due' = NoText => text' = validated')
    BY <1>2 DEF OpenFromError, Due, ScriptPanelInv, ScriptPanelTypeOK, AnyText
  <2>. QED BY <1>2, <2>1, <2>2, <2>3, <2>4, AtTheEnd
       DEF OpenFromError, ScriptPanelInv, ScriptPanelTypeOK
<1>3. ASSUME NEW t \in AnyText, EditText(t) PROVE ScriptPanelInv'
  <2>1. due' \in AnyText \cup {NoText} /\ (due' = NoText => text' = validated')
    BY <1>3 DEF EditText, Due, ScriptPanelInv, ScriptPanelTypeOK, AnyText
  <2>. QED BY <1>3, <2>1 DEF EditText, ScriptPanelInv, ScriptPanelTypeOK
<1>4. CASE StageText
  BY <1>4 DEF StageText, ScriptPanelInv, ScriptPanelTypeOK
<1>5. CASE TimerFires
  <2>. DEFINE c == [op |-> "validate", of |-> due]
  <2>1. due \in AnyText
    BY <1>5 DEF TimerFires, ScriptPanelInv, ScriptPanelTypeOK
  <2>2. c \in Calls /\ c \in ValidationOf(due)
    BY <2>1 DEF Calls, Validations, ValidationOf
  <2>3. Call(c) /\ UNCHANGED returns
    BY <1>5 DEF TimerFires
  <2>. HIDE DEF c
  <2>4. calls' \in Seq(Calls) /\ calls' = Append(calls, c) /\ Len(calls') + Len(returns') <= MaxCalls
    BY <2>2, <2>3, CallsGrow
  <2>5. LastOf(calls', Validations, ValidationOf(due))
    BY <2>2, <2>4, AtTheEnd DEF ScriptPanelInv
  <2>6. due' \in AnyText \cup {NoText} /\ (due' = NoText => text' = validated')
    BY <1>5 DEF TimerFires, DueAfter, ScriptPanelInv, ScriptPanelTypeOK, AnyText
  <2>7. validated' = due /\ ScriptPanelTypeOK'
    BY <1>5, <2>1, <2>4, <2>6 DEF TimerFires, ScriptPanelInv, ScriptPanelTypeOK
  <2>. QED BY <1>5, <2>3, <2>4, <2>5, <2>6, <2>7 DEF TimerFires, ScriptPanelInv
<1>. QED BY <1>1, <1>2, <1>3, <1>4, <1>5

\* The server answers in order.
LEMMA ServerReturns ==
    ASSUME ScriptPanelInv, ServeRead \/ ServeValidate
    PROVE  ScriptPanelInv'
<1>1. PICK r \in Returns :
        /\ calls # <<>> /\ calls' = Tail(calls) /\ returns' = Append(returns, r)
        /\ \/ Head(calls) \notin Validations /\ r \notin Results
           \/ Head(calls) \in Validations /\ r \in ResultOf(Head(calls).of)
  <2>1. ASSUME calls # <<>> PROVE Head(calls) \in Calls
    BY <2>1, HeadTailProperties DEF ScriptPanelInv
  <2>2. CASE ServeRead
    <3>1. PICK r : /\ calls # <<>> /\ calls' = Tail(calls) /\ returns' = Append(returns, r)
                   /\ Head(calls).op = "read"
                   /\ \/ \E t \in AnyText : r = [op |-> "content", of |-> Head(calls).of, text |-> t]
                      \/ r = [op |-> "error"]
      BY <2>2 DEF ServeRead
    <3>2. Head(calls) \notin Validations /\ Head(calls).of \in Paths
      BY <2>1, <3>1 DEF Validations, Calls
    <3>3. r \in Returns /\ r \notin Results
      BY <3>1, <3>2 DEF Returns, Results
    <3>. QED BY <3>1, <3>2, <3>3
  <2>3. CASE ServeValidate
    <3>1. Head(calls) \in Validations /\ Head(calls).of \in AnyText
      BY <2>1, <2>3 DEF ServeValidate, Validations, Calls
    <3>2. [op |-> "result", text |-> Head(calls).of] \in ResultOf(Head(calls).of)
          /\ [op |-> "result", text |-> Head(calls).of] \in Returns
      BY <3>1 DEF ResultOf, Results, Returns
    <3>. QED BY <2>3, <3>1, <3>2 DEF ServeValidate
  <2>. QED BY <2>2, <2>3
<1>2. UNCHANGED <<path, text, original, validated, due, validating, verdict>>
  BY DEF ServeRead, ServeValidate
<1>3. /\ calls' \in Seq(Calls) /\ returns' \in Seq(Returns)
      /\ Len(calls') + Len(returns') <= MaxCalls
  <2>1. Len(calls) \in Nat /\ Len(returns) \in Nat
    BY LenProperties DEF ScriptPanelInv
  <2>2. calls' \in Seq(Calls) /\ Len(calls') = Len(calls) - 1
    BY <1>1, HeadTailProperties DEF ScriptPanelInv
  <2>3. returns' \in Seq(Returns) /\ Len(returns') = Len(returns) + 1
    BY <1>1, AppendProperties DEF ScriptPanelInv
  <2>. QED BY <2>1, <2>2, <2>3 DEF ScriptPanelInv, ScriptPanelTypeOK
<1>. DEFINE V == ValidationOf(validated)
            R == ResultOf(validated)
<1>4. CASE LastOf(calls, Validations, V)
  <2>1. CASE LastOf(Tail(calls), Validations, V)
    BY <1>1, <1>2, <1>3, <2>1 DEF ScriptPanelInv, ScriptPanelTypeOK
  <2>2. CASE Head(calls) \in V /\ NoneOf(Tail(calls), Validations)
    <3>1. PICK v : v = Head(calls) /\ v \in Validations /\ v.of = validated
      BY <2>2 DEF ValidationOf
    <3>2. LastOf(returns', Results, R)
      BY <1>1, <3>1, AtTheEnd DEF ScriptPanelInv
    <3>. QED BY <1>1, <1>2, <1>3, <2>2, <3>2 DEF ScriptPanelInv, ScriptPanelTypeOK
  <2>. QED BY <1>1, <1>4, <2>1, <2>2, AtTheFront DEF ScriptPanelInv
<1>5. CASE ~LastOf(calls, Validations, V)
  <2>1. NoneOf(calls, Validations)
    BY <1>5 DEF ScriptPanelInv
  <2>2. NoneOf(calls', Validations) /\ Head(calls) \notin Validations
    BY <1>1, <2>1, AtTheFront DEF ScriptPanelInv
  <2>3. LastOf(returns, Results, R) => LastOf(returns', Results, R)
    BY <1>1, <2>2, AtTheEnd DEF ScriptPanelInv
  <2>4. NoneOf(returns, Results) => NoneOf(returns', Results)
    BY <1>1, <2>2, AtTheEnd DEF ScriptPanelInv
  <2>. QED BY <1>2, <1>3, <1>5, <2>2, <2>3, <2>4 DEF ScriptPanelInv, ScriptPanelTypeOK
<1>. QED BY <1>4, <1>5

\* The panel takes the answers in order.
LEMMA PanelTakes ==
    ASSUME ScriptPanelInv, TakeContent \/ TakeResult \/ TakeError
    PROVE  ScriptPanelInv'
<1>1. /\ returns # <<>> /\ returns' = Tail(returns) /\ Head(returns) \in Returns
      /\ returns' \in Seq(Returns) /\ Len(calls) + Len(returns') <= MaxCalls
      /\ UNCHANGED <<calls, validated>>
  <2>1. returns # <<>> /\ returns' = Tail(returns) /\ UNCHANGED <<calls, validated>>
    BY DEF TakeContent, TakeResult, TakeError
  <2>2. /\ Head(returns) \in Returns /\ Tail(returns) \in Seq(Returns)
        /\ Len(Tail(returns)) = Len(returns) - 1
    BY <2>1, HeadTailProperties DEF ScriptPanelInv
  <2>3. Len(calls) \in Nat /\ Len(returns) \in Nat
    BY LenProperties DEF ScriptPanelInv
  <2>. QED BY <2>1, <2>2, <2>3 DEF ScriptPanelInv, ScriptPanelTypeOK
<1>. DEFINE R == ResultOf(validated)
<1>2. /\ NoneOf(returns, Results) => NoneOf(returns', Results) /\ Head(returns) \notin Results
      /\ LastOf(returns, Results, R) =>
            LastOf(returns', Results, R) \/ (Head(returns) \in R /\ NoneOf(returns', Results))
  BY <1>1, AtTheFront DEF ScriptPanelInv
<1>3. CASE TakeContent
  <2>1. PICK c : c = Head(returns) /\ c \in [op : {"content"}, of : Paths, text : AnyText]
    BY <1>1, <1>3 DEF TakeContent, Returns
  <2>2. /\ path' = c.of /\ text' = c.text /\ original' = c.text
        /\ due' = Due(c.of, c.text, validated)
        /\ UNCHANGED <<validating, verdict>>
    BY <1>3, <2>1 DEF TakeContent
  <2>3. due' \in AnyText \cup {NoText} /\ (due' = NoText => text' = validated')
    BY <1>1, <2>1, <2>2 DEF Due, ScriptPanelInv, ScriptPanelTypeOK, AnyText
  <2>4. ScriptPanelTypeOK'
    BY <1>1, <2>1, <2>2, <2>3 DEF ScriptPanelInv, ScriptPanelTypeOK
  <2>5. Head(returns) \notin R
    BY <2>1 DEF ResultOf, Results
  <2>. QED BY <1>1, <1>2, <2>2, <2>3, <2>4, <2>5 DEF ScriptPanelInv
<1>4. CASE TakeResult
  <2>1. Head(returns) \in Results /\ Head(returns).text \in AnyText
    BY <1>1, <1>4 DEF TakeResult, Returns, Results
  <2>2. ScriptPanelTypeOK'
    BY <1>1, <1>4, <2>1 DEF TakeResult, ScriptPanelInv, ScriptPanelTypeOK
  <2>3. Head(returns) \in R => verdict' = validated' /\ ~validating'
    BY <1>4 DEF TakeResult, ResultOf
  <2>4. path' # NoPath /\ due' = NoText => text' = validated'
    BY <1>4 DEF TakeResult, ScriptPanelInv
  <2>. QED BY <1>1, <1>2, <2>1, <2>2, <2>3, <2>4 DEF ScriptPanelInv
<1>5. CASE TakeError
  <2>1. Head(returns) \notin R
    BY <1>5 DEF TakeError, ResultOf, Results
  <2>2. ScriptPanelTypeOK'
    BY <1>1, <1>5 DEF TakeError, ScriptPanelInv, ScriptPanelTypeOK
  <2>3. UNCHANGED <<path, due, text, verdict, validating>>
    BY <1>5 DEF TakeError
  <2>. QED BY <1>1, <1>2, <2>1, <2>2, <2>3 DEF ScriptPanelInv
<1>. QED BY <1>3, <1>4, <1>5

\* Every step keeps the invariant.
LEMMA ScriptPanelInductive ==
    ScriptPanelInv /\ [ScriptPanelNext]_scriptPanelVars => ScriptPanelInv'
<1>. SUFFICES ASSUME ScriptPanelInv, [ScriptPanelNext]_scriptPanelVars PROVE ScriptPanelInv'
  OBVIOUS
<1>1. CASE UNCHANGED scriptPanelVars
  BY <1>1 DEF scriptPanelVars, ScriptPanelInv, ScriptPanelTypeOK
<1>. QED BY <1>1, PanelAsks, ServerReturns, PanelTakes DEF ScriptPanelNext

\* Once every question is answered and no timer runs, the issues on display are
\* those of the text in the editor.
THEOREM VerdictsFit == ScriptPanelSpec => [](ScriptPanelTypeOK /\ VerdictFits)
<1>1. ScriptPanelInv => ScriptPanelTypeOK /\ VerdictFits
  BY NothingInLine DEF ScriptPanelInv, VerdictFits
<1>. QED BY <1>1, ScriptPanelStarts, ScriptPanelInductive, PTL DEF ScriptPanelSpec

HIDE ScriptPanelAssumption

-----------------------------------------------------------------------------
(***************************************************************************)
(* The keyboard of the terminal client.  A question on display was asked   *)
(* once more often than it was answered; an invitation or a proposal in    *)
(* the list was asked and not answered, and is not in the list twice.      *)
(***************************************************************************)

TextTypes ==
    /\ mode \in {"normal", "insert", "command"}
    /\ typed \in BOOLEAN /\ cursor \in BOOLEAN
    /\ focus \in {"map", "left", "right"}
    /\ missionChoice \in OnDisplay \cup {NoChoice}
    /\ genericChoice \in OnDisplay \cup {NoChoice}
    /\ invites \in Seq(Cards) /\ proposals \in Seq(Cards)
    /\ cable \in {"dialing", "up", "down", "quit"}
    /\ said \in CommandMessages \cup MapMessages \cup {"hail", "accept", "answer", Silence}
    /\ asked \in [Questions -> [Cards -> Nat]]
    /\ answered \in [Questions -> [Cards -> Nat]]

\* A choice on display was asked once more often than it was answered.
ChoiceOwed(choice, ask, ans) ==
    \A c \in Cards : /\ ans[c] <= ask[c]
                     /\ choice # NoChoice /\ choice.of = c => ans[c] < ask[c]

\* What a list holds; nothing is in it twice.
Holds(list) == {list[i] : i \in 1..Len(list)}
Distinct(list) == \A i, j \in 1..Len(list) : list[i] = list[j] => i = j

\* What a list holds was asked once, is in it once and is not answered; while there is a
\* connection, all that it does not hold is answered.
ListOwed(list, ask, ans, line) ==
    /\ Distinct(list)
    /\ \A c \in Cards : ans[c] <= ask[c]
    /\ \A c \in Holds(list) : ask[c] = 1 /\ ans[c] = 0
    /\ line \in {"dialing", "up"} => \A c \in Cards \ Holds(list) : ans[c] = ask[c]

TextInv ==
    /\ TextTypes
    /\ ChoiceOwed(missionChoice, asked["mission"], answered["mission"])
    /\ ChoiceOwed(genericChoice, asked["generic"], answered["generic"])
    /\ ListOwed(invites, asked["invite"], answered["invite"], cable)
    /\ ListOwed(proposals, asked["proposal"], answered["proposal"], cable)

\* How often an element of a list without repetition is in it.
LEMMA ListedTimes ==
    ASSUME NEW list \in Seq(Cards), NEW c \in Cards, Distinct(list)
    PROVE  Cardinality({i \in DOMAIN list : list[i] = c}) = IF c \in Holds(list) THEN 1 ELSE 0
<1>1. DOMAIN list = 1..Len(list)
  BY LenProperties
<1>2. CASE c \in Holds(list)
  <2>1. PICK k \in 1..Len(list) : list[k] = c
    BY <1>2 DEF Holds
  <2>2. {i \in DOMAIN list : list[i] = c} = {k}
    BY <1>1, <2>1 DEF Distinct
  <2>. QED BY <1>2, <2>2, FS_Singleton
<1>3. CASE c \notin Holds(list)
  <2>1. {i \in DOMAIN list : list[i] = c} = {}
    BY <1>1, <1>3 DEF Holds
  <2>. QED BY <1>3, <2>1, FS_EmptySet
<1>. QED BY <1>2, <1>3

\* A list with one more element at the end.
LEMMA HoldsMore ==
    ASSUME NEW list \in Seq(Cards), NEW c \in Cards
    PROVE  /\ Append(list, c) \in Seq(Cards)
           /\ Holds(Append(list, c)) = Holds(list) \cup {c}
           /\ Distinct(list) /\ c \notin Holds(list) => Distinct(Append(list, c))
<1>0. PICK longer : longer = Append(list, c)
  OBVIOUS
<1>1. /\ longer \in Seq(Cards) /\ Len(longer) = Len(list) + 1 /\ Len(list) \in Nat
      /\ longer[Len(list) + 1] = c
      /\ \A i \in 1..Len(list) : longer[i] = list[i]
  BY <1>0, AppendProperties, LenProperties
<1>2. \A i \in 1..Len(longer) : i \in 1..Len(list) \/ i = Len(list) + 1
  BY <1>1
<1>3. Len(list) + 1 \in 1..Len(longer) /\ \A i \in 1..Len(list) : i \in 1..Len(longer)
  BY <1>1
<1>4. Holds(longer) = Holds(list) \cup {c}
  BY <1>1, <1>2, <1>3 DEF Holds
<1>5. Distinct(list) /\ c \notin Holds(list) => Distinct(longer)
  BY <1>1, <1>2 DEF Holds, Distinct
<1>. QED BY <1>0, <1>1, <1>4, <1>5

\* A list without its first element.
LEMMA HoldsLess ==
    ASSUME NEW list \in Seq(Cards), list # <<>>
    PROVE  /\ Tail(list) \in Seq(Cards) /\ Head(list) \in Cards /\ Head(list) \in Holds(list)
           /\ Distinct(list) => /\ Distinct(Tail(list))
                                /\ Holds(Tail(list)) = Holds(list) \ {Head(list)}
<1>0. PICK rest : rest = Tail(list)
  OBVIOUS
<1>1. /\ rest \in Seq(Cards) /\ Len(rest) = Len(list) - 1 /\ Len(list) \in Nat \ {0}
      /\ Head(list) \in Cards /\ Head(list) = list[1]
      /\ \A i \in 1..Len(rest) : rest[i] = list[i + 1]
  BY <1>0, HeadTailProperties, LenProperties, EmptySeq
<1>2. /\ \A i \in 1..Len(rest) : i + 1 \in 1..Len(list) /\ i + 1 # 1
      /\ \A i \in 1..Len(list) : i = 1 \/ (i - 1 \in 1..Len(rest) /\ (i - 1) + 1 = i)
      /\ 1 \in 1..Len(list)
  BY <1>1
<1>3. ASSUME Distinct(list) PROVE Distinct(rest)
  <2>. SUFFICES ASSUME NEW i \in 1..Len(rest), NEW j \in 1..Len(rest), rest[i] = rest[j]
                PROVE  i = j
    BY DEF Distinct
  <2>1. list[i + 1] = list[j + 1] /\ i + 1 \in 1..Len(list) /\ j + 1 \in 1..Len(list)
    BY <1>1, <1>2
  <2>2. i + 1 = j + 1
    BY <1>3, <2>1, Zenon DEF Distinct
  <2>. QED BY <2>2
<1>4. ASSUME Distinct(list) PROVE Holds(rest) = Holds(list) \ {list[1]}
  <2>1. \A i \in 1..Len(rest) : list[i + 1] # list[1]
    BY <1>2, <1>4 DEF Distinct
  <2>2. \A i \in 1..Len(list) : i # 1 => list[i] = rest[i - 1] /\ i - 1 \in 1..Len(rest)
    BY <1>1, <1>2
  <2>. QED BY <1>1, <1>2, <2>1, <2>2 DEF Holds
<1>5. Head(list) \in Holds(list)
  BY <1>1, <1>2 DEF Holds
<1>. QED BY <1>0, <1>1, <1>3, <1>4, <1>5

\* The invariant says what is checked.
LEMMA TextInvSays == TextInv => TextTypeOK /\ AnsweredOnce
<1>. SUFFICES ASSUME TextInv PROVE TextTypeOK /\ AnsweredOnce
  OBVIOUS
<1>1. TextTypes
  BY DEF TextInv
<1>2. ToSet(invites) \subseteq Cards /\ ToSet(proposals) \subseteq Cards
  <2>1. /\ \A i \in DOMAIN invites : invites[i] \in Cards
        /\ \A i \in DOMAIN proposals : proposals[i] \in Cards
    BY <1>1, ElementOfSeq, LenProperties DEF TextTypes
  <2>. QED BY <2>1 DEF ToSet
<1>3. TextTypeOK
  BY <1>1, <1>2 DEF TextTypes, TextTypeOK
<1>4. ASSUME NEW q \in Questions, NEW c \in Cards
      PROVE  /\ answered[q][c] + Waiting(q, c) <= asked[q][c]
             /\ q \in {"invite", "proposal"} /\ cable \in {"dialing", "up"} =>
                    answered[q][c] + Waiting(q, c) = asked[q][c]
  <2>1. answered[q][c] \in Nat /\ asked[q][c] \in Nat
    BY <1>1 DEF TextTypes
  <2>2. CASE q = "mission"
    <3>1. Waiting(q, c) = IF missionChoice # NoChoice /\ missionChoice.of = c THEN 1 ELSE 0
      BY <2>2 DEF Waiting
    <3>. QED BY <2>1, <2>2, <3>1 DEF TextInv, ChoiceOwed
  <2>3. CASE q = "generic"
    <3>1. Waiting(q, c) = IF genericChoice # NoChoice /\ genericChoice.of = c THEN 1 ELSE 0
      BY <2>3 DEF Waiting
    <3>. QED BY <2>1, <2>3, <3>1 DEF TextInv, ChoiceOwed
  <2>4. CASE q = "invite"
    <3>1. Waiting(q, c) = Cardinality({i \in DOMAIN invites : invites[i] = c})
      BY <2>4 DEF Waiting
    <3>2. Waiting(q, c) = IF c \in Holds(invites) THEN 1 ELSE 0
      BY <1>1, <3>1, ListedTimes DEF TextInv, TextTypes, ListOwed
    <3>. QED BY <2>1, <2>4, <3>2 DEF TextInv, ListOwed
  <2>5. CASE q = "proposal"
    <3>1. Waiting(q, c) = Cardinality({i \in DOMAIN proposals : proposals[i] = c})
      BY <2>5 DEF Waiting
    <3>2. Waiting(q, c) = IF c \in Holds(proposals) THEN 1 ELSE 0
      BY <1>1, <3>1, ListedTimes DEF TextInv, TextTypes, ListOwed
    <3>. QED BY <2>1, <2>5, <3>2 DEF TextInv, ListOwed
  <2>. QED BY <2>2, <2>3, <2>4, <2>5 DEF Questions
<1>. QED BY <1>3, <1>4 DEF AnsweredOnce

\* Nothing is asked at the start.
LEMMA TextStart == TextClientInit => TextInv
<1>. SUFFICES ASSUME TextClientInit PROVE TextInv
  OBVIOUS
<1>1. TextTypes
  <2>1. <<>> \in Seq(Cards)
    OBVIOUS
  <2>2. /\ asked \in [Questions -> [Cards -> Nat]] /\ answered \in [Questions -> [Cards -> Nat]]
    BY DEF TextClientInit
  <2>3. /\ missionChoice = NoChoice /\ genericChoice = NoChoice
        /\ invites = <<>> /\ proposals = <<>> /\ said = Silence
        /\ mode = "normal" /\ typed = FALSE /\ focus = "map" /\ cursor = FALSE
        /\ cable = "dialing"
    BY DEF TextClientInit
  <2>4. invites \in Seq(Cards) /\ proposals \in Seq(Cards)
    BY <2>1, <2>3
  <2>. QED BY <2>2, <2>3, <2>4 DEF TextTypes
<1>2. Distinct(<<>>) /\ Holds(<<>>) = {}
  BY DEF Distinct, Holds
<1>3. \A q \in Questions, c \in Cards : asked[q][c] = 0 /\ answered[q][c] = 0
  BY DEF TextClientInit
<1>4. /\ ListOwed(<<>>, asked["invite"], answered["invite"], cable)
      /\ ListOwed(<<>>, asked["proposal"], answered["proposal"], cable)
  BY <1>2, <1>3 DEF ListOwed, Questions
<1>5. /\ ChoiceOwed(NoChoice, asked["mission"], answered["mission"])
      /\ ChoiceOwed(NoChoice, asked["generic"], answered["generic"])
  BY <1>3 DEF ChoiceOwed, Questions
<1>. QED BY <1>1, <1>4, <1>5 DEF TextInv, TextClientInit

\* What leaves the lists, the choices and the counts alone.
LEMMA TextQuiet ==
    ASSUME TextInv,
           UNCHANGED <<missionChoice, genericChoice, invites, proposals, asked, answered>>,
           TextTypes', cable' \in {"dialing", "up"} => cable \in {"dialing", "up"}
    PROVE  TextInv'
BY DEF TextInv, ChoiceOwed, ListOwed

\* What the player says last is a message or nothing.
LEMMA TextSays ==
    ASSUME NEW m \in CommandMessages \cup MapMessages \cup {"hail", "accept", "answer"}, Say(m)
    PROVE  said' \in CommandMessages \cup MapMessages \cup {"hail", "accept", "answer", Silence}
BY DEF Say

\* What neither asks nor answers.
LEMMA TextOther ==
    ASSUME TextInv,
           \/ Open \/ LoseSocket \/ InsertKey \/ CommandKey \/ FocusKey \/ ModeKey
           \/ MapKey \/ LeftKey \/ Quit
    PROVE  TextInv'
<1>1. UNCHANGED <<missionChoice, genericChoice, invites, proposals, asked, answered>>
  BY DEF Open, LoseSocket, InsertKey, CommandKey, FocusKey, ModeKey, MapKey, LeftKey, Quit
<1>2. cable' \in {"dialing", "up"} => cable \in {"dialing", "up"}
  BY DEF Open, LoseSocket, InsertKey, CommandKey, FocusKey, ModeKey, MapKey, LeftKey, Quit
<1>3. TextTypes
  BY DEF TextInv
<1>4. CASE Open \/ LoseSocket \/ Quit
  <2>1. TextTypes'
    BY <1>1, <1>3, <1>4 DEF TextTypes, Open, LoseSocket, Quit
  <2>. QED BY <1>1, <1>2, <2>1, TextQuiet
<1>5. CASE InsertKey
  <2>1. said' \in CommandMessages \cup MapMessages \cup {"hail", "accept", "answer", Silence}
    BY <1>5 DEF InsertKey, Say, CommandMessages
  <2>2. TextTypes'
    BY <1>1, <1>3, <1>5, <2>1 DEF TextTypes, InsertKey
  <2>. QED BY <1>1, <1>2, <2>2, TextQuiet
<1>6. CASE CommandKey
  <2>1. said' \in CommandMessages \cup MapMessages \cup {"hail", "accept", "answer", Silence}
    BY <1>6, TextSays DEF CommandKey
  <2>2. TextTypes'
    BY <1>1, <1>3, <1>6, <2>1 DEF TextTypes, CommandKey
  <2>. QED BY <1>1, <1>2, <2>2, TextQuiet
<1>7. CASE FocusKey \/ ModeKey
  <2>1. TextTypes'
    BY <1>1, <1>3, <1>7 DEF TextTypes, FocusKey, ModeKey, Free
  <2>. QED BY <1>1, <1>2, <2>1, TextQuiet
<1>8. CASE MapKey
  <2>1. said' \in CommandMessages \cup MapMessages \cup {"hail", "accept", "answer", Silence}
    <3>1. "move" \in CommandMessages
      BY DEF CommandMessages
    <3>. QED BY <1>8, <3>1, TextSays DEF MapKey
  <2>2. TextTypes'
    BY <1>1, <1>3, <1>8, <2>1 DEF TextTypes, MapKey
  <2>. QED BY <1>1, <1>2, <2>2, TextQuiet
<1>9. CASE LeftKey
  <2>1. said' \in CommandMessages \cup MapMessages \cup {"hail", "accept", "answer", Silence}
    BY <1>9, TextSays DEF LeftKey
  <2>2. TextTypes'
    BY <1>1, <1>3, <1>9, <2>1 DEF TextTypes, LeftKey
  <2>. QED BY <1>1, <1>2, <2>2, TextQuiet
<1>. QED BY <1>4, <1>5, <1>6, <1>7, <1>8, <1>9

\* A question more.
LEMMA TextAsked ==
    ASSUME TextInv, NEW q \in Questions, NEW c \in Cards, AskPlayer(q, c)
    PROVE  /\ asked' \in [Questions -> [Cards -> Nat]]
           /\ asked'[q] \in [Cards -> Nat] /\ asked'[q][c] = asked[q][c] + 1
           /\ \A d \in Cards : d # c => asked'[q][d] = asked[q][d]
           /\ \A p \in Questions : p # q => asked'[p] = asked[p]
           /\ UNCHANGED <<mode, typed, focus, cursor, cable, answered>> /\ cable = "up"
           /\ said' = Silence
BY DEF TextInv, TextTypes, AskPlayer

\* A choice replaces the one on display: it was asked once more.
LEMMA ChoiceAsked ==
    ASSUME NEW ask \in [Cards -> Nat], NEW ans \in [Cards -> Nat], NEW choice, NEW newer,
           ChoiceOwed(choice, ask, ans), NEW c \in Cards, newer.of = c,
           NEW more \in [Cards -> Nat], more[c] = ask[c] + 1,
           \A d \in Cards : d # c => more[d] = ask[d]
    PROVE  ChoiceOwed(newer, more, ans)
<1>. \A d \in Cards : ask[d] \in Nat /\ ans[d] \in Nat
  OBVIOUS
<1>. QED BY DEF ChoiceOwed

\* Neither count can run past the other: an answer takes the choice off the display.
LEMMA ChoiceAnswered ==
    ASSUME NEW ask \in [Cards -> Nat], NEW ans \in [Cards -> Nat], NEW choice,
           ChoiceOwed(choice, ask, ans), NEW c \in Cards, choice # NoChoice, choice.of = c,
           NEW more \in [Cards -> Nat], more[c] \in {ans[c], ans[c] + 1},
           \A d \in Cards : d # c => more[d] = ans[d]
    PROVE  ChoiceOwed(NoChoice, ask, more)
<1>. \A d \in Cards : ask[d] \in Nat /\ ans[d] \in Nat
  OBVIOUS
<1>. QED BY DEF ChoiceOwed

\* An invitation that comes for the first time goes to the end of the list.
LEMMA ListAppends ==
    ASSUME NEW ask \in [Cards -> Nat], NEW ans \in [Cards -> Nat], NEW list \in Seq(Cards),
           NEW line, ListOwed(list, ask, ans, line), NEW c \in Cards, ask[c] = 0,
           NEW more \in [Cards -> Nat], more[c] = 1, \A d \in Cards : d # c => more[d] = ask[d]
    PROVE  ListOwed(Append(list, c), more, ans, line)
<1>1. PICK longer : longer = Append(list, c)
  OBVIOUS
<1>2. c \notin Holds(list) /\ ans[c] = 0
  BY DEF ListOwed
<1>3. Distinct(longer) /\ Holds(longer) = Holds(list) \cup {c}
  BY <1>1, <1>2, HoldsMore DEF ListOwed
<1>4. \A d \in Holds(list) : d \in Cards
  BY ElementOfSeq DEF Holds
<1>5. ListOwed(longer, more, ans, line)
  <2>1. \A d \in Cards : ans[d] <= ask[d] /\ ans[d] \in Nat
    BY DEF ListOwed
  <2>2. ASSUME NEW d \in Cards PROVE ans[d] <= more[d]
    <3>1. CASE d = c
      BY <1>2, <3>1
    <3>2. CASE d # c
      <4>1. more[d] = ask[d]
        BY <3>2
      <4>. QED BY <2>1, <4>1
    <3>. QED BY <3>1, <3>2
  <2>3. \A d \in Holds(longer) : more[d] = 1 /\ ans[d] = 0
    BY <1>2, <1>3, <1>4 DEF ListOwed
  <2>4. line \in {"dialing", "up"} => \A d \in Cards \ Holds(longer) : ans[d] = more[d]
    BY <1>3 DEF ListOwed
  <2>. QED BY <1>3, <2>2, <2>3, <2>4 DEF ListOwed
<1>. QED BY <1>1, <1>5

\* The first of a list is answered, or struck off without an answer once the connection
\* is gone, and the others move up.
LEMMA ListShrinks ==
    ASSUME NEW ask \in [Cards -> Nat], NEW ans \in [Cards -> Nat], NEW list \in Seq(Cards),
           NEW line, ListOwed(list, ask, ans, line), list # <<>>, NEW c \in Cards, c = Head(list),
           NEW more \in [Cards -> Nat], \A d \in Cards : d # c => more[d] = ans[d],
           more[c] = ans[c] + 1 \/ (more[c] = ans[c] /\ line = "down")
    PROVE  ListOwed(Tail(list), ask, more, line)
<1>1. PICK rest : rest = Tail(list)
  OBVIOUS
<1>2. Distinct(rest) /\ Holds(rest) = Holds(list) \ {c} /\ c \in Holds(list)
  BY <1>1, HoldsLess DEF ListOwed
<1>3. ask[c] = 1 /\ ans[c] = 0
  BY <1>2 DEF ListOwed
<1>4. \A d \in Holds(list) : d \in Cards
  BY ElementOfSeq DEF Holds
<1>5. ListOwed(rest, ask, more, line)
  BY <1>2, <1>3, <1>4 DEF ListOwed
<1>. QED BY <1>1, <1>5

\* What a question puts on display or in line is owed.
LEMMA TextHears ==
    ASSUME TextInv, NEW c \in Cards, NEW open \in BOOLEAN,
           \/ HearMissionChoice(c, open) \/ HearChoiceRequired(c, open)
           \/ HearInvite(c) \/ HearProposal(c)
    PROVE  TextInv'
<1>0. /\ \A q \in Questions : asked[q] \in [Cards -> Nat] /\ answered[q] \in [Cards -> Nat]
      /\ "mission" \in Questions /\ "generic" \in Questions
      /\ "invite" \in Questions /\ "proposal" \in Questions
      /\ invites \in Seq(Cards) /\ proposals \in Seq(Cards)
  BY DEF TextInv, TextTypes, Questions
<1>1. PICK placed : placed = [of |-> c, open |-> open] /\ placed \in OnDisplay /\ placed.of = c
  <2>1. [of |-> c, open |-> open] \in OnDisplay /\ [of |-> c, open |-> open].of = c
    BY DEF OnDisplay
  <2>. QED BY <2>1
<1>2. CASE HearMissionChoice(c, open)
  <2>1. /\ missionChoice' = placed /\ UNCHANGED <<genericChoice, invites, proposals>>
        /\ AskPlayer("mission", c)
    BY <1>1, <1>2 DEF HearMissionChoice
  <2>2. /\ asked' \in [Questions -> [Cards -> Nat]]
        /\ asked'["mission"] \in [Cards -> Nat] /\ asked'["mission"][c] = asked["mission"][c] + 1
        /\ \A d \in Cards : d # c => asked'["mission"][d] = asked["mission"][d]
        /\ \A p \in Questions : p # "mission" => asked'[p] = asked[p]
        /\ UNCHANGED <<mode, typed, focus, cursor, cable, answered>> /\ said' = Silence
    BY <1>0, <2>1, TextAsked
  <2>3. TextTypes'
    BY <1>1, <2>1, <2>2 DEF TextInv, TextTypes
  <2>4. ChoiceOwed(placed, asked'["mission"], answered["mission"])
    <3>1. PICK ask \in [Cards -> Nat], ans \in [Cards -> Nat], more \in [Cards -> Nat] :
            ask = asked["mission"] /\ ans = answered["mission"] /\ more = asked'["mission"]
      BY <1>0, <2>2
    <3>2. ChoiceOwed(missionChoice, ask, ans)
      BY <3>1, Zenon DEF TextInv
    <3>3. more[c] = ask[c] + 1 /\ \A d \in Cards : d # c => more[d] = ask[d]
      BY <2>2, <3>1, Zenon
    <3>4. ChoiceOwed(placed, more, ans)
      BY <1>1, <3>2, <3>3, ChoiceAsked, Zenon
    <3>. QED BY <3>1, <3>4, Zenon
  <2>. QED BY <1>0, <2>1, <2>2, <2>3, <2>4 DEF TextInv
<1>3. CASE HearChoiceRequired(c, open)
  <2>1. /\ genericChoice' = placed /\ UNCHANGED <<missionChoice, invites, proposals>>
        /\ AskPlayer("generic", c)
    BY <1>1, <1>3 DEF HearChoiceRequired
  <2>2. /\ asked' \in [Questions -> [Cards -> Nat]]
        /\ asked'["generic"] \in [Cards -> Nat] /\ asked'["generic"][c] = asked["generic"][c] + 1
        /\ \A d \in Cards : d # c => asked'["generic"][d] = asked["generic"][d]
        /\ \A p \in Questions : p # "generic" => asked'[p] = asked[p]
        /\ UNCHANGED <<mode, typed, focus, cursor, cable, answered>> /\ said' = Silence
    BY <1>0, <2>1, TextAsked
  <2>3. TextTypes'
    BY <1>1, <2>1, <2>2 DEF TextInv, TextTypes
  <2>4. ChoiceOwed(placed, asked'["generic"], answered["generic"])
    <3>1. PICK ask \in [Cards -> Nat], ans \in [Cards -> Nat], more \in [Cards -> Nat] :
            ask = asked["generic"] /\ ans = answered["generic"] /\ more = asked'["generic"]
      BY <1>0, <2>2
    <3>2. ChoiceOwed(genericChoice, ask, ans)
      BY <3>1, Zenon DEF TextInv
    <3>3. more[c] = ask[c] + 1 /\ \A d \in Cards : d # c => more[d] = ask[d]
      BY <2>2, <3>1, Zenon
    <3>4. ChoiceOwed(placed, more, ans)
      BY <1>1, <3>2, <3>3, ChoiceAsked, Zenon
    <3>. QED BY <3>1, <3>4, Zenon
  <2>. QED BY <1>0, <2>1, <2>2, <2>3, <2>4 DEF TextInv
<1>4. CASE HearInvite(c)
  <2>1. /\ invites' = Append(invites, c) /\ UNCHANGED <<missionChoice, genericChoice, proposals>>
        /\ AskPlayer("invite", c) /\ asked["invite"][c] = 0
    BY <1>4 DEF HearInvite
  <2>2. /\ asked' \in [Questions -> [Cards -> Nat]]
        /\ asked'["invite"] \in [Cards -> Nat] /\ asked'["invite"][c] = asked["invite"][c] + 1
        /\ \A d \in Cards : d # c => asked'["invite"][d] = asked["invite"][d]
        /\ \A p \in Questions : p # "invite" => asked'[p] = asked[p]
        /\ UNCHANGED <<mode, typed, focus, cursor, cable, answered>> /\ said' = Silence
    BY <1>0, <2>1, TextAsked
  <2>3. asked'["invite"][c] = 1
    BY <2>1, <2>2
  <2>4. TextTypes'
    BY <1>0, <2>1, <2>2, AppendProperties DEF TextInv, TextTypes
  <2>5. ListOwed(Append(invites, c), asked'["invite"], answered["invite"], cable)
    BY <1>0, <2>1, <2>2, <2>3, ListAppends DEF TextInv
  <2>. QED BY <1>0, <2>1, <2>2, <2>4, <2>5 DEF TextInv
<1>5. CASE HearProposal(c)
  <2>1. /\ proposals' = Append(proposals, c) /\ UNCHANGED <<missionChoice, genericChoice, invites>>
        /\ AskPlayer("proposal", c) /\ asked["proposal"][c] = 0
    BY <1>5 DEF HearProposal
  <2>2. /\ asked' \in [Questions -> [Cards -> Nat]]
        /\ asked'["proposal"] \in [Cards -> Nat] /\ asked'["proposal"][c] = asked["proposal"][c] + 1
        /\ \A d \in Cards : d # c => asked'["proposal"][d] = asked["proposal"][d]
        /\ \A p \in Questions : p # "proposal" => asked'[p] = asked[p]
        /\ UNCHANGED <<mode, typed, focus, cursor, cable, answered>> /\ said' = Silence
    BY <1>0, <2>1, TextAsked
  <2>3. asked'["proposal"][c] = 1
    BY <2>1, <2>2
  <2>4. TextTypes'
    BY <1>0, <2>1, <2>2, AppendProperties DEF TextInv, TextTypes
  <2>5. ListOwed(Append(proposals, c), asked'["proposal"], answered["proposal"], cable)
    BY <1>0, <2>1, <2>2, <2>3, ListAppends DEF TextInv
  <2>. QED BY <1>0, <2>1, <2>2, <2>4, <2>5 DEF TextInv
<1>. QED BY <1>2, <1>3, <1>4, <1>5

\* An answer more, unless the task is gone.
LEMMA TextGives ==
    ASSUME TextInv, NEW q \in Questions, NEW c \in Cards, GiveAnswer(q, c)
    PROVE  /\ answered' \in [Questions -> [Cards -> Nat]]
           /\ \/ answered'[q][c] = answered[q][c] + 1
              \/ answered'[q][c] = answered[q][c] /\ cable = "down"
           /\ answered'[q] \in [Cards -> Nat]
           /\ \A d \in Cards : d # c => answered'[q][d] = answered[q][d]
           /\ \A p \in Questions : p # q => answered'[p] = answered[p]
           /\ said' \in {"answer", Silence}
<1>1. answered \in [Questions -> [Cards -> Nat]]
  BY DEF TextInv, TextTypes
<1>2. said' \in {"answer", Silence}
  BY DEF GiveAnswer, Say
<1>3. CASE cable = "down"
  <2>1. answered' = [answered EXCEPT ![q][c] = answered[q][c] + 0]
    BY <1>3 DEF GiveAnswer
  <2>2. answered[q][c] + 0 = answered[q][c]
    BY <1>1
  <2>3. answered' = answered
    BY <1>1, <2>1, <2>2
  <2>. QED BY <1>1, <1>2, <1>3, <2>3
<1>4. CASE cable # "down"
  <2>1. answered' = [answered EXCEPT ![q][c] = answered[q][c] + 1]
    BY <1>4 DEF GiveAnswer
  <2>. QED BY <1>1, <1>2, <2>1
<1>. QED BY <1>3, <1>4

\* The player's answers.
LEMMA TextAnswers ==
    ASSUME TextInv,
           \/ MissionChoiceKey \/ GenericChoiceKey \/ HearMissionResult
           \/ InviteKey \/ ProposalKey
    PROVE  TextInv'
<1>0. /\ \A q \in Questions : asked[q] \in [Cards -> Nat] /\ answered[q] \in [Cards -> Nat]
      /\ "mission" \in Questions /\ "generic" \in Questions
      /\ "invite" \in Questions /\ "proposal" \in Questions
      /\ invites \in Seq(Cards) /\ proposals \in Seq(Cards)
  BY DEF TextInv, TextTypes, Questions
<1>1. CASE MissionChoiceKey
  <2>1. PICK c \in Cards : c = missionChoice.of
    BY <1>1 DEF MissionChoiceKey, TextInv, TextTypes, OnDisplay
  <2>2. /\ missionChoice # NoChoice /\ GiveAnswer("mission", c) /\ missionChoice' = NoChoice
        /\ UNCHANGED <<mode, typed, focus, cursor, genericChoice, invites, proposals,
                       cable, asked>>
    BY <1>1, <2>1 DEF MissionChoiceKey, AfterChoice
  <2>3. /\ answered' \in [Questions -> [Cards -> Nat]]
        /\ answered'["mission"] \in [Cards -> Nat]
        /\ answered'["mission"][c] \in {answered["mission"][c], answered["mission"][c] + 1}
        /\ \A d \in Cards : d # c => answered'["mission"][d] = answered["mission"][d]
        /\ \A p \in Questions : p # "mission" => answered'[p] = answered[p]
        /\ said' \in {"answer", Silence}
    BY <1>0, <2>2, TextGives
  <2>4. TextTypes'
    BY <2>2, <2>3 DEF TextInv, TextTypes
  <2>5. ChoiceOwed(NoChoice, asked["mission"], answered'["mission"])
    <3>1. PICK ask \in [Cards -> Nat], ans \in [Cards -> Nat], more \in [Cards -> Nat] :
            ask = asked["mission"] /\ ans = answered["mission"] /\ more = answered'["mission"]
      BY <1>0, <2>3
    <3>2. ChoiceOwed(missionChoice, ask, ans)
      BY <3>1, Zenon DEF TextInv
    <3>3. more[c] \in {ans[c], ans[c] + 1} /\ \A d \in Cards : d # c => more[d] = ans[d]
      BY <2>3, <3>1, Zenon
    <3>4. ChoiceOwed(NoChoice, ask, more)
      BY <2>1, <2>2, <3>2, <3>3, ChoiceAnswered, Zenon
    <3>. QED BY <3>1, <3>4, Zenon
  <2>. QED BY <1>0, <2>2, <2>3, <2>4, <2>5 DEF TextInv
<1>2. CASE GenericChoiceKey /\ UNCHANGED answered
  <2>1. /\ genericChoice' = NoChoice /\ said' \in {"answer", Silence}
        /\ UNCHANGED <<mode, typed, focus, cursor, missionChoice, invites, proposals, cable, asked>>
    BY <1>2 DEF GenericChoiceKey, AfterChoice, GiveAnswer, Say
  <2>2. TextTypes'
    BY <1>2, <2>1 DEF TextInv, TextTypes
  <2>3. ChoiceOwed(NoChoice, asked["generic"], answered["generic"])
    BY DEF TextInv, ChoiceOwed
  <2>. QED BY <1>2, <2>1, <2>2, <2>3 DEF TextInv
<1>3. CASE GenericChoiceKey /\ ~ UNCHANGED answered
  <2>1. PICK c \in Cards : c = genericChoice.of
    BY <1>3 DEF GenericChoiceKey, TextInv, TextTypes, OnDisplay
  <2>2. /\ genericChoice # NoChoice /\ GiveAnswer("generic", c) /\ genericChoice' = NoChoice
        /\ UNCHANGED <<mode, typed, focus, cursor, missionChoice, invites, proposals,
                       cable, asked>>
    BY <1>3, <2>1 DEF GenericChoiceKey, AfterChoice
  <2>3. /\ answered' \in [Questions -> [Cards -> Nat]]
        /\ answered'["generic"] \in [Cards -> Nat]
        /\ answered'["generic"][c] \in {answered["generic"][c], answered["generic"][c] + 1}
        /\ \A d \in Cards : d # c => answered'["generic"][d] = answered["generic"][d]
        /\ \A p \in Questions : p # "generic" => answered'[p] = answered[p]
        /\ said' \in {"answer", Silence}
    BY <1>0, <2>2, TextGives
  <2>4. TextTypes'
    BY <2>2, <2>3 DEF TextInv, TextTypes
  <2>5. ChoiceOwed(NoChoice, asked["generic"], answered'["generic"])
    <3>1. PICK ask \in [Cards -> Nat], ans \in [Cards -> Nat], more \in [Cards -> Nat] :
            ask = asked["generic"] /\ ans = answered["generic"] /\ more = answered'["generic"]
      BY <1>0, <2>3
    <3>2. ChoiceOwed(genericChoice, ask, ans)
      BY <3>1, Zenon DEF TextInv
    <3>3. more[c] \in {ans[c], ans[c] + 1} /\ \A d \in Cards : d # c => more[d] = ans[d]
      BY <2>3, <3>1, Zenon
    <3>4. ChoiceOwed(NoChoice, ask, more)
      BY <2>1, <2>2, <3>2, <3>3, ChoiceAnswered, Zenon
    <3>. QED BY <3>1, <3>4, Zenon
  <2>. QED BY <1>0, <2>2, <2>3, <2>4, <2>5 DEF TextInv
<1>4. CASE HearMissionResult
  <2>1. ChoiceOwed(NoChoice, asked["mission"], answered["mission"])
    BY DEF TextInv, ChoiceOwed
  <2>2. TextTypes'
    BY <1>4 DEF HearMissionResult, TextInv, TextTypes
  <2>. QED BY <1>4, <2>1, <2>2 DEF HearMissionResult, TextInv
<1>5. CASE InviteKey
  <2>1. /\ invites # <<>> /\ GiveAnswer("invite", Head(invites)) /\ invites' = Tail(invites)
        /\ UNCHANGED <<mode, typed, focus, cursor, missionChoice, genericChoice,
                       proposals, cable, asked>>
    BY <1>5 DEF InviteKey, Rest
  <2>2. PICK c \in Cards : c = Head(invites)
    BY <1>0, <2>1, HeadTailProperties
  <2>3. /\ answered' \in [Questions -> [Cards -> Nat]]
        /\ \/ answered'["invite"][c] = answered["invite"][c] + 1
           \/ answered'["invite"][c] = answered["invite"][c] /\ cable = "down"
        /\ \A d \in Cards : d # c => answered'["invite"][d] = answered["invite"][d]
        /\ \A p \in Questions : p # "invite" => answered'[p] = answered[p]
        /\ said' \in {"answer", Silence}
    BY <1>0, <2>1, <2>2, TextGives
  <2>4. TextTypes'
    BY <1>0, <2>1, <2>3, HeadTailProperties DEF TextInv, TextTypes
  <2>5. answered'["invite"] \in [Cards -> Nat]
    BY <1>0, <2>3
  <2>6. ListOwed(Tail(invites), asked["invite"], answered'["invite"], cable)
    <3>1. PICK ask \in [Cards -> Nat], ans \in [Cards -> Nat], more \in [Cards -> Nat] :
            ask = asked["invite"] /\ ans = answered["invite"] /\ more = answered'["invite"]
      BY <1>0, <2>5
    <3>2. ListOwed(invites, ask, ans, cable)
      BY <3>1, Zenon DEF TextInv
    <3>3. /\ \A d \in Cards : d # c => more[d] = ans[d]
          /\ more[c] = ans[c] + 1 \/ (more[c] = ans[c] /\ cable = "down")
      BY <2>3, <3>1, Zenon
    <3>4. ListOwed(Tail(invites), ask, more, cable)
      BY <1>0, <2>1, <2>2, <3>2, <3>3, ListShrinks, Zenon
    <3>. QED BY <3>1, <3>4, Zenon
  <2>. QED BY <1>0, <2>1, <2>3, <2>4, <2>6 DEF TextInv
<1>6. CASE ProposalKey
  <2>1. /\ proposals # <<>> /\ GiveAnswer("proposal", Head(proposals))
        /\ proposals' = Tail(proposals)
        /\ UNCHANGED <<mode, typed, focus, cursor, missionChoice, genericChoice,
                       invites, cable, asked>>
    BY <1>6 DEF ProposalKey, Rest
  <2>2. PICK c \in Cards : c = Head(proposals)
    BY <1>0, <2>1, HeadTailProperties
  <2>3. /\ answered' \in [Questions -> [Cards -> Nat]]
        /\ \/ answered'["proposal"][c] = answered["proposal"][c] + 1
           \/ answered'["proposal"][c] = answered["proposal"][c] /\ cable = "down"
        /\ \A d \in Cards : d # c => answered'["proposal"][d] = answered["proposal"][d]
        /\ \A p \in Questions : p # "proposal" => answered'[p] = answered[p]
        /\ said' \in {"answer", Silence}
    BY <1>0, <2>1, <2>2, TextGives
  <2>4. TextTypes'
    BY <1>0, <2>1, <2>3, HeadTailProperties DEF TextInv, TextTypes
  <2>5. answered'["proposal"] \in [Cards -> Nat]
    BY <1>0, <2>3
  <2>6. ListOwed(Tail(proposals), asked["proposal"], answered'["proposal"], cable)
    <3>1. PICK ask \in [Cards -> Nat], ans \in [Cards -> Nat], more \in [Cards -> Nat] :
            ask = asked["proposal"] /\ ans = answered["proposal"] /\ more = answered'["proposal"]
      BY <1>0, <2>5
    <3>2. ListOwed(proposals, ask, ans, cable)
      BY <3>1, Zenon DEF TextInv
    <3>3. /\ \A d \in Cards : d # c => more[d] = ans[d]
          /\ more[c] = ans[c] + 1 \/ (more[c] = ans[c] /\ cable = "down")
      BY <2>3, <3>1, Zenon
    <3>4. ListOwed(Tail(proposals), ask, more, cable)
      BY <1>0, <2>1, <2>2, <3>2, <3>3, ListShrinks, Zenon
    <3>. QED BY <3>1, <3>4, Zenon
  <2>. QED BY <1>0, <2>1, <2>3, <2>4, <2>6 DEF TextInv
<1>. QED BY <1>1, <1>2, <1>3, <1>4, <1>5, <1>6

\* Every step keeps the invariant.
LEMMA TextKept == TextInv /\ [TextClientNext]_textVars => TextInv'
<1>. SUFFICES ASSUME TextInv, [TextClientNext]_textVars PROVE TextInv'
  OBVIOUS
<1>1. CASE UNCHANGED textVars
  BY <1>1 DEF textVars, TextInv, TextTypes, ChoiceOwed, ListOwed
<1>2. CASE TextClientNext
  BY <1>2, TextOther, TextHears, TextAnswers DEF TextClientNext
<1>. QED BY <1>1, <1>2

\* The player answers a question no more often than it was asked.
THEOREM AnswersAreOwed == TextClientSpec => [](TextTypeOK /\ AnsweredOnce)
<1>. QED BY TextStart, TextKept, TextInvSays, PTL DEF TextClientSpec

-----------------------------------------------------------------------------
(***************************************************************************)
(* The tools.  Their parts share no variable, so a behaviour of ToolsSpec, *)
(* which moves one of them, is a behaviour of each: what was proved of the *)
(* parts holds of what the run Tools checks.                               *)
(***************************************************************************)

\* A step of one part leaves the others where they are.
LEMMA ToolsSteps ==
    [ToolsNext]_toolsVars =>
        /\ [PlaytestsNext]_ptVars /\ [GmEditsNext]_geVars /\ [ViewNext]_viewVars
        /\ [LinkNext]_linkVars /\ [GmEditorNext]_gmVars /\ [DebugPanelNext]_panelVars
        /\ [EditorPanelsNext]_editorVars /\ [ScriptPanelNext]_scriptPanelVars
        /\ [TextClientNext]_textVars /\ UNCHANGED component
BY Zenon DEF ToolsNext, toolsVars

\* A behaviour of the tools is one of each part.
LEMMA ToolsRunTheirParts ==
    ToolsSpec =>
        /\ PlaytestsSpec /\ GmEditsSpec /\ ViewSpec /\ LinkSpec /\ GmEditorSpec
        /\ DebugPanelSpec /\ EditorPanelsSpec /\ ScriptPanelSpec /\ TextClientSpec
<1>1. ToolsInit => /\ PlaytestsInit /\ GmEditsInit /\ ViewInit /\ LinkInit /\ GmEditorInit
                   /\ DebugPanelInit /\ EditorPanelsInit /\ ScriptPanelInit /\ TextClientInit
  BY DEF ToolsInit
<1>. QED BY <1>1, ToolsSteps, PTL
         DEF ToolsSpec, PlaytestsSpec, GmEditsSpec, ViewSpec, LinkSpec, GmEditorSpec,
             DebugPanelSpec, EditorPanelsSpec, ScriptPanelSpec, TextClientSpec

\* A run is about one of the parts.
SomeTool == component \in {"playtests", "edits", "view", "link", "editor", "debugging",
                           "panels", "script", "text"}

\* The types of all the tools, for any number of players, ships, messages and edits.
THEOREM ToolsTypes == ToolsSpec => []ToolsTypeOK
<1>1. ToolsSpec => []SomeTool
  <2>1. ToolsInit => SomeTool
    BY DEF ToolsInit, SomeTool
  <2>2. SomeTool /\ [ToolsNext]_toolsVars => SomeTool'
    BY ToolsSteps, Zenon DEF SomeTool
  <2>. QED BY <2>1, <2>2, PTL DEF ToolsSpec
<1>2. SomeTool /\ PlaytestsTypeOK /\ GmEditsTypeOK /\ ViewTypeOK /\ LinkTypeOK /\ GmEditorTypeOK
        /\ DebugPanelTypeOK /\ EditorPanelsTypeOK /\ ScriptPanelTypeOK /\ TextTypeOK => ToolsTypeOK
  <2>. SUFFICES ASSUME SomeTool, PlaytestsTypeOK, GmEditsTypeOK, ViewTypeOK, LinkTypeOK,
                       GmEditorTypeOK, DebugPanelTypeOK, EditorPanelsTypeOK, ScriptPanelTypeOK,
                       TextTypeOK
                PROVE  ToolsTypeOK
    OBVIOUS
  <2>1. CASE component = "playtests"
    BY <2>1, Zenon DEF ToolsTypeOK
  <2>2. CASE component = "edits"
    BY <2>2, Zenon DEF ToolsTypeOK
  <2>3. CASE component = "view"
    BY <2>3, Zenon DEF ToolsTypeOK
  <2>4. CASE component = "link"
    BY <2>4, Zenon DEF ToolsTypeOK
  <2>5. CASE component = "editor"
    BY <2>5, Zenon DEF ToolsTypeOK
  <2>6. CASE component = "debugging"
    BY <2>6, Zenon DEF ToolsTypeOK
  <2>7. CASE component = "panels"
    BY <2>7, Zenon DEF ToolsTypeOK
  <2>8. CASE component = "script"
    BY <2>8, Zenon DEF ToolsTypeOK
  <2>9. CASE component = "text"
    BY <2>9, Zenon DEF ToolsTypeOK
  <2>. QED BY <2>1, <2>2, <2>3, <2>4, <2>5, <2>6, <2>7, <2>8, <2>9 DEF SomeTool
<1>. QED BY <1>1, <1>2, ToolsRunTheirParts, PlaytestsAlwaysAgree, EditsAgreeAlways,
            ClientsShowTheirSector, LinkNeverStuck, EditsAlwaysReach, PanelAlwaysAgrees,
            BoardsAlwaysSettle, VerdictsFit, AnswersAreOwed, PTL

\* What game masters are told of the edits of the world is so, and what the editor
\* commits reaches the server once.
THEOREM ToolsEdits == ToolsSpec => []EditsHold
<1>1. EditsAgree /\ EditsReachOnce => EditsHold
  BY DEF EditsHold
<1>. QED BY <1>1, ToolsRunTheirParts, EditsAgreeAlways, EditsAlwaysReach, PTL

\* Once every question of the editor is answered, its panels show what the server holds.
THEOREM ToolsPanels == ToolsSpec => []EditorShowsServer
<1>1. PanelAgrees /\ BoardsSettle /\ VerdictFits => EditorShowsServer
  BY DEF EditorShowsServer
<1>. QED BY <1>1, ToolsRunTheirParts, PanelAlwaysAgrees, BoardsAlwaysSettle, VerdictsFit, PTL

\* The other invariants of the run Tools.
THEOREM ToolsInvariants ==
    ToolsSpec => [](PlaytestsAgree /\ ClientShowsSector /\ NeverStuck /\ AnsweredOnce)
BY ToolsRunTheirParts, PlaytestsAlwaysAgree, ClientsShowTheirSector, LinkNeverStuck,
   AnswersAreOwed, PTL
=============================================================================

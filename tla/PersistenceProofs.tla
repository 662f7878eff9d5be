--------------------------- MODULE PersistenceProofs ---------------------------
(***************************************************************************)
(* The safety invariants of Persistence for any accounts, ships,           *)
(* squadrons, request tasks, channel capacity and batch size.              *)
(*                                                                         *)
(* First the types; then, on top of them, an inductive strengthening of    *)
(* LossAccounted and DestroyAccounted.  Only a few facts have to be added: *)
(* nothing is drained while the game loop is outside a drain, a player is  *)
(* never deleted, and whoever has a ship in memory, had it destroyed or is *)
(* being served has an account, so that register meets no earlier state of *)
(* the ship it creates.                                                    *)
(*                                                                         *)
(* Last, that the pipeline implements WriteOrder: every step is a step of  *)
(* WriteOrder, or none, for every key.  Each lemma on ValuesOf says what   *)
(* one end of the channel contributes; NotYet is what register needs.      *)
(***************************************************************************)
EXTENDS Persistence, IntervalInduction, SequenceTheorems, TLAPS

USE PersistenceAssumption

\* The constants as the provers need them: 0 and NoWrite are told apart, a new
\* version stays in range, the three kinds of keys are disjoint.
LEMMA Constants ==
    /\ Absent \in Version
    /\ NoWrite \notin Version
    /\ \A n \in Version : n < MaxVersion => n + 1 \in Version /\ n + 1 # Absent
    /\ \A p \in Players : ShipOf[p] \in Ships
    /\ Players \subseteq Keys /\ Ships \subseteq Keys /\ Squadrons \subseteq Keys
BY DEF Absent, NoWrite, Version, Keys

\* A command that is sent keeps the channel a queue of commands within capacity.
LEMMA SendType ==
    ASSUME TypeOK, NEW c \in Cmd, Send(c)
    PROVE  /\ chan' \in Seq(Cmd) /\ Len(chan') <= ChanCap
           /\ lost' \subseteq Keys
<1>1. c.key \in Keys
  BY DEF Cmd
<1>2. CASE Len(chan) < ChanCap
  <2>1. chan' = Append(chan, c) /\ lost' = lost \ {c.key}
    BY <1>2 DEF Send
  <2>2. chan \in Seq(Cmd)
    BY DEF TypeOK
  <2>3. chan' \in Seq(Cmd) /\ Len(chan') = Len(chan) + 1
    BY <2>1, <2>2
  <2>. QED BY <1>2, <2>1, <2>2, <2>3 DEF TypeOK
<1>3. CASE ~(Len(chan) < ChanCap)
  BY <1>1, <1>3 DEF TypeOK, Send
<1>. QED BY <1>2, <1>3

\* A value that is stored, in the types.
LEMMA StoreType ==
    ASSUME TypeOK, NEW k \in Keys, NEW v \in Version, Store(k, v)
    PROVE  /\ live' \in [Keys -> Version]
           /\ missed' \subseteq Keys /\ lost' \subseteq Keys /\ gone' \subseteq Ships
BY DEF TypeOK, Store

\* A key that is marked, in the types.
LEMMA MarkType ==
    ASSUME TypeOK, NEW k \in Keys, Mark(k)
    PROVE  dirty' \subseteq Keys /\ missed' \subseteq Keys /\ lost' \subseteq Keys
BY DEF TypeOK, Mark

\* The game loop's steps keep the types.
LEMMA GameLoopType == ASSUME TypeOK, GameLoop PROVE TypeOK'
<1>1. CASE DrainCollect
  BY <1>1 DEF TypeOK, DrainCollect, memVars, pipeVars, histVars, LoaderPc
<1>2. CASE DrainClear
  BY <1>2 DEF TypeOK, DrainClear, Advance, pipeVars, MapNo
<1>3. ASSUME NEW k \in Keys, PersistOne(k) PROVE TypeOK'
  <2>1. drained' \subseteq Keys /\ loop' \in [pc : {"run", "clear", "send"}, map : MapNo]
    BY <1>3 DEF TypeOK, PersistOne, Advance, MapNo
  <2>2. CASE live[k] = Absent
    BY <1>3, <2>1, <2>2 DEF TypeOK, PersistOne, memVars
  <2>3. CASE live[k] # Absent
    <3>. DEFINE c == [key |-> k, val |-> live[k]]
    <3>1. c \in Cmd
      BY DEF TypeOK, Cmd
    <3>2. Send(c) /\ missed' = missed \ {k}
      BY <1>3, <2>3 DEF PersistOne
    <3>3. chan' \in Seq(Cmd) /\ Len(chan') <= ChanCap /\ lost' \subseteq Keys
      BY <3>1, <3>2, SendType
    <3>. QED BY <1>3, <2>1, <3>2, <3>3 DEF TypeOK, PersistOne, memVars
  <2>. QED BY <2>2, <2>3
<1>. QED BY <1>1, <1>2, <1>3 DEF GameLoop

\* The worker's steps keep the types.
LEMMA WorkerType == ASSUME TypeOK, Worker PROVE TypeOK'
<1>1. CASE WorkerRecv
  <2>1. Head(chan) \in Cmd /\ Tail(chan) \in Seq(Cmd) /\ Len(Tail(chan)) <= ChanCap
    BY <1>1 DEF TypeOK, WorkerRecv
  <2>2. batch' \in [Keys -> Version \union {NoWrite}]
    BY <1>1, <2>1 DEF TypeOK, WorkerRecv, ApplyCommand, Cmd
  <2>3. flushing' \in BOOLEAN
    BY <1>1 DEF WorkerRecv
  <2>. QED BY <1>1, <2>1, <2>2, <2>3 DEF TypeOK, WorkerRecv, memVars, histVars
<1>2. CASE WorkerDeadline
  BY <1>2 DEF TypeOK, WorkerDeadline, memVars, histVars
<1>3. ASSUME NEW k \in Keys, FlushOk(k) PROVE TypeOK'
  <2>1. db' \in [Keys -> Version]
    BY <1>3 DEF TypeOK, FlushOk, FlushTurn
  <2>2. batch' \in [Keys -> Version \union {NoWrite}] /\ flushing' \in BOOLEAN
    BY <1>3 DEF TypeOK, FlushOk
  <2>. QED BY <1>3, <2>1, <2>2 DEF TypeOK, FlushOk, memVars, histVars
<1>4. ASSUME NEW k \in Keys, FlushErr(k) PROVE TypeOK'
  <2>1. batch' \in [Keys -> Version \union {NoWrite}] /\ flushing' \in BOOLEAN
    BY <1>4 DEF TypeOK, FlushErr
  <2>. QED BY <1>4, <2>1 DEF TypeOK, FlushErr, memVars
<1>. QED BY <1>1, <1>2, <1>3, <1>4 DEF Worker, Flush

\* A destruction's steps keep the types.
LEMMA DestroyType == ASSUME TypeOK, NEW s \in Ships, Destroy(s) PROVE TypeOK'
<1>1. CASE DestroyUnmark(s)
  BY <1>1, Constants DEF TypeOK, DestroyUnmark, pipeVars
<1>2. CASE DestroyRemove(s)
  BY <1>2, Constants DEF TypeOK, DestroyRemove, pipeVars
<1>3. CASE DestroySend(s)
  <2>. DEFINE c == [key |-> s, val |-> Absent]
  <2>1. c \in Cmd /\ Send(c)
    BY <1>3, Constants DEF DestroySend, Cmd
  <2>2. chan' \in Seq(Cmd) /\ Len(chan') <= ChanCap /\ lost' \subseteq Keys
    BY <2>1, SendType
  <2>3. missed' \subseteq Keys
    BY <1>3, Constants DEF TypeOK, DestroySend
  <2>4. remover' \in [Ships -> {"idle", "unmarked", "removed"}]
    BY <1>3 DEF TypeOK, DestroySend
  <2>. QED BY <1>3, <2>2, <2>3, <2>4 DEF TypeOK, DestroySend, memVars
<1>. QED BY <1>1, <1>2, <1>3 DEF Destroy

\* A request in progress serves an account.
LEMMA Serving ==
    ASSUME TypeOK, NEW l \in Loaders, loader[l].pc # "idle"
    PROVE  loader[l].acct \in Players /\ ShipOf[loader[l].acct] \in Ships
BY Constants DEF TypeOK

LoaderRec == [pc : LoaderPc, acct : Players \union {Nobody}, copy : Version]

\* The state of the request tasks is well typed and whoever is served has an account.
LoaderOK ==
    /\ loader \in [Loaders -> LoaderRec]
    /\ \A l \in Loaders : loader[l].pc # "idle" => loader[l].acct \in Players

\* A request task that takes a well-typed state.
LEMMA LoaderType ==
    ASSUME LoaderOK, NEW l \in Loaders, NEW r \in LoaderRec,
           r.pc # "idle" => r.acct \in Players,
           loader' = [loader EXCEPT ![l] = r]
    PROVE  LoaderOK'
BY DEF LoaderOK

\* A request task that moves on with the same account.
LEMMA GotoType ==
    ASSUME LoaderOK, NEW l \in Loaders, NEW to \in LoaderPc,
           loader[l].pc # "idle", Goto(l, to)
    PROVE  LoaderOK'
<1>. DEFINE r == [pc |-> to, acct |-> loader[l].acct, copy |-> loader[l].copy]
<1>1. loader[l] \in LoaderRec /\ loader[l].acct \in Players
  BY DEF LoaderOK
<1>2. r \in LoaderRec
  BY <1>1 DEF LoaderRec
<1>3. loader' = [loader EXCEPT ![l] = r]
  <2>1. [loader[l] EXCEPT !.pc = to] = r
    BY <1>1 DEF LoaderRec
  <2>2. loader' = [loader EXCEPT ![l] = [loader[l] EXCEPT !.pc = to]]
    BY DEF Goto
  <2>. QED BY <2>1, <2>2, Zenon
<1>. QED BY <1>1, <1>2, <1>3, LoaderType

\* A request that ends.
LEMMA EndType ==
    ASSUME LoaderOK, NEW l \in Loaders, EndRequest(l)
    PROVE  LoaderOK'
<1>1. IdleLoader \in LoaderRec /\ IdleLoader.pc = "idle"
  BY Constants DEF IdleLoader, LoaderRec, LoaderPc
<1>. QED BY <1>1, LoaderType DEF EndRequest

\* A request's insert, in its two halves, keeps the types.
LEMMA MarkStepType ==
    ASSUME TypeOK, NEW l \in Loaders, NEW to \in LoaderPc, to # "idle", NEW k \in Keys,
           Mark(k), Goto(l, to), loader[l].pc # "idle",
           UNCHANGED <<live, loop, drained, pipeVars, remover, version, stops, gone>>
    PROVE  TypeOK'
<1>1. dirty' \subseteq Keys /\ missed' \subseteq Keys /\ lost' \subseteq Keys
  BY MarkType
<1>2. LoaderOK'
  BY GotoType DEF TypeOK, LoaderOK, LoaderRec
<1>. QED BY <1>1, <1>2 DEF TypeOK, LoaderOK, LoaderRec, pipeVars

\* A request's insert keeps the types.
LEMMA StoreStepType ==
    ASSUME TypeOK, NEW l \in Loaders, NEW k \in Keys,
           Store(k, loader[l].copy), loader[l].pc # "idle",
           EndRequest(l) \/ \E to \in LoaderPc : Goto(l, to),
           UNCHANGED <<dirty, loop, drained, pipeVars, remover, version, stops>>
    PROVE  TypeOK'
<1>1. /\ live' \in [Keys -> Version]
      /\ missed' \subseteq Keys /\ lost' \subseteq Keys /\ gone' \subseteq Ships
  <2>1. loader[l].copy \in Version
    BY DEF TypeOK
  <2>. QED BY <2>1, StoreType
<1>2. LoaderOK'
  BY GotoType, EndType DEF TypeOK, LoaderOK, LoaderRec
<1>. QED BY <1>1, <1>2 DEF TypeOK, LoaderOK, LoaderRec, pipeVars

\* A request's steps keep the types.
LEMMA ContinueType == ASSUME TypeOK, NEW l \in Loaders, Continue(l) PROVE TypeOK'
<1>. DEFINE p == loader[l].acct
<1>1. loader[l].pc # "idle"
  BY DEF Continue, MarkPlayer, StorePlayer, CheckShip, ReadShip, MarkShip, StoreShip,
         RegMarkShip, RegStoreShip, MarkStep, StoreStep, LoaderAt
<1>2. p \in Keys /\ ShipOf[p] \in Keys /\ ShipOf[p] \in Ships
  BY <1>1, Serving, Constants
<1>3. LoaderOK
  BY DEF TypeOK, LoaderOK, LoaderRec
<1>4. ASSUME MarkPlayer(l) \/ RegMarkShip(l) \/ MarkShip(l) PROVE TypeOK'
  BY <1>1, <1>2, <1>4, MarkStepType DEF MarkPlayer, RegMarkShip, MarkShip, MarkStep, LoaderPc
<1>5. ASSUME StorePlayer(l) \/ RegStoreShip(l) \/ StoreShip(l) PROVE TypeOK'
  BY <1>1, <1>2, <1>5, StoreStepType
     DEF StorePlayer, RegStoreShip, StoreShip, StoreStep, LoaderPc
<1>6. CASE CheckShip(l)
  <2>1. LoaderOK'
    BY <1>1, <1>3, <1>6, GotoType, EndType DEF CheckShip, LoaderPc
  <2>. QED BY <1>6, <2>1 DEF TypeOK, LoaderOK, LoaderRec, CheckShip, memVars, pipeVars, histVars
<1>7. CASE ReadShip(l)
  <2>. DEFINE row == db[ShipOf[p]]
              r == [pc |-> "markShip", acct |-> p, copy |-> row]
  <2>1. CASE row = Absent
    BY <1>3, <1>7, <2>1, EndType
       DEF TypeOK, LoaderOK, LoaderRec, ReadShip, memVars, pipeVars, histVars
  <2>2. CASE row # Absent
    <3>1. r \in LoaderRec /\ r.acct \in Players
      BY <1>1, <1>2 DEF TypeOK, LoaderRec, LoaderPc
    <3>3. loader' = [loader EXCEPT ![l] = r]
      BY <1>7, <2>2 DEF ReadShip
    <3>4. LoaderOK'
      BY <1>3, <3>1, <3>3, LoaderType
    <3>. QED BY <1>7, <3>4 DEF TypeOK, LoaderOK, LoaderRec, ReadShip, memVars, pipeVars, histVars
  <2>. QED BY <2>1, <2>2
<1>. QED BY <1>4, <1>5, <1>6, <1>7 DEF Continue

\* The first step of a request keeps the types.
LEMMA RequestType ==
    ASSUME TypeOK, NEW l \in Loaders, NEW p \in Players, Request(l, p)
    PROVE  TypeOK'
<1>1. LoaderOK
  BY DEF TypeOK, LoaderOK, LoaderRec
<1>2. CASE LoadPlayer(l, p)
  <2>. DEFINE r == [pc |-> "markPlayer", acct |-> p, copy |-> db[p]]
  <2>1. r \in LoaderRec /\ r.acct \in Players
    BY Constants DEF TypeOK, LoaderRec, LoaderPc
  <2>2. LoaderOK'
    BY <1>1, <1>2, <2>1, LoaderType DEF LoadPlayer
  <2>. QED BY <1>2, <2>2 DEF TypeOK, LoaderOK, LoaderRec, LoadPlayer, memVars, pipeVars, histVars
<1>3. CASE Register(l, p)
  <2>. DEFINE r == [pc |-> "regMarkShip", acct |-> p, copy |-> version + 1]
  <2>1. version + 1 \in Version
    BY <1>3, Constants DEF Register, TypeOK
  <2>2. r \in LoaderRec /\ r.acct \in Players
    BY <2>1 DEF LoaderRec, LoaderPc
  <2>3. LoaderOK'
    BY <1>1, <1>3, <2>2, LoaderType DEF Register
  <2>4. db' \in [Keys -> Version]
    BY <1>3, <2>1 DEF Register, TypeOK
  <2>. QED BY <1>3, <2>1, <2>3, <2>4 DEF TypeOK, LoaderOK, LoaderRec, Register, memVars, histVars
<1>. QED BY <1>2, <1>3 DEF Request

\* The initial state is well typed.
LEMMA InitType == Init => TypeOK
<1>. SUFFICES ASSUME Init PROVE TypeOK
  OBVIOUS
<1>1. IdleLoader \in [pc : LoaderPc, acct : Players \union {Nobody}, copy : Version]
  BY Constants DEF IdleLoader, LoaderPc
<1>2. loop \in [pc : {"run", "clear", "send"}, map : MapNo]
  BY DEF Init, MapNo
<1>3. chan \in Seq(Cmd) /\ Len(chan) <= ChanCap
  BY DEF Init
<1>4. /\ loader \in [Loaders -> [pc : LoaderPc, acct : Players \union {Nobody}, copy : Version]]
      /\ \A l \in Loaders : loader[l].pc # "idle" => loader[l].acct \in Players
  BY <1>1 DEF Init, IdleLoader
<1>5. version \in Version /\ stops \in 0 .. MaxStops
  BY DEF Init, Version
<1>. QED BY <1>2, <1>3, <1>4, <1>5, Constants DEF Init, TypeOK

\* Every step keeps the types.
LEMMA NextType == TypeOK /\ [Next]_vars => TypeOK'
<1>. SUFFICES ASSUME TypeOK, [Next]_vars PROVE TypeOK'
  OBVIOUS
<1>0. ASSUME NEW k \in Squadrons, CreateSquadron(k) PROVE TypeOK'
  <2>1. version + 1 \in Version
    BY <1>0, Constants DEF CreateSquadron, TypeOK
  <2>2. dirty' \subseteq Keys /\ missed' \subseteq Keys /\ lost' \subseteq Keys
    BY <1>0, MarkType, Constants DEF CreateSquadron
  <2>. QED BY <1>0, <2>1, <2>2, Constants DEF TypeOK, CreateSquadron, pipeVars
<1>1. ASSUME NEW k \in Keys, Mutate(k) PROVE TypeOK'
  <2>1. version + 1 \in Version
    BY <1>1, Constants DEF Mutate, TypeOK
  <2>2. dirty' \subseteq Keys /\ missed' \subseteq Keys /\ lost' \subseteq Keys
    BY <1>1, MarkType, Constants DEF Mutate
  <2>. QED BY <1>1, <2>1, <2>2, Constants DEF TypeOK, Mutate, pipeVars
<1>2. ASSUME NEW k \in Ships \union Squadrons, RemoveOnly(k) PROVE TypeOK'
  BY <1>2, Constants DEF TypeOK, RemoveOnly, pipeVars
<1>3. CASE Stop
  <2>1. /\ loader' \in [Loaders -> [pc : LoaderPc, acct : Players \union {Nobody}, copy : Version]]
        /\ \A l \in Loaders : loader'[l].pc # "idle" => loader'[l].acct \in Players
    <3>1. IdleLoader \in [pc : LoaderPc, acct : Players \union {Nobody}, copy : Version]
      BY Constants DEF IdleLoader, LoaderPc
    <3>. QED BY <1>3, <3>1 DEF Stop, IdleLoader
  <2>2. stops' \in 0 .. MaxStops
    BY <1>3 DEF TypeOK, Stop
  <2>3. loop' \in [pc : {"run", "clear", "send"}, map : MapNo]
    BY <1>3 DEF Stop, MapNo
  <2>4. chan' \in Seq(Cmd) /\ Len(chan') <= ChanCap
    BY <1>3 DEF Stop
  <2>. QED BY <1>3, <2>1, <2>2, <2>3, <2>4, Constants DEF TypeOK, Stop
<1>4. CASE UNCHANGED vars
  BY <1>4 DEF TypeOK, vars, memVars, pipeVars, histVars
<1>5. CASE Next
  <2>1. CASE \E k \in Keys : Mutate(k)
    BY <1>1, <2>1
  <2>2. CASE \E q \in Squadrons : CreateSquadron(q)
    BY <1>0, <2>2
  <2>3. CASE \E s \in Ships : Destroy(s)
    BY <2>3, DestroyType
  <2>4. CASE \E l \in Loaders : Continue(l) \/ (\E p \in Players : Request(l, p))
    BY <2>4, ContinueType, RequestType
  <2>5. CASE \E k \in Ships \union Squadrons : RemoveOnly(k)
    BY <1>2, <2>5
  <2>6. CASE GameLoop
    BY <2>6, GameLoopType
  <2>7. CASE Worker
    BY <2>7, WorkerType
  <2>. QED BY <1>3, <1>5, <2>1, <2>2, <2>3, <2>4, <2>5, <2>6, <2>7 DEF Next
<1>. QED BY <1>4, <1>5

\* The types of the pipeline's state, the capacity of its channel among them.
THEOREM Types == Spec => []TypeOK
<1>. QED BY InitType, NextType, PTL DEF Spec

-----------------------------------------------------------------------------
(***************************************************************************)
(* How the steps of the pipeline move the value a row ends up with.        *)
(***************************************************************************)

\* A command for another key changes nothing.
LEMMA AppendOther ==
    ASSUME NEW q \in Seq(Cmd), NEW c \in Cmd, NEW b, NEW d, NEW k, NEW v,
           c.key # k, Settles(q, b, d, k, v)
    PROVE  Settles(Append(q, c), b, d, k, v)
<1>. DEFINE r == Append(q, c)
<1>1. Len(r) = Len(q) + 1 /\ r[Len(q) + 1] = c /\ \A i \in 1 .. Len(q) : r[i] = q[i]
  OBVIOUS
<1>2. Len(q) \in Nat
  OBVIOUS
<1>. HIDE DEF r
<1>. QED BY <1>1, <1>2 DEF Settles

\* A command that is appended decides.
LEMMA AppendOwn ==
    ASSUME NEW q \in Seq(Cmd), NEW c \in Cmd, NEW b, NEW d
    PROVE  Settles(Append(q, c), b, d, c.key, c.val)
<1>. DEFINE r == Append(q, c)
<1>1. Len(r) = Len(q) + 1 /\ r[Len(q) + 1] = c
  OBVIOUS
<1>2. Len(q) \in Nat
  OBVIOUS
<1>. HIDE DEF r
<1>. QED BY <1>1, <1>2 DEF Settles

\* The oldest command leaves the channel; its own key takes it into the batch.
LEMMA Receive ==
    ASSUME NEW q \in Seq(Cmd), q # <<>>, NEW b, NEW d, NEW k, NEW v, Settles(q, b, d, k, v)
    PROVE  /\ Head(q).key # k => Settles(Tail(q), b, d, k, v)
           /\ Head(q).key = k => Settles(Tail(q), Head(q).val, d, k, v)
<1>. DEFINE t == Tail(q)
           c == Head(q)
<1>1. c = q[1] /\ c \in Cmd /\ Len(t) = Len(q) - 1 /\ \A i \in 1 .. Len(t) : t[i] = q[i + 1]
  OBVIOUS
<1>2. Len(q) \in Nat \ {0}
  OBVIOUS
<1>3. c.val # NoWrite
  BY <1>1, Constants DEF Cmd
<1>. HIDE DEF t, c
<1>4. CASE \E i \in 1 .. Len(q) : /\ q[i].key = k /\ q[i].val = v
                                  /\ \A j \in 1 .. Len(q) : q[j].key = k => j <= i
  <2>1. PICK i \in 1 .. Len(q) : /\ q[i].key = k /\ q[i].val = v
                                 /\ \A j \in 1 .. Len(q) : q[j].key = k => j <= i
    BY <1>4
  <2>2. CASE i = 1
    <3>1. \A j \in 1 .. Len(t) : t[j].key # k
      BY <1>1, <1>2, <2>1, <2>2
    <3>. QED BY <1>1, <1>3, <2>1, <2>2, <3>1 DEF Settles, t, c
  <2>3. CASE i # 1
    <3>1. i - 1 \in 1 .. Len(t) /\ t[i - 1].key = k /\ t[i - 1].val = v
      BY <1>1, <1>2, <2>1, <2>3
    <3>2. \A j \in 1 .. Len(t) : t[j].key = k => j <= i - 1
      BY <1>1, <1>2, <2>1, <2>3
    <3>. QED BY <3>1, <3>2 DEF Settles, t
  <2>. QED BY <2>2, <2>3
<1>5. CASE (\A i \in 1 .. Len(q) : q[i].key # k) /\ v = IF b = NoWrite THEN d ELSE b
  <2>1. c.key # k /\ \A i \in 1 .. Len(t) : t[i].key # k
    BY <1>1, <1>2, <1>5
  <2>. QED BY <1>5, <2>1 DEF Settles, t, c
<1>. QED BY <1>4, <1>5 DEF Settles

\* The pending write reaches the row.
LEMMA Written ==
    ASSUME NEW q, NEW b, NEW d, NEW k, NEW v, b # NoWrite, Settles(q, b, d, k, v)
    PROVE  Settles(q, NoWrite, b, k, v)
BY DEF Settles

\* A write or a row does not matter as long as a command for the key is queued.
LEMMA Queued ==
    ASSUME NEW q, NEW b, NEW d, NEW k, NEW v, NEW c, NEW e,
           \E i \in 1 .. Len(q) : q[i].key = k, Settles(q, b, d, k, v)
    PROVE  Settles(q, c, e, k, v)
BY DEF Settles

\* A value that is not the row's does not depend on it.
LEMMA NotFromRow ==
    ASSUME NEW q, NEW b, NEW d, NEW k, NEW v, NEW e, v # d, Settles(q, b, d, k, v)
    PROVE  Settles(q, b, e, k, v)
BY DEF Settles

-----------------------------------------------------------------------------
(***************************************************************************)
(* The inductive invariant.                                                *)
(***************************************************************************)

\* drain_dirty never meets keys that an earlier drain has left over.
Drains == loop.pc = "run" => drained = {}

\* No command deletes a player.
PlayersKept ==
    \A p \in Players :
        /\ batch[p] # Absent
        /\ \A i \in 1 .. Len(chan) : chan[i].key = p => chan[i].val # Absent

\* A ship in memory, a destroyed ship and a request belong to an account that has
\* a row.
Accounts ==
    \A p \in Players :
        \/ live[ShipOf[p]] # Absent
        \/ ShipOf[p] \in gone
        \/ \E l \in Loaders : loader[l].acct = p
        => db[p] # Absent

SafetyInv == /\ Drains
             /\ PlayersKept
             /\ Accounts
             /\ LossAccounted
             /\ DestroyAccounted

\* Nothing is in memory and nobody is served at the start.
LEMMA InitSafety == Init => SafetyInv
<1>. SUFFICES ASSUME Init PROVE SafetyInv
  OBVIOUS
<1>1. PlayersKept
  BY Constants DEF Init, PlayersKept, Absent, NoWrite
<1>2. Accounts
  BY Constants DEF Init, Accounts, IdleLoader
<1>. QED BY <1>1, <1>2, Constants DEF Init, SafetyInv, Drains, LossAccounted, DestroyAccounted

\* A command for another key leaves what a row ends up with alone.
LEMMA SendOther ==
    ASSUME TypeOK, NEW c \in Cmd, Send(c), UNCHANGED <<batch, db>>,
           NEW k \in Keys, k # c.key, NEW v, Settles(chan, batch[k], db[k], k, v)
    PROVE  Settles(chan', batch'[k], db'[k], k, v)
<1>1. CASE Len(chan) < ChanCap
  <2>1. chan \in Seq(Cmd) /\ chan' = Append(chan, c)
    BY <1>1 DEF TypeOK, Send
  <2>2. Settles(Append(chan, c), batch[k], db[k], k, v)
    BY <2>1, AppendOther
  <2>. QED BY <2>1, <2>2
<1>2. CASE ~(Len(chan) < ChanCap)
  BY <1>2 DEF Send
<1>. QED BY <1>1, <1>2

\* A command either decides what its row ends up with, or is lost.
LEMMA SendOwn ==
    ASSUME TypeOK, NEW c \in Cmd, Send(c), UNCHANGED <<batch, db>>
    PROVE  Settles(chan', batch'[c.key], db'[c.key], c.key, c.val) \/ c.key \in lost'
<1>1. CASE Len(chan) < ChanCap
  <2>1. chan \in Seq(Cmd) /\ chan' = Append(chan, c)
    BY <1>1 DEF TypeOK, Send
  <2>2. Settles(Append(chan, c), batch[c.key], db[c.key], c.key, c.val)
    BY <2>1, AppendOwn
  <2>. QED BY <2>1, <2>2
<1>2. CASE ~(Len(chan) < ChanCap)
  BY <1>2 DEF Send
<1>. QED BY <1>1, <1>2

\* The other keys stay as lost as they were.
LEMMA SendLost ==
    ASSUME NEW c \in Cmd, Send(c), NEW k, k # c.key
    PROVE  k \in lost <=> k \in lost'
BY DEF Send

\* A command that deletes no player keeps PlayersKept.
LEMMA SendKept ==
    ASSUME TypeOK, PlayersKept, NEW c \in Cmd, Send(c), UNCHANGED batch,
           c.key \in Players => c.val # Absent
    PROVE  PlayersKept'
<1>1. CASE Len(chan) < ChanCap
  <2>1. chan \in Seq(Cmd) /\ chan' = Append(chan, c)
    BY <1>1 DEF TypeOK, Send
  <2>2. /\ Len(chan') = Len(chan) + 1 /\ Len(chan) \in Nat
        /\ chan'[Len(chan) + 1] = c /\ \A i \in 1 .. Len(chan) : chan'[i] = chan[i]
    BY <2>1
  <2>. QED BY <2>2 DEF PlayersKept
<1>2. CASE ~(Len(chan) < ChanCap)
  BY <1>2 DEF Send, PlayersKept
<1>. QED BY <1>1, <1>2

\* The game loop: a drained key is sent, dropped because its entry is gone, or
\* counted as lost; a mark that is cleared unseen is counted as missed.
LEMMA GameLoopSafety == ASSUME TypeOK, SafetyInv, GameLoop PROVE SafetyInv'
<1>1. CASE DrainCollect
  BY <1>1 DEF DrainCollect, SafetyInv, Drains, PlayersKept, Accounts, LossAccounted,
              DestroyAccounted, Settling, memVars, pipeVars, histVars
<1>2. CASE DrainClear
  <2>1. Drains'
    BY <1>2 DEF DrainClear, Advance, Drains
  <2>2. PlayersKept' /\ Accounts' /\ DestroyAccounted'
    BY <1>2 DEF DrainClear, SafetyInv, PlayersKept, Accounts, DestroyAccounted, Settling, pipeVars
  <2>3. LossAccounted'
    BY <1>2 DEF DrainClear, Advance, SafetyInv, LossAccounted, Settling, pipeVars
  <2>. QED BY <2>1, <2>2, <2>3 DEF SafetyInv
<1>3. ASSUME NEW k \in Keys, PersistOne(k) PROVE SafetyInv'
  <2>1. Drains'
    BY <1>3 DEF PersistOne, Advance, Drains
  <2>2. Accounts'
    BY <1>3 DEF PersistOne, SafetyInv, Accounts, memVars
  <2>3. CASE live[k] = Absent
    <3>1. drained' = drained \ {k} /\ UNCHANGED <<live, dirty, chan, batch, db, missed, lost,
                                                  gone, remover>>
      BY <1>3, <2>3 DEF PersistOne, Advance, memVars
    <3>2. PlayersKept' /\ LossAccounted' /\ DestroyAccounted'
      BY <2>3, <3>1 DEF SafetyInv, PlayersKept, LossAccounted, DestroyAccounted, Settling
    <3>. QED BY <2>1, <2>2, <3>2 DEF SafetyInv
  <2>4. CASE live[k] # Absent
    <3>. DEFINE c == [key |-> k, val |-> live[k]]
    <3>1. /\ c \in Cmd /\ c.key = k /\ c.val = live[k] /\ Send(c)
          /\ drained' = drained \ {k} /\ missed' = missed \ {k}
          /\ UNCHANGED <<live, dirty, batch, db, gone, remover>>
      BY <1>3, <2>4 DEF PersistOne, Advance, memVars, TypeOK, Cmd
    <3>. HIDE DEF c
    <3>2. PlayersKept'
      BY <2>4, <3>1, SendKept DEF SafetyInv
    <3>3. LossAccounted'
      <4>. SUFFICES ASSUME NEW j \in Keys, live'[j] # Absent
                    PROVE  \/ Settles(chan', batch'[j], db'[j], j, live'[j])
                           \/ j \in dirty' \union drained' \union missed' \union lost'
        BY DEF LossAccounted, Settling
      <4>1. CASE j = k
        BY <3>1, <4>1, SendOwn
      <4>2. CASE j # k
        BY <3>1, <4>2, SendOther, SendLost DEF SafetyInv, LossAccounted, Settling
      <4>. QED BY <4>1, <4>2
    <3>4. DestroyAccounted'
      <4>. SUFFICES ASSUME NEW s \in gone'
                    PROVE  /\ live'[s] = Absent
                           /\ \/ Settles(chan', batch'[s], db'[s], s, Absent)
                              \/ remover'[s] = "removed" \/ s \in lost'
        BY DEF DestroyAccounted, Settling
      <4>1. s \in Keys /\ s # k
        BY <2>4, <3>1, Constants DEF SafetyInv, DestroyAccounted, TypeOK
      <4>. QED BY <3>1, <4>1, SendOther, SendLost DEF SafetyInv, DestroyAccounted, Settling
    <3>. QED BY <2>1, <2>2, <3>2, <3>3, <3>4 DEF SafetyInv
  <2>. QED BY <2>3, <2>4
<1>. QED BY <1>1, <1>2, <1>3 DEF GameLoop

\* The worker: a command moves from the channel into the batch and from the batch
\* into the row, or its write fails and the key is counted as lost.
LEMMA WorkerSafety == ASSUME TypeOK, SafetyInv, Worker PROVE SafetyInv'
<1>1. CASE WorkerRecv
  <2>. DEFINE c == Head(chan)
  <2>1. /\ chan \in Seq(Cmd) /\ chan # <<>> /\ chan' = Tail(chan)
        /\ batch' = [batch EXCEPT ![c.key] = c.val]
        /\ UNCHANGED <<live, dirty, loop, drained, db, loader, remover, missed, lost, gone>>
    BY <1>1 DEF WorkerRecv, ApplyCommand, TypeOK, memVars, histVars
  <2>2. c \in Cmd /\ c = chan[1] /\ Len(chan) \in Nat \ {0}
        /\ Len(Tail(chan)) = Len(chan) - 1
        /\ \A i \in 1 .. Len(Tail(chan)) : Tail(chan)[i] = chan[i + 1]
    BY <2>1
  <2>3. ASSUME NEW k \in Keys, NEW v, Settles(chan, batch[k], db[k], k, v)
        PROVE  Settles(chan', batch'[k], db'[k], k, v)
    <3>1. CASE c.key = k
      BY <2>1, <2>2, <2>3, <3>1, Receive DEF TypeOK
    <3>2. CASE c.key # k
      BY <2>1, <2>2, <2>3, <3>2, Receive DEF TypeOK
    <3>. QED BY <3>1, <3>2
  <2>4. PlayersKept'
    <3>. SUFFICES ASSUME NEW p \in Players
                  PROVE  /\ batch'[p] # Absent
                         /\ \A i \in 1 .. Len(chan') : chan'[i].key = p => chan'[i].val # Absent
      BY DEF PlayersKept
    <3>1. batch'[p] # Absent
      BY <2>1, <2>2, Constants DEF SafetyInv, PlayersKept, TypeOK
    <3>. QED BY <2>1, <2>2, <3>1 DEF SafetyInv, PlayersKept
  <2>5. LossAccounted'
    BY <2>1, <2>3 DEF SafetyInv, LossAccounted, Settling
  <2>6. DestroyAccounted'
    BY <2>1, <2>3, Constants DEF SafetyInv, DestroyAccounted, Settling, TypeOK
  <2>. QED BY <2>1, <2>4, <2>5, <2>6 DEF SafetyInv, Drains, Accounts
<1>2. CASE WorkerDeadline
  BY <1>2 DEF WorkerDeadline, SafetyInv, Drains, PlayersKept, Accounts, LossAccounted,
              DestroyAccounted, Settling, memVars, histVars
<1>3. ASSUME NEW k \in Keys, FlushOk(k) PROVE SafetyInv'
  <2>1. /\ batch[k] # NoWrite
        /\ db' = [db EXCEPT ![k] = batch[k]] /\ batch' = [batch EXCEPT ![k] = NoWrite]
        /\ UNCHANGED <<live, dirty, loop, drained, chan, loader, remover, missed, lost, gone>>
    BY <1>3 DEF FlushOk, FlushTurn, memVars, histVars
  <2>2. ASSUME NEW j \in Keys, NEW v, Settles(chan, batch[j], db[j], j, v)
        PROVE  Settles(chan', batch'[j], db'[j], j, v)
    <3>1. CASE j = k
      BY <2>1, <2>2, <3>1, Written DEF TypeOK
    <3>2. CASE j # k
      BY <2>1, <2>2, <3>2 DEF TypeOK
    <3>. QED BY <3>1, <3>2
  <2>3. PlayersKept'
    BY <2>1, Constants DEF SafetyInv, PlayersKept, TypeOK, Absent, NoWrite
  <2>4. Accounts'
    BY <2>1, Constants DEF SafetyInv, Accounts, PlayersKept, TypeOK
  <2>5. LossAccounted'
    BY <2>1, <2>2 DEF SafetyInv, LossAccounted, Settling
  <2>6. DestroyAccounted'
    BY <2>1, <2>2, Constants DEF SafetyInv, DestroyAccounted, Settling, TypeOK
  <2>. QED BY <2>1, <2>3, <2>4, <2>5, <2>6 DEF SafetyInv, Drains
<1>4. ASSUME NEW k \in Keys, FlushErr(k) PROVE SafetyInv'
  <2>1. /\ batch' = [batch EXCEPT ![k] = NoWrite]
        /\ UNCHANGED <<live, dirty, loop, drained, chan, db, loader, remover, missed, gone>>
        /\ lost \subseteq lost'
    BY <1>4 DEF FlushErr, memVars
  <2>2. \/ \E i \in 1 .. Len(chan) : chan[i].key = k
        \/ k \in dirty \union drained /\ live[k] # Absent
        \/ k \in lost'
    BY <1>4 DEF FlushErr
  <2>3. ASSUME NEW j \in Keys, NEW v, Settles(chan, batch[j], db[j], j, v),
               j # k \/ \E i \in 1 .. Len(chan) : chan[i].key = k
        PROVE  Settles(chan', batch'[j], db'[j], j, v)
    <3>1. CASE j = k
      BY <2>1, <2>3, <3>1, Queued DEF TypeOK
    <3>2. CASE j # k
      BY <2>1, <2>3, <3>2 DEF TypeOK
    <3>. QED BY <3>1, <3>2
  <2>4. PlayersKept'
    BY <2>1, Constants DEF SafetyInv, PlayersKept, TypeOK, Absent, NoWrite
  <2>5. LossAccounted'
    BY <2>1, <2>2, <2>3 DEF SafetyInv, LossAccounted, Settling
  <2>6. DestroyAccounted'
    BY <2>1, <2>2, <2>3, Constants DEF SafetyInv, DestroyAccounted, Settling, TypeOK
  <2>. QED BY <2>1, <2>4, <2>5, <2>6 DEF SafetyInv, Drains, Accounts
<1>. QED BY <1>1, <1>2, <1>3, <1>4 DEF Worker, Flush

\* The destruction of a ship: the mark, the entry and the command go in turn, and a
\* change that loses its mark first is counted until the entry is gone.
LEMMA DestroySafety ==
    ASSUME TypeOK, SafetyInv, NEW s \in Ships, Destroy(s)
    PROVE  SafetyInv'
<1>1. CASE DestroyUnmark(s)
  BY <1>1, Constants
     DEF DestroyUnmark, SafetyInv, Drains, PlayersKept, Accounts, LossAccounted,
         DestroyAccounted, Settling, TypeOK, pipeVars
<1>2. CASE DestroyRemove(s)
  <2>1. LossAccounted' /\ DestroyAccounted'
    BY <1>2, Constants
       DEF DestroyRemove, SafetyInv, LossAccounted, DestroyAccounted, Settling, TypeOK, pipeVars
  <2>2. Accounts' /\ PlayersKept' /\ Drains'
    BY <1>2, Constants
       DEF DestroyRemove, SafetyInv, Accounts, PlayersKept, Drains, TypeOK, pipeVars
  <2>. QED BY <2>1, <2>2 DEF SafetyInv
<1>3. CASE DestroySend(s)
  <2>. DEFINE c == [key |-> s, val |-> Absent]
  <2>1. /\ c \in Cmd /\ c.key = s /\ c.val = Absent /\ Send(c)
        /\ missed' = IF live[s] # Absent /\ s \notin dirty \union drained
                     THEN missed \union {s} ELSE missed
        /\ remover' = [remover EXCEPT ![s] = "idle"]
        /\ UNCHANGED <<live, dirty, loop, drained, batch, db, loader, gone>>
    BY <1>3, Constants DEF DestroySend, memVars, Cmd
  <2>. HIDE DEF c
  <2>2. PlayersKept'
    BY <2>1, SendKept DEF SafetyInv
  <2>3. LossAccounted'
    <3>. SUFFICES ASSUME NEW j \in Keys, live'[j] # Absent
                  PROVE  \/ Settles(chan', batch'[j], db'[j], j, live'[j])
                         \/ j \in dirty' \union drained' \union missed' \union lost'
      BY DEF LossAccounted, Settling
    <3>1. CASE j = s
      BY <2>1, <3>1
    <3>2. CASE j # s
      BY <2>1, <3>2, SendOther, SendLost DEF SafetyInv, LossAccounted, Settling
    <3>. QED BY <3>1, <3>2
  <2>4. DestroyAccounted'
    <3>. SUFFICES ASSUME NEW r \in gone'
                  PROVE  /\ live'[r] = Absent
                         /\ \/ Settles(chan', batch'[r], db'[r], r, Absent)
                            \/ remover'[r] = "removed" \/ r \in lost'
      BY DEF DestroyAccounted, Settling
    <3>1. r \in Ships /\ r \in Keys
      BY <2>1, Constants DEF TypeOK
    <3>2. CASE r = s
      BY <2>1, <3>2, SendOwn DEF SafetyInv, DestroyAccounted
    <3>3. CASE r # s
      BY <2>1, <3>1, <3>3, SendOther, SendLost
         DEF SafetyInv, DestroyAccounted, Settling, TypeOK
    <3>. QED BY <3>2, <3>3
  <2>. QED BY <2>1, <2>2, <2>3, <2>4 DEF SafetyInv, Drains, Accounts
<1>. QED BY <1>1, <1>2, <1>3 DEF Destroy

\* No request task takes up another account in the step.
SameAccounts == \A l \in Loaders : loader'[l].acct \in {loader[l].acct, Nobody}

\* A step within a request is one of those.
LEMMA MoveOn ==
    ASSUME TypeOK, NEW l \in Loaders, EndRequest(l) \/ \E to \in LoaderPc : Goto(l, to)
    PROVE  SameAccounts
BY DEF TypeOK, SameAccounts, EndRequest, Goto, IdleLoader

\* The first half of an insert.
LEMMA MarkSafety ==
    ASSUME TypeOK, SafetyInv, NEW k \in Keys, Mark(k), SameAccounts,
           UNCHANGED <<live, loop, drained, pipeVars, remover, gone>>
    PROVE  SafetyInv'
<1>1. Accounts'
  BY DEF SafetyInv, Accounts, SameAccounts, pipeVars
<1>2. LossAccounted'
  BY DEF SafetyInv, LossAccounted, Settling, Mark, pipeVars
<1>3. DestroyAccounted'
  BY DEF SafetyInv, DestroyAccounted, Settling, Mark, pipeVars
<1>. QED BY <1>1, <1>2, <1>3 DEF SafetyInv, Drains, PlayersKept, pipeVars

\* The second half, for the account that is served or its ship.
LEMMA StoreSafety ==
    ASSUME TypeOK, SafetyInv, NEW p \in Players, NEW v, NEW l \in Loaders,
           loader[l].acct = p, NEW k \in {p, ShipOf[p]}, Store(k, v), SameAccounts,
           UNCHANGED <<dirty, loop, drained, pipeVars, remover>>
    PROVE  SafetyInv'
<1>1. k \in Keys /\ db[p] # Absent
  BY Constants DEF SafetyInv, Accounts
<1>2. Accounts'
  <2>. SUFFICES ASSUME NEW r \in Players,
                       \/ live'[ShipOf[r]] # Absent
                       \/ ShipOf[r] \in gone'
                       \/ \E m \in Loaders : loader'[m].acct = r
                PROVE  db[r] # Absent
    BY DEF Accounts, pipeVars
  <2>1. CASE ShipOf[r] = k
    <3>1. ShipOf[r] = ShipOf[p]
      BY <2>1, Constants
    <3>. QED BY <1>1, <3>1
  <2>2. CASE ShipOf[r] # k
    <3>1. live'[ShipOf[r]] = live[ShipOf[r]] /\ gone' \subseteq gone
      BY <2>2, Constants DEF Store, TypeOK
    <3>2. (\E m \in Loaders : loader'[m].acct = r) => \E m \in Loaders : loader[m].acct = r
      BY DEF SameAccounts
    <3>. QED BY <3>1, <3>2 DEF SafetyInv, Accounts
  <2>. QED BY <2>1, <2>2
<1>3. LossAccounted'
  BY <1>1 DEF SafetyInv, LossAccounted, Settling, Store, TypeOK, pipeVars
<1>4. DestroyAccounted'
  BY <1>1, Constants DEF SafetyInv, DestroyAccounted, Settling, Store, TypeOK, pipeVars
<1>. QED BY <1>2, <1>3, <1>4 DEF SafetyInv, Drains, PlayersKept, pipeVars

\* A request's steps.
LEMMA ContinueSafety ==
    ASSUME TypeOK, SafetyInv, NEW l \in Loaders, Continue(l)
    PROVE  SafetyInv'
<1>. DEFINE p == loader[l].acct
<1>1. p \in Players /\ p \in Keys /\ ShipOf[p] \in Keys
  <2>1. loader[l].pc # "idle"
    BY DEF Continue, MarkPlayer, StorePlayer, CheckShip, ReadShip, MarkShip, StoreShip,
           RegMarkShip, RegStoreShip, MarkStep, StoreStep, LoaderAt
  <2>. QED BY <2>1, Serving, Constants
<1>2. ASSUME MarkPlayer(l) \/ RegMarkShip(l) \/ MarkShip(l) PROVE SafetyInv'
  BY <1>1, <1>2, MoveOn, MarkSafety DEF MarkPlayer, RegMarkShip, MarkShip, MarkStep, LoaderPc
<1>3. ASSUME StorePlayer(l) \/ RegStoreShip(l) \/ StoreShip(l) PROVE SafetyInv'
  BY <1>1, <1>3, MoveOn, StoreSafety
     DEF StorePlayer, RegStoreShip, StoreShip, StoreStep, LoaderPc
<1>4. ASSUME CheckShip(l) \/ ReadShip(l) PROVE SafetyInv'
  <2>1. SameAccounts
    BY <1>4 DEF CheckShip, ReadShip, SameAccounts, EndRequest, Goto, IdleLoader, TypeOK
  <2>2. Accounts'
    BY <1>4, <2>1
       DEF CheckShip, ReadShip, SameAccounts, SafetyInv, Accounts, memVars, pipeVars, histVars
  <2>. QED BY <1>4, <2>2
       DEF CheckShip, ReadShip, SafetyInv, Drains, PlayersKept, LossAccounted, DestroyAccounted,
           Settling, memVars, pipeVars, histVars
<1>. QED BY <1>2, <1>3, <1>4 DEF Continue

\* The first step of a request.  A registration writes the rows of an account that
\* had none, so that no earlier state of its ship is in memory or on its way out.
LEMMA RequestSafety ==
    ASSUME TypeOK, SafetyInv, NEW l \in Loaders, NEW p \in Players, Request(l, p)
    PROVE  SafetyInv'
<1>1. CASE LoadPlayer(l, p)
  <2>1. /\ db[p] # Absent /\ \A m \in Loaders : loader'[m].acct \in {loader[m].acct, p}
        /\ UNCHANGED <<memVars, loop, drained, pipeVars, remover, histVars>>
    BY <1>1 DEF LoadPlayer, TypeOK
  <2>. QED BY <2>1
       DEF SafetyInv, Drains, PlayersKept, Accounts, LossAccounted, DestroyAccounted, Settling,
           memVars, pipeVars, histVars
<1>2. CASE Register(l, p)
  <2>. DEFINE s == ShipOf[p]
  <2>1. /\ db[p] = Absent /\ db[s] = Absent /\ s \in Ships /\ s \in Keys /\ p \in Keys
        /\ db'[p] # Absent /\ \A k \in Keys : k \notin {p, s} => db'[k] = db[k]
        /\ \A m \in Loaders : loader'[m].acct \in {loader[m].acct, p}
        /\ UNCHANGED <<memVars, loop, drained, chan, batch, remover, histVars>>
    BY <1>2, Constants DEF Register, TypeOK
  <2>2. Accounts'
    BY <2>1, Constants DEF SafetyInv, Accounts, memVars, histVars
  <2>3. LossAccounted'
    <3>1. ASSUME NEW k \in Keys, NEW v, v # Absent, Settles(chan, batch[k], db[k], k, v)
          PROVE  Settles(chan', batch'[k], db'[k], k, v)
      <4>1. CASE k \in {p, s}
        BY <2>1, <3>1, <4>1, NotFromRow
      <4>2. CASE k \notin {p, s}
        BY <2>1, <3>1, <4>2
      <4>. QED BY <4>1, <4>2
    <3>. QED BY <2>1, <3>1 DEF SafetyInv, LossAccounted, Settling, memVars, histVars
  <2>4. DestroyAccounted'
    <3>1. s \notin gone
      BY <2>1 DEF SafetyInv, Accounts
    <3>2. \A r \in gone : db'[r] = db[r]
      BY <2>1, <3>1, Constants DEF TypeOK
    <3>. QED BY <2>1, <3>2 DEF SafetyInv, DestroyAccounted, Settling, memVars, histVars
  <2>. QED BY <2>1, <2>2, <2>3, <2>4 DEF SafetyInv, Drains, PlayersKept
<1>. QED BY <1>1, <1>2 DEF Request

\* Every step keeps the invariant.
LEMMA NextSafety == TypeOK /\ SafetyInv /\ [Next]_vars => SafetyInv'
<1>. SUFFICES ASSUME TypeOK, SafetyInv, [Next]_vars PROVE SafetyInv'
  OBVIOUS
<1>1. ASSUME NEW k \in Keys, Mutate(k) PROVE SafetyInv'
  <2>1. /\ live[k] # Absent /\ Mark(k) /\ k \in dirty'
        /\ \A j \in Keys : j # k => live'[j] = live[j]
        /\ UNCHANGED <<loop, drained, chan, batch, db, loader, remover, gone>>
    BY <1>1 DEF Mutate, Mark, TypeOK, pipeVars
  <2>2. k \notin gone
    BY <2>1 DEF SafetyInv, DestroyAccounted
  <2>3. LossAccounted'
    BY <2>1 DEF SafetyInv, LossAccounted, Settling, Mark
  <2>4. DestroyAccounted'
    BY <2>1, <2>2, Constants DEF SafetyInv, DestroyAccounted, Settling, Mark, TypeOK
  <2>5. Accounts'
    BY <2>1, Constants DEF SafetyInv, Accounts
  <2>. QED BY <2>1, <2>3, <2>4, <2>5 DEF SafetyInv, Drains, PlayersKept
<1>2. ASSUME NEW q \in Squadrons, CreateSquadron(q) PROVE SafetyInv'
  <2>1. /\ Mark(q) /\ q \in dirty' /\ q \in Keys /\ q \notin Ships
        /\ \A j \in Keys : j # q => live'[j] = live[j]
        /\ UNCHANGED <<loop, drained, chan, batch, db, loader, remover, gone>>
    BY <1>2, Constants DEF CreateSquadron, Mark, TypeOK, pipeVars
  <2>2. LossAccounted'
    BY <2>1 DEF SafetyInv, LossAccounted, Settling, Mark
  <2>3. DestroyAccounted'
    BY <1>2, <2>1, Constants
       DEF CreateSquadron, Unused, SafetyInv, DestroyAccounted, Settling, Mark, TypeOK
  <2>4. Accounts'
    BY <2>1, Constants DEF SafetyInv, Accounts
  <2>. QED BY <2>1, <2>2, <2>3, <2>4 DEF SafetyInv, Drains, PlayersKept
<1>3. ASSUME NEW k \in Ships \union Squadrons, RemoveOnly(k) PROVE SafetyInv'
  <2>1. k \in Keys /\ k \notin gone
    BY <1>3, Constants DEF RemoveOnly, SafetyInv, DestroyAccounted
  <2>2. LossAccounted' /\ DestroyAccounted'
    BY <1>3, <2>1, Constants
       DEF RemoveOnly, SafetyInv, LossAccounted, DestroyAccounted, Settling, TypeOK, pipeVars
  <2>3. Accounts'
    BY <1>3, <2>1, Constants DEF RemoveOnly, SafetyInv, Accounts, TypeOK, pipeVars
  <2>. QED BY <1>3, <2>2, <2>3 DEF RemoveOnly, SafetyInv, Drains, PlayersKept, pipeVars
<1>4. CASE Stop
  <2>1. PlayersKept'
    BY <1>4, Constants DEF Stop, PlayersKept, Absent, NoWrite
  <2>2. Accounts'
    BY <1>4, Constants DEF Stop, Accounts, IdleLoader
  <2>. QED BY <1>4, <2>1, <2>2, Constants
       DEF Stop, SafetyInv, Drains, LossAccounted, DestroyAccounted
<1>5. CASE UNCHANGED vars
  BY <1>5 DEF vars, SafetyInv, Drains, PlayersKept, Accounts, LossAccounted, DestroyAccounted,
              Settling, pipeVars, memVars, histVars
<1>6. CASE Next
  <2>1. CASE \E k \in Keys : Mutate(k)
    BY <1>1, <2>1
  <2>2. CASE \E q \in Squadrons : CreateSquadron(q)
    BY <1>2, <2>2
  <2>3. CASE \E s \in Ships : Destroy(s)
    BY <2>3, DestroySafety
  <2>4. CASE \E l \in Loaders : Continue(l) \/ (\E p \in Players : Request(l, p))
    BY <2>4, ContinueSafety, RequestSafety
  <2>5. CASE \E k \in Ships \union Squadrons : RemoveOnly(k)
    BY <1>3, <2>5
  <2>6. CASE GameLoop
    BY <2>6, GameLoopSafety
  <2>7. CASE Worker
    BY <2>7, WorkerSafety
  <2>. QED BY <1>4, <1>6, <2>1, <2>2, <2>3, <2>4, <2>5, <2>6, <2>7 DEF Next
<1>. QED BY <1>5, <1>6

\* Types and invariant together hold in every reachable state.
LEMMA Safety == Spec => [](TypeOK /\ SafetyInv)
<1>. QED BY InitType, InitSafety, NextType, NextSafety, PTL DEF Spec

\* A value in memory that does not reach the database is marked, drained, or was
\* lost in one of the three known ways.
THEOREM NothingElseIsLost == Spec => []LossAccounted
<1>. QED BY Safety, PTL DEF SafetyInv

\* A destroyed ship's row goes unless its DeleteShip is still to be sent or was lost.
THEOREM DestroyedShipsGo == Spec => []DestroyAccounted
<1>. QED BY Safety, PTL DEF SafetyInv

-----------------------------------------------------------------------------
(***************************************************************************)
(* ValuesOf, the part of Pending that recurs over the channel.             *)
(***************************************************************************)

HIDE PersistenceAssumption

\* f holds the partial results of ValuesOf up to n.
Partial(k, q, first, f, n) ==
    f = [i \in 0 .. n |-> IF i = 0 THEN first
                          ELSE IF q[i].key = k THEN Append(f[i - 1], q[i].val) ELSE f[i - 1]]

\* There are such partial results, so that ValuesOf is the last of them.
LEMMA PartialExists ==
    ASSUME NEW k, NEW q, NEW first, NEW n \in Nat
    PROVE  \E f : Partial(k, q, first, f, n)
<1>. DEFINE T == {m \in 0 .. n : \E f : Partial(k, q, first, f, m)}
<1>1. 0 \in T
  <2>1. Partial(k, q, first, [i \in 0 .. 0 |-> first], 0)
    BY DEF Partial
  <2>. QED BY <2>1
<1>2. ASSUME NEW m \in 1 .. n, m - 1 \in T PROVE m \in T
  <2>1. PICK f : Partial(k, q, first, f, m - 1)
    BY <1>2
  <2>. DEFINE last == IF q[m].key = k THEN Append(f[m - 1], q[m].val) ELSE f[m - 1]
              g == [i \in 0 .. m |-> IF i = m THEN last ELSE f[i]]
  <2>2. Partial(k, q, first, g, m)
    <3>1. ASSUME NEW i \in 0 .. m
          PROVE  g[i] = IF i = 0 THEN first
                        ELSE IF q[i].key = k THEN Append(g[i - 1], q[i].val) ELSE g[i - 1]
      <4>1. CASE i = m
        BY <4>1
      <4>2. CASE i # m
        <5>1. i \in 0 .. m - 1 /\ (i # 0 => i - 1 \in 0 .. m - 1)
          BY <4>2
        <5>2. f[i] = IF i = 0 THEN first
                     ELSE IF q[i].key = k THEN Append(f[i - 1], q[i].val) ELSE f[i - 1]
          BY <2>1, <5>1 DEF Partial
        <5>. QED BY <4>2, <5>1, <5>2
      <4>. QED BY <4>1, <4>2
    <3>. QED BY <3>1 DEF Partial
  <2>. QED BY <2>2
<1>3. 0 .. n \subseteq T
  <2>. HIDE DEF T
  <2>. QED BY <1>1, <1>2, Upto
<1>. QED BY <1>3

\* What ValuesOf is made of.
Steps(k, q, first, f, n) ==
    /\ f[0] = first
    /\ \A i \in 1 .. n : f[i] = IF q[i].key = k THEN Append(f[i - 1], q[i].val) ELSE f[i - 1]

\* ValuesOf is the last of these steps.
LEMMA ValuesOfSteps ==
    ASSUME NEW k, NEW q, Len(q) \in Nat, NEW first
    PROVE  \E f : Steps(k, q, first, f, Len(q)) /\ ValuesOf(k, q, first) = f[Len(q)]
<1>. DEFINE f == CHOOSE f : Partial(k, q, first, f, Len(q))
<1>1. Partial(k, q, first, f, Len(q))
  BY PartialExists
<1>2. ValuesOf(k, q, first) = f[Len(q)]
  BY DEF ValuesOf, Partial
<1>3. Steps(k, q, first, f, Len(q))
  <2>. HIDE DEF f
  <2>1. 0 \in 0 .. Len(q) /\ \A i \in 1 .. Len(q) : i \in 0 .. Len(q) /\ i # 0
    OBVIOUS
  <2>2. \A i \in 0 .. Len(q) :
          f[i] = IF i = 0 THEN first
                 ELSE IF q[i].key = k THEN Append(f[i - 1], q[i].val) ELSE f[i - 1]
    BY <1>1 DEF Partial
  <2>. QED BY <2>1, <2>2 DEF Steps
<1>. QED BY <1>2, <1>3

\* A command at the end is the last to count.
LEMMA ValuesAppend ==
    ASSUME NEW k, NEW q \in Seq(Cmd), NEW c \in Cmd, NEW first
    PROVE  ValuesOf(k, Append(q, c), first) =
             IF c.key = k THEN Append(ValuesOf(k, q, first), c.val) ELSE ValuesOf(k, q, first)
<1>. DEFINE r == Append(q, c)
<1>0. /\ Len(q) \in Nat /\ Len(r) = Len(q) + 1 /\ r[Len(r)] = c
      /\ \A i \in 1 .. Len(q) : r[i] = q[i]
  OBVIOUS
<1>1. PICK f : Steps(k, q, first, f, Len(q)) /\ ValuesOf(k, q, first) = f[Len(q)]
  BY <1>0, ValuesOfSteps
<1>2. PICK g : Steps(k, r, first, g, Len(r)) /\ ValuesOf(k, r, first) = g[Len(r)]
  <2>1. Len(r) \in Nat
    BY <1>0
  <2>. QED BY <2>1, ValuesOfSteps
<1>. HIDE DEF r
<1>3. 0 .. Len(q) \subseteq {i \in 0 .. Len(q) : g[i] = f[i]}
  <2>. DEFINE T == {i \in 0 .. Len(q) : g[i] = f[i]}
  <2>1. 0 \in T
    BY <1>0, <1>1, <1>2 DEF Steps
  <2>2. ASSUME NEW i \in 1 .. Len(q), i - 1 \in T PROVE i \in T
    <3>1. i \in 1 .. Len(r) /\ r[i] = q[i]
      BY <1>0
    <3>. QED BY <1>0, <1>1, <1>2, <2>2, <3>1 DEF Steps
  <2>. HIDE DEF T
  <2>3. 0 .. Len(q) \subseteq T
    BY <1>0, <2>1, <2>2, Upto
  <2>. QED BY <2>3 DEF T
<1>4. g[Len(q)] = f[Len(q)]
  BY <1>0, <1>3
<1>5. g[Len(r)] = IF c.key = k THEN Append(g[Len(q)], c.val) ELSE g[Len(q)]
  <2>1. Len(r) \in 1 .. Len(r) /\ Len(r) - 1 = Len(q)
    BY <1>0
  <2>. QED BY <1>0, <1>2, <2>1 DEF Steps
<1>. QED BY <1>1, <1>2, <1>4, <1>5 DEF r

\* A command at the front counts like one before all others.
LEMMA ValuesTail ==
    ASSUME NEW k, NEW q \in Seq(Cmd), q # <<>>, NEW first
    PROVE  ValuesOf(k, q, first) =
             ValuesOf(k, Tail(q),
                      IF Head(q).key = k THEN Append(first, Head(q).val) ELSE first)
<1>. DEFINE r == Tail(q)
            head == IF Head(q).key = k THEN Append(first, Head(q).val) ELSE first
<1>0. /\ Len(r) \in Nat /\ Len(q) = Len(r) + 1 /\ Head(q) = q[1]
      /\ \A i \in 1 .. Len(r) : r[i] = q[i + 1]
  OBVIOUS
<1>1. PICK f : Steps(k, q, first, f, Len(q)) /\ ValuesOf(k, q, first) = f[Len(q)]
  <2>1. Len(q) \in Nat
    BY <1>0
  <2>. QED BY <2>1, ValuesOfSteps
<1>2. PICK g : Steps(k, r, head, g, Len(r)) /\ ValuesOf(k, r, head) = g[Len(r)]
  <2>. HIDE DEF r, head
  <2>. QED BY <1>0, ValuesOfSteps
<1>3. f[1] = head
  <2>1. 1 \in 1 .. Len(q)
    BY <1>0
  <2>. QED BY <1>0, <1>1, <2>1 DEF Steps
<1>. HIDE DEF r, head
<1>4. 0 .. Len(r) \subseteq {i \in 0 .. Len(r) : g[i] = f[i + 1]}
  <2>. DEFINE T == {i \in 0 .. Len(r) : g[i] = f[i + 1]}
  <2>1. 0 \in T
    BY <1>0, <1>2, <1>3 DEF Steps
  <2>2. ASSUME NEW i \in 1 .. Len(r), i - 1 \in T PROVE i \in T
    <3>1. i + 1 \in 1 .. Len(q) /\ r[i] = q[i + 1] /\ (i + 1) - 1 = i /\ (i - 1) + 1 = i
      BY <1>0
    <3>2. g[i] = IF q[i + 1].key = k THEN Append(g[i - 1], q[i + 1].val) ELSE g[i - 1]
      BY <1>2, <3>1 DEF Steps
    <3>3. f[i + 1] = IF q[i + 1].key = k THEN Append(f[i], q[i + 1].val) ELSE f[i]
      BY <1>1, <3>1 DEF Steps
    <3>. QED BY <2>2, <3>1, <3>2, <3>3
  <2>. HIDE DEF T
  <2>3. 0 .. Len(r) \subseteq T
    BY <1>0, <2>1, <2>2, Upto
  <2>. QED BY <2>3 DEF T
<1>5. g[Len(r)] = f[Len(q)]
  BY <1>0, <1>4
<1>. QED BY <1>1, <1>2, <1>5 DEF r, head

\* Without commands for the key there are the first values only.
LEMMA ValuesNone ==
    ASSUME NEW k, NEW q \in Seq(Cmd), \A i \in 1 .. Len(q) : q[i].key # k, NEW first
    PROVE  ValuesOf(k, q, first) = first
<1>0. Len(q) \in Nat
  OBVIOUS
<1>1. PICK f : Steps(k, q, first, f, Len(q)) /\ ValuesOf(k, q, first) = f[Len(q)]
  BY <1>0, ValuesOfSteps
<1>. DEFINE T == {i \in 0 .. Len(q) : f[i] = first}
<1>2. 0 \in T
  <2>1. 0 \in 0 .. Len(q) /\ f[0] = first
    BY <1>0, <1>1 DEF Steps
  <2>. QED BY <2>1
<1>3. ASSUME NEW i \in 1 .. Len(q), i - 1 \in T PROVE i \in T
  BY <1>1, <1>3 DEF Steps
<1>4. 0 .. Len(q) \subseteq T
  <2>. HIDE DEF T
  <2>. QED BY <1>0, <1>2, <1>3, Upto
<1>5. Len(q) \in T
  <2>. HIDE DEF T
  <2>. QED BY <1>0, <1>4
<1>. QED BY <1>1, <1>5

\* The first of the first values is the oldest of all, the others follow in order.
LEMMA ValuesFirst ==
    ASSUME NEW k, NEW q \in Seq(Cmd), NEW first \in Seq(Version), first # <<>>
    PROVE  /\ ValuesOf(k, q, first) # <<>>
           /\ Head(ValuesOf(k, q, first)) = Head(first)
           /\ Tail(ValuesOf(k, q, first)) = ValuesOf(k, q, Tail(first))
<1>0. Len(q) \in Nat
  OBVIOUS
<1>1. PICK f : Steps(k, q, first, f, Len(q)) /\ ValuesOf(k, q, first) = f[Len(q)]
  BY <1>0, ValuesOfSteps
<1>2. PICK g : Steps(k, q, Tail(first), g, Len(q)) /\ ValuesOf(k, q, Tail(first)) = g[Len(q)]
  BY <1>0, ValuesOfSteps
<1>. DEFINE T == {i \in 0 .. Len(q) : /\ f[i] \in Seq(Version) /\ f[i] # <<>>
                                      /\ Head(f[i]) = Head(first) /\ Tail(f[i]) = g[i]}
<1>3. 0 \in T
  <2>1. 0 \in 0 .. Len(q) /\ f[0] = first /\ g[0] = Tail(first)
    BY <1>0, <1>1, <1>2 DEF Steps
  <2>. QED BY <2>1
<1>4. ASSUME NEW i \in 1 .. Len(q), i - 1 \in T PROVE i \in T
  <2>1. /\ f[i] = IF q[i].key = k THEN Append(f[i - 1], q[i].val) ELSE f[i - 1]
        /\ g[i] = IF q[i].key = k THEN Append(g[i - 1], q[i].val) ELSE g[i - 1]
    BY <1>1, <1>2 DEF Steps
  <2>2. CASE q[i].key = k
    <3>. DEFINE s == f[i - 1]
                v == q[i].val
    <3>1. s \in Seq(Version) /\ s # <<>> /\ Head(s) = Head(first) /\ Tail(s) = g[i - 1] /\ v \in Version
      <4>1. q[i] \in Cmd
        OBVIOUS
      <4>. QED BY <1>4, <4>1 DEF Cmd
    <3>. HIDE DEF s, v
    <3>2. Append(s, v) \in Seq(Version) /\ Append(s, v) # <<>> /\ Head(Append(s, v)) = Head(s)
      BY <3>1
    <3>3. Tail(Append(s, v)) = Append(Tail(s), v)
      BY <3>1
    <3>4. f[i] = Append(s, v) /\ g[i] = Append(Tail(s), v)
      BY <2>1, <2>2, <3>1 DEF s, v
    <3>5. i \in 0 .. Len(q)
      BY <1>0
    <3>. QED BY <3>1, <3>2, <3>3, <3>4, <3>5
  <2>3. CASE q[i].key # k
    BY <1>4, <2>1, <2>3
  <2>. QED BY <2>2, <2>3
<1>5. 0 .. Len(q) \subseteq T
  <2>. HIDE DEF T
  <2>. QED BY <1>0, <1>3, <1>4, Upto
<1>6. Len(q) \in T
  <2>. HIDE DEF T
  <2>. QED BY <1>0, <1>5
<1>. QED BY <1>1, <1>2, <1>6

-----------------------------------------------------------------------------
(***************************************************************************)
(* The pipeline implements WriteOrder.                                     *)
(***************************************************************************)

\* The keys of different players, of ships and of squadrons differ.
LEMMA KeysDiffer ==
    /\ \A p, r \in Players : ShipOf[p] # r /\ (p # r => ShipOf[p] # ShipOf[r])
    /\ \A p \in Players, q \in Squadrons : q # p /\ q # ShipOf[p]
    /\ \A p \in Players, s \in Ships : s # p
<1>. \A p \in Players : ShipOf[p] \in Ships
  BY PersistenceAssumption
<1>. QED BY PersistenceAssumption

\* Nothing of k is in memory or on its way out.
Untouched(k) ==
    /\ live[k] = Absent /\ batch[k] = NoWrite
    /\ \A i \in 1 .. Len(chan) : chan[i].key # k

\* Of a player without a row, and of his ship, nothing is in memory or on its way.
NotYet ==
    \A p \in Players : db[p] = Absent =>
        /\ Untouched(p) /\ Untouched(ShipOf[p])
        /\ remover[ShipOf[p]] # "removed"

\* A key that a step neither stores nor sends stays untouched.
LEMMA StaysUntouched ==
    ASSUME TypeOK, NEW k \in Keys, Untouched(k),
           live'[k] = Absent, batch'[k] = NoWrite,
           \/ UNCHANGED chan
           \/ chan' = <<>>
           \/ \E c \in Cmd : Send(c) /\ c.key # k
    PROVE  Untouched(k)'
<1>1. CASE UNCHANGED chan
  BY <1>1 DEF Untouched
<1>2. CASE chan' = <<>>
  BY <1>2 DEF Untouched
<1>3. ASSUME NEW c \in Cmd, Send(c), c.key # k PROVE Untouched(k)'
  <2>1. CASE Len(chan) < ChanCap
    <3>1. chan' = Append(chan, c) /\ chan \in Seq(Cmd)
      BY <1>3, <2>1 DEF Send, TypeOK
    <3>. QED BY <1>3, <3>1 DEF Untouched
  <2>2. CASE ~(Len(chan) < ChanCap)
    BY <1>3, <2>2 DEF Send, Untouched
  <2>. QED BY <2>1, <2>2
<1>. QED BY <1>1, <1>2, <1>3

\* A step that gives no player a row and neither stores nor sends anything of one
\* without a row.
LEMMA NotYetKept ==
    ASSUME TypeOK, NotYet,
           \A p \in Players : db'[p] = Absent =>
               /\ db[p] = Absent
               /\ remover'[ShipOf[p]] # "removed"
               /\ \A k \in {p, ShipOf[p]} :
                     /\ live'[k] = Absent /\ batch'[k] = NoWrite
                     /\ \/ UNCHANGED chan
                        \/ chan' = <<>>
                        \/ \E c \in Cmd : Send(c) /\ c.key # k
    PROVE  NotYet'
<1>. SUFFICES ASSUME NEW p \in Players, db'[p] = Absent
              PROVE  /\ Untouched(p)' /\ Untouched(ShipOf[p])'
                     /\ remover'[ShipOf[p]] # "removed"
  BY DEF NotYet
<1>1. p \in Keys /\ ShipOf[p] \in Keys /\ Untouched(p) /\ Untouched(ShipOf[p])
  BY Constants DEF NotYet
<1>2. Untouched(p)'
  BY <1>1, StaysUntouched
<1>3. Untouched(ShipOf[p])'
  BY <1>1, StaysUntouched
<1>. QED BY <1>2, <1>3

\* There is nobody at the start.
LEMMA NotYetInit == Init => NotYet
BY Constants DEF Init, NotYet, Untouched

\* The worker's receipt of a command of another key.
LEMMA ReceiveUntouched ==
    ASSUME TypeOK, NEW k \in Keys, Untouched(k), WorkerRecv
    PROVE  Untouched(k)'
<1>1. /\ chan \in Seq(Cmd) /\ chan # <<>> /\ chan' = Tail(chan) /\ UNCHANGED live
      /\ batch' = [batch EXCEPT ![Head(chan).key] = Head(chan).val]
  BY DEF WorkerRecv, ApplyCommand, TypeOK, memVars
<1>2. Head(chan) = chan[1] /\ 1 \in 1 .. Len(chan)
  BY <1>1
<1>3. batch'[k] = NoWrite
  BY <1>1, <1>2 DEF Untouched, TypeOK
<1>4. \A i \in 1 .. Len(chan') : chan'[i].key # k
  <2>1. \A i \in 1 .. Len(chan') : i + 1 \in 1 .. Len(chan) /\ chan'[i] = chan[i + 1]
    BY <1>1
  <2>. QED BY <2>1 DEF Untouched
<1>. QED BY <1>1, <1>3, <1>4 DEF Untouched

\* Every step keeps those without an account untouched.
LEMMA NotYetNext == TypeOK /\ SafetyInv /\ NotYet /\ [Next]_vars => NotYet'
<1>. SUFFICES ASSUME TypeOK, SafetyInv, NotYet, [Next]_vars PROVE NotYet'
  OBVIOUS
<1>0. \A p \in Players : db[p] = Absent =>
        /\ \A l \in Loaders : loader[l].acct # p
        /\ \A k \in {p, ShipOf[p]} : live[k] = Absent /\ batch[k] = NoWrite
        /\ remover[ShipOf[p]] # "removed"
  BY DEF SafetyInv, Accounts, NotYet, Untouched
<1>1. ASSUME NEW k \in Keys, Mutate(k) PROVE NotYet'
  BY <1>0, <1>1, NotYetKept DEF Mutate, pipeVars, TypeOK
<1>2. ASSUME NEW q \in Squadrons, CreateSquadron(q) PROVE NotYet'
  <2>1. \A p \in Players : p # q /\ ShipOf[p] # q
    BY KeysDiffer
  <2>. QED BY <1>0, <1>2, <2>1, NotYetKept DEF CreateSquadron, pipeVars, TypeOK
<1>3. ASSUME NEW k \in Ships \union Squadrons, RemoveOnly(k) PROVE NotYet'
  BY <1>0, <1>3, NotYetKept DEF RemoveOnly, pipeVars, TypeOK
<1>4. ASSUME NEW s \in Ships, Destroy(s) PROVE NotYet'
  <2>1. CASE DestroyUnmark(s)
    BY <1>0, <2>1, NotYetKept, Constants DEF DestroyUnmark, pipeVars, TypeOK
  <2>2. CASE DestroyRemove(s)
    BY <1>0, <2>2, NotYetKept, Constants DEF DestroyRemove, pipeVars, TypeOK
  <2>3. CASE DestroySend(s)
    <3>. DEFINE c == [key |-> s, val |-> Absent]
    <3>1. c \in Cmd /\ c.key = s /\ Send(c)
      BY <2>3, Constants DEF DestroySend, Cmd
    <3>2. \A p \in Players : db[p] = Absent => s # p /\ s # ShipOf[p]
      BY <1>0, <2>3, KeysDiffer DEF DestroySend
    <3>3. /\ UNCHANGED <<live, batch, db>>
          /\ \A p \in Players : db[p] = Absent => remover'[ShipOf[p]] # "removed"
      BY <1>0, <2>3, Constants DEF DestroySend, memVars, TypeOK
    <3>. HIDE DEF c
    <3>. QED BY <1>0, <3>1, <3>2, <3>3, NotYetKept
  <2>. QED BY <1>4, <2>1, <2>2, <2>3 DEF Destroy
<1>5. CASE GameLoop
  <2>1. CASE DrainCollect \/ DrainClear
    BY <1>0, <2>1, NotYetKept DEF DrainCollect, DrainClear, memVars, pipeVars
  <2>2. ASSUME NEW k \in Keys, PersistOne(k) PROVE NotYet'
    <3>1. UNCHANGED <<live, batch, db, remover>>
      BY <2>2 DEF PersistOne, memVars
    <3>2. CASE live[k] = Absent
      BY <1>0, <2>2, <3>1, <3>2, NotYetKept DEF PersistOne
    <3>3. CASE live[k] # Absent
      <4>. DEFINE c == [key |-> k, val |-> live[k]]
      <4>1. c \in Cmd /\ c.key = k /\ Send(c)
        BY <2>2, <3>3 DEF PersistOne, Cmd, TypeOK
      <4>2. \A p \in Players : db[p] = Absent => k # p /\ k # ShipOf[p]
        BY <1>0, <3>3
      <4>. HIDE DEF c
      <4>. QED BY <1>0, <3>1, <4>1, <4>2, NotYetKept
    <3>. QED BY <3>2, <3>3
  <2>. QED BY <1>5, <2>1, <2>2 DEF GameLoop
<1>6. CASE Worker
  <2>1. CASE WorkerRecv
    <3>1. \A p \in Players : p \in Keys /\ ShipOf[p] \in Keys
      BY Constants
    <3>2. UNCHANGED <<db, remover>>
      BY <2>1 DEF WorkerRecv
    <3>. QED BY <2>1, <3>1, <3>2, ReceiveUntouched DEF NotYet
  <2>2. CASE WorkerDeadline
    BY <1>0, <2>2, NotYetKept DEF WorkerDeadline, memVars
  <2>3. ASSUME NEW k \in Keys, FlushOk(k) \/ FlushErr(k) PROVE NotYet'
    <3>1. /\ batch' = [batch EXCEPT ![k] = NoWrite] /\ batch[k] # NoWrite
          /\ db' = db \/ db' = [db EXCEPT ![k] = batch[k]]
          /\ UNCHANGED <<live, chan, remover>>
      BY <2>3 DEF FlushOk, FlushErr, FlushTurn, memVars
    <3>2. \A p \in Players : db'[p] = Absent => db[p] = Absent
      BY <3>1, Constants DEF SafetyInv, PlayersKept, TypeOK
    <3>. QED BY <1>0, <3>1, <3>2, NotYetKept, Constants DEF TypeOK
  <2>. QED BY <1>6, <2>1, <2>2, <2>3 DEF Worker, Flush
<1>7. ASSUME NEW l \in Loaders, Continue(l) PROVE NotYet'
  <2>1. loader[l].acct \in Players
    <3>1. loader[l].pc # "idle"
      BY <1>7 DEF Continue, MarkPlayer, StorePlayer, CheckShip, ReadShip, MarkShip, StoreShip,
             RegMarkShip, RegStoreShip, MarkStep, StoreStep, LoaderAt
    <3>. QED BY <3>1, Serving
  <2>2. UNCHANGED <<chan, batch, db, remover>>
    BY <1>7 DEF Continue, MarkPlayer, StorePlayer, CheckShip, ReadShip, MarkShip, StoreShip,
           RegMarkShip, RegStoreShip, MarkStep, StoreStep, pipeVars
  <2>3. \/ UNCHANGED live
        \/ \E k \in {loader[l].acct, ShipOf[loader[l].acct]} : \E v : live' = [live EXCEPT ![k] = v]
    BY <1>7 DEF Continue, MarkPlayer, StorePlayer, CheckShip, ReadShip, MarkShip, StoreShip,
           RegMarkShip, RegStoreShip, MarkStep, StoreStep, Store, memVars
  <2>4. \A p \in Players : db[p] = Absent =>
          p # loader[l].acct /\ ShipOf[p] # ShipOf[loader[l].acct]
          /\ p # ShipOf[loader[l].acct] /\ ShipOf[p] # loader[l].acct
    BY <1>0, <2>1, KeysDiffer
  <2>5. \A p \in Players : db[p] = Absent => \A k \in {p, ShipOf[p]} : live'[k] = Absent
    <3>. SUFFICES ASSUME NEW p \in Players, db[p] = Absent, NEW k \in {p, ShipOf[p]}
                  PROVE  live'[k] = Absent
      OBVIOUS
    <3>1. k \in Keys /\ live[k] = Absent
      BY <1>0, Constants
    <3>2. k \notin {loader[l].acct, ShipOf[loader[l].acct]}
      BY <2>4
    <3>. QED BY <2>3, <3>1, <3>2 DEF TypeOK
  <2>. QED BY <1>0, <2>2, <2>5, NotYetKept
<1>8. ASSUME NEW l \in Loaders, NEW p \in Players, Request(l, p) PROVE NotYet'
  <2>1. CASE LoadPlayer(l, p)
    BY <1>0, <2>1, NotYetKept DEF LoadPlayer, memVars, pipeVars
  <2>2. CASE Register(l, p)
    <3>1. /\ UNCHANGED <<live, chan, batch, remover>>
          /\ \A r \in Players : db'[r] = Absent => db[r] = Absent
      BY <2>2, Constants DEF Register, memVars, TypeOK
    <3>. QED BY <1>0, <3>1, NotYetKept
  <2>. QED BY <1>8, <2>1, <2>2 DEF Request
<1>9. CASE Stop
  <2>1. \A p \in Players : p \in Keys /\ ShipOf[p] \in Keys /\ ShipOf[p] \in Ships
    BY Constants
  <2>. QED BY <1>9, <2>1 DEF Stop, NotYet, Untouched
<1>10. CASE UNCHANGED vars
  BY <1>10 DEF vars, pipeVars, memVars, histVars, NotYet, Untouched
<1>. QED
  BY <1>1, <1>2, <1>3, <1>4, <1>5, <1>6, <1>7, <1>8, <1>9, <1>10 DEF Next

\* A step as WriteOrder allows it for one key.
InOrder(k) == UNCHANGED <<db[k], Pending(k)>> \/ WO(k)!Next

\* Pending after a step.
LEMMA PendingNext ==
    ASSUME NEW k
    PROVE  Pending(k)' = ValuesOf(k, chan', IF batch'[k] = NoWrite THEN <<>> ELSE <<batch'[k]>>)
BY DEF Pending, Batched

\* A step that leaves row, batch and channel alone.
LEMMA StepAside ==
    ASSUME NEW k, UNCHANGED <<chan, batch[k], db[k]>>
    PROVE  InOrder(k)
<1>1. Pending(k)' = Pending(k)
  BY PendingNext DEF Pending, Batched
<1>. QED BY <1>1 DEF InOrder

\* A command that is sent is submitted for its key and nothing to others.
LEMMA SendSubmits ==
    ASSUME TypeOK, NEW c \in Cmd, Send(c), UNCHANGED <<batch, db>>, NEW k
    PROVE  InOrder(k)
<1>. DEFINE first == Batched(k)
<1>1. CASE Len(chan) < ChanCap
  <2>1. chan' = Append(chan, c) /\ chan \in Seq(Cmd)
    BY <1>1 DEF Send, TypeOK
  <2>2. Pending(k)' = ValuesOf(k, Append(chan, c), first) /\ Pending(k) = ValuesOf(k, chan, first)
    BY <2>1, PendingNext DEF Pending, Batched
  <2>. HIDE DEF first
  <2>3. Pending(k)' = IF c.key = k THEN Append(Pending(k), c.val) ELSE Pending(k)
    BY <2>1, <2>2, ValuesAppend
  <2>4. c.val \in Version
    BY DEF Cmd
  <2>5. CASE c.key = k
    BY <2>3, <2>4, <2>5 DEF InOrder, WO!Next, WO!Submit
  <2>. QED BY <2>3, <2>5 DEF InOrder
<1>2. CASE ~(Len(chan) < ChanCap)
  BY <1>2, StepAside DEF Send
<1>. QED BY <1>1, <1>2

\* The oldest snapshot of a key with a batched write.
LEMMA BatchedFirst ==
    ASSUME TypeOK, NEW k \in Keys, batch[k] # NoWrite
    PROVE  /\ Pending(k) # <<>>
           /\ Head(Pending(k)) = batch[k]
           /\ Tail(Pending(k)) = ValuesOf(k, chan, <<>>)
<1>. DEFINE first == <<batch[k]>>
<1>1. chan \in Seq(Cmd) /\ batch[k] \in Version
  BY DEF TypeOK
<1>2. first \in Seq(Version) /\ first # <<>> /\ Head(first) = batch[k] /\ Tail(first) = <<>>
  BY <1>1
<1>3. Pending(k) = ValuesOf(k, chan, first)
  BY DEF Pending, Batched
<1>4. /\ ValuesOf(k, chan, first) # <<>>
      /\ Head(ValuesOf(k, chan, first)) = Head(first)
      /\ Tail(ValuesOf(k, chan, first)) = ValuesOf(k, chan, Tail(first))
  <2>. HIDE DEF first
  <2>. QED BY <1>1, <1>2, ValuesFirst
<1>5. Head(first) = batch[k] /\ Tail(first) = <<>>
  BY <1>2
<1>. HIDE DEF first
<1>. QED BY <1>3, <1>4, <1>5

\* The worker takes a command into the batch: a snapshot it replaces is dropped.
LEMMA ReceiveDrops ==
    ASSUME TypeOK, WorkerRecv, NEW k \in Keys
    PROVE  InOrder(k)
<1>. DEFINE head == Head(chan)
<1>1. /\ chan \in Seq(Cmd) /\ chan # <<>> /\ chan' = Tail(chan) /\ UNCHANGED db
      /\ batch' = [batch EXCEPT ![head.key] = head.val]
      /\ batch \in [Keys -> Version \union {NoWrite}] /\ NoWrite \notin Version
  BY Constants DEF WorkerRecv, ApplyCommand, TypeOK
<1>2. head.key \in Keys /\ head.val \in Version
  <2>1. head \in Cmd
    BY <1>1
  <2>. QED BY <2>1 DEF Cmd
<1>. DEFINE first == Batched(k)
            next  == IF head.key = k THEN Append(first, head.val) ELSE first
<1>3. Pending(k) = ValuesOf(k, Tail(chan), next)
  <2>1. Pending(k) = ValuesOf(k, chan, first)
    BY DEF Pending
  <2>. HIDE DEF first
  <2>. QED BY <1>1, <2>1, ValuesTail
<1>4. Pending(k)' = ValuesOf(k, Tail(chan), IF batch'[k] = NoWrite THEN <<>> ELSE <<batch'[k]>>)
  BY <1>1, PendingNext
<1>. HIDE DEF head
<1>5. CASE head.key # k
  <2>1. Pending(k)' = Pending(k)
    BY <1>1, <1>2, <1>3, <1>4, <1>5 DEF Batched
  <2>. QED BY <1>1, <2>1 DEF InOrder
<1>6. CASE head.key = k /\ batch[k] = NoWrite
  <2>1. batch'[k] = head.val /\ head.val # NoWrite
    BY <1>1, <1>2, <1>6
  <2>2. next = <<head.val>>
    BY <1>6 DEF Batched
  <2>. HIDE DEF next
  <2>3. Pending(k)' = Pending(k)
    BY <1>3, <1>4, <2>1, <2>2
  <2>. QED BY <1>1, <2>3 DEF InOrder
<1>7. CASE head.key = k /\ batch[k] # NoWrite
  <2>1. batch'[k] = head.val /\ head.val # NoWrite /\ batch[k] \in Version
    BY <1>1, <1>2, <1>7
  <2>2. next = Append(<<batch[k]>>, head.val)
    BY <1>7 DEF Batched
  <2>3. <<batch[k]>> \in Seq(Version) /\ <<batch[k]>> # <<>> /\ Tail(<<batch[k]>>) = <<>>
    BY <2>1
  <2>4. next \in Seq(Version) /\ next # <<>> /\ Tail(next) = <<head.val>>
    <3>. DEFINE old == <<batch[k]>>
    <3>1. next = Append(old, head.val) /\ old \in Seq(Version) /\ old # <<>> /\ Tail(old) = <<>>
      BY <2>2, <2>3
    <3>. HIDE DEF next, old
    <3>2. next \in Seq(Version) /\ next # <<>>
      BY <1>2, <3>1
    <3>3. Tail(next) = Append(Tail(old), head.val)
      BY <1>2, <3>1
    <3>4. Append(<<>>, head.val) = <<head.val>>
      OBVIOUS
    <3>. QED BY <3>1, <3>2, <3>3, <3>4
  <2>5. Tail(chan) \in Seq(Cmd)
    BY <1>1
  <2>. HIDE DEF next
  <2>6. Pending(k) # <<>> /\ Tail(Pending(k)) = ValuesOf(k, Tail(chan), <<head.val>>)
    BY <1>3, <2>4, <2>5, ValuesFirst
  <2>7. Pending(k)' = Tail(Pending(k))
    BY <1>4, <2>1, <2>6
  <2>. QED BY <1>1, <2>6, <2>7 DEF InOrder, WO!Next, WO!Drop
<1>. QED BY <1>5, <1>6, <1>7

\* flush_batch writes the oldest snapshot of its key or gives it up.
LEMMA FlushWrites ==
    ASSUME TypeOK, NEW f \in Keys, Flush(f), NEW k \in Keys
    PROVE  InOrder(k)
<1>1. /\ batch[f] # NoWrite /\ batch' = [batch EXCEPT ![f] = NoWrite] /\ UNCHANGED chan
      /\ db' = db \/ db' = [db EXCEPT ![f] = batch[f]]
      /\ batch \in [Keys -> Version \union {NoWrite}] /\ db \in [Keys -> Version]
  BY DEF Flush, FlushOk, FlushErr, FlushTurn, TypeOK
<1>2. CASE k # f
  BY <1>1, <1>2, StepAside
<1>3. CASE k = f
  <2>1. /\ Pending(k) # <<>> /\ Head(Pending(k)) = batch[k]
        /\ Pending(k)' = Tail(Pending(k))
    BY <1>1, <1>3, BatchedFirst, PendingNext
  <2>2. db'[k] = db[k] \/ db'[k] = batch[k]
    BY <1>1, <1>3
  <2>. QED BY <2>1, <2>2 DEF InOrder, WO!Next, WO!Write, WO!Drop
<1>. QED BY <1>2, <1>3

\* Nothing is pending for a key that is untouched.
LEMMA NothingPending ==
    ASSUME TypeOK, NEW k, Untouched(k)
    PROVE  Pending(k) = <<>>
<1>1. Batched(k) = <<>> /\ chan \in Seq(Cmd)
  BY DEF Untouched, Batched, TypeOK
<1>. QED BY <1>1, ValuesNone DEF Untouched, Pending

\* Every step moves every key as WriteOrder does.
LEMMA StepInOrder ==
    TypeOK /\ NotYet /\ [Next]_vars => [\A k \in Keys : InOrder(k)]_vars
<1>. SUFFICES ASSUME TypeOK, NotYet, Next, NEW k \in Keys PROVE InOrder(k)
  OBVIOUS
<1>1. CASE \/ \E j \in Keys : Mutate(j)
           \/ \E q \in Squadrons : CreateSquadron(q)
           \/ \E j \in Ships \union Squadrons : RemoveOnly(j)
  BY <1>1, StepAside DEF Mutate, CreateSquadron, RemoveOnly, pipeVars
<1>2. ASSUME NEW s \in Ships, Destroy(s) PROVE InOrder(k)
  <2>1. CASE DestroyUnmark(s) \/ DestroyRemove(s)
    BY <2>1, StepAside DEF DestroyUnmark, DestroyRemove, pipeVars
  <2>2. CASE DestroySend(s)
    <3>. DEFINE c == [key |-> s, val |-> Absent]
    <3>1. c \in Cmd /\ Send(c) /\ UNCHANGED <<batch, db>>
      BY <2>2, Constants DEF DestroySend, Cmd
    <3>. HIDE DEF c
    <3>. QED BY <3>1, SendSubmits
  <2>. QED BY <1>2, <2>1, <2>2 DEF Destroy
<1>3. CASE GameLoop
  <2>1. CASE DrainCollect \/ DrainClear
    BY <2>1, StepAside DEF DrainCollect, DrainClear, pipeVars
  <2>2. ASSUME NEW j \in Keys, PersistOne(j) PROVE InOrder(k)
    <3>1. UNCHANGED <<batch, db>>
      BY <2>2 DEF PersistOne
    <3>2. CASE live[j] = Absent
      BY <2>2, <3>1, <3>2, StepAside DEF PersistOne
    <3>3. CASE live[j] # Absent
      <4>. DEFINE c == [key |-> j, val |-> live[j]]
      <4>1. c \in Cmd /\ Send(c)
        BY <2>2, <3>3 DEF PersistOne, Cmd, TypeOK
      <4>. HIDE DEF c
      <4>. QED BY <3>1, <4>1, SendSubmits
    <3>. QED BY <3>2, <3>3
  <2>. QED BY <1>3, <2>1, <2>2 DEF GameLoop
<1>4. CASE Worker
  <2>1. CASE WorkerDeadline
    BY <2>1, StepAside DEF WorkerDeadline
  <2>. QED BY <1>4, <2>1, ReceiveDrops, FlushWrites DEF Worker
<1>5. ASSUME NEW l \in Loaders, Continue(l) PROVE InOrder(k)
  BY <1>5, StepAside
     DEF Continue, MarkPlayer, StorePlayer, CheckShip, ReadShip, MarkShip, StoreShip,
         RegMarkShip, RegStoreShip, MarkStep, StoreStep, pipeVars
<1>6. ASSUME NEW l \in Loaders, NEW p \in Players, LoadPlayer(l, p) PROVE InOrder(k)
  BY <1>6, StepAside DEF LoadPlayer, pipeVars
<1>7. ASSUME NEW l \in Loaders, NEW p \in Players, Register(l, p) PROVE InOrder(k)
  <2>1. /\ db[p] = Absent /\ db[ShipOf[p]] = Absent /\ UNCHANGED <<chan, batch>>
        /\ db' = [db EXCEPT ![p] = version + 1, ![ShipOf[p]] = version + 1]
        /\ version + 1 \in Version
        /\ db \in [Keys -> Version]
    BY <1>7, Constants DEF Register, TypeOK
  <2>2. CASE k \notin {p, ShipOf[p]}
    BY <2>1, <2>2, StepAside
  <2>3. CASE k \in {p, ShipOf[p]}
    <3>1. Untouched(k) /\ db[k] = Absent /\ db'[k] = version + 1
      BY <2>1, <2>3 DEF NotYet
    <3>2. Pending(k) = <<>>
      BY <3>1, NothingPending
    <3>3. Pending(k)' = Pending(k)
      BY <2>1, PendingNext DEF Pending, Batched
    <3>. QED BY <2>1, <3>1, <3>2, <3>3 DEF InOrder, WO!Next, WO!Create
  <2>. QED BY <2>2, <2>3
<1>8. CASE Stop
  <2>1. chan' = <<>> /\ batch'[k] = NoWrite /\ UNCHANGED db
    BY <1>8 DEF Stop
  <2>2. ValuesOf(k, <<>>, <<>>) = <<>>
    <3>1. <<>> \in Seq(Cmd) /\ \A i \in 1 .. Len(<<>>) : <<>>[i].key # k
      OBVIOUS
    <3>. QED BY <3>1, ValuesNone
  <2>3. Pending(k)' = <<>>
    BY <2>1, <2>2, PendingNext
  <2>. QED BY <2>1, <2>3 DEF InOrder, WO!Next, WO!Stop
<1>. QED BY <1>1, <1>2, <1>3, <1>4, <1>5, <1>6, <1>7, <1>8 DEF Next, Request

\* The channel, the batch and flush_batch implement WriteOrder for every key: the
\* snapshots of an entity reach its row in the order the game loop took them.
THEOREM RowsFollowTheGame == Spec => WritesInOrder
<1>1. Init => \A k \in Keys : WO(k)!Init
  <2>. SUFFICES ASSUME Init, NEW k \in Keys PROVE WO(k)!Init
    OBVIOUS
  <2>1. Untouched(k) /\ db[k] = Absent
    BY DEF Init, Untouched
  <2>. QED BY <2>1, InitType, NothingPending DEF WO!Init
<1>2. Spec => [](TypeOK /\ SafetyInv /\ NotYet)
  BY InitType, InitSafety, NotYetInit, NextType, NextSafety, NotYetNext, PTL DEF Spec
<1>. QED BY <1>1, <1>2, StepInOrder, PTL DEF Spec, WritesInOrder, InOrder
=============================================================================

------------------------------ MODULE Persistence ------------------------------
(***************************************************************************)
(* The write-behind persistence of the server: TrackedDashMap marks the    *)
(* keys whose value changed, the game loop drains the marks once per tick  *)
(* and sends a snapshot of each value over a bounded channel, a worker     *)
(* coalesces the commands into a batch and flushes the batch to the        *)
(* database.  Requests (login, WebSocket authentication, registration)     *)
(* load rows back into memory, scripts mutate and destroy, and the process *)
(* may stop at any point.                                                  *)
(*                                                                         *)
(* A value is abstracted to a version: 0 is "no value", and every change   *)
(* of a value in memory takes a version never used before; the online flag *)
(* that a login sets is not part of it.  Only player ships are keys:       *)
(* persist_dirty_entities skips the other ships.                           *)
(***************************************************************************)
EXTENDS Integers, Sequences, FiniteSets

CONSTANTS
    Players,      \* keys of GameState::player_data
    Ships,        \* keys of GameState::ships that are player ships
    Squadrons,    \* keys of GameState::squadrons
    ShipOf,       \* the active ship of each player
    Loaders,      \* tasks that serve a login, an authentication, a registration
    Nobody,       \* no account
    ChanCap,      \* capacity of the mpsc channel (1000 in the code)
    MaxBatch,     \* max_batch_size (50 in the code)
    MaxVersion,   \* bound: versions a behaviour may create
    MaxStops      \* bound: times the process may stop

Keys == Players \union Ships \union Squadrons

ASSUME PersistenceAssumption ==
    /\ Players \intersect Ships = {}
    /\ (Players \union Ships) \intersect Squadrons = {}
    /\ ShipOf \in [Players -> Ships]
    /\ \A p, r \in Players : p # r => ShipOf[p] # ShipOf[r]
    /\ Nobody \notin Players
    /\ ChanCap \in Nat \ {0}
    /\ MaxBatch \in Nat \ {0}
    /\ MaxVersion \in Nat \ {0}
    /\ MaxStops \in Nat

Absent  == 0        \* no entry in the map, no row, or a DeleteShip command
NoWrite == -1       \* no entry for the key in the batch
Version == 0 .. MaxVersion
Cmd     == [key : Keys, val : Version]

\* The maps in the order in which persist_dirty_entities drains them.
MapNo == 1 .. 3
MapOf(m) == CASE m = 1 -> Ships [] m = 2 -> Players [] m = 3 -> Squadrons

VARIABLES
    live,      \* the maps in memory
    dirty,     \* the dirty sets of the three TrackedDashMaps
    loop,      \* the game loop inside persist_dirty_entities: its pc and map
    drained,   \* keys drain_dirty returned that the loop has not handled yet
    chan,      \* the command channel
    batch,     \* the worker's WriteBatch
    flushing,  \* the worker is inside flush_batch
    db,        \* the database
    loader,    \* the request tasks
    remover,   \* per ship, how far apply_mutation's DestroyEntity has come
    version,   \* newest version in use
    stops,     \* times the process has stopped
    \* History: what was lost, and where, until the key is marked again.
    missed,    \* keys whose latest change neither dirty nor drained holds
    lost,      \* keys whose latest command the channel or the database refused
    gone       \* ships destroyed by DestroyEntity and not loaded since

memVars  == <<live, dirty>>
pipeVars == <<chan, batch, flushing, db>>
histVars == <<missed, lost, gone>>
vars == <<live, dirty, loop, drained, chan, batch, flushing, db, loader,
          remover, version, stops, missed, lost, gone>>

LoaderPc == {"idle", "markPlayer", "storePlayer", "checkShip", "readShip",
             "markShip", "storeShip", "regMarkShip", "regStoreShip"}
IdleLoader == [pc |-> "idle", acct |-> Nobody, copy |-> Absent]

Init ==
    /\ live = [k \in Keys |-> Absent]
    /\ dirty = {}
    /\ loop = [pc |-> "run", map |-> 1]
    /\ drained = {}
    /\ chan = <<>>
    /\ batch = [k \in Keys |-> NoWrite]
    /\ flushing = FALSE
    /\ db = [k \in Keys |-> Absent]
    /\ loader = [l \in Loaders |-> IdleLoader]
    /\ remover = [s \in Ships |-> "idle"]
    /\ version = 0
    /\ stops = 0
    /\ missed = {} /\ lost = {} /\ gone = {}

-----------------------------------------------------------------------------
(***************************************************************************)
(* TrackedDashMap.                                                         *)
(***************************************************************************)

\* Mutant of Mark: a change of an entry that exists leaves no mark.
MarkNewOnly(k) ==
    /\ dirty' = IF live[k] = Absent THEN dirty \union {k} ELSE dirty
    /\ missed' = missed \ {k}
    /\ lost' = IF live[k] = Absent THEN lost ELSE lost \ {k}

\* The key is marked; what is in memory, if anything, will be sent again.
Mark(k) ==
    /\ dirty' = dirty \union {k}
    /\ missed' = missed \ {k}
    /\ lost' = IF live[k] = Absent THEN lost ELSE lost \ {k}

\* The second half of insert: the value becomes visible.  The key was marked
\* before; if the loop has drained and handled the mark already, nothing will
\* send this value.
Store(k, v) ==
    /\ live' = [live EXCEPT ![k] = v]
    /\ missed' = IF k \in dirty \union drained THEN missed ELSE missed \union {k}
    /\ lost' = lost \ {k}
    /\ gone' = gone \ {k}

\* A handler or a script changes a value through get_mut.  The guard's drop
\* marks the key while the shard is still locked, so the two are one step.
Mutate(k) ==
    /\ live[k] # Absent
    /\ version < MaxVersion
    /\ version' = version + 1
    /\ live' = [live EXCEPT ![k] = version + 1]
    /\ Mark(k)
    /\ UNCHANGED <<loop, drained, pipeVars, loader, remover, stops, gone>>

\* A new identifier: no command, write or row carries it yet.
Unused(k) ==
    /\ live[k] = Absent /\ db[k] = Absent /\ batch[k] = NoWrite
    /\ \A i \in 1 .. Len(chan) : chan[i].key # k

\* create_squadron: the only insert of a squadron.  Its mark and its store are
\* one step here, since the loop treats a squadron as it treats a player, whose
\* insert is split below.
CreateSquadron(q) ==
    /\ Unused(q)
    /\ version < MaxVersion
    /\ version' = version + 1
    /\ live' = [live EXCEPT ![q] = version + 1]
    /\ Mark(q)
    /\ UNCHANGED <<loop, drained, pipeVars, loader, remover, stops, gone>>

\* The entry is removed and no command deletes its row: a squadron disbands in
\* leave_squadron, the game master deletes a ship, a playtest is promoted.
RemoveOnly(k) ==
    /\ live[k] # Absent
    /\ live' = [live EXCEPT ![k] = Absent]
    /\ dirty' = dirty \ {k}
    /\ missed' = missed \ {k}
    /\ lost' = lost \ {k}
    /\ UNCHANGED <<loop, drained, pipeVars, loader, remover, version, stops, gone>>

-----------------------------------------------------------------------------
(***************************************************************************)
(* apply_mutation(DestroyEntity) of a player ship, in three steps: remove  *)
(* clears the mark, then the entry, and only then is DeleteShip sent.      *)
(***************************************************************************)

\* Mutant of Send: the capacity is off by one.
SendOneTooMany(c) ==
    IF Len(chan) <= ChanCap
    THEN chan' = Append(chan, c) /\ lost' = lost \ {c.key}
    ELSE lost' = lost \union {c.key} /\ UNCHANGED chan

\* Mutant of Send: a full channel drops its oldest command instead of the new one.
SendEvictsOldest(c) ==
    /\ chan' = IF Len(chan) < ChanCap THEN Append(chan, c) ELSE Append(Tail(chan), c)
    /\ lost' = lost \ {c.key}

\* The command is appended if the channel has room, and dropped otherwise.
Send(c) ==
    IF Len(chan) < ChanCap
    THEN /\ chan' = Append(chan, c)
         /\ lost' = lost \ {c.key}
    ELSE /\ lost' = lost \union {c.key}
         /\ UNCHANGED chan

DestroyUnmark(s) ==
    /\ remover[s] = "idle"
    /\ dirty' = dirty \ {s}
    \* A change that was only marked is forgotten until the entry is gone too.
    /\ missed' = IF s \in dirty \ drained /\ live[s] # Absent
                 THEN missed \union {s} ELSE missed
    /\ remover' = [remover EXCEPT ![s] = "unmarked"]
    /\ UNCHANGED <<live, loop, drained, pipeVars, loader, version,
                   stops, lost, gone>>

\* Mutant of DestroyRemove: the ship goes and delete_ship is never called.
DestroyRemoveOnly(s) ==
    /\ remover[s] = "unmarked"
    /\ remover' = [remover EXCEPT ![s] = "idle"]
    /\ live' = [live EXCEPT ![s] = Absent]
    /\ missed' = missed \ {s}
    /\ lost' = lost \ {s}
    /\ gone' = IF live[s] = Absent THEN gone ELSE gone \union {s}
    /\ UNCHANGED <<dirty, loop, drained, pipeVars, loader, version, stops>>

\* "Ship not found" is a failure without further effect.
DestroyRemove(s) ==
    /\ remover[s] = "unmarked"
    /\ IF live[s] = Absent
       THEN /\ remover' = [remover EXCEPT ![s] = "idle"]
            /\ UNCHANGED <<live, missed, lost, gone>>
       ELSE /\ remover' = [remover EXCEPT ![s] = "removed"]
            /\ live' = [live EXCEPT ![s] = Absent]
            /\ missed' = missed \ {s}
            /\ lost' = lost \ {s}
            /\ gone' = gone \union {s}
    /\ UNCHANGED <<dirty, loop, drained, pipeVars, loader, version, stops>>

DestroySend(s) ==
    /\ remover[s] = "removed"
    /\ Send([key |-> s, val |-> Absent])
    /\ remover' = [remover EXCEPT ![s] = "idle"]
    \* A request has loaded the ship back in between: the row will go, the
    \* ship in memory stays.
    /\ missed' = IF live[s] # Absent /\ s \notin dirty \union drained
                 THEN missed \union {s} ELSE missed
    /\ UNCHANGED <<memVars, loop, drained, batch, flushing, db, loader,
                   version, stops, gone>>

-----------------------------------------------------------------------------
(***************************************************************************)
(* persist_dirty_entities, once per tick, for the three maps in turn.      *)
(* drain_dirty collects the keys and then clears the set: two steps.       *)
(***************************************************************************)

DrainCollect ==
    /\ loop.pc = "run"
    /\ drained' = dirty \intersect MapOf(loop.map)
    /\ loop' = [loop EXCEPT !.pc = "clear"]
    /\ UNCHANGED <<memVars, pipeVars, loader, remover, version, stops, histVars>>

\* Keys are left to send, or the map is done and the next one, in this tick or
\* in the next, begins.
Advance(left) ==
    /\ drained' = left
    /\ loop' = IF left # {} THEN [loop EXCEPT !.pc = "send"]
               ELSE [pc |-> "run", map |-> IF loop.map = 3 THEN 1 ELSE loop.map + 1]

DrainClear ==
    /\ loop.pc = "clear"
    /\ dirty' = dirty \ MapOf(loop.map)
    \* Marked after the collection, cleared with the rest.
    /\ missed' = missed \union ((dirty \intersect MapOf(loop.map)) \ drained)
    /\ Advance(drained)
    /\ UNCHANGED <<live, pipeVars, loader, remover, version, stops, lost, gone>>

\* One drained key: its current value is sent while its guard is held.
PersistOne(k) ==
    /\ loop.pc = "send"
    /\ k \in drained
    /\ Advance(drained \ {k})
    /\ IF live[k] = Absent
       THEN UNCHANGED <<chan, missed, lost>>
       ELSE /\ Send([key |-> k, val |-> live[k]])
            /\ missed' = missed \ {k}
    /\ UNCHANGED <<memVars, batch, flushing, db, loader, remover, version, stops, gone>>

-----------------------------------------------------------------------------
(***************************************************************************)
(* persistence_worker.                                                     *)
(***************************************************************************)

BatchKeys == {k \in Keys : batch[k] # NoWrite}

\* Mutant of ApplyCommand: the command that came first for a key stays.
ApplyFirstCommand(c) ==
    batch' = IF batch[c.key] = NoWrite THEN [batch EXCEPT ![c.key] = c.val] ELSE batch

\* apply_command: the newest command for a key replaces the older one.
ApplyCommand(c) == batch' = [batch EXCEPT ![c.key] = c.val]

WorkerRecv ==
    /\ ~flushing
    /\ chan # <<>>
    /\ chan' = Tail(chan)
    /\ ApplyCommand(Head(chan))
    /\ flushing' = (Cardinality(BatchKeys \union {Head(chan).key}) >= MaxBatch)
    /\ UNCHANGED <<memVars, loop, drained, db, loader, remover, version,
                   stops, histVars>>

\* Mutant of WorkerDeadline: only a full batch is flushed.
WorkerDeadlineIfFull ==
    /\ ~flushing
    /\ Cardinality(BatchKeys) >= MaxBatch
    /\ flushing' = TRUE
    /\ UNCHANGED <<memVars, loop, drained, chan, batch, db, loader, remover,
                   version, stops, histVars>>

\* The 100 ms deadline passes with a batch that is not empty.
WorkerDeadline ==
    /\ ~flushing
    /\ BatchKeys # {}
    /\ flushing' = TRUE
    /\ UNCHANGED <<memVars, loop, drained, chan, batch, db, loader, remover,
                   version, stops, histVars>>

\* flush_batch drains players, then ships, then squadrons.
FlushTurn(k) ==
    /\ flushing
    /\ batch[k] # NoWrite
    /\ k \in Ships => BatchKeys \intersect Players = {}
    /\ k \in Squadrons => BatchKeys \subseteq Squadrons

\* Mutant of FlushOk: the first write clears the whole batch.
FlushOkClearsBatch(k) ==
    /\ FlushTurn(k)
    /\ k \in Players => db[k] # Absent
    /\ db' = [db EXCEPT ![k] = batch[k]]
    /\ batch' = [j \in Keys |-> NoWrite]
    /\ flushing' = FALSE
    /\ UNCHANGED <<memVars, loop, drained, chan, loader, remover,
                   version, stops, histVars>>

FlushOk(k) ==
    /\ FlushTurn(k)
    \* UpdatePlayer is an UPDATE: without a row it is an error.
    /\ k \in Players => db[k] # Absent
    /\ db' = [db EXCEPT ![k] = batch[k]]
    /\ batch' = [batch EXCEPT ![k] = NoWrite]
    /\ flushing' = (BatchKeys # {k})
    /\ UNCHANGED <<memVars, loop, drained, chan, loader, remover,
                   version, stops, histVars>>

\* The error is logged and the entry is gone from the batch all the same.
FlushErr(k) ==
    /\ FlushTurn(k)
    /\ batch' = [batch EXCEPT ![k] = NoWrite]
    /\ flushing' = (BatchKeys # {k})
    /\ lost' = IF \/ \E i \in 1 .. Len(chan) : chan[i].key = k
                   \/ (k \in dirty \union drained /\ live[k] # Absent)
                THEN lost ELSE lost \union {k}
    /\ UNCHANGED <<memVars, loop, drained, chan, db, loader, remover,
                   version, stops, missed, gone>>

-----------------------------------------------------------------------------
(***************************************************************************)
(* Requests that load rows into memory.                                    *)
(***************************************************************************)

LoaderAt(l, pc) == loader[l].pc = pc
Goto(l, pc) == loader' = [loader EXCEPT ![l].pc = pc]

\* login reads the player's row and verifies the password before it goes on, and
\* does so whether or not the player is in memory.  The WebSocket's Authenticate
\* runs the same steps, but only for a player without a session.
LoadPlayer(l, p) ==
    /\ LoaderAt(l, "idle")
    /\ db[p] # Absent
    /\ loader' = [loader EXCEPT ![l] = [pc |-> "markPlayer", acct |-> p, copy |-> db[p]]]
    /\ UNCHANGED <<memVars, loop, drained, pipeVars, remover, version, stops, histVars>>

\* register: the transaction writes the player and the ship, then both are
\* inserted in memory, the ship first.
Register(l, p) ==
    /\ LoaderAt(l, "idle")
    /\ db[p] = Absent
    /\ db[ShipOf[p]] = Absent
    /\ version < MaxVersion
    /\ version' = version + 1
    /\ db' = [db EXCEPT ![p] = version + 1, ![ShipOf[p]] = version + 1]
    /\ loader' = [loader EXCEPT ![l] = [pc |-> "regMarkShip", acct |-> p, copy |-> version + 1]]
    /\ UNCHANGED <<memVars, loop, drained, chan, batch, flushing, remover,
                   stops, histVars>>

\* The first half of TrackedDashMap::insert.
MarkStep(l, from, to, k) ==
    /\ LoaderAt(l, from)
    /\ Mark(k)
    /\ Goto(l, to)
    /\ UNCHANGED <<live, loop, drained, pipeVars, remover, version, stops, gone>>

StoreStep(l, from, to, k) ==
    /\ LoaderAt(l, from)
    /\ Store(k, loader[l].copy)
    /\ Goto(l, to)
    /\ UNCHANGED <<dirty, loop, drained, pipeVars, remover, version, stops>>

MarkPlayer(l)   == MarkStep(l, "markPlayer", "storePlayer", loader[l].acct)
RegMarkShip(l)  == MarkStep(l, "regMarkShip", "regStoreShip", ShipOf[loader[l].acct])
RegStoreShip(l) == StoreStep(l, "regStoreShip", "markPlayer", ShipOf[loader[l].acct])
StorePlayer(l)  == StoreStep(l, "storePlayer", "checkShip", loader[l].acct)
MarkShip(l)     == MarkStep(l, "markShip", "storeShip", ShipOf[loader[l].acct])

EndRequest(l) == loader' = [loader EXCEPT ![l] = IdleLoader]

\* "Load ship if not cached": the test, then the query, then the insert.
CheckShip(l) ==
    /\ LoaderAt(l, "checkShip")
    /\ IF live[ShipOf[loader[l].acct]] # Absent
       THEN EndRequest(l)
       ELSE Goto(l, "readShip")
    /\ UNCHANGED <<memVars, loop, drained, pipeVars, remover, version, stops, histVars>>

ReadShip(l) ==
    /\ LoaderAt(l, "readShip")
    /\ LET row == db[ShipOf[loader[l].acct]] IN
       IF row = Absent
       THEN EndRequest(l)
       ELSE loader' = [loader EXCEPT ![l] =
                          [pc |-> "markShip", acct |-> loader[l].acct, copy |-> row]]
    /\ UNCHANGED <<memVars, loop, drained, pipeVars, remover, version, stops, histVars>>

StoreShip(l) ==
    /\ LoaderAt(l, "storeShip")
    /\ Store(ShipOf[loader[l].acct], loader[l].copy)
    /\ EndRequest(l)
    /\ UNCHANGED <<dirty, loop, drained, pipeVars, remover, version, stops>>

-----------------------------------------------------------------------------
(***************************************************************************)
(* The process stops.  A crash and main's graceful shutdown lose the same  *)
(* things: nothing sends Flush or Shutdown, and main returns without       *)
(* waiting for the worker.  GameState::new loads factions and sectors      *)
(* only, so memory is empty afterwards.                                    *)
(***************************************************************************)
Stop ==
    /\ stops < MaxStops
    /\ stops' = stops + 1
    /\ live' = [k \in Keys |-> Absent]
    /\ dirty' = {}
    /\ loop' = [pc |-> "run", map |-> 1]
    /\ drained' = {}
    /\ chan' = <<>>
    /\ batch' = [k \in Keys |-> NoWrite]
    /\ flushing' = FALSE
    /\ loader' = [l \in Loaders |-> IdleLoader]
    /\ remover' = [s \in Ships |-> "idle"]
    /\ missed' = {} /\ lost' = {} /\ gone' = {}
    /\ UNCHANGED <<db, version>>

GameLoop == DrainCollect \/ DrainClear \/ (\E k \in Keys : PersistOne(k))

Flush(k) == FlushOk(k) \/ FlushErr(k)

Worker == WorkerRecv \/ WorkerDeadline \/ (\E k \in Keys : Flush(k))

Destroy(s) == DestroyUnmark(s) \/ DestroyRemove(s) \/ DestroySend(s)

Continue(l) ==
    \/ MarkPlayer(l) \/ StorePlayer(l) \/ CheckShip(l) \/ ReadShip(l)
    \/ MarkShip(l) \/ StoreShip(l) \/ RegMarkShip(l) \/ RegStoreShip(l)

Request(l, p) == LoadPlayer(l, p) \/ Register(l, p)

Next ==
    \/ \E k \in Keys : Mutate(k)
    \/ \E q \in Squadrons : CreateSquadron(q)
    \/ \E k \in Ships \union Squadrons : RemoveOnly(k)
    \/ \E s \in Ships : Destroy(s)
    \/ GameLoop
    \/ Worker
    \/ \E l \in Loaders : Continue(l) \/ (\E p \in Players : Request(l, p))
    \/ Stop

Spec == Init /\ [][Next]_vars

\* The tick loop, the worker and a request or script that has begun keep
\* running; nobody has to log in, mutate, destroy or stop.
FairSpec ==
    /\ Spec
    /\ WF_vars(GameLoop)
    /\ WF_vars(Worker)
    /\ \A l \in Loaders : WF_vars(Continue(l))
    /\ \A s \in Ships : WF_vars(DestroyRemove(s) \/ DestroySend(s))

-----------------------------------------------------------------------------
(***************************************************************************)
(* Properties.                                                             *)
(***************************************************************************)

TypeOK ==
    /\ live \in [Keys -> Version]
    /\ dirty \subseteq Keys
    /\ loop \in [pc : {"run", "clear", "send"}, map : MapNo]
    /\ drained \subseteq Keys
    /\ chan \in Seq(Cmd) /\ Len(chan) <= ChanCap
    /\ batch \in [Keys -> Version \union {NoWrite}]
    /\ flushing \in BOOLEAN
    /\ db \in [Keys -> Version]
    /\ loader \in [Loaders -> [pc : LoaderPc, acct : Players \union {Nobody}, copy : Version]]
    /\ \A l \in Loaders : loader[l].pc # "idle" => loader[l].acct \in Players
    /\ remover \in [Ships -> {"idle", "unmarked", "removed"}]
    /\ version \in Version
    /\ stops \in 0 .. MaxStops
    /\ missed \subseteq Keys
    /\ lost \subseteq Keys
    /\ gone \subseteq Ships

\* v is what the row of k ends up with when the commands in q follow the write b,
\* if there is one, and the row is d now.
Settles(q, b, d, k, v) ==
    \/ \E i \in 1 .. Len(q) :
          /\ q[i].key = k /\ q[i].val = v
          /\ \A j \in 1 .. Len(q) : q[j].key = k => j <= i
    \/ /\ \A i \in 1 .. Len(q) : q[i].key # k
       /\ v = IF b = NoWrite THEN d ELSE b

\* v is what the database holds for k once the commands already sent are written.
Settling(k, v) == Settles(chan, batch[k], db[k], k, v)

\* A value in memory reaches the database with the commands already sent, or
\* its key is still marked or drained, or it was lost in one of the three known
\* ways: a mark cleared or consumed too early, a full channel, a failed write.
\* "Persistence is automatic via TrackedDashMap dirty tracking", and this is all
\* that is true of it.
LossAccounted ==
    \A k \in Keys : live[k] # Absent =>
        Settling(k, live[k]) \/ k \in dirty \union drained \union missed \union lost

\* A destroyed player ship that nobody loaded again loses its row with the
\* commands already sent, unless its DeleteShip is still to be sent or was lost:
\* no snapshot taken by the game loop follows the delete into the channel.
DestroyAccounted ==
    \A s \in gone :
        /\ live[s] = Absent
        /\ Settling(s, Absent) \/ remover[s] = "removed" \/ s \in lost

\* The values of the commands for k in q, oldest first, after those in first.
ValuesOf(k, q, first) ==
    LET upto[i \in 0 .. Len(q)] ==
            IF i = 0 THEN first
            ELSE IF q[i].key = k THEN Append(upto[i - 1], q[i].val) ELSE upto[i - 1]
    IN  upto[Len(q)]

Batched(k) == IF batch[k] = NoWrite THEN <<>> ELSE <<batch[k]>>

\* The snapshots of k on their way to its row, oldest first.
Pending(k) == ValuesOf(k, chan, Batched(k))

WO(k) == INSTANCE WriteOrder WITH Values <- Version, stored <- db[k],
                                  pending <- Pending(k)

\* The channel, the batch and flush_batch together implement WriteOrder for every
\* key: coalescing, a refused send, a failed write and a stop leave some of the
\* game loop's snapshots out and never change the order of the others.
WritesInOrder ==
    /\ \A k \in Keys : WO(k)!Init
    /\ [][\A k \in Keys : UNCHANGED <<db[k], Pending(k)>> \/ WO(k)!Next]_vars

\* All that is in memory is in the database, except what was lost.
Settled ==
    /\ \A k \in Keys : live[k] # Absent /\ k \notin missed \union lost
            => db[k] = live[k]
    /\ \A s \in gone \ lost : db[s] = Absent

Quiet == \A l \in Loaders : loader[l].pc = "idle"

\* Once requests and changes cease, the ticks and the worker bring memory and
\* database together for every key that was not lost, and no row changes back.
EventuallySettled == <>[]Quiet => <>[]Settled

\* "If different, the key is added to the dirty set": a value that no sent command
\* carries is marked or about to be sent.  drain_dirty's clear breaks it.
ChangeIsTracked ==
    \A k \in Keys : live[k] # Absent =>
        Settling(k, live[k]) \/ k \in dirty \union drained \union lost
=============================================================================

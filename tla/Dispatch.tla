------------------------------ MODULE Dispatch ------------------------------
(***************************************************************************)
(* Calling script handlers: events go to every subscription of their type  *)
(* (bw-scripting/src/events/dispatcher.rs and the registry in              *)
(* events/mod.rs), an action to the one handler registered for it          *)
(* (actions/dispatcher.rs), and named handlers, built in or scripted, are  *)
(* run by the generic dispatcher (handlers/mod.rs).  All of them execute   *)
(* with the state accessor every script of the server shares; the game     *)
(* loop's behaviours change its permissions meanwhile (SetByBehavior).     *)
(***************************************************************************)
EXTENDS Naturals, Sequences

CONSTANTS
    Subscribers,    \* ids of event subscriptions
    Verbs,          \* names of actions and of generic handlers
    Areas,          \* sectors; the first of the two the player's ship is in
    Home,           \* the sector of the player's ship
    Anywhere,       \* a subscription without a sector, an accessor without limits
    MaxQueued       \* bound: changes a handler queues

ASSUME AreaAssumption == Home \in Areas /\ Anywhere \notin Areas
ASSUME QueuedAssumption == MaxQueued \in Nat
ASSUME CallerAssumption == Subscribers \cap Verbs = {}

VARIABLES
    subscribed,     \* EventRegistry: the subscriptions, in the order they were made
    verbs,          \* per verb: how it is registered
    off,            \* the verbs that are disabled
    reach,          \* the accessor's permissions: the sector they are limited to
    dispatch,       \* the dispatch under way
    offered,        \* the subscriptions the event still has to be offered to
    queue,          \* the accessor's queue: who queued each change
    result,         \* the changes collected from the handlers so far
    outcomes        \* history: the handlers called by this dispatch, how each ended

dispatchVars == <<subscribed, verbs, off, reach, dispatch, offered,
                  queue, result, outcomes>>

Subscription == [id : Subscribers, priority : 0..1, sector : Areas \cup {Anywhere},
                 enabled : BOOLEAN]
Registrations == {"none", "builtin", "script", "broken"}
Callers == Subscribers \cup Verbs
NoCall == [kind |-> "none"]
Finished(status) == [kind |-> "done", status |-> status]
Calls == [kind : {"event"}, sector : Areas]
         \cup [kind : {"running"}, of : Callers, sector : Areas]
         \cup [kind : {"checking"}, of : Verbs]
         \cup {Finished(s) : s \in {"ok", "failed", "refused"}} \cup {NoCall}

\* Type correctness.
DispatchTypeOK ==
    /\ subscribed \in Seq(Subscription) /\ offered \in Seq(Subscription)
    /\ verbs \in [Verbs -> Registrations] /\ off \subseteq Verbs
    /\ reach \in Areas \cup {Anywhere}
    /\ dispatch \in Calls
    /\ queue \in Seq(Callers) /\ result \in Seq(Callers)
    /\ outcomes \in Seq([of : Callers, priority : 0..1, ok : BOOLEAN])

DispatchInit ==
    /\ subscribed = <<>> /\ offered = <<>>
    /\ verbs = [v \in Verbs |-> "none"] /\ off = {}
    /\ reach = Anywhere
    /\ dispatch = NoCall /\ queue = <<>> /\ result = <<>> /\ outcomes = <<>>

-----------------------------------------------------------------------------
(* The registries *)

NothingRuns == dispatch = NoCall
InEvent == dispatch.kind = "running" /\ dispatch.of \in Subscribers
IdsOf(subs) == {subs[i].id : i \in DOMAIN subs}

\* Those of the subscriptions that are in the set, in their order.
Those(subs, kept) ==
    LET Kept[n \in 0..Len(subs)] ==
            IF n = 0 THEN <<>>
            ELSE IF subs[n] \in kept THEN Append(Kept[n - 1], subs[n])
            ELSE Kept[n - 1]
    IN  Kept[Len(subs)]

\* Scripts subscribe and unsubscribe between events, or from a handler.
MayRegister == NothingRuns \/ InEvent

Unregistered == UNCHANGED <<verbs, off, reach, dispatch, queue, result, outcomes>>

\* subscribe: a new subscription is the last of its event type.
Subscribe(s, p, area) ==
    /\ MayRegister
    /\ s \notin IdsOf(subscribed) \cup IdsOf(offered)
    /\ \A i \in DOMAIN outcomes : outcomes[i].of # s
    /\ subscribed' = Append(subscribed, [id |-> s, priority |-> p, sector |-> area,
                                         enabled |-> TRUE])
    /\ UNCHANGED offered /\ Unregistered

\* unsubscribe: the registry forgets it; a dispatch under way does not.
Unsubscribe(s) ==
    /\ MayRegister
    /\ subscribed' = Those(subscribed, {h \in Subscription : h.id # s})
    /\ UNCHANGED offered /\ Unregistered

SetEnabled(s, on) ==
    /\ MayRegister
    /\ subscribed' = [i \in DOMAIN subscribed |->
            IF subscribed[i].id = s THEN [subscribed[i] EXCEPT !.enabled = on]
                                    ELSE subscribed[i]]
    /\ UNCHANGED offered /\ Unregistered

\* A verb is registered (again), built in or scripted, or unregistered.
Register(v, how) ==
    /\ NothingRuns
    /\ verbs' = [verbs EXCEPT ![v] = how]
    /\ off' = off \ {v}
    /\ UNCHANGED <<subscribed, offered, reach, dispatch, queue, result, outcomes>>

Disable(v) ==
    /\ NothingRuns /\ verbs[v] # "none"
    /\ off' = off \cup {v}
    /\ UNCHANGED <<subscribed, offered, verbs, reach, dispatch, queue, result,
                   outcomes>>

-----------------------------------------------------------------------------
(* Events *)

\* get_handlers_sorted: a copy, sorted by priority; equal ones keep their order.
Sorted(subs) == Those(subs, {h \in Subscription : h.priority = 0})
                \o Those(subs, {h \in Subscription : h.priority = 1})

DispatchEvent(area) ==
    /\ NothingRuns /\ queue = <<>>
    /\ dispatch' = [kind |-> "event", sector |-> area]
    /\ offered' = Sorted(subscribed)
    /\ UNCHANGED <<subscribed, verbs, off, reach, queue, result, outcomes>>

Hears(h) == h.enabled /\ h.sector \in {dispatch.sector, Anywhere}
Ended(h, ok) == outcomes' = Append(outcomes, [of |-> h.id, priority |-> h.priority, ok |-> ok])

\* The next subscription is disabled or about another sector, or its script is
\* not loaded, which counts as a failure of the handler.
PassHandler ==
    /\ dispatch.kind = "event" /\ offered # <<>>
    /\ LET h == Head(offered) IN
        IF Hears(h) THEN Ended(h, FALSE) ELSE UNCHANGED outcomes
    /\ offered' = Tail(offered)
    /\ UNCHANGED <<subscribed, verbs, off, reach, dispatch, queue, result>>

\* The permissions of an entity's handler are limited to its sector.
EnterHandler ==
    /\ dispatch.kind = "event" /\ offered # <<>>
    /\ LET h == Head(offered) IN
        /\ Hears(h)
        /\ reach' = h.sector
        /\ dispatch' = [kind |-> "running", of |-> h.id, sector |-> dispatch.sector]
    /\ UNCHANGED <<subscribed, verbs, off, offered, queue, result, outcomes>>

\* A running script queues a change.
QueueFromHandler ==
    /\ dispatch.kind = "running"
    /\ Len(queue) < MaxQueued
    /\ queue' = Append(queue, dispatch.of)
    /\ UNCHANGED <<subscribed, verbs, off, reach, dispatch, offered, result, outcomes>>

\* Mutant of Taken: the queue is emptied only when the handler succeeded.
TakenIfOk(ok) == IF ok THEN <<>> ELSE queue

\* take_mutations: whatever the handler's outcome, the queue is emptied.
Taken(ok) == <<>>

\* The handler's changes are collected if it returned and dropped if it threw;
\* the dispatch goes on with the next one either way.
HandlerEnds(ok) ==
    /\ InEvent
    /\ queue' = Taken(ok)
    /\ result' = IF ok THEN result \o queue ELSE result
    /\ Ended(Head(offered), ok)
    /\ offered' = Tail(offered)
    /\ dispatch' = [kind |-> "event", sector |-> dispatch.sector]
    /\ UNCHANGED <<subscribed, verbs, off, reach>>

EventDone ==
    /\ dispatch.kind = "event" /\ offered = <<>>
    /\ dispatch' = Finished("ok")
    /\ UNCHANGED <<subscribed, verbs, off, reach, offered, queue, result, outcomes>>

-----------------------------------------------------------------------------
(* Actions and named handlers *)

SameRegistries == UNCHANGED <<subscribed, verbs, off, offered>>

\* dispatch: an unknown or disabled verb is refused.
DispatchVerb(v) ==
    /\ NothingRuns /\ queue = <<>>
    /\ dispatch' = IF verbs[v] = "none" \/ v \in off THEN Finished("refused")
               ELSE [kind |-> "checking", of |-> v]
    /\ UNCHANGED <<reach, queue, result, outcomes>> /\ SameRegistries

\* The accessor lets the dispatcher read the player's ship.
CanSee == reach \in {Home, Anywhere}

\* validate_requirements, for MustBeDocked: read with the permissions of whoever
\* used the accessor last; a ship that cannot be read is not checked.  Whether the
\* ship is docked is a choice.
Meets(docked) == CanSee => docked

\* execute_script_handler: an action runs with permissions of its own, a named
\* handler with those the accessor has.
RunsScript(v, ofAction) ==
    /\ verbs[v] = "script"
    /\ reach' = IF ofAction THEN Anywhere ELSE reach
    /\ dispatch' = [kind |-> "running", of |-> v, sector |-> Home]

\* Only actions have requirements; a handler's script may be missing; a built-in
\* handler queues nothing.
Check(needsDock, docked) ==
    /\ dispatch.kind = "checking"
    /\ LET v == dispatch.of
           met == needsDock => Meets(docked) IN
        \/ /\ ~met
           /\ dispatch' = Finished("refused") /\ UNCHANGED reach
        \/ /\ met /\ verbs[v] = "broken"
           /\ dispatch' = Finished("failed") /\ UNCHANGED reach
        \/ /\ met /\ verbs[v] = "builtin" /\ ~needsDock
           /\ \E s \in {"ok", "failed"} : dispatch' = Finished(s)
           /\ UNCHANGED reach
        \/ met /\ RunsScript(v, needsDock)
    /\ UNCHANGED <<queue, result, outcomes>> /\ SameRegistries

\* The script threw: its changes are dropped.  It returned: they are handed on,
\* also when what it returned says that the action failed.
VerbEnds(threw, status) ==
    /\ dispatch.kind = "running" /\ dispatch.of \in Verbs
    /\ threw => status = "failed"
    /\ queue' = Taken(~threw)
    /\ result' = IF threw THEN <<>> ELSE queue
    /\ outcomes' = <<[of |-> dispatch.of, priority |-> 0, ok |-> ~threw]>>
    /\ dispatch' = Finished(status)
    /\ UNCHANGED reach /\ SameRegistries

\* Whoever asked for the dispatch has its result.
TakeDispatched ==
    /\ dispatch.kind = "done"
    /\ dispatch' = NoCall /\ result' = <<>> /\ outcomes' = <<>>
    /\ UNCHANGED <<reach, queue>> /\ SameRegistries

-----------------------------------------------------------------------------
(* The rest of the server *)

\* A behaviour of the game loop takes the accessor over for an entity: at any time,
\* and modelled where its permissions are read next.
SetByBehavior(area) ==
    /\ dispatch.kind = "checking"
    /\ reach' = area
    /\ UNCHANGED <<dispatch, queue, result, outcomes>> /\ SameRegistries

DispatchNext ==
    \/ \E s \in Subscribers : \/ Unsubscribe(s)
                              \/ \E on \in BOOLEAN : SetEnabled(s, on)
                              \/ \E p \in 0..1, a \in Areas \cup {Anywhere} :
                                    Subscribe(s, p, a)
    \/ \E v \in Verbs : Disable(v) \/ DispatchVerb(v)
                        \/ \E how \in Registrations : Register(v, how)
    \/ \E a \in Areas : DispatchEvent(a) \/ SetByBehavior(a)
    \/ PassHandler \/ EnterHandler \/ QueueFromHandler \/ EventDone \/ TakeDispatched
    \/ \E b \in BOOLEAN : HandlerEnds(b) \/ (\E d \in BOOLEAN : Check(b, d))
                          \/ \E s \in {"ok", "failed"} : VerbEnds(b, s)

DispatchSpec == DispatchInit /\ [][DispatchNext]_dispatchVars

-----------------------------------------------------------------------------
(* Properties *)

Succeeded == {outcomes[i].of : i \in {j \in DOMAIN outcomes : outcomes[j].ok}}
PositionOf(c) == CHOOSE i \in DOMAIN outcomes : outcomes[i].of = c

\* What a dispatch hands on was queued by handlers that returned, in the order they
\* were called, which is by priority and each at most once: no change of a handler
\* that threw, and none left in the shared queue by an earlier one, is among them
\* (events/dispatcher.rs:129, actions/dispatcher.rs:342).
HandlersIsolated ==
    /\ \A i, j \in DOMAIN outcomes : i < j =>
        /\ outcomes[i].priority <= outcomes[j].priority
        /\ outcomes[i].of # outcomes[j].of
    /\ \A i \in DOMAIN result : result[i] \in Succeeded
    /\ \A i, j \in DOMAIN result : i < j => PositionOf(result[i]) <= PositionOf(result[j])
    /\ \A i \in DOMAIN queue : dispatch.kind = "running" /\ queue[i] = dispatch.of
=============================================================================

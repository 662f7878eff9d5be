----------------------------- MODULE Behaviors -----------------------------
(***************************************************************************)
(* The behaviours attached to ships (bw-scripting/src/behaviors/manager.rs)*)
(* and the events their scripts subscribe to (events/mod.rs).              *)
(*                                                                         *)
(* The game loop and the administrators' requests use the manager under    *)
(* one lock: one of them holds it while a hook runs.  The registry of      *)
(* subscriptions has three indexes, each under a lock of its own, and an   *)
(* administrator's unsubscribe does not take the manager's lock.           *)
(***************************************************************************)
EXTENDS Naturals, FiniteSets

CONSTANTS
    Hosts,          \* the ships that get a behaviour
    Subscriptions,  \* the ids of subscriptions
    NoHost          \* no ship, no subscription

ASSUME HostAssumption ==
    NoHost \notin Hosts /\ NoHost \notin Subscriptions

VARIABLES
    body,           \* per ship: not spawned, in the game, or gone
    behavior,       \* per ship: the state of its behaviour, or "none"
    inside,         \* what the holder of the manager's lock is doing
    admin,          \* the administrator's unsubscribe under way
    by_id,          \* the registry: the subscriptions by their id
    by_event_type,  \* the subscriptions in the lists of their event types
    by_owner,       \* per ship: the ids of its subscriptions
    owner,          \* per subscription: the ship it was made for
    stillborn       \* history: the ships whose on_spawn failed

beVars == <<body, behavior, inside, admin, by_id, by_event_type, by_owner,
            owner, stillborn>>

Nobody == [hook |-> "none", host |-> NoHost, step |-> "none", sub |-> NoHost,
           rest |-> {}]
Hooks == {"on_spawn", "on_update", "on_destroy"}
Quiet == inside = Nobody /\ admin = Nobody

\* Type correctness.
BehaviorsTypeOK ==
    /\ body \in [Hosts -> {"new", "here", "gone"}]
    /\ behavior \in [Hosts -> {"none", "initializing", "active", "paused"}]
    /\ inside.hook \in Hooks \cup {"none"}
    /\ inside.host \in Hosts \cup {NoHost}
    /\ inside.step \in {"none", "run", "own", "file", "each", "untype",
                        "disown"}
    /\ inside.rest \subseteq Subscriptions
    /\ admin.step \in {"none", "untype", "disown"}
    /\ by_id \subseteq Subscriptions
    /\ by_event_type \subseteq Subscriptions
    /\ by_owner \in [Hosts -> SUBSET Subscriptions]
    /\ owner \in [Subscriptions -> Hosts \cup {NoHost}]
    /\ stillborn \subseteq Hosts

BehaviorsInit ==
    /\ body = [e \in Hosts |-> "new"]
    /\ behavior = [e \in Hosts |-> "none"]
    /\ inside = Nobody /\ admin = Nobody
    /\ by_id = {} /\ by_event_type = {}
    /\ by_owner = [e \in Hosts |-> {}]
    /\ owner = [s \in Subscriptions |-> NoHost]
    /\ stillborn = {}

registry == <<by_id, by_event_type, by_owner, owner>>

RunHook(hook, e) == [Nobody EXCEPT !.hook = hook, !.host = e, !.step = "run"]

-----------------------------------------------------------------------------
(* The manager *)

\* attach, right after the game loop spawned the ship: on_spawn runs.
Attach(e) ==
    /\ inside = Nobody /\ body[e] = "new"
    /\ body' = [body EXCEPT ![e] = "here"]
    /\ behavior' = [behavior EXCEPT ![e] = "initializing"]
    /\ inside' = RunHook("on_spawn", e)
    /\ UNCHANGED <<admin, registry, stillborn>>

\* update_all runs on_update of the active behaviours.
Update(e) ==
    /\ inside = Nobody /\ behavior[e] = "active"
    /\ inside' = RunHook("on_update", e)
    /\ UNCHANGED <<body, behavior, admin, registry, stillborn>>

\* pause and resume.
Pause(e) ==
    /\ inside = Nobody /\ behavior[e] = "active"
    /\ behavior' = [behavior EXCEPT ![e] = "paused"]
    /\ UNCHANGED <<body, inside, admin, registry, stillborn>>

Resume(e) ==
    /\ inside = Nobody /\ behavior[e] = "paused"
    /\ behavior' = [behavior EXCEPT ![e] = "active"]
    /\ UNCHANGED <<body, inside, admin, registry, stillborn>>

\* detach: the behaviour is removed before its on_destroy runs.
Detach(e) ==
    /\ inside = Nobody /\ behavior[e] \in {"active", "paused"}
    /\ behavior' = [behavior EXCEPT ![e] = "none"]
    /\ inside' = RunHook("on_destroy", e)
    /\ UNCHANGED <<admin, registry, stillborn>>

\* The game loop's clean-up removes a ship and detaches its behaviours; an
\* administrator only detaches.
DetachBehavior(e, despawned) ==
    /\ despawned => body[e] = "here"
    /\ body' = IF despawned THEN [body EXCEPT ![e] = "gone"] ELSE body
    /\ Detach(e)

\* on_spawn returns: the behaviour is active; it throws: the behaviour and
\* the ship are removed.
SpawnHookEnds(ok) ==
    /\ inside.hook = "on_spawn" /\ inside.step = "run"
    /\ behavior' = [behavior EXCEPT ![inside.host] =
                        IF ok THEN "active" ELSE "none"]
    /\ body' = IF ok THEN body ELSE [body EXCEPT ![inside.host] = "gone"]
    /\ stillborn' = IF ok THEN stillborn ELSE stillborn \cup {inside.host}
    /\ inside' = Nobody
    /\ UNCHANGED <<admin, registry>>

\* on_update ends, and the changes its script queued are applied: a
\* destroyed ship leaves the game and keeps its behaviour.
UpdateHookEnds(destroyed) ==
    /\ inside.hook = "on_update" /\ inside.step = "run"
    /\ destroyed \subseteq {e \in Hosts : body[e] = "here"}
    /\ body' = [e \in Hosts |-> IF e \in destroyed THEN "gone" ELSE body[e]]
    /\ inside' = Nobody
    /\ UNCHANGED <<behavior, admin, registry, stillborn>>

\* Mutant of DestroyHookEnds: the ship's subscriptions are kept.
DestroyHookForgets ==
    /\ inside.hook = "on_destroy" /\ inside.step = "run"
    /\ inside' = Nobody
    /\ UNCHANGED <<body, behavior, admin, registry, stillborn>>

\* on_destroy ends: every subscription of the ship is dropped.
DestroyHookEnds ==
    /\ inside.hook = "on_destroy" /\ inside.step = "run"
    /\ inside' = [inside EXCEPT !.step = "each",
                                !.rest = by_owner[inside.host]]
    /\ UNCHANGED <<body, behavior, admin, registry, stillborn>>

-----------------------------------------------------------------------------
(* The registry: subscribe *)

\* A hook's script subscribes: the lists of the event types first,
SubscribeType(s) ==
    /\ inside.step = "run" /\ owner[s] = NoHost
    /\ owner' = [owner EXCEPT ![s] = inside.host]
    /\ by_event_type' = by_event_type \cup {s}
    /\ inside' = [inside EXCEPT !.step = "own", !.sub = s]
    /\ UNCHANGED <<body, behavior, admin, by_id, by_owner, stillborn>>

\* then the list of its owner,
SubscribeOwner ==
    /\ inside.step = "own"
    /\ by_owner' = [by_owner EXCEPT ![inside.host] = @ \cup {inside.sub}]
    /\ inside' = [inside EXCEPT !.step = "file"]
    /\ UNCHANGED <<body, behavior, admin, by_id, by_event_type, owner,
                   stillborn>>

\* then the map by id.
SubscribeId ==
    /\ inside.step = "file"
    /\ by_id' = by_id \cup {inside.sub}
    /\ inside' = [inside EXCEPT !.step = "run", !.sub = NoHost]
    /\ UNCHANGED <<body, behavior, admin, by_event_type, by_owner, owner,
                   stillborn>>

-----------------------------------------------------------------------------
(* The registry: unsubscribe *)

\* unsubscribe_for_entity takes the ids of the list one after the other; an
\* id that somebody else just removed is passed over.
UnsubscribeNext(s) ==
    /\ inside.step = "each" /\ s \in inside.rest
    /\ by_id' = by_id \ {s}
    /\ inside' = IF s \in by_id
                   THEN [inside EXCEPT !.step = "untype", !.sub = s,
                                       !.rest = @ \ {s}]
                   ELSE [inside EXCEPT !.rest = @ \ {s}]
    /\ UNCHANGED <<body, behavior, admin, by_event_type, by_owner, owner,
                   stillborn>>

UnsubscribeType ==
    /\ inside.step = "untype"
    /\ by_event_type' = by_event_type \ {inside.sub}
    /\ inside' = [inside EXCEPT !.step = "disown"]
    /\ UNCHANGED <<body, behavior, admin, by_id, by_owner, owner, stillborn>>

UnsubscribeOwner ==
    /\ inside.step = "disown"
    /\ by_owner' = [by_owner EXCEPT ![inside.host] = @ \ {inside.sub}]
    /\ inside' = [inside EXCEPT !.step = "each", !.sub = NoHost]
    /\ UNCHANGED <<body, behavior, admin, by_id, by_event_type, owner,
                   stillborn>>

\* At last the owner's list itself is dropped.  A script's unsubscribe_all
\* goes back to its hook.
UnsubscribeDone ==
    /\ inside.step = "each" /\ inside.rest = {}
    /\ by_owner' = [by_owner EXCEPT ![inside.host] = {}]
    /\ inside' = IF inside.hook = "on_destroy" THEN Nobody
                 ELSE [inside EXCEPT !.step = "run"]
    /\ UNCHANGED <<body, behavior, admin, by_id, by_event_type, owner,
                   stillborn>>

\* unsubscribe_all, called by a hook's script.
UnsubscribeAll ==
    /\ inside.step = "run" /\ inside.hook # "on_destroy"
    /\ by_owner[inside.host] # {}
    /\ inside' = [inside EXCEPT !.step = "each",
                                !.rest = by_owner[inside.host]]
    /\ UNCHANGED <<body, behavior, admin, registry, stillborn>>

\* An administrator removes a subscription, beside whatever the holder of
\* the manager's lock does: the map by id first,
AdminUnsubscribe(s) ==
    /\ admin = Nobody /\ s \in by_id
    /\ by_id' = by_id \ {s}
    /\ admin' = [Nobody EXCEPT !.host = owner[s], !.step = "untype",
                               !.sub = s]
    /\ UNCHANGED <<body, behavior, inside, by_event_type, by_owner, owner,
                   stillborn>>

\* then the lists of its event types,
AdminUntype ==
    /\ admin.step = "untype"
    /\ by_event_type' = by_event_type \ {admin.sub}
    /\ admin' = [admin EXCEPT !.step = "disown"]
    /\ UNCHANGED <<body, behavior, inside, by_id, by_owner, owner, stillborn>>

\* then its owner's list.
AdminDisown ==
    /\ admin.step = "disown"
    /\ by_owner' = [by_owner EXCEPT ![admin.host] = @ \ {admin.sub}]
    /\ admin' = Nobody
    /\ UNCHANGED <<body, behavior, inside, by_id, by_event_type, owner,
                   stillborn>>

BehaviorsNext ==
    \/ \E e \in Hosts : Attach(e)
    \/ \E e \in Hosts : Update(e)
    \/ \E e \in Hosts : Pause(e)
    \/ \E e \in Hosts : Resume(e)
    \/ \E e \in Hosts, despawned \in BOOLEAN : DetachBehavior(e, despawned)
    \/ \E ok \in BOOLEAN : SpawnHookEnds(ok)
    \/ \E destroyed \in SUBSET Hosts : UpdateHookEnds(destroyed)
    \/ DestroyHookEnds
    \/ \E s \in Subscriptions : SubscribeType(s)
    \/ SubscribeOwner
    \/ SubscribeId
    \/ \E s \in Subscriptions : UnsubscribeNext(s)
    \/ UnsubscribeType
    \/ UnsubscribeOwner
    \/ UnsubscribeDone
    \/ UnsubscribeAll
    \/ \E s \in Subscriptions : AdminUnsubscribe(s)
    \/ AdminUntype
    \/ AdminDisown

BehaviorsSpec == BehaviorsInit /\ [][BehaviorsNext]_beVars

-----------------------------------------------------------------------------
(* Properties *)

Owned(e) == {s \in Subscriptions : owner[s] = e}

\* When nobody is changing it, the registry's three indexes hold the same
\* subscriptions, whatever the order in which a ship's subscriptions were
\* dropped by its script, by its end and by an administrator.
IndexesAgree ==
    Quiet => /\ by_event_type = by_id
             /\ \A e \in Hosts : by_owner[e] = Owned(e) \cap by_id

\* A behaviour that was detached leaves no subscription behind: no handler
\* is ever called for a ship that has no behaviour.  Not so a behaviour
\* whose on_spawn failed: what it subscribed to stays.
NothingLeftBehind ==
    Quiet => \A e \in Hosts \ stillborn :
        behavior[e] = "none" => Owned(e) \cap (by_id \cup by_event_type) = {}

\* The registry of subscriptions keeps what behaviours need, and no more.
SubscriptionsKept == IndexesAgree /\ NothingLeftBehind
=============================================================================

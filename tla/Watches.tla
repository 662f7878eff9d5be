------------------------------- MODULE Watches -------------------------------
(***************************************************************************)
(* Watches of a property of an entity (bw-game/src/state/watchers.rs): a   *)
(* script registers one with a condition; whoever checks the entity is     *)
(* told which watches triggered.  The registry's three maps have a lock    *)
(* each, and a check holds the lock of the watches for one watch at a      *)
(* time, so the checkers interleave with each other and with pausing,      *)
(* resuming and removing.                                                  *)
(***************************************************************************)
EXTENDS Integers, Sequences, FiniteSets

CONSTANTS
    WatchIds,       \* ids of watches
    Checkers,       \* threads that check an entity
    NotSeen,        \* a watch has no last value
    MaxValue,       \* bound: the values of the property
    MaxResumes      \* bound: how often watches are resumed

ASSUME ValueAssumption == MaxValue \in Nat /\ MaxResumes \in Nat /\ NotSeen \notin Nat

VARIABLES
    watches,        \* the watches by id
    byEntity,       \* the ids listed under the entity
    value,          \* the property's value
    checking,       \* per checker: the ids it has still to look at
    toRemove,       \* per checker: the ids it removes when it is through
    fired,          \* history: how often each id triggered
    resumed         \* history: how often each id was resumed

watchVars == <<watches, byEntity, value, checking, toRemove, fired, resumed>>

Readings == 0..MaxValue
WatchConditions == {"changed", "less", "greater", "equal", "differs", "crossed", "in", "out"}
Watch == [condition : WatchConditions, once : BOOLEAN, active : BOOLEAN, last : Readings \cup {NotSeen}]
Gone == [condition |-> "none", once |-> FALSE, active |-> FALSE, last |-> NotSeen]

\* Type correctness.
WatchesTypeOK ==
    /\ watches \in [WatchIds -> Watch \cup {Gone}]
    /\ byEntity \subseteq WatchIds /\ value \in Readings
    /\ checking \in [Checkers -> SUBSET WatchIds]
    /\ toRemove \in [Checkers -> SUBSET WatchIds]
    /\ fired \in [WatchIds -> Nat] /\ resumed \in [WatchIds -> 0..MaxResumes]

WatchesInit ==
    /\ watches = [w \in WatchIds |-> Gone] /\ byEntity = {}
    /\ value = 0
    /\ checking = [c \in Checkers |-> {}] /\ toRemove = [c \in Checkers |-> {}]
    /\ fired = [w \in WatchIds |-> 0] /\ resumed = [w \in WatchIds |-> 0]

Registered(w) == watches[w] # Gone

-----------------------------------------------------------------------------
(* WatchConditions, for a threshold of 1 and a range of the value 1 alone *)

Side(v) == v >= 1

\* should_trigger's match: a watch that has seen no value has not crossed anything,
\* and finds its first value changed.
Holds(condition, last, v) ==
    CASE condition = "changed" -> last # v
      [] condition = "less" -> v < 1
      [] condition = "greater" -> v > 1
      [] condition = "equal" -> v = 1
      [] condition = "differs" -> v # 1
      [] condition = "crossed" -> last # NotSeen /\ Side(last) # Side(v)
      [] condition = "in" -> v = 1
      [] condition = "out" -> v # 1

\* Mutant of Spent: a one-shot watch stays active until it is removed.
SpentAtRemoval(watch) == watch

\* A one-shot watch that triggers is deactivated at once, under the lock.
Spent(watch) == [watch EXCEPT !.active = ~watch.once]

Triggers(w) == watches[w].active /\ Holds(watches[w].condition, watches[w].last, value)

\* should_trigger remembers the value of an active watch.
Looked(watch) == IF watch.active THEN [watch EXCEPT !.last = value] ELSE watch
AfterLook(w) == IF Triggers(w) THEN Spent(Looked(watches[w])) ELSE Looked(watches[w])

-----------------------------------------------------------------------------
(* The registry *)

\* register inserts the watch, then lists it under its entity and its script.
InsertWatch(w, condition, once) ==
    /\ ~Registered(w) /\ fired[w] = 0 /\ w \notin byEntity
    /\ watches' = [watches EXCEPT ![w] =
            [condition |-> condition, once |-> once, active |-> TRUE, last |-> NotSeen]]
    /\ UNCHANGED <<byEntity, value, checking, toRemove, fired, resumed>>

ListWatch(w) ==
    /\ Registered(w) /\ w \notin byEntity
    /\ byEntity' = byEntity \cup {w}
    /\ UNCHANGED <<watches, value, checking, toRemove, fired, resumed>>

\* unregister, of one watch, of those listed under an entity or a script.
Unregister(ids) ==
    /\ watches' = [w \in WatchIds |-> IF w \in ids THEN Gone ELSE watches[w]]
    /\ byEntity' = byEntity \ ids

UnregisterWatch(w) ==
    /\ Registered(w) /\ Unregister({w})
    /\ UNCHANGED <<value, checking, toRemove, fired, resumed>>

UnregisterListed ==
    /\ byEntity # {} /\ Unregister(byEntity)
    /\ UNCHANGED <<value, checking, toRemove, fired, resumed>>

SetActive(w, on) ==
    /\ Registered(w)
    /\ watches' = [watches EXCEPT ![w].active = on]
    /\ resumed' = [resumed EXCEPT ![w] = IF on THEN @ + 1 ELSE @]
    /\ UNCHANGED <<byEntity, value, checking, toRemove, fired>>

\* pause and resume, by id, at any time.
PauseWatch(w) == SetActive(w, FALSE)
ResumeWatch(w) == resumed[w] < MaxResumes /\ SetActive(w, TRUE)

SetValue(v) ==
    /\ value' = v
    /\ UNCHANGED <<watches, byEntity, checking, toRemove, fired, resumed>>

-----------------------------------------------------------------------------
(* check_entity *)

\* A copy of the ids listed under the entity.
BeginCheck(c) ==
    /\ checking[c] = {} /\ toRemove[c] = {}
    /\ byEntity # {}
    /\ checking' = [checking EXCEPT ![c] = byEntity]
    /\ UNCHANGED <<watches, byEntity, value, toRemove, fired, resumed>>

\* One watch, if it is still there, under the lock of the watches.
CheckWatch(c, w) ==
    /\ w \in checking[c]
    /\ checking' = [checking EXCEPT ![c] = @ \ {w}]
    /\ IF Registered(w)
       THEN /\ watches' = [watches EXCEPT ![w] = AfterLook(w)]
            /\ fired' = [fired EXCEPT ![w] = IF Triggers(w) /\ watches[w].once THEN @ + 1 ELSE @]
            /\ toRemove' = [toRemove EXCEPT ![c] =
                    IF Triggers(w) /\ watches[w].once THEN @ \cup {w} ELSE @]
       ELSE UNCHANGED <<watches, fired, toRemove>>
    /\ UNCHANGED <<byEntity, value, resumed>>

\* The watches that are spent are unregistered after the last lock is released.
EndCheck(c) ==
    /\ checking[c] = {} /\ toRemove[c] # {}
    /\ Unregister(toRemove[c])
    /\ toRemove' = [toRemove EXCEPT ![c] = {}]
    /\ UNCHANGED <<value, checking, fired, resumed>>

WatchesNext ==
    \/ \E w \in WatchIds : \/ ListWatch(w) \/ UnregisterWatch(w) \/ PauseWatch(w) \/ ResumeWatch(w)
                           \/ \E k \in WatchConditions, once \in BOOLEAN : InsertWatch(w, k, once)
                           \/ \E c \in Checkers : CheckWatch(c, w)
    \/ \E c \in Checkers : BeginCheck(c) \/ EndCheck(c)
    \/ \E v \in Readings : SetValue(v)
    \/ UnregisterListed

WatchesSpec == WatchesInit /\ [][WatchesNext]_watchVars

-----------------------------------------------------------------------------
(* Properties *)

\* However many threads check its entity, a one-shot watch triggers once, and once
\* more for each time it is resumed before it is removed (watchers.rs:166).
OnceMeansOnce == \A w \in WatchIds : fired[w] <= 1 + resumed[w]
=============================================================================

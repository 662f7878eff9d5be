------------------------------- MODULE GameData -------------------------------
(***************************************************************************)
(* The archetypes that scripts look up, loaded from scripts/definitions    *)
(* (ArchetypeRegistry in bw-game's archetypes/registry.rs), while their    *)
(* files are edited and reloads overlap.  One load stands for load_ships,  *)
(* load_weapons and the other four, which differ in nothing but their      *)
(* names; so do the shelves they fill.  The register_ functions, which     *)
(* only tests call, are left out.                                          *)
(***************************************************************************)
EXTENDS Naturals, Sequences, FiniteSets, SequencesExt

CONSTANTS
    Shelves,        \* ships, weapons, effects, abilities, cargo, factions
    Archetypes,     \* identifiers of archetypes
    Stockers,       \* threads that load definitions
    NoStocker,      \* nobody holds the write lock
    NoEntry,        \* no archetype of this identifier
    MaxTexts        \* bound: how often definition files are written

ASSUME MaxTextsAssumption == MaxTexts \in Nat
ASSUME ShelfAssumption ==
    Shelves # {} /\ IsFiniteSet(Shelves) /\ NoStocker \notin Stockers

VARIABLES
    editions,       \* per shelf: the texts its file has had, the last one its present
    shelf,          \* per shelf: the edition each archetype was read from
    writing,        \* per shelf: the holder of its write lock
    task,           \* per thread: what it loads
    filled          \* history: shelves loaded since they were last cleared

dataVars == <<editions, shelf, writing, task, filled>>

Texts == [sort: {"broken", "wrong"}, holds: {{}}]
         \cup [sort: {"good"}, holds: SUBSET Archetypes]
Waiting == [step |-> "idle", rest |-> <<>>, text |-> 0, left |-> {}]
Bare == [i \in Archetypes |-> NoEntry]

\* Type correctness.
DataTypeOK ==
    /\ editions \in [Shelves -> Seq(Texts)]
    /\ shelf \in [Shelves -> [Archetypes -> (1..MaxTexts) \cup {NoEntry}]]
    /\ writing \in [Shelves -> Stockers \cup {NoStocker}]
    /\ task \in [Stockers -> [step: {"idle", "look", "read", "ready", "fill", "clear"},
                              rest: Seq(Shelves), text: 0..MaxTexts,
                              left: SUBSET Archetypes]]
    /\ filled \subseteq Shelves

DataInit ==
    /\ editions = [k \in Shelves |-> <<>>]
    /\ shelf = [k \in Shelves |-> Bare]
    /\ writing = [k \in Shelves |-> NoStocker]
    /\ task = [l \in Stockers |-> Waiting]
    /\ filled = {}

-----------------------------------------------------------------------------
(* The files *)

Written == {p \in Shelves \X (1..MaxTexts) : p[2] \in DOMAIN editions[p[1]]}

EditDefinitions(k, t) ==
    /\ Cardinality(Written) < MaxTexts
    /\ editions' = [editions EXCEPT ![k] = Append(@, t)]
    /\ UNCHANGED <<shelf, writing, task, filled>>

-----------------------------------------------------------------------------
(* The registry *)

Kind(l) == Head(task[l].rest)

\* The order of the shelves in load_from_directory and clear.
Directory == SetToSeq(Shelves)

\* The next shelf of the directory, or the end.
NextShelf(l) ==
    task' = [task EXCEPT ![l] =
        IF Len(@.rest) = 1 THEN Waiting
        ELSE [Waiting EXCEPT !.step = "look", !.rest = Tail(task[l].rest)]]

\* load_from_directory takes the shelves in its order; reload is given one.
BeginLoad(l, order) ==
    /\ task[l] = Waiting
    /\ task' = [task EXCEPT ![l].step = "look", ![l].rest = order]
    /\ UNCHANGED <<editions, shelf, writing, filled>>

\* The file is read, if it is there.
ReadDefinitions(l) ==
    /\ task[l].step = "look"
    /\ IF editions[Kind(l)] = <<>> THEN NextShelf(l)
       ELSE task' = [task EXCEPT ![l].step = "read", ![l].text = Len(editions[Kind(l)])]
    /\ UNCHANGED <<editions, shelf, writing, filled>>

\* It is compiled and run before the shelf is touched: a text that does not compile,
\* or whose function throws or returns no array, ends the load with an error.
RunDefinitions(l) ==
    /\ task[l].step = "read"
    /\ IF editions[Kind(l)][task[l].text].sort = "good"
       THEN task' = [task EXCEPT ![l].step = "ready"]
       ELSE NextShelf(l)
    /\ UNCHANGED <<editions, shelf, writing, filled>>

\* Mutant of Emptied: what the text no longer holds stays.
EmptiedNot(k) == shelf[k]

Emptied(k) == Bare

\* The write lock is taken and the shelf emptied,
TakeShelf(l) ==
    /\ task[l].step = "ready" /\ writing[Kind(l)] = NoStocker
    /\ writing' = [writing EXCEPT ![Kind(l)] = l]
    /\ shelf' = [shelf EXCEPT ![Kind(l)] = Emptied(Kind(l))]
    /\ task' = [task EXCEPT ![l].step = "fill",
                            ![l].left = editions[Kind(l)][task[l].text].holds]
    /\ UNCHANGED <<editions, filled>>

\* each archetype that can be read is put on it,
PutArchetype(l, i) ==
    /\ task[l].step = "fill" /\ i \in task[l].left
    /\ shelf' = [shelf EXCEPT ![Kind(l)][i] = task[l].text]
    /\ task' = [task EXCEPT ![l].left = @ \ {i}]
    /\ UNCHANGED <<editions, writing, filled>>

\* and the lock is given back.
LeaveShelf(l) ==
    /\ task[l].step = "fill" /\ task[l].left = {}
    /\ writing' = [writing EXCEPT ![Kind(l)] = NoStocker]
    /\ filled' = filled \cup {Kind(l)}
    /\ NextShelf(l)
    /\ UNCHANGED <<editions, shelf>>

\* clear empties one shelf after the other.
BeginClear(l) ==
    /\ task[l] = Waiting
    /\ task' = [task EXCEPT ![l].step = "clear", ![l].rest = Directory]
    /\ UNCHANGED <<editions, shelf, writing, filled>>

ClearShelf(l) ==
    /\ task[l].step = "clear" /\ writing[Kind(l)] = NoStocker
    /\ shelf' = [shelf EXCEPT ![Kind(l)] = Bare]
    /\ filled' = filled \ {Kind(l)}
    /\ task' = [task EXCEPT ![l] =
            IF Len(@.rest) = 1 THEN Waiting ELSE [@ EXCEPT !.rest = Tail(task[l].rest)]]
    /\ UNCHANGED <<editions, writing>>

DataNext ==
    \/ \E k \in Shelves, t \in Texts : EditDefinitions(k, t)
    \/ \E l \in Stockers : \E order \in {Directory} \cup {<<k>> : k \in Shelves} :
            BeginLoad(l, order)
    \/ \E l \in Stockers : ReadDefinitions(l)
    \/ \E l \in Stockers : RunDefinitions(l)
    \/ \E l \in Stockers : TakeShelf(l)
    \/ \E l \in Stockers, i \in Archetypes : PutArchetype(l, i)
    \/ \E l \in Stockers : LeaveShelf(l)
    \/ \E l \in Stockers : BeginClear(l)
    \/ \E l \in Stockers : ClearShelf(l)

DataSpec == DataInit /\ [][DataNext]_dataVars

-----------------------------------------------------------------------------
(* Properties *)

Of(holds, n) == [i \in Archetypes |-> IF i \in holds THEN n ELSE NoEntry]

\* Whoever looks while nobody writes sees the archetypes of one edition of the
\* file, whole and of a text that ran, whatever loads overlapped: never some of two
\* editions, and never an empty shelf because the last text was broken.
ShelvesWhole ==
    \A k \in Shelves : writing[k] = NoStocker =>
        IF k \in filled
        THEN \E n \in DOMAIN editions[k] :
                editions[k][n].sort = "good" /\ shelf[k] = Of(editions[k][n].holds, n)
        ELSE shelf[k] = Bare
=============================================================================

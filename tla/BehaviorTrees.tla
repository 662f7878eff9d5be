--------------------------- MODULE BehaviorTrees ---------------------------
(***************************************************************************)
(* Behaviour trees of entities: bw-ai/src/runner.rs, behavior_tree.rs and  *)
(* utility.rs, and the part of bw-scripting/src/behaviors/manager.rs that  *)
(* sets, ticks and clears them.  A tree is a function from the paths of    *)
(* its nodes; the child i of a node is at the node's path and Label(n, i). *)
(* A named subtree is part of the trees that refer to it, as one child; a  *)
(* reference to a name that nobody registered has none.                    *)
(*                                                                         *)
(* The runner walks a tree from its root once per tick and keeps, for the  *)
(* entity and the path of a node, what the node must know at the next      *)
(* tick.  A step of the model enters a node or returns from one: calls are *)
(* the calls of run_node that have not returned, came is the status the    *)
(* last one returned to the node above.  The game loop holds the manager's *)
(* write lock during a walk, so nobody else changes anything.  What a      *)
(* script function answers is a choice.  The data that actions write back, *)
(* the trace and a Repeat without a count are left out.                    *)
(*                                                                         *)
(* Names are those of the source: child, count, last, waited and stored    *)
(* are the fields of BtNodeState.  A Timeout keeps its start under a key   *)
(* of its own; nothing else is kept at its path, so last stands for both.  *)
(***************************************************************************)
EXTENDS Integers, Sequences, SequencesExt

CONSTANTS
  Bodies,         \* entities
  Minds,          \* behaviours with a tree, several may share an entity
  BodyOf,         \* [Minds -> Bodies]
  Trees,          \* trees a script may build
  SubtreeNames,   \* names a tree may refer to a subtree by
  NoTree,         \* a behaviour without a tree
  NoMind,         \* nobody is walked
  MaxClock        \* bound on the game time

Composites == {"sequence", "selector", "force"}
Wrappers   == {"invert", "always", "until_fail", "repeat", "cooldown", "run_once",
               "timeout", "subtree"}
Leaves     == {"action", "condition", "utility", "fixed", "wait"}
Status     == {"success", "failure", "running"}

\* arg: repetitions, seconds, ticks or the number of a utility's options; status: what
\* Succeed, Fail and their decorators return; name: of a subtree.
Node == [kind : Composites \cup Wrappers \cup Leaves, arg : Nat, status : Status,
         name : SubtreeNames, kids : Nat]

\* The part of a path that leads to child i.
Label(n, i) ==
  <<IF n.kind \in Composites THEN n.kind ELSE IF n.kind = "subtree" THEN n.name ELSE "child", i>>

Links == (Composites \cup {"child"} \cup SubtreeNames) \X Nat
Paths == Seq(Links)

IsTree(t) ==
  /\ <<>> \in DOMAIN t /\ DOMAIN t \subseteq Paths
  /\ \A p \in DOMAIN t :
       /\ t[p] \in Node
       /\ t[p].kind \in Wrappers \ {"subtree"} => t[p].kids = 1
       /\ \A i \in 1..t[p].kids : Append(p, Label(t[p], i)) \in DOMAIN t

ASSUME TreesAssumption ==
  /\ BodyOf \in [Minds -> Bodies] /\ NoMind \notin Minds
  /\ \A t \in Trees : IsTree(t)
  /\ NoTree \notin Trees /\ MaxClock \in Nat

VARIABLES
  tree,           \* [Minds -> Trees \cup {NoTree}], EntityBehavior.behavior_tree
  memory,         \* [Bodies -> [paths -> node state]], BehaviorTreeRunner.states
  clock,          \* current_game_time
  walker,         \* the behaviour whose tree is walked
  calls,          \* its nodes that run, from the root: path, child that runs, worst status
  came,           \* what the child of the last of them returned, if it did
  writers,        \* history: trees that ran on the body since its memory was cleared
  latest,         \* while it is one, [Bodies -> [paths -> kind and last status of the node]]
  wins            \* while it is one, [Bodies -> [paths -> child successes of a Repeat]]

walk   == <<walker, calls, came>>
btVars == <<tree, memory, clock, walk, latest, writers, wins>>

OneWriter(e) == \A s, t \in writers[e] : s = t

NoTime == -1
NoStatus == "none"
Blank == [child |-> 1, count |-> 0, last |-> NoTime, waited |-> 0, stored |-> NoStatus]

Recall(m, p) == IF p \in DOMAIN m THEN m[p] ELSE Blank
Keep(m, p, s) == [q \in DOMAIN m \cup {p} |-> IF q = p THEN s ELSE m[q]]
Wipe(m, p) == [q \in DOMAIN m \ {p} |-> m[q]]

-----------------------------------------------------------------------------
(* The node that runs *)

Top  == calls[Len(calls)]
Here == Top.at
This == tree[walker][Here]
Body == BodyOf[walker]
Mine == memory[Body]

Begun(p) == [at |-> p, child |-> 1, worst |-> "success"]

\* Its call goes on as f, and runs its child.
Descend(f, m) ==
  /\ calls' = Append([calls EXCEPT ![Len(calls)] = f], Begun(Append(Here, Label(This, f.child))))
  /\ came' = NoStatus
  /\ memory' = [memory EXCEPT ![Body] = m]
  /\ UNCHANGED <<tree, clock, walker, latest, writers, wins>>

\* History of a Repeat: its child's successes since it last ended.
Counted(s) ==
  LET before == IF Here \in DOMAIN wins[Body] THEN wins[Body][Here].count ELSE 0
      won    == IF came = "success" THEN 1 ELSE 0
  IN  [count    |-> IF s = "running" THEN before + won ELSE 0,
       reported |-> IF s = "success" THEN before ELSE -1,
       wanted   |-> This.arg]

\* What the history notes of its return.
Note(s) ==
  /\ latest' = IF ~OneWriter(Body) THEN latest ELSE
       [latest EXCEPT ![Body] = Keep(latest[Body], Here, [kind |-> This.kind, status |-> s])]
  /\ wins' = IF This.kind # "repeat" \/ ~OneWriter(Body) THEN wins ELSE
       [wins EXCEPT ![Body] = Keep(wins[Body], Here, Counted(s))]

\* It returns s to the node above, or the walk ends.
Return(s, m) ==
  /\ calls' = Front(calls)
  /\ came' = IF Len(calls) = 1 THEN NoStatus ELSE s
  /\ walker' = IF Len(calls) = 1 THEN NoMind ELSE walker
  /\ memory' = [memory EXCEPT ![Body] = m]
  /\ Note(s)
  /\ UNCHANGED <<tree, clock, writers>>

Enters == walker # NoMind /\ came = NoStatus
Resumes == walker # NoMind /\ came # NoStatus

-----------------------------------------------------------------------------
(* Leaves *)

RunAction ==
  /\ Enters /\ This.kind = "action"
  /\ \E s \in Status : Return(s, Mine)

RunCondition ==
  /\ Enters /\ This.kind = "condition"
  /\ \E s \in {"success", "failure"} : Return(s, Mine)

\* The option with the highest positive score, the last one among equals.
Decision(score) ==
  LET Positive == {i \in DOMAIN score : score[i] > 0}
  IN  {i \in Positive : \A j \in Positive : score[j] < score[i] \/ (score[j] = score[i] /\ j <= i)}

RunUtility ==
  /\ Enters /\ This.kind = "utility"
  /\ \E score \in [1..This.arg -> 0..1] :
       \/ Decision(score) = {} /\ Return("failure", Mine)
       \/ Decision(score) # {} /\ \E s \in Status : Return(s, Mine)

RunFixed ==
  /\ Enters /\ This.kind = "fixed"
  /\ Return(This.status, Mine)

RunWait ==
  /\ Enters /\ This.kind = "wait"
  /\ LET s == [Recall(Mine, Here) EXCEPT !.waited = @ + 1]
     IN  IF s.waited >= This.arg THEN Return("success", Wipe(Mine, Here))
                                 ELSE Return("running", Keep(Mine, Here, s))

-----------------------------------------------------------------------------
(* run_sequence, run_selector and run_force_sequence *)

\* Mutant of Broken: a sequence that fails keeps its place.
BrokenInPlace(m, p) == m

\* A sequence that fails, or a selector that succeeds, forgets its place.
Broken(m, p) == Wipe(m, p)

Stops  == IF This.kind = "sequence" THEN "failure" ELSE "success"
Passes == IF This.kind = "sequence" THEN "success" ELSE "failure"

\* On to child i, or the end: a forced sequence returns the worst status.
GoOn(i, worst) ==
  IF i <= This.kids THEN Descend([at |-> Here, child |-> i, worst |-> worst], Mine)
  ELSE IF This.kind = "force" THEN Return(worst, Mine)
  ELSE Return(Passes, Wipe(Mine, Here))

RunChildren ==
  /\ Enters /\ This.kind \in Composites
  /\ GoOn(IF This.kind = "force" THEN 1 ELSE Recall(Mine, Here).child, "success")

ChildReturns ==
  /\ Resumes /\ This.kind \in {"sequence", "selector"}
  /\ \/ came = Stops /\ Return(Stops, Broken(Mine, Here))
     \/ came = "running"
        /\ Return("running", Keep(Mine, Here, [Recall(Mine, Here) EXCEPT !.child = Top.child]))
     \/ came = Passes /\ GoOn(Top.child + 1, "success")

ForcedReturns ==
  /\ Resumes /\ This.kind = "force"
  /\ GoOn(Top.child + 1, IF "running" \in {Top.worst, came} THEN "running"
                         ELSE IF "failure" \in {Top.worst, came} THEN "failure" ELSE "success")

-----------------------------------------------------------------------------
(* run_decorator and run_subtree *)

\* Whether a Repeat has had all its repetitions.
Exhausted(m, p, max) == p \in DOMAIN m /\ m[p].count >= max

\* What is returned without running the child, if it is not run.
Refusal ==
  LET s == Recall(Mine, Here)
  IN  CASE This.kind = "repeat" /\ Exhausted(Mine, Here, This.arg) -> "success"
        [] This.kind = "cooldown" /\ s.last # NoTime /\ clock - s.last < This.arg -> "failure"
        [] This.kind = "run_once" -> s.stored
        [] This.kind = "timeout" /\ s.last # NoTime /\ clock - s.last > This.arg -> "failure"
        [] This.kind = "subtree" /\ This.kids = 0 -> "failure"
        [] OTHER -> NoStatus

Refuse ==
  /\ Enters /\ This.kind \in Wrappers /\ Refusal # NoStatus
  /\ Return(Refusal, IF This.kind = "repeat" THEN Wipe(Mine, Here) ELSE Mine)

Started(s) == [s EXCEPT !.last = IF s.last = NoTime THEN clock ELSE s.last]

RunChild ==
  /\ Enters /\ This.kind \in Wrappers /\ Refusal = NoStatus
  /\ Descend(Begun(Here), IF This.kind = "timeout"
                            THEN Keep(Mine, Here, Started(Recall(Mine, Here))) ELSE Mine)

Translated ==
  CASE This.kind = "invert" /\ came = "success" -> "failure"
    [] This.kind = "invert" /\ came = "failure" -> "success"
    [] This.kind = "always" -> This.status
    [] This.kind = "until_fail" -> IF came = "failure" THEN "success" ELSE "running"
    [] This.kind = "repeat" /\ came = "success" -> "running"
    [] OTHER -> came

Remembered ==
  LET s == Recall(Mine, Here)
  IN  CASE This.kind = "repeat" /\ came = "success" -> Keep(Mine, Here, [s EXCEPT !.count = @ + 1])
        [] This.kind = "repeat" /\ came = "failure" -> Wipe(Mine, Here)
        [] This.kind = "cooldown" /\ came = "success" -> Keep(Mine, Here, [s EXCEPT !.last = clock])
        [] This.kind = "run_once" /\ came # "running" -> Keep(Mine, Here, [s EXCEPT !.stored = came])
        [] This.kind = "timeout" /\ came # "running" -> Wipe(Mine, Here)
        [] OTHER -> Mine

WrappedReturns ==
  /\ Resumes /\ This.kind \in Wrappers
  /\ Return(Translated, Remembered)

-----------------------------------------------------------------------------

BehaviorTreesInit ==
  /\ tree = [b \in Minds |-> NoTree]
  /\ memory = [e \in Bodies |-> <<>>]
  /\ clock = 0
  /\ walker = NoMind /\ calls = <<>> /\ came = NoStatus
  /\ latest = [e \in Bodies |-> <<>>]
  /\ writers = [e \in Bodies |-> {}]
  /\ wins = [e \in Bodies |-> <<>>]

\* set_behavior_tree: the entity's memory stays.
SetTree(b, t) ==
  /\ walker = NoMind
  /\ tree' = [tree EXCEPT ![b] = t]
  /\ UNCHANGED <<memory, clock, walk, latest, writers, wins>>

\* clear_behavior_tree, with a tree or without: the memory of the whole entity goes.
ClearTree(b) ==
  /\ walker = NoMind
  /\ tree' = [tree EXCEPT ![b] = NoTree]
  /\ memory' = [memory EXCEPT ![BodyOf[b]] = <<>>]
  /\ latest' = [latest EXCEPT ![BodyOf[b]] = <<>>]
  /\ writers' = [writers EXCEPT ![BodyOf[b]] = {}]
  /\ wins' = [wins EXCEPT ![BodyOf[b]] = <<>>]
  /\ UNCHANGED <<clock, walk>>

\* tick_behavior_trees for one behaviour; the manager takes them one after the
\* other.  Time passes before each (update_all adds the delta first).
TickTree(b) ==
  /\ walker = NoMind /\ tree[b] # NoTree
  /\ clock < MaxClock /\ clock' \in {clock, clock + 1}
  /\ walker' = b /\ calls' = <<Begun(<<>>)>>
  /\ writers' = [writers EXCEPT ![BodyOf[b]] = @ \cup {tree[b]}]
  /\ LET e == BodyOf[b]
     IN  \/ OneWriter(e)' /\ UNCHANGED <<latest, wins>>
         \/ /\ ~OneWriter(e)'
            /\ latest' = [latest EXCEPT ![e] = <<>>] /\ wins' = [wins EXCEPT ![e] = <<>>]
  /\ UNCHANGED <<tree, memory, came>>

RunNode ==
  \/ RunAction \/ RunCondition \/ RunUtility \/ RunFixed \/ RunWait
  \/ RunChildren \/ ChildReturns \/ ForcedReturns
  \/ Refuse \/ RunChild \/ WrappedReturns

BehaviorTreesNext ==
  \/ RunNode
  \/ \E b \in Minds : \/ \E t \in Trees : SetTree(b, t)
                      \/ ClearTree(b)
                      \/ TickTree(b)

BehaviorTreesSpec == BehaviorTreesInit /\ [][BehaviorTreesNext]_btVars

-----------------------------------------------------------------------------

NodeState == [child : Nat \ {0}, count : Nat, last : {NoTime} \cup 0..MaxClock, waited : Nat,
              stored : {NoStatus, "success", "failure"}]

\* Type invariant.
BehaviorTreesTypeOK ==
  /\ tree \in [Minds -> Trees \cup {NoTree}]
  /\ clock \in 0..MaxClock
  /\ \A e \in Bodies : \A p \in DOMAIN memory[e] : memory[e][p] \in NodeState
  /\ walker \in Minds \cup {NoMind} /\ came \in Status \cup {NoStatus}
  /\ calls \in Seq([at : Paths, child : Nat \ {0}, worst : Status])
  /\ walker = NoMind <=> calls = <<>>

\* The nodes of an entity's tree that are being run.
BeingRun(e) ==
  IF walker # NoMind /\ Body = e THEN {calls[k].at : k \in DOMAIN calls} ELSE {}

\* As long as one tree has been writing an entity's memory, a sequence or a
\* selector that is not being run has a place to resume at exactly when its last
\* run ended in Running, and that place is a child that was running then: nothing
\* is skipped and nothing that had ended is resumed (runner.rs:193-257).
ResumesTheRunning ==
  \A e \in Bodies : OneWriter(e) =>
    \A p \in DOMAIN latest[e] \ BeingRun(e) :
      LET n == latest[e][p]
      IN  n.kind \in {"sequence", "selector"} =>
            /\ (p \in DOMAIN memory[e]) <=> n.status = "running"
            /\ p \in DOMAIN memory[e] =>
                 latest[e][Append(p, <<n.kind, memory[e][p].child>>)].status = "running"

\* A Repeat that reports success had exactly the wanted number of successes of
\* its child since it last ended; of none, it takes one (runner.rs:456-481).
RepeatsExactly ==
  \A e \in Bodies : OneWriter(e) =>
    \A p \in DOMAIN wins[e] :
      LET wanted == IF wins[e][p].wanted = 0 THEN 1 ELSE wins[e][p].wanted
      IN  wins[e][p].count <= wanted /\ wins[e][p].reported \in {-1, wanted}

\* What a tree remembers from one run to the next is what it needs to go on.
TreesResume == ResumesTheRunning /\ RepeatsExactly
=============================================================================

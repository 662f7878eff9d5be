------------------------------ MODULE MCCoroutines ------------------------------
(***************************************************************************)
(* The scheduler of coroutines, the debugger of scripts and behaviour      *)
(* trees, checked in one run: the three places where a script is suspended *)
(* and must go on.  The modules share no variable: `part` says which of    *)
(* them a behaviour is about, and the others keep their initial state.     *)
(***************************************************************************)
EXTENDS Coroutines, Debugger, BehaviorTrees

VARIABLE part

suspendVars == <<part, vars, dbVars, btVars>>

SuspendInit ==
    /\ part \in {"coroutines", "debugger", "trees"}
    /\ Init /\ DebuggerInit /\ BehaviorTreesInit

SuspendNext ==
    \/ /\ part = "coroutines" /\ Next
       /\ UNCHANGED <<part, dbVars, btVars>>
    \/ /\ part = "debugger" /\ DebuggerNext
       /\ UNCHANGED <<part, vars, btVars>>
    \/ /\ part = "trees" /\ BehaviorTreesNext
       /\ UNCHANGED <<part, vars, dbVars>>

\* The fairness of FairSpec and DebuggerFairness, each for its own part.
SuspendFairness ==
    /\ WF_vars(part = "coroutines" /\ Tick)
    /\ WF_dbVars(part = "debugger" /\ HookReturns)
    /\ \A s \in DebugSessions :
        /\ WF_dbVars(part = "debugger" /\ ForwardPause(s))
        /\ WF_dbVars(part = "debugger" /\ ServeCommand(s))
        /\ WF_dbVars(part = "debugger" /\ Terminate(s))

SuspendSpec == SuspendInit /\ [][SuspendNext]_suspendVars /\ SuspendFairness

\* The type invariants of the modules: among them, no tick executes more coroutines
\* than its budget (MayRun).
SuspendTypeOK == TypeOK /\ DebuggerTypeOK /\ BehaviorTreesTypeOK

\* The tree with n at its root and the trees in kids below it.
Rooted(n, kids) ==
    [p \in {<<>>} \cup UNION {{<<Label(n, i)>> \o q : q \in DOMAIN kids[i]} : i \in DOMAIN kids} |->
       IF p = <<>> THEN n ELSE kids[p[1][2]][Tail(p)]]

Over(k, a, kids) ==
    Rooted([kind |-> k, arg |-> a, status |-> "success", name |-> "", kids |-> Len(kids)], kids)
Fixed(k, s, kids) ==
    Rooted([kind |-> k, arg |-> 0, status |-> s, name |-> "", kids |-> Len(kids)], kids)
Named(n, kids) ==
    Rooted([kind |-> "subtree", arg |-> 0, status |-> "success", name |-> n, kids |-> Len(kids)], kids)
Action == Over("action", 0, <<>>)

\* Two trees that hold every kind of node, and one named subtree with a reference
\* to a tree nobody registered.
MCTrees == {
    Over("selector", 0, <<
        Over("sequence", 0, <<Action, Over("timeout", 0, <<Over("repeat", 2, <<Action>>)>>)>>),
        Over("utility", 2, <<>>)>>),
    Over("force", 0, <<
        Over("cooldown", 1, <<Over("wait", 2, <<>>)>>),
        Over("invert", 0, <<Over("run_once", 0, <<
            Over("sequence", 0, <<Over("condition", 0, <<>>), Fixed("fixed", "success", <<>>)>>)>>)>>),
        Over("until_fail", 0, <<Fixed("always", "failure", <<
            Named("aim", <<Over("selector", 0, <<Action, Named("lost", <<>>)>>)>>)>>)>>)>>)}
MCBodyOf == [b \in Minds |-> CHOOSE e \in Bodies : TRUE]
=============================================================================

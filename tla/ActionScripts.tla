----------------------------- MODULE ActionScripts -----------------------------
(***************************************************************************)
(* Action scripts, what the validator of bw-scripting says of them         *)
(* (validators.rs with what analysis.rs collects) and what the server does *)
(* with them: at its start it calls init() of each, in the order of a hash *)
(* map, and what init() registers serves the players' actions.  Scripts    *)
(* are written step by step, checked, and then run.  Names are literals:   *)
(* the validator reads registrations from the text, with comments, and     *)
(* sees no computed name.                                                  *)
(***************************************************************************)
EXTENDS Naturals, Sequences, FiniteSets, Functions

CONSTANTS
    ActionFiles,    \* scripts under actions/
    Handlers,       \* names of functions
    ActionNames,    \* actions players ask for
    Unserved,       \* no handler is registered
    MaxLines        \* bound: functions and statements of all files

ASSUME ActionFilesAssumption == IsFiniteSet(ActionFiles)

VARIABLES
    defined,        \* how each function of a file is defined
    statements,     \* the statements of its init(), in order
    hasInit,        \* it has an init()
    toInit,         \* scripts whose init() is still to be called
    begun,          \* the server has started
    served,       \* ActionRegistry.handlers
    registrars      \* the scripts that registered an action (history)

actionVars == <<defined, statements, hasInit, toInit, begun, served, registrars>>

\* A function has two parameters, others, or exists both ways with the others
\* found first; or it has two and its body uses an undefined name or the like.
Definitions == {"none", "right", "wrong", "wrong first", "faulty"}

\* What a line of init() does; a call of the API passes as many arguments as
\* wanted, others, or none.
Lines ==
    [op: {"register", "require", "comment", "subscribe"}, action: ActionNames,
     handler: Handlers]
    \cup [op: {"call"}, args: {"right", "wrong", "none"}]

Registers(line) == line.op \in {"register", "require"}

\* Type correctness.
ActionsTypeOK ==
    /\ defined \in [ActionFiles -> [Handlers -> Definitions]]
    /\ hasInit \in [ActionFiles -> BOOLEAN]
    /\ statements \in [ActionFiles -> Seq(Lines)]
    /\ toInit \subseteq ActionFiles /\ begun \in BOOLEAN
    /\ served \in [ActionNames ->
            [script: ActionFiles, handler: Handlers] \cup {Unserved}]
    /\ registrars \in [ActionNames -> SUBSET ActionFiles]

ActionsInit ==
    /\ defined = [s \in ActionFiles |-> [h \in Handlers |-> "none"]]
    /\ statements = [s \in ActionFiles |-> <<>>]
    /\ hasInit = [s \in ActionFiles |-> FALSE]
    /\ toInit = {} /\ begun = FALSE
    /\ served = [a \in ActionNames |-> Unserved]
    /\ registrars = [a \in ActionNames |-> {}]

-----------------------------------------------------------------------------
(* The validator. *)

\* The lines that register an action by name, in the text: a comment may.
PlainLines(s) ==
    {i \in DOMAIN statements[s] : statements[s][i].op \in {"register", "comment"}}

\* A registration with requirements of an action found before is passed over.
Overlooked(s, i) ==
    /\ statements[s][i].op = "require"
    /\ \E j \in PlainLines(s) \cup {k \in 1..i - 1 : statements[s][k].op = "require"} :
            statements[s][j].action = statements[s][i].action

\* extract_registered_actions: the plain registrations of the text, then those
\* with requirements, one of each action.
Extracted(s) ==
    PlainLines(s) \cup
    {i \in DOMAIN statements[s] : statements[s][i].op = "require" /\ ~Overlooked(s, i)}

\* What the walk over the syntax tree collects, comments left out: the calls of the
\* API and the subscriptions to events.
CallsOf(s) == {i \in DOMAIN statements[s] : statements[s][i].op = "call"}
SubscriptionsOf(s) == {i \in DOMAIN statements[s] : statements[s][i].op = "subscribe"}

\* check_api_calls: only the first call of a function is checked, and only with
\* arguments.
MiscountedCall(s) ==
    \E i \in CallsOf(s) :
        statements[s][i].args = "wrong" /\ \A j \in CallsOf(s) : i <= j

\* E004 and E005: there is no such function, or the first of that name has not two
\* parameters.
Misfit(s, h) == defined[s][h] \in {"none", "wrong", "wrong first"}

\* What the analysis of that function reports (check_handler_with_ast).
FaultyBody(s, h) == defined[s][h] = "faulty"

\* check_event_subscriptions: the handler's name exists.
BadSubscription(s) ==
    \E i \in SubscriptionsOf(s) : defined[s][statements[s][i].handler] = "none"

\* validate_file reports no error.
ValidFile(s) ==
    /\ hasInit[s]
    /\ \A i \in Extracted(s) :
            LET h == statements[s][i].handler IN ~Misfit(s, h) /\ ~FaultyBody(s, h)
    /\ ~MiscountedCall(s) /\ ~BadSubscription(s)

\* check_cross_script_dependencies: the action is found more than once.
ConflictWarned(a) ==
    \E s, r \in ActionFiles : \E i \in Extracted(s), j \in Extracted(r) :
        /\ <<s, i>> # <<r, j>>
        /\ statements[s][i].action = a /\ statements[r][j].action = a

-----------------------------------------------------------------------------
(* Writing the scripts, and the start of the server. *)

LinesWritten ==
    LET Of(s) == Len(statements[s]) + (IF hasInit[s] THEN 1 ELSE 0)
                 + Cardinality({h \in Handlers : defined[s][h] # "none"})
    IN  FoldFunction(+, 0, [s \in ActionFiles |-> Of(s)])

StillWriting == ~begun /\ LinesWritten < MaxLines

WriteFunction(s, h, how) ==
    /\ StillWriting /\ defined[s][h] = "none" /\ how # "none"
    /\ defined' = [defined EXCEPT ![s][h] = how]
    /\ UNCHANGED <<statements, hasInit, toInit, begun, served, registrars>>

WriteInit(s) ==
    /\ StillWriting /\ ~hasInit[s]
    /\ hasInit' = [hasInit EXCEPT ![s] = TRUE]
    /\ UNCHANGED <<defined, statements, toInit, begun, served, registrars>>

WriteLine(s, line) ==
    /\ StillWriting /\ hasInit[s]
    /\ statements' = [statements EXCEPT ![s] = Append(@, line)]
    /\ UNCHANGED <<defined, hasInit, toInit, begun, served, registrars>>

\* initialize_action_scripts: the scripts that are loaded.
Begin ==
    /\ ~begun /\ begun' = TRUE
    /\ toInit' = ActionFiles
    /\ UNCHANGED <<defined, statements, hasInit, served, registrars>>

\* The lines of init() that are executed: the call of a function that does not
\* exist with these arguments raises an error, and what was registered stays.
Executed(s) ==
    LET Raises(j) == statements[s][j].op = "call" /\ statements[s][j].args # "right"
    IN  {i \in DOMAIN statements[s] : \A j \in 1..i : ~Raises(j)}

\* init() of one script: a later registration of an action takes the place of an
\* earlier one.  A script without init() is passed over.
CallInit(s) ==
    /\ s \in toInit
    /\ toInit' = toInit \ {s}
    /\ LET Of(a) == {i \in Executed(s) :
                /\ Registers(statements[s][i]) /\ statements[s][i].action = a}
           LastOf(a) == CHOOSE i \in Of(a) : \A j \in Of(a) : j <= i
       IN  /\ served' = [a \in ActionNames |->
                  IF Of(a) = {} THEN served[a]
                  ELSE [script |-> s, handler |-> statements[s][LastOf(a)].handler]]
           /\ registrars' = [a \in ActionNames |->
                  IF Of(a) = {} THEN registrars[a] ELSE registrars[a] \cup {s}]
    /\ UNCHANGED <<defined, statements, hasInit, begun>>

ActionsNext ==
    \/ \E s \in ActionFiles :
        \/ WriteInit(s) \/ CallInit(s)
        \/ \E h \in Handlers, how \in Definitions : WriteFunction(s, h, how)
        \/ \E line \in Lines : WriteLine(s, line)
    \/ Begin

ActionsSpec == ActionsInit /\ [][ActionsNext]_actionVars

-----------------------------------------------------------------------------

\* The handler is called with the context and the parameters, and works.
Serves(s, h) == defined[s][h] \in {"right", "wrong first"}

\* An action served by a script without errors is served by a handler that can be
\* called, but for the handlers the validator overlooks (validate_file).
ValidActionsAreServed ==
    \A a \in ActionNames : served[a] # Unserved =>
        LET s == served[a].script
            h == served[a].handler
        IN  ValidFile(s) =>
                Serves(s, h) \/
                \E i \in DOMAIN statements[s] :
                    /\ statements[s][i].action = a /\ statements[s][i].handler = h
                    /\ Overlooked(s, i)

\* Without a warning of the whole directory, which script serves an action does
\* not depend on the order in which they are initialized
\* (check_cross_script_dependencies, initialize_action_scripts).
NoSilentConflict ==
    \A a \in ActionNames : Cardinality(registrars[a]) > 1 => ConflictWarned(a)

ReportsHold == ValidActionsAreServed /\ NoSilentConflict
=============================================================================

---------------------------- MODULE ScriptChecks ----------------------------
(***************************************************************************)
(* The analysis of one script function before it is loaded: the            *)
(* FunctionAnalyzer of bw-scripting/src/validation/analysis.rs, which      *)
(* walks the statements once and keeps a chain of scopes, what it knows to *)
(* be checked against null, and whether every path returns.                *)
(*                                                                         *)
(* The program is not given: every action is one statement that may come   *)
(* next, so TLC walks all programs of up to MaxStatements statements and   *)
(* MaxBlocks nested blocks.  Beside the analyzer's state a block carries   *)
(* what the language means (falls, valued, sure: history, no code reads    *)
(* them).  Expressions are reduced to what the null checks and the returns *)
(* tell apart; types, map keys and archetype names are left out.           *)
(***************************************************************************)
EXTENDS Integers, Sequences, FiniteSets, SequencesExt

CONSTANTS
  Locals,         \* variable names
  NoName,         \* no variable
  MaxStatements,  \* bound on the statements of the function
  MaxBlocks       \* bound on the open blocks

ASSUME ChecksAssumption ==
  NoName \notin Locals /\ MaxStatements \in Nat /\ MaxBlocks \in Nat \ {0}

VARIABLES
  scopes,         \* FunctionAnalyzer.scopes
  currentScope,   \* current_scope
  blocks,         \* the calls of analyze_statements that are open, innermost last
  count,          \* statements so far
  verdict,        \* result.all_paths_return once the walk is over, else "open"
  falseAlarm      \* history: an access known to be safe was reported

chkVars == <<scopes, currentScope, blocks, count, verdict, falseAlarm>>

NoScope == 0
Block == Last(blocks)
WithBlock(b) == Append(Front(blocks), b)

-----------------------------------------------------------------------------
(* Scopes *)

\* The innermost scope of the chain from start on that defines the name.
ScopeFrom(n, start) ==
  LET From[i \in 0..Len(scopes)] ==
        IF i = NoScope \/ n \in DOMAIN scopes[i].vars THEN i ELSE From[scopes[i].parent]
  IN  From[start]

\* lookup_var.
FindScope(n) == ScopeFrom(n, currentScope)
Known(n) == FindScope(n) # NoScope
Lookup(n) == scopes[FindScope(n)].vars[n]

\* define_var and its variants: a new variable, or a new one of that name.
Define(n, state) ==
  scopes' = [scopes EXCEPT ![currentScope].vars =
               [m \in DOMAIN @ \cup {n} |-> IF m = n THEN state ELSE @[m]]]

Variable(nullable, guard) ==
  [nullable |-> nullable, checked |-> FALSE, guard |-> guard, id |-> count + 1]
NoGuard == [of |-> NoName, notNull |-> FALSE, target |-> 0]

\* Mutant of Checked: only a variable of the scope at start is marked.
CheckedHere(marks, start) ==
  [i \in DOMAIN scopes |->
     [vars |-> [n \in DOMAIN scopes[i].vars |->
                  IF n \in marks /\ start = i THEN [scopes[i].vars[n] EXCEPT !.checked = TRUE]
                                             ELSE scopes[i].vars[n]],
      parent |-> scopes[i].parent]]

\* mark_null_checked for each of the names, as seen from the scope at start.
Checked(marks, start) ==
  [i \in DOMAIN scopes |->
     [vars |-> [n \in DOMAIN scopes[i].vars |->
                  IF n \in marks /\ ScopeFrom(n, start) = i
                  THEN [scopes[i].vars[n] EXCEPT !.checked = TRUE] ELSE scopes[i].vars[n]],
      parent |-> scopes[i].parent]]

-----------------------------------------------------------------------------
(* Conditions: x != (), x == (), c, !c for a variable c, and conjunctions *)

Tests == [kind : {"not_null", "is_null", "var", "not_var"}, name : Locals]
Conditions == {{t} : t \in Tests} \cup {{s, t} : s, t \in Tests} \cup {{}}

\* detect_null_guard and extract_null_checks: the names a test marks.
Marks(t) ==
  CASE t.kind = "not_null" -> {t.name}
    [] t.kind = "var" /\ Known(t.name) /\ Lookup(t.name).guard.notNull -> {Lookup(t.name).guard.of}
    [] t.kind = "not_var" /\ Known(t.name) /\ Lookup(t.name).guard.of # NoName
                          /\ ~Lookup(t.name).guard.notNull -> {Lookup(t.name).guard.of}
    [] OTHER -> {}

\* The variable of a lone x == (), marked after a body that always returns.
NullGuard(cond) ==
  IF \E t \in cond : cond = {t} /\ t.kind = "is_null"
  THEN (CHOOSE t \in cond : TRUE).name ELSE NoName

\* History: the variables that the condition proves to be there.
Proved(cond) ==
  {Lookup(t.name).id : t \in {u \in cond : u.kind = "not_null" /\ Known(u.name)}}
    \cup {Lookup(t.name).guard.target : t \in {u \in cond :
            /\ Known(u.name) /\ Lookup(u.name).guard.of # NoName
            /\ u.kind = (IF Lookup(u.name).guard.notNull THEN "var" ELSE "not_var")}}

-----------------------------------------------------------------------------
(* Blocks *)

Opened(kind, guard, sure, before) ==
  [kind |-> kind, guard |-> guard, before |-> before,
   returned |-> FALSE, tail |-> FALSE,
   falls |-> TRUE, valued |-> FALSE, sure |-> sure]

NoBranch == [returns |-> FALSE, falls |-> TRUE, valued |-> FALSE]

\* What analyze_statements answers at the end of a block.
Returns(b) == b.returned \/ b.tail

Summary(b) == [returns |-> Returns(b), falls |-> b.falls, valued |-> b.valued]

\* The block after a statement: returns for the analyzer, falls and valued for
\* the language; expression says that it is a Stmt::Expr.
After(b, s, expression) ==
  [kind |-> b.kind, guard |-> b.guard, before |-> b.before, sure |-> b.sure,
   returned |-> s.returns, tail |-> expression,
   falls |-> b.falls /\ s.falls, valued |-> s.valued]

Plain == [returns |-> FALSE, falls |-> TRUE, valued |-> FALSE]

ChecksInit ==
  /\ scopes = <<[vars |-> <<>>, parent |-> NoScope]>>
  /\ currentScope = 1
  /\ blocks = <<Opened("fn", NoName, {}, NoBranch)>>
  /\ count = 0
  /\ verdict = "open"
  /\ falseAlarm = FALSE

\* A statement that is analyzed: not the skipped ones after a return.
Live == verdict = "open" /\ ~Block.returned /\ count < MaxStatements

Analyzed == count' = count + 1 /\ UNCHANGED verdict

\* let n = query(): nullable.  let n = (m != ()) or (m == ()): a guard of m.
LetQuery(n) ==
  /\ Live
  /\ Define(n, Variable(TRUE, NoGuard))
  /\ blocks' = WithBlock(After(Block, Plain, FALSE))
  /\ Analyzed
  /\ UNCHANGED <<currentScope, falseAlarm>>

LetGuard(n, m, notNull) ==
  /\ Live
  /\ Define(n, Variable(FALSE, [of |-> m, notNull |-> notNull,
                                target |-> IF Known(m) THEN Lookup(m).id ELSE 0]))
  /\ blocks' = WithBlock(After(Block, Plain, FALSE))
  /\ Analyzed
  /\ UNCHANGED <<currentScope, falseAlarm>>

\* n["key"] or n.key as a statement: check_nullable_access.
Access(n) ==
  /\ Live
  /\ Known(n)
  /\ falseAlarm' = (falseAlarm \/ (/\ Lookup(n).nullable /\ ~Lookup(n).checked
                                   /\ Lookup(n).id \in Block.sure))
  /\ blocks' = WithBlock(After(Block, [Plain EXCEPT !.valued = TRUE], TRUE))
  /\ Analyzed
  /\ UNCHANGED <<scopes, currentScope>>

\* A call or an assignment: neither returns nor counts as a value.
CallStatement ==
  /\ Live
  /\ blocks' = WithBlock(After(Block, Plain, FALSE))
  /\ Analyzed
  /\ UNCHANGED <<scopes, currentScope, falseAlarm>>

ReturnStatement ==
  /\ Live
  /\ blocks' = WithBlock(After(Block, [returns |-> TRUE, falls |-> FALSE, valued |-> FALSE], FALSE))
  /\ Analyzed
  /\ UNCHANGED <<scopes, currentScope, falseAlarm>>

\* A statement after one that returns: reported as dead code and skipped.
DeadStatement ==
  /\ verdict = "open" /\ Block.returned /\ count < MaxStatements
  /\ \E s \in {Plain, [Plain EXCEPT !.valued = TRUE], [Plain EXCEPT !.falls = FALSE]} :
       blocks' = WithBlock(After(Block, [s EXCEPT !.returns = TRUE], FALSE))
  /\ Analyzed
  /\ UNCHANGED <<scopes, currentScope, falseAlarm>>

\* push_scope and the first call of analyze_statements for a body.
Pushed(from, vars) == Append(from, [vars |-> vars, parent |-> currentScope])

OpenIf(cond) ==
  /\ Live
  /\ Len(blocks) < MaxBlocks
  /\ scopes' = Pushed(Checked(UNION {Marks(t) : t \in cond}, currentScope), <<>>)
  /\ currentScope' = Len(scopes')
  /\ blocks' = Append(blocks, Opened("if", NullGuard(cond), Block.sure \cup Proved(cond), NoBranch))
  /\ Analyzed
  /\ UNCHANGED falseAlarm

\* for loops define their variable; while loops and plain blocks do not.
OpenOther(kind, n) ==
  /\ Live
  /\ Len(blocks) < MaxBlocks
  /\ scopes' = Pushed(scopes, IF kind = "for" THEN [m \in {n} |-> Variable(FALSE, NoGuard)] ELSE <<>>)
  /\ currentScope' = Len(scopes')
  /\ blocks' = Append(blocks, Opened(kind, NoName, Block.sure, NoBranch))
  /\ Analyzed
  /\ UNCHANGED falseAlarm

\* The end of the first branch: pop_scope, then x is safe if x == () returned.
AfterBranch ==
  IF Returns(Block) /\ Block.guard # NoName THEN {Block.guard} ELSE {}

Else ==
  /\ verdict = "open" /\ Block.kind = "if"
  /\ scopes' = Append(Checked(AfterBranch, scopes[currentScope].parent), [vars |-> <<>>, parent |-> scopes[currentScope].parent])
  /\ currentScope' = Len(scopes')
  /\ blocks' = WithBlock(Opened("else", NoName, blocks[Len(blocks) - 1].sure, Summary(Block)))
  /\ UNCHANGED <<count, verdict, falseAlarm>>

\* An if with both branches.
Joined(a, b) ==
  [returns |-> a.returns /\ b.returns, falls |-> a.falls \/ b.falls,
   valued |-> (a.falls => a.valued) /\ (b.falls => b.valued)]

\* The end of a block: what the enclosing statement amounts to.
Statement(b) ==
  CASE b.kind = "else" -> Joined(b.before, Summary(b))
    [] b.kind = "block" -> Summary(b)
    [] OTHER -> Plain

Close ==
  /\ verdict = "open" /\ Len(blocks) > 1
  /\ scopes' = Checked(IF Block.kind = "if" THEN AfterBranch ELSE {}, scopes[currentScope].parent)
  /\ currentScope' = scopes[currentScope].parent
  /\ LET outer == blocks[Len(blocks) - 1]
     IN  blocks' = Append(SubSeq(blocks, 1, Len(blocks) - 2),
                          After(outer, Statement(Block), FALSE))
  /\ UNCHANGED <<count, verdict, falseAlarm>>

\* The end of analyze: all_paths_return.
CloseFunction ==
  /\ verdict = "open" /\ Len(blocks) = 1
  /\ verdict' = IF Returns(Block) THEN "returns" ELSE "may_not_return"
  /\ UNCHANGED <<scopes, currentScope, blocks, count, falseAlarm>>

ChecksNext ==
  \/ \E n \in Locals : LetQuery(n) \/ Access(n)
  \/ \E n, m \in Locals, notNull \in BOOLEAN : LetGuard(n, m, notNull)
  \/ CallStatement \/ ReturnStatement \/ DeadStatement
  \/ \E cond \in Conditions : OpenIf(cond)
  \/ \E kind \in {"for", "while", "block"}, n \in Locals : OpenOther(kind, n)
  \/ Else \/ Close \/ CloseFunction

ChecksSpec == ChecksInit /\ [][ChecksNext]_chkVars

-----------------------------------------------------------------------------

\* Type invariant.
ChecksTypeOK ==
  /\ currentScope \in 1..Len(scopes)
  /\ \A i \in 1..Len(scopes) : scopes[i].parent \in 0..(i - 1)
  /\ count \in 0..MaxStatements
  /\ Len(blocks) \in 1..MaxBlocks
  /\ verdict \in {"open", "returns", "may_not_return"}

\* A function in which no path runs off the end without a value is reported as
\* returning on all paths: no missing-return report for it, however returns,
\* last expressions, branches and loops are nested (analysis.rs:720-912).
ReturningIsRecognized ==
  verdict # "open" /\ (Block.falls => Block.valued) => verdict = "returns"

\* Inside the body of an if whose condition proves a variable to be there, by
\* itself, by a conjunction or by an earlier let of the test, an access to that
\* variable is not reported, whatever was declared or shadowed in between
\* (analysis.rs:696-717, 1351-1436).
QuietUnderGuard == ~falseAlarm

\* The analyzer raises no alarm, neither of these two kinds, without a cause.
NoFalseAlarm == ReturningIsRecognized /\ QuietUnderGuard
=============================================================================

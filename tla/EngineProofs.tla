----------------------------- MODULE EngineProofs ------------------------------
(***************************************************************************)
(* Theorems about the parts of the script engine that stand for            *)
(* themselves.                                                             *)
(*                                                                         *)
(* ScriptChecks: the analysis of a script raises no alarm without a cause, *)
(* whatever the script.  Each variable has an id of its own, so that what  *)
(* a test proves of an id it proves of the variable that the test will be  *)
(* found to name; the scopes that the blocks opened are nested as the      *)
(* blocks are; and a block that is not said to return on all paths can run *)
(* to its end, without a value.                                            *)
(*                                                                         *)
(* Coroutines: each coroutine is in one place.  That it is, with its type, *)
(* is inductive; what it takes is to count how often a coroutine is in a   *)
(* list that is appended to, filtered, joined or beheaded.                 *)
(*                                                                         *)
(* BehaviorTrees: a tree goes on where it was, whatever the trees.  The    *)
(* nodes that run are a path of the tree from its root, what a node learns *)
(* from its child is what the history holds of that child, and of a node   *)
(* that does not run the memory is settled.                                *)
(*                                                                         *)
(* Debugger: its types.  With the two above they are the types of the run  *)
(* that holds all three.                                                   *)
(***************************************************************************)
EXTENDS ScriptChecks, MCCoroutines, IntervalInduction, FiniteSetTheorems, SequenceTheorems, TLAPS

-----------------------------------------------------------------------------
(* Scopes, and the scope in which a name is found *)

\* A variable, what a scope defines, and a scope.
VarRecord == [nullable : BOOLEAN, checked : BOOLEAN,
              guard : [of : Locals \cup {NoName}, notNull : BOOLEAN, target : Nat], id : Nat]
VarTable == UNION {[D -> VarRecord] : D \in SUBSET Locals}
ScopeRecord == [vars : VarTable, parent : Nat]

\* The scopes, each after the one it is in.
ScopeList(scs) ==
    /\ scs \in Seq(ScopeRecord)
    /\ \A i \in 1..Len(scs) : scs[i].parent \in 0..(i - 1)

\* ScopeFrom, of any list of scopes.
FromIn(scs, n, start) ==
    LET From[i \in 0..Len(scs)] ==
            IF i = NoScope \/ n \in DOMAIN scs[i].vars THEN i ELSE From[scs[i].parent]
    IN  From[start]

\* What it says of each of the scopes.
LEMMA ListFacts ==
    ASSUME NEW scs, ScopeList(scs)
    PROVE  /\ Len(scs) \in Nat /\ DOMAIN scs = 1..Len(scs)
           /\ \A i \in 1..Len(scs) :
                /\ scs[i] \in ScopeRecord /\ scs[i].parent \in 0..(i - 1)
                /\ DOMAIN scs[i].vars \subseteq Locals
                /\ \A m \in DOMAIN scs[i].vars : scs[i].vars[m] \in VarRecord
<1>1. Len(scs) \in Nat /\ DOMAIN scs = 1..Len(scs)
  BY LenProperties DEF ScopeList
<1>2. ASSUME NEW i \in 1..Len(scs)
      PROVE  /\ scs[i] \in ScopeRecord /\ scs[i].parent \in 0..(i - 1)
             /\ DOMAIN scs[i].vars \subseteq Locals
             /\ \A m \in DOMAIN scs[i].vars : scs[i].vars[m] \in VarRecord
  <2>1. scs[i] \in ScopeRecord /\ scs[i].parent \in 0..(i - 1)
    BY ElementOfSeq DEF ScopeList
  <2>2. PICK r \in ScopeRecord : r = scs[i]
    BY <2>1
  <2>3. PICK V : V = VarRecord
    OBVIOUS
  <2>4. r \in [vars : UNION {[D -> V] : D \in SUBSET Locals}, parent : Nat]
    BY <2>3, Zenon DEF ScopeRecord, VarTable
  <2>5. DOMAIN r.vars \subseteq Locals /\ \A m \in DOMAIN r.vars : r.vars[m] \in V
    BY <2>4
  <2>. QED BY <2>1, <2>2, <2>3, <2>5
<1>. QED BY <1>1, <1>2

\* The scope that defines a name, seen from a scope: its own or that of its parent.
Sees(f, scs, n, m) ==
    \A i \in 0..m : f[i] = IF i = 0 \/ n \in DOMAIN scs[i].vars THEN i ELSE f[scs[i].parent]

\* There is a function that says where a name is defined.
LEMMA SeesThere ==
    ASSUME NEW scs, ScopeList(scs), NEW n
    PROVE  \E f \in [0..Len(scs) -> Nat] :
              Sees(f, scs, n, Len(scs)) /\ \A i \in 0..Len(scs) : f[i] <= i
<1>. DEFINE T == {m \in 0..Len(scs) : \E f \in [0..m -> Nat] :
                    Sees(f, scs, n, m) /\ \A i \in 0..m : f[i] <= i}
<1>0. /\ Len(scs) \in Nat /\ DOMAIN scs = 1..Len(scs)
      /\ \A i \in 1..Len(scs) : scs[i].parent \in 0..(i - 1)
  BY ListFacts
<1>1. 0 \in T
  <2>1. PICK f : f = [i \in 0..0 |-> 0]
    OBVIOUS
  <2>2. f \in [0..0 -> Nat] /\ f[0] = 0 /\ \A i \in 0..0 : i = 0
    BY <2>1
  <2>3. Sees(f, scs, n, 0)
    BY <2>2 DEF Sees
  <2>. QED BY <1>0, <2>2, <2>3
<1>2. ASSUME NEW m \in 1..Len(scs), m - 1 \in T PROVE m \in T
  <2>1. PICK f \in [0..(m - 1) -> Nat] : Sees(f, scs, n, m - 1) /\ \A i \in 0..(m - 1) : f[i] <= i
    BY <1>2
  <2>2. m \in Nat \ {0} /\ scs[m].parent \in 0..(m - 1)
    BY <1>0
  <2>3. PICK v \in Nat : /\ v = IF n \in DOMAIN scs[m].vars THEN m ELSE f[scs[m].parent]
                         /\ v <= m
    <3>1. f[scs[m].parent] \in Nat /\ f[scs[m].parent] <= scs[m].parent
      BY <2>1, <2>2
    <3>. QED BY <2>2, <3>1
  <2>4. PICK g : g = [i \in 0..m |-> IF i = m THEN v ELSE f[i]]
    OBVIOUS
  <2>5. g[m] = v /\ \A i \in 0..(m - 1) : g[i] = f[i]
    BY <2>2, <2>4
  <2>6. g \in [0..m -> Nat]
    BY <2>2, <2>4
  <2>7. ASSUME NEW i \in 0..m
        PROVE  /\ g[i] = IF i = 0 \/ n \in DOMAIN scs[i].vars THEN i ELSE g[scs[i].parent]
               /\ g[i] <= i
    <3>1. CASE i = m
      BY <2>2, <2>3, <2>5, <3>1
    <3>2. CASE i # m
      <4>1. i \in 0..(m - 1) /\ g[i] = f[i]
        BY <2>2, <2>5, <3>2
      <4>2. f[i] = IF i = 0 \/ n \in DOMAIN scs[i].vars THEN i ELSE f[scs[i].parent]
        BY <2>1, <4>1 DEF Sees
      <4>3. i # 0 => scs[i].parent \in 0..(m - 1)
        <5>1. i # 0 => i \in 1..Len(scs)
          BY <1>0, <4>1
        <5>2. i # 0 => scs[i].parent \in 0..(i - 1)
          BY <1>0, <5>1
        <5>. QED BY <2>2, <4>1, <5>2
      <4>. QED BY <2>1, <2>5, <4>1, <4>2, <4>3
    <3>. QED BY <3>1, <3>2
  <2>8. Sees(g, scs, n, m)
    BY <2>7, Zenon DEF Sees
  <2>9. m \in 0..Len(scs)
    BY <1>0
  <2>. QED BY <2>6, <2>7, <2>8, <2>9
<1>3. 0..Len(scs) \subseteq T
  <2>. HIDE DEF T
  <2>. QED BY <1>0, <1>1, <1>2, Upto
<1>4. Len(scs) \in T
  BY <1>0, <1>3
<1>. QED BY <1>4

\* What FromIn answers.
LEMMA ScopeSeen ==
    ASSUME NEW scs, ScopeList(scs), NEW n
    PROVE  /\ FromIn(scs, n, 0) = 0
           /\ \A i \in 0..Len(scs) : FromIn(scs, n, i) \in 0..i
           /\ \A i \in 1..Len(scs) : FromIn(scs, n, i) =
                IF n \in DOMAIN scs[i].vars THEN i ELSE FromIn(scs, n, scs[i].parent)
<1>0. /\ Len(scs) \in Nat /\ DOMAIN scs = 1..Len(scs)
      /\ \A i \in 1..Len(scs) : scs[i].parent \in 0..(i - 1)
  BY ListFacts
<1>1. PICK f \in [0..Len(scs) -> Nat] :
        Sees(f, scs, n, Len(scs)) /\ \A i \in 0..Len(scs) : f[i] <= i
  BY SeesThere
<1>. DEFINE P(g) == g = [i \in 0..Len(scs) |->
                IF i = 0 \/ n \in DOMAIN scs[i].vars THEN i ELSE g[scs[i].parent]]
<1>2. P(f)
  BY <1>1, Zenon DEF Sees
<1>3. ASSUME NEW g, P(g) PROVE g = f
  <2>1. \A i \in 0..Len(scs) :
            g[i] = IF i = 0 \/ n \in DOMAIN scs[i].vars THEN i ELSE g[scs[i].parent]
    BY <1>3
  <2>. DEFINE T == {m \in 0..Len(scs) : \A i \in 0..m : g[i] = f[i]}
  <2>2. 0 \in T
    <3>1. 0 \in 0..Len(scs)
      BY <1>0
    <3>2. g[0] = 0 /\ f[0] = 0
      BY <1>1, <2>1, <3>1 DEF Sees
    <3>3. \A i \in 0..0 : i = 0
      OBVIOUS
    <3>. QED BY <3>1, <3>2, <3>3
  <2>3. ASSUME NEW m \in 1..Len(scs), m - 1 \in T PROVE m \in T
    <3>1. m \in 0..Len(scs) /\ m # 0 /\ scs[m].parent \in 0..(m - 1)
      BY <1>0
    <3>2. g[scs[m].parent] = f[scs[m].parent]
      BY <2>3, <3>1
    <3>3. g[m] = f[m]
      BY <1>1, <2>1, <3>1, <3>2 DEF Sees
    <3>4. ASSUME NEW i \in 0..m PROVE g[i] = f[i]
      <4>1. CASE i = m
        BY <3>3, <4>1
      <4>2. CASE i # m
        <5>1. i \in 0..(m - 1)
          BY <1>0, <4>2
        <5>. QED BY <2>3, <5>1
      <4>. QED BY <4>1, <4>2
    <3>. QED BY <3>1, <3>4
  <2>4. 0..Len(scs) \subseteq T
    <3>. HIDE DEF T
    <3>. QED BY <1>0, <2>2, <2>3, Upto
  <2>5. \A i \in 0..Len(scs) : g[i] = f[i]
    BY <1>0, <2>4
  <2>. QED BY <1>1, <1>3, <2>5
<1>4. \A s : FromIn(scs, n, s) = (CHOOSE g : P(g))[s]
  BY Zenon DEF FromIn, NoScope
<1>5. (CHOOSE g : P(g)) = f
  <2>. HIDE DEF P
  <2>. QED BY <1>2, <1>3
<1>6. \A s : FromIn(scs, n, s) = f[s]
  <2>. HIDE DEF P
  <2>. QED BY <1>4, <1>5
<1>7. 0 \in 0..Len(scs) /\ \A i \in 1..Len(scs) : i # 0 /\ i \in 0..Len(scs)
  BY <1>0
<1>8. FromIn(scs, n, 0) = 0
  BY <1>1, <1>6, <1>7 DEF Sees
<1>9. ASSUME NEW i \in 0..Len(scs) PROVE FromIn(scs, n, i) \in 0..i
  BY <1>0, <1>1, <1>6
<1>10. ASSUME NEW i \in 1..Len(scs)
       PROVE  FromIn(scs, n, i) =
                IF n \in DOMAIN scs[i].vars THEN i ELSE FromIn(scs, n, scs[i].parent)
  BY <1>1, <1>6, <1>7 DEF Sees
<1>. QED BY <1>8, <1>9, <1>10

\* Where a name is defined, seen from a scope, depends on the scopes up to it.
LEMMA SameSight ==
    ASSUME NEW a, NEW b, ScopeList(a), ScopeList(b), NEW k \in Nat, k <= Len(a), k <= Len(b),
           NEW n,
           \A i \in 1..k : /\ a[i].parent = b[i].parent
                           /\ n \in DOMAIN a[i].vars <=> n \in DOMAIN b[i].vars
    PROVE  \A i \in 0..k : FromIn(a, n, i) = FromIn(b, n, i)
<1>0. Len(a) \in Nat /\ Len(b) \in Nat
  BY ListFacts
<1>. DEFINE T == {m \in 0..k : \A i \in 0..m : FromIn(a, n, i) = FromIn(b, n, i)}
<1>1. 0 \in T
  <2>1. FromIn(a, n, 0) = 0 /\ FromIn(b, n, 0) = 0
    BY ScopeSeen
  <2>2. \A i \in 0..0 : i = 0
    OBVIOUS
  <2>. QED BY <2>1, <2>2
<1>2. ASSUME NEW m \in 1..k, m - 1 \in T PROVE m \in T
  <2>1. m \in 0..k /\ m \in 1..Len(a) /\ m \in 1..Len(b)
    BY <1>0
  <2>2. a[m].parent \in 0..(m - 1) /\ a[m].parent = b[m].parent
    BY <2>1, ListFacts
  <2>3. PICK p \in 0..(m - 1) : a[m].parent = p /\ b[m].parent = p
    BY <2>2
  <2>4. FromIn(a, n, p) = FromIn(b, n, p)
    BY <1>2
  <2>5. /\ FromIn(a, n, m) = IF n \in DOMAIN a[m].vars THEN m ELSE FromIn(a, n, a[m].parent)
        /\ FromIn(b, n, m) = IF n \in DOMAIN b[m].vars THEN m ELSE FromIn(b, n, b[m].parent)
    BY <2>1, ScopeSeen
  <2>6. FromIn(a, n, m) = FromIn(b, n, m)
    BY <2>3, <2>4, <2>5
  <2>7. ASSUME NEW i \in 0..m PROVE FromIn(a, n, i) = FromIn(b, n, i)
    <3>1. CASE i = m
      BY <2>6, <3>1
    <3>2. CASE i # m
      <4>1. i \in 0..(m - 1)
        BY <3>2
      <4>. QED BY <1>2, <4>1
    <3>. QED BY <3>1, <3>2
  <2>. QED BY <2>1, <2>7
<1>3. 0..k \subseteq T
  <2>. HIDE DEF T
  <2>. QED BY <1>1, <1>2, Upto
<1>4. k \in T
  BY <1>3
<1>. QED BY <1>4

\* A scope that a name is found in defines it.
LEMMA FoundDefines ==
    ASSUME NEW scs, ScopeList(scs), NEW n, NEW s \in 0..Len(scs), FromIn(scs, n, s) # 0
    PROVE  FromIn(scs, n, s) \in 1..Len(scs) /\ n \in DOMAIN scs[FromIn(scs, n, s)].vars
<1>0. Len(scs) \in Nat
  BY ListFacts
<1>. DEFINE T == {m \in 0..Len(scs) : \A i \in 0..m :
        FromIn(scs, n, i) = 0 \/ n \in DOMAIN scs[FromIn(scs, n, i)].vars}
<1>1. 0 \in T
  <2>1. FromIn(scs, n, 0) = 0 /\ \A i \in 0..0 : i = 0
    BY ScopeSeen
  <2>. QED BY <1>0, <2>1
<1>2. ASSUME NEW m \in 1..Len(scs), m - 1 \in T PROVE m \in T
  <2>1. m \in 0..Len(scs) /\ scs[m].parent \in 0..(m - 1)
    BY <1>0, ListFacts
  <2>2. FromIn(scs, n, m) = IF n \in DOMAIN scs[m].vars THEN m ELSE FromIn(scs, n, scs[m].parent)
    BY ScopeSeen
  <2>3. PICK p \in 0..(m - 1) : p = scs[m].parent
    BY <2>1
  <2>4. FromIn(scs, n, p) = 0 \/ n \in DOMAIN scs[FromIn(scs, n, p)].vars
    BY <1>2
  <2>5. FromIn(scs, n, m) = 0 \/ n \in DOMAIN scs[FromIn(scs, n, m)].vars
    <3>1. CASE n \in DOMAIN scs[m].vars
      <4>1. FromIn(scs, n, m) = m
        BY <2>2, <3>1
      <4>. QED BY <3>1, <4>1
    <3>2. CASE n \notin DOMAIN scs[m].vars
      <4>1. FromIn(scs, n, m) = FromIn(scs, n, p)
        BY <2>2, <2>3, <3>2
      <4>. QED BY <2>4, <4>1
    <3>. QED BY <3>1, <3>2
  <2>6. ASSUME NEW i \in 0..m
        PROVE  FromIn(scs, n, i) = 0 \/ n \in DOMAIN scs[FromIn(scs, n, i)].vars
    <3>1. CASE i = m
      BY <2>5, <3>1
    <3>2. CASE i # m
      <4>1. i \in 0..(m - 1)
        BY <3>2
      <4>. QED BY <1>2, <4>1
    <3>. QED BY <3>1, <3>2
  <2>. QED BY <2>1, <2>6
<1>3. 0..Len(scs) \subseteq T
  <2>. HIDE DEF T
  <2>. QED BY <1>0, <1>1, <1>2, Upto
<1>4. Len(scs) \in T
  BY <1>0, <1>3
<1>5. FromIn(scs, n, s) = 0 \/ n \in DOMAIN scs[FromIn(scs, n, s)].vars
  BY <1>4
<1>6. FromIn(scs, n, s) \in 0..s
  BY ScopeSeen
<1>. QED BY <1>0, <1>5, <1>6

\* Each variable has an id of its own, of those given so far, and what is a test of an id
\* is a test of a variable of that name.
Given(v, c) == v.id \in 1..c /\ v.guard.target \in 0..c
ToldApart(v, i, m, w, j, l) ==
    /\ v.id = w.id => i = j /\ m = l
    /\ w.guard.of # NoName /\ w.guard.target = v.id => m = w.guard.of
Numbered(scs, c) ==
    \A i \in DOMAIN scs : \A m \in DOMAIN scs[i].vars :
        /\ Given(scs[i].vars[m], c)
        /\ \A j \in DOMAIN scs : \A l \in DOMAIN scs[j].vars :
                ToldApart(scs[i].vars[m], i, m, scs[j].vars[l], j, l)

\* A variable that is sure to be there, and may be null for all the analyzer knows, is
\* checked.
SafeVar(v, sure) == v.nullable /\ v.id \in sure => v.checked
SafeFrom(scs, start, sure) ==
    \A n : FromIn(scs, n, start) # 0 => SafeVar(scs[FromIn(scs, n, start)].vars[n], sure)

\* b has the scopes of a, with more variables checked.
Alike(a, b) ==
    /\ Len(a) = Len(b)
    /\ \A i \in 1..Len(a) :
        /\ a[i].parent = b[i].parent /\ DOMAIN a[i].vars = DOMAIN b[i].vars
        /\ \A m \in DOMAIN a[i].vars :
            /\ a[i].vars[m].id = b[i].vars[m].id /\ a[i].vars[m].guard = b[i].vars[m].guard
            /\ a[i].vars[m].nullable = b[i].vars[m].nullable
            /\ a[i].vars[m].checked => b[i].vars[m].checked

\* Variables that are checked besides change nothing for those that were.
LEMMA AlikeKeeps ==
    ASSUME NEW a, NEW b, ScopeList(a), ScopeList(b), Alike(a, b)
    PROVE  /\ \A n : \A s \in 0..Len(a) : FromIn(b, n, s) = FromIn(a, n, s)
           /\ \A c : Numbered(a, c) => Numbered(b, c)
           /\ \A s \in 0..Len(a) : \A sure : SafeFrom(a, s, sure) => SafeFrom(b, s, sure)
<1>0. Len(a) \in Nat /\ DOMAIN a = 1..Len(a) /\ Len(b) = Len(a) /\ DOMAIN b = 1..Len(a)
  BY ListFacts DEF Alike
<1>1. ASSUME NEW i \in 1..Len(a)
      PROVE  /\ a[i].parent = b[i].parent /\ DOMAIN a[i].vars = DOMAIN b[i].vars
             /\ \A m \in DOMAIN a[i].vars :
                    /\ a[i].vars[m].id = b[i].vars[m].id
                    /\ a[i].vars[m].guard = b[i].vars[m].guard
                    /\ a[i].vars[m].nullable = b[i].vars[m].nullable
                    /\ a[i].vars[m].checked => b[i].vars[m].checked
  BY Zenon DEF Alike
<1>2. ASSUME NEW n, NEW s \in 0..Len(a) PROVE FromIn(b, n, s) = FromIn(a, n, s)
  <2>1. \A i \in 1..Len(a) : /\ a[i].parent = b[i].parent
                             /\ n \in DOMAIN a[i].vars <=> n \in DOMAIN b[i].vars
    BY <1>1
  <2>2. Len(a) <= Len(a) /\ Len(a) <= Len(b)
    BY <1>0
  <2>3. \A i \in 0..Len(a) : FromIn(a, n, i) = FromIn(b, n, i)
    BY <1>0, <2>1, <2>2, SameSight
  <2>. QED BY <2>3
<1>3. ASSUME NEW c, Numbered(a, c) PROVE Numbered(b, c)
  <2>1. ASSUME NEW i \in DOMAIN b, NEW m \in DOMAIN b[i].vars
        PROVE  /\ Given(b[i].vars[m], c)
               /\ \A j \in DOMAIN b : \A l \in DOMAIN b[j].vars :
                    ToldApart(b[i].vars[m], i, m, b[j].vars[l], j, l)
    <3>1. i \in DOMAIN a /\ m \in DOMAIN a[i].vars /\ i \in 1..Len(a)
      BY <1>0, <1>1
    <3>2. a[i].vars[m].id = b[i].vars[m].id /\ a[i].vars[m].guard = b[i].vars[m].guard
      BY <1>1, <3>1
    <3>3. Given(a[i].vars[m], c)
      BY <1>3, <3>1, Zenon DEF Numbered
    <3>4. ASSUME NEW j \in DOMAIN b, NEW l \in DOMAIN b[j].vars
          PROVE  ToldApart(b[i].vars[m], i, m, b[j].vars[l], j, l)
      <4>1. j \in DOMAIN a /\ l \in DOMAIN a[j].vars /\ j \in 1..Len(a)
        BY <1>0, <1>1
      <4>2. a[j].vars[l].id = b[j].vars[l].id /\ a[j].vars[l].guard = b[j].vars[l].guard
        BY <1>1, <4>1
      <4>3. ToldApart(a[i].vars[m], i, m, a[j].vars[l], j, l)
        BY <1>3, <3>1, <4>1, Zenon DEF Numbered
      <4>. QED BY <3>2, <4>2, <4>3 DEF ToldApart
    <3>. QED BY <3>2, <3>3, <3>4 DEF Given
  <2>. QED BY <2>1, Zenon DEF Numbered
<1>4. ASSUME NEW s \in 0..Len(a), NEW sure, SafeFrom(a, s, sure) PROVE SafeFrom(b, s, sure)
  <2>. SUFFICES ASSUME NEW n, FromIn(b, n, s) # 0
                PROVE  SafeVar(b[FromIn(b, n, s)].vars[n], sure)
    BY Zenon DEF SafeFrom
  <2>1. PICK t : t = FromIn(a, n, s)
    OBVIOUS
  <2>2. t = FromIn(b, n, s) /\ t # 0
    BY <1>2, <2>1
  <2>3. t \in 1..Len(a) /\ n \in DOMAIN a[t].vars
    BY <2>1, <2>2, FoundDefines
  <2>4. SafeVar(a[t].vars[n], sure)
    BY <1>4, <2>1, <2>2, Zenon DEF SafeFrom
  <2>5. /\ a[t].vars[n].id = b[t].vars[n].id
        /\ a[t].vars[n].nullable = b[t].vars[n].nullable
        /\ a[t].vars[n].checked => b[t].vars[n].checked
    BY <1>1, <2>3
  <2>6. SafeVar(b[t].vars[n], sure)
    BY <2>4, <2>5, Zenon DEF SafeVar
  <2>. QED BY <2>2, <2>6
<1>. QED BY <1>2, <1>3, <1>4

\* The scopes up to one say what a name is, seen from it.
LEMMA UpToKeeps ==
    ASSUME NEW a, NEW b, ScopeList(a), ScopeList(b), NEW k \in Nat, k <= Len(a), k <= Len(b),
           \A i \in 1..k : a[i] = b[i], NEW s \in 0..k, NEW sure, SafeFrom(a, s, sure)
    PROVE  SafeFrom(b, s, sure) /\ \A n : FromIn(b, n, s) = FromIn(a, n, s)
<1>0. Len(a) \in Nat /\ Len(b) \in Nat /\ s \in 0..Len(a) /\ s \in Nat
  BY ListFacts
<1>1. ASSUME NEW n PROVE FromIn(b, n, s) = FromIn(a, n, s)
  <2>1. \A i \in 1..k : /\ a[i].parent = b[i].parent
                        /\ n \in DOMAIN a[i].vars <=> n \in DOMAIN b[i].vars
    OBVIOUS
  <2>2. \A i \in 0..k : FromIn(a, n, i) = FromIn(b, n, i)
    BY <2>1, SameSight
  <2>. QED BY <2>2
<1>2. ASSUME NEW n, FromIn(b, n, s) # 0 PROVE SafeVar(b[FromIn(b, n, s)].vars[n], sure)
  <2>1. PICK t : t = FromIn(a, n, s)
    OBVIOUS
  <2>2. t = FromIn(b, n, s) /\ t # 0
    BY <1>1, <1>2, <2>1
  <2>3. t \in 0..s
    BY <1>0, <2>1, ScopeSeen
  <2>4. t \in 1..k
    BY <2>2, <2>3
  <2>5. SafeVar(a[t].vars[n], sure)
    BY <2>1, <2>2, Zenon DEF SafeFrom
  <2>. QED BY <2>2, <2>4, <2>5
<1>3. SafeFrom(b, s, sure)
  BY <1>2, Zenon DEF SafeFrom
<1>. QED BY <1>1, <1>3

-----------------------------------------------------------------------------
(* A variable that is defined, a scope that is opened *)

\* b has the scopes of a, with the name defined, or defined again, in one of them.
Defines(a, b, cur, n, v) ==
    /\ Len(b) = Len(a) /\ b[cur].parent = a[cur].parent
    /\ \A i \in 1..Len(a) : i # cur => b[i] = a[i]
    /\ DOMAIN b[cur].vars = DOMAIN a[cur].vars \cup {n} /\ b[cur].vars[n] = v
    /\ \A m \in DOMAIN a[cur].vars : m # n => b[cur].vars[m] = a[cur].vars[m]

\* A variable that is new and what it tests.
NewVar(a, v, c) ==
    /\ v.id = c + 1 /\ v.guard.target \in 0..c
    /\ v.guard.of # NoName /\ v.guard.target # 0 =>
        \E s \in DOMAIN a : /\ v.guard.of \in DOMAIN a[s].vars
                             /\ a[s].vars[v.guard.of].id = v.guard.target

\* A variable that is defined is one more to tell apart, and is not sure yet.
LEMMA DefineKeeps ==
    ASSUME NEW a, NEW b, ScopeList(a), ScopeList(b), NEW cur \in 1..Len(a), NEW n, NEW v,
           NEW c \in Nat, Numbered(a, c), NewVar(a, v, c), Defines(a, b, cur, n, v)
    PROVE  /\ Numbered(b, c + 1)
           /\ \A i \in 1..Len(a) : b[i].parent = a[i].parent
           /\ \A s \in 0..(cur - 1) : \A sure : SafeFrom(a, s, sure) => SafeFrom(b, s, sure)
           /\ \A sure : sure \subseteq 0..c /\ SafeFrom(a, cur, sure) => SafeFrom(b, cur, sure)
<1>0. /\ Len(a) \in Nat /\ DOMAIN a = 1..Len(a) /\ Len(b) = Len(a) /\ DOMAIN b = 1..Len(a)
      /\ cur \in Nat \ {0}
  BY ListFacts DEF Defines
<1>1. ASSUME NEW i \in DOMAIN b, NEW m \in DOMAIN b[i].vars, ~(i = cur /\ m = n)
      PROVE  i \in DOMAIN a /\ m \in DOMAIN a[i].vars /\ b[i].vars[m] = a[i].vars[m]
             /\ Given(a[i].vars[m], c)
  <2>1. i \in DOMAIN a
    BY <1>0
  <2>2. m \in DOMAIN a[i].vars /\ b[i].vars[m] = a[i].vars[m]
    <3>1. CASE i # cur
      BY <1>0, <3>1 DEF Defines
    <3>2. CASE i = cur
      BY <1>1, <3>2 DEF Defines
    <3>. QED BY <3>1, <3>2
  <2>3. Given(a[i].vars[m], c)
    BY <2>1, <2>2, Zenon DEF Numbered
  <2>. QED BY <2>1, <2>2, <2>3
<1>2. v.id = c + 1 /\ v.guard.target \in 0..c /\ Given(v, c + 1) /\ b[cur].vars[n] = v
  BY DEF NewVar, Given, Defines
<1>3. ASSUME NEW i \in DOMAIN b, NEW m \in DOMAIN b[i].vars PROVE Given(b[i].vars[m], c + 1)
  <2>1. CASE i = cur /\ m = n
    BY <1>2, <2>1
  <2>2. CASE ~(i = cur /\ m = n)
    <3>1. Given(a[i].vars[m], c) /\ b[i].vars[m] = a[i].vars[m]
      BY <1>1, <2>2
    <3>. QED BY <3>1 DEF Given
  <2>. QED BY <2>1, <2>2
<1>4. ASSUME NEW i \in DOMAIN b, NEW m \in DOMAIN b[i].vars,
             NEW j \in DOMAIN b, NEW l \in DOMAIN b[j].vars
      PROVE  ToldApart(b[i].vars[m], i, m, b[j].vars[l], j, l)
  <2>1. CASE ~(i = cur /\ m = n) /\ ~(j = cur /\ l = n)
    <3>1. /\ i \in DOMAIN a /\ m \in DOMAIN a[i].vars /\ b[i].vars[m] = a[i].vars[m]
          /\ j \in DOMAIN a /\ l \in DOMAIN a[j].vars /\ b[j].vars[l] = a[j].vars[l]
      BY <1>1, <2>1
    <3>2. ToldApart(a[i].vars[m], i, m, a[j].vars[l], j, l)
      BY <3>1, Zenon DEF Numbered
    <3>. QED BY <3>1, <3>2
  <2>2. CASE i = cur /\ m = n /\ ~(j = cur /\ l = n)
    <3>1. Given(b[j].vars[l], c)
      BY <1>1, <2>2
    <3>. QED BY <1>2, <2>2, <3>1 DEF ToldApart, Given
  <2>3. CASE ~(i = cur /\ m = n) /\ j = cur /\ l = n
    <3>1. /\ i \in DOMAIN a /\ m \in DOMAIN a[i].vars /\ b[i].vars[m] = a[i].vars[m]
          /\ Given(a[i].vars[m], c)
      BY <1>1, <2>3
    <3>2. a[i].vars[m].id \in 1..c
      BY <3>1 DEF Given
    <3>3. ASSUME v.guard.of # NoName, v.guard.target = a[i].vars[m].id PROVE m = v.guard.of
      <4>1. PICK s \in DOMAIN a : /\ v.guard.of \in DOMAIN a[s].vars
                                  /\ a[s].vars[v.guard.of].id = v.guard.target
        BY <3>2, <3>3 DEF NewVar
      <4>2. ToldApart(a[i].vars[m], i, m, a[s].vars[v.guard.of], s, v.guard.of)
        BY <3>1, <4>1, Zenon DEF Numbered
      <4>. QED BY <3>3, <4>1, <4>2 DEF ToldApart
    <3>4. a[i].vars[m].id # v.id
      BY <1>2, <3>2
    <3>. QED BY <1>2, <2>3, <3>1, <3>3, <3>4 DEF ToldApart
  <2>4. CASE i = cur /\ m = n /\ j = cur /\ l = n
    <3>1. v.guard.target # v.id
      BY <1>2
    <3>. QED BY <1>2, <2>4, <3>1 DEF ToldApart
  <2>. QED BY <2>1, <2>2, <2>3, <2>4
<1>5. Numbered(b, c + 1)
  BY <1>3, <1>4, Zenon DEF Numbered
<1>6. \A i \in 1..Len(a) : b[i].parent = a[i].parent
  BY DEF Defines
<1>7. ASSUME NEW s \in 0..(cur - 1), NEW sure, SafeFrom(a, s, sure) PROVE SafeFrom(b, s, sure)
  <2>1. PICK k \in Nat : k = cur - 1
    BY <1>0
  <2>2. k <= Len(a) /\ k <= Len(b) /\ s \in 0..k /\ \A i \in 1..k : a[i] = b[i]
    BY <1>0, <2>1 DEF Defines
  <2>. QED BY <1>7, <2>2, UpToKeeps
<1>8. ASSUME NEW sure, sure \subseteq 0..c, SafeFrom(a, cur, sure) PROVE SafeFrom(b, cur, sure)
  <2>. SUFFICES ASSUME NEW m, FromIn(b, m, cur) # 0
                PROVE  SafeVar(b[FromIn(b, m, cur)].vars[m], sure)
    BY Zenon DEF SafeFrom
  <2>0. /\ cur \in 1..Len(b) /\ cur \in 0..Len(a) /\ cur \in 0..Len(b)
        /\ a[cur].parent \in 0..(cur - 1) /\ b[cur].parent = a[cur].parent
    BY <1>0, <1>6, ListFacts
  <2>1. /\ FromIn(a, m, cur) = IF m \in DOMAIN a[cur].vars THEN cur
                               ELSE FromIn(a, m, a[cur].parent)
        /\ FromIn(b, m, cur) = IF m \in DOMAIN b[cur].vars THEN cur
                               ELSE FromIn(b, m, a[cur].parent)
    <3>1. FromIn(a, m, cur) = IF m \in DOMAIN a[cur].vars THEN cur
                              ELSE FromIn(a, m, a[cur].parent)
      BY ScopeSeen
    <3>2. FromIn(b, m, cur) = IF m \in DOMAIN b[cur].vars THEN cur
                              ELSE FromIn(b, m, b[cur].parent)
      BY <2>0, ScopeSeen
    <3>. QED BY <2>0, <3>1, <3>2
  <2>2. CASE m = n
    <3>1. FromIn(b, m, cur) = cur
      BY <2>1, <2>2 DEF Defines
    <3>2. v.id \notin sure
      BY <1>2, <1>8
    <3>. QED BY <1>2, <2>2, <3>1, <3>2 DEF SafeVar
  <2>3. CASE m # n /\ m \in DOMAIN a[cur].vars
    <3>1. FromIn(b, m, cur) = cur /\ FromIn(a, m, cur) = cur /\ cur # 0
      BY <1>0, <2>1, <2>3 DEF Defines
    <3>2. b[cur].vars[m] = a[cur].vars[m]
      BY <2>3 DEF Defines
    <3>3. SafeVar(a[cur].vars[m], sure)
      BY <1>8, <3>1 DEF SafeFrom
    <3>. QED BY <3>1, <3>2, <3>3
  <2>4. CASE m # n /\ m \notin DOMAIN a[cur].vars
    <3>1. m \notin DOMAIN b[cur].vars
      BY <2>4 DEF Defines
    <3>2. PICK p \in 0..(cur - 1) : p = a[cur].parent
      BY <2>0
    <3>3. FromIn(b, m, cur) = FromIn(b, m, p) /\ FromIn(a, m, cur) = FromIn(a, m, p)
      BY <2>1, <2>4, <3>1, <3>2
    <3>4. FromIn(a, m, p) = FromIn(b, m, p)
      <4>1. PICK k \in Nat : k = cur - 1
        BY <1>0
      <4>2. k <= Len(a) /\ k <= Len(b) /\ \A i \in 1..k : a[i] = b[i]
        BY <1>0, <4>1 DEF Defines
      <4>3. \A i \in 1..k : /\ a[i].parent = b[i].parent
                            /\ m \in DOMAIN a[i].vars <=> m \in DOMAIN b[i].vars
        BY <4>2
      <4>4. \A i \in 0..k : FromIn(a, m, i) = FromIn(b, m, i)
        BY <4>2, <4>3, SameSight
      <4>. QED BY <4>1, <4>4
    <3>5. PICK t : t = FromIn(a, m, cur)
      OBVIOUS
    <3>6. t # 0 /\ FromIn(b, m, cur) = t
      BY <3>3, <3>4, <3>5
    <3>7. t \in 1..Len(a) /\ t # cur
      <4>1. p \in 0..Len(a) /\ p < cur /\ p \in Nat
        BY <1>0
      <4>2. FromIn(a, m, p) \in 0..p
        BY <4>1, ScopeSeen
      <4>. QED BY <1>0, <3>3, <3>5, <3>6, <4>1, <4>2
    <3>8. SafeVar(a[t].vars[m], sure)
      BY <1>8, <3>5, <3>6, Zenon DEF SafeFrom
    <3>9. b[t] = a[t]
      BY <3>7 DEF Defines
    <3>. QED BY <3>6, <3>8, <3>9
  <2>. QED BY <2>2, <2>3, <2>4
<1>. QED BY <1>5, <1>6, <1>7, <1>8

\* A table may define nothing.
LEMMA NoTable ==
    ASSUME NEW S, NEW V PROVE <<>> \in UNION {[D -> V] : D \in SUBSET S}
<1>1. <<>> \in [{} -> V]
  <2>1. <<>> = [i \in {} |-> 0]
    OBVIOUS
  <2>. QED BY <2>1
<1>2. {} \in SUBSET S
  OBVIOUS
<1>. QED BY <1>1, <1>2

\* A scope is opened that defines nothing.
LEMMA PushKeeps ==
    ASSUME NEW a, NEW r, ScopeList(a), NEW p \in 0..Len(a), r = [vars |-> <<>>, parent |-> p]
    PROVE  /\ ScopeList(Append(a, r)) /\ Len(Append(a, r)) = Len(a) + 1 /\ Len(a) \in Nat
           /\ Append(a, r)[Len(a) + 1] = r /\ \A i \in 1..Len(a) : Append(a, r)[i] = a[i]
           /\ \A c : Numbered(a, c) => Numbered(Append(a, r), c)
           /\ \A s \in 0..Len(a) : \A sure :
                SafeFrom(a, s, sure) => SafeFrom(Append(a, r), s, sure)
           /\ \A sure : SafeFrom(a, p, sure) => SafeFrom(Append(a, r), Len(a) + 1, sure)
<1>0. Len(a) \in Nat /\ DOMAIN a = 1..Len(a) /\ p \in Nat
  BY ListFacts
<1>1. r \in ScopeRecord /\ r.parent = p /\ DOMAIN r.vars = {}
  <2>2. <<>> \in VarTable
    BY NoTable DEF VarTable
  <2>. QED BY <1>0, <2>2 DEF ScopeRecord
<1>2. PICK b : b = Append(a, r)
  OBVIOUS
<1>3. /\ b \in Seq(ScopeRecord) /\ Len(b) = Len(a) + 1 /\ DOMAIN b = 1..(Len(a) + 1)
      /\ b[Len(a) + 1] = r /\ \A i \in 1..Len(a) : b[i] = a[i]
  <2>1. /\ b \in Seq(ScopeRecord) /\ Len(b) = Len(a) + 1
        /\ b[Len(a) + 1] = r /\ \A i \in 1..Len(a) : b[i] = a[i]
    BY <1>1, <1>2, AppendProperties DEF ScopeList
  <2>. QED BY <2>1, LenProperties
<1>4. ScopeList(b)
  <2>1. ASSUME NEW i \in 1..Len(b) PROVE b[i].parent \in 0..(i - 1)
    <3>1. CASE i \in 1..Len(a)
      BY <1>3, <3>1, ListFacts
    <3>2. CASE i = Len(a) + 1
      BY <1>0, <1>1, <1>3, <3>2
    <3>. QED BY <1>0, <1>3, <3>1, <3>2
  <2>. QED BY <1>3, <2>1 DEF ScopeList
<1>5. ASSUME NEW c, Numbered(a, c) PROVE Numbered(b, c)
  <2>1. ASSUME NEW i \in DOMAIN b, NEW m \in DOMAIN b[i].vars
        PROVE  i \in DOMAIN a /\ m \in DOMAIN a[i].vars /\ b[i] = a[i]
    <3>1. i # Len(a) + 1
      BY <1>1, <1>3, <2>1
    <3>. QED BY <1>0, <1>3, <2>1, <3>1
  <2>2. ASSUME NEW i \in DOMAIN b, NEW m \in DOMAIN b[i].vars
        PROVE  /\ Given(b[i].vars[m], c)
               /\ \A j \in DOMAIN b : \A l \in DOMAIN b[j].vars :
                    ToldApart(b[i].vars[m], i, m, b[j].vars[l], j, l)
    <3>1. i \in DOMAIN a /\ m \in DOMAIN a[i].vars /\ b[i] = a[i]
      BY <2>1
    <3>2. Given(a[i].vars[m], c)
      BY <1>5, <3>1, Zenon DEF Numbered
    <3>3. ASSUME NEW j \in DOMAIN b, NEW l \in DOMAIN b[j].vars
          PROVE  ToldApart(b[i].vars[m], i, m, b[j].vars[l], j, l)
      <4>1. j \in DOMAIN a /\ l \in DOMAIN a[j].vars /\ b[j] = a[j]
        BY <2>1
      <4>2. ToldApart(a[i].vars[m], i, m, a[j].vars[l], j, l)
        BY <1>5, <3>1, <4>1, Zenon DEF Numbered
      <4>. QED BY <3>1, <4>1, <4>2
    <3>. QED BY <3>1, <3>2, <3>3
  <2>. QED BY <2>2, Zenon DEF Numbered
<1>6. /\ Len(a) <= Len(a) /\ Len(a) <= Len(b) /\ \A i \in 1..Len(a) : a[i] = b[i]
  BY <1>0, <1>3
<1>7. ASSUME NEW s \in 0..Len(a), NEW sure, SafeFrom(a, s, sure)
      PROVE  SafeFrom(b, s, sure) /\ \A n : FromIn(b, n, s) = FromIn(a, n, s)
  BY <1>0, <1>4, <1>6, <1>7, UpToKeeps
<1>8. ASSUME NEW sure, SafeFrom(a, p, sure) PROVE SafeFrom(b, Len(a) + 1, sure)
  <2>1. SafeFrom(b, p, sure)
    BY <1>7, <1>8
  <2>2. Len(a) + 1 \in 1..Len(b)
    BY <1>0, <1>3
  <2>3. ASSUME NEW n PROVE FromIn(b, n, Len(a) + 1) = FromIn(b, n, p)
    <3>1. FromIn(b, n, Len(a) + 1) = IF n \in DOMAIN b[Len(a) + 1].vars THEN Len(a) + 1
                                     ELSE FromIn(b, n, b[Len(a) + 1].parent)
      BY <1>4, <2>2, ScopeSeen
    <3>2. n \notin DOMAIN b[Len(a) + 1].vars /\ b[Len(a) + 1].parent = p
      BY <1>1, <1>3
    <3>. QED BY <3>1, <3>2
  <2>. QED BY <2>1, <2>3, Zenon DEF SafeFrom
<1>. QED BY <1>0, <1>2, <1>3, <1>4, <1>5, <1>7, <1>8

-----------------------------------------------------------------------------
(* Variables that are marked as checked *)

\* Checked, of any list of scopes.
Marked(scs, marks, start) ==
    [i \in DOMAIN scs |->
        [vars |-> [n \in DOMAIN scs[i].vars |->
                    IF n \in marks /\ FromIn(scs, n, start) = i
                    THEN [scs[i].vars[n] EXCEPT !.checked = TRUE] ELSE scs[i].vars[n]],
         parent |-> scs[i].parent]]

\* A variable is marked, and nothing else of it changes.
LEMMA MarkedVar ==
    ASSUME NEW G, NEW v \in [nullable : BOOLEAN, checked : BOOLEAN, guard : G, id : Nat]
    PROVE  LET w == [v EXCEPT !.checked = TRUE]
           IN  /\ w \in [nullable : BOOLEAN, checked : BOOLEAN, guard : G, id : Nat]
               /\ w.checked /\ w.id = v.id /\ w.guard = v.guard /\ w.nullable = v.nullable
OBVIOUS

\* The fields of a variable.
LEMMA VarFields ==
    ASSUME NEW v \in VarRecord
    PROVE  LET w == [v EXCEPT !.checked = TRUE]
           IN  /\ w \in VarRecord
               /\ w.checked /\ w.id = v.id /\ w.guard = v.guard /\ w.nullable = v.nullable
BY MarkedVar DEF VarRecord

\* Marking the variables of these names, as seen from a scope, checks more.
LEMMA MarkedKeeps ==
    ASSUME NEW a, ScopeList(a), NEW marks, NEW start \in 0..Len(a), NEW b,
           b = Marked(a, marks, start)
    PROVE  /\ ScopeList(b) /\ Alike(a, b)
           /\ \A n \in marks : FromIn(a, n, start) # 0 =>
                b[FromIn(a, n, start)].vars[n].checked
<1>0. /\ Len(a) \in Nat /\ DOMAIN a = 1..Len(a)
  BY ListFacts
<1>. DEFINE Var(i, n) == IF n \in marks /\ FromIn(a, n, start) = i
                         THEN [a[i].vars[n] EXCEPT !.checked = TRUE] ELSE a[i].vars[n]
<1>1. ASSUME NEW i \in 1..Len(a), NEW n \in DOMAIN a[i].vars
      PROVE  /\ Var(i, n) \in VarRecord /\ Var(i, n).id = a[i].vars[n].id
             /\ Var(i, n).guard = a[i].vars[n].guard
             /\ Var(i, n).nullable = a[i].vars[n].nullable
             /\ a[i].vars[n].checked => Var(i, n).checked
             /\ n \in marks /\ FromIn(a, n, start) = i => Var(i, n).checked
  <2>1. a[i].vars[n] \in VarRecord
    BY ListFacts
  <2>2. PICK v \in VarRecord : v = a[i].vars[n]
    BY <2>1
  <2>3. Var(i, n) = IF n \in marks /\ FromIn(a, n, start) = i
                    THEN [v EXCEPT !.checked = TRUE] ELSE v
    BY <2>2
  <2>4. /\ [v EXCEPT !.checked = TRUE] \in VarRecord
        /\ [v EXCEPT !.checked = TRUE].checked /\ [v EXCEPT !.checked = TRUE].id = v.id
        /\ [v EXCEPT !.checked = TRUE].guard = v.guard
        /\ [v EXCEPT !.checked = TRUE].nullable = v.nullable
    BY VarFields
  <2>. HIDE DEF Var
  <2>. QED BY <2>2, <2>3, <2>4, Zenon
<1>2. /\ DOMAIN b = 1..Len(a)
      /\ \A i \in 1..Len(a) : b[i] = [vars |-> [n \in DOMAIN a[i].vars |-> Var(i, n)],
                                      parent |-> a[i].parent]
  BY <1>0, Zenon DEF Marked
<1>. HIDE DEF Var
<1>3. ASSUME NEW i \in 1..Len(a)
      PROVE  /\ b[i] \in ScopeRecord /\ b[i].parent = a[i].parent /\ b[i].parent \in 0..(i - 1)
             /\ DOMAIN b[i].vars = DOMAIN a[i].vars
             /\ \A n \in DOMAIN a[i].vars : b[i].vars[n] = Var(i, n)
  <2>1. PICK t : t = [n \in DOMAIN a[i].vars |-> Var(i, n)]
    OBVIOUS
  <2>2. b[i] = [vars |-> t, parent |-> a[i].parent]
    BY <1>2, <2>1
  <2>3. DOMAIN t = DOMAIN a[i].vars /\ \A n \in DOMAIN a[i].vars : t[n] = Var(i, n)
    BY <2>1
  <2>4. /\ DOMAIN a[i].vars \subseteq Locals /\ a[i].parent \in 0..(i - 1)
        /\ a[i].parent \in Nat
    BY ListFacts
  <2>5. t \in VarTable
    <3>1. PICK D \in SUBSET Locals : D = DOMAIN a[i].vars
      BY <2>4
    <3>2. t \in [D -> VarRecord]
      BY <1>1, <2>1, <3>1
    <3>. QED BY <3>2 DEF VarTable
  <2>6. b[i] \in ScopeRecord
    BY <2>2, <2>4, <2>5 DEF ScopeRecord
  <2>. QED BY <2>2, <2>3, <2>4, <2>6
<1>4. b \in Seq(ScopeRecord) /\ Len(b) = Len(a)
  <2>1. b \in [1..Len(a) -> ScopeRecord]
    <3>1. b = [i \in 1..Len(a) |-> b[i]]
      BY <1>0 DEF Marked
    <3>. QED BY <1>3, <3>1
  <2>. QED BY <1>0, <2>1
<1>5. ScopeList(b)
  BY <1>3, <1>4 DEF ScopeList
<1>6. Alike(a, b)
  <2>1. ASSUME NEW i \in 1..Len(a)
        PROVE  /\ a[i].parent = b[i].parent /\ DOMAIN a[i].vars = DOMAIN b[i].vars
               /\ \A m \in DOMAIN a[i].vars :
                    /\ a[i].vars[m].id = b[i].vars[m].id
                    /\ a[i].vars[m].guard = b[i].vars[m].guard
                    /\ a[i].vars[m].nullable = b[i].vars[m].nullable
                    /\ a[i].vars[m].checked => b[i].vars[m].checked
    BY <1>1, <1>3
  <2>. QED BY <1>4, <2>1, Zenon DEF Alike
<1>7. ASSUME NEW n \in marks, FromIn(a, n, start) # 0
      PROVE  b[FromIn(a, n, start)].vars[n].checked
  <2>1. PICK t : t = FromIn(a, n, start)
    OBVIOUS
  <2>2. t \in 1..Len(a) /\ n \in DOMAIN a[t].vars
    BY <1>7, <2>1, FoundDefines
  <2>. QED BY <1>1, <1>3, <2>1, <2>2
<1>. QED BY <1>5, <1>6, <1>7

\* What the analyzer looks up in its scopes.
LEMMA LooksUp ==
    /\ \A n, s : ScopeFrom(n, s) = FromIn(scopes, n, s)
    /\ \A n : Known(n) <=> FromIn(scopes, n, currentScope) # 0
    /\ \A n : Lookup(n) = scopes[FromIn(scopes, n, currentScope)].vars[n]
    /\ \A marks, s : Checked(marks, s) = Marked(scopes, marks, s)
BY Zenon DEF ScopeFrom, FromIn, Known, FindScope, Lookup, Checked, Marked, NoScope

\* Whatever a condition proves of a variable's id, it marks the variable of that id, if
\* that is the one seen.
LEMMA ProvedIsMarked ==
    ASSUME ScopeList(scopes), Numbered(scopes, count), currentScope \in 1..Len(scopes),
           NEW cond \in Conditions, NEW n, NEW t, t = FromIn(scopes, n, currentScope), t # 0,
           scopes[t].vars[n].id \in Proved(cond)
    PROVE  n \in UNION {Marks(u) : u \in cond}
<1>0. Len(scopes) \in Nat /\ DOMAIN scopes = 1..Len(scopes) /\ currentScope \in 0..Len(scopes)
  BY ListFacts
<1>1. t \in DOMAIN scopes /\ n \in DOMAIN scopes[t].vars
  BY <1>0, FoundDefines
<1>2. ASSUME NEW m, Known(m)
      PROVE  /\ scopes[t].vars[n].id = Lookup(m).id => n = m
             /\ Lookup(m).guard.of # NoName /\ Lookup(m).guard.target = scopes[t].vars[n].id =>
                    n = Lookup(m).guard.of
  <2>1. PICK s : s = FromIn(scopes, m, currentScope)
    OBVIOUS
  <2>2. s \in DOMAIN scopes /\ m \in DOMAIN scopes[s].vars /\ Lookup(m) = scopes[s].vars[m]
    BY <1>0, <1>2, <2>1, FoundDefines, LooksUp
  <2>3. ToldApart(scopes[t].vars[n], t, n, scopes[s].vars[m], s, m)
    BY <1>1, <2>2, Zenon DEF Numbered
  <2>. QED BY <2>2, <2>3 DEF ToldApart
<1>3. PICK u \in cond : /\ Known(u.name)
                        /\ \/ u.kind = "not_null" /\ scopes[t].vars[n].id = Lookup(u.name).id
                           \/ /\ scopes[t].vars[n].id = Lookup(u.name).guard.target
                              /\ Lookup(u.name).guard.of # NoName
                              /\ u.kind = IF Lookup(u.name).guard.notNull THEN "var"
                                          ELSE "not_var"
  BY DEF Proved
<1>4. CASE u.kind = "not_null"
  <2>1. Marks(u) = {u.name}
    BY <1>4 DEF Marks
  <2>2. n = u.name
    BY <1>2, <1>3, <1>4
  <2>. QED BY <2>1, <2>2
<1>5. CASE u.kind = "var"
  <2>1. Lookup(u.name).guard.notNull /\ n = Lookup(u.name).guard.of
    BY <1>2, <1>3, <1>5
  <2>2. Marks(u) = {Lookup(u.name).guard.of}
    BY <1>3, <1>5, <2>1 DEF Marks
  <2>. QED BY <2>1, <2>2
<1>6. CASE u.kind = "not_var"
  <2>1. ~Lookup(u.name).guard.notNull /\ n = Lookup(u.name).guard.of
    BY <1>2, <1>3, <1>6
  <2>2. Marks(u) = {Lookup(u.name).guard.of}
    BY <1>3, <1>6, <2>1 DEF Marks
  <2>. QED BY <2>1, <2>2
<1>. QED BY <1>3, <1>4, <1>5, <1>6

\* In the body of an if, what its condition proves to be there is checked.
LEMMA ConditionMarks ==
    ASSUME ScopeList(scopes), Numbered(scopes, count), count \in Nat,
           currentScope \in 1..Len(scopes), NEW cond \in Conditions, NEW sure, NEW b,
           b = Checked(UNION {Marks(u) : u \in cond}, currentScope),
           SafeFrom(scopes, currentScope, sure)
    PROVE  /\ SafeFrom(b, currentScope, sure \cup Proved(cond))
           /\ Proved(cond) \subseteq 0..count
<1>0. Len(scopes) \in Nat /\ DOMAIN scopes = 1..Len(scopes) /\ currentScope \in 0..Len(scopes)
  BY ListFacts
<1>. DEFINE marks == UNION {Marks(u) : u \in cond}
<1>1. b = Marked(scopes, marks, currentScope)
  BY LooksUp, Zenon
<1>2. /\ ScopeList(b) /\ Alike(scopes, b)
      /\ \A n \in marks : FromIn(scopes, n, currentScope) # 0 =>
            b[FromIn(scopes, n, currentScope)].vars[n].checked
  <2>. HIDE DEF marks
  <2>. QED BY <1>0, <1>1, MarkedKeeps
<1>3. /\ \A n : FromIn(b, n, currentScope) = FromIn(scopes, n, currentScope)
      /\ SafeFrom(b, currentScope, sure)
  BY <1>0, <1>2, AlikeKeeps
<1>4. ASSUME NEW n, FromIn(b, n, currentScope) # 0
      PROVE  SafeVar(b[FromIn(b, n, currentScope)].vars[n], sure \cup Proved(cond))
  <2>1. PICK t : t = FromIn(scopes, n, currentScope)
    OBVIOUS
  <2>2. t = FromIn(b, n, currentScope) /\ t # 0
    BY <1>3, <1>4, <2>1
  <2>3. SafeVar(b[t].vars[n], sure)
    BY <1>3, <2>2, Zenon DEF SafeFrom
  <2>4. t \in 1..Len(scopes) /\ n \in DOMAIN scopes[t].vars
    BY <1>0, <2>1, <2>2, FoundDefines
  <2>5. scopes[t].vars[n].id = b[t].vars[n].id
    BY <1>2, <2>4, Zenon DEF Alike
  <2>6. b[t].vars[n].id \in Proved(cond) => b[t].vars[n].checked
    <3>1. b[t].vars[n].id \in Proved(cond) => n \in marks
      BY <2>1, <2>2, <2>5, ProvedIsMarked
    <3>. HIDE DEF marks
    <3>. QED BY <1>2, <2>1, <2>2, <3>1
  <2>. QED BY <2>2, <2>3, <2>6 DEF SafeVar
<1>5. ASSUME NEW u \in cond, Known(u.name)
      PROVE  Lookup(u.name).id \in 0..count /\ Lookup(u.name).guard.target \in 0..count
  <2>1. PICK s : s = FromIn(scopes, u.name, currentScope)
    OBVIOUS
  <2>2. /\ s \in DOMAIN scopes /\ u.name \in DOMAIN scopes[s].vars
        /\ Lookup(u.name) = scopes[s].vars[u.name]
    BY <1>0, <1>5, <2>1, FoundDefines, LooksUp
  <2>3. Given(scopes[s].vars[u.name], count)
    BY <2>2, Zenon DEF Numbered
  <2>. QED BY <2>2, <2>3 DEF Given
<1>6. Proved(cond) \subseteq 0..count
  BY <1>5 DEF Proved
<1>. QED BY <1>4, <1>6, Zenon DEF SafeFrom

-----------------------------------------------------------------------------
(* Blocks *)

\* What a block or a branch amounts to, and a block that is open.
Amounts == [returns : BOOLEAN, falls : BOOLEAN, valued : BOOLEAN]
BlockRecord == [kind : {"fn", "if", "else", "for", "while", "block"},
                guard : Locals \cup {NoName}, before : Amounts, returned : BOOLEAN,
                tail : BOOLEAN, falls : BOOLEAN, valued : BOOLEAN, sure : SUBSET Nat]

\* What is not said to return on all paths may run to its end, without a value.
Fair(s) == ~s.returns => s.falls /\ ~s.valued
FairBlock(b) == (~b.returned => b.falls) /\ (~Returns(b) => ~b.valued) /\ Fair(b.before)

\* The blocks that are open: the function's, and those in it.
BlocksOK(bs, c) ==
    /\ bs \in Seq(BlockRecord) /\ Len(bs) \in 1..MaxBlocks /\ bs[1].kind = "fn"
    /\ \A i \in 1..Len(bs) : /\ FairBlock(bs[i]) /\ bs[i].sure \subseteq 0..c
                             /\ i # Len(bs) => ~bs[i].returned

\* Each block has a scope in that of the block around it, from which all that is sure to
\* be there is checked.
Nested(scs, bs, cur, sc) ==
    /\ sc \in [1..Len(bs) -> 1..Len(scs)] /\ sc[Len(bs)] = cur
    /\ \A j, k \in 1..Len(bs) : j < k => sc[j] < sc[k]
    /\ \A k \in 2..Len(bs) : scs[sc[k]].parent = sc[k - 1]
    /\ \A k \in 1..Len(bs) : SafeFrom(scs, sc[k], bs[k].sure)

\* The scopes and the blocks, when c statements were read.
Walked(scs, cur, bs, c) ==
    /\ ScopeList(scs) /\ Numbered(scs, c) /\ BlocksOK(bs, c)
    /\ \E sc : Nested(scs, bs, cur, sc)

\* What it says of the innermost block.
LEMMA WalkedHere ==
    ASSUME NEW scs, NEW cur, NEW bs, NEW c \in Nat, Walked(scs, cur, bs, c)
    PROVE  /\ Len(scs) \in Nat /\ cur \in 1..Len(scs) /\ Len(bs) \in 1..MaxBlocks
           /\ bs[Len(bs)] \in BlockRecord /\ FairBlock(bs[Len(bs)])
           /\ bs[Len(bs)].sure \subseteq 0..c /\ SafeFrom(scs, cur, bs[Len(bs)].sure)
           /\ bs[Len(bs)].kind # "fn" => Len(bs) > 1
<1>1. PICK sc : Nested(scs, bs, cur, sc)
  BY DEF Walked
<1>2. Len(bs) \in 1..MaxBlocks /\ Len(bs) \in 1..Len(bs) /\ bs \in Seq(BlockRecord)
  BY ChecksAssumption DEF Walked, BlocksOK
<1>3. cur \in 1..Len(scs) /\ SafeFrom(scs, cur, bs[Len(bs)].sure)
  BY <1>1, <1>2 DEF Nested
<1>4. bs[Len(bs)] \in BlockRecord
  BY <1>2, ElementOfSeq
<1>5. Len(scs) \in Nat
  BY ListFacts DEF Walked
<1>. QED BY <1>2, <1>3, <1>4, <1>5, ChecksAssumption DEF Walked, BlocksOK

\* The block around it.
LEMMA WalkedAround ==
    ASSUME NEW scs, NEW cur, NEW bs, NEW c \in Nat, Walked(scs, cur, bs, c), Len(bs) > 1
    PROVE  /\ scs[cur].parent \in 1..(cur - 1)
           /\ bs[Len(bs) - 1] \in BlockRecord /\ FairBlock(bs[Len(bs) - 1])
           /\ ~bs[Len(bs) - 1].returned
           /\ bs[Len(bs) - 1].sure \subseteq 0..c
<1>1. PICK sc : Nested(scs, bs, cur, sc)
  BY DEF Walked
<1>2. /\ Len(bs) \in 2..Len(bs) /\ Len(bs) - 1 \in 1..Len(bs) /\ Len(bs) \in Nat
      /\ Len(bs) - 1 # Len(bs) /\ bs \in Seq(BlockRecord)
  BY ChecksAssumption DEF Walked, BlocksOK
<1>3. scs[cur].parent = sc[Len(bs) - 1] /\ sc[Len(bs) - 1] \in 1..Len(scs)
  BY <1>1, <1>2 DEF Nested
<1>4. cur \in 1..Len(scs) /\ Len(scs) \in Nat
  BY WalkedHere
<1>5. scs[cur].parent \in 0..(cur - 1)
  BY <1>4, ListFacts DEF Walked
<1>6. bs[Len(bs) - 1] \in BlockRecord
  BY <1>2, ElementOfSeq
<1>. QED BY <1>2, <1>3, <1>4, <1>5, <1>6 DEF Walked, BlocksOK

\* The first n entries of a sequence, the last of them replaced.
Replaces(s, n, e, t) ==
    Len(t) = n /\ t[n] = e /\ \A i \in 1..n : i # n => t[i] = s[i]

\* The last entry of a sequence is replaced, or the last two are by one.
LEMMA LastReplaced ==
    ASSUME NEW S, NEW s \in Seq(S), NEW e \in S, NEW t, t = Append(Front(s), e), 0 < Len(s)
    PROVE  t \in Seq(S) /\ Replaces(s, Len(s), e, t)
<1>0. Len(s) \in Nat /\ DOMAIN s = 1..Len(s)
  BY LenProperties
<1>1. PICK n \in Nat : Len(s) = n + 1
  <2>1. PICK l \in Nat : l = Len(s)
    BY <1>0
  <2>2. l - 1 \in Nat /\ l = (l - 1) + 1
    BY <2>1
  <2>. QED BY <2>1, <2>2
<1>2. \A i \in 1..n : s[i] \in S
  BY <1>0, <1>1, ElementOfSeq
<1>3. PICK f : f = SubSeq(s, 1, n)
  OBVIOUS
<1>4. f \in Seq(S) /\ Len(f) = n /\ \A i \in 1..n : f[i] = s[i]
  <2>1. /\ f \in Seq(S) /\ Len(f) = IF 1 <= n THEN n - 1 + 1 ELSE 0
        /\ \A i \in 1..(n - 1 + 1) : f[i] = s[1 + i - 1]
    BY <1>2, <1>3, SubSeqProperties
  <2>. QED BY <2>1
<1>5. t = Append(f, e)
  BY <1>1, <1>3 DEF Front
<1>6. /\ t \in Seq(S) /\ Len(t) = n + 1 /\ t[n + 1] = e
      /\ \A i \in 1..n : t[i] = f[i]
  <2>1. /\ t \in Seq(S) /\ Len(t) = Len(f) + 1 /\ t[Len(f) + 1] = e
        /\ \A i \in 1..Len(f) : t[i] = f[i]
    BY <1>4, <1>5, AppendProperties
  <2>. QED BY <1>4, <2>1
<1>. QED BY <1>1, <1>4, <1>6 DEF Replaces

\* The last two entries of a sequence are replaced by one.
LEMMA LastTwoReplaced ==
    ASSUME NEW S, NEW s \in Seq(S), Len(s) > 1, NEW e \in S, NEW t,
           t = Append(SubSeq(s, 1, Len(s) - 2), e)
    PROVE  t \in Seq(S) /\ Replaces(s, Len(s) - 1, e, t)
<1>0. Len(s) \in Nat /\ DOMAIN s = 1..Len(s)
  BY LenProperties
<1>1. PICK n \in Nat : Len(s) = n + 2
  <2>1. PICK l \in Nat : l = Len(s)
    BY <1>0
  <2>2. l - 2 \in Nat /\ l = (l - 2) + 2
    BY <2>1
  <2>. QED BY <2>1, <2>2
<1>2. \A i \in 1..n : s[i] \in S
  BY <1>0, <1>1, ElementOfSeq
<1>3. PICK f : f = SubSeq(s, 1, n)
  OBVIOUS
<1>4. f \in Seq(S) /\ Len(f) = n /\ \A i \in 1..n : f[i] = s[i]
  <2>1. /\ f \in Seq(S) /\ Len(f) = IF 1 <= n THEN n - 1 + 1 ELSE 0
        /\ \A i \in 1..(n - 1 + 1) : f[i] = s[1 + i - 1]
    BY <1>2, <1>3, SubSeqProperties
  <2>. QED BY <2>1
<1>5. t = Append(f, e)
  BY <1>1, <1>3
<1>6. /\ t \in Seq(S) /\ Len(t) = n + 1 /\ t[n + 1] = e
      /\ \A i \in 1..n : t[i] = f[i]
  <2>1. /\ t \in Seq(S) /\ Len(t) = Len(f) + 1 /\ t[Len(f) + 1] = e
        /\ \A i \in 1..Len(f) : t[i] = f[i]
    BY <1>4, <1>5, AppendProperties
  <2>. QED BY <1>4, <2>1
<1>. QED BY <1>1, <1>4, <1>6 DEF Replaces

\* A block after a statement that is fair: its last one, if it is an expression, may have
\* a value.
LEMMA AfterIsFair ==
    ASSUME NEW b \in BlockRecord, FairBlock(b), NEW s \in Amounts, NEW tail \in BOOLEAN,
           b.returned => s.returns, ~s.returns => s.falls /\ (tail \/ ~s.valued),
           NEW e, e = After(b, s, tail)
    PROVE  /\ e \in BlockRecord /\ FairBlock(e) /\ e.kind = b.kind /\ e.sure = b.sure
           /\ e.returned = s.returns
<1>1. PICK O : O = Amounts
  OBVIOUS
<1>2. /\ b.kind \in {"fn", "if", "else", "for", "while", "block"}
      /\ b.guard \in Locals \cup {NoName} /\ b.before \in O /\ b.sure \in SUBSET Nat
      /\ b.falls \in BOOLEAN /\ b.returned \in BOOLEAN
  BY <1>1 DEF BlockRecord
<1>3. s.returns \in BOOLEAN /\ s.falls \in BOOLEAN /\ s.valued \in BOOLEAN
  BY DEF Amounts
<1>4. PICK falls \in BOOLEAN : falls = (b.falls /\ s.falls)
  OBVIOUS
<1>5. e = [kind |-> b.kind, guard |-> b.guard, before |-> b.before, sure |-> b.sure,
           returned |-> s.returns, tail |-> tail, falls |-> falls, valued |-> s.valued]
  BY <1>4 DEF After
<1>6. e \in BlockRecord
  BY <1>1, <1>2, <1>3, <1>5 DEF BlockRecord
<1>7. /\ e.kind = b.kind /\ e.sure = b.sure /\ e.returned = s.returns /\ e.tail = tail
      /\ e.falls = falls /\ e.valued = s.valued /\ e.before = b.before
  BY <1>5
<1>8. FairBlock(e)
  BY <1>3, <1>4, <1>7 DEF FairBlock, Returns
<1>. QED BY <1>6, <1>7, <1>8

\* A statement is read in the innermost block, and may define a variable.
LEMMA WalkedOn ==
    ASSUME NEW a, NEW b, NEW cur, NEW bs, NEW c \in Nat, NEW d \in Nat, c <= d,
           Walked(a, cur, bs, c), ScopeList(b), Numbered(b, d), Len(b) = Len(a),
           \A i \in 1..Len(a) : b[i].parent = a[i].parent,
           \A s \in 0..(cur - 1) : \A sure : SafeFrom(a, s, sure) => SafeFrom(b, s, sure),
           \A sure : sure \subseteq 0..c /\ SafeFrom(a, cur, sure) => SafeFrom(b, cur, sure),
           NEW e \in BlockRecord, FairBlock(e), e.kind = bs[Len(bs)].kind,
           e.sure = bs[Len(bs)].sure, NEW next, next = Append(Front(bs), e)
    PROVE  Walked(b, cur, next, d)
<1>0. /\ Len(a) \in Nat /\ cur \in 1..Len(a) /\ Len(bs) \in 1..MaxBlocks /\ Len(bs) \in Nat
      /\ e.sure \subseteq 0..c /\ Len(bs) > 0
  <2>1. /\ Len(a) \in Nat /\ cur \in 1..Len(a) /\ Len(bs) \in 1..MaxBlocks
        /\ e.sure \subseteq 0..c
    BY WalkedHere
  <2>. QED BY <2>1, ChecksAssumption
<1>1. BlocksOK(bs, c) /\ bs \in Seq(BlockRecord)
  BY DEF Walked, BlocksOK
<1>2. /\ next \in Seq(BlockRecord) /\ Len(next) = Len(bs) /\ next[Len(bs)] = e
      /\ \A i \in 1..Len(bs) : i # Len(bs) => next[i] = bs[i]
  <2>1. PICK S : S = BlockRecord
    OBVIOUS
  <2>2. bs \in Seq(S) /\ e \in S /\ 0 < Len(bs)
    BY <1>0, <1>1, <2>1
  <2>3. next \in Seq(S) /\ Replaces(bs, Len(bs), e, next)
    BY <2>2, LastReplaced
  <2>. QED BY <2>1, <2>3 DEF Replaces
<1>3. \A i \in 1..Len(bs) : next[i].sure = bs[i].sure
  BY <1>2
<1>4. BlocksOK(next, d)
  <2>1. next[1].kind = "fn"
    BY <1>0, <1>1, <1>2 DEF BlocksOK
  <2>2. ASSUME NEW i \in 1..Len(bs)
        PROVE  /\ FairBlock(next[i]) /\ next[i].sure \subseteq 0..d
               /\ i # Len(bs) => ~next[i].returned
    <3>1. CASE i = Len(bs)
      BY <1>0, <1>2, <3>1
    <3>2. CASE i # Len(bs)
      BY <1>1, <1>2, <3>2 DEF BlocksOK
    <3>. QED BY <3>1, <3>2
  <2>. QED BY <1>0, <1>2, <2>1, <2>2 DEF BlocksOK
<1>5. PICK sc : Nested(a, bs, cur, sc)
  BY DEF Walked
<1>6. Nested(b, next, cur, sc)
  <2>1. sc \in [1..Len(next) -> 1..Len(b)] /\ sc[Len(next)] = cur
    BY <1>2, <1>5 DEF Nested
  <2>2. \A j, k \in 1..Len(next) : j < k => sc[j] < sc[k]
    BY <1>2, <1>5 DEF Nested
  <2>3. ASSUME NEW k \in 2..Len(next) PROVE b[sc[k]].parent = sc[k - 1]
    <3>0. k \in 1..Len(bs) /\ k \in 2..Len(bs)
      BY <1>0, <1>2
    <3>1. sc[k] \in 1..Len(a) /\ a[sc[k]].parent = sc[k - 1]
      BY <1>5, <3>0 DEF Nested
    <3>. QED BY <3>1
  <2>4. ASSUME NEW k \in 1..Len(next) PROVE SafeFrom(b, sc[k], next[k].sure)
    <3>1. k \in 1..Len(bs) /\ SafeFrom(a, sc[k], bs[k].sure)
      BY <1>2, <1>5 DEF Nested
    <3>2. next[k].sure = bs[k].sure /\ bs[k].sure \subseteq 0..c
      BY <1>1, <1>3, <3>1 DEF BlocksOK
    <3>3. CASE k = Len(bs)
      <4>1. sc[k] = cur
        BY <1>5, <3>3 DEF Nested
      <4>. QED BY <3>1, <3>2, <4>1
    <3>4. CASE k # Len(bs)
      <4>0. k < Len(bs) /\ Len(bs) \in 1..Len(bs)
        BY <1>0, <3>1, <3>4
      <4>1. sc[k] < sc[Len(bs)] /\ sc[k] \in 1..Len(a) /\ sc[Len(bs)] = cur
        BY <1>5, <3>1, <4>0 DEF Nested
      <4>2. sc[k] \in 0..(cur - 1)
        BY <1>0, <4>1
      <4>. QED BY <3>1, <3>2, <4>2
    <3>. QED BY <3>3, <3>4
  <2>. QED BY <2>1, <2>2, <2>3, <2>4 DEF Nested
<1>. QED BY <1>4, <1>6 DEF Walked

\* A block is opened in the innermost one, with a scope in the current one.
LEMMA WalkedInto ==
    ASSUME NEW a, NEW b, NEW cur, NEW bs, NEW c \in Nat, NEW d \in Nat, c <= d,
           Walked(a, cur, bs, c), ScopeList(b), Numbered(b, d), Len(b) = Len(a) + 1,
           b[Len(b)].parent = cur, \A i \in 1..Len(a) : b[i].parent = a[i].parent,
           \A s \in 1..Len(a) : \A sure : sure \subseteq 0..c /\ SafeFrom(a, s, sure) =>
                SafeFrom(b, s, sure),
           Len(bs) < MaxBlocks, ~bs[Len(bs)].returned,
           NEW e \in BlockRecord, FairBlock(e), e.sure \subseteq 0..d,
           SafeFrom(b, Len(b), e.sure), NEW next, next = Append(bs, e)
    PROVE  Walked(b, Len(b), next, d)
<1>0. /\ Len(a) \in Nat /\ cur \in 1..Len(a) /\ Len(bs) \in 1..MaxBlocks /\ Len(bs) \in Nat
      /\ Len(bs) > 0
  <2>1. Len(a) \in Nat /\ cur \in 1..Len(a) /\ Len(bs) \in 1..MaxBlocks
    BY WalkedHere
  <2>. QED BY <2>1, ChecksAssumption
<1>1. BlocksOK(bs, c) /\ bs \in Seq(BlockRecord)
  BY DEF Walked, BlocksOK
<1>2. /\ next \in Seq(BlockRecord) /\ Len(next) = Len(bs) + 1 /\ next[Len(bs) + 1] = e
      /\ \A i \in 1..Len(bs) : next[i] = bs[i]
  BY <1>1, AppendProperties
<1>3. BlocksOK(next, d)
  <2>1. next[1].kind = "fn" /\ Len(next) \in 1..MaxBlocks
    BY <1>0, <1>1, <1>2, ChecksAssumption DEF BlocksOK
  <2>2. ASSUME NEW i \in 1..(Len(bs) + 1)
        PROVE  /\ FairBlock(next[i]) /\ next[i].sure \subseteq 0..d
               /\ i # Len(bs) + 1 => ~next[i].returned
    <3>1. CASE i = Len(bs) + 1
      BY <1>2, <3>1
    <3>2. CASE i # Len(bs) + 1
      <4>1. i \in 1..Len(bs)
        BY <1>0, <3>2
      <4>2. /\ FairBlock(bs[i]) /\ bs[i].sure \subseteq 0..c /\ ~bs[i].returned
        BY <1>1, <4>1 DEF BlocksOK
      <4>. QED BY <1>2, <4>1, <4>2
    <3>. QED BY <3>1, <3>2
  <2>. QED BY <1>2, <2>1, <2>2 DEF BlocksOK
<1>4. PICK sc : Nested(a, bs, cur, sc)
  BY DEF Walked
<1>5. PICK n \in Nat : n = Len(bs) /\ n > 0
  BY <1>0
<1>6. PICK l \in Nat : l = Len(a)
  BY <1>0
<1>7. /\ sc \in [1..n -> 1..l] /\ sc[n] = cur
      /\ \A j, k \in 1..n : j < k => sc[j] < sc[k]
      /\ \A k \in 2..n : a[sc[k]].parent = sc[k - 1]
      /\ \A k \in 1..n : SafeFrom(a, sc[k], bs[k].sure)
  BY <1>4, <1>5, <1>6 DEF Nested
<1>8. PICK to : to = [k \in 1..(n + 1) |-> IF k = n + 1 THEN l + 1 ELSE sc[k]]
  OBVIOUS
<1>9. /\ to \in [1..(n + 1) -> 1..(l + 1)] /\ to[n + 1] = l + 1
      /\ \A k \in 1..n : to[k] = sc[k] /\ to[k] \in 1..l
  BY <1>7, <1>8
<1>10. \A j, k \in 1..(n + 1) : j < k => to[j] < to[k]
  <2>. SUFFICES ASSUME NEW j \in 1..(n + 1), NEW k \in 1..(n + 1), j < k PROVE to[j] < to[k]
    OBVIOUS
  <2>1. j \in 1..n
    OBVIOUS
  <2>2. CASE k = n + 1
    BY <1>9, <2>1, <2>2
  <2>3. CASE k # n + 1
    <3>1. k \in 1..n
      BY <2>3
    <3>. QED BY <1>7, <1>9, <2>1, <3>1
  <2>. QED BY <2>2, <2>3
<1>11. ASSUME NEW k \in 2..(n + 1) PROVE b[to[k]].parent = to[k - 1]
  <2>1. CASE k = n + 1
    <3>1. to[k - 1] = cur /\ to[k] = l + 1
      <4>1. k - 1 = n /\ n \in 1..n
        BY <1>5, <2>1
      <4>. QED BY <1>7, <1>9, <2>1, <4>1
    <3>. QED BY <1>6, <3>1
  <2>2. CASE k # n + 1
    <3>1. k \in 2..n /\ k \in 1..n /\ k - 1 \in 1..n
      BY <1>5, <2>2
    <3>2. to[k] = sc[k] /\ to[k - 1] = sc[k - 1] /\ sc[k] \in 1..Len(a)
      BY <1>6, <1>9, <3>1
    <3>3. a[sc[k]].parent = sc[k - 1]
      BY <1>7, <3>1
    <3>. QED BY <3>2, <3>3
  <2>. QED BY <2>1, <2>2
<1>12. ASSUME NEW k \in 1..(n + 1) PROVE SafeFrom(b, to[k], next[k].sure)
  <2>1. CASE k = n + 1
    BY <1>2, <1>5, <1>6, <1>9, <2>1
  <2>2. CASE k # n + 1
    <3>1. k \in 1..n
      BY <2>2
    <3>2. to[k] = sc[k] /\ next[k] = bs[k] /\ sc[k] \in 1..Len(a)
      BY <1>2, <1>5, <1>6, <1>9, <3>1
    <3>3. SafeFrom(a, sc[k], bs[k].sure) /\ bs[k].sure \subseteq 0..c
      BY <1>1, <1>5, <1>7, <3>1 DEF BlocksOK
    <3>. QED BY <3>2, <3>3
  <2>. QED BY <2>1, <2>2
<1>13. Nested(b, next, Len(b), to)
  BY <1>2, <1>5, <1>6, <1>9, <1>10, <1>11, <1>12 DEF Nested
<1>. QED BY <1>3, <1>13 DEF Walked

\* The other branch of an if: a block in the place of the first, with a scope of its own.
LEMMA WalkedBeside ==
    ASSUME NEW a, NEW b, NEW cur, NEW bs, NEW c \in Nat,
           Walked(a, cur, bs, c), Len(bs) > 1, ScopeList(b), Numbered(b, c),
           Len(b) = Len(a) + 1, b[Len(b)].parent = a[cur].parent,
           \A i \in 1..Len(a) : b[i].parent = a[i].parent,
           \A s \in 1..Len(a) : \A sure : sure \subseteq 0..c /\ SafeFrom(a, s, sure) =>
                SafeFrom(b, s, sure),
           \A sure : SafeFrom(b, a[cur].parent, sure) => SafeFrom(b, Len(b), sure),
           NEW e \in BlockRecord, FairBlock(e), e.sure = bs[Len(bs) - 1].sure,
           NEW next, next = Append(Front(bs), e)
    PROVE  Walked(b, Len(b), next, c)
<1>0. /\ Len(a) \in Nat /\ cur \in 1..Len(a) /\ Len(bs) \in 1..MaxBlocks /\ Len(bs) \in Nat
      /\ e.sure \subseteq 0..c
  <2>1. Len(a) \in Nat /\ cur \in 1..Len(a) /\ Len(bs) \in 1..MaxBlocks
    BY WalkedHere
  <2>2. bs[Len(bs) - 1].sure \subseteq 0..c
    BY WalkedAround
  <2>. QED BY <2>1, <2>2, ChecksAssumption
<1>1. BlocksOK(bs, c) /\ bs \in Seq(BlockRecord)
  BY DEF Walked, BlocksOK
<1>2. next \in Seq(BlockRecord) /\ Replaces(bs, Len(bs), e, next)
  <2>1. PICK S : S = BlockRecord
    OBVIOUS
  <2>2. bs \in Seq(S) /\ e \in S /\ 0 < Len(bs)
    BY <1>0, <1>1, <2>1
  <2>3. next \in Seq(S) /\ Replaces(bs, Len(bs), e, next)
    BY <2>2, LastReplaced
  <2>. QED BY <2>1, <2>3
<1>3. PICK m \in Nat : Len(bs) = m + 1 /\ m > 0
  <2>1. PICK n \in Nat : n = Len(bs) /\ n > 1
    BY <1>0
  <2>2. n - 1 \in Nat /\ n = (n - 1) + 1 /\ n - 1 > 0
    BY <2>1
  <2>. QED BY <2>1, <2>2
<1>4. /\ Len(next) = m + 1 /\ next[m + 1] = e /\ \A i \in 1..m : next[i] = bs[i]
  <2>1. \A i \in 1..m : i \in 1..(m + 1) /\ i # m + 1
    OBVIOUS
  <2>. QED BY <1>2, <1>3, <2>1 DEF Replaces
<1>5. BlocksOK(next, c)
  <2>1. next[1].kind = "fn" /\ Len(next) \in 1..MaxBlocks
    <3>1. 1 \in 1..m
      BY <1>3
    <3>. QED BY <1>0, <1>1, <1>3, <1>4, <3>1 DEF BlocksOK
  <2>2. ASSUME NEW i \in 1..(m + 1)
        PROVE  /\ FairBlock(next[i]) /\ next[i].sure \subseteq 0..c
               /\ i # m + 1 => ~next[i].returned
    <3>1. CASE i = m + 1
      BY <1>0, <1>4, <3>1
    <3>2. CASE i # m + 1
      <4>1. i \in 1..m /\ i \in 1..Len(bs) /\ i # Len(bs)
        BY <1>3, <3>2
      <4>2. FairBlock(bs[i]) /\ bs[i].sure \subseteq 0..c /\ ~bs[i].returned
        BY <1>1, <4>1 DEF BlocksOK
      <4>. QED BY <1>4, <4>1, <4>2
    <3>. QED BY <3>1, <3>2
  <2>. QED BY <1>2, <1>4, <2>1, <2>2 DEF BlocksOK
<1>6. PICK sc : Nested(a, bs, cur, sc)
  BY DEF Walked
<1>7. PICK l \in Nat : l = Len(a)
  BY <1>0
<1>8. /\ sc \in [1..(m + 1) -> 1..l] /\ sc[m + 1] = cur
      /\ \A j, k \in 1..(m + 1) : j < k => sc[j] < sc[k]
      /\ \A k \in 2..(m + 1) : a[sc[k]].parent = sc[k - 1]
      /\ \A k \in 1..(m + 1) : SafeFrom(a, sc[k], bs[k].sure)
  BY <1>3, <1>6, <1>7 DEF Nested
<1>9. PICK to : to = [k \in 1..(m + 1) |-> IF k = m + 1 THEN l + 1 ELSE sc[k]]
  OBVIOUS
<1>10. /\ to \in [1..(m + 1) -> 1..(l + 1)] /\ to[m + 1] = l + 1
       /\ \A k \in 1..m : to[k] = sc[k] /\ to[k] \in 1..l
  <2>1. \A k \in 1..m : k \in 1..(m + 1) /\ k # m + 1
    OBVIOUS
  <2>2. \A k \in 1..m : to[k] = sc[k] /\ to[k] \in 1..l
    BY <1>8, <1>9, <2>1
  <2>3. m + 1 \in 1..(m + 1) /\ l + 1 \in 1..(l + 1) /\ 1..l \subseteq 1..(l + 1)
    BY <1>3
  <2>. QED BY <1>8, <1>9, <2>2, <2>3
<1>11. \A j, k \in 1..(m + 1) : j < k => to[j] < to[k]
  <2>. SUFFICES ASSUME NEW j \in 1..(m + 1), NEW k \in 1..(m + 1), j < k PROVE to[j] < to[k]
    OBVIOUS
  <2>1. j \in 1..m
    OBVIOUS
  <2>2. CASE k = m + 1
    BY <1>10, <2>1, <2>2
  <2>3. CASE k # m + 1
    <3>1. k \in 1..m
      BY <2>3
    <3>. QED BY <1>8, <1>10, <2>1, <3>1
  <2>. QED BY <2>2, <2>3
<1>12. a[cur].parent = sc[m] /\ m \in 1..m /\ sc[m] \in 1..l
  <2>1. m + 1 \in 2..(m + 1) /\ (m + 1) - 1 = m /\ m \in 1..(m + 1) /\ m \in 1..m
    BY <1>3
  <2>2. a[sc[m + 1]].parent = sc[(m + 1) - 1]
    BY <1>8, <2>1
  <2>. QED BY <1>8, <2>1, <2>2
<1>13. ASSUME NEW k \in 2..(m + 1) PROVE b[to[k]].parent = to[k - 1]
  <2>1. CASE k = m + 1
    <3>1. k - 1 = m
      BY <2>1
    <3>. QED BY <1>7, <1>10, <1>12, <2>1, <3>1
  <2>2. CASE k # m + 1
    <3>1. k \in 1..m /\ k - 1 \in 1..m
      BY <2>2
    <3>2. to[k] = sc[k] /\ to[k - 1] = sc[k - 1] /\ sc[k] \in 1..Len(a)
      BY <1>7, <1>10, <3>1
    <3>3. a[sc[k]].parent = sc[k - 1]
      BY <1>8
    <3>. QED BY <3>2, <3>3
  <2>. QED BY <2>1, <2>2
<1>14. ASSUME NEW k \in 1..m PROVE SafeFrom(b, to[k], next[k].sure)
  <2>1. to[k] = sc[k] /\ next[k] = bs[k] /\ sc[k] \in 1..Len(a) /\ k \in 1..(m + 1)
    BY <1>4, <1>7, <1>10
  <2>2. SafeFrom(a, sc[k], bs[k].sure) /\ bs[k].sure \subseteq 0..c
    BY <1>1, <1>3, <1>8, <2>1 DEF BlocksOK
  <2>. QED BY <2>1, <2>2
<1>15. SafeFrom(b, to[m + 1], next[m + 1].sure)
  <2>1. Len(bs) - 1 = m
    BY <1>3
  <2>2. SafeFrom(b, sc[m], bs[m].sure)
    BY <1>4, <1>10, <1>12, <1>14
  <2>3. SafeFrom(b, Len(b), bs[m].sure)
    BY <1>12, <2>2
  <2>. QED BY <1>4, <1>7, <1>10, <2>1, <2>3
<1>16. \A k \in 1..(m + 1) : SafeFrom(b, to[k], next[k].sure)
  <2>1. \A k \in 1..(m + 1) : k \in 1..m \/ k = m + 1
    OBVIOUS
  <2>. QED BY <1>14, <1>15, <2>1
<1>17. Nested(b, next, Len(b), to)
  BY <1>4, <1>7, <1>10, <1>11, <1>13, <1>16 DEF Nested
<1>. QED BY <1>5, <1>17 DEF Walked

\* The innermost block ends, and is a statement of the one around it.
LEMMA WalkedOut ==
    ASSUME NEW a, NEW b, NEW cur, NEW bs, NEW c \in Nat,
           Walked(a, cur, bs, c), Len(bs) > 1, ScopeList(b), Numbered(b, c),
           Len(b) = Len(a), \A i \in 1..Len(a) : b[i].parent = a[i].parent,
           \A s \in 1..Len(a) : \A sure : SafeFrom(a, s, sure) => SafeFrom(b, s, sure),
           NEW e \in BlockRecord, FairBlock(e), e.sure = bs[Len(bs) - 1].sure,
           e.kind = bs[Len(bs) - 1].kind,
           NEW next, next = Append(SubSeq(bs, 1, Len(bs) - 2), e)
    PROVE  Walked(b, a[cur].parent, next, c)
<1>0. /\ Len(a) \in Nat /\ cur \in 1..Len(a) /\ Len(bs) \in 1..MaxBlocks /\ Len(bs) \in Nat
      /\ e.sure \subseteq 0..c
  <2>1. Len(a) \in Nat /\ cur \in 1..Len(a) /\ Len(bs) \in 1..MaxBlocks
    BY WalkedHere
  <2>2. bs[Len(bs) - 1].sure \subseteq 0..c
    BY WalkedAround
  <2>. QED BY <2>1, <2>2, ChecksAssumption
<1>1. BlocksOK(bs, c) /\ bs \in Seq(BlockRecord)
  BY DEF Walked, BlocksOK
<1>2. next \in Seq(BlockRecord) /\ Replaces(bs, Len(bs) - 1, e, next)
  <2>1. PICK S : S = BlockRecord
    OBVIOUS
  <2>2. bs \in Seq(S) /\ e \in S
    BY <1>1, <2>1
  <2>3. next \in Seq(S) /\ Replaces(bs, Len(bs) - 1, e, next)
    BY <2>2, LastTwoReplaced
  <2>. QED BY <2>1, <2>3
<1>3. PICK m \in Nat : Len(bs) = m + 1 /\ m > 0 /\ Len(bs) - 1 = m
  <2>1. PICK n \in Nat : n = Len(bs) /\ n > 1
    BY <1>0
  <2>2. n - 1 \in Nat /\ n = (n - 1) + 1 /\ n - 1 > 0
    BY <2>1
  <2>. QED BY <2>1, <2>2
<1>4. /\ Len(next) = m /\ next[m] = e /\ \A i \in 1..m : i # m => next[i] = bs[i]
  BY <1>2, <1>3 DEF Replaces
<1>5. \A i \in 1..m : /\ i \in 1..Len(bs) /\ i # Len(bs)
                      /\ next[i].sure = bs[i].sure /\ next[i].kind = bs[i].kind
  BY <1>3, <1>4
<1>6. BlocksOK(next, c)
  <2>1. next[1].kind = "fn" /\ Len(next) \in 1..MaxBlocks
    <3>1. 1 \in 1..m
      BY <1>3
    <3>2. next[1].kind = "fn"
      BY <1>1, <1>5, <3>1 DEF BlocksOK
    <3>3. m \in 1..MaxBlocks
      BY <1>0, <1>3, ChecksAssumption
    <3>. QED BY <1>4, <3>2, <3>3
  <2>2. ASSUME NEW i \in 1..m
        PROVE  /\ FairBlock(next[i]) /\ next[i].sure \subseteq 0..c
               /\ i # m => ~next[i].returned
    <3>1. CASE i = m
      BY <1>0, <1>4, <3>1
    <3>2. CASE i # m
      <4>1. FairBlock(bs[i]) /\ bs[i].sure \subseteq 0..c /\ ~bs[i].returned
        BY <1>1, <1>5 DEF BlocksOK
      <4>. QED BY <1>4, <3>2, <4>1
    <3>. QED BY <3>1, <3>2
  <2>. QED BY <1>2, <1>4, <2>1, <2>2 DEF BlocksOK
<1>7. PICK sc : Nested(a, bs, cur, sc)
  BY DEF Walked
<1>8. /\ sc \in [1..(m + 1) -> 1..Len(a)] /\ sc[m + 1] = cur
      /\ \A j, k \in 1..(m + 1) : j < k => sc[j] < sc[k]
      /\ \A k \in 2..(m + 1) : a[sc[k]].parent = sc[k - 1]
      /\ \A k \in 1..(m + 1) : SafeFrom(a, sc[k], bs[k].sure)
  BY <1>3, <1>7 DEF Nested
<1>9. PICK to : to = [k \in 1..m |-> sc[k]]
  OBVIOUS
<1>10. to \in [1..m -> 1..Len(a)] /\ \A k \in 1..m : to[k] = sc[k] /\ k \in 1..(m + 1)
  BY <1>8, <1>9
<1>11. a[cur].parent = to[m]
  <2>1. m + 1 \in 2..(m + 1) /\ (m + 1) - 1 = m /\ m \in 1..m
    BY <1>3
  <2>2. a[sc[m + 1]].parent = sc[(m + 1) - 1]
    BY <1>8, <2>1
  <2>. QED BY <1>8, <1>10, <2>1, <2>2
<1>12. \A j, k \in 1..m : j < k => to[j] < to[k]
  BY <1>8, <1>10
<1>13. ASSUME NEW k \in 2..m PROVE b[to[k]].parent = to[k - 1]
  <2>1. k \in 1..m /\ k - 1 \in 1..m /\ k \in 2..(m + 1)
    OBVIOUS
  <2>2. to[k] = sc[k] /\ to[k - 1] = sc[k - 1] /\ sc[k] \in 1..Len(a)
    BY <1>10, <2>1
  <2>3. a[sc[k]].parent = sc[k - 1]
    BY <1>8, <2>1
  <2>. QED BY <2>2, <2>3
<1>14. ASSUME NEW k \in 1..m PROVE SafeFrom(b, to[k], next[k].sure)
  <2>1. to[k] = sc[k] /\ sc[k] \in 1..Len(a) /\ next[k].sure = bs[k].sure
    BY <1>5, <1>10
  <2>2. SafeFrom(a, sc[k], bs[k].sure)
    BY <1>8, <1>10
  <2>. QED BY <2>1, <2>2
<1>15. Nested(b, next, a[cur].parent, to)
  BY <1>4, <1>10, <1>11, <1>12, <1>13, <1>14 DEF Nested
<1>. QED BY <1>6, <1>15 DEF Walked

-----------------------------------------------------------------------------
(* The invariant, statement by statement *)

\* The inductive invariant.
ChecksInv ==
    /\ Walked(scopes, currentScope, blocks, count)
    /\ count \in 0..MaxStatements /\ verdict \in {"open", "returns", "may_not_return"}
    /\ falseAlarm = FALSE
    /\ verdict # "open" => verdict = "returns" \/ (Block.falls /\ ~Block.valued)

\* A name is defined in a scope.
Defining(a, cur, n, v) ==
    [a EXCEPT ![cur].vars = [m \in DOMAIN a[cur].vars \cup {n} |->
                                IF m = n THEN v ELSE a[cur].vars[m]]]

\* The list stays one, and the name is defined in that scope.
LEMMA NameDefined ==
    ASSUME NEW a, ScopeList(a), NEW cur \in 1..Len(a), NEW n \in Locals, NEW v \in VarRecord,
           NEW b, b = Defining(a, cur, n, v)
    PROVE  ScopeList(b) /\ Defines(a, b, cur, n, v)
<1>0. /\ Len(a) \in Nat /\ DOMAIN a = 1..Len(a) /\ a \in Seq(ScopeRecord)
      /\ a[cur] \in ScopeRecord /\ DOMAIN a[cur].vars \subseteq Locals
      /\ \A m \in DOMAIN a[cur].vars : a[cur].vars[m] \in VarRecord
      /\ \A i \in 1..Len(a) : a[i] \in ScopeRecord /\ a[i].parent \in 0..(i - 1)
  <2>1. a \in Seq(ScopeRecord)
    BY DEF ScopeList
  <2>. QED BY <2>1, ListFacts
<1>1. PICK t : t = [m \in DOMAIN a[cur].vars \cup {n} |-> IF m = n THEN v ELSE a[cur].vars[m]]
  OBVIOUS
<1>2. PICK V : V = VarRecord
  OBVIOUS
<1>3. PICK D : D = DOMAIN a[cur].vars \cup {n}
  OBVIOUS
<1>4. t \in [D -> V] /\ D \in SUBSET Locals
  BY <1>0, <1>1, <1>2, <1>3
<1>5. t \in VarTable
  BY <1>2, <1>4 DEF VarTable
<1>6. PICK T : T = VarTable
  OBVIOUS
<1>7. PICK r \in [vars : T, parent : Nat] : r = a[cur]
  BY <1>0, <1>6 DEF ScopeRecord
<1>8. PICK q : q = [r EXCEPT !.vars = t]
  OBVIOUS
<1>9. q \in [vars : T, parent : Nat] /\ q.vars = t /\ q.parent = r.parent
  BY <1>5, <1>6, <1>7, <1>8
<1>10. b = [a EXCEPT ![cur] = q]
  BY <1>1, <1>7, <1>8 DEF Defining
<1>11. q \in ScopeRecord
  BY <1>6, <1>9 DEF ScopeRecord
<1>12. /\ b \in Seq(ScopeRecord) /\ Len(b) = Len(a)
       /\ b[cur] = q /\ \A i \in 1..Len(a) : i # cur => b[i] = a[i]
  <2>1. PICK S : S = ScopeRecord
    OBVIOUS
  <2>2. a \in Seq(S) /\ q \in S
    BY <1>0, <1>11, <2>1
  <2>3. b \in Seq(S) /\ Len(b) = Len(a)
    BY <1>0, <1>10, <2>2
  <2>. QED BY <1>0, <1>10, <2>1, <2>3
<1>13. ScopeList(b)
  <2>1. ASSUME NEW i \in 1..Len(b) PROVE b[i].parent \in 0..(i - 1)
    BY <1>0, <1>7, <1>9, <1>12
  <2>. QED BY <1>12, <2>1 DEF ScopeList
<1>14. Defines(a, b, cur, n, v)
  <2>1. DOMAIN t = DOMAIN a[cur].vars \cup {n} /\ t[n] = v
        /\ \A m \in DOMAIN a[cur].vars : m # n => t[m] = a[cur].vars[m]
    BY <1>1
  <2>. QED BY <1>7, <1>9, <1>12, <2>1 DEF Defines
<1>. QED BY <1>13, <1>14

\* What is told apart stays so when more ids may be given.
LEMMA NumberedOn ==
    ASSUME NEW a, NEW c \in Nat, Numbered(a, c) PROVE Numbered(a, c + 1)
<1>1. \A v : Given(v, c) => Given(v, c + 1)
  BY DEF Given
<1>. QED BY <1>1, Zenon DEF Numbered

\* A statement is read that opens no block.
LEMMA ReadKeeps ==
    ASSUME ChecksInv, verdict = "open", count < MaxStatements,
           NEW s \in Amounts, NEW tail \in BOOLEAN, Block.returned => s.returns,
           ~s.returns => s.falls /\ (tail \/ ~s.valued),
           NEW b, ScopeList(b), Numbered(b, count + 1), Len(b) = Len(scopes),
           \A i \in 1..Len(scopes) : b[i].parent = scopes[i].parent,
           \A i \in 0..(currentScope - 1) : \A sure :
                SafeFrom(scopes, i, sure) => SafeFrom(b, i, sure),
           \A sure : sure \subseteq 0..count /\ SafeFrom(scopes, currentScope, sure) =>
                SafeFrom(b, currentScope, sure),
           scopes' = b, blocks' = WithBlock(After(Block, s, tail)), count' = count + 1,
           UNCHANGED <<currentScope, verdict>>, falseAlarm' = FALSE
    PROVE  ChecksInv'
<1>0. /\ Walked(scopes, currentScope, blocks, count)
      /\ count \in Nat /\ count + 1 \in 0..MaxStatements
  BY ChecksAssumption DEF ChecksInv
<1>1. Block \in BlockRecord /\ FairBlock(Block)
  BY <1>0, WalkedHere DEF Block, Last
<1>2. PICK e : e = After(Block, s, tail)
  OBVIOUS
<1>3. /\ e \in BlockRecord /\ FairBlock(e) /\ e.kind = Block.kind /\ e.sure = Block.sure
  BY <1>1, <1>2, AfterIsFair
<1>4. PICK next : next = Append(Front(blocks), e)
  OBVIOUS
<1>5. count <= count + 1 /\ count + 1 \in Nat
  BY <1>0
<1>6. Walked(b, currentScope, next, count + 1)
  BY <1>0, <1>3, <1>4, <1>5, WalkedOn DEF Block, Last
<1>7. blocks' = next
  BY <1>2, <1>4 DEF WithBlock
<1>. QED BY <1>0, <1>6, <1>7 DEF ChecksInv

\* A statement is read that neither opens a block nor defines a variable.
LEMMA PlainKeeps ==
    ASSUME ChecksInv, verdict = "open", count < MaxStatements,
           NEW s \in Amounts, NEW tail \in BOOLEAN, Block.returned => s.returns,
           ~s.returns => s.falls /\ (tail \/ ~s.valued),
           blocks' = WithBlock(After(Block, s, tail)), count' = count + 1,
           UNCHANGED <<scopes, currentScope, verdict>>, falseAlarm' = FALSE
    PROVE  ChecksInv'
<1>1. ScopeList(scopes) /\ Numbered(scopes, count + 1)
  BY NumberedOn DEF ChecksInv, Walked
<1>2. PICK b : b = scopes
  OBVIOUS
<1>3. b = scopes /\ scopes' = b
  BY <1>2
<1>4. /\ ScopeList(b) /\ Numbered(b, count + 1) /\ Len(b) = Len(scopes)
      /\ \A i \in 1..Len(scopes) : b[i].parent = scopes[i].parent
      /\ \A i \in 0..(currentScope - 1) : \A sure :
           SafeFrom(scopes, i, sure) => SafeFrom(b, i, sure)
      /\ \A sure : sure \subseteq 0..count /\ SafeFrom(scopes, currentScope, sure) =>
            SafeFrom(b, currentScope, sure)
  BY <1>1, <1>2
<1>. QED BY <1>3, <1>4, ReadKeeps

\* A variable is defined that is new, and tests nothing or a variable that is known.
LEMMA LetKeeps ==
    ASSUME ChecksInv, Live, NEW n \in Locals, NEW v \in VarRecord, NewVar(scopes, v, count),
           Define(n, v), blocks' = WithBlock(After(Block, Plain, FALSE)), Analyzed,
           UNCHANGED <<currentScope, falseAlarm>>
    PROVE  ChecksInv'
<1>0. /\ Walked(scopes, currentScope, blocks, count) /\ count \in Nat
      /\ ScopeList(scopes) /\ Numbered(scopes, count)
  BY ChecksAssumption DEF ChecksInv, Walked
<1>1. currentScope \in 1..Len(scopes)
  BY <1>0, WalkedHere
<1>2. PICK b : b = scopes'
  OBVIOUS
<1>3. b = Defining(scopes, currentScope, n, v)
  BY <1>2, Zenon DEF Define, Defining
<1>4. ScopeList(b) /\ Defines(scopes, b, currentScope, n, v)
  BY <1>0, <1>1, <1>3, NameDefined, Zenon
<1>5. /\ Numbered(b, count + 1)
      /\ \A i \in 1..Len(scopes) : b[i].parent = scopes[i].parent
      /\ \A i \in 0..(currentScope - 1) : \A sure :
           SafeFrom(scopes, i, sure) => SafeFrom(b, i, sure)
      /\ \A sure : sure \subseteq 0..count /\ SafeFrom(scopes, currentScope, sure) =>
            SafeFrom(b, currentScope, sure)
  BY <1>0, <1>1, <1>4, DefineKeeps
<1>6. Len(b) = Len(scopes)
  BY <1>4 DEF Defines
<1>7. Plain \in Amounts /\ ~Plain.returns /\ Plain.falls /\ ~Plain.valued /\ FALSE \in BOOLEAN
  BY DEF Plain, Amounts
<1>8. /\ verdict = "open" /\ count < MaxStatements /\ ~Block.returned
      /\ count' = count + 1 /\ UNCHANGED <<currentScope, verdict>> /\ falseAlarm' = FALSE
      /\ scopes' = b
  BY <1>2 DEF Live, Analyzed, ChecksInv
<1>. QED BY <1>4, <1>5, <1>6, <1>7, <1>8, ReadKeeps

\* The statements that open no block.
LEMMA StatementKeeps ==
    ASSUME ChecksInv,
           \/ \E n \in Locals : LetQuery(n) \/ Access(n)
           \/ \E n, m \in Locals, notNull \in BOOLEAN : LetGuard(n, m, notNull)
           \/ CallStatement \/ ReturnStatement \/ DeadStatement
    PROVE  ChecksInv'
<1>0. /\ Walked(scopes, currentScope, blocks, count) /\ count \in Nat
      /\ ScopeList(scopes) /\ Numbered(scopes, count) /\ falseAlarm = FALSE
  BY ChecksAssumption DEF ChecksInv, Walked
<1>1. /\ currentScope \in 1..Len(scopes) /\ Len(scopes) \in Nat /\ DOMAIN scopes = 1..Len(scopes)
      /\ currentScope \in 0..Len(scopes) /\ SafeFrom(scopes, currentScope, Block.sure)
  <2>1. /\ currentScope \in 1..Len(scopes) /\ Len(scopes) \in Nat
        /\ SafeFrom(scopes, currentScope, Block.sure)
    BY <1>0, WalkedHere DEF Block, Last
  <2>. QED BY <1>0, <2>1, ListFacts
<1>2. /\ Plain \in Amounts /\ ~Plain.returns /\ Plain.falls /\ ~Plain.valued
      /\ FALSE \in BOOLEAN /\ TRUE \in BOOLEAN
  BY DEF Plain, Amounts
<1>3. ASSUME NEW n \in Locals, LetQuery(n) PROVE ChecksInv'
  <2>1. PICK v : v = Variable(TRUE, NoGuard)
    OBVIOUS
  <2>2. /\ v = [nullable |-> TRUE, checked |-> FALSE,
                guard |-> [of |-> NoName, notNull |-> FALSE, target |-> 0], id |-> count + 1]
    BY <2>1 DEF Variable, NoGuard
  <2>3. v \in VarRecord
    BY <1>0, <2>2 DEF VarRecord
  <2>4. NewVar(scopes, v, count)
    BY <1>0, <2>2 DEF NewVar
  <2>. QED BY <1>3, <2>1, <2>3, <2>4, LetKeeps DEF LetQuery
<1>4. ASSUME NEW n \in Locals, NEW m \in Locals, NEW notNull \in BOOLEAN, LetGuard(n, m, notNull)
      PROVE  ChecksInv'
  <2>1. PICK id : id = IF Known(m) THEN Lookup(m).id ELSE 0
    OBVIOUS
  <2>2. /\ id \in 0..count
        /\ id # 0 => \E s \in DOMAIN scopes :
                        m \in DOMAIN scopes[s].vars /\ scopes[s].vars[m].id = id
    <3>1. CASE ~Known(m)
      BY <1>0, <2>1, <3>1
    <3>2. CASE Known(m)
      <4>1. PICK s : s = FromIn(scopes, m, currentScope)
        OBVIOUS
      <4>2. s \in DOMAIN scopes /\ m \in DOMAIN scopes[s].vars /\ Lookup(m) = scopes[s].vars[m]
        BY <1>0, <1>1, <3>2, <4>1, FoundDefines, LooksUp
      <4>3. Given(scopes[s].vars[m], count)
        BY <1>0, <4>2, Zenon DEF Numbered
      <4>. QED BY <1>0, <2>1, <3>2, <4>2, <4>3 DEF Given
    <3>. QED BY <3>1, <3>2
  <2>3. PICK v : v = Variable(FALSE, [of |-> m, notNull |-> notNull, target |-> id])
    OBVIOUS
  <2>4. v = [nullable |-> FALSE, checked |-> FALSE,
             guard |-> [of |-> m, notNull |-> notNull, target |-> id], id |-> count + 1]
    BY <2>3 DEF Variable
  <2>5. v \in VarRecord
    BY <1>0, <2>2, <2>4 DEF VarRecord
  <2>6. NewVar(scopes, v, count)
    BY <1>0, <2>2, <2>4 DEF NewVar
  <2>7. Define(n, v)
    BY <1>4, <2>1, <2>3, Zenon DEF LetGuard
  <2>. QED BY <1>4, <2>5, <2>6, <2>7, LetKeeps DEF LetGuard
<1>5. ASSUME NEW n \in Locals, Access(n) PROVE ChecksInv'
  <2>1. PICK s : s = FromIn(scopes, n, currentScope)
    OBVIOUS
  <2>2. s # 0 /\ Lookup(n) = scopes[s].vars[n]
    BY <1>5, <2>1, LooksUp DEF Access
  <2>3. SafeVar(scopes[s].vars[n], Block.sure)
    BY <1>1, <2>1, <2>2, Zenon DEF SafeFrom
  <2>4. falseAlarm' = FALSE
    <3>1. ~(Lookup(n).nullable /\ ~Lookup(n).checked /\ Lookup(n).id \in Block.sure)
      BY <2>2, <2>3 DEF SafeVar
    <3>. QED BY <1>0, <1>5, <3>1 DEF Access
  <2>5. PICK o : o = [Plain EXCEPT !.valued = TRUE]
    OBVIOUS
  <2>6. o \in Amounts /\ ~o.returns /\ o.falls
    BY <2>5 DEF Plain, Amounts
  <2>7. /\ verdict = "open" /\ count < MaxStatements /\ ~Block.returned /\ count' = count + 1
        /\ UNCHANGED <<scopes, currentScope, verdict>>
        /\ blocks' = WithBlock(After(Block, o, TRUE))
    BY <1>5, <2>5 DEF Access, Live, Analyzed
  <2>. QED BY <1>2, <2>4, <2>6, <2>7, PlainKeeps
<1>6. CASE CallStatement
  <2>1. /\ verdict = "open" /\ count < MaxStatements /\ ~Block.returned /\ count' = count + 1
        /\ UNCHANGED <<scopes, currentScope, verdict>> /\ falseAlarm' = FALSE
        /\ blocks' = WithBlock(After(Block, Plain, FALSE))
    BY <1>0, <1>6 DEF CallStatement, Live, Analyzed
  <2>. QED BY <1>2, <2>1, PlainKeeps
<1>7. CASE ReturnStatement
  <2>1. PICK o : o = [returns |-> TRUE, falls |-> FALSE, valued |-> FALSE]
    OBVIOUS
  <2>2. o \in Amounts /\ o.returns
    BY <2>1 DEF Amounts
  <2>3. /\ verdict = "open" /\ count < MaxStatements /\ count' = count + 1
        /\ UNCHANGED <<scopes, currentScope, verdict>> /\ falseAlarm' = FALSE
        /\ blocks' = WithBlock(After(Block, o, FALSE))
    BY <1>0, <1>7, <2>1 DEF ReturnStatement, Live, Analyzed
  <2>. QED BY <1>2, <2>2, <2>3, PlainKeeps
<1>8. CASE DeadStatement
  <2>1. PICK r \in {Plain, [Plain EXCEPT !.valued = TRUE], [Plain EXCEPT !.falls = FALSE]} :
            blocks' = WithBlock(After(Block, [r EXCEPT !.returns = TRUE], FALSE))
    BY <1>8 DEF DeadStatement
  <2>2. PICK o : o = [r EXCEPT !.returns = TRUE]
    OBVIOUS
  <2>3. o \in Amounts /\ o.returns
    <3>1. r \in Amounts
      <4>1. \A p \in Amounts : /\ [p EXCEPT !.valued = TRUE] \in Amounts
                               /\ [p EXCEPT !.falls = FALSE] \in Amounts
        BY DEF Amounts
      <4>2. Plain \in Amounts
        BY <1>2
      <4>. QED BY <2>1, <4>1, <4>2, Zenon
    <3>. QED BY <2>2, <3>1 DEF Amounts
  <2>4. /\ verdict = "open" /\ count < MaxStatements /\ count' = count + 1
        /\ UNCHANGED <<scopes, currentScope, verdict>> /\ falseAlarm' = FALSE
        /\ blocks' = WithBlock(After(Block, o, FALSE))
    BY <1>0, <1>8, <2>1, <2>2 DEF DeadStatement, Analyzed
  <2>. QED BY <1>2, <2>3, <2>4, PlainKeeps
<1>. QED BY <1>3, <1>4, <1>5, <1>6, <1>7, <1>8

-----------------------------------------------------------------------------
(* Blocks that are opened *)

\* b has the scopes of a, more of their variables checked, and one more scope, in that at p.
Grown(a, b, c, p) ==
    /\ ScopeList(b) /\ Numbered(b, c) /\ Len(b) = Len(a) + 1 /\ b[Len(b)].parent = p
    /\ \A i \in 1..Len(a) : b[i].parent = a[i].parent
    /\ \A s \in 1..Len(a) : \A sure : SafeFrom(a, s, sure) => SafeFrom(b, s, sure)

\* A scope that defines nothing is opened.
Opens(a, p) == Append(a, [vars |-> <<>>, parent |-> p])

\* What is checked from a scope of one list is so from a scope of another.
AsSafe(a, s, b, t) == \A sure : SafeFrom(a, s, sure) => SafeFrom(b, t, sure)

\* Nothing is lost by it, and what was checked from the scope around it is so from it.
LEMMA PushGrows ==
    ASSUME NEW a, ScopeList(a), NEW c \in Nat, Numbered(a, c), NEW p \in 1..Len(a),
           NEW b, b = Opens(a, p)
    PROVE  Grown(a, b, c, p) /\ AsSafe(a, p, b, Len(b))
<1>0. Len(a) \in Nat /\ p \in 0..Len(a)
  BY ListFacts
<1>1. PICK r : r = [vars |-> <<>>, parent |-> p]
  OBVIOUS
<1>2. b = Append(a, r) /\ r.parent = p
  BY <1>1 DEF Opens
<1>3. /\ ScopeList(b) /\ Len(b) = Len(a) + 1
      /\ b[Len(a) + 1] = r /\ \A i \in 1..Len(a) : b[i] = a[i]
      /\ Numbered(b, c)
      /\ \A s \in 0..Len(a) : \A sure : SafeFrom(a, s, sure) => SafeFrom(b, s, sure)
      /\ \A sure : SafeFrom(a, p, sure) => SafeFrom(b, Len(a) + 1, sure)
  BY <1>0, <1>1, <1>2, PushKeeps
<1>4. \A s \in 1..Len(a) : s \in 0..Len(a)
  BY <1>0
<1>. QED BY <1>2, <1>3, <1>4 DEF Grown, AsSafe

\* Variables are marked, and a scope is opened.
LEMMA MarkAndPush ==
    ASSUME NEW a, ScopeList(a), NEW c \in Nat, Numbered(a, c), NEW marks,
           NEW start \in 0..Len(a), NEW p \in 1..Len(a), NEW m, m = Marked(a, marks, start),
           NEW b, b = Opens(m, p)
    PROVE  Grown(a, b, c, p) /\ AsSafe(m, p, b, Len(b))
<1>1. ScopeList(m) /\ Alike(a, m)
  BY MarkedKeeps
<1>2. Len(m) = Len(a) /\ \A i \in 1..Len(a) : m[i].parent = a[i].parent
  BY <1>1 DEF Alike
<1>3. /\ Numbered(m, c)
      /\ \A s \in 0..Len(a) : \A sure : SafeFrom(a, s, sure) => SafeFrom(m, s, sure)
  BY <1>1, AlikeKeeps
<1>4. Grown(m, b, c, p) /\ AsSafe(m, p, b, Len(b))
  <2>1. p \in 1..Len(m) /\ ScopeList(m) /\ Numbered(m, c)
    BY <1>1, <1>2, <1>3
  <2>. QED BY <2>1, PushGrows
<1>5. \A s \in 1..Len(a) : s \in 0..Len(a)
  <2>1. Len(a) \in Nat
    BY ListFacts
  <2>. QED BY <2>1
<1>6. Grown(a, b, c, p)
  <2>1. /\ ScopeList(b) /\ Numbered(b, c) /\ Len(b) = Len(a) + 1 /\ b[Len(b)].parent = p
        /\ \A i \in 1..Len(a) : b[i].parent = m[i].parent
        /\ \A s \in 1..Len(a) : \A sure : SafeFrom(m, s, sure) => SafeFrom(b, s, sure)
    BY <1>2, <1>4 DEF Grown
  <2>. QED BY <1>2, <1>3, <1>5, <2>1 DEF Grown
<1>. QED BY <1>4, <1>6

\* What a block that is opened is.
JustOpened(e, sure) == e \in BlockRecord /\ FairBlock(e) /\ e.sure = sure

\* It is fair, and sure of what it was given.
LEMMA OpenedIs ==
    ASSUME NEW kind \in {"fn", "if", "else", "for", "while", "block"},
           NEW guard \in Locals \cup {NoName}, NEW sure, sure \subseteq Nat,
           NEW before \in Amounts, Fair(before),
           NEW e, e = Opened(kind, guard, sure, before)
    PROVE  JustOpened(e, sure)
<1>1. PICK O : O = Amounts
  OBVIOUS
<1>2. before \in O /\ sure \in SUBSET Nat
  BY <1>1
<1>3. e \in BlockRecord
  BY <1>1, <1>2 DEF BlockRecord, Opened
<1>4. e.sure = sure /\ e.kind = kind /\ ~e.returned /\ ~e.tail /\ e.falls /\ ~e.valued
      /\ e.before = before
  BY DEF Opened
<1>. QED BY <1>3, <1>4 DEF JustOpened, FairBlock, Returns

\* A block is opened, with a statement or as the other branch of an if.
LEMMA IntoKeeps ==
    ASSUME ChecksInv, Live, Len(blocks) < MaxBlocks,
           NEW b, Grown(scopes, b, count + 1, currentScope)
              \/ (/\ ScopeList(b) /\ Numbered(b, count + 1) /\ Len(b) = Len(scopes) + 1
                  /\ b[Len(b)].parent = currentScope
                  /\ \A i \in 1..Len(scopes) : b[i].parent = scopes[i].parent
                  /\ \A s \in 1..Len(scopes) : \A sure : sure \subseteq 0..count
                        /\ SafeFrom(scopes, s, sure) => SafeFrom(b, s, sure)),
           NEW e \in BlockRecord, FairBlock(e), e.sure \subseteq 0..count,
           SafeFrom(b, Len(b), e.sure),
           scopes' = b, currentScope' = Len(scopes'), blocks' = Append(blocks, e), Analyzed,
           UNCHANGED falseAlarm
    PROVE  ChecksInv'
<1>0. /\ Walked(scopes, currentScope, blocks, count) /\ count \in Nat /\ count + 1 \in Nat
      /\ count <= count + 1
  BY ChecksAssumption DEF ChecksInv
<1>1. ~blocks[Len(blocks)].returned
  BY DEF Live, Block, Last
<1>2. /\ ScopeList(b) /\ Numbered(b, count + 1) /\ Len(b) = Len(scopes) + 1
      /\ b[Len(b)].parent = currentScope
      /\ \A i \in 1..Len(scopes) : b[i].parent = scopes[i].parent
      /\ \A s \in 1..Len(scopes) : \A sure : sure \subseteq 0..count
            /\ SafeFrom(scopes, s, sure) => SafeFrom(b, s, sure)
  BY Zenon DEF Grown
<1>3. e.sure \subseteq 0..(count + 1)
  BY <1>0
<1>4. PICK next : next = Append(blocks, e)
  OBVIOUS
<1>5. Walked(b, Len(b), next, count + 1)
  BY <1>0, <1>1, <1>2, <1>3, <1>4, WalkedInto
<1>6. /\ scopes' = b /\ currentScope' = Len(b) /\ blocks' = next /\ count' = count + 1
      /\ verdict' = "open" /\ falseAlarm' = FALSE
  BY <1>4 DEF Live, Analyzed, ChecksInv
<1>7. count + 1 \in 0..MaxStatements
  BY <1>0, ChecksAssumption DEF Live
<1>. QED BY <1>5, <1>6, <1>7 DEF ChecksInv

\* NoBranch is fair.
LEMMA NoBranchIs == NoBranch \in Amounts /\ Fair(NoBranch)
BY DEF NoBranch, Amounts, Fair

\* The body of an if.
LEMMA OpenIfKeeps == ASSUME ChecksInv, NEW cond \in Conditions, OpenIf(cond) PROVE ChecksInv'
<1>0. /\ Walked(scopes, currentScope, blocks, count) /\ count \in Nat
      /\ ScopeList(scopes) /\ Numbered(scopes, count)
  BY ChecksAssumption DEF ChecksInv, Walked
<1>1. /\ currentScope \in 1..Len(scopes) /\ Len(scopes) \in Nat /\ Block.sure \subseteq 0..count
      /\ SafeFrom(scopes, currentScope, Block.sure) /\ currentScope \in 0..Len(scopes)
  <2>1. /\ currentScope \in 1..Len(scopes) /\ Len(scopes) \in Nat /\ Block.sure \subseteq 0..count
        /\ SafeFrom(scopes, currentScope, Block.sure)
    BY <1>0, WalkedHere DEF Block, Last
  <2>. QED BY <2>1
<1>2. PICK marks : marks = UNION {Marks(t) : t \in cond}
  OBVIOUS
<1>3. PICK m : m = Checked(marks, currentScope)
  OBVIOUS
<1>4. m = Marked(scopes, marks, currentScope)
  BY <1>3, LooksUp, Zenon
<1>5. PICK sure : sure = Block.sure \cup Proved(cond)
  OBVIOUS
<1>6. SafeFrom(m, currentScope, sure) /\ Proved(cond) \subseteq 0..count
  BY <1>0, <1>1, <1>2, <1>3, <1>5, ConditionMarks
<1>7. PICK b : b = Opens(m, currentScope)
  OBVIOUS
<1>8. Grown(scopes, b, count + 1, currentScope) /\ SafeFrom(b, Len(b), sure)
  <2>1. count + 1 \in Nat /\ Numbered(scopes, count + 1)
    BY <1>0, NumberedOn
  <2>2. PICK d \in Nat : d = count + 1
    BY <2>1
  <2>3. Grown(scopes, b, d, currentScope) /\ AsSafe(m, currentScope, b, Len(b))
    BY <1>0, <1>1, <1>4, <1>7, <2>1, <2>2, MarkAndPush
  <2>. QED BY <1>6, <2>2, <2>3 DEF AsSafe
<1>9. PICK e : e = Opened("if", NullGuard(cond), sure, NoBranch)
  OBVIOUS
<1>10. NullGuard(cond) \in Locals \cup {NoName}
  <2>1. cond \subseteq Tests
    BY DEF Conditions
  <2>2. CASE \E t \in cond : cond = {t} /\ t.kind = "is_null"
    <3>1. PICK u \in cond : u = CHOOSE t \in cond : TRUE
      BY <2>2
    <3>2. NullGuard(cond) = u.name
      BY <2>2, <3>1 DEF NullGuard
    <3>. QED BY <2>1, <3>2 DEF Tests
  <2>. QED BY <2>2 DEF NullGuard
<1>11. e \in BlockRecord /\ FairBlock(e) /\ e.sure = sure /\ sure \subseteq 0..count
  <2>1. sure \subseteq 0..count /\ sure \subseteq Nat
    BY <1>1, <1>5, <1>6
  <2>2. PICK g \in Locals \cup {NoName} : g = NullGuard(cond)
    BY <1>10
  <2>3. PICK kind \in {"fn", "if", "else", "for", "while", "block"} : kind = "if"
    OBVIOUS
  <2>4. e = Opened(kind, g, sure, NoBranch)
    BY <1>9, <2>2, <2>3
  <2>5. sure \subseteq Nat
    BY <2>1
  <2>6. JustOpened(e, sure)
    BY <2>4, <2>5, NoBranchIs, OpenedIs
  <2>. QED BY <2>1, <2>6 DEF JustOpened
<1>12. /\ Live /\ Len(blocks) < MaxBlocks /\ scopes' = b /\ currentScope' = Len(scopes')
       /\ blocks' = Append(blocks, e) /\ Analyzed /\ UNCHANGED falseAlarm
  BY <1>2, <1>3, <1>5, <1>7, <1>9 DEF OpenIf, Pushed, Opens
<1>. QED BY <1>8, <1>11, <1>12, IntoKeeps

\* The body of a loop, or a plain block.
LEMMA OpenOtherKeeps ==
    ASSUME ChecksInv, NEW kind \in {"for", "while", "block"}, NEW n \in Locals, OpenOther(kind, n)
    PROVE  ChecksInv'
<1>0. /\ Walked(scopes, currentScope, blocks, count) /\ count \in Nat
      /\ ScopeList(scopes) /\ Numbered(scopes, count)
  BY ChecksAssumption DEF ChecksInv, Walked
<1>1. /\ currentScope \in 1..Len(scopes) /\ Len(scopes) \in Nat /\ Block.sure \subseteq 0..count
      /\ SafeFrom(scopes, currentScope, Block.sure)
  BY <1>0, WalkedHere DEF Block, Last
<1>2. PICK k : k = Opens(scopes, currentScope)
  OBVIOUS
<1>3. Grown(scopes, k, count, currentScope) /\ SafeFrom(k, Len(k), Block.sure)
  <2>1. Grown(scopes, k, count, currentScope) /\ AsSafe(scopes, currentScope, k, Len(k))
    BY <1>0, <1>1, <1>2, PushGrows
  <2>. QED BY <1>1, <2>1 DEF AsSafe
<1>4. PICK b : b = scopes'
  OBVIOUS
<1>5. /\ ScopeList(b) /\ Numbered(b, count + 1) /\ Len(b) = Len(scopes) + 1
      /\ b[Len(b)].parent = currentScope
      /\ \A i \in 1..Len(scopes) : b[i].parent = scopes[i].parent
      /\ \A s \in 1..Len(scopes) : \A sure : sure \subseteq 0..count
            /\ SafeFrom(scopes, s, sure) => SafeFrom(b, s, sure)
      /\ SafeFrom(b, Len(b), Block.sure)
  <2>1. CASE kind # "for"
    <3>1. b = k
      BY <1>2, <1>4, <2>1 DEF OpenOther, Pushed, Opens
    <3>2. ScopeList(k) /\ Numbered(k, count)
      BY <1>3 DEF Grown
    <3>3. Numbered(k, count + 1)
      BY <1>0, <3>2, NumberedOn
    <3>. QED BY <1>3, <3>1, <3>3, Zenon DEF Grown
  <2>2. CASE kind = "for"
    <3>1. PICK v : v = Variable(FALSE, NoGuard)
      OBVIOUS
    <3>2. /\ v = [nullable |-> FALSE, checked |-> FALSE,
                  guard |-> [of |-> NoName, notNull |-> FALSE, target |-> 0], id |-> count + 1]
      BY <3>1 DEF Variable, NoGuard
    <3>3. v \in VarRecord /\ NewVar(k, v, count)
      BY <1>0, <3>2 DEF VarRecord, NewVar
    <3>4. PICK t : t = [m \in {n} |-> v]
      OBVIOUS
    <3>5. PICK r : r = [vars |-> t, parent |-> currentScope]
      OBVIOUS
    <3>6. b = Append(scopes, r)
      <4>1. scopes' = Pushed(scopes, t)
        BY <2>2, <3>1, <3>4, Zenon DEF OpenOther
      <4>. QED BY <1>4, <3>5, <4>1, Zenon DEF Pushed
    <3>7. r \in ScopeRecord
      <4>1. {n} \in SUBSET Locals /\ t \in [{n} -> VarRecord]
        BY <3>3, <3>4
      <4>2. t \in VarTable
        BY <4>1 DEF VarTable
      <4>. QED BY <1>1, <3>5, <4>2 DEF ScopeRecord
    <3>8. /\ b \in Seq(ScopeRecord) /\ Len(b) = Len(scopes) + 1 /\ b[Len(scopes) + 1] = r
          /\ \A i \in 1..Len(scopes) : b[i] = scopes[i]
      BY <1>0, <3>6, <3>7, AppendProperties DEF ScopeList
    <3>9. k[Len(scopes) + 1] = [vars |-> <<>>, parent |-> currentScope]
          /\ \A i \in 1..Len(scopes) : k[i] = scopes[i]
      <4>1. PICK q : q = [vars |-> <<>>, parent |-> currentScope]
        OBVIOUS
      <4>2. q \in ScopeRecord
        <5>1. PICK T : T = VarTable
          OBVIOUS
        <5>2. <<>> \in T
          BY <5>1, NoTable DEF VarTable
        <5>3. currentScope \in Nat
          BY <1>1
        <5>4. q \in [vars : T, parent : Nat]
          BY <4>1, <5>2, <5>3
        <5>. QED BY <5>1, <5>4 DEF ScopeRecord
      <4>3. k[Len(scopes) + 1] = q /\ \A i \in 1..Len(scopes) : k[i] = scopes[i]
        BY <1>0, <1>2, <4>1, <4>2, AppendProperties DEF ScopeList, Opens
      <4>. QED BY <4>1, <4>3
    <3>10. ScopeList(k) /\ Numbered(k, count) /\ Len(k) = Len(scopes) + 1
           /\ \A s \in 1..Len(scopes) : \A sure :
                SafeFrom(scopes, s, sure) => SafeFrom(k, s, sure)
      BY <1>3 DEF Grown
    <3>11. ScopeList(b)
      <4>1. ASSUME NEW i \in 1..Len(b) PROVE b[i].parent \in 0..(i - 1)
        <5>1. CASE i \in 1..Len(scopes)
          BY <1>0, <3>8, <5>1, ListFacts
        <5>2. CASE i = Len(scopes) + 1
          <6>1. b[i].parent = currentScope
            BY <3>5, <3>8, <5>2
          <6>. QED BY <1>1, <5>2, <6>1
        <5>. QED BY <1>1, <3>8, <5>1, <5>2
      <4>. QED BY <3>8, <4>1 DEF ScopeList
    <3>12. PICK l \in Nat : l = Len(scopes)
      BY <1>1
    <3>13. Defines(k, b, l + 1, n, v) /\ l + 1 \in 1..Len(k)
      <4>1. \A i \in 1..(l + 1) : i # l + 1 => i \in 1..Len(scopes)
        BY <3>12
      <4>2. /\ b[l + 1].vars = t /\ b[l + 1].parent = currentScope
            /\ k[l + 1].vars = <<>> /\ k[l + 1].parent = currentScope
        BY <3>5, <3>8, <3>9, <3>12
      <4>3. DOMAIN t = {n} /\ t[n] = v /\ DOMAIN <<>> = {}
        BY <3>4
      <4>. QED BY <3>8, <3>9, <3>10, <3>12, <4>1, <4>2, <4>3 DEF Defines
    <3>14. /\ Numbered(b, count + 1)
           /\ \A s \in 0..((l + 1) - 1) : \A sure : SafeFrom(k, s, sure) => SafeFrom(b, s, sure)
           /\ \A sure : sure \subseteq 0..count /\ SafeFrom(k, l + 1, sure) =>
                SafeFrom(b, l + 1, sure)
      BY <1>0, <3>3, <3>10, <3>11, <3>13, DefineKeeps
    <3>15. \A s \in 1..Len(scopes) : s \in 0..((l + 1) - 1)
      BY <3>12
    <3>16. b[Len(b)].parent = currentScope
      BY <3>5, <3>8
    <3>17. SafeFrom(b, Len(b), Block.sure)
      BY <1>1, <1>3, <3>8, <3>10, <3>12, <3>14
    <3>. QED BY <3>8, <3>10, <3>11, <3>14, <3>15, <3>16, <3>17
  <2>. QED BY <2>1, <2>2
<1>6. PICK e : e = Opened(kind, NoName, Block.sure, NoBranch)
  OBVIOUS
<1>7. e \in BlockRecord /\ FairBlock(e) /\ e.sure = Block.sure
  <2>1. Block.sure \subseteq Nat
    BY <1>1
  <2>2. kind \in {"fn", "if", "else", "for", "while", "block"} /\ NoName \in Locals \cup {NoName}
    OBVIOUS
  <2>3. JustOpened(e, Block.sure)
    BY <1>6, <2>1, <2>2, NoBranchIs, OpenedIs
  <2>. QED BY <2>3 DEF JustOpened
<1>8. /\ Live /\ Len(blocks) < MaxBlocks /\ scopes' = b /\ currentScope' = Len(scopes')
      /\ blocks' = Append(blocks, e) /\ Analyzed /\ UNCHANGED falseAlarm
  BY <1>4, <1>6 DEF OpenOther
<1>. QED BY <1>1, <1>5, <1>7, <1>8, IntoKeeps

-----------------------------------------------------------------------------
(* Blocks that end, and the whole analysis *)

\* A scope that defines nothing sees what the scope it is in sees.
LEMMA EmptySees ==
    ASSUME NEW m, ScopeList(m), NEW p \in 1..Len(m), NEW b, b = Opens(m, p), ScopeList(b)
    PROVE  AsSafe(b, p, b, Len(b))
<1>0. Len(m) \in Nat /\ p \in 0..Len(m)
  <2>1. Len(m) \in Nat
    BY ListFacts
  <2>. QED BY <2>1
<1>1. PICK r : r = [vars |-> <<>>, parent |-> p]
  OBVIOUS
<1>2. /\ Len(b) = Len(m) + 1 /\ b[Len(m) + 1] = r
  BY <1>0, <1>1, PushKeeps DEF Opens
<1>3. /\ b[Len(b)].parent = p /\ Len(b) \in 1..Len(b) /\ DOMAIN b[Len(b)].vars = {}
  <2>1. r.parent = p /\ r.vars = <<>> /\ DOMAIN <<>> = {}
    BY <1>1
  <2>. QED BY <1>0, <1>2, <2>1
<1>4. ASSUME NEW n PROVE FromIn(b, n, Len(b)) = FromIn(b, n, p)
  <2>1. FromIn(b, n, Len(b)) = IF n \in DOMAIN b[Len(b)].vars THEN Len(b)
                               ELSE FromIn(b, n, b[Len(b)].parent)
    BY <1>3, ScopeSeen
  <2>. QED BY <1>3, <2>1
<1>. QED BY <1>4, Zenon DEF SafeFrom, AsSafe

\* What a block amounts to at its end is fair, and so is what an if or a block amounts to.
LEMMA SummaryIsFair ==
    ASSUME NEW k \in BlockRecord, FairBlock(k), NEW s, s = Summary(k)
    PROVE  s \in Amounts /\ Fair(s)
<1>1. k.returned \in BOOLEAN /\ k.tail \in BOOLEAN /\ k.falls \in BOOLEAN /\ k.valued \in BOOLEAN
  BY DEF BlockRecord
<1>2. PICK r \in BOOLEAN : r = Returns(k)
  BY DEF Returns
<1>3. s = [returns |-> r, falls |-> k.falls, valued |-> k.valued]
  BY <1>2 DEF Summary
<1>4. ~r => k.falls /\ ~k.valued
  BY <1>1, <1>2 DEF FairBlock, Returns
<1>. QED BY <1>1, <1>3, <1>4 DEF Amounts, Fair

\* An if with both branches is fair when they are.
LEMMA JoinedIsFair ==
    ASSUME NEW a \in Amounts, NEW b \in Amounts, Fair(a), Fair(b), NEW s, s = Joined(a, b)
    PROVE  s \in Amounts /\ Fair(s)
<1>1. /\ a.returns \in BOOLEAN /\ a.falls \in BOOLEAN /\ a.valued \in BOOLEAN
      /\ b.returns \in BOOLEAN /\ b.falls \in BOOLEAN /\ b.valued \in BOOLEAN
  BY DEF Amounts
<1>2. PICK r \in BOOLEAN : r = (a.returns /\ b.returns)
  OBVIOUS
<1>3. PICK f \in BOOLEAN : f = (a.falls \/ b.falls)
  OBVIOUS
<1>4. PICK v \in BOOLEAN : v = ((a.falls => a.valued) /\ (b.falls => b.valued))
  OBVIOUS
<1>5. s = [returns |-> r, falls |-> f, valued |-> v]
  BY <1>2, <1>3, <1>4 DEF Joined
<1>6. ~r => f /\ ~v
  BY <1>1, <1>2, <1>3, <1>4 DEF Fair
<1>. QED BY <1>5, <1>6 DEF Amounts, Fair

\* And so is the statement that a block makes.
LEMMA StatementIsFair ==
    ASSUME NEW k \in BlockRecord, FairBlock(k), NEW s, s = Statement(k)
    PROVE  s \in Amounts /\ Fair(s)
<1>1. PICK t : t = Summary(k)
  OBVIOUS
<1>2. t \in Amounts /\ Fair(t)
  BY <1>1, SummaryIsFair
<1>3. CASE k.kind = "else"
  <2>1. k.before \in Amounts /\ Fair(k.before)
    <3>1. PICK O : O = Amounts
      OBVIOUS
    <3>2. k.before \in O
      BY <3>1 DEF BlockRecord
    <3>. QED BY <3>1, <3>2 DEF FairBlock
  <2>2. s = Joined(k.before, t)
    BY <1>1, <1>3 DEF Statement
  <2>. QED BY <1>2, <2>1, <2>2, JoinedIsFair
<1>4. CASE k.kind = "block"
  <2>1. s = t
    BY <1>1, <1>4 DEF Statement
  <2>. QED BY <1>2, <2>1
<1>5. CASE k.kind # "else" /\ k.kind # "block"
  <2>1. s = Plain
    BY <1>5 DEF Statement
  <2>. QED BY <2>1 DEF Plain, Amounts, Fair
<1>. QED BY <1>3, <1>4, <1>5

\* The other branch of an if.
LEMMA ElseKeeps == ASSUME ChecksInv, Else PROVE ChecksInv'
<1>0. /\ Walked(scopes, currentScope, blocks, count) /\ count \in Nat
      /\ ScopeList(scopes) /\ Numbered(scopes, count)
  BY ChecksAssumption DEF ChecksInv, Walked
<1>1. /\ currentScope \in 1..Len(scopes) /\ Len(scopes) \in Nat /\ Len(blocks) > 1
      /\ Block \in BlockRecord /\ FairBlock(Block)
  <2>1. blocks[Len(blocks)].kind # "fn"
    BY DEF Else, Block, Last
  <2>. QED BY <1>0, <2>1, WalkedHere DEF Block, Last
<1>2. PICK p : p = scopes[currentScope].parent
  OBVIOUS
<1>3. PICK outer : outer = blocks[Len(blocks) - 1]
  OBVIOUS
<1>4. p \in 1..(currentScope - 1) /\ outer \in BlockRecord /\ outer.sure \subseteq 0..count
  BY <1>0, <1>1, <1>2, <1>3, WalkedAround
<1>5. p \in 1..Len(scopes) /\ p \in 0..Len(scopes) /\ outer.sure \subseteq Nat
  BY <1>1, <1>4
<1>6. PICK marks : marks = AfterBranch
  OBVIOUS
<1>7. PICK m : m = Checked(marks, p)
  OBVIOUS
<1>8. m = Marked(scopes, marks, p)
  BY <1>7, LooksUp, Zenon
<1>9. PICK b : b = Opens(m, p)
  OBVIOUS
<1>10. Grown(scopes, b, count, p)
  BY <1>0, <1>5, <1>8, <1>9, MarkAndPush
<1>11. /\ ScopeList(b) /\ Numbered(b, count) /\ Len(b) = Len(scopes) + 1 /\ b[Len(b)].parent = p
       /\ \A i \in 1..Len(scopes) : b[i].parent = scopes[i].parent
       /\ \A s \in 1..Len(scopes) : \A sure : sure \subseteq 0..count
            /\ SafeFrom(scopes, s, sure) => SafeFrom(b, s, sure)
  BY <1>10, Zenon DEF Grown
<1>12. AsSafe(b, p, b, Len(b))
  <2>1. ScopeList(m) /\ Len(m) = Len(scopes)
    BY <1>0, <1>5, <1>8, MarkedKeeps DEF Alike
  <2>2. p \in 1..Len(m)
    BY <1>5, <2>1
  <2>. QED BY <1>9, <1>11, <2>1, <2>2, EmptySees
<1>13. PICK t : t = Summary(Block)
  OBVIOUS
<1>14. t \in Amounts /\ Fair(t)
  BY <1>1, <1>13, SummaryIsFair
<1>15. PICK kind \in {"fn", "if", "else", "for", "while", "block"} : kind = "else"
  OBVIOUS
<1>16. PICK e : e = Opened(kind, NoName, outer.sure, t)
  OBVIOUS
<1>17. JustOpened(e, outer.sure)
  <2>1. NoName \in Locals \cup {NoName}
    OBVIOUS
  <2>. QED BY <1>5, <1>14, <1>16, <2>1, OpenedIs
<1>18. PICK next : next = Append(Front(blocks), e)
  OBVIOUS
<1>19. Walked(b, Len(b), next, count)
  <2>1. \A sure : SafeFrom(b, scopes[currentScope].parent, sure) => SafeFrom(b, Len(b), sure)
    BY <1>2, <1>12 DEF AsSafe
  <2>2. e \in BlockRecord /\ FairBlock(e) /\ e.sure = blocks[Len(blocks) - 1].sure
    BY <1>3, <1>17 DEF JustOpened
  <2>3. b[Len(b)].parent = scopes[currentScope].parent
    BY <1>2, <1>11
  <2>. QED BY <1>0, <1>1, <1>11, <1>18, <2>1, <2>2, <2>3, WalkedBeside
<1>20. /\ scopes' = b /\ currentScope' = Len(b) /\ blocks' = next /\ count' = count
       /\ verdict' = "open" /\ falseAlarm' = FALSE /\ count \in 0..MaxStatements
  BY <1>2, <1>3, <1>6, <1>7, <1>9, <1>13, <1>15, <1>16, <1>18
     DEF Else, WithBlock, Opens, ChecksInv
<1>. QED BY <1>19, <1>20 DEF ChecksInv

\* The end of a block.
LEMMA CloseKeeps == ASSUME ChecksInv, Close PROVE ChecksInv'
<1>0. /\ Walked(scopes, currentScope, blocks, count) /\ count \in Nat
      /\ ScopeList(scopes) /\ Numbered(scopes, count) /\ Len(blocks) > 1
  BY ChecksAssumption DEF ChecksInv, Walked, Close
<1>1. /\ currentScope \in 1..Len(scopes) /\ Len(scopes) \in Nat
      /\ Block \in BlockRecord /\ FairBlock(Block)
  BY <1>0, WalkedHere DEF Block, Last
<1>2. PICK p : p = scopes[currentScope].parent
  OBVIOUS
<1>3. PICK outer : outer = blocks[Len(blocks) - 1]
  OBVIOUS
<1>4. /\ p \in 1..(currentScope - 1) /\ outer \in BlockRecord /\ FairBlock(outer)
      /\ ~outer.returned
  BY <1>0, <1>2, <1>3, WalkedAround
<1>5. p \in 0..Len(scopes)
  BY <1>1, <1>4
<1>6. PICK marks : marks = IF Block.kind = "if" THEN AfterBranch ELSE {}
  OBVIOUS
<1>7. PICK b : b = Checked(marks, p)
  OBVIOUS
<1>8. b = Marked(scopes, marks, p)
  BY <1>7, LooksUp, Zenon
<1>9. ScopeList(b) /\ Alike(scopes, b)
  BY <1>0, <1>5, <1>8, MarkedKeeps
<1>10. /\ Numbered(b, count) /\ Len(b) = Len(scopes)
       /\ \A i \in 1..Len(scopes) : b[i].parent = scopes[i].parent
       /\ \A s \in 1..Len(scopes) : \A sure : SafeFrom(scopes, s, sure) => SafeFrom(b, s, sure)
  <2>1. Len(b) = Len(scopes) /\ \A i \in 1..Len(scopes) : b[i].parent = scopes[i].parent
    BY <1>9 DEF Alike
  <2>2. /\ Numbered(b, count)
        /\ \A s \in 0..Len(scopes) : \A sure : SafeFrom(scopes, s, sure) => SafeFrom(b, s, sure)
    BY <1>0, <1>9, AlikeKeeps
  <2>3. \A s \in 1..Len(scopes) : s \in 0..Len(scopes)
    BY <1>1
  <2>. QED BY <2>1, <2>2, <2>3
<1>11. PICK s : s = Statement(Block)
  OBVIOUS
<1>12. s \in Amounts /\ Fair(s)
  BY <1>1, <1>11, StatementIsFair
<1>13. PICK e : e = After(outer, s, FALSE)
  OBVIOUS
<1>14. e \in BlockRecord /\ FairBlock(e) /\ e.kind = outer.kind /\ e.sure = outer.sure
  <2>1. PICK tail \in BOOLEAN : tail = FALSE
    OBVIOUS
  <2>2. e = After(outer, s, tail) /\ (outer.returned => s.returns)
        /\ (~s.returns => s.falls /\ (tail \/ ~s.valued))
    BY <1>4, <1>12, <1>13, <2>1 DEF Fair
  <2>. QED BY <1>4, <1>12, <2>2, AfterIsFair
<1>15. PICK next : next = Append(SubSeq(blocks, 1, Len(blocks) - 2), e)
  OBVIOUS
<1>16. Walked(b, p, next, count)
  <2>1. e.kind = blocks[Len(blocks) - 1].kind /\ e.sure = blocks[Len(blocks) - 1].sure
    BY <1>3, <1>14
  <2>. QED BY <1>0, <1>2, <1>9, <1>10, <1>14, <1>15, <2>1, WalkedOut
<1>17. /\ scopes' = b /\ currentScope' = p /\ blocks' = next /\ count' = count
       /\ verdict' = "open" /\ falseAlarm' = FALSE /\ count \in 0..MaxStatements
  BY <1>2, <1>3, <1>6, <1>7, <1>11, <1>13, <1>15 DEF Close, ChecksInv
<1>. QED BY <1>16, <1>17 DEF ChecksInv

\* The end of the function.
LEMMA CloseFunctionKeeps == ASSUME ChecksInv, CloseFunction PROVE ChecksInv'
<1>1. FairBlock(Block)
  BY ChecksAssumption, WalkedHere DEF ChecksInv, Block, Last
<1>2. ~Returns(Block) => Block.falls /\ ~Block.valued
  BY <1>1 DEF FairBlock, Returns
<1>3. /\ UNCHANGED <<scopes, currentScope, blocks, count, falseAlarm>>
      /\ verdict' = IF Returns(Block) THEN "returns" ELSE "may_not_return"
  BY DEF CloseFunction
<1>4. Block' = Block
  BY <1>3 DEF Block
<1>. QED BY <1>2, <1>3, <1>4 DEF ChecksInv

\* The analysis starts in the function's block and scope.
LEMMA ChecksStart == ASSUME ChecksInit PROVE ChecksInv
<1>1. PICK r : r = [vars |-> <<>>, parent |-> 0]
  OBVIOUS
<1>2. PICK a : a = <<r>>
  OBVIOUS
<1>3. r \in ScopeRecord /\ r.parent = 0 /\ DOMAIN r.vars = {}
  <2>1. PICK T : T = VarTable
    OBVIOUS
  <2>2. <<>> \in T
    BY <2>1, NoTable DEF VarTable
  <2>3. r \in [vars : T, parent : Nat]
    BY <1>1, <2>2
  <2>4. DOMAIN <<>> = {}
    OBVIOUS
  <2>. QED BY <1>1, <2>1, <2>3, <2>4 DEF ScopeRecord
<1>4. a \in Seq(ScopeRecord) /\ Len(a) = 1 /\ a[1] = r /\ DOMAIN a = {1}
  <2>1. PICK S : S = ScopeRecord
    OBVIOUS
  <2>2. r \in S
    BY <1>3, <2>1
  <2>3. a \in Seq(S) /\ Len(a) = 1 /\ a[1] = r
    BY <1>2, <2>2
  <2>. QED BY <2>1, <2>3, LenProperties
<1>5. ScopeList(a)
  BY <1>3, <1>4 DEF ScopeList
<1>6. Numbered(a, 0)
  BY <1>3, <1>4 DEF Numbered
<1>7. PICK kind \in {"fn", "if", "else", "for", "while", "block"} : kind = "fn"
  OBVIOUS
<1>8. PICK none \in SUBSET Nat : none = {}
  OBVIOUS
<1>9. PICK e : e = Opened(kind, NoName, none, NoBranch)
  OBVIOUS
<1>10. /\ e \in BlockRecord /\ FairBlock(e) /\ e.sure = {} /\ e.kind = "fn"
  <2>1. NoName \in Locals \cup {NoName} /\ none \subseteq Nat
    OBVIOUS
  <2>2. JustOpened(e, none)
    BY <1>9, <2>1, NoBranchIs, OpenedIs
  <2>3. e.kind = kind
    BY <1>9 DEF Opened
  <2>. QED BY <1>7, <1>8, <2>2, <2>3 DEF JustOpened
<1>11. PICK bs : bs = <<e>>
  OBVIOUS
<1>12. bs \in Seq(BlockRecord) /\ Len(bs) = 1 /\ bs[1] = e
  <2>1. PICK S : S = BlockRecord
    OBVIOUS
  <2>2. e \in S
    BY <1>10, <2>1
  <2>3. bs \in Seq(S) /\ Len(bs) = 1 /\ bs[1] = e
    BY <1>11, <2>2
  <2>. QED BY <2>1, <2>3
<1>13. BlocksOK(bs, 0)
  BY <1>10, <1>12, ChecksAssumption DEF BlocksOK
<1>14. SafeFrom(a, 1, {})
  BY DEF SafeFrom, SafeVar
<1>15. PICK sc : sc = [k \in 1..1 |-> 1]
  OBVIOUS
<1>16. Nested(a, bs, 1, sc)
  <2>1. sc \in [1..1 -> 1..1] /\ sc[1] = 1 /\ 1..1 = {1} /\ 2..1 = {}
    BY <1>15
  <2>2. \A j, k \in 1..1 : ~(j < k)
    OBVIOUS
  <2>3. \A k \in 1..1 : SafeFrom(a, sc[k], bs[k].sure)
    BY <1>10, <1>12, <1>14, <2>1
  <2>. QED BY <1>4, <1>12, <2>1, <2>2, <2>3 DEF Nested
<1>17. Walked(a, 1, bs, 0)
  BY <1>5, <1>6, <1>13, <1>16 DEF Walked
<1>18. /\ scopes = a /\ currentScope = 1 /\ blocks = bs /\ count = 0
       /\ verdict = "open" /\ falseAlarm = FALSE
  BY <1>1, <1>2, <1>7, <1>8, <1>9, <1>11 DEF ChecksInit, NoScope
<1>. QED BY <1>17, <1>18, ChecksAssumption DEF ChecksInv

\* Every step of the analysis.
LEMMA ChecksStep == ASSUME ChecksInv, [ChecksNext]_chkVars PROVE ChecksInv'
<1>1. CASE UNCHANGED chkVars
  <2>1. Block' = Block
    BY <1>1 DEF chkVars, Block
  <2>. QED BY <1>1, <2>1 DEF chkVars, ChecksInv
<1>2. CASE \/ \E n \in Locals : LetQuery(n) \/ Access(n)
           \/ \E n, m \in Locals, notNull \in BOOLEAN : LetGuard(n, m, notNull)
           \/ CallStatement \/ ReturnStatement \/ DeadStatement
  BY <1>2, StatementKeeps
<1>3. CASE \E cond \in Conditions : OpenIf(cond)
  BY <1>3, OpenIfKeeps
<1>4. CASE \E kind \in {"for", "while", "block"}, n \in Locals : OpenOther(kind, n)
  BY <1>4, OpenOtherKeeps
<1>5. CASE Else
  BY <1>5, ElseKeeps
<1>6. CASE Close
  BY <1>6, CloseKeeps
<1>7. CASE CloseFunction
  BY <1>7, CloseFunctionKeeps
<1>. QED BY <1>1, <1>2, <1>3, <1>4, <1>5, <1>6, <1>7, Zenon DEF ChecksNext

\* The invariant says what is checked.
LEMMA ChecksInvSays == ASSUME ChecksInv PROVE ChecksTypeOK /\ NoFalseAlarm
<1>1. /\ ScopeList(scopes) /\ count \in Nat /\ Walked(scopes, currentScope, blocks, count)
  BY ChecksAssumption DEF ChecksInv, Walked
<1>2. currentScope \in 1..Len(scopes) /\ Len(blocks) \in 1..MaxBlocks
  BY <1>1, WalkedHere
<1>3. \A i \in 1..Len(scopes) : scopes[i].parent \in 0..(i - 1)
  BY <1>1, ListFacts
<1>4. ChecksTypeOK
  BY <1>2, <1>3 DEF ChecksTypeOK, ChecksInv
<1>5. NoFalseAlarm
  BY DEF NoFalseAlarm, ReturningIsRecognized, QuietUnderGuard, ChecksInv
<1>. QED BY <1>4, <1>5

\* Whatever function is analyzed, one that always ends with a value is seen to return on all
\* paths, and no access under a guard is reported (analysis.rs:682-912, 1351-1436).
THEOREM NoAlarmIsFalse == ChecksSpec => [](ChecksTypeOK /\ NoFalseAlarm)
<1>1. ChecksInit => ChecksInv
  BY ChecksStart
<1>2. ChecksInv /\ [ChecksNext]_chkVars => ChecksInv'
  BY ChecksStep
<1>3. ChecksInv => ChecksTypeOK /\ NoFalseAlarm
  BY ChecksInvSays
<1>. HIDE DEF ChecksInit, ChecksInv, ChecksNext, chkVars, ChecksTypeOK, NoFalseAlarm
<1>. QED BY <1>1, <1>2, <1>3, PTL DEF ChecksSpec

-----------------------------------------------------------------------------
(***************************************************************************)
(* The scheduler of coroutines.  Each list is counted: how often a         *)
(* coroutine is in what appending, filtering and joining lists make.       *)
(***************************************************************************)

\* Two sets apart have as many members together as each.
LEMMA ApartTogether ==
    ASSUME NEW S, IsFiniteSet(S), NEW T, IsFiniteSet(T), S \cap T = {}
    PROVE  Cardinality(S \cup T) = Cardinality(S) + Cardinality(T)
<1>1. Cardinality(S \cap T) = 0
  BY FS_EmptySet
<1>2. Cardinality(S) \in Nat /\ Cardinality(T) \in Nat
  BY FS_CardinalityType
<1>3. Cardinality(S \cup T) = Cardinality(S) + Cardinality(T) - Cardinality(S \cap T)
  BY FS_Union
<1>. QED BY <1>1, <1>2, <1>3

\* Where in a list a coroutine is.
Places(s, c) == {i \in DOMAIN s : s[i] = c}

\* A list holds a coroutine finitely often.
LEMMA TimesCounts ==
    ASSUME NEW s \in Seq(Coros), NEW c
    PROVE  /\ IsFiniteSet(Places(s, c)) /\ Times(s, c) = Cardinality(Places(s, c))
           /\ Times(s, c) \in Nat
           /\ DOMAIN s = 1 .. Len(s) /\ Len(s) \in Nat
           /\ Times(s, c) = 0 <=> ~Contains(s, c)
<1>1. DOMAIN s = 1 .. Len(s) /\ Len(s) \in Nat
  BY LenProperties
<1>2. IsFiniteSet(1 .. Len(s))
  BY <1>1, FS_Interval
<1>3. IsFiniteSet(Places(s, c))
  <2>1. Places(s, c) \subseteq 1 .. Len(s)
    BY <1>1 DEF Places
  <2>. QED BY <1>2, <2>1, FS_Subset
<1>4. Times(s, c) = Cardinality(Places(s, c))
  BY DEF Times, Places
<1>5. Cardinality(Places(s, c)) \in Nat
  BY <1>3, FS_CardinalityType
<1>6. Cardinality(Places(s, c)) = 0 <=> Places(s, c) = {}
  BY <1>3, FS_EmptySet
<1>7. Places(s, c) = {} <=> ~Contains(s, c)
  BY <1>1 DEF Places, Contains
<1>. QED BY <1>1, <1>3, <1>4, <1>5, <1>6, <1>7

\* The empty list holds nobody.
LEMMA TimesEmpty == \A c : Times(<<>>, c) = 0
<1>1. ASSUME NEW c PROVE Times(<<>>, c) = 0
  <2>1. <<>> \in Seq(Coros) /\ ~Contains(<<>>, c)
    BY DEF Contains
  <2>. QED BY <2>1, TimesCounts
<1>. QED BY <1>1

\* Whoever is appended is there once more.
LEMMA TimesAppend ==
    ASSUME NEW s \in Seq(Coros), NEW d \in Coros, NEW c
    PROVE  /\ Append(s, d) \in Seq(Coros)
           /\ Times(Append(s, d), c) = Times(s, c) + Once(d = c)
<1>1. PICK n \in Nat : n = Len(s)
  BY LenProperties
<1>2. PICK t \in Seq(Coros) : t = Append(s, d)
  BY AppendProperties
<1>3. /\ DOMAIN t = 1 .. n + 1 /\ t[n + 1] = d
      /\ DOMAIN s = 1 .. n /\ \A i \in 1 .. n : t[i] = s[i]
  <2>1. Len(t) = n + 1 /\ \A i \in 1 .. n : t[i] = s[i]
    BY <1>1, <1>2, AppendProperties
  <2>2. t[n + 1] = d
    BY <1>1, <1>2, AppendProperties
  <2>. QED BY <1>1, <2>1, <2>2, LenProperties
<1>4. /\ IsFiniteSet(Places(s, c)) /\ n + 1 \notin Places(s, c) /\ Times(s, c) \in Nat
      /\ Times(s, c) = Cardinality(Places(s, c)) /\ Times(t, c) = Cardinality(Places(t, c))
  <2>1. n + 1 \notin DOMAIN s
    BY <1>3
  <2>2. n + 1 \notin Places(s, c)
    BY <2>1 DEF Places
  <2>. QED BY <2>2, TimesCounts
<1>5. CASE d = c
  <2>1. Places(t, c) = Places(s, c) \cup {n + 1}
    BY <1>3, <1>5 DEF Places
  <2>2. Cardinality(Places(t, c)) = Cardinality(Places(s, c)) + 1
    BY <1>4, <2>1, FS_AddElement
  <2>. QED BY <1>2, <1>4, <1>5, <2>2 DEF Once
<1>6. CASE d # c
  <2>1. Places(t, c) = Places(s, c)
    BY <1>3, <1>6 DEF Places
  <2>. QED BY <1>2, <1>4, <1>6, <2>1 DEF Once
<1>. QED BY <1>2, <1>5, <1>6

\* Two lists joined hold what both hold.
LEMMA TimesJoined ==
    ASSUME NEW s \in Seq(Coros), NEW t \in Seq(Coros), NEW c
    PROVE  s \o t \in Seq(Coros) /\ Times(s \o t, c) = Times(s, c) + Times(t, c)
<1>1. PICK m \in Nat, n \in Nat : m = Len(s) /\ n = Len(t)
  BY LenProperties
<1>2. PICK u \in Seq(Coros) : u = s \o t
  BY ConcatProperties
<1>3. /\ DOMAIN s = 1 .. m /\ DOMAIN t = 1 .. n /\ DOMAIN u = 1 .. m + n
      /\ \A i \in 1 .. m : u[i] = s[i]
      /\ \A i \in 1 .. n : u[m + i] = t[i]
  <2>1. Len(u) = m + n /\ \A i \in 1 .. m + n : u[i] = IF i <= m THEN s[i] ELSE t[i - m]
    BY <1>1, <1>2, ConcatProperties
  <2>2. DOMAIN s = 1 .. m /\ DOMAIN t = 1 .. n /\ DOMAIN u = 1 .. m + n
    BY <1>1, <2>1, LenProperties
  <2>3. ASSUME NEW i \in 1 .. m PROVE u[i] = s[i]
    <3>1. i \in 1 .. m + n /\ i <= m
      OBVIOUS
    <3>. QED BY <2>1, <3>1
  <2>4. ASSUME NEW i \in 1 .. n PROVE u[m + i] = t[i]
    <3>1. m + i \in 1 .. m + n /\ ~(m + i <= m) /\ (m + i) - m = i
      OBVIOUS
    <3>. QED BY <2>1, <3>1
  <2>. QED BY <2>2, <2>3, <2>4
<1>. DEFINE P == Places(s, c)
            Q == Places(t, c)
            R == {m + i : i \in Q}
<1>4. /\ IsFiniteSet(P) /\ IsFiniteSet(Q) /\ Times(s, c) = Cardinality(P)
      /\ Times(t, c) = Cardinality(Q) /\ Times(u, c) = Cardinality(Places(u, c))
  BY TimesCounts
<1>5. P \subseteq 1 .. m /\ Q \subseteq 1 .. n
  BY <1>3 DEF Places
<1>6. IsFiniteSet(R) /\ Cardinality(R) = Cardinality(Q)
  <2>. DEFINE f == [i \in Q |-> m + i]
  <2>1. f \in Bijection(Q, R)
    <3>1. \A i, j \in Q : m + i = m + j => i = j
      BY <1>5
    <3>2. f \in [Q -> R] /\ \A r \in R : \E i \in Q : f[i] = r
      OBVIOUS
    <3>3. \A i, j \in Q : f[i] = f[j] => i = j
      BY <3>1
    <3>. HIDE DEF f, R, Q
    <3>. QED BY <3>2, <3>3 DEF Bijection, Injection, IsInjective, Surjection
  <2>. HIDE DEF f, R, Q
  <2>. QED BY <1>4, <2>1, FS_Bijection DEF ExistsBijection
<1>7. Places(u, c) = P \cup R
  <2>1. ASSUME NEW i \in Places(u, c) PROVE i \in P \cup R
    <3>1. i \in 1 .. m + n /\ u[i] = c
      BY <1>3, <2>1 DEF Places
    <3>2. CASE i \in 1 .. m
      BY <1>3, <3>1, <3>2 DEF Places
    <3>3. CASE i \notin 1 .. m
      <4>1. i - m \in 1 .. n /\ i = m + (i - m)
        BY <3>1, <3>3
      <4>2. t[i - m] = c
        BY <1>3, <3>1, <4>1
      <4>3. i - m \in Q
        BY <1>3, <4>1, <4>2 DEF Places
      <4>. QED BY <4>1, <4>3
    <3>. QED BY <3>2, <3>3
  <2>2. ASSUME NEW i \in P PROVE i \in Places(u, c)
    <3>1. i \in 1 .. m /\ s[i] = c
      BY <1>3, <2>2 DEF Places
    <3>2. i \in 1 .. m + n
      BY <3>1
    <3>. QED BY <1>3, <3>1, <3>2 DEF Places
  <2>3. ASSUME NEW i \in Q PROVE m + i \in Places(u, c)
    <3>1. i \in 1 .. n /\ t[i] = c
      BY <1>3, <2>3 DEF Places
    <3>2. m + i \in 1 .. m + n
      BY <3>1
    <3>. QED BY <1>3, <3>1, <3>2 DEF Places
  <2>. QED BY <2>1, <2>2, <2>3
<1>8. P \cap R = {}
  <2>1. ASSUME NEW i \in R PROVE i \notin 1 .. m
    BY <1>5
  <2>. QED BY <1>5, <2>1
<1>9. Cardinality(P \cup R) = Cardinality(P) + Cardinality(R)
  <2>. HIDE DEF P, R
  <2>. QED BY <1>4, <1>6, <1>8, ApartTogether
<1>. QED BY <1>2, <1>4, <1>6, <1>7, <1>9

\* A list is its head and the rest.
LEMMA TimesHead ==
    ASSUME NEW s \in Seq(Coros), s # <<>>, NEW c \in Coros
    PROVE  /\ Head(s) \in Coros /\ Tail(s) \in Seq(Coros)
           /\ Times(s, c) = Once(Head(s) = c) + Times(Tail(s), c)
<1>1. PICK h \in Coros, t \in Seq(Coros) : h = Head(s) /\ t = Tail(s)
  BY HeadTailProperties
<1>2. PICK e : e = <<>>
  OBVIOUS
<1>3. e \in Seq(Coros) /\ Len(e) = 0 /\ Times(e, c) = 0
  <2>1. Times(e, c) = 0
    BY <1>2, TimesEmpty, Zenon
  <2>2. Len(e) = 0
    BY <1>2
  <2>3. <<>> \in Seq(Coros)
    OBVIOUS
  <2>. QED BY <1>2, <2>1, <2>2, <2>3
<1>11. PICK u : u = Append(e, h)
  OBVIOUS
<1>12. u \in Seq(Coros) /\ Len(u) = 1 /\ u[1] = h
  <2>1. u \in Seq(Coros) /\ Len(u) = Len(e) + 1 /\ u[Len(e) + 1] = h
    BY <1>3, <1>11, AppendProperties
  <2>. QED BY <1>3, <2>1
<1>4. Times(u, c) = Times(e, c) + Once(h = c)
  <2>1. PICK q \in Seq(Coros) : q = e
    BY <1>3
  <2>2. Times(Append(q, h), c) = Times(q, c) + Once(h = c)
    BY TimesAppend
  <2>. QED BY <1>11, <2>1, <2>2, Zenon
<1>5. PICK n \in Nat : n = Len(t)
  BY LenProperties
<1>6. /\ Len(s) = 1 + n /\ s[1] = h /\ \A i \in 1 .. n : t[i] = s[i + 1]
  <2>1. Len(s) \in Nat
    BY LenProperties
  <2>. QED BY <1>1, <1>5, <2>1, HeadTailProperties
<1>7. s = u \o t
  <2>1. PICK v \in Seq(Coros) : v = u \o t
    BY <1>12, ConcatProperties
  <2>2. /\ Len(v) = Len(u) + Len(t)
        /\ \A i \in 1 .. Len(u) + Len(t) : v[i] = IF i <= Len(u) THEN u[i] ELSE t[i - Len(u)]
    BY <1>12, <2>1, ConcatProperties
  <2>3. ASSUME NEW i \in 1 .. 1 + n PROVE s[i] = v[i]
    <3>1. CASE i = 1
      BY <1>12, <1>5, <1>6, <2>2, <3>1
    <3>2. CASE i # 1
      <4>1. i - 1 \in 1 .. n /\ (i - 1) + 1 = i /\ ~(i <= 1)
        BY <3>2
      <4>. QED BY <1>12, <1>5, <1>6, <2>2, <4>1
    <3>. QED BY <3>1, <3>2
  <2>4. Len(s) = Len(v) /\ \A i \in 1 .. Len(s) : s[i] = v[i]
    BY <1>12, <1>5, <1>6, <2>2, <2>3
  <2>. QED BY <2>1, <2>4, SeqEqual
<1>8. Times(s, c) = Times(u, c) + Times(t, c)
  BY <1>12, <1>7, TimesJoined
<1>9. Once(h = c) \in Nat
  BY DEF Once
<1>10. Times(s, c) = Once(h = c) + Times(t, c)
  BY <1>3, <1>4, <1>8, <1>9
<1>. QED BY <1>1, <1>10

\* Step by step, f retains of the list those in the set.
Retains(f, s, keep) ==
    /\ f[0] = <<>> /\ f[Len(s)] = Retained(s, keep)
    /\ \A i \in 1 .. Len(s) :
        f[i] = IF s[i] \in keep THEN Append(f[i - 1], s[i]) ELSE f[i - 1]

\* What is retained of a list, one step after the other.
LEMMA RetainedSteps ==
    ASSUME NEW s \in Seq(Coros), NEW keep
    PROVE  \E f \in [0 .. Len(s) -> Seq(Coros)] : Retains(f, s, keep)
<1>. DEFINE n == Len(s)
            X == Seq(Coros)
            Do(i, y) == IF s[i] \in keep THEN Append(y, s[i]) ELSE y
            G == [p \in (1 .. n) \X X |-> Do(p[1], p[2])]
            P(g) == g = [i \in 0 .. n |-> IF i = 0 THEN <<>> ELSE Do(i, g[i - 1])]
<1>1. n \in Nat /\ \A i \in 1 .. n : s[i] \in Coros
  BY LenProperties, ElementOfSeq
<1>2. ASSUME NEW i \in 1 .. n, NEW y \in X PROVE Do(i, y) \in X
  <2>. QED BY <1>1, AppendProperties
<1>3. ASSUME NEW i \in 1 .. n, NEW y \in X PROVE G[<<i, y>>] = Do(i, y)
  OBVIOUS
<1>4. Retained(s, keep) = (CHOOSE g : g = [i \in 0 .. n |-> IF i = 0 THEN <<>>
            ELSE IF s[i] \in keep THEN Append(g[i - 1], s[i]) ELSE g[i - 1]])[n]
  BY Zenon DEF Retained
<1>5. Retained(s, keep) = (CHOOSE g : P(g))[n]
  BY <1>4, Zenon
<1>. SUFFICES \E f \in [0 .. n -> X] : /\ f[0] = <<>> /\ f[n] = Retained(s, keep)
                                       /\ \A i \in 1 .. n : f[i] = Do(i, f[i - 1])
  BY Zenon DEF Retains
<1>6. <<>> \in X
  OBVIOUS
<1>. HIDE DEF X, Do, G, n
<1>7. PICK f \in [0 .. n -> X] : Computes(f, n, <<>>, G)
  <2>1. n \in Nat /\ <<>> \in X /\ \A i \in 1 .. n, y \in X : G[<<i, y>>] \in X
    BY <1>1, <1>2, <1>3, <1>6
  <2>. QED BY <2>1, Recursion
<1>8. f[0] = <<>> /\ \A i \in 1 .. n : f[i] = Do(i, f[i - 1])
  <2>1. ASSUME NEW i \in 1 .. n PROVE f[i - 1] \in X
    BY <1>1
  <2>. QED BY <1>3, <1>7, <2>1 DEF Computes
<1>9. P(f)
  <2>1. ASSUME NEW i \in 0 .. n PROVE f[i] = IF i = 0 THEN <<>> ELSE Do(i, f[i - 1])
    BY <1>1, <1>8
  <2>. QED BY <1>7, <2>1
<1>10. ASSUME NEW g, P(g) PROVE g = f
  <2>. DEFINE T == {i \in 0 .. n : g[i] = f[i]}
  <2>1. \A i \in 0 .. n : g[i] = IF i = 0 THEN <<>> ELSE Do(i, g[i - 1])
    BY <1>10
  <2>2. 0 \in T
    BY <2>1, <1>1, <1>8
  <2>3. ASSUME NEW i \in 1 .. n, i - 1 \in T PROVE i \in T
    BY <2>1, <2>3, <1>1, <1>8
  <2>4. 0 .. n \subseteq T
    <3>. HIDE DEF T
    <3>. QED BY <1>1, <2>2, <2>3, Upto
  <2>. QED BY <1>7, <1>10, <2>4
<1>11. f[n] = Retained(s, keep)
  <2>. HIDE DEF P
  <2>. QED BY <1>5, <1>9, <1>10
<1>. QED BY <1>7, <1>8, <1>11

\* Who is retained is there as often as before, and nobody else is.
LEMMA TimesRetained ==
    ASSUME NEW s \in Seq(Coros), NEW keep, NEW c
    PROVE  /\ Retained(s, keep) \in Seq(Coros)
           /\ Times(Retained(s, keep), c) = IF c \in keep THEN Times(s, c) ELSE 0
<1>1. PICK f \in [0 .. Len(s) -> Seq(Coros)] : Retains(f, s, keep)
  BY RetainedSteps
<1>2. PICK n \in Nat : n = Len(s)
  BY LenProperties
<1>3. \A i \in 1 .. n : s[i] \in Coros
  BY <1>2, ElementOfSeq
<1>4. /\ f[0] = <<>> /\ f[n] = Retained(s, keep)
      /\ \A i \in 1 .. n : f[i] = IF s[i] \in keep THEN Append(f[i - 1], s[i]) ELSE f[i - 1]
      /\ \A i \in 0 .. n : f[i] \in Seq(Coros)
  BY <1>1, <1>2 DEF Retains
<1>. DEFINE Of(i) == {j \in Places(s, c) : j <= i}
            T == {i \in 0 .. n : Times(f[i], c) = IF c \in keep THEN Cardinality(Of(i)) ELSE 0}
<1>5. /\ IsFiniteSet(Places(s, c)) /\ Places(s, c) \subseteq 1 .. n
      /\ Times(s, c) = Cardinality(Places(s, c))
  BY <1>2, TimesCounts DEF Places
<1>6. 0 \in T
  <2>1. Of(0) = {}
    BY <1>5
  <2>2. Cardinality(Of(0)) = 0
    BY <2>1, FS_EmptySet
  <2>3. Times(f[0], c) = 0
    BY <1>4, TimesEmpty
  <2>4. 0 \in 0 .. n
    BY <1>2
  <2>. HIDE DEF Of
  <2>. QED BY <2>2, <2>3, <2>4
<1>7. ASSUME NEW i \in 1 .. n, i - 1 \in T PROVE i \in T
  <2>1. /\ IsFiniteSet(Of(i - 1)) /\ i \notin Of(i - 1) /\ i \in 0 .. n
        /\ Of(i) = IF s[i] = c THEN Of(i - 1) \cup {i} ELSE Of(i - 1)
    <3>1. Of(i - 1) \subseteq Places(s, c)
      OBVIOUS
    <3>2. i \notin Of(i - 1) /\ i \in 0 .. n
      BY <1>2
    <3>3. i \in DOMAIN s
      BY <1>2, LenProperties
    <3>4. \A j \in Places(s, c) : j <= i <=> j <= i - 1 \/ j = i
      BY <1>5
    <3>5. i \in Places(s, c) <=> s[i] = c
      BY <3>3 DEF Places
    <3>6. Of(i) = IF s[i] = c THEN Of(i - 1) \cup {i} ELSE Of(i - 1)
      BY <3>4, <3>5
    <3>7. IsFiniteSet(Of(i - 1))
      <4>. HIDE DEF Of
      <4>. QED BY <1>5, <3>1, FS_Subset
    <3>. QED BY <3>2, <3>6, <3>7
  <2>. DEFINE m == Cardinality(Of(i - 1))
  <2>2. m \in Nat /\ Cardinality(Of(i)) = IF s[i] = c THEN m + 1 ELSE m
    <3>. HIDE DEF Of
    <3>. QED BY <2>1, FS_AddElement, FS_CardinalityType
  <2>3. Times(f[i - 1], c) = IF c \in keep THEN m ELSE 0
    BY <1>7
  <2>4. i - 1 \in 0 .. n
    BY <1>2
  <2>. HIDE DEF Of, m
  <2>5. CASE s[i] \in keep
    <3>1. f[i - 1] \in Seq(Coros) /\ f[i] = Append(f[i - 1], s[i]) /\ s[i] \in Coros
      BY <1>3, <1>4, <2>4, <2>5
    <3>2. Times(f[i], c) = Times(f[i - 1], c) + Once(s[i] = c)
      BY <3>1, TimesAppend
    <3>3. Times(f[i], c) = IF c \in keep THEN Cardinality(Of(i)) ELSE 0
      BY <2>2, <2>3, <2>5, <3>2 DEF Once
    <3>. QED BY <2>1, <3>3
  <2>6. CASE s[i] \notin keep
    <3>1. f[i] = f[i - 1]
      BY <1>4, <2>6
    <3>2. Times(f[i], c) = IF c \in keep THEN Cardinality(Of(i)) ELSE 0
      BY <2>2, <2>3, <2>6, <3>1
    <3>. QED BY <2>1, <3>2
  <2>. QED BY <2>5, <2>6
<1>8. n \in T
  <2>. HIDE DEF T
  <2>1. 0 .. n \subseteq T
    BY <1>2, <1>6, <1>7, Upto
  <2>. QED BY <1>2, <2>1
<1>9. Of(n) = Places(s, c)
  BY <1>2, <1>5
<1>10. n \in 0 .. n
  BY <1>2
<1>. QED BY <1>4, <1>5, <1>8, <1>9, <1>10

\* Those waiting for a frame are woken once each, in any order.
LEMMA TimesOrdered ==
    ASSUME NEW S \in SUBSET Coros, NEW f \in SetToSeqs(S), NEW c \in Coros
    PROVE  f \in Seq(Coros) /\ Times(f, c) = Once(c \in S)
<1>. DEFINE n == Cardinality(S)
<1>1. IsFiniteSet(S) /\ n \in Nat
  <2>1. IsFiniteSet(S)
    BY CoroutinesAssumption, FS_Subset
  <2>. QED BY <2>1, FS_CardinalityType
<1>2. f \in [1 .. n -> S] /\ \A i, j \in 1 .. n : i # j => f[i] # f[j]
  BY DEF SetToSeqs
<1>. HIDE DEF n
<1>3. f \in Seq(Coros)
  <2>1. f \in [1 .. n -> Coros]
    BY <1>2
  <2>. QED BY <1>1, <2>1, IsASeq
<1>4. IsFiniteSet(Places(f, c)) /\ Times(f, c) = Cardinality(Places(f, c))
  BY <1>3, TimesCounts
<1>5. CASE c \in S
  <2>1. PICK i \in 1 .. n : f[i] = c
    <3>1. f \in Surjection(1 .. n, S)
      <4>1. IsFiniteSet(1 .. n) /\ Cardinality(1 .. n) = n
        BY <1>1, FS_Interval
      <4>2. f \in Injection(1 .. n, S)
        BY <1>2 DEF Injection, IsInjective
      <4>. QED BY <1>1, <4>1, <4>2, FS_Injection DEF n
    <3>. QED BY <1>5, <3>1 DEF Surjection
  <2>2. Places(f, c) = {i}
    <3>1. DOMAIN f = 1 .. n
      BY <1>2
    <3>2. \A j \in 1 .. n : f[j] = c => j = i
      BY <1>2, <2>1
    <3>. QED BY <2>1, <3>1, <3>2 DEF Places
  <2>3. Cardinality(Places(f, c)) = 1
    BY <2>2, FS_Singleton
  <2>. QED BY <1>3, <1>4, <1>5, <2>3 DEF Once
<1>6. CASE c \notin S
  <2>1. Places(f, c) = {}
    BY <1>2, <1>6 DEF Places
  <2>2. Cardinality(Places(f, c)) = 0
    BY <2>1, FS_EmptySet
  <2>. QED BY <1>3, <1>4, <1>6, <2>2 DEF Once
<1>. QED BY <1>5, <1>6

\* Events are none of the other states.
LEMMA EventsAreNoStates ==
    /\ \A e \in Events : e \notin {"unborn", "gone", "Ready", "Running", "Ticks", "Frame"}
    /\ MaxDelay \in Nat \ {0} /\ Past \notin Delays /\ Delays \subseteq Nat
    /\ 0 \in Delays /\ 1 \in Delays
    /\ {"unborn", "gone", "Ready", "Running", "Ticks", "Frame"} \union Events = States
<1>1. \A e \in Events : e \notin Unlisted \union Others
  BY CoroutinesAssumption
<1>2. MaxDelay \in Nat \ {0}
  BY CoroutinesAssumption
<1>. QED BY <1>1, <1>2 DEF Unlisted, Others, Past, Delays, States

\* Where OnePlace has one coroutine.
Placed(c) ==
    /\ \/ Times(ready, c) = Once(state[c] = "Ready")
       \/ state[c] = "gone" /\ Times(ready, c) = 1
    /\ state[c] = "Ticks" => resumeAt[c] # Past
    /\ \A k \in Delays :
          Times(tickWaiters[k], c) = Once(state[c] = "Ticks" /\ resumeAt[c] = k)
    /\ \A e \in Events : Times(eventWaiters[e], c) = Once(state[c] = e)

LEMMA PlacedAll == OnePlace <=> \A c \in Coros : Placed(c)
BY Zenon DEF OnePlace, Placed

\* A spawned coroutine is ready, once.
LEMMA SpawnPlaces ==
    ASSUME TypeOK, OnePlace, NEW c \in Coros, Spawn(c)
    PROVE  TypeOK' /\ OnePlace'
<1>1. /\ state[c] = "unborn" /\ state' = [state EXCEPT ![c] = "Ready"]
      /\ ready' = Append(ready, c)
      /\ UNCHANGED <<resumeAt, tickWaiters, eventWaiters, phase, processed>>
  BY DEF Spawn, Become, loop
<1>2. ready' \in Seq(Coros) /\ state' \in [Coros -> States]
  BY <1>1, AppendProperties DEF TypeOK, States, Others
<1>3. TypeOK'
  BY <1>1, <1>2 DEF TypeOK
<1>4. ASSUME NEW d \in Coros PROVE Placed(d)'
  <2>1. Times(ready', d) = Times(ready, d) + Once(c = d)
    BY <1>1, TimesAppend DEF TypeOK
  <2>2. state'[d] = IF d = c THEN "Ready" ELSE state[d]
    BY <1>1 DEF TypeOK
  <2>3. Placed(d)
    BY PlacedAll
  <2>4. CASE d = c
    BY <1>1, <2>1, <2>2, <2>3, <2>4, EventsAreNoStates DEF Placed, Once
  <2>5. CASE d # c
    <3>1. Times(ready, d) \in Nat
      BY TimesCounts DEF TypeOK
    <3>2. Times(ready', d) = Times(ready, d) /\ state'[d] = state[d]
      BY <2>1, <2>2, <2>5, <3>1 DEF Once
    <3>. QED BY <1>1, <2>3, <3>2 DEF Placed
  <2>. QED BY <2>4, <2>5
<1>5. OnePlace'
  BY <1>4, Zenon DEF OnePlace, Placed
<1>. QED BY <1>3, <1>5

\* A coroutine that is made to wait for a tick is in the list of its tick, if it was in
\* none.
LEMMA WaitPlaces ==
    ASSUME TypeOK, OnePlace, NEW c \in Coros, NEW k \in Delays, WaitTicks(c, k),
           state[c] \in {"unborn", "Ready"}
    PROVE  /\ state' \in [Coros -> States] /\ resumeAt' \in [Coros -> Delays \union {Past}]
           /\ tickWaiters' \in [Delays -> Seq(Coros)]
           /\ \A d \in Coros : state'[d] = (IF d = c THEN "Ticks" ELSE state[d])
           /\ \A d \in Coros : state'[d] = "Ticks" => resumeAt'[d] # Past
           /\ \A d \in Coros, l \in Delays :
                Times(tickWaiters'[l], d) = Once(state'[d] = "Ticks" /\ resumeAt'[d] = l)
<1>1. /\ state' = [state EXCEPT ![c] = "Ticks"] /\ resumeAt' = [resumeAt EXCEPT ![c] = k]
      /\ tickWaiters' = [tickWaiters EXCEPT ![k] = Append(tickWaiters[k], c)]
  BY DEF WaitTicks, Become
<1>2. /\ state' \in [Coros -> States] /\ resumeAt' \in [Coros -> Delays \union {Past}]
      /\ \A d \in Coros : state'[d] = IF d = c THEN "Ticks" ELSE state[d]
      /\ \A d \in Coros : resumeAt'[d] = IF d = c THEN k ELSE resumeAt[d]
  BY <1>1 DEF TypeOK, States, Others
<1>3. tickWaiters[k] \in Seq(Coros) /\ Append(tickWaiters[k], c) \in Seq(Coros)
  BY AppendProperties DEF TypeOK
<1>4. tickWaiters' \in [Delays -> Seq(Coros)]
  BY <1>1, <1>3 DEF TypeOK
<1>5. ASSUME NEW d \in Coros PROVE state'[d] = "Ticks" => resumeAt'[d] # Past
  <2>1. Placed(d)
    BY PlacedAll
  <2>. QED BY <1>2, <2>1, EventsAreNoStates DEF Placed
<1>6. ASSUME NEW d \in Coros, NEW l \in Delays
      PROVE  Times(tickWaiters'[l], d) = Once(state'[d] = "Ticks" /\ resumeAt'[d] = l)
  <2>1. Placed(d)
    BY PlacedAll
  <2>2. Times(tickWaiters[l], d) = Once(state[d] = "Ticks" /\ resumeAt[d] = l)
    BY <2>1 DEF Placed
  <2>3. Times(Append(tickWaiters[k], c), d) = Times(tickWaiters[k], d) + Once(c = d)
    BY <1>3, TimesAppend
  <2>4. Times(tickWaiters'[l], d) = Times(tickWaiters[l], d) + Once(c = d /\ l = k)
    <3>1. Times(tickWaiters[l], d) \in Nat
      BY TimesCounts DEF TypeOK
    <3>2. CASE l = k
      <4>1. tickWaiters'[l] = Append(tickWaiters[k], c)
        BY <1>1, <3>2 DEF TypeOK
      <4>. QED BY <2>3, <3>2, <4>1 DEF Once
    <3>3. CASE l # k
      <4>1. tickWaiters'[l] = tickWaiters[l]
        BY <1>1, <3>3 DEF TypeOK
      <4>. QED BY <3>1, <3>3, <4>1 DEF Once
    <3>. QED BY <3>2, <3>3
  <2>5. CASE d = c
    BY <1>2, <2>2, <2>4, <2>5 DEF Once
  <2>6. CASE d # c
    BY <1>2, <2>2, <2>4, <2>6 DEF Once
  <2>. QED BY <2>5, <2>6
<1>. QED BY <1>2, <1>4, <1>5, <1>6

\* A scheduled coroutine is in the list of its tick.
LEMMA ScheduledPlaces ==
    ASSUME TypeOK, OnePlace, NEW c \in Coros, NEW k \in Delays, SpawnScheduled(c, k)
    PROVE  TypeOK' /\ OnePlace'
<1>1. /\ state[c] = "unborn" /\ WaitTicks(c, k)
      /\ UNCHANGED <<ready, eventWaiters, phase, processed>>
  BY DEF SpawnScheduled, loop
<1>2. /\ state' \in [Coros -> States] /\ resumeAt' \in [Coros -> Delays \union {Past}]
      /\ tickWaiters' \in [Delays -> Seq(Coros)]
      /\ \A d \in Coros : state'[d] = (IF d = c THEN "Ticks" ELSE state[d])
      /\ \A d \in Coros : state'[d] = "Ticks" => resumeAt'[d] # Past
      /\ \A d \in Coros, l \in Delays :
            Times(tickWaiters'[l], d) = Once(state'[d] = "Ticks" /\ resumeAt'[d] = l)
  BY <1>1, WaitPlaces
<1>3. TypeOK'
  BY <1>1, <1>2 DEF TypeOK
<1>4. ASSUME NEW d \in Coros PROVE Placed(d)'
  <2>1. Placed(d)
    BY PlacedAll
  <2>2. CASE d = c
    BY <1>1, <1>2, <2>1, <2>2, EventsAreNoStates DEF Placed, Once
  <2>3. CASE d # c
    BY <1>1, <1>2, <2>1, <2>3 DEF Placed
  <2>. QED BY <2>2, <2>3
<1>5. OnePlace'
  BY <1>4, Zenon DEF OnePlace, Placed
<1>. QED BY <1>3, <1>5

\* Whoever is cancelled is taken from the lists of its state and of its tick.
LEMMA CancelPlaces ==
    ASSUME TypeOK, OnePlace, NEW c \in Coros, Cancel(c)
    PROVE  TypeOK' /\ OnePlace'
<1>1. /\ Listed(c) /\ state' = [state EXCEPT ![c] = "gone"]
      /\ tickWaiters' = [k \in Delays |-> IF k = resumeAt[c] THEN Without(tickWaiters[k], c)
                                                            ELSE tickWaiters[k]]
      /\ eventWaiters' = [e \in Events |-> IF e = state[c] THEN Without(eventWaiters[e], c)
                                                          ELSE eventWaiters[e]]
      /\ UNCHANGED <<resumeAt, ready, phase, processed>>
  BY DEF Cancel, Unlist, Become, loop
<1>2. ASSUME NEW s \in Seq(Coros), NEW d \in Coros
      PROVE  /\ Without(s, c) \in Seq(Coros)
             /\ Times(Without(s, c), d) = IF d = c THEN 0 ELSE Times(s, d)
  <2>1. PICK keep : keep = Coros \ {c}
    OBVIOUS
  <2>2. Without(s, c) = Retained(s, keep) /\ (d \in keep <=> d # c)
    BY <2>1 DEF Without
  <2>3. /\ Retained(s, keep) \in Seq(Coros)
        /\ Times(Retained(s, keep), d) = IF d \in keep THEN Times(s, d) ELSE 0
    BY TimesRetained
  <2>. QED BY <2>2, <2>3
<1>3. /\ \A k \in Delays : tickWaiters[k] \in Seq(Coros)
      /\ \A e \in Events : eventWaiters[e] \in Seq(Coros)
  BY DEF TypeOK
<1>4. /\ \A k \in Delays : tickWaiters'[k] = IF k = resumeAt[c] THEN Without(tickWaiters[k], c)
                                                                 ELSE tickWaiters[k]
      /\ \A e \in Events : eventWaiters'[e] = IF e = state[c] THEN Without(eventWaiters[e], c)
                                                              ELSE eventWaiters[e]
  BY <1>1
<1>5. TypeOK'
  <2>1. state' \in [Coros -> States]
    BY <1>1 DEF TypeOK, States, Unlisted
  <2>2. tickWaiters' \in [Delays -> Seq(Coros)]
    <3>1. \A k \in Delays : tickWaiters'[k] \in Seq(Coros)
      BY <1>2, <1>3, <1>4
    <3>. QED BY <1>1, <3>1
  <2>3. eventWaiters' \in [Events -> Seq(Coros)]
    <3>1. \A e \in Events : eventWaiters'[e] \in Seq(Coros)
      BY <1>2, <1>3, <1>4
    <3>. QED BY <1>1, <3>1
  <2>. QED BY <1>1, <2>1, <2>2, <2>3 DEF TypeOK
<1>6. ASSUME NEW d \in Coros PROVE Placed(d)'
  <2>1. Placed(d)
    BY PlacedAll
  <2>2. state'[d] = IF d = c THEN "gone" ELSE state[d]
    BY <1>1 DEF TypeOK
  <2>3. CASE d = c
    <3>1. ASSUME NEW k \in Delays PROVE Times(tickWaiters'[k], d) = 0
      <4>1. k = resumeAt[c] \/ Times(tickWaiters[k], d) = 0
        BY <2>1, <2>3 DEF Placed, Once
      <4>. QED BY <1>2, <1>3, <1>4, <2>3, <4>1
    <3>2. ASSUME NEW e \in Events PROVE Times(eventWaiters'[e], d) = 0
      <4>1. e = state[c] \/ Times(eventWaiters[e], d) = 0
        BY <2>1, <2>3 DEF Placed, Once
      <4>. QED BY <1>2, <1>3, <1>4, <2>3, <4>1
    <3>3. state'[d] = "gone" /\ "gone" \notin Events /\ state[d] # "gone"
      BY <1>1, <2>2, <2>3, EventsAreNoStates DEF Listed, Unlisted
    <3>4. Times(ready', d) \in {0, 1}
      BY <1>1, <2>1, <3>3 DEF Placed, Once
    <3>. QED BY <3>1, <3>2, <3>3, <3>4 DEF Placed, Once
  <2>4. CASE d # c
    <3>1. \A k \in Delays : Times(tickWaiters'[k], d) = Times(tickWaiters[k], d)
      BY <1>2, <1>3, <1>4, <2>4
    <3>2. \A e \in Events : Times(eventWaiters'[e], d) = Times(eventWaiters[e], d)
      BY <1>2, <1>3, <1>4, <2>4
    <3>. QED BY <1>1, <2>1, <2>2, <2>4, <3>1, <3>2 DEF Placed
  <2>. QED BY <2>3, <2>4
<1>7. OnePlace'
  BY <1>6, Zenon DEF OnePlace, Placed
<1>. QED BY <1>5, <1>7

\* Those in the list that are still there are ready afterwards.
LEMMA WakePlaces ==
    ASSUME TypeOK, NEW v \in Seq(Coros), Wake(v)
    PROVE  /\ state' \in [Coros -> States] /\ ready' \in Seq(Coros)
           /\ \A d \in Coros : state'[d] = (IF Times(v, d) = 0 THEN state[d] ELSE "Ready")
           /\ \A d \in Coros : Times(ready', d) = Times(ready, d) + Times(v, d)
<1>1. /\ state' = [c \in Coros |-> IF Contains(v, c) THEN "Ready" ELSE state[c]]
      /\ ready' = ready \o v
  BY DEF Wake
<1>2. state' \in [Coros -> States]
  BY <1>1 DEF TypeOK, States, Others
<1>3. ASSUME NEW d \in Coros
      PROVE  /\ state'[d] = IF Times(v, d) = 0 THEN state[d] ELSE "Ready"
             /\ Times(ready', d) = Times(ready, d) + Times(v, d)
  <2>1. state'[d] = IF Contains(v, d) THEN "Ready" ELSE state[d]
    BY <1>1
  <2>2. Times(v, d) = 0 <=> ~Contains(v, d)
    BY TimesCounts
  <2>3. Times(ready', d) = Times(ready, d) + Times(v, d)
    BY <1>1, TimesJoined DEF TypeOK
  <2>. QED BY <2>1, <2>2, <2>3
<1>4. ready' \in Seq(Coros)
  BY <1>1, TimesJoined DEF TypeOK
<1>. QED BY <1>2, <1>3, <1>4

\* Of a list, those that are listed are woken.
LEMMA TimesWoken ==
    ASSUME NEW s \in Seq(Coros), NEW d \in Coros
    PROVE  /\ Woken(s) \in Seq(Coros)
           /\ Times(Woken(s), d) = IF Listed(d) THEN Times(s, d) ELSE 0
<1>1. PICK keep : keep = {c \in Coros : Listed(c)}
  OBVIOUS
<1>2. Woken(s) = Retained(s, keep)
  BY <1>1 DEF Woken
<1>3. d \in keep <=> Listed(d)
  BY <1>1
<1>. QED BY <1>2, <1>3, TimesRetained

\* Those that wait for the event are ready, and nobody waits for it.
LEMMA NotifyPlaces ==
    ASSUME TypeOK, OnePlace, NEW e \in Events, NotifyEvent(e)
    PROVE  TypeOK' /\ OnePlace'
<1>1. PICK v : v = Woken(eventWaiters[e])
  OBVIOUS
<1>2. /\ Wake(v) /\ eventWaiters' = [eventWaiters EXCEPT ![e] = <<>>]
      /\ UNCHANGED <<resumeAt, tickWaiters, phase, processed>>
  BY <1>1 DEF NotifyEvent, loop
<1>3. v \in Seq(Coros)
  <2>1. eventWaiters[e] \in Seq(Coros)
    BY DEF TypeOK
  <2>2. PICK keep : keep = {c \in Coros : Listed(c)}
    OBVIOUS
  <2>. QED BY <1>1, <2>1, <2>2, TimesRetained DEF Woken
<1>4. /\ state' \in [Coros -> States] /\ ready' \in Seq(Coros)
      /\ \A d \in Coros : state'[d] = (IF Times(v, d) = 0 THEN state[d] ELSE "Ready")
      /\ \A d \in Coros : Times(ready', d) = Times(ready, d) + Times(v, d)
  BY <1>2, <1>3, WakePlaces
<1>5. eventWaiters' \in [Events -> Seq(Coros)]
  <2>1. <<>> \in Seq(Coros)
    OBVIOUS
  <2>. QED BY <1>2, <2>1 DEF TypeOK
<1>6. TypeOK'
  BY <1>2, <1>4, <1>5 DEF TypeOK
<1>7. ASSUME NEW d \in Coros PROVE Placed(d)'
  <2>1. Placed(d)
    BY PlacedAll
  <2>2. Times(v, d) = Once(state[d] = e)
    <3>1. Times(eventWaiters[e], d) = Once(state[d] = e)
      BY <2>1 DEF Placed
    <3>2. Times(v, d) = IF Listed(d) THEN Times(eventWaiters[e], d) ELSE 0
      BY <1>1, TimesWoken DEF TypeOK
    <3>3. state[d] = e => Listed(d)
      BY EventsAreNoStates DEF Listed, Unlisted
    <3>. QED BY <3>1, <3>2, <3>3 DEF Once
  <2>3. \A f \in Events : eventWaiters'[f] = IF f = e THEN <<>> ELSE eventWaiters[f]
    BY <1>2 DEF TypeOK
  <2>4. CASE state[d] = e
    <3>1. state'[d] = "Ready" /\ Times(ready', d) = 1
      BY <1>4, <2>1, <2>2, <2>4, EventsAreNoStates DEF Placed, Once
    <3>2. \A f \in Events : Times(eventWaiters'[f], d) = 0
      BY <2>1, <2>3, <2>4, TimesEmpty DEF Placed, Once
    <3>3. \A k \in Delays : Times(tickWaiters'[k], d) = 0
      BY <1>2, <2>1, <2>4, EventsAreNoStates DEF Placed, Once
    <3>. QED BY <3>1, <3>2, <3>3, EventsAreNoStates DEF Placed, Once
  <2>5. CASE state[d] # e
    <3>1. state'[d] = state[d] /\ Times(ready', d) = Times(ready, d)
      <4>1. Times(ready, d) \in Nat
        BY TimesCounts DEF TypeOK
      <4>. QED BY <1>4, <2>2, <2>5, <4>1 DEF Once
    <3>2. \A f \in Events : Times(eventWaiters'[f], d) = Times(eventWaiters[f], d)
      BY <2>1, <2>3, <2>5, TimesEmpty DEF Placed, Once
    <3>. QED BY <1>2, <2>1, <3>1, <3>2 DEF Placed
  <2>. QED BY <2>4, <2>5
<1>8. OnePlace'
  BY <1>7, Zenon DEF OnePlace, Placed
<1>. QED BY <1>6, <1>8

\* Those due, and those that wait for a frame, are ready; the others wait one tick less.
LEMMA StartPlaces ==
    ASSUME TypeOK, OnePlace, StartTick
    PROVE  TypeOK' /\ OnePlace'
<1>1. PICK due \in Due, frames \in SetToSeqs(Frames) : Wake(Woken(due) \o frames)
  BY DEF StartTick
<1>2. /\ tickWaiters' = [k \in Delays |->
                            IF k \in 1 .. MaxDelay - 1 THEN tickWaiters[k + 1] ELSE <<>>]
      /\ resumeAt' = [c \in Coros |-> IF resumeAt[c] = Past THEN Past ELSE resumeAt[c] - 1]
      /\ phase' = "running"
      /\ UNCHANGED <<eventWaiters, processed>>
  BY DEF StartTick
<1>3. /\ tickWaiters[0] \in Seq(Coros) /\ tickWaiters[1] \in Seq(Coros)
      /\ \A k \in Delays : tickWaiters[k] \in Seq(Coros)
  BY EventsAreNoStates DEF TypeOK
<1>4. due \in Seq(Coros) /\ \A d \in Coros :
            Times(due, d) = Times(tickWaiters[0], d) + Times(tickWaiters[1], d)
  <2>1. CASE due = tickWaiters[0] \o tickWaiters[1]
    BY <1>3, <2>1, TimesJoined, ConcatProperties
  <2>2. CASE due = tickWaiters[1] \o tickWaiters[0]
    <3>1. due \in Seq(Coros)
      BY <1>3, <2>2, ConcatProperties
    <3>2. ASSUME NEW d \in Coros
          PROVE  Times(due, d) = Times(tickWaiters[0], d) + Times(tickWaiters[1], d)
      <4>1. Times(due, d) = Times(tickWaiters[1], d) + Times(tickWaiters[0], d)
        BY <1>3, <2>2, TimesJoined
      <4>2. Times(tickWaiters[0], d) \in Nat /\ Times(tickWaiters[1], d) \in Nat
        BY <1>3, TimesCounts
      <4>. QED BY <4>1, <4>2
    <3>. QED BY <3>1, <3>2
  <2>. QED BY <2>1, <2>2 DEF Due
<1>5. Frames \in SUBSET Coros /\ \A d \in Coros : d \in Frames <=> state[d] = "Frame"
  BY DEF Frames
<1>6. frames \in Seq(Coros)
  <2>1. CASE Coros = {}
    <3>1. Frames = {} /\ Cardinality({}) = 0
      BY <1>5, <2>1, FS_EmptySet
    <3>2. frames \in [1 .. 0 -> {}]
      BY <3>1 DEF SetToSeqs
    <3>3. frames \in [1 .. 0 -> Coros]
      BY <2>1, <3>2
    <3>. QED BY <3>3, IsASeq
  <2>2. ASSUME NEW d \in Coros PROVE frames \in Seq(Coros)
    BY <1>1, <1>5, TimesOrdered
  <2>. QED BY <2>1, <2>2
<1>7. Woken(due) \in Seq(Coros)
  <2>1. PICK keep : keep = {c \in Coros : Listed(c)}
    OBVIOUS
  <2>. QED BY <1>4, <2>1, TimesRetained DEF Woken
<1>8. PICK v \in Seq(Coros) : v = Woken(due) \o frames
  BY <1>6, <1>7, ConcatProperties
<1>9. /\ state' \in [Coros -> States] /\ ready' \in Seq(Coros)
      /\ \A d \in Coros : state'[d] = (IF Times(v, d) = 0 THEN state[d] ELSE "Ready")
      /\ \A d \in Coros : Times(ready', d) = Times(ready, d) + Times(v, d)
  <2>1. Wake(v)
    BY <1>1, <1>8
  <2>. QED BY <2>1, WakePlaces
<1>10. resumeAt' \in [Coros -> Delays \union {Past}]
  <2>1. ASSUME NEW c \in Coros
        PROVE  (IF resumeAt[c] = Past THEN Past ELSE resumeAt[c] - 1) \in Delays \union {Past}
    <3>1. resumeAt[c] \in (0 .. MaxDelay) \union {-1} /\ MaxDelay \in Nat
      BY EventsAreNoStates DEF TypeOK, Delays, Past
    <3>. QED BY <3>1 DEF Delays, Past
  <2>. QED BY <1>2, <2>1
<1>11. tickWaiters' \in [Delays -> Seq(Coros)]
  <2>1. ASSUME NEW k \in Delays, k \in 1 .. MaxDelay - 1 PROVE k + 1 \in Delays
    BY <2>1, EventsAreNoStates DEF Delays
  <2>2. <<>> \in Seq(Coros)
    OBVIOUS
  <2>. QED BY <1>2, <1>3, <2>1, <2>2
<1>12. TypeOK'
  BY <1>2, <1>9, <1>10, <1>11 DEF TypeOK
<1>13. ASSUME NEW d \in Coros PROVE Placed(d)'
  <2>1. Placed(d)
    BY PlacedAll
  <2>2. Times(v, d) = Once(state[d] = "Frame" \/ (state[d] = "Ticks" /\ resumeAt[d] \in {0, 1}))
    <3>1. Times(Woken(due), d) = IF Listed(d) THEN Times(due, d) ELSE 0
      BY <1>4, TimesWoken
    <3>2. Times(due, d) = Times(tickWaiters[0], d) + Times(tickWaiters[1], d)
      BY <1>4
    <3>3. /\ Times(tickWaiters[0], d) = Once(state[d] = "Ticks" /\ resumeAt[d] = 0)
          /\ Times(tickWaiters[1], d) = Once(state[d] = "Ticks" /\ resumeAt[d] = 1)
      BY <2>1, EventsAreNoStates DEF Placed
    <3>4. Times(frames, d) = Once(d \in Frames)
      BY <1>1, <1>5, TimesOrdered
    <3>5. Times(v, d) = Times(Woken(due), d) + Times(frames, d)
      BY <1>6, <1>7, <1>8, TimesJoined
    <3>6. Listed(d) <=> state[d] # "unborn" /\ state[d] # "gone"
      BY DEF Listed, Unlisted
    <3>7. d \in Frames <=> state[d] = "Frame"
      BY <1>5
    <3>8. CASE state[d] = "Frame"
      BY <3>1, <3>2, <3>3, <3>4, <3>5, <3>6, <3>7, <3>8 DEF Once
    <3>9. CASE state[d] = "Ticks"
      BY <3>1, <3>2, <3>3, <3>4, <3>5, <3>6, <3>7, <3>9 DEF Once
    <3>10. CASE state[d] # "Frame" /\ state[d] # "Ticks"
      BY <3>1, <3>2, <3>3, <3>4, <3>5, <3>6, <3>7, <3>10 DEF Once
    <3>. QED BY <3>8, <3>9, <3>10
  <2>3. resumeAt'[d] = IF resumeAt[d] = Past THEN Past ELSE resumeAt[d] - 1
    BY <1>2
  <2>4. ASSUME NEW k \in Delays
        PROVE  Times(tickWaiters'[k], d)
               = Once(k \in 1 .. MaxDelay - 1 /\ state[d] = "Ticks" /\ resumeAt[d] = k + 1)
    <3>1. CASE k \in 1 .. MaxDelay - 1
      <4>1. k + 1 \in Delays /\ tickWaiters'[k] = tickWaiters[k + 1]
        BY <1>2, <3>1, EventsAreNoStates DEF Delays
      <4>2. Times(tickWaiters[k + 1], d) = Once(state[d] = "Ticks" /\ resumeAt[d] = k + 1)
        BY <2>1, <4>1 DEF Placed
      <4>. QED BY <3>1, <4>1, <4>2 DEF Once
    <3>2. CASE k \notin 1 .. MaxDelay - 1
      <4>1. tickWaiters'[k] = <<>>
        BY <1>2, <3>2
      <4>2. Times(tickWaiters'[k], d) = 0
        BY <4>1, TimesEmpty
      <4>. QED BY <3>2, <4>2 DEF Once
    <3>. QED BY <3>1, <3>2
  <2>5. Times(ready, d) \in Nat
    BY TimesCounts DEF TypeOK
  <2>6. resumeAt[d] \in (0 .. MaxDelay) \union {-1} /\ MaxDelay \in Nat \ {0}
    BY EventsAreNoStates DEF TypeOK, Delays, Past
  <2>7. CASE state[d] = "Frame" \/ (state[d] = "Ticks" /\ resumeAt[d] \in {0, 1})
    <3>1. state'[d] = "Ready"
      BY <1>9, <2>2, <2>7 DEF Once
    <3>2. Times(ready, d) = 0
      BY <2>1, <2>7 DEF Placed, Once
    <3>3. Times(ready', d) = 1
      BY <1>9, <2>2, <2>7, <3>2 DEF Once
    <3>4. \A k \in Delays : Times(tickWaiters'[k], d) = 0
      BY <2>4, <2>7 DEF Once
    <3>5. \A e \in Events : Times(eventWaiters'[e], d) = 0 /\ e # "Ready"
      BY <1>2, <2>1, <2>7, EventsAreNoStates DEF Placed, Once
    <3>. QED BY <3>1, <3>3, <3>4, <3>5 DEF Placed, Once
  <2>8. CASE ~(state[d] = "Frame" \/ (state[d] = "Ticks" /\ resumeAt[d] \in {0, 1}))
    <3>1. Times(v, d) = 0
      BY <2>2, <2>8 DEF Once
    <3>2. state'[d] = state[d] /\ Times(ready', d) = Times(ready, d)
      BY <1>9, <2>5, <3>1
    <3>3. state[d] = "Ticks" => resumeAt[d] \in 2 .. MaxDelay
      BY <2>1, <2>6, <2>8 DEF Placed, Past
    <3>4. state'[d] = "Ticks" => resumeAt'[d] # Past
      BY <2>3, <2>6, <3>2, <3>3 DEF Past
    <3>5. ASSUME NEW k \in Delays
          PROVE  Times(tickWaiters'[k], d) = Once(state'[d] = "Ticks" /\ resumeAt'[d] = k)
      <4>1. k \in Int
        BY EventsAreNoStates
      <4>2. CASE state[d] = "Ticks"
        <5>1. resumeAt'[d] = resumeAt[d] - 1
          BY <2>3, <3>3, <4>2 DEF Past
        <5>2. k \in 1 .. MaxDelay - 1 /\ resumeAt[d] = k + 1 <=> resumeAt'[d] = k
          BY <2>6, <3>3, <4>1, <4>2, <5>1
        <5>. QED BY <2>4, <3>2, <4>2, <5>2 DEF Once
      <4>3. CASE state[d] # "Ticks"
        BY <2>4, <3>2, <4>3 DEF Once
      <4>. QED BY <4>2, <4>3
    <3>. QED BY <1>2, <2>1, <3>2, <3>4, <3>5 DEF Placed
  <2>. QED BY <2>7, <2>8
<1>14. OnePlace'
  BY <1>13, Zenon DEF OnePlace, Placed
<1>. QED BY <1>12, <1>14

\* The head of the queue leaves it; it is ready or was cancelled.
LEMMA PopPlaces ==
    ASSUME TypeOK, OnePlace, NEW c \in Coros, Pop(c), ready' = Rest
    PROVE  /\ ready' \in Seq(Coros) /\ processed' \in 0 .. MaxPerTick
           /\ \A d \in Coros : Times(ready, d) = Once(d = c) + Times(ready', d)
           /\ Times(ready', c) = 0
           /\ Listed(c) => state[c] = "Ready"
           /\ ~Listed(c) => state[c] = "gone"
<1>1. PICK q \in Seq(Coros) : q = ready
  BY DEF TypeOK
<1>2. q # <<>> /\ c = Head(q) /\ ready' = Tail(q)
  BY <1>1 DEF Pop, Rest
<1>3. ready' \in Seq(Coros)
  BY <1>2, HeadTailProperties
<1>4. processed' \in 0 .. MaxPerTick
  <2>1. MaxPerTick \in Nat /\ processed \in 0 .. MaxPerTick
    BY CoroutinesAssumption DEF TypeOK
  <2>2. processed < MaxPerTick /\ processed' = processed + 1
    BY DEF Pop, MayRun
  <2>. QED BY <2>1, <2>2
<1>5. ASSUME NEW d \in Coros PROVE Times(ready, d) = Once(d = c) + Times(ready', d)
  <2>1. Times(q, d) = Once(Head(q) = d) + Times(Tail(q), d)
    BY <1>2, TimesHead
  <2>. QED BY <1>1, <1>2, <2>1 DEF Once
<1>6. Times(ready', c) = 0 /\ (state[c] = "Ready" \/ state[c] = "gone")
  <2>1. Placed(c)
    BY PlacedAll
  <2>2. Times(ready', c) \in Nat
    BY <1>3, TimesCounts
  <2>3. Times(ready, c) = 1 + Times(ready', c)
    BY <1>5 DEF Once
  <2>. QED BY <2>1, <2>2, <2>3 DEF Placed, Once
<1>7. /\ Listed(c) => state[c] = "Ready"
      /\ ~Listed(c) => state[c] = "gone"
  BY <1>6 DEF Listed, Unlisted
<1>. QED BY <1>3, <1>4, <1>5, <1>6, <1>7

\* The turn of a coroutine that was cancelled: it is nowhere any more.
LEMMA GonePlaces ==
    ASSUME TypeOK, OnePlace, NEW c \in Coros, RunGone(c)
    PROVE  TypeOK' /\ OnePlace'
<1>1. /\ Pop(c) /\ ~Listed(c) /\ ready' = Rest
      /\ UNCHANGED <<state, resumeAt, tickWaiters, eventWaiters, phase>>
  BY DEF RunGone
<1>2. /\ ready' \in Seq(Coros) /\ processed' \in 0 .. MaxPerTick
      /\ \A d \in Coros : Times(ready, d) = Once(d = c) + Times(ready', d)
      /\ Times(ready', c) = 0 /\ state[c] = "gone"
  BY <1>1, PopPlaces
<1>3. TypeOK'
  BY <1>1, <1>2 DEF TypeOK
<1>4. ASSUME NEW d \in Coros PROVE Placed(d)'
  <2>1. Placed(d)
    BY PlacedAll
  <2>2. CASE d = c
    BY <1>1, <1>2, <2>1, <2>2 DEF Placed, Once
  <2>3. CASE d # c
    <3>1. Times(ready', d) = Times(ready, d)
      <4>1. Times(ready', d) \in Nat
        BY <1>2, TimesCounts
      <4>. QED BY <1>2, <2>3, <4>1 DEF Once
    <3>. QED BY <1>1, <2>1, <3>1 DEF Placed
  <2>. QED BY <2>2, <2>3
<1>5. OnePlace'
  BY <1>4, Zenon DEF OnePlace, Placed
<1>. QED BY <1>3, <1>5

\* The turn of a coroutine that ends, blocks the loop, or waits, but for no tick: of the
\* lists, only that of the event it waits for has it once more.
LEMMA TurnPlaces ==
    ASSUME TypeOK, OnePlace, NEW c \in Coros, NEW s \in States \ {"Ready", "Ticks"},
           Pop(c), Listed(c), Become(c, s), ready' = Rest,
           UNCHANGED <<resumeAt, tickWaiters>>, phase' \in {"idle", "running", "blocked"},
           eventWaiters' \in [Events -> Seq(Coros)],
           \A e \in Events, d \in Coros :
              Times(eventWaiters'[e], d) = Times(eventWaiters[e], d) + Once(d = c /\ e = s)
    PROVE  TypeOK' /\ OnePlace'
<1>1. /\ ready' \in Seq(Coros) /\ processed' \in 0 .. MaxPerTick
      /\ \A d \in Coros : Times(ready, d) = Once(d = c) + Times(ready', d)
      /\ Times(ready', c) = 0 /\ state[c] = "Ready"
  BY PopPlaces
<1>2. /\ state' \in [Coros -> States]
      /\ \A d \in Coros : state'[d] = IF d = c THEN s ELSE state[d]
  BY DEF Become, TypeOK
<1>3. TypeOK'
  BY <1>1, <1>2 DEF TypeOK
<1>4. ASSUME NEW d \in Coros PROVE Placed(d)'
  <2>1. Placed(d)
    BY PlacedAll
  <2>2. CASE d = c
    <3>1. state'[d] = s /\ state[d] = "Ready" /\ Times(ready', d) = 0
      BY <1>1, <1>2, <2>2
    <3>2. \A k \in Delays : Times(tickWaiters'[k], d) = 0
      BY <2>1, <3>1 DEF Placed, Once
    <3>3. ASSUME NEW e \in Events PROVE Times(eventWaiters'[e], d) = Once(s = e)
      <4>1. Times(eventWaiters[e], d) = 0
        BY <2>1, <3>1, EventsAreNoStates DEF Placed, Once
      <4>. QED BY <2>2, <4>1 DEF Once
    <3>. QED BY <3>1, <3>2, <3>3 DEF Placed, Once
  <2>3. CASE d # c
    <3>1. Times(ready', d) = Times(ready, d)
      <4>1. Times(ready', d) \in Nat
        BY <1>1, TimesCounts
      <4>. QED BY <1>1, <2>3, <4>1 DEF Once
    <3>2. ASSUME NEW e \in Events PROVE Times(eventWaiters'[e], d) = Times(eventWaiters[e], d)
      <4>1. eventWaiters[e] \in Seq(Coros)
        BY DEF TypeOK
      <4>2. Times(eventWaiters[e], d) \in Nat
        BY <4>1, TimesCounts
      <4>. QED BY <2>3, <4>2 DEF Once
    <3>3. state'[d] = state[d]
      BY <1>2, <2>3
    <3>. QED BY <2>1, <3>1, <3>2, <3>3 DEF Placed
  <2>. QED BY <2>2, <2>3
<1>5. OnePlace'
  BY <1>4, Zenon DEF OnePlace, Placed
<1>. QED BY <1>3, <1>5

\* The lists of events that stay as they are.
LEMMA SameWaiters ==
    ASSUME TypeOK, UNCHANGED eventWaiters, NEW s, s \notin Events
    PROVE  /\ eventWaiters' \in [Events -> Seq(Coros)]
           /\ \A e \in Events, d \in Coros, c \in Coros :
                Times(eventWaiters'[e], d) = Times(eventWaiters[e], d) + Once(d = c /\ e = s)
<1>1. \A e \in Events : eventWaiters[e] \in Seq(Coros)
  BY DEF TypeOK
<1>2. ASSUME NEW e \in Events, NEW d \in Coros, NEW c \in Coros
      PROVE  Times(eventWaiters'[e], d) = Times(eventWaiters[e], d) + Once(d = c /\ e = s)
  <2>1. Times(eventWaiters[e], d) \in Nat
    BY <1>1, TimesCounts
  <2>. QED BY <2>1 DEF Once
<1>. QED BY <1>2 DEF TypeOK

\* The turn of a coroutine that waits for a tick.
LEMMA TicksPlaces ==
    ASSUME TypeOK, OnePlace, NEW c \in Coros, NEW k \in Delays, RunYieldsTicks(c, k)
    PROVE  TypeOK' /\ OnePlace'
<1>1. /\ Pop(c) /\ Listed(c) /\ WaitTicks(c, k) /\ ready' = Rest
      /\ UNCHANGED <<eventWaiters, phase>>
  BY DEF RunYieldsTicks
<1>2. /\ ready' \in Seq(Coros) /\ processed' \in 0 .. MaxPerTick
      /\ \A d \in Coros : Times(ready, d) = Once(d = c) + Times(ready', d)
      /\ Times(ready', c) = 0 /\ state[c] = "Ready"
  BY <1>1, PopPlaces
<1>3. /\ state' \in [Coros -> States] /\ resumeAt' \in [Coros -> Delays \union {Past}]
      /\ tickWaiters' \in [Delays -> Seq(Coros)]
      /\ \A d \in Coros : state'[d] = (IF d = c THEN "Ticks" ELSE state[d])
      /\ \A d \in Coros : state'[d] = "Ticks" => resumeAt'[d] # Past
      /\ \A d \in Coros, l \in Delays :
            Times(tickWaiters'[l], d) = Once(state'[d] = "Ticks" /\ resumeAt'[d] = l)
  BY <1>1, <1>2, WaitPlaces
<1>4. TypeOK'
  BY <1>1, <1>2, <1>3 DEF TypeOK
<1>5. ASSUME NEW d \in Coros PROVE Placed(d)'
  <2>1. Placed(d)
    BY PlacedAll
  <2>2. CASE d = c
    BY <1>1, <1>2, <1>3, <2>1, <2>2, EventsAreNoStates DEF Placed, Once
  <2>3. CASE d # c
    <3>1. Times(ready', d) = Times(ready, d)
      <4>1. Times(ready', d) \in Nat
        BY <1>2, TimesCounts
      <4>. QED BY <1>2, <2>3, <4>1 DEF Once
    <3>. QED BY <1>1, <1>3, <2>1, <2>3, <3>1 DEF Placed
  <2>. QED BY <2>2, <2>3
<1>6. OnePlace'
  BY <1>5, Zenon DEF OnePlace, Placed
<1>. QED BY <1>4, <1>6

\* The turn of a coroutine that waits for an event.
LEMMA EventPlaces ==
    ASSUME TypeOK, OnePlace, NEW c \in Coros, NEW e \in Events, RunYieldsEvent(c, e)
    PROVE  TypeOK' /\ OnePlace'
<1>1. /\ Pop(c) /\ Listed(c) /\ Become(c, e) /\ ready' = Rest
      /\ eventWaiters' = [eventWaiters EXCEPT ![e] = Append(eventWaiters[e], c)]
      /\ UNCHANGED <<resumeAt, tickWaiters>> /\ phase' \in {"idle", "running", "blocked"}
  BY DEF RunYieldsEvent, TypeOK
<1>2. \A f \in Events : eventWaiters[f] \in Seq(Coros)
  BY DEF TypeOK
<1>3. Append(eventWaiters[e], c) \in Seq(Coros)
  BY <1>2, AppendProperties
<1>4. eventWaiters' \in [Events -> Seq(Coros)]
  BY <1>1, <1>3 DEF TypeOK
<1>5. ASSUME NEW f \in Events, NEW d \in Coros
      PROVE  Times(eventWaiters'[f], d) = Times(eventWaiters[f], d) + Once(d = c /\ f = e)
  <2>1. Times(eventWaiters[f], d) \in Nat
    BY <1>2, TimesCounts
  <2>2. CASE f = e
    <3>1. eventWaiters'[f] = Append(eventWaiters[e], c)
      BY <1>1, <2>2 DEF TypeOK
    <3>2. Times(Append(eventWaiters[e], c), d) = Times(eventWaiters[e], d) + Once(c = d)
      BY <1>2, TimesAppend
    <3>. QED BY <2>2, <3>1, <3>2 DEF Once
  <2>3. CASE f # e
    <3>1. eventWaiters'[f] = eventWaiters[f]
      BY <1>1, <2>3 DEF TypeOK
    <3>. QED BY <2>1, <2>3, <3>1 DEF Once
  <2>. QED BY <2>2, <2>3
<1>6. e \in States \ {"Ready", "Ticks"}
  BY EventsAreNoStates
<1>. QED BY <1>1, <1>4, <1>5, <1>6, TurnPlaces

\* Every turn of a coroutine.
LEMMA RunPlaces ==
    ASSUME TypeOK, OnePlace, NEW c \in Coros, Run(c)
    PROVE  TypeOK' /\ OnePlace'
<1>1. ASSUME NEW s \in {"gone", "Frame", "Running"}, Pop(c), Listed(c), Become(c, s),
             ready' = Rest, UNCHANGED <<resumeAt, tickWaiters, eventWaiters>>,
             phase' \in {"idle", "running", "blocked"}
      PROVE  TypeOK' /\ OnePlace'
  <2>1. s \in States \ {"Ready", "Ticks"} /\ s \notin Events
    BY EventsAreNoStates
  <2>2. eventWaiters' \in [Events -> Seq(Coros)] /\ \A e \in Events, d \in Coros :
            Times(eventWaiters'[e], d) = Times(eventWaiters[e], d) + Once(d = c /\ e = s)
    BY <1>1, <2>1, SameWaiters
  <2>. QED BY <1>1, <2>1, <2>2, TurnPlaces
<1>2. phase \in {"idle", "running", "blocked"}
  BY DEF TypeOK
<1>3. CASE RunGone(c)
  BY <1>3, GonePlaces
<1>4. CASE RunEnds(c)
  BY <1>1, <1>2, <1>4 DEF RunEnds
<1>5. CASE RunYieldsFrame(c)
  BY <1>1, <1>2, <1>5 DEF RunYieldsFrame
<1>6. CASE RunSchedules(c)
  BY <1>1, <1>6 DEF RunSchedules
<1>7. ASSUME NEW k \in Delays, RunYieldsTicks(c, k) PROVE TypeOK' /\ OnePlace'
  BY <1>7, TicksPlaces
<1>8. ASSUME NEW e \in Events, RunYieldsEvent(c, e) PROVE TypeOK' /\ OnePlace'
  BY <1>8, EventPlaces
<1>. QED BY <1>3, <1>4, <1>5, <1>6, <1>7, <1>8 DEF Run

\* Steps that move nobody.
LEMMA StillPlaces ==
    ASSUME TypeOK, OnePlace, EndTick \/ UNCHANGED vars
    PROVE  TypeOK' /\ OnePlace'
<1>1. /\ UNCHANGED <<state, resumeAt, ready, tickWaiters, eventWaiters>>
      /\ phase' \in {"idle", "running", "blocked"} /\ processed' \in 0 .. MaxPerTick
  <2>1. 0 \in 0 .. MaxPerTick
    BY CoroutinesAssumption
  <2>. QED BY <2>1 DEF EndTick, vars, TypeOK
<1>2. TypeOK'
  BY <1>1 DEF TypeOK
<1>3. ASSUME NEW d \in Coros PROVE Placed(d)'
  <2>1. Placed(d)
    BY PlacedAll
  <2>. QED BY <1>1, <2>1 DEF Placed
<1>4. OnePlace'
  BY <1>3, Zenon DEF OnePlace, Placed
<1>. QED BY <1>2, <1>4

\* Before the first call there is no coroutine in any list.
LEMMA NobodyPlaced ==
    ASSUME Init
    PROVE  TypeOK /\ OnePlace
<1>1. <<>> \in Seq(Coros) /\ 0 \in 0 .. MaxPerTick
  BY CoroutinesAssumption
<1>2. TypeOK
  BY <1>1 DEF Init, TypeOK, States, Unlisted
<1>3. ASSUME NEW d \in Coros PROVE Placed(d)
  <2>1. /\ state[d] = "unborn" /\ Times(ready, d) = 0
        /\ \A k \in Delays : Times(tickWaiters[k], d) = 0
        /\ \A e \in Events : Times(eventWaiters[e], d) = 0
    BY TimesEmpty DEF Init
  <2>. QED BY <2>1, EventsAreNoStates DEF Placed, Once
<1>. QED BY <1>2, <1>3, PlacedAll

\* Every step of the scheduler keeps each coroutine in its place.
LEMMA PlacesStep ==
    ASSUME TypeOK, OnePlace, [Next]_vars
    PROVE  TypeOK' /\ OnePlace'
<1>1. CASE EndTick \/ UNCHANGED vars
  BY <1>1, StillPlaces
<1>2. CASE StartTick
  BY <1>2, StartPlaces
<1>3. ASSUME NEW c \in Coros, Run(c) PROVE TypeOK' /\ OnePlace'
  BY <1>3, RunPlaces
<1>4. ASSUME NEW c \in Coros, Spawn(c) PROVE TypeOK' /\ OnePlace'
  BY <1>4, SpawnPlaces
<1>5. ASSUME NEW c \in Coros, Cancel(c) PROVE TypeOK' /\ OnePlace'
  BY <1>5, CancelPlaces
<1>6. ASSUME NEW c \in Coros, NEW d \in Delays, SpawnScheduled(c, d) PROVE TypeOK' /\ OnePlace'
  BY <1>6, ScheduledPlaces
<1>7. ASSUME NEW e \in Events, NotifyEvent(e) PROVE TypeOK' /\ OnePlace'
  BY <1>7, NotifyPlaces
<1>. QED BY <1>1, <1>2, <1>3, <1>4, <1>5, <1>6, <1>7 DEF Next, Tick, CallsBetween

\* Whatever scripts ask for and callers do, in whatever order, a coroutine that has not
\* ended is in the one list its state and resume_at name, once, and in no other: no
\* wake-up is lost and none is served twice.
THEOREM EachInOnePlace == Spec => [](TypeOK /\ OnePlace)
<1>1. Init => TypeOK /\ OnePlace
  BY NobodyPlaced
<1>2. TypeOK /\ OnePlace /\ [Next]_vars => TypeOK' /\ OnePlace'
  BY PlacesStep
<1>. HIDE DEF TypeOK, OnePlace, Init, Next
<1>. QED BY <1>1, <1>2, PTL DEF Spec

-----------------------------------------------------------------------------
(***************************************************************************)
(* Behaviour trees.  The nodes that run are a path of the tree, so that    *)
(* what is kept at other places of it is as it was; a node's memory is     *)
(* settled whenever it is not one of them.                                 *)
(***************************************************************************)

CallOf == [at : Paths, child : Nat \ {0}, worst : Status]

\* The state of one entity, against the one tree t that has written it; run holds
\* the nodes under way.
Settles(m, l, t, run) ==
    /\ DOMAIN l \subseteq DOMAIN t
    /\ \A p \in DOMAIN l : l[p].kind = t[p].kind
    /\ \A p \in DOMAIN l \ run : l[p].kind \in {"sequence", "selector"} =>
          /\ (p \in DOMAIN m) <=> l[p].status = "running"
          /\ p \in DOMAIN m =>
                /\ Append(p, <<l[p].kind, m[p].child>>) \in DOMAIN l
                /\ l[Append(p, <<l[p].kind, m[p].child>>)].status = "running"

Needed(n) == IF n = 0 THEN 1 ELSE n

\* The repetitions a Repeat remembers are its child's successes.
Counts(m, w, t) ==
    /\ \A p \in DOMAIN m : t[p].kind = "repeat" =>
          p \in DOMAIN w /\ w[p].count = m[p].count /\ m[p].count >= 1
    /\ \A p \in DOMAIN w :
          /\ t[p].kind = "repeat" /\ w[p].wanted = t[p].arg
          /\ w[p].count \in Nat /\ w[p].count <= Needed(t[p].arg)
          /\ w[p].reported \in {-1, Needed(t[p].arg)}
          /\ p \notin DOMAIN m => w[p].count = 0

KeptOf(e) ==
    /\ writers[e] = {} => DOMAIN memory[e] = {} /\ DOMAIN latest[e] = {} /\ DOMAIN wins[e] = {}
    /\ OneWriter(e) => \A t \in writers[e] :
          Settles(memory[e], latest[e], t, BeingRun(e)) /\ Counts(memory[e], wins[e], t)

TreesTyped ==
    /\ BehaviorTreesTypeOK
    /\ memory = [e \in Bodies |-> memory[e]]
    /\ latest = [e \in Bodies |-> latest[e]]
    /\ wins = [e \in Bodies |-> wins[e]]
    /\ writers \in [Bodies -> SUBSET Trees]

\* The node of a frame, and what holds of it while its child runs.
NodeAt(k) == tree[walker][calls[k].at]
Unfinished(k) == NodeAt(k).kind = "repeat" => ~Exhausted(Mine, calls[k].at, NodeAt(k).arg)

OnPath(k) == calls[k].at \in DOMAIN tree[walker] /\ Len(calls[k].at) = k - 1
Leads(k) ==
    /\ calls[k + 1].at = Append(calls[k].at, Label(NodeAt(k), calls[k].child))
    /\ Unfinished(k)

Chained ==
    walker # NoMind =>
      /\ tree[walker] \in writers[Body]
      /\ \A k \in 1 .. Len(calls) : OnPath(k)
      /\ \A k \in 1 .. Len(calls) - 1 : Leads(k)

ChildOfTop == Append(Here, Label(This, Top.child))
CameFrom ==
    came # NoStatus =>
      /\ walker # NoMind
      /\ Unfinished(Len(calls))
      /\ OneWriter(Body) => ChildOfTop \in DOMAIN latest[Body] /\ latest[Body][ChildOfTop].status = came

TreesInv == TreesTyped /\ Chained /\ CameFrom /\ \A e \in Bodies : KeptOf(e)

-----------------------------------------------------------------------------

\* Two memories differ at one path only.
SameBut(m, n, h) ==
    \A q : q # h => /\ (q \in DOMAIN m) <=> (q \in DOMAIN n)
                    /\ q \in DOMAIN m => n[q] = m[q]

LEMMA KeepAndWipe ==
    ASSUME NEW m, NEW h, NEW s
    PROVE  /\ SameBut(m, Keep(m, h, s), h) /\ h \in DOMAIN Keep(m, h, s) /\ Keep(m, h, s)[h] = s
           /\ SameBut(m, Wipe(m, h), h) /\ h \notin DOMAIN Wipe(m, h)
           /\ SameBut(m, m, h)
BY DEF SameBut, Keep, Wipe

\* The step to a child of a sequence or a selector.
LEMMA StepIsLabel ==
    ASSUME NEW k \in {"sequence", "selector"}, NEW i \in Nat
    PROVE  <<k, i>> \in Links
BY DEF Links, Composites

\* A node that returns is settled if its memory says so; the others stay so.
LEMMA SettlesReturn ==
    ASSUME NEW m, NEW l, NEW t, NEW run, NEW ran, Settles(m, l, t, run),
           NEW h \in Paths, h \in DOMAIN t, DOMAIN t \subseteq Paths, run \ {h} \subseteq ran,
           NEW s, NEW n, SameBut(m, n, h),
           \A p \in DOMAIN n : n[p].child \in Nat,
           \A p \in Paths, x \in Links : h = Append(p, x) => p \in run \ {h},
           t[h].kind \in {"sequence", "selector"} =>
             /\ (h \in DOMAIN n) <=> s = "running"
             /\ h \in DOMAIN n =>
                  /\ Append(h, <<t[h].kind, n[h].child>>) \in DOMAIN l
                  /\ l[Append(h, <<t[h].kind, n[h].child>>)].status = "running"
    PROVE  Settles(n, Keep(l, h, [kind |-> t[h].kind, status |-> s]), t, ran)
<1>. DEFINE r == [kind |-> t[h].kind, status |-> s]
<1>1. PICK k : k = Keep(l, h, r)
  OBVIOUS
<1>2. /\ DOMAIN k = DOMAIN l \cup {h} /\ k[h] = r
      /\ \A q \in DOMAIN l : q # h => k[q] = l[q]
  BY <1>1 DEF Keep
<1>3. r.kind = t[h].kind /\ r.status = s
  OBVIOUS
<1>. HIDE DEF r
<1>4. DOMAIN k \subseteq DOMAIN t
  BY <1>2 DEF Settles
<1>5. ASSUME NEW p \in DOMAIN k PROVE k[p].kind = t[p].kind
  BY <1>2, <1>3 DEF Settles
<1>6. ASSUME NEW p \in DOMAIN k \ ran, k[p].kind \in {"sequence", "selector"}
      PROVE  /\ (p \in DOMAIN n) <=> k[p].status = "running"
             /\ p \in DOMAIN n =>
                  /\ Append(p, <<k[p].kind, n[p].child>>) \in DOMAIN k
                  /\ k[Append(p, <<k[p].kind, n[p].child>>)].status = "running"
  <2>1. CASE p = h
    <3>1. ASSUME h \in DOMAIN n PROVE Append(h, <<t[h].kind, n[h].child>>) # h
      <4>1. PICK x : x = <<t[h].kind, n[h].child>>
        OBVIOUS
      <4>2. x \in Links
        <5>1. t[h].kind \in {"sequence", "selector"}
          BY <1>2, <1>3, <1>6, <2>1
        <5>. QED BY <3>1, <4>1, <5>1, StepIsLabel
      <4>3. Len(Append(h, x)) = Len(h) + 1 /\ Len(h) \in Nat
        BY <4>2, AppendProperties, LenProperties DEF Paths, Links
      <4>. QED BY <4>1, <4>3
    <3>. QED BY <1>2, <1>3, <1>6, <2>1, <3>1
  <2>2. CASE p # h
    <3>1. p \in DOMAIN l \ run /\ k[p] = l[p]
      BY <1>2, <1>6, <2>2
    <3>2. /\ (p \in DOMAIN m) <=> l[p].status = "running"
          /\ p \in DOMAIN m =>
                /\ Append(p, <<l[p].kind, m[p].child>>) \in DOMAIN l
                /\ l[Append(p, <<l[p].kind, m[p].child>>)].status = "running"
      BY <1>6, <3>1 DEF Settles
    <3>3. /\ (p \in DOMAIN m) <=> (p \in DOMAIN n)
          /\ p \in DOMAIN m => n[p] = m[p]
      BY <2>2 DEF SameBut
    <3>4. ASSUME p \in DOMAIN n
          PROVE  /\ Append(p, <<k[p].kind, n[p].child>>) \in DOMAIN k
                 /\ k[Append(p, <<k[p].kind, n[p].child>>)].status = "running"
      <4>1. PICK x : x = <<k[p].kind, n[p].child>>
        OBVIOUS
      <4>2. x \in Links
        BY <1>6, <3>4, <4>1, StepIsLabel
      <4>3. p \in Paths
        BY <3>1 DEF Settles
      <4>4. Append(p, x) # h
        BY <3>1, <4>2, <4>3
      <4>5. Append(p, x) \in DOMAIN l /\ l[Append(p, x)].status = "running"
        BY <3>1, <3>2, <3>3, <3>4, <4>1
      <4>. QED BY <1>2, <4>1, <4>4, <4>5
    <3>. QED BY <3>1, <3>2, <3>3, <3>4
  <2>. QED BY <2>1, <2>2
<1>7. Settles(n, k, t, ran)
  BY <1>4, <1>5, <1>6 DEF Settles
<1>. QED BY <1>1, <1>7 DEF r

\* While a node is under way its memory matters to itself only.
LEMMA SettlesUnderWay ==
    ASSUME NEW m, NEW l, NEW t, NEW run, NEW ran, Settles(m, l, t, run), run \subseteq ran,
           NEW h, NEW n, SameBut(m, n, h), h \in ran
    PROVE  Settles(n, l, t, ran)
<1>1. ASSUME NEW p \in DOMAIN l \ ran
      PROVE  /\ p \in DOMAIN l \ run
             /\ (p \in DOMAIN m) <=> (p \in DOMAIN n)
             /\ p \in DOMAIN m => n[p] = m[p]
  BY DEF SameBut
<1>. QED BY <1>1 DEF Settles

\* What a Repeat that returns s may do to its memory, c having come from its child.
RepeatFits(m, n, h, max, c, s) ==
    \/ s = "success" /\ c = NoStatus /\ Exhausted(m, h, max) /\ h \notin DOMAIN n
    \/ /\ s = "running" /\ c = "success" /\ ~Exhausted(m, h, max)
       /\ h \in DOMAIN n /\ n[h].count = Recall(m, h).count + 1
    \/ s = "failure" /\ h \notin DOMAIN n
    \/ s = "running" /\ c # "success" /\ n = m

CountFor(w, h, c, s, max) ==
    LET before == IF h \in DOMAIN w THEN w[h].count ELSE 0
        won    == IF c = "success" THEN 1 ELSE 0
    IN  [count    |-> IF s = "running" THEN before + won ELSE 0,
         reported |-> IF s = "success" THEN before ELSE -1,
         wanted   |-> max]

LEMMA CountsReturn ==
    ASSUME NEW m, NEW w, NEW t, Counts(m, w, t), NEW h, NEW c, NEW s, NEW n, SameBut(m, n, h),
           \A p \in DOMAIN m : m[p].count \in Nat,
           t[h].kind = "repeat", t[h].arg \in Nat, RepeatFits(m, n, h, t[h].arg, c, s)
    PROVE  Counts(n, Keep(w, h, CountFor(w, h, c, s, t[h].arg)), t)
<1>. DEFINE before == IF h \in DOMAIN w THEN w[h].count ELSE 0
            won    == IF c = "success" THEN 1 ELSE 0
            r == CountFor(w, h, c, s, t[h].arg)
<1>1. PICK k : k = Keep(w, h, r)
  OBVIOUS
<1>2. /\ DOMAIN k = DOMAIN w \cup {h} /\ k[h] = r
      /\ \A q \in DOMAIN w : q # h => k[q] = w[q]
  BY <1>1 DEF Keep
<1>3. /\ r.count = IF s = "running" THEN before + won ELSE 0
      /\ r.reported = IF s = "success" THEN before ELSE -1
      /\ r.wanted = t[h].arg
  BY DEF CountFor
<1>. HIDE DEF r
<1>4. /\ before \in Nat /\ before <= Needed(t[h].arg)
      /\ h \in DOMAIN m => before = m[h].count /\ before >= 1
      /\ h \notin DOMAIN m => before = 0
  BY DEF Counts, Needed
<1>. HIDE DEF before
<1>5. Recall(m, h).count = before
  BY <1>4 DEF Recall, Blank
<1>6. Exhausted(m, h, t[h].arg) <=> before >= 1 /\ before >= t[h].arg
  BY <1>4 DEF Exhausted
<1>7. /\ r.count \in Nat /\ r.count <= Needed(t[h].arg) /\ r.reported \in {-1, Needed(t[h].arg)}
      /\ h \in DOMAIN n => r.count = n[h].count /\ r.count >= 1
      /\ h \notin DOMAIN n => r.count = 0
  <2>1. CASE s = "success" /\ c = NoStatus /\ Exhausted(m, h, t[h].arg) /\ h \notin DOMAIN n
    BY <1>3, <1>4, <1>6, <2>1 DEF Needed
  <2>2. CASE /\ s = "running" /\ c = "success" /\ ~Exhausted(m, h, t[h].arg)
             /\ h \in DOMAIN n /\ n[h].count = Recall(m, h).count + 1
    <3>1. r.count = before + 1 /\ r.reported = -1
      BY <1>3, <2>2
    <3>2. before + 1 <= Needed(t[h].arg)
      BY <1>4, <1>6, <2>2 DEF Needed
    <3>. QED BY <1>4, <1>5, <2>2, <3>1, <3>2
  <2>3. CASE s = "failure" /\ h \notin DOMAIN n
    BY <1>3, <1>4, <2>3 DEF Needed
  <2>4. CASE s = "running" /\ c # "success" /\ n = m
    BY <1>3, <1>4, <2>4
  <2>. QED BY <2>1, <2>2, <2>3, <2>4 DEF RepeatFits
<1>8. ASSUME NEW p \in DOMAIN n, t[p].kind = "repeat"
      PROVE  p \in DOMAIN k /\ k[p].count = n[p].count /\ n[p].count >= 1
  <2>1. CASE p = h
    BY <1>2, <1>7, <2>1
  <2>2. CASE p # h
    BY <1>2, <1>8, <2>2 DEF SameBut, Counts
  <2>. QED BY <2>1, <2>2
<1>9. ASSUME NEW p \in DOMAIN k
      PROVE  /\ t[p].kind = "repeat" /\ k[p].wanted = t[p].arg
             /\ k[p].count \in Nat /\ k[p].count <= Needed(t[p].arg)
             /\ k[p].reported \in {-1, Needed(t[p].arg)}
             /\ p \notin DOMAIN n => k[p].count = 0
  <2>1. CASE p = h
    BY <1>2, <1>3, <1>7, <2>1
  <2>2. CASE p # h
    <3>1. p \in DOMAIN w /\ k[p] = w[p]
      BY <1>2, <2>2
    <3>2. p \in DOMAIN m <=> p \in DOMAIN n
      BY <2>2 DEF SameBut
    <3>. QED BY <3>1, <3>2 DEF Counts
  <2>. QED BY <2>1, <2>2
<1>10. Counts(n, k, t)
  BY <1>8, <1>9 DEF Counts
<1>. QED BY <1>1, <1>10 DEF r

\* The memory of another kind of node does not count.
LEMMA CountsOther ==
    ASSUME NEW m, NEW w, NEW t, Counts(m, w, t), NEW h, NEW n, SameBut(m, n, h),
           t[h].kind # "repeat"
    PROVE  Counts(n, w, t)
<1>1. ASSUME NEW p \in DOMAIN n, t[p].kind = "repeat"
      PROVE  p \in DOMAIN w /\ w[p].count = n[p].count /\ n[p].count >= 1
  BY <1>1 DEF SameBut, Counts
<1>2. ASSUME NEW p \in DOMAIN w
      PROVE  p \notin DOMAIN n => w[p].count = 0
  BY DEF SameBut, Counts
<1>. QED BY <1>1, <1>2 DEF Counts

\* What there is below the top of a list stays when it is taken off.
LEMMA FrontOf ==
    ASSUME NEW S, NEW s \in Seq(S), s # <<>>
    PROVE  /\ Front(s) \in Seq(S) /\ Len(Front(s)) = Len(s) - 1 /\ Len(s) \in Nat \ {0}
           /\ \A i \in 1 .. Len(s) - 1 : Front(s)[i] = s[i]
<1>1. PICK n \in Nat : n = Len(s)
  BY LenProperties
<1>2. n # 0
  BY <1>1, EmptySeq
<1>3. \A i \in 1 .. n - 1 : s[i] \in S
  BY <1>1, <1>2, ElementOfSeq
<1>4. n - 1 \in Int /\ 1 \in Int
  BY <1>2
<1>5. PICK f : f = SubSeq(s, 1, n - 1)
  OBVIOUS
<1>6. /\ f \in Seq(S) /\ Len(f) = IF 1 <= n - 1 THEN (n - 1) - 1 + 1 ELSE 0
      /\ \A i \in 1 .. (n - 1) - 1 + 1 : f[i] = s[1 + i - 1]
  BY <1>3, <1>4, <1>5, SubSeqProperties
<1>7. Len(f) = n - 1
  BY <1>2, <1>6
<1>8. ASSUME NEW i \in 1 .. n - 1 PROVE f[i] = s[i]
  <2>1. i \in 1 .. (n - 1) - 1 + 1 /\ 1 + i - 1 = i
    BY <1>2
  <2>2. f[i] = s[1 + i - 1]
    BY <1>6, <2>1
  <2>. QED BY <2>1, <2>2
<1>9. f = Front(s)
  BY <1>1, <1>5 DEF Front
<1>. QED BY <1>1, <1>2, <1>6, <1>7, <1>8, <1>9

\* A list whose top is changed and which grows by one.
LEMMA Deeper ==
    ASSUME NEW S, NEW s \in Seq(S), s # <<>>, NEW f \in S, NEW g \in S,
           NEW u, u = Append([s EXCEPT ![Len(s)] = f], g)
    PROVE  /\ u \in Seq(S) /\ Len(u) = Len(s) + 1 /\ u[Len(s) + 1] = g /\ u[Len(s)] = f
           /\ \A i \in 1 .. Len(s) - 1 : u[i] = s[i]
<1>1. PICK n \in Nat : n = Len(s)
  BY LenProperties
<1>2. n \in 1 .. n
  BY <1>1, EmptySeq
<1>3. PICK v : v = [s EXCEPT ![n] = f]
  OBVIOUS
<1>4. v \in Seq(S) /\ Len(v) = n /\ v[n] = f /\ \A i \in 1 .. n : i # n => v[i] = s[i]
  BY <1>1, <1>2, <1>3, ExceptSeq
<1>5. u = Append(v, g)
  BY <1>1, <1>3
<1>6. /\ u \in Seq(S) /\ Len(u) = n + 1 /\ u[n + 1] = g
      /\ \A i \in 1 .. n : u[i] = v[i]
  BY <1>4, <1>5, AppendProperties
<1>. QED BY <1>1, <1>2, <1>4, <1>6

LEMMA LabelIsStep ==
    ASSUME NEW n \in Node, NEW i \in Nat
    PROVE  Label(n, i) \in Links
<1>1. n.kind \in Composites \cup Wrappers \cup Leaves /\ n.name \in SubtreeNames
  BY DEF Node
<1>2. PICK l : l = IF n.kind \in Composites THEN n.kind ELSE IF n.kind = "subtree" THEN n.name
                                                      ELSE "child"
  OBVIOUS
<1>3. l \in Composites \cup {"child"} \cup SubtreeNames
  BY <1>1, <1>2
<1>4. Label(n, i) = <<l, i>>
  BY <1>2 DEF Label
<1>. QED BY <1>3, <1>4 DEF Links

\* What is known while a tree is walked.
LEMMA Walking ==
    ASSUME TreesInv, walker # NoMind
    PROVE  /\ walker \in Minds /\ Body \in Bodies /\ tree[walker] \in Trees
           /\ tree[walker] \in writers[Body]
           /\ IsTree(tree[walker]) /\ DOMAIN tree[walker] \subseteq Paths
           /\ calls \in Seq(CallOf) /\ calls # <<>> /\ Len(calls) \in Nat \ {0}
           /\ Top \in CallOf /\ Here \in DOMAIN tree[walker] /\ Here \in Paths /\ This \in Node
           /\ Len(Here) = Len(calls) - 1
<1>1. walker \in Minds /\ calls \in Seq(CallOf) /\ calls # <<>>
  BY DEF TreesInv, TreesTyped, BehaviorTreesTypeOK, CallOf
<1>2. Body \in Bodies
  BY <1>1, TreesAssumption DEF Body
<1>3. tree[walker] \in writers[Body]
  BY DEF TreesInv, Chained
<1>4. tree[walker] \in Trees
  BY <1>2, <1>3 DEF TreesInv, TreesTyped
<1>5. IsTree(tree[walker])
  BY <1>4, TreesAssumption
<1>6. Len(calls) \in Nat \ {0}
  BY <1>1, EmptySeq
<1>7. Top \in CallOf
  BY <1>1, <1>6, ElementOfSeq DEF Top
<1>8. OnPath(Len(calls))
  BY <1>6 DEF TreesInv, Chained
<1>9. Here \in DOMAIN tree[walker] /\ Len(Here) = Len(calls) - 1
  BY <1>8 DEF OnPath, Here, Top
<1>10. DOMAIN tree[walker] \subseteq Paths /\ This \in Node
  BY <1>5, <1>9 DEF IsTree, This
<1>. QED BY <1>1, <1>2, <1>3, <1>4, <1>5, <1>6, <1>7, <1>9, <1>10

\* The nodes above the top are others, each with its place on the path.
LEMMA Above ==
    ASSUME TreesInv, walker # NoMind, NEW k \in 1 .. Len(calls) - 1
    PROVE  /\ OnPath(k) /\ Leads(k) /\ calls[k].at # Here /\ calls[k] \in CallOf
           /\ calls[k].at \in Paths /\ NodeAt(k) \in Node
<1>1. Len(calls) \in Nat \ {0} /\ calls \in Seq(CallOf) /\ Len(Here) = Len(calls) - 1
  BY Walking
<1>2. k \in 1 .. Len(calls) /\ k # Len(calls)
  BY <1>1
<1>3. OnPath(k) /\ Leads(k)
  BY <1>2 DEF TreesInv, Chained
<1>4. calls[k].at # Here
  <2>1. Len(calls[k].at) = k - 1
    BY <1>3 DEF OnPath
  <2>2. k - 1 # Len(calls) - 1
    BY <1>1, <1>2
  <2>. QED BY <1>1, <2>1, <2>2
<1>5. calls[k] \in CallOf
  BY <1>1, <1>2, ElementOfSeq
<1>6. calls[k].at \in DOMAIN tree[walker]
  BY <1>3 DEF OnPath
<1>7. calls[k].at \in Paths /\ NodeAt(k) \in Node
  BY <1>6, Walking DEF IsTree, NodeAt
<1>. QED BY <1>3, <1>4, <1>5, <1>7

\* The node above the one that runs is under way.
LEMMA ParentRuns ==
    ASSUME TreesInv, walker # NoMind, NEW p \in Paths, NEW x \in Links, Here = Append(p, x)
    PROVE  p \in BeingRun(Body) \ {Here}
<1>1. PICK n \in Nat \ {0} : n = Len(calls)
  BY Walking
<1>2. Len(p) \in Nat /\ Len(p) + 1 = n - 1
  <2>1. Len(Here) = n - 1
    BY <1>1, Walking
  <2>2. Len(Append(p, x)) = Len(p) + 1 /\ Len(p) \in Nat
    BY AppendProperties, LenProperties DEF Paths
  <2>. QED BY <2>1, <2>2
<1>3. PICK k \in 1 .. n - 1 : k = n - 1
  BY <1>2
<1>4. /\ Leads(k) /\ calls[k].at # Here /\ calls[k].at \in Paths /\ NodeAt(k) \in Node
      /\ calls[k] \in CallOf
  BY <1>1, <1>3, Above
<1>5. k + 1 = n
  BY <1>3
<1>6. PICK q, y : q = calls[k].at /\ y = Label(NodeAt(k), calls[k].child)
  OBVIOUS
<1>7. q \in Paths /\ y \in Links
  <2>1. calls[k].child \in Nat
    BY <1>4 DEF CallOf
  <2>. QED BY <1>4, <1>6, <2>1, LabelIsStep
<1>8. Here = Append(q, y)
  BY <1>1, <1>4, <1>5, <1>6 DEF Leads, Here, Top
<1>9. p = q
  <2>1. p \in Seq(Links) /\ q \in Seq(Links) /\ Append(p, x) = Append(q, y)
    BY <1>7, <1>8 DEF Paths
  <2>2. Append(p, x) = Append(q, y) <=> p = q /\ x = y
    BY <1>7, <2>1, AppendInjective
  <2>. QED BY <2>1, <2>2
<1>10. k \in DOMAIN calls
  <2>1. DOMAIN calls = 1 .. n
    BY <1>1, Walking, LenProperties
  <2>. QED BY <1>3, <2>1
<1>. QED BY <1>4, <1>6, <1>9, <1>10 DEF BeingRun

-----------------------------------------------------------------------------

\* A node that has not returned keeps its place when another's memory changes.
LEMMA UnfinishedStays ==
    ASSUME NEW m, NEW n, NEW h, NEW p, NEW max, SameBut(m, n, h), p # h, ~Exhausted(m, p, max)
    PROVE  ~Exhausted(n, p, max)
BY DEF SameBut, Exhausted

\* What a node that returns s may leave in the memory of the entity.
Fits(s, m) ==
    /\ SameBut(Mine, m, Here)
    /\ Here \in DOMAIN m => m[Here] \in NodeState
    /\ This.kind \in {"sequence", "selector"} =>
          /\ (Here \in DOMAIN m) <=> s = "running"
          /\ Here \in DOMAIN m => came = "running" /\ m[Here].child = Top.child
    /\ This.kind = "repeat" => RepeatFits(Mine, m, Here, This.arg, came, s)

\* The calls after a return.
LEMMA ReturnFrames ==
    ASSUME TreesInv, walker # NoMind, NEW s \in Status, NEW m, Return(s, m),
           NEW n \in Nat \ {0}, n = Len(calls)
    PROVE  /\ calls' \in Seq(CallOf) /\ Len(calls') = n - 1 /\ DOMAIN calls' = 1 .. n - 1
           /\ \A k \in 1 .. n - 1 : calls'[k] = calls[k]
           /\ walker' = IF n = 1 THEN NoMind ELSE walker
           /\ walker' = NoMind <=> calls' = <<>>
           /\ came' = IF n = 1 THEN NoStatus ELSE s
           /\ memory' = [memory EXCEPT ![Body] = m]
           /\ tree' = tree /\ clock' = clock /\ writers' = writers
<1>1. /\ calls' = Front(calls)
      /\ walker' = IF n = 1 THEN NoMind ELSE walker
      /\ came' = IF n = 1 THEN NoStatus ELSE s
      /\ memory' = [memory EXCEPT ![Body] = m]
      /\ tree' = tree /\ clock' = clock /\ writers' = writers
  BY DEF Return
<1>2. calls \in Seq(CallOf) /\ calls # <<>>
  BY Walking
<1>3. /\ calls' \in Seq(CallOf) /\ Len(calls') = n - 1
      /\ \A k \in 1 .. n - 1 : calls'[k] = calls[k]
  BY <1>1, <1>2, FrontOf
<1>4. DOMAIN calls' = 1 .. n - 1
  BY <1>3, LenProperties
<1>5. calls' = <<>> <=> n = 1
  BY <1>3, EmptySeq
<1>. QED BY <1>1, <1>3, <1>4, <1>5

LEMMA MemoryStays ==
    ASSUME TreesTyped, NEW e \in Bodies, NEW m, memory' = [memory EXCEPT ![e] = m],
           NEW h, SameBut(memory[e], m, h), h \in DOMAIN m => m[h] \in NodeState
    PROVE  /\ memory' = [d \in Bodies |-> memory'[d]]
           /\ \A d \in Bodies : memory'[d] = IF d = e THEN m ELSE memory[d]
           /\ \A d \in Bodies : \A p \in DOMAIN memory'[d] : memory'[d][p] \in NodeState
<1>1. /\ memory' = [d \in Bodies |-> memory'[d]]
      /\ \A d \in Bodies : memory'[d] = IF d = e THEN m ELSE memory[d]
  BY DEF TreesTyped
<1>2. ASSUME NEW d \in Bodies, NEW p \in DOMAIN memory'[d] PROVE memory'[d][p] \in NodeState
  <2>1. CASE d = e
    BY <1>1, <2>1 DEF SameBut, TreesTyped, BehaviorTreesTypeOK
  <2>2. CASE d # e
    BY <1>1, <2>2 DEF TreesTyped, BehaviorTreesTypeOK
  <2>. QED BY <2>1, <2>2
<1>. QED BY <1>1, <1>2

LEMMA ReturnTyped ==
    ASSUME TreesInv, walker # NoMind, NEW s \in Status, NEW m, Fits(s, m), Return(s, m)
    PROVE  TreesTyped'
<1>1. PICK n \in Nat \ {0} : n = Len(calls)
  BY Walking
<1>2. /\ calls' \in Seq(CallOf)
      /\ walker' = IF n = 1 THEN NoMind ELSE walker
      /\ walker' = NoMind <=> calls' = <<>>
      /\ came' = IF n = 1 THEN NoStatus ELSE s
      /\ memory' = [memory EXCEPT ![Body] = m]
      /\ tree' = tree /\ clock' = clock /\ writers' = writers
  BY <1>1, ReturnFrames
<1>3. Body \in Bodies /\ TreesTyped /\ SameBut(Mine, m, Here)
  BY Walking DEF TreesInv, Fits
<1>4. Here \in DOMAIN m => m[Here] \in NodeState
  BY DEF Fits
<1>5. /\ memory' = [d \in Bodies |-> memory'[d]]
      /\ \A d \in Bodies : \A p \in DOMAIN memory'[d] : memory'[d][p] \in NodeState
  BY <1>2, <1>3, <1>4, MemoryStays DEF Mine
<1>6. latest' = [d \in Bodies |-> latest'[d]] /\ wins' = [d \in Bodies |-> wins'[d]]
  <2>1. latest = [d \in Bodies |-> latest[d]] /\ wins = [d \in Bodies |-> wins[d]]
    BY <1>3 DEF TreesTyped
  <2>2. \E l : latest' = latest \/ latest' = [latest EXCEPT ![Body] = l]
    BY DEF Return, Note
  <2>3. \E l : wins' = wins \/ wins' = [wins EXCEPT ![Body] = l]
    BY DEF Return, Note
  <2>4. latest' = [d \in Bodies |-> latest'[d]]
    BY <2>1, <2>2
  <2>. QED BY <2>1, <2>3, <2>4
<1>7. came' \in Status \cup {NoStatus} /\ walker' \in Minds \cup {NoMind}
  BY <1>2, <1>3 DEF TreesTyped, BehaviorTreesTypeOK
<1>8. BehaviorTreesTypeOK'
  BY <1>2, <1>3, <1>5, <1>7 DEF TreesTyped, BehaviorTreesTypeOK, CallOf
<1>. QED BY <1>2, <1>3, <1>5, <1>6, <1>8 DEF TreesTyped

LEMMA ReturnChained ==
    ASSUME TreesInv, walker # NoMind, NEW s \in Status, NEW m, Fits(s, m), Return(s, m)
    PROVE  Chained' /\ CameFrom'
<1>1. PICK n \in Nat \ {0} : n = Len(calls)
  BY Walking
<1>2. /\ calls' \in Seq(CallOf) /\ Len(calls') = n - 1
      /\ \A k \in 1 .. n - 1 : calls'[k] = calls[k]
      /\ walker' = IF n = 1 THEN NoMind ELSE walker
      /\ came' = IF n = 1 THEN NoStatus ELSE s
      /\ memory' = [memory EXCEPT ![Body] = m]
      /\ tree' = tree /\ clock' = clock /\ writers' = writers
  BY <1>1, ReturnFrames
<1>3. SUFFICES ASSUME n # 1
               PROVE  Chained' /\ CameFrom'
  BY <1>2 DEF Chained, CameFrom
<1>4. walker' = walker /\ Body' = Body /\ Mine' = m /\ came' = s
  <2>1. walker' = walker /\ came' = s
    BY <1>2, <1>3
  <2>2. Body' = Body /\ Body \in Bodies
    BY <2>1, Walking DEF Body
  <2>3. memory'[Body] = m
    BY <1>2, <2>2 DEF TreesInv, TreesTyped
  <2>. QED BY <2>1, <2>2, <2>3 DEF Mine
<1>5. ASSUME NEW k \in 1 .. n - 1
      PROVE  OnPath(k)' /\ NodeAt(k)' = NodeAt(k) /\ Unfinished(k)'
  <2>1. OnPath(k) /\ Leads(k) /\ calls[k].at # Here
    BY <1>1, Above
  <2>2. calls'[k] = calls[k]
    BY <1>2
  <2>3. OnPath(k)' /\ NodeAt(k)' = NodeAt(k)
    BY <1>2, <1>4, <2>1, <2>2 DEF OnPath, NodeAt
  <2>4. ASSUME NodeAt(k).kind = "repeat"
        PROVE  ~Exhausted(m, calls[k].at, NodeAt(k).arg)
    <3>1. ~Exhausted(Mine, calls[k].at, NodeAt(k).arg)
      BY <2>1, <2>4 DEF Leads, Unfinished
    <3>2. SameBut(Mine, m, Here)
      BY DEF Fits
    <3>. QED BY <2>1, <3>1, <3>2, UnfinishedStays
  <2>. QED BY <1>4, <2>2, <2>3, <2>4 DEF Unfinished
<1>6. ASSUME NEW k \in 1 .. (n - 1) - 1 PROVE Leads(k)'
  <2>1. k \in 1 .. n - 1 /\ k + 1 \in 1 .. n - 1
    OBVIOUS
  <2>2. Leads(k)
    BY <1>1, <2>1, Above
  <2>3. calls'[k] = calls[k] /\ calls'[k + 1] = calls[k + 1]
    BY <1>2, <2>1
  <2>. QED BY <1>5, <2>1, <2>2, <2>3 DEF Leads
<1>7. tree'[walker'] \in writers'[Body']
  BY <1>2, <1>4, Walking
<1>8. Chained'
  BY <1>2, <1>5, <1>6, <1>7 DEF Chained
<1>9. CameFrom'
  <2>1. n - 1 \in 1 .. n - 1 /\ (n - 1) + 1 = n
    BY <1>3
  <2>2. walker' # NoMind /\ Unfinished(n - 1)'
    BY <1>4, <1>5, <2>1
  <2>3. ChildOfTop' = Here
    <3>1. PICK k \in 1 .. n - 1 : k = n - 1
      BY <2>1
    <3>2. Leads(k) /\ calls'[k] = calls[k] /\ NodeAt(k)' = NodeAt(k) /\ k + 1 = n
      BY <1>1, <1>2, <1>5, <2>1, <3>1, Above
    <3>3. Here = Append(calls[k].at, Label(NodeAt(k), calls[k].child))
      BY <1>1, <3>2 DEF Leads, Here, Top
    <3>4. Top' = calls[k] /\ Here' = calls[k].at
      BY <1>2, <3>1, <3>2 DEF Top, Here
    <3>5. This' = NodeAt(k)
      BY <1>2, <1>4, <3>4 DEF This, NodeAt
    <3>. QED BY <3>3, <3>4, <3>5 DEF ChildOfTop
  <2>4. ASSUME OneWriter(Body)
        PROVE  Here \in DOMAIN latest'[Body] /\ latest'[Body][Here].status = s
    <3>1. PICK r : r = [kind |-> This.kind, status |-> s]
      OBVIOUS
    <3>2. PICK k : k = Keep(latest[Body], Here, r)
      OBVIOUS
    <3>3. latest' = [latest EXCEPT ![Body] = k]
      BY <2>4, <3>1, <3>2 DEF Return, Note
    <3>4. latest'[Body] = k
      BY <3>3, Walking DEF TreesInv, TreesTyped
    <3>5. Here \in DOMAIN k /\ k[Here] = r
      BY <3>2 DEF Keep
    <3>. QED BY <3>1, <3>4, <3>5
  <2>5. OneWriter(Body)' <=> OneWriter(Body)
    BY <1>2, <1>4 DEF OneWriter
  <2>. QED BY <1>2, <1>4, <2>2, <2>3, <2>4, <2>5 DEF CameFrom
<1>. QED BY <1>8, <1>9

\* An entity that nobody walks is left alone.
LEMMA OthersKept ==
    ASSUME NEW e \in Bodies, KeptOf(e), writers'[e] = writers[e], memory'[e] = memory[e],
           latest'[e] = latest[e], wins'[e] = wins[e], BeingRun(e) \subseteq BeingRun(e)'
    PROVE  KeptOf(e)'
<1>1. OneWriter(e)' <=> OneWriter(e)
  BY DEF OneWriter
<1>2. ASSUME OneWriter(e), NEW t \in writers[e]
      PROVE  /\ Settles(memory'[e], latest'[e], t, BeingRun(e)')
             /\ Counts(memory'[e], wins'[e], t)
  <2>1. Settles(memory[e], latest[e], t, BeingRun(e)) /\ Counts(memory[e], wins[e], t)
    BY <1>2 DEF KeptOf
  <2>. QED BY <2>1 DEF Settles
<1>3. ASSUME writers'[e] = {}
      PROVE  DOMAIN memory'[e] = {} /\ DOMAIN latest'[e] = {} /\ DOMAIN wins'[e] = {}
  BY <1>3 DEF KeptOf
<1>. QED BY <1>1, <1>2, <1>3 DEF KeptOf

\* Those under way after a return: all but the node that returned.
LEMMA ReturnRuns ==
    ASSUME TreesInv, walker # NoMind, NEW s \in Status, NEW m, Return(s, m), NEW e \in Bodies
    PROVE  /\ e # Body => BeingRun(e)' = {} /\ BeingRun(e) = {}
           /\ e = Body => BeingRun(e) \ {Here} \subseteq BeingRun(e)'
<1>1. PICK n \in Nat \ {0} : n = Len(calls)
  BY Walking
<1>2. /\ DOMAIN calls' = 1 .. n - 1
      /\ \A k \in 1 .. n - 1 : calls'[k] = calls[k]
      /\ walker' = IF n = 1 THEN NoMind ELSE walker
  BY <1>1, ReturnFrames
<1>3. e # Body => BeingRun(e)' = {} /\ BeingRun(e) = {}
  BY <1>2 DEF BeingRun, Body
<1>4. ASSUME e = Body, NEW p \in BeingRun(e) \ {Here} PROVE p \in BeingRun(e)'
  <2>1. PICK k \in DOMAIN calls : p = calls[k].at
    BY DEF BeingRun
  <2>2. k \in 1 .. n
    BY <1>1, Walking, LenProperties
  <2>3. k # n
    BY <1>1, <1>4, <2>1 DEF Here, Top
  <2>4. k \in 1 .. n - 1 /\ n # 1
    BY <2>2, <2>3
  <2>5. walker' = walker /\ k \in DOMAIN calls' /\ p = calls'[k].at
    BY <1>2, <2>1, <2>4
  <2>6. Body' = e
    BY <1>4, <2>5 DEF Body
  <2>. QED BY <1>4, <2>5, <2>6 DEF BeingRun
<1>. QED BY <1>3, <1>4

LEMMA ReturnKept ==
    ASSUME TreesInv, walker # NoMind, NEW s \in Status, NEW m, Fits(s, m), Return(s, m),
           NEW e \in Bodies
    PROVE  KeptOf(e)'
<1>1. /\ memory' = [memory EXCEPT ![Body] = m] /\ writers' = writers
      /\ latest' = IF ~OneWriter(Body) THEN latest ELSE
           [latest EXCEPT ![Body] = Keep(latest[Body], Here, [kind |-> This.kind, status |-> s])]
      /\ wins' = IF This.kind # "repeat" \/ ~OneWriter(Body) THEN wins ELSE
           [wins EXCEPT ![Body] = Keep(wins[Body], Here, Counted(s))]
  BY DEF Return, Note
<1>2. TreesTyped /\ Body \in Bodies /\ KeptOf(e) /\ KeptOf(Body)
  BY Walking DEF TreesInv
<1>3. CASE e # Body
  <2>1. /\ memory'[e] = memory[e] /\ latest'[e] = latest[e] /\ wins'[e] = wins[e]
        /\ writers'[e] = writers[e]
    BY <1>1, <1>2, <1>3 DEF TreesTyped
  <2>2. BeingRun(e) \subseteq BeingRun(e)'
    BY <1>3, ReturnRuns
  <2>. QED BY <1>2, <2>1, <2>2, OthersKept
<1>4. CASE e = Body
  <2>. DEFINE t == tree[walker]
  <2>1. /\ t \in writers[Body] /\ t \in Trees /\ DOMAIN t \subseteq Paths
        /\ Here \in Paths /\ Here \in DOMAIN t /\ This = t[Here] /\ This \in Node
    BY Walking DEF This
  <2>2. OneWriter(e)' <=> OneWriter(e)
    BY <1>1 DEF OneWriter
  <2>3. SUFFICES ASSUME OneWriter(e)
                 PROVE  /\ Settles(memory'[e], latest'[e], t, BeingRun(e)')
                        /\ Counts(memory'[e], wins'[e], t)
    <3>1. \A u \in writers[e] : OneWriter(e) => u = t
      BY <1>4, <2>1 DEF OneWriter
    <3>2. writers'[e] # {} /\ writers'[e] = writers[e]
      BY <1>1, <1>4, <2>1
    <3>. QED BY <2>2, <2>3, <3>1, <3>2 DEF KeptOf
  <2>4. Settles(memory[e], latest[e], t, BeingRun(e)) /\ Counts(memory[e], wins[e], t)
    BY <1>2, <1>4, <2>1, <2>3 DEF KeptOf
  <2>5. SameBut(memory[e], m, Here) /\ memory'[e] = m
    BY <1>1, <1>2, <1>4 DEF TreesTyped, Fits, Mine
  <2>6. \A p \in DOMAIN m : m[p].child \in Nat
    <3>1. \A p \in DOMAIN memory'[e] : memory'[e][p] \in NodeState
      BY <1>2, <1>1, MemoryStays DEF Fits, Mine
    <3>. QED BY <2>5, <3>1 DEF NodeState
  <2>7. Settles(m, latest'[e], t, BeingRun(e)')
    <3>1. BeingRun(e) \ {Here} \subseteq BeingRun(e)'
      BY <1>4, ReturnRuns
    <3>2. \A p \in Paths, x \in Links : Here = Append(p, x) => p \in BeingRun(e) \ {Here}
      BY <1>4, ParentRuns
    <3>3. ASSUME t[Here].kind \in {"sequence", "selector"}
          PROVE  /\ (Here \in DOMAIN m) <=> s = "running"
                 /\ Here \in DOMAIN m =>
                      /\ Append(Here, <<t[Here].kind, m[Here].child>>) \in DOMAIN latest[e]
                      /\ latest[e][Append(Here, <<t[Here].kind, m[Here].child>>)].status = "running"
      <4>1. (Here \in DOMAIN m) <=> s = "running"
        BY <2>1, <3>3 DEF Fits
      <4>2. ASSUME Here \in DOMAIN m
            PROVE  /\ Append(Here, <<t[Here].kind, m[Here].child>>) \in DOMAIN latest[e]
                   /\ latest[e][Append(Here, <<t[Here].kind, m[Here].child>>)].status = "running"
        <5>1. came = "running" /\ m[Here].child = Top.child
          BY <2>1, <3>3, <4>2 DEF Fits
        <5>2. ChildOfTop \in DOMAIN latest[e] /\ latest[e][ChildOfTop].status = "running"
          BY <1>4, <2>3, <5>1 DEF TreesInv, CameFrom, NoStatus
        <5>3. ChildOfTop = Append(Here, <<t[Here].kind, m[Here].child>>)
          BY <2>1, <3>3, <5>1 DEF ChildOfTop, Label, Composites
        <5>. QED BY <5>2, <5>3
      <4>. QED BY <4>1, <4>2
    <3>4. latest'[e] = Keep(latest[e], Here, [kind |-> t[Here].kind, status |-> s])
      BY <1>1, <1>2, <1>4, <2>1, <2>3 DEF TreesTyped
    <3>. HIDE DEF t
    <3>5. Settles(m, Keep(latest[e], Here, [kind |-> t[Here].kind, status |-> s]), t, BeingRun(e)')
      BY <2>1, <2>4, <2>5, <2>6, <3>1, <3>2, <3>3, SettlesReturn
    <3>. QED BY <3>4, <3>5
  <2>8. Counts(m, wins'[e], t)
    <3>1. CASE This.kind # "repeat"
      <4>1. wins'[e] = wins[e] /\ t[Here].kind # "repeat"
        BY <1>1, <2>1, <3>1
      <4>. HIDE DEF t
      <4>. QED BY <2>4, <2>5, <4>1, CountsOther
    <3>2. CASE This.kind = "repeat"
      <4>1. t[Here].kind = "repeat" /\ t[Here].arg \in Nat /\ t[Here].arg = This.arg
        BY <2>1, <3>2 DEF Node
      <4>2. RepeatFits(memory[e], m, Here, t[Here].arg, came, s)
        BY <1>4, <3>2, <4>1 DEF Fits, Mine
      <4>3. \A p \in DOMAIN memory[e] : memory[e][p].count \in Nat
        BY <1>2 DEF TreesTyped, BehaviorTreesTypeOK, NodeState
      <4>4. wins'[e] = Keep(wins[e], Here, CountFor(wins[e], Here, came, s, t[Here].arg))
        BY <1>1, <1>2, <1>4, <2>3, <3>2, <4>1 DEF TreesTyped, Counted, CountFor
      <4>. HIDE DEF t
      <4>5. Counts(m, Keep(wins[e], Here, CountFor(wins[e], Here, came, s, t[Here].arg)), t)
        BY <2>4, <2>5, <4>1, <4>2, <4>3, CountsReturn
      <4>. QED BY <4>4, <4>5
    <3>. QED BY <3>1, <3>2
  <2>. QED BY <2>5, <2>7, <2>8
<1>. QED BY <1>3, <1>4

\* A node that returns leaves everything in order.
LEMMA ReturnKeeps ==
    ASSUME TreesInv, walker # NoMind, NEW s \in Status, NEW m, Fits(s, m), Return(s, m)
    PROVE  TreesInv'
<1>1. TreesTyped' /\ Chained' /\ CameFrom'
  BY ReturnTyped, ReturnChained
<1>2. \A e \in Bodies : KeptOf(e)'
  BY ReturnKept
<1>. QED BY <1>1, <1>2 DEF TreesInv

-----------------------------------------------------------------------------

\* What a node that goes on with f may leave in the memory of the entity.
DescendFits(f, m) ==
    /\ f.at = Here /\ f.child \in 1 .. This.kids /\ f.worst \in Status /\ f \in CallOf
    /\ SameBut(Mine, m, Here)
    /\ Here \in DOMAIN m => m[Here] \in NodeState
    /\ This.kind = "repeat" => m = Mine /\ ~Exhausted(m, Here, This.arg)

\* The calls after a descent.
LEMMA DescendFrames ==
    ASSUME TreesInv, walker # NoMind, NEW f, NEW m, DescendFits(f, m), Descend(f, m),
           NEW n \in Nat \ {0}, n = Len(calls)
    PROVE  /\ calls' \in Seq(CallOf) /\ Len(calls') = n + 1 /\ DOMAIN calls' = 1 .. n + 1
           /\ \A k \in 1 .. n - 1 : calls'[k] = calls[k]
           /\ calls'[n] = f
           /\ calls'[n + 1] = Begun(Append(Here, Label(This, f.child)))
           /\ Append(Here, Label(This, f.child)) \in DOMAIN tree[walker]
           /\ Len(Append(Here, Label(This, f.child))) = n
           /\ came' = NoStatus /\ memory' = [memory EXCEPT ![Body] = m]
           /\ UNCHANGED <<tree, clock, walker, latest, writers, wins>>
<1>1. PICK g : g = Begun(Append(Here, Label(This, f.child)))
  OBVIOUS
<1>2. /\ calls' = Append([calls EXCEPT ![Len(calls)] = f], g)
      /\ came' = NoStatus /\ memory' = [memory EXCEPT ![Body] = m]
      /\ UNCHANGED <<tree, clock, walker, latest, writers, wins>>
  BY <1>1 DEF Descend
<1>3. /\ calls \in Seq(CallOf) /\ calls # <<>> /\ Here \in Paths /\ This \in Node
      /\ Here \in DOMAIN tree[walker] /\ IsTree(tree[walker]) /\ Len(Here) = n - 1
  BY Walking
<1>4. f \in CallOf /\ f.child \in 1 .. This.kids /\ f.child \in Nat
  BY <1>3 DEF DescendFits, Node
<1>5. PICK x : x = Label(This, f.child)
  OBVIOUS
<1>6. x \in Links
  BY <1>3, <1>4, <1>5, LabelIsStep
<1>7. Append(Here, x) \in Paths /\ Len(Append(Here, x)) = n
  BY <1>3, <1>6, AppendProperties DEF Paths
<1>8. g \in CallOf
  BY <1>1, <1>5, <1>7 DEF Begun, CallOf, Status
<1>9. Append(Here, x) \in DOMAIN tree[walker]
  BY <1>3, <1>4, <1>5 DEF IsTree, This
<1>10. /\ calls' \in Seq(CallOf) /\ Len(calls') = n + 1 /\ calls'[n + 1] = g /\ calls'[n] = f
       /\ \A k \in 1 .. n - 1 : calls'[k] = calls[k]
  BY <1>2, <1>3, <1>4, <1>8, Deeper
<1>11. DOMAIN calls' = 1 .. n + 1
  BY <1>10, LenProperties
<1>. QED BY <1>1, <1>2, <1>5, <1>7, <1>9, <1>10, <1>11

LEMMA DescendTyped ==
    ASSUME TreesInv, walker # NoMind, NEW f, NEW m, DescendFits(f, m), Descend(f, m)
    PROVE  TreesTyped'
<1>1. PICK n \in Nat \ {0} : n = Len(calls)
  BY Walking
<1>2. /\ calls' \in Seq(CallOf) /\ Len(calls') = n + 1
      /\ came' = NoStatus /\ memory' = [memory EXCEPT ![Body] = m]
      /\ UNCHANGED <<tree, clock, walker, latest, writers, wins>>
  BY <1>1, DescendFrames
<1>3. Body \in Bodies /\ TreesTyped /\ SameBut(Mine, m, Here)
  BY Walking DEF TreesInv, DescendFits
<1>4. Here \in DOMAIN m => m[Here] \in NodeState
  BY DEF DescendFits
<1>5. /\ memory' = [d \in Bodies |-> memory'[d]]
      /\ \A d \in Bodies : \A p \in DOMAIN memory'[d] : memory'[d][p] \in NodeState
  BY <1>2, <1>3, <1>4, MemoryStays DEF Mine
<1>6. calls' # <<>>
  BY <1>2, EmptySeq
<1>7. BehaviorTreesTypeOK'
  BY <1>2, <1>3, <1>5, <1>6 DEF TreesTyped, BehaviorTreesTypeOK, CallOf
<1>. QED BY <1>2, <1>3, <1>5, <1>7 DEF TreesTyped

LEMMA DescendChained ==
    ASSUME TreesInv, walker # NoMind, NEW f, NEW m, DescendFits(f, m), Descend(f, m)
    PROVE  Chained' /\ CameFrom'
<1>1. PICK n \in Nat \ {0} : n = Len(calls)
  BY Walking
<1>2. /\ Len(calls') = n + 1
      /\ \A k \in 1 .. n - 1 : calls'[k] = calls[k]
      /\ calls'[n] = f
      /\ calls'[n + 1] = Begun(Append(Here, Label(This, f.child)))
      /\ Append(Here, Label(This, f.child)) \in DOMAIN tree[walker]
      /\ Len(Append(Here, Label(This, f.child))) = n
      /\ came' = NoStatus /\ memory' = [memory EXCEPT ![Body] = m]
      /\ UNCHANGED <<tree, clock, walker, latest, writers, wins>>
  BY <1>1, DescendFrames
<1>3. Body' = Body /\ Mine' = m
  <2>1. Body' = Body /\ Body \in Bodies
    BY <1>2, Walking DEF Body
  <2>2. memory'[Body] = m
    BY <1>2, <2>1 DEF TreesInv, TreesTyped
  <2>. QED BY <2>1, <2>2 DEF Mine
<1>4. f.at = Here /\ Here \in DOMAIN tree[walker] /\ Len(Here) = n - 1
  BY <1>1, Walking DEF DescendFits
<1>5. ASSUME NEW k \in 1 .. n - 1
      PROVE  OnPath(k)' /\ NodeAt(k)' = NodeAt(k) /\ Unfinished(k)'
  <2>1. OnPath(k) /\ Leads(k) /\ calls[k].at # Here
    BY <1>1, Above
  <2>2. calls'[k] = calls[k]
    BY <1>2
  <2>3. OnPath(k)' /\ NodeAt(k)' = NodeAt(k)
    BY <1>2, <2>1, <2>2 DEF OnPath, NodeAt
  <2>4. ASSUME NodeAt(k).kind = "repeat"
        PROVE  ~Exhausted(m, calls[k].at, NodeAt(k).arg)
    <3>1. ~Exhausted(Mine, calls[k].at, NodeAt(k).arg)
      BY <2>1, <2>4 DEF Leads, Unfinished
    <3>2. SameBut(Mine, m, Here)
      BY DEF DescendFits
    <3>. QED BY <2>1, <3>1, <3>2, UnfinishedStays
  <2>. QED BY <1>3, <2>2, <2>3, <2>4 DEF Unfinished
<1>6. OnPath(n)' /\ NodeAt(n)' = This /\ Unfinished(n)'
  <2>1. OnPath(n)' /\ NodeAt(n)' = This
    BY <1>2, <1>4 DEF OnPath, NodeAt, This
  <2>2. This.kind = "repeat" => ~Exhausted(m, Here, This.arg)
    BY DEF DescendFits
  <2>. QED BY <1>2, <1>3, <1>4, <2>1, <2>2 DEF Unfinished
<1>7. OnPath(n + 1)'
  BY <1>2 DEF OnPath, Begun
<1>8. Leads(n)'
  BY <1>2, <1>4, <1>6 DEF Leads, Begun
<1>9. ASSUME NEW k \in 1 .. n - 1 PROVE Leads(k)'
  <2>1. Leads(k)
    BY <1>1, Above
  <2>2. calls'[k] = calls[k] /\ calls'[k + 1].at = calls[k + 1].at
    <3>1. CASE k = n - 1
      BY <1>1, <1>2, <1>4, <3>1 DEF Here, Top
    <3>2. CASE k # n - 1
      BY <1>2, <3>2
    <3>. QED BY <3>1, <3>2
  <2>. QED BY <1>5, <2>1, <2>2 DEF Leads
<1>10. tree'[walker'] \in writers'[Body']
  BY <1>2, <1>3, Walking
<1>11. \A k \in 1 .. Len(calls') : OnPath(k)'
  <2>1. \A k \in 1 .. n + 1 : k \in 1 .. n - 1 \/ k = n \/ k = n + 1
    OBVIOUS
  <2>. QED BY <1>2, <1>5, <1>6, <1>7, <2>1
<1>12. \A k \in 1 .. Len(calls') - 1 : Leads(k)'
  <2>1. \A k \in 1 .. (n + 1) - 1 : k \in 1 .. n - 1 \/ k = n
    OBVIOUS
  <2>. QED BY <1>2, <1>8, <1>9, <2>1
<1>13. Chained'
  BY <1>10, <1>11, <1>12 DEF Chained
<1>14. CameFrom'
  BY <1>2 DEF CameFrom
<1>. QED BY <1>13, <1>14

LEMMA DescendKept ==
    ASSUME TreesInv, walker # NoMind, NEW f, NEW m, DescendFits(f, m), Descend(f, m),
           NEW e \in Bodies
    PROVE  KeptOf(e)'
<1>1. PICK n \in Nat \ {0} : n = Len(calls)
  BY Walking
<1>2. /\ DOMAIN calls' = 1 .. n + 1
      /\ \A k \in 1 .. n - 1 : calls'[k] = calls[k]
      /\ calls'[n] = f /\ f.at = Here
      /\ memory' = [memory EXCEPT ![Body] = m]
      /\ UNCHANGED <<tree, walker, latest, writers, wins>>
  BY <1>1, DescendFrames DEF DescendFits
<1>3. TreesTyped /\ Body \in Bodies /\ KeptOf(e)
  BY Walking DEF TreesInv
<1>4. DOMAIN calls = 1 .. n /\ calls[n].at = Here
  BY <1>1, Walking, LenProperties DEF Here, Top
<1>5. BeingRun(e) \subseteq BeingRun(e)' /\ (e = Body => Here \in BeingRun(e)')
  <2>1. ASSUME NEW k \in 1 .. n PROVE calls[k].at = calls'[k].at /\ k \in 1 .. n + 1
    <3>1. k \in 1 .. n - 1 \/ k = n
      OBVIOUS
    <3>. QED BY <1>2, <1>4, <3>1
  <2>2. Body' = Body /\ walker' = walker
    BY <1>2 DEF Body
  <2>3. n \in 1 .. n + 1
    OBVIOUS
  <2>. QED BY <1>2, <1>4, <2>1, <2>2, <2>3 DEF BeingRun
<1>6. CASE e # Body
  <2>1. memory'[e] = memory[e]
    BY <1>2, <1>3, <1>6 DEF TreesTyped
  <2>. QED BY <1>2, <1>3, <1>5, <2>1, OthersKept
<1>7. CASE e = Body
  <2>. DEFINE t == tree[walker]
  <2>1. t \in writers[e] /\ This = t[Here]
    BY <1>7, Walking DEF This
  <2>2. OneWriter(e)' <=> OneWriter(e)
    BY <1>2 DEF OneWriter
  <2>3. SUFFICES ASSUME OneWriter(e)
                 PROVE  /\ Settles(memory'[e], latest'[e], t, BeingRun(e)')
                        /\ Counts(memory'[e], wins'[e], t)
    <3>1. \A u \in writers[e] : OneWriter(e) => u = t
      BY <2>1 DEF OneWriter
    <3>2. writers'[e] # {} /\ writers'[e] = writers[e]
      BY <1>2, <2>1
    <3>. QED BY <2>2, <2>3, <3>1, <3>2 DEF KeptOf
  <2>4. Settles(memory[e], latest[e], t, BeingRun(e)) /\ Counts(memory[e], wins[e], t)
    BY <1>3, <2>1, <2>3 DEF KeptOf
  <2>5. SameBut(memory[e], m, Here) /\ memory'[e] = m
    BY <1>2, <1>3, <1>7 DEF TreesTyped, DescendFits, Mine
  <2>6. Settles(m, latest'[e], t, BeingRun(e)')
    <3>. HIDE DEF t
    <3>1. latest'[e] = latest[e] /\ Here \in BeingRun(e)' /\ BeingRun(e) \subseteq BeingRun(e)'
      BY <1>2, <1>5, <1>7
    <3>. QED BY <2>4, <2>5, <3>1, SettlesUnderWay
  <2>7. Counts(m, wins'[e], t)
    <3>1. CASE This.kind = "repeat"
      BY <1>2, <1>7, <2>4, <3>1 DEF DescendFits, Mine
    <3>2. CASE This.kind # "repeat"
      <4>1. t[Here].kind # "repeat" /\ wins'[e] = wins[e]
        BY <1>2, <2>1, <3>2
      <4>. HIDE DEF t
      <4>. QED BY <2>4, <2>5, <4>1, CountsOther
    <3>. QED BY <3>1, <3>2
  <2>. QED BY <2>5, <2>6, <2>7
<1>. QED BY <1>6, <1>7

\* A node that goes on leaves everything in order.
LEMMA DescendKeeps ==
    ASSUME TreesInv, walker # NoMind, NEW f, NEW m, DescendFits(f, m), Descend(f, m)
    PROVE  TreesInv'
<1>1. TreesTyped' /\ Chained' /\ CameFrom'
  BY DescendTyped, DescendChained
<1>2. \A e \in Bodies : KeptOf(e)'
  BY DescendKept
<1>. QED BY <1>1, <1>2 DEF TreesInv

-----------------------------------------------------------------------------

\* One field of a node's state set anew.
LEMMA NodeStates ==
    ASSUME NEW s \in NodeState
    PROVE  /\ \A i \in Nat \ {0} : [s EXCEPT !.child = i] \in NodeState /\ [s EXCEPT !.child = i].child = i
           /\ \A i \in Nat : [s EXCEPT !.count = i] \in NodeState /\ [s EXCEPT !.count = i].count = i
           /\ \A i \in Nat : [s EXCEPT !.waited = i] \in NodeState
           /\ \A i \in {NoTime} \cup 0 .. MaxClock : [s EXCEPT !.last = i] \in NodeState
           /\ \A i \in {NoStatus, "success", "failure"} : [s EXCEPT !.stored = i] \in NodeState
           /\ s.child \in Nat \ {0} /\ s.count \in Nat /\ s.waited \in Nat
           /\ s.last \in {NoTime} \cup 0 .. MaxClock /\ s.stored \in {NoStatus, "success", "failure"}
BY DEF NodeState

LEMMA BlankTyped == Blank \in NodeState
BY DEF Blank, NodeState

\* What a node remembers, or the default.
LEMMA RecallTyped ==
    ASSUME TreesInv, walker # NoMind
    PROVE  /\ Recall(Mine, Here) \in NodeState /\ clock \in 0 .. MaxClock
           /\ Here \in DOMAIN Mine => Mine[Here] \in NodeState
           /\ came \in Status \cup {NoStatus}
<1>1. Here \in DOMAIN Mine => Mine[Here] \in NodeState
  BY Walking DEF TreesInv, TreesTyped, BehaviorTreesTypeOK, Mine
<1>. QED BY <1>1, BlankTyped DEF Recall, TreesInv, TreesTyped, BehaviorTreesTypeOK

\* Other nodes than sequences, selectors and Repeats may leave any state of their own.
LEMMA PlainFits ==
    ASSUME NEW s, NEW m, This.kind \notin {"sequence", "selector", "repeat"},
           SameBut(Mine, m, Here), Here \in DOMAIN m => m[Here] \in NodeState
    PROVE  Fits(s, m)
BY DEF Fits

LEMMA LeafKeeps ==
    ASSUME TreesInv, RunAction \/ RunCondition \/ RunUtility \/ RunFixed
    PROVE  TreesInv'
<1>1. PICK s \in Status : Return(s, Mine)
  <2>1. CASE RunFixed
    <3>1. walker # NoMind
      BY <2>1 DEF RunFixed, Enters
    <3>2. This.status \in Status
      BY <3>1, Walking DEF Node
    <3>. QED BY <2>1, <3>2 DEF RunFixed
  <2>. QED BY <2>1 DEF RunAction, RunCondition, RunUtility, Status
<1>2. walker # NoMind /\ This.kind \in {"action", "condition", "utility", "fixed"}
  BY DEF RunAction, RunCondition, RunUtility, RunFixed, Enters
<1>3. Fits(s, Mine)
  BY <1>2, RecallTyped, KeepAndWipe, PlainFits
<1>. QED BY <1>1, <1>2, <1>3, ReturnKeeps

LEMMA WaitKeeps ==
    ASSUME TreesInv, RunWait
    PROVE  TreesInv'
<1>1. walker # NoMind /\ This.kind = "wait"
  BY DEF RunWait, Enters
<1>2. PICK s : s = [Recall(Mine, Here) EXCEPT !.waited = Recall(Mine, Here).waited + 1]
  OBVIOUS
<1>3. s \in NodeState
  <2>1. PICK r \in NodeState : r = Recall(Mine, Here)
    BY <1>1, RecallTyped
  <2>2. r.waited + 1 \in Nat
    BY <2>1 DEF NodeState
  <2>. QED BY <1>2, <2>1, <2>2, NodeStates
<1>4. \/ Return("success", Wipe(Mine, Here))
      \/ Return("running", Keep(Mine, Here, s))
  BY <1>2 DEF RunWait
<1>5. Fits("success", Wipe(Mine, Here)) /\ Fits("running", Keep(Mine, Here, s))
  BY <1>1, <1>3, KeepAndWipe, PlainFits
<1>. QED BY <1>1, <1>4, <1>5, ReturnKeeps DEF Status

LEMMA GoOnKeeps ==
    ASSUME TreesInv, walker # NoMind, This.kind \in Composites,
           NEW i \in Nat \ {0}, NEW worst \in Status, GoOn(i, worst)
    PROVE  TreesInv'
<1>1. This \in Node /\ Here \in Paths /\ This.kids \in Nat
  BY Walking DEF Node
<1>2. This.kind \in {"sequence", "selector", "force"}
  BY DEF Composites
<1>3. CASE i <= This.kids
  <2>1. PICK f : f = [at |-> Here, child |-> i, worst |-> worst]
    OBVIOUS
  <2>2. Descend(f, Mine)
    BY <1>3, <2>1 DEF GoOn
  <2>3. f \in CallOf /\ f.at = Here /\ f.child = i /\ f.worst = worst
    BY <1>1, <2>1 DEF CallOf
  <2>4. i \in 1 .. This.kids /\ SameBut(Mine, Mine, Here)
    BY <1>1, <1>3, KeepAndWipe
  <2>5. DescendFits(f, Mine)
    BY <1>2, <2>3, <2>4, RecallTyped DEF DescendFits
  <2>. QED BY <2>2, <2>5, DescendKeeps
<1>4. CASE ~(i <= This.kids) /\ This.kind = "force"
  <2>1. Return(worst, Mine)
    BY <1>4 DEF GoOn
  <2>2. Fits(worst, Mine)
    BY <1>4, RecallTyped, KeepAndWipe, PlainFits
  <2>. QED BY <2>1, <2>2, ReturnKeeps
<1>5. CASE ~(i <= This.kids) /\ This.kind # "force"
  <2>1. Return(Passes, Wipe(Mine, Here))
    BY <1>5 DEF GoOn
  <2>2. Passes \in Status /\ Passes # "running"
    BY DEF Passes, Status
  <2>3. Fits(Passes, Wipe(Mine, Here))
    BY <1>2, <2>2, KeepAndWipe DEF Fits
  <2>. QED BY <2>1, <2>2, <2>3, ReturnKeeps
<1>. QED BY <1>3, <1>4, <1>5

LEMMA ChildrenKeep ==
    ASSUME TreesInv, RunChildren \/ ChildReturns \/ ForcedReturns
    PROVE  TreesInv'
<1>1. walker # NoMind /\ This.kind \in Composites
  BY DEF RunChildren, ChildReturns, ForcedReturns, Enters, Resumes, Composites
<1>2. PICK c \in Nat \ {0} : c = Top.child
  BY <1>1, Walking DEF CallOf
<1>3. c + 1 \in Nat \ {0}
  OBVIOUS
<1>4. CASE RunChildren
  <2>1. PICK i \in Nat \ {0} : GoOn(i, "success")
    <3>1. Recall(Mine, Here).child \in Nat \ {0}
      BY <1>1, RecallTyped, NodeStates
    <3>. QED BY <1>4, <3>1 DEF RunChildren
  <2>. QED BY <1>1, <2>1, GoOnKeeps DEF Status
<1>5. CASE ChildReturns
  <2>1. This.kind \in {"sequence", "selector"}
    BY <1>5 DEF ChildReturns
  <2>2. CASE came = Stops /\ Return(Stops, Broken(Mine, Here))
    <3>1. Stops \in Status /\ Stops # "running"
      BY DEF Stops, Status
    <3>2. Fits(Stops, Wipe(Mine, Here))
      BY <2>1, <3>1, KeepAndWipe DEF Fits
    <3>. QED BY <1>1, <2>2, <3>1, <3>2, ReturnKeeps DEF Broken
  <2>3. CASE /\ came = "running"
             /\ Return("running", Keep(Mine, Here, [Recall(Mine, Here) EXCEPT !.child = Top.child]))
    <3>1. PICK r \in NodeState : r = Recall(Mine, Here)
      BY <1>1, RecallTyped
    <3>2. PICK s : s = [r EXCEPT !.child = c]
      OBVIOUS
    <3>3. s \in NodeState /\ s.child = c
      BY <3>2, NodeStates
    <3>4. Return("running", Keep(Mine, Here, s))
      BY <1>2, <2>3, <3>1, <3>2
    <3>5. Fits("running", Keep(Mine, Here, s))
      BY <1>2, <2>1, <2>3, <3>3, KeepAndWipe DEF Fits
    <3>. QED BY <1>1, <3>4, <3>5, ReturnKeeps DEF Status
  <2>4. CASE came = Passes /\ GoOn(Top.child + 1, "success")
    BY <1>1, <1>2, <1>3, <2>4, GoOnKeeps DEF Status
  <2>. QED BY <1>5, <2>2, <2>3, <2>4 DEF ChildReturns
<1>6. CASE ForcedReturns
  <2>1. PICK worst \in Status : GoOn(c + 1, worst)
    <3>1. \A v : (IF "running" \in v THEN "running"
                 ELSE IF "failure" \in v THEN "failure" ELSE "success") \in Status
      BY DEF Status
    <3>. QED BY <1>2, <1>6 DEF ForcedReturns, Status
  <2>. QED BY <1>1, <1>3, <2>1, GoOnKeeps
<1>. QED BY <1>4, <1>5, <1>6

LEMMA RefuseKeeps ==
    ASSUME TreesInv, Refuse
    PROVE  TreesInv'
<1>1. /\ walker # NoMind /\ came = NoStatus /\ This.kind \in Wrappers /\ Refusal # NoStatus
      /\ Return(Refusal, IF This.kind = "repeat" THEN Wipe(Mine, Here) ELSE Mine)
  BY DEF Refuse, Enters
<1>2. PICK r \in NodeState : r = Recall(Mine, Here)
  BY <1>1, RecallTyped
<1>3. r.stored \in {NoStatus, "success", "failure"}
  BY <1>2, NodeStates
<1>4. Refusal \in Status
  BY <1>1, <1>2, <1>3 DEF Refusal, Status
<1>5. CASE This.kind = "repeat"
  <2>1. Refusal = "success" /\ Exhausted(Mine, Here, This.arg)
    BY <1>1, <1>5 DEF Refusal
  <2>2. RepeatFits(Mine, Wipe(Mine, Here), Here, This.arg, came, Refusal)
    BY <1>1, <2>1, KeepAndWipe DEF RepeatFits
  <2>3. Fits(Refusal, Wipe(Mine, Here))
    BY <1>5, <2>2, KeepAndWipe DEF Fits
  <2>. QED BY <1>1, <1>4, <1>5, <2>3, ReturnKeeps
<1>6. CASE This.kind # "repeat"
  <2>1. This.kind \notin {"sequence", "selector", "repeat"}
    BY <1>1, <1>6 DEF Wrappers
  <2>2. Fits(Refusal, Mine)
    BY <1>1, <2>1, RecallTyped, KeepAndWipe, PlainFits
  <2>. QED BY <1>1, <1>4, <1>6, <2>2, ReturnKeeps
<1>. QED BY <1>5, <1>6

LEMMA RunChildKeeps ==
    ASSUME TreesInv, RunChild
    PROVE  TreesInv'
<1>. DEFINE m == IF This.kind = "timeout" THEN Keep(Mine, Here, Started(Recall(Mine, Here)))
                                          ELSE Mine
<1>1. /\ walker # NoMind /\ This.kind \in Wrappers /\ Refusal = NoStatus
      /\ Descend(Begun(Here), m)
  BY DEF RunChild, Enters
<1>2. PICK f : f = Begun(Here)
  OBVIOUS
<1>3. f \in CallOf /\ f.at = Here /\ f.child = 1 /\ f.worst \in Status
  BY <1>1, <1>2, Walking DEF Begun, CallOf, Status
<1>4. 1 \in 1 .. This.kids
  <2>1. This.kids \in Nat /\ (This.kind # "subtree" => This.kids = 1)
    BY <1>1, Walking DEF IsTree, This, Node
  <2>2. This.kind = "subtree" => This.kids # 0
    BY <1>1 DEF Refusal, NoStatus
  <2>. QED BY <2>1, <2>2
<1>5. SameBut(Mine, m, Here) /\ (Here \in DOMAIN m => m[Here] \in NodeState)
  <2>1. PICK r \in NodeState : r = Recall(Mine, Here)
    BY <1>1, RecallTyped
  <2>2. Started(r) \in NodeState
    <3>1. PICK x : x = IF r.last = NoTime THEN clock ELSE r.last
      OBVIOUS
    <3>2. x \in {NoTime} \cup 0 .. MaxClock
      BY <1>1, <3>1, RecallTyped DEF NodeState
    <3>3. Started(r) = [r EXCEPT !.last = x]
      BY <3>1 DEF Started
    <3>4. [r EXCEPT !.last = x] \in NodeState
      BY <3>2, NodeStates
    <3>. QED BY <3>3, <3>4
  <2>. QED BY <1>1, <2>1, <2>2, RecallTyped, KeepAndWipe
<1>6. This.kind = "repeat" => m = Mine /\ ~Exhausted(m, Here, This.arg)
  BY <1>1 DEF Refusal, NoStatus
<1>. HIDE DEF m
<1>7. DescendFits(f, m)
  BY <1>3, <1>4, <1>5, <1>6 DEF DescendFits
<1>. QED BY <1>1, <1>2, <1>7, DescendKeeps

LEMMA WrappedKeeps ==
    ASSUME TreesInv, WrappedReturns
    PROVE  TreesInv'
<1>1. /\ walker # NoMind /\ came # NoStatus /\ This.kind \in Wrappers
      /\ Return(Translated, Remembered)
  BY DEF WrappedReturns, Resumes
<1>2. came \in Status /\ This \in Node
  BY <1>1, RecallTyped, Walking
<1>3. Translated \in Status
  BY <1>2 DEF Translated, Status, Node
<1>4. PICK r \in NodeState : r = Recall(Mine, Here)
  BY <1>1, RecallTyped
<1>5. CASE This.kind = "repeat"
  <2>1. ~Exhausted(Mine, Here, This.arg)
    BY <1>1, <1>5 DEF TreesInv, CameFrom, Unfinished, NodeAt, This, Here, Top
  <2>2. PICK s : s = [r EXCEPT !.count = r.count + 1]
    OBVIOUS
  <2>3. s \in NodeState /\ s.count = r.count + 1
    <3>1. r.count + 1 \in Nat
      BY <1>4 DEF NodeState
    <3>. QED BY <2>2, <3>1, NodeStates
  <2>4. CASE came = "success"
    <3>1. Translated = "running" /\ Remembered = Keep(Mine, Here, s)
      BY <1>4, <1>5, <2>2, <2>4 DEF Translated, Remembered
    <3>2. RepeatFits(Mine, Keep(Mine, Here, s), Here, This.arg, came, "running")
      BY <1>4, <2>1, <2>3, <2>4, KeepAndWipe DEF RepeatFits
    <3>3. Fits("running", Keep(Mine, Here, s))
      BY <1>5, <2>3, <3>2, KeepAndWipe DEF Fits
    <3>. QED BY <1>1, <1>3, <3>1, <3>3, ReturnKeeps
  <2>5. CASE came = "failure"
    <3>1. Translated = "failure" /\ Remembered = Wipe(Mine, Here)
      BY <1>5, <2>5 DEF Translated, Remembered
    <3>2. Fits("failure", Wipe(Mine, Here))
      BY <1>5, KeepAndWipe DEF Fits, RepeatFits
    <3>. QED BY <1>1, <1>3, <3>1, <3>2, ReturnKeeps
  <2>6. CASE came = "running"
    <3>1. Translated = "running" /\ Remembered = Mine
      BY <1>5, <2>6 DEF Translated, Remembered
    <3>2. Fits("running", Mine)
      BY <1>1, <1>5, <2>6, RecallTyped, KeepAndWipe DEF Fits, RepeatFits
    <3>. QED BY <1>1, <1>3, <3>1, <3>2, ReturnKeeps
  <2>. QED BY <1>2, <2>4, <2>5, <2>6 DEF Status
<1>6. CASE This.kind # "repeat"
  <2>1. This.kind \notin {"sequence", "selector", "repeat"}
    BY <1>1, <1>6 DEF Wrappers
  <2>2. /\ [r EXCEPT !.last = clock] \in NodeState
        /\ came # "running" => [r EXCEPT !.stored = came] \in NodeState
    <3>1. clock \in {NoTime} \cup 0 .. MaxClock
      BY <1>1, RecallTyped
    <3>2. came # "running" => came \in {NoStatus, "success", "failure"}
      BY <1>2 DEF Status
    <3>. QED BY <3>1, <3>2, NodeStates
  <2>3. \/ Remembered = Keep(Mine, Here, [r EXCEPT !.last = clock])
        \/ came # "running" /\ Remembered = Keep(Mine, Here, [r EXCEPT !.stored = came])
        \/ Remembered = Wipe(Mine, Here)
        \/ Remembered = Mine
    BY <1>4, <1>6 DEF Remembered
  <2>4. SameBut(Mine, Remembered, Here) /\ (Here \in DOMAIN Remembered => Remembered[Here] \in NodeState)
    BY <1>1, <2>2, <2>3, RecallTyped, KeepAndWipe
  <2>5. Fits(Translated, Remembered)
    BY <2>1, <2>4, PlainFits
  <2>. QED BY <1>1, <1>3, <2>5, ReturnKeeps
<1>. QED BY <1>5, <1>6

-----------------------------------------------------------------------------

\* A tree is set: no memory changes.
LEMMA SetTreeKeeps ==
    ASSUME TreesInv, NEW b \in Minds, NEW t \in Trees, SetTree(b, t)
    PROVE  TreesInv'
<1>1. /\ walker = NoMind /\ tree' = [tree EXCEPT ![b] = t]
      /\ UNCHANGED <<memory, clock, walker, calls, came, latest, writers, wins>>
  BY DEF SetTree, walk
<1>2. TreesTyped'
  BY <1>1 DEF TreesInv, TreesTyped, BehaviorTreesTypeOK
<1>3. Chained' /\ CameFrom'
  BY <1>1 DEF TreesInv, Chained, CameFrom
<1>4. ASSUME NEW e \in Bodies PROVE KeptOf(e)'
  <2>1. KeptOf(e) /\ BeingRun(e) \subseteq BeingRun(e)'
    BY <1>1 DEF TreesInv, BeingRun
  <2>. QED BY <1>1, <2>1, OthersKept
<1>. QED BY <1>2, <1>3, <1>4 DEF TreesInv

\* A tree is cleared: what was kept for its entity goes.
LEMMA ClearTreeKeeps ==
    ASSUME TreesInv, NEW b \in Minds, ClearTree(b)
    PROVE  TreesInv'
<1>1. PICK d \in Bodies : d = BodyOf[b]
  BY TreesAssumption
<1>2. /\ walker = NoMind /\ tree' = [tree EXCEPT ![b] = NoTree]
      /\ memory' = [memory EXCEPT ![d] = <<>>] /\ latest' = [latest EXCEPT ![d] = <<>>]
      /\ writers' = [writers EXCEPT ![d] = {}] /\ wins' = [wins EXCEPT ![d] = <<>>]
      /\ UNCHANGED <<clock, walker, calls, came>>
  BY <1>1 DEF ClearTree, walk
<1>3. TreesTyped
  BY DEF TreesInv
<1>4. DOMAIN <<>> = {}
  OBVIOUS
<1>5. \A e \in Bodies :
        /\ memory'[e] = IF e = d THEN <<>> ELSE memory[e]
        /\ latest'[e] = IF e = d THEN <<>> ELSE latest[e]
        /\ wins'[e] = IF e = d THEN <<>> ELSE wins[e]
        /\ writers'[e] = IF e = d THEN {} ELSE writers[e]
  BY <1>2, <1>3 DEF TreesTyped
<1>6. TreesTyped'
  <2>1. \A e \in Bodies : \A p \in DOMAIN memory'[e] : memory'[e][p] \in NodeState
    BY <1>3, <1>4, <1>5 DEF TreesTyped, BehaviorTreesTypeOK
  <2>2. BehaviorTreesTypeOK'
    BY <1>2, <1>3, <2>1 DEF TreesTyped, BehaviorTreesTypeOK
  <2>3. /\ memory' = [e \in Bodies |-> memory'[e]] /\ latest' = [e \in Bodies |-> latest'[e]]
        /\ wins' = [e \in Bodies |-> wins'[e]]
    BY <1>2, <1>3 DEF TreesTyped
  <2>4. writers' \in [Bodies -> SUBSET Trees]
    BY <1>2, <1>3 DEF TreesTyped
  <2>. QED BY <2>2, <2>3, <2>4 DEF TreesTyped
<1>7. Chained' /\ CameFrom'
  BY <1>2 DEF TreesInv, Chained, CameFrom
<1>8. ASSUME NEW e \in Bodies PROVE KeptOf(e)'
  <2>1. CASE e = d
    BY <1>4, <1>5, <2>1 DEF KeptOf
  <2>2. CASE e # d
    <3>1. KeptOf(e) /\ BeingRun(e) \subseteq BeingRun(e)'
      BY <1>2 DEF TreesInv, BeingRun
    <3>. QED BY <1>5, <2>2, <3>1, OthersKept
  <2>. QED BY <2>1, <2>2
<1>. QED BY <1>6, <1>7, <1>8 DEF TreesInv

\* A walk begins at the root.
LEMMA TickTreeKeeps ==
    ASSUME TreesInv, NEW b \in Minds, TickTree(b)
    PROVE  TreesInv'
<1>1. PICK d \in Bodies : d = BodyOf[b]
  BY TreesAssumption
<1>2. PICK t : t = tree[b]
  OBVIOUS
<1>3. PICK g : g = Begun(<<>>)
  OBVIOUS
<1>4. /\ walker = NoMind /\ t # NoTree /\ clock < MaxClock /\ clock' \in {clock, clock + 1}
      /\ walker' = b /\ calls' = <<g>>
      /\ writers' = [writers EXCEPT ![d] = writers[d] \cup {t}]
      /\ UNCHANGED <<tree, memory, came>>
      /\ IF OneWriter(d)' THEN latest' = latest /\ wins' = wins
         ELSE latest' = [latest EXCEPT ![d] = <<>>] /\ wins' = [wins EXCEPT ![d] = <<>>]
  BY <1>1, <1>2, <1>3 DEF TickTree
<1>5. TreesTyped /\ came = NoStatus
  BY <1>4 DEF TreesInv, CameFrom
<1>6. t \in Trees /\ IsTree(t) /\ <<>> \in DOMAIN t /\ <<>> \in Paths
  <2>1. t \in Trees
    BY <1>2, <1>4, <1>5 DEF TreesTyped, BehaviorTreesTypeOK
  <2>. QED BY <2>1, TreesAssumption DEF IsTree, Paths
<1>7. g \in CallOf /\ g.at = <<>>
  BY <1>3, <1>6 DEF Begun, CallOf, Status
<1>8. calls' \in Seq(CallOf) /\ calls' # <<>> /\ Len(calls') = 1 /\ calls'[1] = g
  BY <1>4, <1>7
<1>9. TreesTyped'
  <2>1. clock' \in 0 .. MaxClock
    BY <1>4, <1>5, TreesAssumption DEF TreesTyped, BehaviorTreesTypeOK
  <2>2. walker' \in Minds \cup {NoMind} /\ walker' # NoMind
    BY <1>4, TreesAssumption
  <2>3. BehaviorTreesTypeOK'
    BY <1>4, <1>5, <1>8, <2>1, <2>2 DEF TreesTyped, BehaviorTreesTypeOK, CallOf
  <2>4. latest' = [e \in Bodies |-> latest'[e]] /\ wins' = [e \in Bodies |-> wins'[e]]
    BY <1>4, <1>5 DEF TreesTyped
  <2>5. writers' \in [Bodies -> SUBSET Trees]
    BY <1>4, <1>5, <1>6 DEF TreesTyped
  <2>. QED BY <1>4, <1>5, <2>3, <2>4, <2>5 DEF TreesTyped
<1>10. writers'[d] = writers[d] \cup {t} /\ \A e \in Bodies : e # d => writers'[e] = writers[e]
  BY <1>4, <1>5 DEF TreesTyped
<1>11. Chained'
  <2>1. tree'[walker'] = t /\ Body' = d
    BY <1>1, <1>2, <1>4 DEF Body
  <2>2. OnPath(1)'
    BY <1>4, <1>6, <1>7, <1>8, <2>1 DEF OnPath
  <2>. QED BY <1>8, <1>10, <2>1, <2>2 DEF Chained
<1>12. CameFrom'
  BY <1>4, <1>5 DEF CameFrom
<1>13. ASSUME NEW e \in Bodies PROVE KeptOf(e)'
  <2>1. KeptOf(e) /\ BeingRun(e) = {}
    BY <1>4 DEF TreesInv, BeingRun
  <2>2. CASE e # d
    <3>1. /\ memory'[e] = memory[e] /\ latest'[e] = latest[e] /\ wins'[e] = wins[e]
          /\ writers'[e] = writers[e]
      BY <1>4, <1>5, <1>10, <2>2 DEF TreesTyped
    <3>. QED BY <2>1, <3>1, OthersKept
  <2>3. CASE e = d
    <3>1. SUFFICES ASSUME OneWriter(d)', NEW u \in writers'[d]
                   PROVE  /\ Settles(memory'[d], latest'[d], u, BeingRun(d)')
                          /\ Counts(memory'[d], wins'[d], u)
      BY <1>10, <2>3 DEF KeptOf
    <3>2. memory'[d] = memory[d] /\ latest'[d] = latest[d] /\ wins'[d] = wins[d]
      BY <1>4, <3>1
    <3>3. u = t /\ (writers[d] = {} \/ t \in writers[d]) /\ OneWriter(d)
      BY <1>10, <3>1 DEF OneWriter
    <3>4. CASE writers[d] = {}
      <4>1. DOMAIN memory[d] = {} /\ DOMAIN latest[d] = {} /\ DOMAIN wins[d] = {}
        BY <2>1, <2>3, <3>4 DEF KeptOf
      <4>. QED BY <3>2, <4>1 DEF Settles, Counts
    <3>5. CASE t \in writers[d]
      <4>1. Settles(memory[d], latest[d], t, BeingRun(d)) /\ Counts(memory[d], wins[d], t)
        BY <2>1, <2>3, <3>3, <3>5 DEF KeptOf
      <4>2. Settles(memory[d], latest[d], t, BeingRun(d)')
        BY <2>1, <2>3, <4>1 DEF Settles
      <4>. QED BY <3>2, <3>3, <4>1, <4>2
    <3>. QED BY <3>3, <3>4, <3>5
  <2>. QED BY <2>2, <2>3
<1>. QED BY <1>9, <1>11, <1>12, <1>13 DEF TreesInv

LEMMA TreesBegin ==
    ASSUME BehaviorTreesInit
    PROVE  TreesInv
<1>1. DOMAIN <<>> = {}
  OBVIOUS
<1>2. TreesTyped
  <2>1. 0 \in 0 .. MaxClock
    BY TreesAssumption
  <2>. QED BY <1>1, <2>1 DEF BehaviorTreesInit, TreesTyped, BehaviorTreesTypeOK
<1>3. Chained /\ CameFrom
  BY DEF BehaviorTreesInit, Chained, CameFrom
<1>4. \A e \in Bodies : KeptOf(e)
  BY <1>1 DEF BehaviorTreesInit, KeptOf
<1>. QED BY <1>2, <1>3, <1>4 DEF TreesInv

LEMMA TreesStand ==
    ASSUME TreesInv, UNCHANGED btVars
    PROVE  TreesInv'
<1>1. UNCHANGED <<tree, memory, clock, walker, calls, came, latest, writers, wins>>
  BY DEF btVars, walk
<1>2. TreesTyped'
  BY <1>1 DEF TreesInv, TreesTyped, BehaviorTreesTypeOK
<1>3. Chained' /\ CameFrom'
  BY <1>1 DEF TreesInv, Chained, CameFrom, OnPath, Leads, Unfinished, NodeAt, Mine, Body, ChildOfTop,
              Here, This, Top, OneWriter
<1>4. ASSUME NEW e \in Bodies PROVE KeptOf(e)'
  <2>1. KeptOf(e) /\ BeingRun(e) \subseteq BeingRun(e)'
    BY <1>1 DEF TreesInv, BeingRun, Body
  <2>. QED BY <1>1, <2>1, OthersKept
<1>. QED BY <1>2, <1>3, <1>4 DEF TreesInv

LEMMA TreesStep ==
    ASSUME TreesInv, BehaviorTreesNext
    PROVE  TreesInv'
<1>1. CASE RunNode
  BY <1>1, LeafKeeps, WaitKeeps, ChildrenKeep, RefuseKeeps, RunChildKeeps, WrappedKeeps DEF RunNode
<1>2. CASE \E b \in Minds : \/ \E t \in Trees : SetTree(b, t)
                            \/ ClearTree(b)
                            \/ TickTree(b)
  BY <1>2, SetTreeKeeps, ClearTreeKeeps, TickTreeKeeps
<1>. QED BY <1>1, <1>2 DEF BehaviorTreesNext

\* The invariant is what TreesResume asks, of the one tree that has been writing.
LEMMA TreesInvResumes ==
    ASSUME TreesInv
    PROVE  BehaviorTreesTypeOK /\ TreesResume
<1>1. ASSUME NEW e \in Bodies, OneWriter(e), writers[e] = {}
      PROVE  DOMAIN latest[e] = {} /\ DOMAIN wins[e] = {}
  BY <1>1 DEF TreesInv, KeptOf
<1>2. ASSUME NEW e \in Bodies, OneWriter(e), NEW t \in writers[e]
      PROVE  /\ Settles(memory[e], latest[e], t, BeingRun(e))
             /\ Counts(memory[e], wins[e], t)
  BY <1>2 DEF TreesInv, KeptOf
<1>3. ResumesTheRunning
  <2>1. SUFFICES ASSUME NEW e \in Bodies, OneWriter(e), NEW p \in DOMAIN latest[e] \ BeingRun(e),
                        latest[e][p].kind \in {"sequence", "selector"}
                 PROVE  /\ (p \in DOMAIN memory[e]) <=> latest[e][p].status = "running"
                        /\ p \in DOMAIN memory[e] =>
                             latest[e][Append(p, <<latest[e][p].kind, memory[e][p].child>>)].status
                               = "running"
    BY Zenon DEF ResumesTheRunning
  <2>2. PICK t : t \in writers[e]
    BY <1>1, <2>1
  <2>. QED BY <1>2, <2>1, <2>2 DEF Settles
<1>4. RepeatsExactly
  <2>1. SUFFICES ASSUME NEW e \in Bodies, OneWriter(e), NEW p \in DOMAIN wins[e]
                 PROVE  /\ wins[e][p].count <= Needed(wins[e][p].wanted)
                        /\ wins[e][p].reported \in {-1, Needed(wins[e][p].wanted)}
    BY Zenon DEF RepeatsExactly, Needed
  <2>2. PICK t : t \in writers[e]
    BY <1>1, <2>1
  <2>. QED BY <1>2, <2>1, <2>2 DEF Counts
<1>. QED BY <1>3, <1>4 DEF TreesResume, TreesInv, TreesTyped

-----------------------------------------------------------------------------
(***************************************************************************)
(* The debugger: the types of its state.                                   *)
(***************************************************************************)

\* The channels hold commands, up to their capacity.
DebuggerTyped ==
    /\ DebuggerTypeOK
    /\ commands \in [DebugSessions -> Seq(Commands)]

LEMMA DebuggerBegins ==
    ASSUME DebuggerInit
    PROVE  DebuggerTyped
<1>1. CommandCapacity \in Nat \ {0} /\ MaxPauses \in Nat \ {0}
  BY CapacityAssumption
<1>2. commands \in [DebugSessions -> Seq(Commands)] /\ \A s \in DebugSessions : Len(commands[s]) = 0
  BY DEF DebuggerInit
<1>3. 0 \in 0..MaxPauses /\ \A s \in DebugSessions : Len(commands[s]) <= CommandCapacity
  BY <1>1, <1>2
<1>4. hook \in [does : {"nothing", "runs", "waits"}, under : DebugSessions \cup {NoSession}]
  BY DEF DebuggerInit, NoHook
<1>5. events \in [DebugSessions -> 0..MaxPauses]
  BY <1>3 DEF DebuggerInit
<1>6. /\ mine \in [Masters -> DebugSessions \cup {NoSession}] /\ ended \subseteq DebugSessions
      /\ armed \in [DebugSessions -> BOOLEAN] /\ stepping \in BOOLEAN
      /\ shownPaused \in [DebugSessions -> BOOLEAN]
      /\ answering \in [Masters -> DebugSessions \cup {NoSession}]
  BY DEF DebuggerInit
<1>. QED BY <1>2, <1>3, <1>4, <1>5, <1>6 DEF DebuggerTyped, DebuggerTypeOK

\* A channel takes a command if it is not full, and gives the first one.
LEMMA ChannelSends ==
    ASSUME NEW q \in Seq(Commands), NEW c \in Commands, Len(q) < CommandCapacity
    PROVE  Append(q, c) \in Seq(Commands) /\ Len(Append(q, c)) <= CommandCapacity
<1>1. Len(Append(q, c)) = Len(q) + 1 /\ Len(q) \in Nat /\ Append(q, c) \in Seq(Commands)
  BY AppendProperties, LenProperties
<1>. QED BY <1>1, CapacityAssumption

LEMMA ChannelServes ==
    ASSUME NEW q \in Seq(Commands), q # <<>>, Len(q) <= CommandCapacity
    PROVE  Tail(q) \in Seq(Commands) /\ Len(Tail(q)) <= CommandCapacity
<1>1. Len(Tail(q)) = Len(q) - 1 /\ Len(q) \in Nat /\ Tail(q) \in Seq(Commands)
  BY HeadTailProperties, LenProperties
<1>. QED BY <1>1, CapacityAssumption

LEMMA DebuggerStep ==
    ASSUME DebuggerTyped, DebuggerNext
    PROVE  DebuggerTyped'
<1>1. ASSUME NEW g \in Masters, NEW s \in DebugSessions, StartSession(g, s)
      PROVE  DebuggerTyped'
  BY <1>1 DEF StartSession, DebuggerTyped, DebuggerTypeOK
<1>2. ASSUME NEW g \in Masters, EndSession(g) PROVE DebuggerTyped'
  <2>1. mine[g] \in DebugSessions
    BY <1>2 DEF EndSession, DebuggerTyped, DebuggerTypeOK
  <2>. QED BY <1>2, <2>1 DEF EndSession, DebuggerTyped, DebuggerTypeOK
<1>3. ASSUME NEW g \in Masters, NEW enabled \in BOOLEAN, ArmBreakpoint(g, enabled)
      PROVE  DebuggerTyped'
  BY <1>3 DEF ArmBreakpoint, DebuggerTyped, DebuggerTypeOK
<1>4. ASSUME NEW g \in Masters, NEW c \in Commands, SendCommand(g, c) PROVE DebuggerTyped'
  <2>1. PICK s \in DebugSessions : s = mine[g]
    BY <1>4 DEF SendCommand, DebuggerTyped, DebuggerTypeOK
  <2>2. PICK q : q = Append(commands[s], c)
    OBVIOUS
  <2>3. /\ commands' = [commands EXCEPT ![s] = q]
        /\ answering' = IF c = "pause" THEN answering ELSE [answering EXCEPT ![g] = s]
        /\ UNCHANGED <<mine, ended, armed, hook, stepping, events, shownPaused>>
    BY <1>4, <2>1, <2>2 DEF SendCommand
  <2>4. q \in Seq(Commands) /\ Len(q) <= CommandCapacity
    BY <1>4, <2>1, <2>2, ChannelSends DEF SendCommand, DebuggerTyped
  <2>5. answering' \in [Masters -> DebugSessions \cup {NoSession}]
    BY <2>3 DEF DebuggerTyped, DebuggerTypeOK
  <2>6. commands' \in [DebugSessions -> Seq(Commands)]
    BY <2>3, <2>4 DEF DebuggerTyped
  <2>7. \A d \in DebugSessions : Len(commands'[d]) <= CommandCapacity
    BY <2>3, <2>4 DEF DebuggerTyped, DebuggerTypeOK
  <2>. QED BY <2>3, <2>5, <2>6, <2>7 DEF DebuggerTyped, DebuggerTypeOK
<1>5. ASSUME NEW g \in Masters, AnswerResumed(g) PROVE DebuggerTyped'
  <2>1. answering[g] \in DebugSessions
    BY <1>5 DEF AnswerResumed, DebuggerTyped, DebuggerTypeOK
  <2>. QED BY <1>5, <2>1 DEF AnswerResumed, DebuggerTyped, DebuggerTypeOK
<1>6. ASSUME NEW s \in DebugSessions, ForwardPause(s) PROVE DebuggerTyped'
  <2>1. events' = [events EXCEPT ![s] = events[s] - 1] /\ events[s] > 0
    BY <1>6 DEF ForwardPause
  <2>2. events' \in [DebugSessions -> 0..MaxPauses]
    BY <2>1, CapacityAssumption DEF DebuggerTyped, DebuggerTypeOK
  <2>3. shownPaused' \in [DebugSessions -> BOOLEAN]
    BY <1>6 DEF ForwardPause, DebuggerTyped, DebuggerTypeOK
  <2>. QED BY <1>6, <2>2, <2>3 DEF ForwardPause, DebuggerTyped, DebuggerTypeOK
<1>7. ASSUME NEW s \in DebugSessions, HookBegins(s) PROVE DebuggerTyped'
  BY <1>7 DEF HookBegins, DebuggerTyped, DebuggerTypeOK
<1>8. ASSUME NEW s \in DebugSessions, PauseScript(s) PROVE DebuggerTyped'
  <2>1. events' = [events EXCEPT ![s] = events[s] + 1] /\ events[s] < MaxPauses
    BY <1>8 DEF PauseScript
  <2>2. events' \in [DebugSessions -> 0..MaxPauses]
    BY <2>1, CapacityAssumption DEF DebuggerTyped, DebuggerTypeOK
  <2>3. hook' = [does |-> "waits", under |-> s]
    BY <1>8 DEF PauseScript
  <2>. QED BY <1>8, <2>2, <2>3 DEF PauseScript, DebuggerTyped, DebuggerTypeOK
<1>9. ASSUME HookReturns PROVE DebuggerTyped'
  BY <1>9 DEF HookReturns, NoHook, DebuggerTyped, DebuggerTypeOK
<1>10. ASSUME NEW s \in DebugSessions, ServeCommand(s) PROVE DebuggerTyped'
  <2>1. PICK q : q = Tail(commands[s])
    OBVIOUS
  <2>2. /\ commands' = [commands EXCEPT ![s] = q] /\ commands[s] # <<>>
        /\ hook' \in {hook, [does |-> "runs", under |-> s]}
        /\ stepping' \in BOOLEAN
        /\ UNCHANGED <<mine, ended, armed, events, shownPaused, answering>>
    BY <1>10, <2>1 DEF ServeCommand
  <2>3. q \in Seq(Commands) /\ Len(q) <= CommandCapacity
    BY <2>1, <2>2, ChannelServes DEF DebuggerTyped, DebuggerTypeOK
  <2>4. commands' \in [DebugSessions -> Seq(Commands)]
    BY <2>2, <2>3 DEF DebuggerTyped
  <2>5. \A d \in DebugSessions : Len(commands'[d]) <= CommandCapacity
    BY <2>2, <2>3 DEF DebuggerTyped, DebuggerTypeOK
  <2>6. hook' \in [does : {"nothing", "runs", "waits"}, under : DebugSessions \cup {NoSession}]
    BY <2>2 DEF DebuggerTyped, DebuggerTypeOK
  <2>. QED BY <2>2, <2>4, <2>5, <2>6 DEF DebuggerTyped, DebuggerTypeOK
<1>11. ASSUME NEW s \in DebugSessions, Terminate(s) PROVE DebuggerTyped'
  BY <1>11 DEF Terminate, NoHook, DebuggerTyped, DebuggerTypeOK
<1>. QED BY <1>1, <1>2, <1>3, <1>4, <1>5, <1>6, <1>7, <1>8, <1>9, <1>10, <1>11 DEF DebuggerNext

-----------------------------------------------------------------------------
(***************************************************************************)
(* The three together, as they are run.                                    *)
(***************************************************************************)

\* Whatever trees are set, cleared and walked, with whatever answers of their leaves,
\* a sequence or a selector of the one tree that writes an entity's memory goes on at
\* the child that was running, and a Repeat reports the wanted number of successes.
THEOREM TreesGoOn == BehaviorTreesSpec => [](BehaviorTreesTypeOK /\ TreesResume)
<1>1. BehaviorTreesInit => TreesInv
  BY TreesBegin
<1>2. TreesInv /\ [BehaviorTreesNext]_btVars => TreesInv'
  BY TreesStep, TreesStand
<1>3. TreesInv => BehaviorTreesTypeOK /\ TreesResume
  BY TreesInvResumes
<1>. HIDE DEF TreesInv, BehaviorTreesInit, BehaviorTreesNext, BehaviorTreesTypeOK, TreesResume
<1>. QED BY <1>1, <1>2, <1>3, PTL DEF BehaviorTreesSpec

LEMMA DebuggerStands ==
    ASSUME DebuggerTyped, UNCHANGED dbVars
    PROVE  DebuggerTyped'
BY DEF DebuggerTyped, DebuggerTypeOK, dbVars

\* What the modules keep, together.
SuspendInv == TypeOK /\ OnePlace /\ DebuggerTyped /\ TreesInv

\* Wherever a script is suspended, what is needed to go on with it is kept: of a
\* coroutine its one place, of a tree where it was; and every channel of the debugger
\* and every tick keeps its bound.
THEOREM SuspendedGoOn == SuspendSpec => [](SuspendTypeOK /\ OnePlace /\ TreesResume)
<1>1. SuspendInit => SuspendInv
  BY NobodyPlaced, DebuggerBegins, TreesBegin DEF SuspendInit, SuspendInv
<1>2. ASSUME SuspendInv, [SuspendNext]_suspendVars PROVE SuspendInv'
  <2>1. [Next]_vars /\ [DebuggerNext]_dbVars /\ [BehaviorTreesNext]_btVars
    BY <1>2 DEF SuspendNext, suspendVars
  <2>2. TypeOK' /\ OnePlace'
    BY <1>2, <2>1, PlacesStep DEF SuspendInv
  <2>3. DebuggerTyped'
    BY <1>2, <2>1, DebuggerStep, DebuggerStands DEF SuspendInv
  <2>4. TreesInv'
    BY <1>2, <2>1, TreesStep, TreesStand DEF SuspendInv
  <2>. QED BY <2>2, <2>3, <2>4 DEF SuspendInv
<1>3. SuspendInv => SuspendTypeOK /\ OnePlace /\ TreesResume
  BY TreesInvResumes DEF SuspendInv, SuspendTypeOK, DebuggerTyped
<1>. HIDE DEF SuspendInv, SuspendInit, SuspendNext, SuspendFairness, SuspendTypeOK, OnePlace, TreesResume
<1>. QED BY <1>1, <1>2, <1>3, PTL DEF SuspendSpec
================================================================================

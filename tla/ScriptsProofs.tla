----------------------------- MODULE ScriptsProofs -----------------------------
(***************************************************************************)
(* Theorems about what the server does for scripts: the store of their     *)
(* state, the changes they make and what they read back, behaviours and their *)
(* subscriptions, reloads, dispatch, watches, contracts, action scripts and *)
(* archetypes, and the run that checks them together.  The modules share no *)
(* variable.                                                               *)
(***************************************************************************)
EXTENDS MCScripts, EngineProofs, IntervalInduction, FiniteSetTheorems, SequenceTheorems,
        TLAPS

(***************************************************************************)
(* Watches.  A one-shot watch that is active has not triggered since it    *)
(* was registered or resumed last: Spent deactivates it under the lock     *)
(* under which it triggers.                                                *)
(***************************************************************************)

\* A watch that may still trigger has one trigger left.
Armed(w) == watches[w].active /\ watches[w].once

WatchInv ==
    /\ watches \in [WatchIds -> Watch \cup {Gone}]
    /\ value \in Readings
    /\ fired \in [WatchIds -> Nat] /\ resumed \in [WatchIds -> Nat]
    /\ \A w \in WatchIds : /\ fired[w] <= 1 + resumed[w]
                           /\ Armed(w) => fired[w] <= resumed[w]

\* Removing watches disarms them.
LEMMA DisarmingKeeps ==
    ASSUME WatchInv, NEW ids, Unregister(ids), UNCHANGED <<value, fired, resumed>>
    PROVE  WatchInv'
BY DEF WatchInv, Unregister, Armed, Gone

\* Registering, resuming and checking keep the invariant.
LEMMA WatchInductive == WatchInv /\ [WatchesNext]_watchVars => WatchInv'
<1>. SUFFICES ASSUME WatchInv, [WatchesNext]_watchVars PROVE WatchInv'
  OBVIOUS
<1>1. ASSUME NEW w \in WatchIds, NEW k \in WatchConditions, NEW once \in BOOLEAN,
             InsertWatch(w, k, once)
      PROVE  WatchInv'
  BY <1>1 DEF WatchInv, InsertWatch, Armed, Watch
<1>2. ASSUME NEW w \in WatchIds, NEW on \in BOOLEAN, SetActive(w, on) PROVE WatchInv'
  BY <1>2 DEF WatchInv, SetActive, Armed, Watch, Gone, Registered
<1>3. ASSUME NEW c \in Checkers, NEW w \in WatchIds, CheckWatch(c, w) PROVE WatchInv'
  <2>1. CASE ~Registered(w)
    BY <1>3, <2>1 DEF WatchInv, CheckWatch, Armed
  <2>2. CASE Registered(w)
    <3> DEFINE old == watches[w]
               new == AfterLook(w)
    <3>1. old \in Watch
      BY <2>2 DEF WatchInv, Registered
    <3>2. new \in Watch /\ new.once = old.once /\ (new.active => old.active)
      BY <3>1 DEF WatchInv, AfterLook, Looked, Spent, Triggers, Watch
    <3>3. Triggers(w) /\ old.once => old.active /\ ~new.active
      BY <3>1 DEF AfterLook, Looked, Spent, Triggers, Watch
    <3>4. watches' = [watches EXCEPT ![w] = new]
      BY <1>3, <2>2 DEF CheckWatch
    <3>5. fired' = [fired EXCEPT ![w] = IF Triggers(w) /\ old.once THEN @ + 1 ELSE @]
      BY <1>3, <2>2 DEF CheckWatch
    <3>6. Armed(w)' => old.active /\ old.once /\ ~(Triggers(w) /\ old.once)
      BY <3>2, <3>3, <3>4 DEF WatchInv, Armed
    <3>7. /\ fired'[w] <= 1 + resumed[w]
          /\ Armed(w)' => fired'[w] <= resumed[w]
      BY <3>3, <3>5, <3>6 DEF WatchInv, Armed
    <3>8. \A v \in WatchIds : v # w => (Armed(v)' <=> Armed(v)) /\ fired'[v] = fired[v]
      BY <3>4, <3>5 DEF WatchInv, Armed
    <3>9. watches' \in [WatchIds -> Watch \cup {Gone}] /\ fired' \in [WatchIds -> Nat]
      BY <3>2, <3>4, <3>5 DEF WatchInv
    <3>. QED BY <1>3, <3>7, <3>8, <3>9 DEF WatchInv, CheckWatch
  <2>. QED BY <2>1, <2>2
<1>4. CASE \/ \E w \in WatchIds : UnregisterWatch(w)
           \/ UnregisterListed
           \/ \E c \in Checkers : EndCheck(c)
  BY <1>4, DisarmingKeeps DEF UnregisterWatch, UnregisterListed, EndCheck
<1>5. CASE \/ \E w \in WatchIds : ListWatch(w)
           \/ \E c \in Checkers : BeginCheck(c)
           \/ \E v \in Readings : SetValue(v)
           \/ UNCHANGED watchVars
  BY <1>5 DEF WatchInv, Armed, ListWatch, BeginCheck, SetValue, watchVars
<1>. QED BY <1>1, <1>2, <1>3, <1>4, <1>5 DEF WatchesNext, PauseWatch, ResumeWatch

\* The other maps keep their types, whatever is listed, checked and removed.
LEMMA WatchTypesKept ==
    WatchInv /\ WatchesTypeOK /\ [WatchesNext]_watchVars => WatchesTypeOK'
<1>. SUFFICES ASSUME WatchInv, WatchInv', WatchesTypeOK, [WatchesNext]_watchVars
              PROVE  WatchesTypeOK'
  BY WatchInductive
<1>. SUFFICES /\ byEntity' \subseteq WatchIds /\ checking' \in [Checkers -> SUBSET WatchIds]
              /\ toRemove' \in [Checkers -> SUBSET WatchIds]
              /\ resumed' \in [WatchIds -> 0..MaxResumes]
  BY DEF WatchInv, WatchesTypeOK
<1>. USE DEF WatchesTypeOK
<1>1. ASSUME NEW w \in WatchIds, NEW k \in WatchConditions, NEW once \in BOOLEAN,
             InsertWatch(w, k, once)
      PROVE  UNCHANGED <<byEntity, checking, toRemove, resumed>>
  BY <1>1 DEF InsertWatch
<1>2. ASSUME NEW w \in WatchIds, PauseWatch(w) \/ ResumeWatch(w)
      PROVE  /\ UNCHANGED <<byEntity, checking, toRemove>>
             /\ resumed' \in [WatchIds -> 0..MaxResumes]
  BY <1>2, ValueAssumption DEF PauseWatch, ResumeWatch, SetActive
<1>3. ASSUME NEW c \in Checkers, NEW w \in WatchIds, CheckWatch(c, w)
      PROVE  /\ UNCHANGED <<byEntity, resumed>> /\ checking' \in [Checkers -> SUBSET WatchIds]
             /\ toRemove' \in [Checkers -> SUBSET WatchIds]
  <2>1. CASE Registered(w)
    BY <1>3, <2>1 DEF CheckWatch
  <2>2. CASE ~Registered(w)
    BY <1>3, <2>2 DEF CheckWatch
  <2>. QED BY <2>1, <2>2
<1>4. CASE \/ \E w \in WatchIds : UnregisterWatch(w) \/ ListWatch(w)
           \/ UnregisterListed
           \/ \E c \in Checkers : BeginCheck(c) \/ EndCheck(c)
           \/ \E v \in Readings : SetValue(v)
           \/ UNCHANGED watchVars
  BY <1>4 DEF UnregisterWatch, ListWatch, UnregisterListed, BeginCheck, EndCheck, Unregister,
              SetValue, watchVars
<1>. QED BY <1>1, <1>2, <1>3, <1>4 DEF WatchesNext

\* Any number of threads check any number of watches while scripts pause, resume and
\* remove them: a one-shot watch triggers once, and once more for each resume
\* (check_entity, should_trigger).
THEOREM WatchesMeanOnce == WatchesSpec => [](WatchesTypeOK /\ OnceMeansOnce)
<1>1. WatchesInit => WatchInv /\ WatchesTypeOK
  BY ValueAssumption DEF WatchesInit, WatchInv, WatchesTypeOK, Armed, Gone, Readings
<1>2. WatchInv => OnceMeansOnce
  BY DEF WatchInv, OnceMeansOnce
<1>. QED BY <1>1, <1>2, WatchInductive, WatchTypesKept, PTL DEF WatchesSpec

-----------------------------------------------------------------------------
(***************************************************************************)
(* Contracts.  The files may change at any time, and a load that skips the *)
(* check may follow; the mark of a check stays with the text it was of.    *)
(***************************************************************************)

ContractInv ==
    /\ DOMAIN ast = Missions /\ DOMAIN vetted = Missions
    /\ ast = [m \in Missions |-> ast[m]] /\ vetted = [m \in Missions |-> vetted[m]]
    /\ VettedScriptsAnswer

\* What a check found valid answers, with the arguments the runner passes.
LEMMA ValidAnswers ==
    ASSUME NEW content, IsValid(content) PROVE \A hk \in Required : Answers(content, hk)
BY DEF IsValid, FitsContract, Answers

\* Whatever a task inserts unchecked loses the mark; what it checks answers.
LEMMA ContractInductive == ContractInv /\ [ContractsNext]_contractVars => ContractInv'
<1>. SUFFICES ASSUME ContractInv, [ContractsNext]_contractVars PROVE ContractInv'
  OBVIOUS
<1>1. ASSUME NEW done \in SUBSET Missions, LoadAllScripts(done) PROVE ContractInv'
  BY <1>1 DEF ContractInv, VettedScriptsAnswer, LoadAllScripts
<1>2. ASSUME NEW t \in Loaders, NEW m \in Missions, LoadScript(t, m) PROVE ContractInv'
  BY <1>2 DEF ContractInv, VettedScriptsAnswer, LoadScript
<1>3. ASSUME NEW t \in Loaders, CheckLoaded(t) PROVE ContractInv'
  BY <1>3, ValidAnswers DEF ContractInv, VettedScriptsAnswer, CheckLoaded
<1>4. ASSUME NEW t \in Loaders, RemoveFailed(t) PROVE ContractInv'
  BY <1>4 DEF ContractInv, VettedScriptsAnswer, RemoveFailed
<1>5. ASSUME NEW t \in Loaders, InsertReloaded(t) PROVE ContractInv'
  BY <1>5, ValidAnswers DEF ContractInv, VettedScriptsAnswer, InsertReloaded
<1>6. CASE UNCHANGED <<ast, vetted>>
  BY <1>6 DEF ContractInv, VettedScriptsAnswer
<1>7. ASSUME NEW m \in Missions,
             \/ WriteSource(m) \/ StartMission(m)
             \/ \E hk \in ContractHooks : Proceed(m, hk)
             \/ \E t \in Loaders : CompileForReload(t, m)
      PROVE  ContractInv'
  BY <1>6, <1>7 DEF WriteSource, StartMission, Proceed, CompileForReload
<1>8. CASE UNCHANGED contractVars
  BY <1>6, <1>8 DEF contractVars
<1>. QED BY <1>1, <1>2, <1>3, <1>4, <1>5, <1>7, <1>8 DEF ContractsNext

\* The types of the files, and of what the tasks are loading.
ContractTypes ==
    /\ ContractsTypeOK
    /\ \A t \in Loaders :
            load[t] # NoLoad /\ load[t].op = "insert" => load[t].ast \in ScriptContents
    /\ DOMAIN load = Loaders /\ load = [t \in Loaders |-> load[t]]

\* Whatever is written and loaded keeps them.
LEMMA ContractTypesKept ==
    ContractTypes /\ [ContractsNext]_contractVars => ContractTypes'
<1>. SUFFICES ASSUME ContractTypes, [ContractsNext]_contractVars PROVE ContractTypes'
  OBVIOUS
<1>. USE WritesAssumption
<1>0. /\ ContractsTypeOK /\ source \in [Missions -> ScriptContents \cup {Unparsable}]
      /\ ast \in [Missions -> ScriptContents \cup {NoScript}]
      /\ vetted \in [Missions -> BOOLEAN]
  BY DEF ContractTypes, ContractsTypeOK
<1>1. ASSUME NEW m \in Missions, WriteSource(m) PROVE ContractTypes'
  <2>1. source' \in [Missions -> ScriptContents \cup {Unparsable}]
    <3>1. CASE source' = [source EXCEPT ![m] = Unparsable]
      BY <1>0, <3>1
    <3>2. CASE source' = [source EXCEPT ![m] = [hk \in ContractHooks |-> "right"]]
      <4>1. [hk \in ContractHooks |-> "right"] \in ScriptContents
        BY DEF ScriptContents, Forms
      <4>. QED BY <1>0, <3>2, <4>1
    <3>3. ASSUME NEW hk \in ContractHooks, NEW form \in Forms, source[m] # Unparsable,
                 source' = [source EXCEPT ![m][hk] = form]
          PROVE  source' \in [Missions -> ScriptContents \cup {Unparsable}]
      <4>1. source[m] \in [ContractHooks -> Forms]
        BY <1>0, <3>3 DEF ScriptContents
      <4>2. [source[m] EXCEPT ![hk] = form] \in ScriptContents
        BY <4>1 DEF ScriptContents
      <4>. QED BY <1>0, <3>3, <4>2
    <3>. QED BY <1>1, <3>1, <3>2, <3>3 DEF WriteSource
  <2>. QED BY <1>1, <2>1 DEF WriteSource, ContractTypes, ContractsTypeOK
<1>2. ASSUME NEW done \in SUBSET Missions, LoadAllScripts(done) PROVE ContractTypes'
  BY <1>2 DEF ContractTypes, ContractsTypeOK, LoadAllScripts
<1>3. ASSUME NEW t \in Loaders, NEW m \in Missions, LoadScript(t, m) PROVE ContractTypes'
  BY <1>3 DEF ContractTypes, ContractsTypeOK, LoadScript
<1>4. ASSUME NEW t \in Loaders, NEW m \in Missions, CompileForReload(t, m) PROVE ContractTypes'
  BY <1>4 DEF ContractTypes, ContractsTypeOK, CompileForReload
<1>5. ASSUME NEW t \in Loaders, CheckLoaded(t) PROVE ContractTypes'
  BY <1>5 DEF ContractTypes, ContractsTypeOK, CheckLoaded
<1>6. ASSUME NEW t \in Loaders, RemoveFailed(t) PROVE ContractTypes'
  BY <1>6 DEF ContractTypes, ContractsTypeOK, RemoveFailed
<1>7. ASSUME NEW t \in Loaders, InsertReloaded(t) PROVE ContractTypes'
  BY <1>7 DEF ContractTypes, ContractsTypeOK, InsertReloaded
<1>8. CASE \/ \E m \in Missions : StartMission(m)
           \/ \E m \in Missions, hk \in ContractHooks : Proceed(m, hk)
           \/ UNCHANGED contractVars
  BY <1>8 DEF ContractTypes, ContractsTypeOK, StartMission, Proceed, contractVars
<1>. QED BY <1>1, <1>2, <1>3, <1>4, <1>5, <1>6, <1>7, <1>8 DEF ContractsNext

\* However files are written and loads, checks and reloads of any number of tasks
\* overlap, what a reload let in answers its mission (reload_script, validate_script).
THEOREM VettedAnswer == ContractsSpec => [](ContractsTypeOK /\ VettedScriptsAnswer)
<1>1. ContractsInit => ContractInv /\ ContractTypes
  BY WritesAssumption DEF ContractsInit, ContractInv, VettedScriptsAnswer, ContractTypes,
     ContractsTypeOK, ScriptContents, Forms
<1>2. ContractInv /\ ContractTypes => ContractsTypeOK /\ VettedScriptsAnswer
  BY DEF ContractInv, ContractTypes
<1>. QED BY <1>1, <1>2, ContractInductive, ContractTypesKept, PTL DEF ContractsSpec

-----------------------------------------------------------------------------
(***************************************************************************)
(* Transactions.  A change has one place at a time: recorded by the script *)
(* that makes it, in the queue, in the batch a connection took, or         *)
(* applied.  A lone script's open transactions know which part of the      *)
(* queue is theirs.                                                        *)
(***************************************************************************)

\* What the places of a change hold, as sequences of changes.
IsSequence(s) == \E S : s \in Seq(S)
IdSet(s) == {s[i].id : i \in DOMAIN s}
Distinct(s) == \A i, j \in DOMAIN s : s[i].id = s[j].id => i = j

\* An empty place holds no change.
LEMMA EmptyIds == IsSequence(<<>>) /\ IdSet(<<>>) = {} /\ Distinct(<<>>)
BY DEF IsSequence, IdSet, Distinct

\* A change put behind a sequence adds its identifier.
LEMMA AppendIds ==
    ASSUME NEW s, IsSequence(s), NEW c
    PROVE  /\ IsSequence(Append(s, c)) /\ Len(Append(s, c)) = Len(s) + 1
           /\ IdSet(Append(s, c)) = IdSet(s) \cup {c.id}
           /\ \A i \in 1..Len(s) : Append(s, c)[i] = s[i]
           /\ Append(s, c)[Len(s) + 1] = c
           /\ Distinct(s) /\ c.id \notin IdSet(s) => Distinct(Append(s, c))
<1>1. PICK S : s \in Seq(S)
  BY DEF IsSequence
<1>2. DEFINE T == S \cup {c}
<1>3. s \in Seq(T)
  BY <1>1
<1>4. Append(s, c) \in Seq(T)
  BY <1>3
<1>5. /\ Len(Append(s, c)) = Len(s) + 1
      /\ \A i \in 1..Len(s) : Append(s, c)[i] = s[i]
      /\ Append(s, c)[Len(s) + 1] = c
      /\ DOMAIN s = 1..Len(s) /\ DOMAIN Append(s, c) = 1..(Len(s) + 1) /\ Len(s) \in Nat
  BY <1>3, <1>4
<1>6. IdSet(Append(s, c)) = IdSet(s) \cup {c.id}
  BY <1>5 DEF IdSet
<1>7. ASSUME Distinct(s), c.id \notin IdSet(s) PROVE Distinct(Append(s, c))
  BY <1>5, <1>7 DEF Distinct, IdSet
<1>. QED BY <1>4, <1>5, <1>6, <1>7 DEF IsSequence

\* A prefix holds the identifiers of its positions.
LEMMA PrefixIds ==
    ASSUME NEW s, IsSequence(s), NEW n \in 0..Len(s)
    PROVE  LET p == SubSeq(s, 1, n)
           IN  /\ IsSequence(p) /\ Len(p) = n
               /\ \A i \in 1..n : p[i] = s[i]
               /\ IdSet(p) = {s[i].id : i \in 1..n} /\ IdSet(p) \subseteq IdSet(s)
               /\ Distinct(s) => Distinct(p)
<1> DEFINE p == SubSeq(s, 1, n)
<1>1. PICK S : s \in Seq(S)
  BY DEF IsSequence
<1>2. p \in Seq(S) /\ Len(p) = n /\ (\A i \in 1..n : p[i] = s[i])
  BY <1>1
<1>3. DOMAIN p = 1..n /\ DOMAIN s = 1..Len(s) /\ Len(s) \in Nat
  BY <1>1, <1>2
<1>4. IdSet(p) = {s[i].id : i \in 1..n}
  BY <1>2, <1>3 DEF IdSet
<1>5. IdSet(p) \subseteq IdSet(s)
  BY <1>3, <1>4 DEF IdSet
<1>6. Distinct(s) => Distinct(p)
  BY <1>2, <1>3 DEF Distinct
<1>. QED BY <1>2, <1>4, <1>5, <1>6 DEF IsSequence

\* Two sequences of identifiers, one behind the other.
LEMMA ConcatNat ==
    ASSUME NEW a \in Seq(Nat), NEW t \in Seq(Nat)
    PROVE  /\ a \o t \in Seq(Nat) /\ Len(a \o t) = Len(a) + Len(t)
           /\ \A i \in 1..(Len(a) + Len(t)) :
                (a \o t)[i] = IF i <= Len(a) THEN a[i] ELSE t[i - Len(a)]
OBVIOUS

\* Changes applied behind others: no identifier comes twice if none is in both.
LEMMA ConcatIds ==
    ASSUME NEW a \in Seq(Nat), NEW s, IsSequence(s), IdSet(s) \subseteq Nat
    PROVE  LET b == a \o Ids(s)
           IN  /\ b \in Seq(Nat)
               /\ {b[i] : i \in DOMAIN b} = {a[i] : i \in DOMAIN a} \cup IdSet(s)
               /\ /\ \A i, j \in DOMAIN a : a[i] = a[j] => i = j
                  /\ Distinct(s) /\ IdSet(s) \cap {a[i] : i \in DOMAIN a} = {}
                  => \A i, j \in DOMAIN b : b[i] = b[j] => i = j
<1> DEFINE b == a \o Ids(s)
<1>1. PICK S : s \in Seq(S)
  BY DEF IsSequence
<1>2. Ids(s) \in Seq(Nat) /\ Len(Ids(s)) = Len(s)
      /\ (\A i \in 1..Len(s) : Ids(s)[i] = s[i].id)
  <2>1. DOMAIN s = 1..Len(s) /\ Len(s) \in Nat
    BY <1>1
  <2>2. Ids(s) = [i \in 1..Len(s) |-> s[i].id]
    BY <2>1 DEF Ids
  <2>3. \A i \in 1..Len(s) : s[i].id \in Nat
    BY <2>1 DEF IdSet
  <2>4. [i \in 1..Len(s) |-> s[i].id] \in Seq(Nat)
    BY <2>1, <2>3
  <2>. QED BY <2>1, <2>2, <2>4
<1>3. /\ b \in Seq(Nat) /\ Len(b) = Len(a) + Len(s) /\ Len(a) \in Nat /\ Len(s) \in Nat
      /\ \A i \in 1..Len(b) : b[i] = IF i <= Len(a) THEN a[i] ELSE s[i - Len(a)].id
  <2>1. Len(a) \in Nat /\ Len(s) \in Nat
    BY <1>1
  <2>2. /\ b \in Seq(Nat) /\ Len(b) = Len(a) + Len(s)
        /\ \A i \in 1..(Len(a) + Len(s)) :
                b[i] = IF i <= Len(a) THEN a[i] ELSE Ids(s)[i - Len(a)]
    BY <1>2, ConcatNat
  <2>3. ASSUME NEW i \in 1..Len(b), ~(i <= Len(a)) PROVE b[i] = s[i - Len(a)].id
    <3>1. i - Len(a) \in 1..Len(s)
      BY <2>1, <2>2, <2>3
    <3>. QED BY <2>1, <2>2, <2>3, <3>1, <1>2
  <2>. QED BY <2>1, <2>2, <2>3
<1>4. DOMAIN a = 1..Len(a) /\ DOMAIN s = 1..Len(s) /\ DOMAIN b = 1..(Len(a) + Len(s))
  BY <1>1, <1>3
<1>5. {b[i] : i \in DOMAIN b} = {a[i] : i \in DOMAIN a} \cup IdSet(s)
  <2>1. ASSUME NEW i \in DOMAIN s
        PROVE  Len(a) + i \in DOMAIN b /\ b[Len(a) + i] = s[i].id
    BY <1>3, <1>4
  <2>2. ASSUME NEW i \in DOMAIN a PROVE i \in DOMAIN b /\ b[i] = a[i]
    BY <1>3, <1>4
  <2>3. ASSUME NEW i \in DOMAIN b
        PROVE  \/ i \in DOMAIN a /\ b[i] = a[i]
               \/ i - Len(a) \in DOMAIN s /\ b[i] = s[i - Len(a)].id
    BY <1>3, <1>4
  <2>. QED BY <2>1, <2>2, <2>3 DEF IdSet
<1>6. ASSUME \A i, j \in DOMAIN a : a[i] = a[j] => i = j,
             Distinct(s), IdSet(s) \cap {a[i] : i \in DOMAIN a} = {},
             NEW i \in DOMAIN b, NEW j \in DOMAIN b, b[i] = b[j]
      PROVE  i = j
  <2>1. CASE i <= Len(a) /\ j <= Len(a)
    BY <1>3, <1>4, <1>6, <2>1
  <2> DEFINE inA(k) == k \in DOMAIN a /\ b[k] = a[k]
             inS(k) == k - Len(a) \in DOMAIN s /\ b[k] = s[k - Len(a)].id
  <2>0. ASSUME NEW k \in DOMAIN b
        PROVE  k \in Nat /\ (k <= Len(a) => inA(k)) /\ (k > Len(a) => inS(k))
    BY <1>3, <1>4
  <2>2. CASE i > Len(a) /\ j > Len(a)
    <3>1. i - Len(a) = j - Len(a)
      BY <2>0, <2>2, <1>6 DEF Distinct
    <3>. QED BY <3>1, <2>0, <1>3, <1>6
  <2>5. ASSUME NEW k \in DOMAIN b
        PROVE  /\ k <= Len(a) => b[k] \in {a[n] : n \in DOMAIN a}
               /\ k > Len(a) => b[k] \in IdSet(s)
    BY <2>0 DEF IdSet
  <2>3. CASE i <= Len(a) /\ j > Len(a)
    BY <2>5, <1>6, <2>3
  <2>4. CASE i > Len(a) /\ j <= Len(a)
    BY <2>5, <1>6, <2>4
  <2>. QED BY <2>1, <2>2, <2>3, <2>4, <1>3, <1>4
<1>. QED BY <1>3, <1>5, <1>6

\* The identifiers in each place.
Pending == IdSet(pending)
InBatch(r) == IdSet(batch[r])
Recorded(r) == IF recorded[r] = NoChange THEN {} ELSE {recorded[r].id}
Done == {applied[i] : i \in DOMAIN applied}
Standing == (1..queued) \ aborted

\* Each place holds a live change once, and no two places hold the same.
PlaceInv ==
    /\ queued \in Nat /\ aborted \subseteq 1..queued
    /\ IsSequence(pending) /\ Distinct(pending) /\ Pending \subseteq Standing
    /\ DOMAIN batch = Runners /\ DOMAIN recorded = Runners
    /\ \A r \in Runners : /\ IsSequence(batch[r]) /\ Distinct(batch[r])
                          /\ InBatch(r) \subseteq Standing /\ Recorded(r) \subseteq Standing
                          /\ Pending \cap InBatch(r) = {} /\ Pending \cap Recorded(r) = {}
                          /\ Done \cap InBatch(r) = {} /\ Done \cap Recorded(r) = {}
    /\ \A q, r \in Runners : /\ InBatch(q) \cap Recorded(r) = {}
                             /\ q # r => InBatch(q) \cap InBatch(r) = {}
                             /\ q # r => Recorded(q) \cap Recorded(r) = {}
    /\ applied \in Seq(Nat) /\ AppliedOnce
    /\ Done \subseteq Standing /\ Done \cap Pending = {}

\* What was cut by a lone script's rollback is nowhere else.
LoneInv ==
    /\ DOMAIN script = Runners /\ DOMAIN lone = Runners
    /\ opened \in [Runners -> Seq([checkpoint : Nat, first : Nat \ {0}])]
    /\ \A r \in Runners : ~Running(r) => opened[r] = <<>> /\ recorded[r] = NoChange
    /\ \A r \in Runners : Running(r) /\ lone[r] =>
        /\ \A q \in Runners \ {r} : script[q] = "none"
        /\ \A k \in DOMAIN opened[r] :
            LET t == opened[r][k]
            IN  /\ t.checkpoint <= Len(pending)
                /\ \A i \in 1..t.checkpoint : pending[i].id < t.first
                /\ \A n \in t.first..queued : n \notin Done /\ \A q \in Runners :
                     n \notin InBatch(q)
                /\ \A l \in DOMAIN opened[r] : l > k => t.checkpoint <= opened[r][l].checkpoint

\* Applying a sequence of changes that have no other place any more.
LEMMA AppliedNow ==
    ASSUME applied \in Seq(Nat), AppliedOnce, queued \in Nat, NEW s, IsSequence(s), Distinct(s),
           IdSet(s) \subseteq Standing, IdSet(s) \cap Done = {}, ApplyChanges(s)
    PROVE  applied' \in Seq(Nat) /\ AppliedOnce' /\ Done' = Done \cup IdSet(s)
<1>1. IdSet(s) \subseteq Nat
  BY DEF Standing
<1>2. applied' = applied \o Ids(s)
  BY DEF ApplyChanges
<1> DEFINE b == applied \o Ids(s)
<1>3. /\ b \in Seq(Nat)
      /\ {b[i] : i \in DOMAIN b} = {applied[i] : i \in DOMAIN applied} \cup IdSet(s)
      /\ \A i, j \in DOMAIN b : b[i] = b[j] => i = j
  BY <1>1, ConcatIds DEF AppliedOnce, Done
<1>. QED BY <1>2, <1>3 DEF AppliedOnce, Done

\* Every step but a rollback moves a change from one place to the next.
LEMMA PlaceSteps ==
    ASSUME PlaceInv, LoneInv, [ScriptNext]_stVars, \A r \in Runners : ~Rollback(r)
    PROVE  PlaceInv'
<1>1. ASSUME NEW r \in Runners, FinishBehavior(r) \/ LeaveAction(r) PROVE PlaceInv'
  <2>1. ApplyChanges(pending) /\ pending' = <<>>
        /\ UNCHANGED <<batch, recorded, queued, aborted>>
    BY <1>1 DEF FinishBehavior, LeaveAction, TakeChanges
  <2>2. applied' \in Seq(Nat) /\ AppliedOnce' /\ Done' = Done \cup Pending
    BY <2>1, AppliedNow DEF PlaceInv, Pending
  <2>3. Pending' = {} /\ IsSequence(pending') /\ Distinct(pending')
    BY <2>1, EmptyIds DEF Pending
  <2>. QED BY <2>1, <2>2, <2>3 DEF PlaceInv, InBatch, Recorded, Standing
<1>2. ASSUME NEW r \in Runners, NEW ok \in BOOLEAN, FinishAction(r, ok) PROVE PlaceInv'
  <2>1. pending' = <<>> /\ batch' = [batch EXCEPT ![r] = IF ok THEN pending ELSE <<>>]
        /\ UNCHANGED <<recorded, queued, aborted, applied>>
    BY <1>2 DEF FinishAction, TakeChanges
  <2>2. Pending' = {} /\ IsSequence(pending') /\ Distinct(pending')
    BY <2>1, EmptyIds DEF Pending
  <2>3. /\ IsSequence(batch'[r]) /\ Distinct(batch'[r])
        /\ InBatch(r)' \subseteq Pending
        /\ \A q \in Runners : q # r => batch'[q] = batch[q] /\ InBatch(q)' = InBatch(q)
    BY <2>1, EmptyIds DEF PlaceInv, InBatch, Pending
  <2>4. Done' = Done /\ Standing' = Standing /\ \A q \in Runners : Recorded(q)' = Recorded(q)
    BY <2>1 DEF Done, Standing, Recorded
  <2>5. \A q \in Runners : InBatch(q)' \subseteq InBatch(q) \/ q = r
    BY <2>3
  <2>. QED BY <2>1, <2>2, <2>3, <2>4, <2>5 DEF PlaceInv, AppliedOnce
<1>3. ASSUME NEW r \in Runners, ApplyBatch(r) PROVE PlaceInv'
  <2>1. ApplyChanges(batch[r]) /\ batch' = [batch EXCEPT ![r] = <<>>]
        /\ UNCHANGED <<pending, recorded, queued, aborted>>
    BY <1>3 DEF ApplyBatch
  <2>2. applied' \in Seq(Nat) /\ AppliedOnce' /\ Done' = Done \cup InBatch(r)
    BY <2>1, AppliedNow DEF PlaceInv, InBatch
  <2>3. /\ IsSequence(batch'[r]) /\ Distinct(batch'[r]) /\ InBatch(r)' = {}
        /\ \A q \in Runners : q # r => batch'[q] = batch[q] /\ InBatch(q)' = InBatch(q)
    BY <2>1, EmptyIds DEF PlaceInv, InBatch
  <2>4. Pending' = Pending /\ Standing' = Standing /\ \A q \in Runners :
            Recorded(q)' = Recorded(q)
    BY <2>1 DEF Pending, Standing, Recorded
  <2>. QED BY <2>1, <2>2, <2>3, <2>4 DEF PlaceInv
<1>4. ASSUME NEW r \in Runners, NEW s, NEW h, RecordChange(r, s, h) PROVE PlaceInv'
  <2>1. /\ recorded' = [recorded EXCEPT ![r] = [id |-> queued + 1, ship |-> s, hull |-> h]]
        /\ queued' = queued + 1
        /\ UNCHANGED <<pending, batch, applied, aborted>>
    BY <1>4 DEF RecordChange
  <2>2. /\ Recorded(r)' \subseteq {queued + 1}
        /\ \A q \in Runners : q # r => Recorded(q)' = Recorded(q)
    BY <2>1 DEF PlaceInv, Recorded
  <2>3. Standing \subseteq Standing' /\ queued + 1 \in Standing' /\ queued + 1 \notin Standing
    BY <2>1 DEF PlaceInv, Standing
  <2>4. Pending' = Pending /\ Done' = Done /\ \A q \in Runners : InBatch(q)' = InBatch(q)
    BY <2>1 DEF Pending, Done, InBatch
  <2>5. queued' \in Nat /\ aborted' \subseteq 1..queued'
    BY <2>1 DEF PlaceInv
  <2>. QED BY <2>1, <2>2, <2>3, <2>4, <2>5 DEF PlaceInv, AppliedOnce
<1>5. ASSUME NEW r \in Runners, QueueChange(r) PROVE PlaceInv'
  <2>1. /\ recorded[r] # NoChange /\ pending' = Append(pending, recorded[r])
        /\ recorded' = [recorded EXCEPT ![r] = NoChange]
        /\ UNCHANGED <<batch, queued, applied, aborted>>
    BY <1>5 DEF QueueChange
  <2>2. Recorded(r) = {recorded[r].id}
    BY <2>1 DEF Recorded
  <2>3. IsSequence(pending') /\ Pending' = Pending \cup {recorded[r].id} /\ Distinct(pending')
    BY <2>1, <2>2, AppendIds DEF PlaceInv, Pending
  <2>4. Recorded(r)' = {} /\ \A q \in Runners : q # r => Recorded(q)' = Recorded(q)
    BY <2>1 DEF PlaceInv, Recorded
  <2>5. Standing' = Standing /\ Done' = Done /\ \A q \in Runners : InBatch(q)' = InBatch(q)
    BY <2>1 DEF Standing, Done, InBatch
  <2>6. /\ queued' \in Nat /\ aborted' \subseteq 1..queued'
        /\ applied' \in Seq(Nat) /\ AppliedOnce' /\ Done' \subseteq Standing'
        /\ DOMAIN batch' = Runners /\ DOMAIN recorded' = Runners
    BY <2>1, <2>5 DEF PlaceInv, AppliedOnce
  <2>7. \A q \in Runners : /\ IsSequence(batch'[q]) /\ Distinct(batch'[q])
                           /\ InBatch(q)' \subseteq Standing' /\ Done' \cap InBatch(q)' = {}
    BY <2>1, <2>5 DEF PlaceInv
  <2>8. \A q \in Runners : /\ Recorded(q)' \subseteq Standing' /\ Done' \cap Recorded(q)' = {}
                           /\ Recorded(q)' \subseteq Recorded(q)
                           /\ Recorded(q)' \cap Recorded(r) = {}
    BY <2>4, <2>5 DEF PlaceInv
  <2>9. Pending' \subseteq Standing' /\ Done' \cap Pending' = {}
    BY <2>2, <2>3, <2>5 DEF PlaceInv
  <2>10. \A q \in Runners : Pending' \cap InBatch(q)' = {} /\ Pending' \cap Recorded(q)' = {}
    BY <2>2, <2>3, <2>4, <2>5, <2>8 DEF PlaceInv
  <2>11. \A p, q \in Runners : /\ InBatch(p)' \cap Recorded(q)' = {}
                               /\ p # q => InBatch(p)' \cap InBatch(q)' = {}
                               /\ p # q => Recorded(p)' \cap Recorded(q)' = {}
    BY <2>5, <2>8 DEF PlaceInv
  <2>. QED BY <2>3, <2>6, <2>7, <2>8, <2>9, <2>10, <2>11 DEF PlaceInv
<1>6. CASE UNCHANGED <<pending, batch, recorded, applied, queued, aborted>>
  BY <1>6 DEF PlaceInv, Pending, InBatch, Recorded, Done, Standing, AppliedOnce
<1>7. ASSUME NEW r \in Runners,
             \/ \E kind \in Kinds : Enter(r, kind)
             \/ BeginTransaction(r) \/ Commit(r)
      PROVE  PlaceInv'
  BY <1>6, <1>7 DEF Enter, BeginTransaction, Commit
<1>8. CASE (\E trusted \in BOOLEAN : EvalPermissions(trusted)) \/ UNCHANGED stVars
  BY <1>6, <1>8 DEF EvalPermissions, stVars
<1>. QED BY <1>1, <1>2, <1>3, <1>4, <1>5, <1>7, <1>8 DEF ScriptNext, DamageShip

\* An element of a sequence has the elements' type.
LEMMA ElementAt ==
    ASSUME NEW S, NEW s \in Seq(S), NEW i \in DOMAIN s PROVE s[i] \in S
OBVIOUS

\* The newest of the open transactions, and the others.
LEMMA LastIn ==
    ASSUME NEW S, NEW s \in Seq(S), s # <<>>
    PROVE  /\ Len(s) \in DOMAIN s /\ Last(s) = s[Len(s)] /\ Last(s) \in S
           /\ Front(s) \in Seq(S) /\ DOMAIN Front(s) = 1..(Len(s) - 1)
           /\ \A i \in 1..(Len(s) - 1) : i \in DOMAIN s /\ i < Len(s) /\ Front(s)[i] = s[i]
<1>1. Len(s) \in Nat \ {0} /\ DOMAIN s = 1..Len(s)
  OBVIOUS
<1>2. SubSeq(s, 1, Len(s) - 1) \in Seq(S) /\ Len(SubSeq(s, 1, Len(s) - 1)) = Len(s) - 1
      /\ \A i \in 1..(Len(s) - 1) : SubSeq(s, 1, Len(s) - 1)[i] = s[i]
  BY <1>1
<1>. QED BY <1>1, <1>2 DEF Last, Front

\* A lone script's rollback cuts what it queued since, and leaves the rest in place.
LEMMA PlaceRollback ==
    ASSUME PlaceInv, LoneInv, NEW r \in Runners, Rollback(r)
    PROVE  PlaceInv'
<1> DEFINE t == Last(opened[r])
           n == IF t.checkpoint < Len(pending) THEN t.checkpoint ELSE Len(pending)
           cut == t.first..queued
<1>1. opened[r] \in Seq([checkpoint : Nat, first : Nat \ {0}]) /\ opened[r] # <<>>
  BY DEF Rollback, LoneInv
<1>2. /\ Len(opened[r]) \in DOMAIN opened[r] /\ t = opened[r][Len(opened[r])]
      /\ t \in [checkpoint : Nat, first : Nat \ {0}]
  BY <1>1, LastIn
<1>3. Len(pending) \in Nat
  <2>1. PICK S : pending \in Seq(S)
    BY DEF PlaceInv, IsSequence
  <2>. QED BY <2>1
<1>4. n \in 0..Len(pending)
  BY <1>2, <1>3
<1>5. pending' = SubSeq(pending, 1, n)
  BY DEF Rollback, Truncated
<1>6. /\ IsSequence(pending') /\ Distinct(pending')
      /\ Pending' = {pending[i].id : i \in 1..n} /\ Pending' \subseteq Pending
  BY <1>4, <1>5, PrefixIds DEF PlaceInv, Pending
<1>7. UNCHANGED <<batch, recorded, applied, queued>>
  BY DEF Rollback
<1>8. /\ Done' = Done
      /\ \A q \in Runners : InBatch(q)' = InBatch(q) /\ Recorded(q)' = Recorded(q)
  BY <1>7 DEF Done, InBatch, Recorded
<1>9. /\ aborted' \subseteq 1..queued
      /\ Pending' \subseteq Standing' /\ Done \subseteq Standing'
      /\ \A q \in Runners : InBatch(q) \subseteq Standing' /\ Recorded(q) \subseteq Standing'
  <2>1. CASE ~lone[r]
    <3>1. Standing' = Standing /\ aborted' = aborted
      BY <2>1, <1>7 DEF Standing, Rollback
    <3>. QED BY <3>1, <1>6 DEF PlaceInv
  <2>2. CASE lone[r]
    <3>1. aborted' = aborted \cup cut /\ Standing' = Standing \ cut
      BY <2>2, <1>7 DEF Standing, Rollback
    <3>2. cut \subseteq 1..queued
      BY <1>2 DEF PlaceInv
    <3>3. Running(r) /\ recorded[r] = NoChange
      BY DEF Rollback
    <3>4. /\ t.checkpoint <= Len(pending)
          /\ \A i \in 1..t.checkpoint : pending[i].id < t.first
          /\ \A c \in cut : c \notin Done /\ \A q \in Runners : c \notin InBatch(q)
      BY <1>2, <2>2, <3>3 DEF LoneInv
    <3>5. \A q \in Runners : Recorded(q) = {}
      <4>1. ASSUME NEW q \in Runners, q # r PROVE recorded[q] = NoChange
        BY <4>1, <2>2, <3>3 DEF LoneInv, Running, Kinds
      <4>. QED BY <4>1, <3>3 DEF Recorded
    <3>6. n = t.checkpoint
      BY <1>2, <1>3, <3>4
    <3>7. Pending' \cap cut = {}
      <4>1. ASSUME NEW i \in 1..n PROVE pending[i].id \notin cut
        BY <1>2, <3>4, <3>6
      <4>. QED BY <4>1, <1>6
    <3>. QED BY <3>1, <3>2, <3>4, <3>5, <3>7, <1>6 DEF PlaceInv
  <2>. QED BY <2>1, <2>2
<1>. QED BY <1>6, <1>7, <1>8, <1>9 DEF PlaceInv, AppliedOnce

\* An open transaction's checkpoint is a length and its first change a number.
LEMMA OpenedIn ==
    ASSUME LoneInv, NEW r \in Runners, NEW k \in DOMAIN opened[r]
    PROVE  opened[r][k].checkpoint \in Nat /\ opened[r][k].first \in Nat
<1> DEFINE Trans == [checkpoint : Nat, first : Nat \ {0}]
<1>1. opened[r] \in Seq(Trans)
  BY DEF LoneInv
<1>2. opened[r][k] \in Trans
  BY <1>1, ElementAt
<1>. QED BY <1>2

\* What a lone script's transactions know stays true while other threads run none.
LEMMA LoneSteps ==
    ASSUME PlaceInv, LoneInv, [ScriptNext]_stVars PROVE LoneInv'
<1> DEFINE Trans == [checkpoint : Nat, first : Nat \ {0}]
<1>0. Len(pending) \in Nat /\ queued \in Nat
  <2>1. PICK S : pending \in Seq(S)
    BY DEF PlaceInv, IsSequence
  <2>. QED BY <2>1 DEF PlaceInv
<1>1. ASSUME NEW r \in Runners, NEW kind \in Kinds, Enter(r, kind) PROVE LoneInv'
  <2>1. script[r] = "none" /\ ~Running(r)
    BY <1>1 DEF Enter, Running, Kinds
  <2>2. opened[r] = <<>>
    BY <2>1 DEF LoneInv
  <2>3. script' = [script EXCEPT ![r] = kind] /\ UNCHANGED <<opened, recorded>>
    BY <1>1 DEF Enter
  <2>4. ASSUME NEW q \in Runners, Running(q)', lone'[q] PROVE q = r
    BY <1>1, <2>4 DEF Enter, LoneInv, Running, Kinds
  <2>5. lone'[r] => \A q \in Runners \ {r} : script'[q] = "none"
    BY <1>1 DEF Enter, LoneInv
  <2>6. \A q \in Runners : ~Running(q)' => opened'[q] = <<>> /\ recorded'[q] = NoChange
    BY <2>3 DEF LoneInv, Running
  <2>. QED BY <1>1, <2>2, <2>3, <2>4, <2>5, <2>6 DEF LoneInv, Enter
<1>2. ASSUME NEW r \in Runners,
             \/ FinishBehavior(r) \/ LeaveAction(r)
             \/ \E ok \in BOOLEAN : FinishAction(r, ok)
      PROVE  LoneInv'
  <2>1. /\ script[r] # "none" /\ opened[r] = <<>> /\ recorded[r] = NoChange
        /\ script' = [script EXCEPT ![r] = script'[r]] /\ script'[r] \notin Kinds
        /\ UNCHANGED <<opened, recorded>>
        /\ DOMAIN lone' = Runners
        /\ \A q \in Runners : q # r => lone'[q] = lone[q]
    BY <1>2 DEF FinishBehavior, LeaveAction, FinishAction, LoneInv, Running, Kinds
  <2>2. ASSUME NEW q \in Runners PROVE ~(Running(q)' /\ lone'[q])
    BY <2>1, <2>2 DEF LoneInv, Running
  <2>3. \A q \in Runners : ~Running(q)' => opened'[q] = <<>> /\ recorded'[q] = NoChange
    BY <2>1 DEF LoneInv, Running
  <2>. QED BY <2>1, <2>2, <2>3 DEF LoneInv
<1>3. ASSUME NEW r \in Runners, ApplyBatch(r) PROVE LoneInv'
  <2>1. ApplyChanges(batch[r]) /\ batch' = [batch EXCEPT ![r] = <<>>]
        /\ UNCHANGED <<script, lone, opened, recorded, pending, queued>>
    BY <1>3 DEF ApplyBatch
  <2>2. Done' = Done \cup InBatch(r)
    BY <2>1, AppliedNow DEF PlaceInv, InBatch
  <2>3. \A q \in Runners : InBatch(q)' \subseteq InBatch(q)
    BY <2>1, EmptyIds DEF PlaceInv, InBatch
  <2>. QED BY <2>1, <2>2, <2>3 DEF LoneInv, Running
<1>4. ASSUME NEW r \in Runners, NEW s, NEW h, RecordChange(r, s, h) PROVE LoneInv'
  <2>1. /\ Running(r) /\ \A q \in Runners : q # r => recorded'[q] = recorded[q]
        /\ queued' = queued + 1
        /\ UNCHANGED <<script, lone, opened, pending, batch, applied>>
    BY <1>4 DEF RecordChange, PlaceInv
  <2>2. Done' = Done /\ \A q \in Runners : InBatch(q)' = InBatch(q)
    BY <2>1 DEF Done, InBatch
  <2>3. queued + 1 \notin Done /\ \A q \in Runners : queued + 1 \notin InBatch(q)
    BY <1>0 DEF PlaceInv, Standing
  <2>4. ASSUME NEW f \in Nat PROVE f..queued' \subseteq f..queued \cup {queued + 1}
    BY <1>0, <2>1
  <2>5. \A q \in Runners : ~Running(q)' => opened'[q] = <<>> /\ recorded'[q] = NoChange
    BY <2>1 DEF LoneInv, Running
  <2>6. ASSUME NEW q \in Runners, NEW k \in DOMAIN opened[q]
        PROVE  opened[q][k].first \in Nat
    BY OpenedIn
  <2>7. ASSUME NEW q \in Runners, Running(q), lone[q], NEW k \in DOMAIN opened[q],
               NEW n \in opened[q][k].first..queued'
        PROVE  n \notin Done' /\ \A p \in Runners : n \notin InBatch(p)'
    <3>1. n \in opened[q][k].first..queued \/ n = queued + 1
      BY <2>4, <2>6
    <3>. QED BY <3>1, <2>2, <2>3, <2>7 DEF LoneInv
  <2>8. \A q \in Runners : Running(q)' <=> Running(q)
    BY <2>1 DEF Running
  <2>. QED BY <2>1, <2>5, <2>7, <2>8 DEF LoneInv
<1>5. ASSUME NEW r \in Runners, QueueChange(r) PROVE LoneInv'
  <2>1. /\ Running(r) /\ recorded' = [recorded EXCEPT ![r] = NoChange]
        /\ pending' = Append(pending, recorded[r])
        /\ UNCHANGED <<script, lone, opened, queued, batch, applied>>
    BY <1>5 DEF QueueChange, LoneInv
  <2>2. /\ Len(pending') = Len(pending) + 1
        /\ \A i \in 1..Len(pending) : pending'[i] = pending[i]
    BY <2>1, AppendIds DEF PlaceInv
  <2>3. Done' = Done /\ \A q \in Runners : InBatch(q)' = InBatch(q)
    BY <2>1 DEF Done, InBatch
  <2>4. \A q \in Runners : ~Running(q)' => opened'[q] = <<>> /\ recorded'[q] = NoChange
    BY <2>1 DEF LoneInv, Running
  <2>5. ASSUME NEW c \in Nat, c <= Len(pending)
        PROVE  c <= Len(pending') /\ \A i \in 1..c : pending'[i] = pending[i]
    BY <2>2, <2>5, <1>0
  <2>6. ASSUME NEW q \in Runners, NEW k \in DOMAIN opened[q]
        PROVE  opened[q][k].checkpoint \in Nat
    BY OpenedIn
  <2>. QED BY <2>1, <2>3, <2>4, <2>5, <2>6 DEF LoneInv, Running
<1>6. ASSUME NEW r \in Runners, BeginTransaction(r) PROVE LoneInv'
  <2> DEFINE t == [checkpoint |-> Len(pending), first |-> queued + 1]
             o == opened[r]
  <2>1. /\ Running(r) /\ opened' = [opened EXCEPT ![r] = Append(@, t)]
        /\ UNCHANGED <<script, lone, recorded, pending, queued, batch, applied>>
    BY <1>6 DEF BeginTransaction
  <2>2. o \in Seq(Trans) /\ t \in Trans
    BY <1>0 DEF LoneInv
  <2>3. /\ Append(o, t) \in Seq(Trans) /\ DOMAIN Append(o, t) = 1..(Len(o) + 1)
        /\ DOMAIN o = 1..Len(o) /\ Len(o) \in Nat
        /\ Append(o, t)[Len(o) + 1] = t
        /\ \A k \in DOMAIN o : Append(o, t)[k] = o[k]
    BY <2>2
  <2>4. Done' = Done /\ \A q \in Runners : InBatch(q)' = InBatch(q)
    BY <2>1 DEF Done, InBatch
  <2>5. ASSUME NEW k \in DOMAIN o PROVE o[k].checkpoint \in Nat
    BY OpenedIn
  <2>6. \A i \in 1..t.checkpoint : pending[i].id < t.first
    <3>1. ASSUME NEW i \in 1..Len(pending) PROVE pending[i].id \in Pending
      BY <3>1 DEF Pending, IdSet, PlaceInv, IsSequence
    <3>2. ASSUME NEW n \in Pending PROVE n < queued + 1
      BY <1>0 DEF PlaceInv, Standing
    <3>. QED BY <3>1, <3>2
  <2>7. t.first..queued = {}
    BY <1>0
  <2>8. opened' \in [Runners -> Seq(Trans)]
        /\ opened'[r] = Append(o, t) /\ \A q \in Runners : q # r => opened'[q] = opened[q]
    BY <2>1, <2>3 DEF LoneInv
  <2>9. ASSUME NEW q \in Runners, Running(q), lone[q], NEW k \in DOMAIN opened'[q]
        PROVE  LET u == opened'[q][k]
               IN  /\ u.checkpoint <= Len(pending)
                   /\ \A i \in 1..u.checkpoint : pending[i].id < u.first
                   /\ \A n \in u.first..queued : n \notin Done /\ \A p \in Runners :
                        n \notin InBatch(p)
                   /\ \A l \in DOMAIN opened'[q] : l > k
                        => u.checkpoint <= opened'[q][l].checkpoint
    <3>1. CASE q # r
      BY <2>8, <2>9, <3>1 DEF LoneInv
    <3>2. CASE q = r /\ k = Len(o) + 1
      BY <2>3, <2>6, <2>7, <2>8, <3>2, <1>0
    <3>3. CASE q = r /\ k \in DOMAIN o
      <4>1. /\ o[k].checkpoint <= Len(pending)
            /\ \A i \in 1..o[k].checkpoint : pending[i].id < o[k].first
            /\ \A n \in o[k].first..queued : n \notin Done /\ \A p \in Runners :
                 n \notin InBatch(p)
            /\ \A l \in DOMAIN o : l > k => o[k].checkpoint <= o[l].checkpoint
        BY <2>9, <3>3 DEF LoneInv
      <4>2. opened'[q] = Append(o, t) /\ opened'[q][k] = o[k]
        BY <2>3, <2>8, <3>3
      <4>3. ASSUME NEW l \in DOMAIN opened'[q], l > k
            PROVE  o[k].checkpoint <= opened'[q][l].checkpoint
        <5>1. CASE l \in DOMAIN o
          BY <4>1, <4>2, <4>3, <5>1, <2>3
        <5>2. CASE l = Len(o) + 1
          BY <4>1, <4>2, <5>2, <2>3
        <5>. QED BY <5>1, <5>2, <4>2, <2>3
      <4>. QED BY <4>1, <4>2, <4>3
    <3>4. q = r => k \in DOMAIN o \/ k = Len(o) + 1
      BY <2>3, <2>8, <2>9
    <3>. QED BY <3>1, <3>2, <3>3, <3>4
  <2>10. \A q \in Runners : ~Running(q)' => opened'[q] = <<>> /\ recorded'[q] = NoChange
    BY <2>1, <2>8 DEF LoneInv, Running
  <2>11. \A q \in Runners : Running(q)' <=> Running(q)
    BY <2>1 DEF Running
  <2>. QED BY SMTT(30), <2>1, <2>4, <2>8, <2>9, <2>10, <2>11 DEF LoneInv
<1>7. ASSUME NEW r \in Runners, Commit(r) \/ Rollback(r) PROVE LoneInv'
  <2> DEFINE o == opened[r]
             last == Last(o)
  <2>1. /\ Running(r) /\ o # <<>> /\ opened' = [opened EXCEPT ![r] = Front(@)]
        /\ UNCHANGED <<script, lone, recorded, queued, batch, applied>>
    BY <1>7 DEF Commit, Rollback
  <2>2. o \in Seq(Trans)
    BY DEF LoneInv
  <2>3. /\ Front(o) \in Seq(Trans) /\ DOMAIN Front(o) = 1..(Len(o) - 1)
        /\ \A k \in DOMAIN Front(o) : k \in DOMAIN o /\ k < Len(o) /\ Front(o)[k] = o[k]
        /\ Len(o) \in DOMAIN o /\ last = o[Len(o)] /\ last \in Trans
    BY <2>1, <2>2, LastIn
  <2>4. Done' = Done /\ \A q \in Runners : InBatch(q)' = InBatch(q)
    BY <2>1 DEF Done, InBatch
  <2>5. opened' \in [Runners -> Seq(Trans)]
        /\ opened'[r] = Front(o) /\ \A q \in Runners : q # r => opened'[q] = opened[q]
    BY <2>1, <2>3 DEF LoneInv
  <2>6. \/ pending' = pending
        \/ pending' = SubSeq(pending, 1, IF last.checkpoint < Len(pending)
                                         THEN last.checkpoint ELSE Len(pending))
    BY <1>7 DEF Commit, Rollback, Truncated
  <2>7. ASSUME NEW c \in Nat, c <= Len(pending), c <= last.checkpoint
        PROVE  c <= Len(pending') /\ \A i \in 1..c : pending'[i] = pending[i]
    <3> DEFINE n == IF last.checkpoint < Len(pending) THEN last.checkpoint ELSE Len(pending)
    <3>1. n \in 0..Len(pending) /\ c <= n
      BY <1>0, <2>3, <2>7
    <3>2. CASE pending' = SubSeq(pending, 1, n)
      <4>1. Len(pending') = n /\ \A i \in 1..n : pending'[i] = pending[i]
        BY <3>1, <3>2, PrefixIds DEF PlaceInv
      <4>. QED BY <4>1, <3>1
    <3>. QED BY <3>2, <2>6, <2>7
  <2>8. ASSUME NEW q \in Runners, Running(q), lone[q], NEW k \in DOMAIN opened'[q]
        PROVE  LET u == opened'[q][k]
               IN  /\ u.checkpoint <= Len(pending')
                   /\ \A i \in 1..u.checkpoint : pending'[i].id < u.first
                   /\ \A n \in u.first..queued : n \notin Done /\ \A p \in Runners :
                        n \notin InBatch(p)
                   /\ \A l \in DOMAIN opened'[q] : l > k
                        => u.checkpoint <= opened'[q][l].checkpoint
    <3>1. q = r
      BY <2>1, <2>8 DEF LoneInv, Running, Kinds
    <3>2. k \in DOMAIN o /\ k < Len(o) /\ opened'[q] = Front(o) /\ opened'[q][k] = o[k]
      BY <2>3, <2>5, <2>8, <3>1
    <3>3. /\ o[k].checkpoint <= Len(pending)
          /\ \A i \in 1..o[k].checkpoint : pending[i].id < o[k].first
          /\ \A n \in o[k].first..queued : n \notin Done /\ \A p \in Runners : n \notin InBatch(p)
          /\ \A l \in DOMAIN o : l > k => o[k].checkpoint <= o[l].checkpoint
      BY <2>8, <3>1, <3>2 DEF LoneInv
    <3>4. o[k].checkpoint \in Nat /\ o[k].checkpoint <= last.checkpoint
      <4>1. o[k] \in Trans
        BY <2>2, <3>2, ElementAt
      <4>. QED BY <4>1, <2>3, <3>2, <3>3
    <3>5. ASSUME NEW l \in DOMAIN opened'[q], l > k
          PROVE  o[k].checkpoint <= opened'[q][l].checkpoint
      BY <2>3, <3>2, <3>3, <3>5
    <3>. QED BY <2>7, <3>2, <3>3, <3>4, <3>5
  <2>9. \A q \in Runners : ~Running(q)' => opened'[q] = <<>> /\ recorded'[q] = NoChange
    BY <2>1, <2>5 DEF LoneInv, Running
  <2>. QED BY <2>1, <2>4, <2>5, <2>8, <2>9 DEF LoneInv, Running
<1>8. CASE (\E trusted \in BOOLEAN : EvalPermissions(trusted)) \/ UNCHANGED stVars
  <2>1. UNCHANGED <<script, pending, opened, recorded, lone, batch, applied, queued>>
    BY <1>8 DEF EvalPermissions, stVars
  <2>2. Done' = Done /\ \A q \in Runners : InBatch(q)' = InBatch(q)
            /\ (Running(q)' <=> Running(q))
    BY <2>1 DEF Done, InBatch, Running
  <2>. QED BY <2>1, <2>2 DEF LoneInv
<1>. QED BY <1>1, <1>2, <1>3, <1>4, <1>5, <1>6, <1>7, <1>8 DEF ScriptNext, DamageShip

\* What a sequence of changes makes of the live hulls, change by change.
LEMMA AfterSteps ==
    ASSUME NEW live \in [Targets -> 0..MaxHull], NEW changes \in Seq(Change)
    PROVE  \E f \in [0..Len(changes) -> [Targets -> 0..MaxHull]] :
              /\ f[0] = live /\ f[Len(changes)] = AfterChanges(live, changes)
              /\ \A i \in 1..Len(changes) :
                    f[i] = [f[i - 1] EXCEPT ![changes[i].ship] = Clamp(changes[i].hull)]
<1>. DEFINE n == Len(changes)
            X == [Targets -> 0..MaxHull]
            Do(i, y) == [y EXCEPT ![changes[i].ship] = Clamp(changes[i].hull)]
            G == [p \in (1..n) \X X |-> Do(p[1], p[2])]
            P(g) == g = [i \in 0..n |-> IF i = 0 THEN live ELSE Do(i, g[i - 1])]
<1>1. n \in Nat /\ \A i \in 1..n : changes[i].ship \in Targets
          /\ changes[i].hull \in 0..MaxHull + 1
  <2>1. n \in Nat /\ \A i \in 1..n : changes[i] \in Change
    OBVIOUS
  <2>. QED BY <2>1 DEF Change
<1>2. \A i \in 1..n : Clamp(changes[i].hull) \in 0..MaxHull
  BY <1>1, HullAssumption DEF Clamp
<1>3. ASSUME NEW i \in 1..n, NEW y \in X
      PROVE  G[<<i, y>>] = Do(i, y) /\ Do(i, y) \in X
  BY <1>2
<1>4. AfterChanges(live, changes) = (CHOOSE g : P(g))[n]
  BY DEF AfterChanges
<1>. SUFFICES \E f \in [0..n -> X] : /\ f[0] = live /\ f[n] = AfterChanges(live, changes)
                                     /\ \A i \in 1..n : f[i] = Do(i, f[i - 1])
  OBVIOUS
<1>. HIDE DEF X, Do, G, n
<1>5. PICK f \in [0..n -> X] : Computes(f, n, live, G)
  <2>1. n \in Nat /\ live \in X /\ \A i \in 1..n, y \in X : G[<<i, y>>] \in X
    BY <1>1, <1>3 DEF X
  <2>. QED BY <2>1, Recursion
<1>6. f[0] = live /\ \A i \in 1..n : f[i] = Do(i, f[i - 1])
  <2>1. ASSUME NEW i \in 1..n PROVE f[i - 1] \in X
    BY <1>1
  <2>. QED BY <1>3, <1>5, <2>1 DEF Computes
<1>7. P(f)
  <2>1. ASSUME NEW i \in 0..n PROVE f[i] = IF i = 0 THEN live ELSE Do(i, f[i - 1])
    BY <1>1, <1>6
  <2>. QED BY <1>5, <2>1
<1>8. ASSUME NEW g, P(g) PROVE g = f
  <2>. DEFINE T == {i \in 0..n : g[i] = f[i]}
  <2>1. \A i \in 0..n : g[i] = IF i = 0 THEN live ELSE Do(i, g[i - 1])
    BY <1>8
  <2>2. 0 \in T
    BY <2>1, <1>1, <1>6
  <2>3. ASSUME NEW i \in 1..n, i - 1 \in T PROVE i \in T
    BY <2>1, <2>3, <1>1, <1>6
  <2>4. 0..n \subseteq T
    <3>. HIDE DEF T
    <3>. QED BY <1>1, <2>2, <2>3, Upto
  <2>. QED BY <1>5, <1>8, <2>4
<1>9. f[n] = AfterChanges(live, changes)
  <2>. HIDE DEF P
  <2>. QED BY <1>4, <1>7, <1>8
<1>. QED BY <1>5, <1>6, <1>9

\* The last change of a ship decides; a ship that none changes stays as it was.
LEMMA AfterLast ==
    ASSUME NEW live \in [Targets -> 0..MaxHull], NEW changes \in Seq(Change), NEW s \in Targets
    PROVE  /\ AfterChanges(live, changes) \in [Targets -> 0..MaxHull]
           /\ (\A i \in 1..Len(changes) : changes[i].ship # s) =>
                AfterChanges(live, changes)[s] = live[s]
           /\ \A k \in 1..Len(changes) :
                /\ changes[k].ship = s
                /\ \A j \in 1..Len(changes) : j > k => changes[j].ship # s
                => AfterChanges(live, changes)[s] = Clamp(changes[k].hull)
<1>. DEFINE n == Len(changes)
            X == [Targets -> 0..MaxHull]
<1>1. n \in Nat
  OBVIOUS
<1>2. PICK f \in [0..n -> X] :
          /\ f[0] = live /\ f[n] = AfterChanges(live, changes)
          /\ \A i \in 1..n : f[i] = [f[i - 1] EXCEPT ![changes[i].ship] = Clamp(changes[i].hull)]
  BY AfterSteps
<1>. HIDE DEF n
<1>3. ASSUME NEW i \in 1..n
      PROVE  /\ changes[i].ship = s => f[i][s] = Clamp(changes[i].hull)
             /\ changes[i].ship # s => f[i][s] = f[i - 1][s]
  <2>0. i - 1 \in 0..n
    BY <1>1
  <2>1. f[i - 1] \in X
    <3>. HIDE DEF X
    <3>. QED BY <1>2, <2>0
  <2>. DEFINE y == f[i - 1]
  <2>2. f[i] = [y EXCEPT ![changes[i].ship] = Clamp(changes[i].hull)]
    BY <1>2
  <2>. HIDE DEF y
  <2>3. y \in [Targets -> 0..MaxHull]
    BY <2>1 DEF y
  <2>4. f[i][s] = IF changes[i].ship = s THEN Clamp(changes[i].hull) ELSE y[s]
    BY <2>2, <2>3
  <2>. QED BY <2>4 DEF y
<1>4. ASSUME NEW k \in 0..n, \A i \in 1..n : i > k => changes[i].ship # s
      PROVE  f[n][s] = f[k][s]
  <2>. DEFINE T == {i \in 0..n : i >= k => f[i][s] = f[k][s]}
  <2>1. 0 \in T
    BY <1>1
  <2>2. ASSUME NEW i \in 1..n, i - 1 \in T PROVE i \in T
    <3>1. CASE i <= k
      BY <3>1
    <3>2. CASE i > k
      BY <3>2, <2>2, <1>3, <1>4
    <3>. QED BY <3>1, <3>2
  <2>3. 0..n \subseteq T
    <3>. HIDE DEF T
    <3>. QED BY <1>1, <2>1, <2>2, Upto
  <2>. QED BY <1>1, <2>3
<1>5. f[n] \in X
  BY <1>1, <1>2
<1>6. (\A i \in 1..n : changes[i].ship # s) => f[n][s] = live[s]
  <2>1. 0 \in 0..n
    BY <1>1
  <2>. QED BY <1>2, <1>4, <2>1
<1>7. ASSUME NEW k \in 1..n, changes[k].ship = s, \A j \in 1..n : j > k => changes[j].ship # s
      PROVE  f[n][s] = Clamp(changes[k].hull)
  <2>1. k \in 0..n
    BY <1>1
  <2>. QED BY <1>3, <1>4, <1>7, <2>1
<1>. QED BY <1>2, <1>5, <1>6, <1>7 DEF n

\* The overlay shows a lone script the last change of each ship, queued or about to be.
LastChange(s, h) ==
    \E k \in DOMAIN pending :
        /\ pending[k].ship = s /\ pending[k].hull = h
        /\ \A j \in DOMAIN pending : j > k => pending[j].ship # s
Shown(r) ==
    \A s \in Targets :
        IF recorded[r] # NoChange /\ recorded[r].ship = s THEN overlay[s] = recorded[r].hull
        ELSE IF overlay[s] = NoHull THEN \A i \in DOMAIN pending : pending[i].ship # s
        ELSE LastChange(s, overlay[s])

\* Nothing is left over when no script runs.
ReadInv ==
    /\ ScriptTypeOK
    /\ (\A r \in Runners : script[r] = "none") => pending = <<>> /\ overlay = NothingRecorded
    /\ \A r \in Runners : Running(r) /\ lone[r] /\ ~undone => Shown(r)

\* The types of what scripts change.
LEMMA ScriptTypesKeep ==
    ASSUME ScriptTypeOK, PlaceInv, LoneInv, PlaceInv', [ScriptNext]_stVars
    PROVE  ScriptTypeOK'
<1>. USE HullAssumption, BoundAssumption
<1>1. applied' \in Seq(1..MaxChanges) /\ aborted' \subseteq 1..MaxChanges
          /\ queued' \in 0..MaxChanges
  <2>1. queued' \in 0..MaxChanges
    <3>0. queued \in 0..MaxChanges
      BY DEF ScriptTypeOK
    <3>1. \A r, s, h : RecordChange(r, s, h) => queued' \in 0..MaxChanges
      BY <3>0 DEF RecordChange
    <3>2. CASE UNCHANGED queued
      BY <3>0, <3>2
    <3>. QED BY <3>1, <3>2, Zenon
         DEF ScriptNext, stVars, Enter, EvalPermissions, FinishBehavior, FinishAction,
              LeaveAction,
             ApplyBatch, DamageShip, QueueChange, BeginTransaction, Commit, Rollback
  <2>2. \A i \in DOMAIN applied' : applied'[i] \in 1..MaxChanges
    BY <2>1 DEF PlaceInv, Done, Standing
  <2>3. applied' \in Seq(1..MaxChanges)
    <3>1. applied' \in Seq(Nat)
      BY DEF PlaceInv
    <3>. QED BY <2>2, <3>1
  <2>. QED BY <2>1, <2>3 DEF PlaceInv
<1>2. \A r \in Runners, s \in Targets, h \in 0..MaxHull + 1 :
          RecordChange(r, s, h) => ScriptTypeOK'
  <2>. SUFFICES ASSUME NEW r \in Runners, NEW s \in Targets, NEW h \in 0..MaxHull + 1,
           RecordChange(r, s, h)
                PROVE  ScriptTypeOK'
    OBVIOUS
  <2>1. [id |-> queued + 1, ship |-> s, hull |-> h] \in Change
    BY <1>1 DEF RecordChange, Change, ScriptTypeOK
  <2>. QED BY <1>1, <2>1 DEF RecordChange, ScriptTypeOK
<1>3. ASSUME NEW r \in Runners, NEW s \in Targets, DamageShip(r, s, 1) PROVE ScriptTypeOK'
  <2>1. (IF ReadHull(s) > 1 THEN ReadHull(s) - 1 ELSE 0) \in 0..MaxHull + 1
    BY DEF ScriptTypeOK, ReadHull
  <2>. QED BY <1>2, <1>3, <2>1 DEF DamageShip
<1>4. \A changes \in Seq(Change) : ApplyChanges(changes) => liveHull' \in [Targets -> 0..MaxHull]
  <2>. SUFFICES ASSUME NEW changes \in Seq(Change), ApplyChanges(changes)
                PROVE  liveHull' \in [Targets -> 0..MaxHull]
    OBVIOUS
  <2>1. PICK f \in [0..Len(changes) -> [Targets -> 0..MaxHull]] :
            f[Len(changes)] = AfterChanges(liveHull, changes)
    BY AfterSteps DEF ScriptTypeOK
  <2>. QED BY <2>1 DEF ApplyChanges
<1>5. pending' = <<>> => pending' \in Seq(Change)
  OBVIOUS
<1>6. ASSUME NEW r \in Runners, FinishBehavior(r) \/ LeaveAction(r) PROVE ScriptTypeOK'
  <2>1. liveHull' \in [Targets -> 0..MaxHull]
    BY <1>4, <1>6 DEF FinishBehavior, LeaveAction, ScriptTypeOK
  <2>2. overlay' \in [Targets -> 0..MaxHull + 1 \cup {NoHull}] /\ pending' \in Seq(Change)
    BY <1>5, <1>6 DEF FinishBehavior, LeaveAction, TakeChanges, NothingRecorded
  <2>3. /\ script' \in [Runners -> Kinds \cup {"none", "leaving"}]
        /\ lone' \in [Runners -> BOOLEAN] /\ undone' \in BOOLEAN
        /\ UNCHANGED <<canWrite, opened, recorded, batch>>
    BY <1>6 DEF FinishBehavior, LeaveAction, TakeChanges, ScriptTypeOK
  <2>. QED BY <1>1, <2>1, <2>2, <2>3 DEF ScriptTypeOK
<1>7. ASSUME NEW r \in Runners, NEW ok \in BOOLEAN, FinishAction(r, ok) PROVE ScriptTypeOK'
  <2>1. overlay' \in [Targets -> 0..MaxHull + 1 \cup {NoHull}] /\ pending' \in Seq(Change)
    BY <1>5, <1>7 DEF FinishAction, TakeChanges, NothingRecorded
  <2>2. batch' \in [Runners -> Seq(Change)]
    <3>1. (IF ok THEN pending ELSE <<>>) \in Seq(Change)
      BY DEF ScriptTypeOK
    <3>. QED BY <1>7, <3>1 DEF FinishAction, ScriptTypeOK
  <2>3. /\ script' \in [Runners -> Kinds \cup {"none", "leaving"}] /\ undone' \in BOOLEAN
        /\ UNCHANGED <<canWrite, opened, recorded, lone, liveHull>>
    BY <1>7 DEF FinishAction, TakeChanges, ScriptTypeOK
  <2>. QED BY <1>1, <2>1, <2>2, <2>3 DEF ScriptTypeOK
<1>8. ASSUME NEW r \in Runners, ApplyBatch(r) PROVE ScriptTypeOK'
  <2>1. liveHull' \in [Targets -> 0..MaxHull]
    BY <1>4, <1>8 DEF ApplyBatch, ScriptTypeOK
  <2>2. batch' \in [Runners -> Seq(Change)]
    BY <1>5, <1>8 DEF ApplyBatch, ScriptTypeOK
  <2>3. UNCHANGED <<script, canWrite, pending, overlay, opened, recorded, lone, undone>>
    BY <1>8 DEF ApplyBatch
  <2>. QED BY <1>1, <2>1, <2>2, <2>3 DEF ScriptTypeOK
<1>9. ASSUME NEW r \in Runners, QueueChange(r) PROVE ScriptTypeOK'
  <2>1. recorded[r] \in Change
    BY <1>9 DEF QueueChange, ScriptTypeOK
  <2>. QED BY <1>1, <1>9, <2>1 DEF QueueChange, ScriptTypeOK
<1>10. ASSUME NEW r \in Runners, BeginTransaction(r) PROVE ScriptTypeOK'
  <2>1. [checkpoint |-> Len(pending), first |-> queued + 1] \in [checkpoint : Nat, first : Nat]
    BY DEF ScriptTypeOK
  <2>2. PICK o \in Seq([checkpoint : Nat, first : Nat]) : o = opened[r]
    BY DEF ScriptTypeOK
  <2>3. Append(o, [checkpoint |-> Len(pending), first |-> queued + 1])
          \in Seq([checkpoint : Nat, first : Nat])
    BY <2>1
  <2>4. opened' = [opened EXCEPT ![r] =
                      Append(o, [checkpoint |-> Len(pending), first |-> queued + 1])]
    BY <1>10, <2>2 DEF BeginTransaction
  <2>. QED BY <1>1, <1>10, <2>3, <2>4 DEF BeginTransaction, ScriptTypeOK
<1>11. \A r \in Runners : opened[r] # <<>>
           => Front(opened[r]) \in Seq([checkpoint : Nat, first : Nat])
  BY LastIn DEF ScriptTypeOK
<1>12. ASSUME NEW r \in Runners, Commit(r) PROVE ScriptTypeOK'
  BY <1>1, <1>11, <1>12 DEF Commit, ScriptTypeOK
<1>13. ASSUME NEW r \in Runners, Rollback(r) PROVE ScriptTypeOK'
  <2>1. PICK c \in Nat : c = Last(opened[r]).checkpoint
    <3>1. opened[r] # <<>> /\ opened[r] \in Seq([checkpoint : Nat, first : Nat])
      BY <1>13 DEF Rollback, ScriptTypeOK
    <3>2. Last(opened[r]) \in [checkpoint : Nat, first : Nat]
      BY <3>1, LastIn
    <3>. QED BY <3>2
  <2>2. Truncated(c) \in Seq(Change)
    BY <2>1 DEF Truncated, ScriptTypeOK
  <2>3. pending' = Truncated(c) /\ opened' = [opened EXCEPT ![r] = Front(opened[r])]
            /\ undone' = TRUE
        /\ UNCHANGED <<script, canWrite, overlay, liveHull, recorded, batch, lone>>
    BY <1>13, <2>1 DEF Rollback
  <2>4. opened' \in [Runners -> Seq([checkpoint : Nat, first : Nat])]
    BY <1>11, <1>13, <2>3 DEF Rollback, ScriptTypeOK
  <2>. QED BY <1>1, <2>2, <2>3, <2>4 DEF ScriptTypeOK
<1>14. ASSUME \/ \E r \in Runners, kind \in Kinds : Enter(r, kind)
              \/ \E trusted \in BOOLEAN : EvalPermissions(trusted)
              \/ UNCHANGED stVars
       PROVE  ScriptTypeOK'
  <2>1. ASSUME NEW r \in Runners, NEW kind \in Kinds, Enter(r, kind) PROVE ScriptTypeOK'
    <3>1. /\ script' \in [Runners -> Kinds \cup {"none", "leaving"}] /\ canWrite' = TRUE
          /\ lone' = [q \in Runners |->
                        IF q = r THEN \A p \in Runners \ {r} : script[p] = "none"
                                 ELSE lone[q] /\ script[q] = "none"]
          /\ UNCHANGED <<pending, overlay, liveHull, opened, recorded, batch, undone>>
      BY <2>1 DEF Enter, ScriptTypeOK
    <3>2. lone' \in [Runners -> BOOLEAN]
      BY <3>1, Zenon DEF ScriptTypeOK
    <3>. QED BY <1>1, <3>1, <3>2 DEF ScriptTypeOK
  <2>2. ASSUME NEW trusted \in BOOLEAN, EvalPermissions(trusted) PROVE ScriptTypeOK'
    BY <1>1, <2>2 DEF EvalPermissions, ScriptTypeOK
  <2>3. CASE UNCHANGED stVars
    BY <1>1, <2>3 DEF stVars, ScriptTypeOK
  <2>. QED BY <1>14, <2>1, <2>2, <2>3
<1>. QED BY <1>2, <1>3, <1>6, <1>7, <1>8, <1>9, <1>10, <1>12, <1>13, <1>14 DEF ScriptNext

\* A script that runs alone goes on alone, unless it ends.
LEMMA ShownKept ==
    ASSUME ReadInv, LoneInv, NEW r \in Runners, Running(r),
           NEW q \in Runners, Running(q), lone[q]
    PROVE  q = r
BY DEF LoneInv, Running, Kinds

\* Reading and writing, in any order, keep what a lone script is shown.
LEMMA ReadSteps ==
    ASSUME ReadInv, PlaceInv, LoneInv, ScriptTypeOK', [ScriptNext]_stVars
    PROVE  ReadInv'
<1>. DEFINE AtRest == (\A r \in Runners : script[r] = "none")
                       => pending = <<>> /\ overlay = NothingRecorded
            Reads == \A r \in Runners : Running(r) /\ lone[r] /\ ~undone => Shown(r)
<1>0. ScriptTypeOK /\ AtRest /\ Reads
  BY DEF ReadInv
<1>. SUFFICES AtRest' /\ Reads'
  BY DEF ReadInv
<1>1. ASSUME NEW r \in Runners, NEW kind \in Kinds, Enter(r, kind) PROVE AtRest' /\ Reads'
  <2>0. /\ script[r] = "none" /\ script' = [script EXCEPT ![r] = kind]
        /\ UNCHANGED <<pending, overlay, recorded, undone>>
        /\ \A q \in Runners : lone'[q] = IF q = r THEN \A p \in Runners \ {r} : script[p] = "none"
                                         ELSE lone[q] /\ script[q] = "none"
    BY <1>1 DEF Enter
  <2>1. AtRest'
    BY <2>0, <1>0 DEF ScriptTypeOK, Kinds
  <2>2. ASSUME NEW q \in Runners, Running(q)', lone'[q] PROVE Shown(q)'
    <3>1. q = r
      BY <2>0, <2>2, <1>0 DEF ScriptTypeOK, Running, Kinds
    <3>2. \A p \in Runners : script[p] = "none"
      BY <2>0, <2>2, <3>1
    <3>3. pending' = <<>> /\ overlay' = NothingRecorded /\ recorded'[r] = NoChange
      BY <1>0, <2>0, <3>2 DEF LoneInv, Running, Kinds
    <3>. QED BY <3>1, <3>3 DEF Shown, NothingRecorded
  <2>. QED BY <2>1, <2>2
<1>2. ASSUME NEW r \in Runners,
             FinishBehavior(r) \/ LeaveAction(r) \/ \E ok \in BOOLEAN : FinishAction(r, ok)
      PROVE  AtRest' /\ Reads'
  <2>1. /\ script[r] \in {"behavior", "action", "leaving"}
        /\ script' = [script EXCEPT ![r] = IF script[r] = "action" THEN "leaving" ELSE "none"]
        /\ pending' = <<>> /\ overlay' = NothingRecorded
        /\ \A q \in Runners \ {r} : lone'[q] = lone[q]
    BY <1>2, <1>0 DEF FinishBehavior, LeaveAction, FinishAction, TakeChanges, ScriptTypeOK
  <2>2. ASSUME NEW q \in Runners, Running(q)', lone'[q] PROVE FALSE
    <3>1. q # r
      BY <2>1, <2>2, <1>0 DEF ScriptTypeOK, Running, Kinds
    <3>2. Running(q) /\ lone[q]
      BY <2>1, <2>2, <3>1, <1>0 DEF ScriptTypeOK, Running
    <3>3. script[r] = "none"
      BY <3>1, <3>2 DEF LoneInv
    <3>. QED BY <2>1, <3>3
  <2>. QED BY <2>1, <2>2
<1>3. ASSUME NEW r \in Runners, NEW s \in Targets, NEW h, RecordChange(r, s, h)
          PROVE AtRest' /\ Reads'
  <2>1. /\ Running(r) /\ recorded[r] = NoChange
        /\ recorded' = [recorded EXCEPT ![r] = [id |-> queued + 1, ship |-> s, hull |-> h]]
        /\ overlay' = [overlay EXCEPT ![s] = h]
        /\ UNCHANGED <<script, pending, lone, undone>>
    BY <1>3 DEF RecordChange
  <2>2. AtRest'
    BY <2>1 DEF Running, Kinds
  <2>3. ASSUME Reads, NEW q \in Runners, Running(q)', lone'[q], ~undone' PROVE Shown(q)'
    <3>1. q = r /\ Shown(r)
      BY <2>1, <2>3, ShownKept DEF Running
    <3>2. recorded'[r].ship = s /\ recorded'[r].hull = h /\ overlay'[s] = h
      BY <2>1, <1>0 DEF ScriptTypeOK
    <3>3. \A p \in Targets : p # s => overlay'[p] = overlay[p]
      BY <2>1, <1>0 DEF ScriptTypeOK
    <3>4. ASSUME NEW p \in Targets, p # s
          PROVE  IF overlay'[p] = NoHull THEN \A i \in DOMAIN pending' : pending'[i].ship # p
                 ELSE LastChange(p, overlay[p])'
      BY <2>1, <3>1, <3>3, <3>4 DEF Shown, LastChange
    <3>5. recorded'[r] # NoChange
      <4>1. recorded'[r] = [id |-> queued + 1, ship |-> s, hull |-> h]
        BY <2>1, <1>0 DEF ScriptTypeOK
      <4>2. DOMAIN recorded'[r] = {"id", "ship", "hull"}
        BY <4>1
      <4>3. DOMAIN NoChange = {}
        BY DEF NoChange
      <4>. QED BY <4>2, <4>3, Zenon
    <3>6. Shown(r)'
      BY <3>2, <3>4, <3>5 DEF Shown
    <3>. QED BY <3>1, <3>6
  <2>. QED BY <1>0, <2>2, <2>3
<1>4. ASSUME NEW r \in Runners, QueueChange(r) PROVE AtRest' /\ Reads'
  <2>1. /\ recorded[r] # NoChange /\ pending' = Append(pending, recorded[r])
        /\ recorded' = [recorded EXCEPT ![r] = NoChange]
        /\ UNCHANGED <<script, overlay, lone, undone>>
    BY <1>4 DEF QueueChange
  <2>2. Running(r)
    BY <2>1 DEF LoneInv
  <2>3. AtRest'
    BY <2>1, <2>2 DEF Running, Kinds
  <2>4. ASSUME NEW q \in Runners, Running(q)', lone'[q], ~undone' PROVE Shown(q)'
    <3>1. q = r /\ Shown(r)
      BY <1>0, <2>1, <2>2, <2>4, ShownKept DEF Running
    <3>2. recorded[r] \in Change /\ pending \in Seq(Change)
      BY <1>0, <2>1 DEF ScriptTypeOK
    <3>3. /\ Len(pending) \in Nat /\ DOMAIN pending = 1..Len(pending)
          /\ DOMAIN pending' = 1..(Len(pending) + 1)
          /\ \A i \in 1..Len(pending) : pending'[i] = pending[i]
          /\ pending'[Len(pending) + 1] = recorded[r]
      <4>1. IsSequence(pending)
        BY <3>2 DEF IsSequence
      <4>2. Append(pending, recorded[r]) \in Seq(Change)
        BY <3>2
      <4>. QED BY <2>1, <3>2, <4>1, <4>2, AppendIds
    <3>4. recorded'[r] = NoChange
      BY <1>0, <2>1 DEF ScriptTypeOK
    <3>5. ASSUME NEW s \in Targets, recorded[r].ship = s
          PROVE  overlay[s] # NoHull /\ LastChange(s, overlay[s])'
      <4>1. overlay[s] = recorded[r].hull /\ overlay'[s] = overlay[s]
        BY <2>1, <3>1, <3>5 DEF Shown
      <4>2. recorded[r].hull \in Nat
        BY <3>2, HullAssumption DEF Change
      <4>. QED BY <3>3, <3>5, <4>1, <4>2, HullAssumption DEF LastChange
    <3>6. ASSUME NEW s \in Targets, recorded[r].ship # s
          PROVE  IF overlay[s] = NoHull THEN \A i \in DOMAIN pending' : pending'[i].ship # s
                 ELSE LastChange(s, overlay[s])'
      <4>1. CASE overlay[s] = NoHull
        BY <3>1, <3>3, <3>6, <4>1 DEF Shown
      <4>2. CASE overlay[s] # NoHull
        <5>1. LastChange(s, overlay[s])
          BY <3>1, <3>6, <4>2 DEF Shown
        <5>. QED BY <2>1, <3>3, <3>6, <4>2, <5>1 DEF LastChange
      <4>. QED BY <4>1, <4>2
    <3>. QED BY <2>1, <3>1, <3>4, <3>5, <3>6 DEF Shown
  <2>. QED BY <2>3, <2>4
<1>5. ASSUME NEW r \in Runners, Rollback(r) PROVE AtRest' /\ Reads'
  BY <1>5 DEF Rollback, Running, Kinds
<1>6. CASE UNCHANGED <<script, pending, overlay, recorded, lone, undone>>
  BY <1>0, <1>6 DEF Running, Shown, LastChange, NothingRecorded
<1>7. ASSUME NEW r \in Runners, ApplyBatch(r) \/ BeginTransaction(r) \/ Commit(r)
          PROVE AtRest' /\ Reads'
  BY <1>6, <1>7 DEF ApplyBatch, BeginTransaction, Commit
<1>8. ASSUME (\E trusted \in BOOLEAN : EvalPermissions(trusted)) \/ UNCHANGED stVars
          PROVE AtRest' /\ Reads'
  BY <1>6, <1>8 DEF EvalPermissions, stVars
<1>. HIDE DEF AtRest, Reads
<1>. QED BY <1>1, <1>2, <1>3, <1>4, <1>5, <1>7, <1>8, Zenon DEF ScriptNext, DamageShip

\* What the overlay shows is what applying the queue leaves.
LEMMA ReadsFollow == ReadInv => ReadsOwnWrites
<1>. SUFFICES ASSUME ReadInv, NEW r \in Runners, Running(r), lone[r], recorded[r] = NoChange,
         ~undone,
                     NEW s \in Targets
              PROVE  Clamp(ReadHull(s)) = AfterChanges(liveHull, pending)[s]
  BY DEF ReadsOwnWrites
<1>1. ScriptTypeOK /\ Shown(r)
  BY DEF ReadInv
<1>2. liveHull \in [Targets -> 0..MaxHull] /\ pending \in Seq(Change)
  BY <1>1 DEF ScriptTypeOK
<1>3. DOMAIN pending = 1..Len(pending)
  BY <1>2
<1>4. CASE overlay[s] = NoHull
  <2>1. \A i \in 1..Len(pending) : pending[i].ship # s
    BY <1>1, <1>3, <1>4 DEF Shown
  <2>2. AfterChanges(liveHull, pending)[s] = liveHull[s]
    BY <1>2, <2>1, AfterLast
  <2>3. liveHull[s] \in 0..MaxHull
    BY <1>2
  <2>. QED BY <1>4, <2>2, <2>3, HullAssumption DEF ReadHull, Clamp
<1>5. CASE overlay[s] # NoHull
  <2>1. PICK k \in DOMAIN pending :
            /\ pending[k].ship = s /\ pending[k].hull = overlay[s]
            /\ \A j \in DOMAIN pending : j > k => pending[j].ship # s
    BY <1>1, <1>5 DEF Shown, LastChange
  <2>2. AfterChanges(liveHull, pending)[s] = Clamp(pending[k].hull)
    <3>1. k \in 1..Len(pending) /\ \A j \in 1..Len(pending) : j > k => pending[j].ship # s
      BY <1>3, <2>1
    <3>. QED BY <1>2, <2>1, <3>1, AfterLast
  <2>. QED BY <1>5, <2>1, <2>2 DEF ReadHull
<1>. QED BY <1>4, <1>5

\* Any number of threads run scripts, each with any number of open transactions: what
\* a lone script rolled back is never applied, a change is applied at most once, and a
\* lone script reads what applying its queue would leave (TransactionsHold).
THEOREM TransactionsKeep == ScriptSpec => [](ScriptTypeOK /\ TransactionsHold)
<1>1. ScriptInit => PlaceInv /\ LoneInv /\ ReadInv
  <2>. SUFFICES ASSUME ScriptInit PROVE PlaceInv /\ LoneInv /\ ReadInv
    OBVIOUS
  <2>1. PlaceInv
    BY EmptyIds DEF ScriptInit, PlaceInv, Pending, InBatch, Recorded, Done, Standing, AppliedOnce
  <2>2. LoneInv
    BY DEF ScriptInit, LoneInv, Running, Kinds
  <2>3. ScriptTypeOK
    <3>1. <<>> \in Seq(Change) /\ <<>> \in Seq([checkpoint : Nat, first : Nat])
              /\ <<>> \in Seq(1..MaxChanges)
      OBVIOUS
    <3>2. 0 \in 0..MaxChanges /\ MaxHull \in 0..MaxHull
      BY HullAssumption, BoundAssumption
    <3>. QED BY <3>1, <3>2 DEF ScriptInit, ScriptTypeOK
  <2>4. ReadInv
    BY <2>3 DEF ScriptInit, ReadInv, Running, Kinds, NothingRecorded
  <2>. QED BY <2>1, <2>2, <2>4
<1>2. PlaceInv /\ LoneInv /\ ReadInv /\ [ScriptNext]_stVars => PlaceInv' /\ LoneInv' /\ ReadInv'
  <2>1. PlaceInv /\ LoneInv /\ [ScriptNext]_stVars => PlaceInv' /\ LoneInv'
    BY PlaceSteps, PlaceRollback, LoneSteps
  <2>. QED BY <2>1, ScriptTypesKeep, ReadSteps DEF ReadInv
<1>3. PlaceInv /\ ReadInv => ScriptTypeOK /\ TransactionsHold
  BY ReadsFollow DEF PlaceInv, ReadInv, Done, Standing, RolledBackIsGone, TransactionsHold
<1>. QED BY <1>1, <1>2, <1>3, PTL DEF ScriptSpec

(***************************************************************************)
(* The state of one script.  The overlay holds, of every ship, the last    *)
(* change queued and whether a removal is; nothing queued spawns a ship    *)
(* that is there, so that applying the queue is followed change by change. *)
(***************************************************************************)

ShipTable == [Vessels -> ShipRecord]
IsKind(c, kind, v) == c.kind = kind /\ c.of = v

\* What each change does to a ship, and the types.
LEMMA AppliedTo ==
    ASSUME NEW f \in ShipTable, NEW c \in Todo
    PROVE  /\ Applied(f, c) \in ShipTable
           /\ \A v \in Vessels :
                /\ IsKind(c, "destroy", v) => ~Applied(f, c)[v].live
                /\ IsKind(c, "hull", v) /\ f[v].live =>
                     Applied(f, c)[v].live /\ Applied(f, c)[v].hull = Within(c.value)
                /\ ~IsKind(c, "destroy", v) /\ ~IsKind(c, "spawn", v)
                     => Applied(f, c)[v].live = f[v].live
                /\ ~IsKind(c, "destroy", v) /\ ~IsKind(c, "spawn", v) /\ ~IsKind(c, "hull", v)
                     => Applied(f, c)[v].hull = f[v].hull
<1>0. /\ c.kind \in {"hull", "load", "destroy", "spawn", "raze", "notice"}
      /\ c.kind = "hull" => c.of \in Vessels /\ c.value \in Hulls
      /\ c.kind \in {"load", "destroy", "spawn"} => c.of \in Vessels /\ c.zone \in Zones
      /\ c.kind = "raze" => c.zone \in Zones
      /\ \A u \in Vessels : f[u] \in ShipRecord
  BY DEF Todo, ShipTable
<1>1. CASE c.kind = "hull" /\ f[c.of].live
  <2>1. Applied(f, c) = [f EXCEPT ![c.of].hull = Within(c.value)]
    BY <1>1 DEF Applied
  <2>2. Within(c.value) \in 0..FullHull
    BY <1>0, <1>1, HullPointsAssumption DEF Within, Hulls
  <2>3. [f[c.of] EXCEPT !.hull = Within(c.value)] \in ShipRecord
    BY <1>0, <1>1, <2>2 DEF ShipRecord
  <2>4. Applied(f, c) = [f EXCEPT ![c.of] = [f[c.of] EXCEPT !.hull = Within(c.value)]]
    BY <2>1, Zenon
  <2>5. Applied(f, c) \in ShipTable
    BY <2>3, <2>4 DEF ShipTable
  <2>6. \A v \in Vessels : Applied(f, c)[v] = IF v = c.of
            THEN [f[c.of] EXCEPT !.hull = Within(c.value)] ELSE f[v]
    BY <2>4 DEF ShipTable
  <2>. QED BY <1>0, <1>1, <2>5, <2>6 DEF IsKind, ShipRecord
<1>2. CASE c.kind = "load" /\ f[c.of].live
  <2>1. Applied(f, c) = [f EXCEPT ![c.of] = [f[c.of] EXCEPT !.cargo = 1]]
    BY <1>2 DEF Applied
  <2>2. [f[c.of] EXCEPT !.cargo = 1] \in ShipRecord
    BY <1>0, <1>2 DEF ShipRecord
  <2>3. Applied(f, c) \in ShipTable
    BY <2>1, <2>2 DEF ShipTable
  <2>4. ASSUME NEW v \in Vessels
        PROVE  Applied(f, c)[v].live = f[v].live /\ Applied(f, c)[v].hull = f[v].hull
    <3>1. Applied(f, c)[v] = IF v = c.of THEN [f[v] EXCEPT !.cargo = 1] ELSE f[v]
      BY <2>1 DEF ShipTable
    <3>. QED BY <1>0, <3>1 DEF ShipRecord
  <2>5. \A v \in Vessels : ~IsKind(c, "destroy", v) /\ ~IsKind(c, "hull", v)
    BY <1>2 DEF IsKind
  <2>. QED BY <2>3, <2>4, <2>5
<1>3. CASE c.kind = "destroy"
  <2>1. Applied(f, c) = [f EXCEPT ![c.of] = NoShipHere]
    BY <1>3 DEF Applied
  <2>2. NoShipHere \in ShipRecord
    BY HullPointsAssumption DEF NoShipHere, ShipRecord
  <2>3. Applied(f, c) \in ShipTable
    BY <2>1, <2>2 DEF ShipTable
  <2>4. \A v \in Vessels : Applied(f, c)[v] = IF v = c.of THEN NoShipHere ELSE f[v]
    BY <2>1 DEF ShipTable
  <2>5. \A v \in Vessels : ~IsKind(c, "hull", v) /\ (IsKind(c, "destroy", v) <=> v = c.of)
    BY <1>3 DEF IsKind
  <2>6. ~NoShipHere.live
    BY DEF NoShipHere
  <2>. QED BY <2>3, <2>4, <2>5, <2>6
<1>4. CASE c.kind = "spawn"
  <2>. DEFINE r == [zone |-> c.zone, hull |-> FullHull, cargo |-> 0, live |-> TRUE]
  <2>1. Applied(f, c) = [f EXCEPT ![c.of] = r]
    BY <1>4 DEF Applied
  <2>2. r \in ShipRecord
    BY <1>0, <1>4, HullPointsAssumption DEF ShipRecord
  <2>. HIDE DEF r
  <2>. QED BY <1>0, <1>4, <2>1, <2>2 DEF IsKind, ShipTable
<1>5. CASE c.kind = "raze"
  <2>1. Applied(f, c) = [u \in Vessels |->
            IF f[u].zone = c.zone THEN [f[u] EXCEPT !.zone = Nowhere] ELSE f[u]]
    BY <1>5 DEF Applied
  <2>2. \A u \in Vessels : /\ [f[u] EXCEPT !.zone = Nowhere] \in ShipRecord
                           /\ [f[u] EXCEPT !.zone = Nowhere].live = f[u].live
                           /\ [f[u] EXCEPT !.zone = Nowhere].hull = f[u].hull
    BY <1>0 DEF ShipRecord
  <2>. QED BY <1>0, <1>5, <2>1, <2>2 DEF IsKind, ShipTable
<1>6. CASE ~(c.kind = "hull" /\ f[c.of].live) /\ ~(c.kind = "load" /\ f[c.of].live)
           /\ c.kind \notin {"destroy", "spawn", "raze"}
  <2>1. Applied(f, c) = f
    BY <1>6 DEF Applied
  <2>. QED BY <1>6, <2>1 DEF IsKind
<1>. QED BY <1>1, <1>2, <1>3, <1>4, <1>5, <1>6

\* What applying the queue leaves, change by change.
LEMMA TodoSteps ==
    ASSUME ships \in ShipTable, todo \in Seq(Todo)
    PROVE  \E f \in [0..Len(todo) -> ShipTable] :
              /\ f[0] = ships /\ f[Len(todo)] = AfterTodo
              /\ \A i \in 1..Len(todo) : f[i] = Applied(f[i - 1], todo[i])
<1>. DEFINE n == Len(todo)
            X == ShipTable
            Do(i, y) == Applied(y, todo[i])
            G == [p \in (1..n) \X X |-> Do(p[1], p[2])]
            P(g) == g = [i \in 0..n |-> IF i = 0 THEN ships ELSE Do(i, g[i - 1])]
<1>1. n \in Nat /\ \A i \in 1..n : todo[i] \in Todo
  BY LenProperties, ElementOfSeq
<1>2. ASSUME NEW i \in 1..n, NEW y \in X PROVE Do(i, y) \in X
  <2>. QED BY <1>1, AppliedTo
<1>3. ASSUME NEW i \in 1..n, NEW y \in X PROVE G[<<i, y>>] = Do(i, y)
  OBVIOUS
<1>4. AfterTodo = (CHOOSE g : P(g))[n]
  BY DEF AfterTodo
<1>. SUFFICES \E f \in [0..n -> X] : /\ f[0] = ships /\ f[n] = AfterTodo
                                     /\ \A i \in 1..n : f[i] = Do(i, f[i - 1])
  OBVIOUS
<1>. HIDE DEF X, Do, G, n
<1>5. PICK f \in [0..n -> X] : Computes(f, n, ships, G)
  <2>1. n \in Nat /\ ships \in X /\ \A i \in 1..n, y \in X : G[<<i, y>>] \in X
    BY <1>1, <1>2, <1>3 DEF X
  <2>. QED BY <2>1, Recursion
<1>6. f[0] = ships /\ \A i \in 1..n : f[i] = Do(i, f[i - 1])
  <2>1. ASSUME NEW i \in 1..n PROVE f[i - 1] \in X
    BY <1>1
  <2>. QED BY <1>3, <1>5, <2>1 DEF Computes
<1>7. P(f)
  <2>1. ASSUME NEW i \in 0..n PROVE f[i] = IF i = 0 THEN ships ELSE Do(i, f[i - 1])
    BY <1>1, <1>6
  <2>. QED BY <1>5, <2>1
<1>8. ASSUME NEW g, P(g) PROVE g = f
  <2>. DEFINE T == {i \in 0..n : g[i] = f[i]}
  <2>1. \A i \in 0..n : g[i] = IF i = 0 THEN ships ELSE Do(i, g[i - 1])
    BY <1>8
  <2>2. 0 \in T
    BY <2>1, <1>1, <1>6
  <2>3. ASSUME NEW i \in 1..n, i - 1 \in T PROVE i \in T
    BY <2>1, <2>3, <1>1, <1>6
  <2>4. 0..n \subseteq T
    <3>. HIDE DEF T
    <3>. QED BY <1>1, <2>2, <2>3, Upto
  <2>. QED BY <1>5, <1>8, <2>4
<1>9. f[n] = AfterTodo
  <2>. HIDE DEF P
  <2>. QED BY <1>4, <1>7, <1>8
<1>. QED BY <1>5, <1>6, <1>9

\* Change i of the queue is the last of ship v's hull.
LastHull(i, v) ==
    /\ IsKind(todo[i], "hull", v) /\ merged[v].hull = {todo[i].value}
    /\ \A j \in DOMAIN todo : j > i => ~IsKind(todo[j], "hull", v)

\* The overlay holds what the queue says of a ship, and nothing queued spawns one that
\* is there.
StateInv ==
    /\ ScriptStateTypeOK /\ Zones # {}
    /\ \A v \in Vessels :
        /\ v \in doomed <=> \E i \in DOMAIN todo : IsKind(todo[i], "destroy", v)
        /\ IF merged[v].hull = {} THEN \A i \in DOMAIN todo : ~IsKind(todo[i], "hull", v)
                                  ELSE \E i \in DOMAIN todo : LastHull(i, v)
        /\ ships[v].live => \A i \in DOMAIN todo : ~IsKind(todo[i], "spawn", v)

\* What the queue leaves of a ship that is there.
LEMMA AfterAll ==
    ASSUME StateInv
    PROVE  /\ AfterTodo \in ShipTable
           /\ \A v \in Vessels : ships[v].live =>
                /\ AfterTodo[v].live <=> v \notin doomed
                /\ v \notin doomed => AfterTodo[v].hull = Within(HullOf(v))
<1>. DEFINE n == Len(todo)
<1>0. ships \in ShipTable /\ todo \in Seq(Todo)
          /\ merged \in [Vessels -> [hull : SUBSET Hulls, cargo : 0..1]]
  BY DEF StateInv, ScriptStateTypeOK, ShipTable
<1>1. n \in Nat /\ DOMAIN todo = 1..n /\ \A i \in 1..n : todo[i] \in Todo
  BY <1>0, LenProperties, ElementOfSeq
<1>2. PICK f \in [0..n -> ShipTable] :
          /\ f[0] = ships /\ f[n] = AfterTodo
          /\ \A i \in 1..n : f[i] = Applied(f[i - 1], todo[i])
  BY <1>0, TodoSteps
<1>. HIDE DEF n
<1>3. \A i \in 0..n : f[i] \in ShipTable
  BY <1>2
<1>4. AfterTodo \in ShipTable
  BY <1>1, <1>2, <1>3
<1>5. ASSUME NEW v \in Vessels, ships[v].live
      PROVE  /\ AfterTodo[v].live <=> v \notin doomed
             /\ v \notin doomed => AfterTodo[v].hull = Within(HullOf(v))
  <2>. DEFINE Destroys(i) == IsKind(todo[i], "destroy", v)
              Mends(i)    == IsKind(todo[i], "hull", v)
              LiveAt(i)   == f[i][v].live
              HullAt(i)   == f[i][v].hull
  <2>1. ASSUME NEW i \in 1..n
        PROVE  /\ i - 1 \in 0..n
               /\ Destroys(i) => ~LiveAt(i)
               /\ ~Destroys(i) => LiveAt(i) = LiveAt(i - 1)
               /\ ~Destroys(i) /\ ~Mends(i) => HullAt(i) = HullAt(i - 1)
               /\ Mends(i) /\ LiveAt(i - 1) => HullAt(i) = Within(todo[i].value)
    <3>1. i - 1 \in 0..n /\ f[i - 1] \in ShipTable /\ todo[i] \in Todo
      BY <1>1, <1>3
    <3>2. ~IsKind(todo[i], "spawn", v)
      BY <1>1, <1>5 DEF StateInv
    <3>3. f[i] = Applied(f[i - 1], todo[i])
      BY <1>2
    <3>. QED BY <3>1, <3>2, <3>3, AppliedTo
  <2>2. LiveAt(0) /\ HullAt(0) = ships[v].hull
    BY <1>2, <1>5
  <2>2a. \A i \in 0..n : LiveAt(i) \in BOOLEAN
    BY <1>3 DEF ShipTable, ShipRecord
  <2>. HIDE DEF Destroys, Mends, LiveAt, HullAt
  <2>3. 0..n \subseteq {i \in 0..n : LiveAt(i) <=> \A j \in 1..i : ~Destroys(j)}
    <3>. DEFINE T == {i \in 0..n : LiveAt(i) <=> \A j \in 1..i : ~Destroys(j)}
    <3>1. 0 \in T
      BY <1>1, <2>2
    <3>2. ASSUME NEW i \in 1..n, i - 1 \in T PROVE i \in T
      <4>1. \A j \in 1..i : j = i \/ j \in 1..(i - 1)
        OBVIOUS
      <4>2. i \in 1..i /\ 1..(i - 1) \subseteq 1..i /\ i \in 0..n
        OBVIOUS
      <4>3. CASE Destroys(i)
        BY <2>1, <4>2, <4>3
      <4>4. CASE ~Destroys(i)
        BY <2>1, <3>2, <4>1, <4>2, <4>4, <2>2a
      <4>. QED BY <4>3, <4>4
    <3>. HIDE DEF T
    <3>3. 0..n \subseteq T
      BY <1>1, <3>1, <3>2, Upto
    <3>. QED BY <3>3 DEF T
  <2>4. LiveAt(n) <=> v \notin doomed
    <3>1. v \in doomed <=> \E i \in 1..n : Destroys(i)
      BY <1>1 DEF StateInv, Destroys
    <3>. QED BY <1>1, <2>3, <3>1
  <2>5. ASSUME v \notin doomed
        PROVE  \A i \in 1..n : ~Destroys(i) /\ LiveAt(i - 1)
    <3>1. \A i \in 1..n : ~Destroys(i)
      BY <1>1, <2>5 DEF StateInv, Destroys
    <3>2. \A i \in 1..n : 1..(i - 1) \subseteq 1..n /\ i - 1 \in 0..n
      BY <1>1
    <3>. QED BY <2>3, <3>1, <3>2
  <2>6. ASSUME v \notin doomed, NEW k \in 0..n, \A i \in 1..n : i > k => ~Mends(i)
        PROVE  HullAt(n) = HullAt(k)
    <3>. DEFINE T == {i \in 0..n : i >= k => HullAt(i) = HullAt(k)}
    <3>1. 0 \in T
      BY <1>1
    <3>2. ASSUME NEW i \in 1..n, i - 1 \in T PROVE i \in T
      <4>1. CASE i <= k
        BY <4>1
      <4>2. CASE i > k
        <5>1. ~Destroys(i) /\ ~Mends(i) /\ i - 1 >= k
          BY <4>2, <2>5, <2>6
        <5>. QED BY <5>1, <2>1, <3>2
      <4>. QED BY <4>1, <4>2
    <3>3. 0..n \subseteq T
      <4>. HIDE DEF T
      <4>. QED BY <1>1, <3>1, <3>2, Upto
    <3>. QED BY <1>1, <3>3
  <2>7. ASSUME v \notin doomed PROVE HullAt(n) = Within(HullOf(v))
    <3>1. CASE merged[v].hull = {}
      <4>1. \A i \in 1..n : ~Mends(i)
        BY <1>1, <3>1 DEF StateInv, Mends
      <4>2. 0 \in 0..n
        BY <1>1
      <4>3. HullAt(n) = ships[v].hull
        BY <2>2, <2>6, <2>7, <4>1, <4>2
      <4>4. ships[v].hull \in 0..FullHull
        BY <1>0 DEF ShipTable, ShipRecord
      <4>. QED BY <3>1, <4>3, <4>4, HullPointsAssumption DEF HullOf, Within
    <3>2. CASE merged[v].hull # {}
      <4>1. PICK k \in 1..n : LastHull(k, v)
        BY <1>1, <3>2 DEF StateInv
      <4>2. Mends(k) /\ k \in 0..n /\ \A i \in 1..n : i > k => ~Mends(i)
        BY <1>1, <4>1 DEF LastHull, Mends
      <4>3. HullAt(k) = Within(todo[k].value)
        BY <2>1, <2>5, <2>7, <4>2
      <4>4. HullAt(n) = HullAt(k)
        BY <2>6, <2>7, <4>2
      <4>5. HullOf(v) = todo[k].value
        <5>1. merged[v].hull = {todo[k].value}
          BY <4>1 DEF LastHull
        <5>. QED BY <5>1 DEF HullOf
      <4>. QED BY <4>3, <4>4, <4>5
    <3>. QED BY <3>1, <3>2
  <2>. QED BY <1>2, <2>4, <2>7 DEF LiveAt, HullAt
<1>. QED BY <1>4, <1>5

\* A change is queued, and the overlay says the same.
LEMMA QueueKeeps ==
    ASSUME StateInv, ScriptStateTypeOK', NEW c \in Todo, Queue(c), ships' = ships,
           \A v \in Vessels :
               /\ v \in doomed' <=> v \in doomed \/ IsKind(c, "destroy", v)
               /\ merged'[v].hull = IF IsKind(c, "hull", v) THEN {c.value} ELSE merged[v].hull
               /\ ships[v].live => ~IsKind(c, "spawn", v)
    PROVE  StateInv'
<1>. DEFINE n == Len(todo)
<1>1. todo \in Seq(Todo) /\ todo' \in Seq(Todo) /\ todo' = Append(todo, c)
  BY DEF StateInv, ScriptStateTypeOK, Queue
<1>2. /\ n \in Nat /\ DOMAIN todo = 1..n /\ DOMAIN todo' = 1..(n + 1)
      /\ todo'[n + 1] = c /\ \A i \in 1..n : todo'[i] = todo[i]
  <2>1. n \in Nat /\ DOMAIN todo = 1..n
    BY <1>1, LenProperties
  <2>2. Len(todo') = n + 1 /\ todo'[n + 1] = c /\ \A i \in 1..n : todo'[i] = todo[i]
    BY <1>1, <2>1, AppendProperties
  <2>. QED BY <1>1, <2>1, <2>2, LenProperties
<1>. HIDE DEF n
<1>3. \A i \in DOMAIN todo' : IF i \in DOMAIN todo THEN todo'[i] = todo[i] ELSE todo'[i] = c
  BY <1>2
<1>4. n + 1 \in DOMAIN todo' /\ \A i \in DOMAIN todo : i \in DOMAIN todo' /\ i < n + 1
  BY <1>2
<1>5. ASSUME NEW v \in Vessels
      PROVE  v \in doomed' <=> \E i \in DOMAIN todo' : IsKind(todo'[i], "destroy", v)
  BY <1>2, <1>3, <1>4 DEF StateInv
<1>6. ASSUME NEW v \in Vessels, IsKind(c, "hull", v)
      PROVE  IF merged'[v].hull = {} THEN \A i \in DOMAIN todo' : ~IsKind(todo'[i], "hull", v)
                                     ELSE \E i \in DOMAIN todo' : LastHull(i, v)'
  <2>0. PICK k \in DOMAIN todo' : k = n + 1
    BY <1>4
  <2>1. merged'[v].hull = {c.value} /\ todo'[k] = c
    BY <1>2, <1>6, <2>0
  <2>2. \A j \in DOMAIN todo' : ~(j > k)
    BY <1>2, <2>0
  <2>3. LastHull(k, v)'
    BY <1>6, <2>1, <2>2 DEF LastHull
  <2>4. merged'[v].hull # {}
    BY <2>1
  <2>. QED BY <2>1, <2>3, <2>4, Zenon
<1>7. ASSUME NEW v \in Vessels, ~IsKind(c, "hull", v)
      PROVE  IF merged'[v].hull = {} THEN \A i \in DOMAIN todo' : ~IsKind(todo'[i], "hull", v)
                                     ELSE \E i \in DOMAIN todo' : LastHull(i, v)'
  <2>0. merged'[v].hull = merged[v].hull
    BY <1>7
  <2>1. CASE merged[v].hull = {}
    BY <1>3, <1>7, <2>0, <2>1 DEF StateInv
  <2>2. CASE merged[v].hull # {}
    <3>1. PICK i \in DOMAIN todo : LastHull(i, v)
      BY <2>2 DEF StateInv
    <3>2. LastHull(i, v)'
      BY <1>2, <1>3, <1>4, <1>7, <2>0, <3>1 DEF LastHull
    <3>. QED BY <1>4, <2>0, <2>2, <3>2
  <2>. QED BY <2>1, <2>2
<1>8. ASSUME NEW v \in Vessels, ships'[v].live
      PROVE  \A i \in DOMAIN todo' : ~IsKind(todo'[i], "spawn", v)
  BY <1>3, <1>8 DEF StateInv
<1>9. Zones # {}
  BY DEF StateInv
<1>10. ASSUME NEW v \in Vessels
       PROVE  IF merged'[v].hull = {} THEN \A i \in DOMAIN todo' : ~IsKind(todo'[i], "hull", v)
                                      ELSE \E i \in DOMAIN todo' : LastHull(i, v)'
  <2>1. CASE IsKind(c, "hull", v)
    BY <1>6, <2>1, Zenon
  <2>2. CASE ~IsKind(c, "hull", v)
    BY <1>7, <2>2, Zenon
  <2>. QED BY <2>1, <2>2
<1>. QED BY <1>5, <1>8, <1>9, <1>10, Zenon DEF StateInv

\* Every call and every step of the game keeps the overlay in line with the queue.
LEMMA ScriptStateInductive == StateInv /\ [ScriptStateNext]_ssVars => StateInv'
<1>. SUFFICES ASSUME StateInv, [ScriptStateNext]_ssVars PROVE StateInv'
  OBVIOUS
<1>. USE HullPointsAssumption
<1>0. ScriptStateTypeOK /\ Zones # {}
  BY DEF StateInv
<1>q. ASSUME NEW c \in Todo, Queue(c) PROVE todo' \in Seq(Todo)
  BY <1>0, <1>q, AppendProperties DEF Queue, ScriptStateTypeOK
<1>1. ASSUME NEW v \in Vessels, NEW h \in Hulls, ModifyHull(v, h) PROVE StateInv'
  <2>. DEFINE c == [kind |-> "hull", of |-> v, value |-> h]
  <2>1. c \in Todo /\ Queue(c) /\ SameLive /\ UNCHANGED doomed
        /\ merged' = [merged EXCEPT ![v].hull = {h}]
    BY <1>1 DEF ModifyHull, MergeHull, Todo
  <2>2. merged[v] \in [hull : SUBSET Hulls, cargo : 0..1]
    BY <1>0 DEF ScriptStateTypeOK
  <2>3. merged' \in [Vessels -> [hull : SUBSET Hulls, cargo : 0..1]]
    BY <1>0, <2>1, <2>2 DEF ScriptStateTypeOK
  <2>4. \A u \in Vessels : merged'[u].hull = IF u = v THEN {h} ELSE merged[u].hull
    BY <1>0, <2>1, <2>2 DEF ScriptStateTypeOK
  <2>5. ScriptStateTypeOK'
    BY <1>0, <1>q, <2>1, <2>3 DEF ScriptStateTypeOK, SameLive
  <2>6. /\ c.value = h /\ \A u \in Vessels : IsKind(c, "hull", u) <=> u = v
        /\ \A u \in Vessels : ~IsKind(c, "destroy", u) /\ ~IsKind(c, "spawn", u)
    BY DEF IsKind
  <2>. HIDE DEF c
  <2>. QED BY <2>1, <2>4, <2>5, <2>6, QueueKeeps DEF SameLive
<1>2. ASSUME NEW v \in Vessels, Damage(v) PROVE StateInv'
  <2>1. PICK current \in IF GetShip(v) = {} THEN {FullHull} ELSE {s.hull : s \in GetShip(v)} :
            ModifyHull(v, IF current = 0 THEN 0 ELSE current - 1)
    BY <1>2 DEF Damage
  <2>2. current \in Hulls
    <3>1. HullOf(v) \in Hulls
      <4>1. ships[v].hull \in 0..FullHull
        BY <1>0 DEF ScriptStateTypeOK, ShipRecord
      <4>2. merged[v].hull \subseteq Hulls
        BY <1>0 DEF ScriptStateTypeOK
      <4>. QED BY <4>1, <4>2 DEF HullOf, Hulls
    <3>2. Overlaid(v).hull = HullOf(v)
      BY <1>0 DEF Overlaid, ScriptStateTypeOK, ShipRecord
    <3>. QED BY <2>1, <3>1, <3>2 DEF GetShip, Hulls
  <2>3. (IF current = 0 THEN 0 ELSE current - 1) \in Hulls
    BY <2>2 DEF Hulls
  <2>. QED BY <1>1, <2>1, <2>3
<1>3. ASSUME NEW v \in Vessels, AddCargo(v) PROVE StateInv'
  <2>. DEFINE c == [kind |-> "load", of |-> v, zone |-> ships[v].zone]
  <2>0. ships[v].zone \in Zones
    BY <1>0, <1>3 DEF AddCargo, ScriptStateTypeOK, ShipRecord
  <2>1. c \in Todo /\ Queue(c) /\ SameLive /\ UNCHANGED doomed
        /\ merged' = [merged EXCEPT ![v].cargo = 1]
    BY <1>3, <2>0 DEF AddCargo, Todo
  <2>2. merged[v] \in [hull : SUBSET Hulls, cargo : 0..1]
    BY <1>0 DEF ScriptStateTypeOK
  <2>3. merged' \in [Vessels -> [hull : SUBSET Hulls, cargo : 0..1]]
    BY <1>0, <2>1, <2>2 DEF ScriptStateTypeOK
  <2>4. \A u \in Vessels : merged'[u].hull = merged[u].hull
    BY <1>0, <2>1, <2>2 DEF ScriptStateTypeOK
  <2>5. ScriptStateTypeOK'
    BY <1>0, <1>q, <2>1, <2>3 DEF ScriptStateTypeOK, SameLive
  <2>6. \A u \in Vessels : ~IsKind(c, "hull", u) /\ ~IsKind(c, "destroy", u)
            /\ ~IsKind(c, "spawn", u)
    BY DEF IsKind
  <2>. HIDE DEF c
  <2>. QED BY <2>1, <2>4, <2>5, <2>6, QueueKeeps DEF SameLive
<1>4. ASSUME NEW v \in Vessels, NEW z \in zones, SpawnNpc(v, z) PROVE StateInv'
  <2>. DEFINE c == [kind |-> "spawn", of |-> v, zone |-> z]
  <2>0. z \in Zones
    BY <1>0 DEF ScriptStateTypeOK
  <2>1. c \in Todo /\ Queue(c) /\ SameLive /\ UNCHANGED <<merged, doomed>> /\ ~ships[v].live
    BY <1>4, <2>0 DEF SpawnNpc, Todo
  <2>5. ScriptStateTypeOK'
    BY <1>0, <1>q, <2>1 DEF ScriptStateTypeOK, SameLive
  <2>6. \A u \in Vessels : ~IsKind(c, "hull", u) /\ ~IsKind(c, "destroy", u)
                           /\ (IsKind(c, "spawn", u) <=> u = v)
    BY DEF IsKind
  <2>. HIDE DEF c
  <2>. QED BY <2>1, <2>5, <2>6, QueueKeeps DEF SameLive
<1>5. ASSUME NEW v \in Vessels, DestroyShip(v) PROVE StateInv'
  <2>. DEFINE c == [kind |-> "destroy", of |-> v, zone |-> CHOOSE z \in Zones : TRUE]
  <2>0. (CHOOSE z \in Zones : TRUE) \in Zones
    BY <1>0
  <2>1. c \in Todo /\ Queue(c) /\ SameLive /\ UNCHANGED merged /\ doomed' = doomed \cup {v}
    BY <1>5, <2>0 DEF DestroyShip, Todo
  <2>5. ScriptStateTypeOK'
    BY <1>0, <1>q, <2>1 DEF ScriptStateTypeOK, SameLive
  <2>6. \A u \in Vessels : ~IsKind(c, "hull", u) /\ ~IsKind(c, "spawn", u)
                           /\ (IsKind(c, "destroy", u) <=> u = v)
    BY DEF IsKind
  <2>. HIDE DEF c
  <2>. QED BY <2>1, <2>5, <2>6, QueueKeeps DEF SameLive
<1>6. ASSUME NEW z \in zones, DestroySector(z) \/ Announce(z) PROVE StateInv'
  <2>. DEFINE c == [kind |-> IF DestroySector(z) THEN "raze" ELSE "notice", zone |-> z]
  <2>1. c \in Todo /\ Queue(c) /\ SameLive /\ UNCHANGED <<merged, doomed>>
    <3>1. z \in Zones
      BY <1>0 DEF ScriptStateTypeOK
    <3>2. c \in Todo
      BY <3>1 DEF Todo
    <3>3. CASE DestroySector(z)
      BY <3>2, <3>3 DEF DestroySector
    <3>4. CASE ~DestroySector(z)
      BY <1>6, <3>2, <3>4 DEF Announce
    <3>. QED BY <3>3, <3>4
  <2>5. ScriptStateTypeOK'
    BY <1>0, <1>q, <2>1 DEF ScriptStateTypeOK, SameLive
  <2>6. \A u \in Vessels : ~IsKind(c, "hull", u) /\ ~IsKind(c, "spawn", u)
            /\ ~IsKind(c, "destroy", u)
    BY DEF IsKind
  <2>. HIDE DEF c
  <2>. QED BY <2>1, <2>5, <2>6, QueueKeeps DEF SameLive
<1>7. ASSUME ApplyPending \/ Clear PROVE StateInv'
  <2>1. todo' = <<>> /\ merged' = [v \in Vessels |-> Untouched] /\ doomed' = {}
        /\ UNCHANGED <<limits, context>>
    BY <1>7 DEF ApplyPending, Clear, SameLive
  <2>2. ships' \in ShipTable /\ zones' \subseteq Zones
    BY <1>0, <1>7, AfterAll DEF ApplyPending, Clear, SameLive, ScriptStateTypeOK, ShipTable
  <2>3. \A v \in Vessels : merged'[v].hull = {}
    BY <2>1 DEF Untouched
  <2>4. Untouched \in [hull : SUBSET Hulls, cargo : 0..1]
    BY DEF Untouched
  <2>5. ScriptStateTypeOK'
    BY <1>0, <2>1, <2>2, <2>4 DEF ScriptStateTypeOK, ShipTable
  <2>6. DOMAIN todo' = {}
    BY <2>1
  <2>. QED BY <1>0, <2>1, <2>3, <2>5, <2>6 DEF StateInv
<1>8. ASSUME NEW z \in zones, NEW p \in {Trusted, NpcBehavior(z), ReadOnly}, SetPermissions(p, z)
      PROVE  StateInv'
  <2>0. z \in Zones
    BY <1>0 DEF ScriptStateTypeOK
  <2>1. p \in Limits
    <3>1. Trusted \in Limits
      BY DEF Trusted, Limits
    <3>2. NpcBehavior(z) \in Limits
      BY <2>0 DEF NpcBehavior, Limits
    <3>3. ReadOnly \in Limits
      BY DEF ReadOnly, Default, Limits
    <3>. QED BY <3>1, <3>2, <3>3
  <2>2. UNCHANGED <<ships, zones, todo, merged, doomed>>
    BY <1>8 DEF SetPermissions
  <2>3. ScriptStateTypeOK'
    BY <1>0, <1>8, <2>0, <2>1 DEF SetPermissions, ScriptStateTypeOK
  <2>. QED BY <2>2, <2>3 DEF StateInv, LastHull
<1>9. ASSUME NEW v \in Vessels, Hit(v) PROVE StateInv'
  <2>1. ships[v] \in ShipRecord /\ ships[v].hull > 0
    BY <1>0, <1>9 DEF Hit, ScriptStateTypeOK
  <2>2. [ships[v] EXCEPT !.hull = @ - 1] \in ShipRecord
        /\ [ships[v] EXCEPT !.hull = @ - 1].live = ships[v].live
    BY <2>1 DEF ShipRecord
  <2>3. ships' = [ships EXCEPT ![v] = [ships[v] EXCEPT !.hull = @ - 1]]
    BY <1>9, Zenon DEF Hit
  <2>4. /\ ships' \in [Vessels -> ShipRecord]
        /\ \A u \in Vessels : ships'[u].live = ships[u].live
    BY <1>0, <2>2, <2>3 DEF ScriptStateTypeOK
  <2>5. UNCHANGED <<limits, context, zones, todo, merged, doomed>>
    BY <1>9 DEF Hit
  <2>6. ScriptStateTypeOK'
    BY <1>0, <2>4, <2>5 DEF ScriptStateTypeOK
  <2>. QED BY <2>4, <2>5, <2>6 DEF StateInv, LastHull
<1>10. CASE UNCHANGED ssVars
  BY <1>0, <1>10 DEF ssVars, StateInv, ScriptStateTypeOK, LastHull
<1>. QED BY <1>1, <1>2, <1>3, <1>4, <1>5, <1>6, <1>7, <1>8, <1>9, <1>10 DEF ScriptStateNext

\* Whatever a script changes, in whatever order, and whatever the game does to the ships
\* meanwhile, it reads of a ship what applying its queue will leave (ReadsWhatItWrote).
THEOREM ScriptsReadTheirWrites == ScriptStateSpec => [](ScriptStateTypeOK /\ ReadsWhatItWrote)
<1>1. ScriptStateInit => StateInv
  <2>. SUFFICES ASSUME ScriptStateInit PROVE StateInv
    OBVIOUS
  <2>1. PICK z \in Zones : ships = [v \in Vessels |->
            [zone |-> z, hull |-> FullHull, cargo |-> 0, live |-> TRUE]]
    BY DEF ScriptStateInit
  <2>2. ships \in [Vessels -> ShipRecord]
    BY <2>1, HullPointsAssumption DEF ShipRecord
  <2>3. todo = <<>> /\ merged = [v \in Vessels |-> Untouched] /\ doomed = {}
        /\ limits = Default /\ context = Nowhere /\ zones = Zones
    BY DEF ScriptStateInit
  <2>4. Default \in Limits /\ Untouched \in [hull : SUBSET Hulls, cargo : 0..1]
            /\ <<>> \in Seq(Todo)
    BY DEF Default, Limits, Untouched
  <2>5. ScriptStateTypeOK
    BY <2>2, <2>3, <2>4 DEF ScriptStateTypeOK
  <2>6. DOMAIN todo = {} /\ \A v \in Vessels : merged[v].hull = {}
    BY <2>3 DEF Untouched
  <2>. QED BY <2>3, <2>5, <2>6 DEF StateInv
<1>2. StateInv => ScriptStateTypeOK /\ ReadsWhatItWrote
  <2>. SUFFICES ASSUME StateInv PROVE ScriptStateTypeOK /\ ReadsWhatItWrote
    OBVIOUS
  <2>0. ScriptStateTypeOK
    BY DEF StateInv
  <2>1. ASSUME NEW v \in Vessels
        PROVE  /\ Overlaid(v).live = (ships[v].live /\ v \notin doomed)
               /\ Overlaid(v).hull = HullOf(v)
    <3>1. ships[v] \in ShipRecord
      BY <2>0 DEF ScriptStateTypeOK
    <3>. QED BY <3>1 DEF Overlaid, ShipRecord
  <2>2. ASSUME NEW z \in Zones, NEW v \in Vessels
        PROVE  (v \in ShipsInSector(z)) = (ships[v].zone = z /\ GetShip(v) # {})
    BY DEF ShipsInSector, GetShip, MayRead
  <2>3. ASSUME NEW v \in Vessels, ships[v].live
        PROVE  /\ Overlaid(v).live = AfterTodo[v].live
               /\ Overlaid(v).live => Within(Overlaid(v).hull) = AfterTodo[v].hull
    <3>1. AfterTodo[v].live \in BOOLEAN
      BY AfterAll DEF ShipTable, ShipRecord
    <3>. QED BY <2>1, <2>3, <3>1, AfterAll
  <2>. QED BY <2>0, <2>2, <2>3 DEF ReadsWhatItWrote
<1>. QED BY <1>1, <1>2, ScriptStateInductive, PTL DEF ScriptStateSpec

(***************************************************************************)
(* Behaviors.  Whoever adds a subscription or removes one has it out of    *)
(* the map by id from its first step to its last, so that an index         *)
(* disagrees with that map on no other; and a behavior that is destroyed   *)
(* drops all that its list by owner named.                                 *)
(***************************************************************************)

\* Who holds the registry's lock, or runs a hook, and how far it is.
Holder == [hook : Hooks \cup {"none"}, host : Hosts \cup {NoHost},
           step : {"none", "run", "own", "file", "each", "untype", "disown"},
           sub : Subscriptions \cup {NoHost}, rest : SUBSET Subscriptions]

\* Whoever changes the registry has its subscription out of the map by id, and the
\* administrator and the holder of the lock never have the same.
Adding   == inside.step \in {"own", "file"}
Removing == inside.step \in {"untype", "disown"}
UnderWay(s) ==
    \/ (Adding \/ Removing) /\ inside.sub = s
    \/ admin.step # "none" /\ admin.sub = s

\* A hook runs for a behaviour of the status that runs it.
HolderOK ==
    /\ inside \in Holder /\ admin \in Holder
    /\ inside.step = "none" <=> inside = Nobody
    /\ admin.step = "none" <=> admin = Nobody
    /\ admin.step \in {"none", "untype", "disown"}
    /\ inside.step # "none" => inside.host \in Hosts /\ inside.hook \in Hooks
    /\ admin.step # "none" => admin.host \in Hosts
    /\ inside.hook = "on_spawn" => behavior[inside.host] = "initializing"
    /\ inside.hook = "on_update" => behavior[inside.host] = "active"
    /\ inside.hook = "on_destroy" => behavior[inside.host] = "none"

\* The subscription in hand is out of the map by id, and its owner is the behaviour.
InsideSub ==
    /\ Adding \/ Removing =>
          inside.sub \in Subscriptions \ by_id /\ owner[inside.sub] = inside.host
    /\ Adding => inside.sub \in by_event_type
    /\ inside.step = "file" => inside.sub \in by_owner[inside.host]
    /\ inside.step = "disown" => inside.sub \notin by_event_type

\* The same of the administrator's, which is another subscription.
AdminSub ==
    /\ admin.step # "none" =>
          admin.sub \in Subscriptions \ by_id /\ owner[admin.sub] = admin.host
    /\ admin.step = "disown" => admin.sub \notin by_event_type
    /\ (Adding \/ Removing) /\ admin.step # "none" => inside.sub # admin.sub

\* The indexes agree on every subscription that nobody is adding or removing.
Indexed ==
    /\ \A s \in by_id : owner[s] # NoHost
    /\ \A s \in Subscriptions : ~UnderWay(s) =>
          /\ s \in by_event_type <=> s \in by_id
          /\ s \in by_id => s \in by_owner[owner[s]]
    /\ \A s \in Subscriptions : \A e \in Hosts : s \in by_owner[e] =>
          owner[s] = e /\ (s \in by_id \/ UnderWay(s))

\* Those left to drop are all the ones that the behaviour still has.
Dropping ==
    inside.step = "each" \/ Removing =>
        /\ inside.rest \subseteq Owned(inside.host)
        /\ Owned(inside.host) \cap by_id \subseteq inside.rest

\* A behaviour that is gone, or never started, has no subscription left.
NoneLeft ==
    \A e \in Hosts \ stillborn :
        behavior[e] = "none" /\ ~(inside.hook = "on_destroy" /\ inside.host = e) =>
            Owned(e) \cap by_id = {}

\* The inductive invariant.
BehaviorInv == BehaviorsTypeOK /\ HolderOK /\ InsideSub /\ AdminSub /\ Indexed /\ Dropping
     /\ NoneLeft

\* Attach keeps it.
LEMMA AttachKeeps ==
    ASSUME NEW e \in Hosts, BehaviorInv, Attach(e)
    PROVE  BehaviorInv'
<1>. USE HostAssumption DEF BehaviorInv
<1>1. BehaviorsTypeOK' /\ HolderOK'
  BY DEF BehaviorsTypeOK, HolderOK, Holder, Hooks, Attach, RunHook, registry, Nobody
<1>2. InsideSub'
  BY DEF HolderOK, Holder, InsideSub, AdminSub, Dropping, Owned, Adding, Removing, Attach,
         RunHook, registry, Nobody
<1>3. AdminSub'
  BY DEF HolderOK, Holder, InsideSub, AdminSub, Adding, Removing, Attach, RunHook,
         registry, Nobody
<1>4. Indexed'
  BY DEF BehaviorsTypeOK, HolderOK, Holder, InsideSub, AdminSub, Indexed, UnderWay,
         Dropping, Owned, Adding, Removing, Attach, RunHook, registry, Nobody
<1>5. Dropping'
  BY DEF BehaviorsTypeOK, HolderOK, Holder, InsideSub, Indexed, UnderWay, Dropping, Owned,
         Adding, Removing, Attach, RunHook, registry, Nobody
<1>6. NoneLeft'
  BY DEF BehaviorsTypeOK, HolderOK, Holder, Hooks, InsideSub, Dropping, NoneLeft, Owned,
         Adding, Removing, Attach, RunHook, registry, Nobody
<1>. QED BY <1>1, <1>2, <1>3, <1>4, <1>5, <1>6 DEF BehaviorInv

\* Update keeps it.
LEMMA UpdateKeeps ==
    ASSUME NEW e \in Hosts, BehaviorInv, Update(e)
    PROVE  BehaviorInv'
<1>. USE HostAssumption DEF BehaviorInv
<1>1. BehaviorsTypeOK' /\ HolderOK'
  BY DEF BehaviorsTypeOK, HolderOK, Holder, Hooks, Update, RunHook, registry, Nobody
<1>2. InsideSub'
  BY DEF HolderOK, Holder, InsideSub, AdminSub, Dropping, Owned, Adding, Removing, Update,
         RunHook, registry, Nobody
<1>3. AdminSub'
  BY DEF HolderOK, Holder, InsideSub, AdminSub, Adding, Removing, Update, RunHook,
         registry, Nobody
<1>4. Indexed'
  BY DEF BehaviorsTypeOK, HolderOK, Holder, InsideSub, AdminSub, Indexed, UnderWay,
         Dropping, Owned, Adding, Removing, Update, RunHook, registry, Nobody
<1>5. Dropping'
  BY DEF BehaviorsTypeOK, HolderOK, Holder, InsideSub, Indexed, UnderWay, Dropping, Owned,
         Adding, Removing, Update, RunHook, registry, Nobody
<1>6. NoneLeft'
  BY DEF BehaviorsTypeOK, HolderOK, Holder, Hooks, InsideSub, Dropping, NoneLeft, Owned,
         Adding, Removing, Update, RunHook, registry, Nobody
<1>. QED BY <1>1, <1>2, <1>3, <1>4, <1>5, <1>6 DEF BehaviorInv

\* Pause keeps it.
LEMMA PauseKeeps ==
    ASSUME NEW e \in Hosts, BehaviorInv, Pause(e)
    PROVE  BehaviorInv'
<1>. USE HostAssumption DEF BehaviorInv
<1>1. BehaviorsTypeOK' /\ HolderOK'
  BY DEF BehaviorsTypeOK, HolderOK, Holder, Hooks, Pause, registry, Nobody
<1>2. InsideSub'
  BY DEF HolderOK, Holder, InsideSub, AdminSub, Dropping, Owned, Adding, Removing, Pause,
         registry, Nobody
<1>3. AdminSub'
  BY DEF HolderOK, Holder, InsideSub, AdminSub, Adding, Removing, Pause, registry, Nobody
<1>4. Indexed'
  BY DEF BehaviorsTypeOK, HolderOK, Holder, InsideSub, AdminSub, Indexed, UnderWay,
         Dropping, Owned, Adding, Removing, Pause, registry, Nobody
<1>5. Dropping'
  BY DEF BehaviorsTypeOK, HolderOK, Holder, InsideSub, Indexed, UnderWay, Dropping, Owned,
         Adding, Removing, Pause, registry, Nobody
<1>6. NoneLeft'
  BY DEF BehaviorsTypeOK, HolderOK, Holder, Hooks, InsideSub, Dropping, NoneLeft, Owned,
         Adding, Removing, Pause, registry, Nobody
<1>. QED BY <1>1, <1>2, <1>3, <1>4, <1>5, <1>6 DEF BehaviorInv

\* Resume keeps it.
LEMMA ResumeKeeps ==
    ASSUME NEW e \in Hosts, BehaviorInv, Resume(e)
    PROVE  BehaviorInv'
<1>. USE HostAssumption DEF BehaviorInv
<1>1. BehaviorsTypeOK' /\ HolderOK'
  BY DEF BehaviorsTypeOK, HolderOK, Holder, Hooks, Resume, registry, Nobody
<1>2. InsideSub'
  BY DEF HolderOK, Holder, InsideSub, AdminSub, Dropping, Owned, Adding, Removing, Resume,
         registry, Nobody
<1>3. AdminSub'
  BY DEF HolderOK, Holder, InsideSub, AdminSub, Adding, Removing, Resume, registry, Nobody
<1>4. Indexed'
  BY DEF BehaviorsTypeOK, HolderOK, Holder, InsideSub, AdminSub, Indexed, UnderWay,
         Dropping, Owned, Adding, Removing, Resume, registry, Nobody
<1>5. Dropping'
  BY DEF BehaviorsTypeOK, HolderOK, Holder, InsideSub, Indexed, UnderWay, Dropping, Owned,
         Adding, Removing, Resume, registry, Nobody
<1>6. NoneLeft'
  BY DEF BehaviorsTypeOK, HolderOK, Holder, Hooks, InsideSub, Dropping, NoneLeft, Owned,
         Adding, Removing, Resume, registry, Nobody
<1>. QED BY <1>1, <1>2, <1>3, <1>4, <1>5, <1>6 DEF BehaviorInv

\* DetachBehavior keeps it.
LEMMA DetachBehaviorKeeps ==
    ASSUME NEW e \in Hosts, NEW despawned \in BOOLEAN, BehaviorInv, DetachBehavior(e, despawned)
    PROVE  BehaviorInv'
<1>. USE HostAssumption DEF BehaviorInv
<1>1. BehaviorsTypeOK' /\ HolderOK'
  BY DEF BehaviorsTypeOK, HolderOK, Holder, Hooks, DetachBehavior, Detach, RunHook,
         registry, Nobody
<1>2. InsideSub'
  BY DEF HolderOK, Holder, InsideSub, AdminSub, Dropping, Owned, Adding, Removing,
         DetachBehavior, Detach, RunHook, registry, Nobody
<1>3. AdminSub'
  BY DEF HolderOK, Holder, InsideSub, AdminSub, Adding, Removing, DetachBehavior, Detach,
         RunHook, registry, Nobody
<1>4. Indexed'
  BY DEF BehaviorsTypeOK, HolderOK, Holder, InsideSub, AdminSub, Indexed, UnderWay,
         Dropping, Owned, Adding, Removing, DetachBehavior, Detach, RunHook, registry,
         Nobody
<1>5. Dropping'
  BY DEF BehaviorsTypeOK, HolderOK, Holder, InsideSub, Indexed, UnderWay, Dropping, Owned,
         Adding, Removing, DetachBehavior, Detach, RunHook, registry, Nobody
<1>6. NoneLeft'
  BY DEF BehaviorsTypeOK, HolderOK, Holder, Hooks, InsideSub, Dropping, NoneLeft, Owned,
         Adding, Removing, DetachBehavior, Detach, RunHook, registry, Nobody
<1>. QED BY <1>1, <1>2, <1>3, <1>4, <1>5, <1>6 DEF BehaviorInv

\* SpawnHookEnds keeps it.
LEMMA SpawnHookEndsKeeps ==
    ASSUME NEW ok \in BOOLEAN, BehaviorInv, SpawnHookEnds(ok)
    PROVE  BehaviorInv'
<1>. USE HostAssumption DEF BehaviorInv
<1>1. BehaviorsTypeOK' /\ HolderOK'
  BY DEF BehaviorsTypeOK, HolderOK, Holder, Hooks, SpawnHookEnds, registry, Nobody
<1>2. InsideSub'
  BY DEF HolderOK, Holder, InsideSub, AdminSub, Dropping, Owned, Adding, Removing,
         SpawnHookEnds, registry, Nobody
<1>3. AdminSub'
  BY DEF HolderOK, Holder, InsideSub, AdminSub, Adding, Removing, SpawnHookEnds, registry,
         Nobody
<1>4. Indexed'
  BY DEF BehaviorsTypeOK, HolderOK, Holder, InsideSub, AdminSub, Indexed, UnderWay,
         Dropping, Owned, Adding, Removing, SpawnHookEnds, registry, Nobody
<1>5. Dropping'
  BY DEF BehaviorsTypeOK, HolderOK, Holder, InsideSub, Indexed, UnderWay, Dropping, Owned,
         Adding, Removing, SpawnHookEnds, registry, Nobody
<1>6. NoneLeft'
  BY DEF BehaviorsTypeOK, HolderOK, Holder, Hooks, InsideSub, Dropping, NoneLeft, Owned,
         Adding, Removing, SpawnHookEnds, registry, Nobody
<1>. QED BY <1>1, <1>2, <1>3, <1>4, <1>5, <1>6 DEF BehaviorInv

\* UpdateHookEnds keeps it.
LEMMA UpdateHookEndsKeeps ==
    ASSUME NEW destroyed \in SUBSET Hosts, BehaviorInv, UpdateHookEnds(destroyed)
    PROVE  BehaviorInv'
<1>. USE HostAssumption DEF BehaviorInv
<1>1. BehaviorsTypeOK' /\ HolderOK'
  BY DEF BehaviorsTypeOK, HolderOK, Holder, Hooks, UpdateHookEnds, registry, Nobody
<1>2. InsideSub'
  BY DEF HolderOK, Holder, InsideSub, AdminSub, Dropping, Owned, Adding, Removing,
         UpdateHookEnds, registry, Nobody
<1>3. AdminSub'
  BY DEF HolderOK, Holder, InsideSub, AdminSub, Adding, Removing, UpdateHookEnds,
         registry, Nobody
<1>4. Indexed'
  BY DEF BehaviorsTypeOK, HolderOK, Holder, InsideSub, AdminSub, Indexed, UnderWay,
         Dropping, Owned, Adding, Removing, UpdateHookEnds, registry, Nobody
<1>5. Dropping'
  BY DEF BehaviorsTypeOK, HolderOK, Holder, InsideSub, Indexed, UnderWay, Dropping, Owned,
         Adding, Removing, UpdateHookEnds, registry, Nobody
<1>6. NoneLeft'
  BY DEF BehaviorsTypeOK, HolderOK, Holder, Hooks, InsideSub, Dropping, NoneLeft, Owned,
         Adding, Removing, UpdateHookEnds, registry, Nobody
<1>. QED BY <1>1, <1>2, <1>3, <1>4, <1>5, <1>6 DEF BehaviorInv

\* DestroyHookEnds keeps it.
LEMMA DestroyHookEndsKeeps ==
    ASSUME BehaviorInv, DestroyHookEnds
    PROVE  BehaviorInv'
<1>. USE HostAssumption DEF BehaviorInv
<1>1. BehaviorsTypeOK' /\ HolderOK'
  BY DEF BehaviorsTypeOK, HolderOK, Holder, Hooks, DestroyHookEnds, registry, Nobody
<1>2. InsideSub'
  BY DEF HolderOK, Holder, InsideSub, AdminSub, Dropping, Owned, Adding, Removing,
         DestroyHookEnds, registry, Nobody
<1>3. AdminSub'
  BY DEF HolderOK, Holder, InsideSub, AdminSub, Adding, Removing, DestroyHookEnds,
         registry, Nobody
<1>4. Indexed'
  BY DEF BehaviorsTypeOK, HolderOK, Holder, InsideSub, AdminSub, Indexed, UnderWay,
         Dropping, Owned, Adding, Removing, DestroyHookEnds, registry, Nobody
<1>5. Dropping'
  BY DEF BehaviorsTypeOK, HolderOK, Holder, InsideSub, Indexed, UnderWay, Dropping, Owned,
         Adding, Removing, AdminSub, DestroyHookEnds, registry, Nobody
<1>6. NoneLeft'
  BY DEF BehaviorsTypeOK, HolderOK, Holder, Hooks, InsideSub, Dropping, NoneLeft, Owned,
         Adding, Removing, DestroyHookEnds, registry, Nobody
<1>. QED BY <1>1, <1>2, <1>3, <1>4, <1>5, <1>6 DEF BehaviorInv

\* SubscribeType keeps it.
LEMMA SubscribeTypeKeeps ==
    ASSUME NEW s \in Subscriptions, BehaviorInv, SubscribeType(s)
    PROVE  BehaviorInv'
<1>. USE HostAssumption DEF BehaviorInv
<1>1. BehaviorsTypeOK' /\ HolderOK'
  BY DEF BehaviorsTypeOK, HolderOK, Holder, Hooks, SubscribeType, Nobody
<1>2. InsideSub'
  BY DEF HolderOK, Holder, InsideSub, AdminSub, Dropping, Owned, Adding, Removing,
         BehaviorsTypeOK, Indexed, UnderWay, SubscribeType, Nobody
<1>3. AdminSub'
  BY DEF HolderOK, Holder, InsideSub, AdminSub, Adding, Removing, SubscribeType, Nobody
<1>4. Indexed'
  BY DEF BehaviorsTypeOK, HolderOK, Holder, InsideSub, AdminSub, Indexed, UnderWay,
         Dropping, Owned, Adding, Removing, SubscribeType, Nobody
<1>5. Dropping'
  BY DEF BehaviorsTypeOK, HolderOK, Holder, InsideSub, Indexed, UnderWay, Dropping, Owned,
         Adding, Removing, SubscribeType, Nobody
<1>6. NoneLeft'
  BY DEF BehaviorsTypeOK, HolderOK, Holder, Hooks, InsideSub, Dropping, NoneLeft, Owned,
         Adding, Removing, SubscribeType, Nobody
<1>. QED BY <1>1, <1>2, <1>3, <1>4, <1>5, <1>6 DEF BehaviorInv

\* SubscribeOwner keeps it.
LEMMA SubscribeOwnerKeeps ==
    ASSUME BehaviorInv, SubscribeOwner
    PROVE  BehaviorInv'
<1>. USE HostAssumption DEF BehaviorInv
<1>1. BehaviorsTypeOK' /\ HolderOK'
  BY DEF BehaviorsTypeOK, HolderOK, Holder, Hooks, InsideSub, Adding, Removing,
         SubscribeOwner, Nobody
<1>2. InsideSub'
  BY DEF HolderOK, Holder, InsideSub, AdminSub, Dropping, Owned, Adding, Removing,
         BehaviorsTypeOK, SubscribeOwner, Nobody
<1>3. AdminSub'
  BY DEF HolderOK, Holder, InsideSub, AdminSub, Adding, Removing, SubscribeOwner, Nobody
<1>4. Indexed'
  BY DEF BehaviorsTypeOK, HolderOK, Holder, InsideSub, AdminSub, Indexed, UnderWay,
         Dropping, Owned, Adding, Removing, SubscribeOwner, Nobody
<1>5. Dropping'
  BY DEF BehaviorsTypeOK, HolderOK, Holder, InsideSub, Indexed, UnderWay, Dropping, Owned,
         Adding, Removing, SubscribeOwner, Nobody
<1>6. NoneLeft'
  BY DEF BehaviorsTypeOK, HolderOK, Holder, Hooks, InsideSub, Dropping, NoneLeft, Owned,
         Adding, Removing, SubscribeOwner, Nobody
<1>. QED BY <1>1, <1>2, <1>3, <1>4, <1>5, <1>6 DEF BehaviorInv

\* SubscribeId keeps it.
LEMMA SubscribeIdKeeps ==
    ASSUME BehaviorInv, SubscribeId
    PROVE  BehaviorInv'
<1>. USE HostAssumption DEF BehaviorInv
<1>1. BehaviorsTypeOK' /\ HolderOK'
  BY DEF BehaviorsTypeOK, HolderOK, Holder, Hooks, InsideSub, Adding, Removing,
         SubscribeId, Nobody
<1>2. InsideSub'
  BY DEF HolderOK, Holder, InsideSub, AdminSub, Dropping, Owned, Adding, Removing,
         SubscribeId, Nobody
<1>3. AdminSub'
  BY DEF HolderOK, Holder, InsideSub, AdminSub, Adding, Removing, SubscribeId, Nobody
<1>4. Indexed'
  BY DEF BehaviorsTypeOK, HolderOK, Holder, InsideSub, AdminSub, Indexed, UnderWay,
         Dropping, Owned, Adding, Removing, SubscribeId, Nobody
<1>5. Dropping'
  BY DEF BehaviorsTypeOK, HolderOK, Holder, InsideSub, Indexed, UnderWay, Dropping, Owned,
         Adding, Removing, SubscribeId, Nobody
<1>6. NoneLeft'
  BY DEF BehaviorsTypeOK, HolderOK, Holder, Hooks, InsideSub, Dropping, NoneLeft, Owned,
         Adding, Removing, SubscribeId, Nobody
<1>. QED BY <1>1, <1>2, <1>3, <1>4, <1>5, <1>6 DEF BehaviorInv

\* UnsubscribeNext keeps it.
LEMMA UnsubscribeNextKeeps ==
    ASSUME NEW s \in Subscriptions, BehaviorInv, UnsubscribeNext(s)
    PROVE  BehaviorInv'
<1>. USE HostAssumption DEF BehaviorInv
<1>1. BehaviorsTypeOK' /\ HolderOK'
  BY DEF BehaviorsTypeOK, HolderOK, Holder, Hooks, UnsubscribeNext, Nobody
<1>2. InsideSub'
  BY DEF HolderOK, Holder, InsideSub, AdminSub, Dropping, Owned, Adding, Removing,
         BehaviorsTypeOK, UnsubscribeNext, Nobody
<1>3. AdminSub'
  BY DEF HolderOK, Holder, InsideSub, AdminSub, Adding, Removing, Dropping, Owned,
         UnsubscribeNext, Nobody
<1>4. Indexed'
  BY DEF BehaviorsTypeOK, HolderOK, Holder, InsideSub, AdminSub, Indexed, UnderWay,
         Dropping, Owned, Adding, Removing, UnsubscribeNext, Nobody
<1>5. Dropping'
  BY DEF BehaviorsTypeOK, HolderOK, Holder, InsideSub, Indexed, UnderWay, Dropping, Owned,
         Adding, Removing, UnsubscribeNext, Nobody
<1>6. NoneLeft'
  BY DEF BehaviorsTypeOK, HolderOK, Holder, Hooks, InsideSub, Dropping, NoneLeft, Owned,
         Adding, Removing, UnsubscribeNext, Nobody
<1>. QED BY <1>1, <1>2, <1>3, <1>4, <1>5, <1>6 DEF BehaviorInv

\* UnsubscribeType keeps it.
LEMMA UnsubscribeTypeKeeps ==
    ASSUME BehaviorInv, UnsubscribeType
    PROVE  BehaviorInv'
<1>. USE HostAssumption DEF BehaviorInv
<1>1. BehaviorsTypeOK' /\ HolderOK'
  BY DEF BehaviorsTypeOK, HolderOK, Holder, Hooks, UnsubscribeType, Nobody
<1>2. InsideSub'
  BY DEF HolderOK, Holder, InsideSub, AdminSub, Dropping, Owned, Adding, Removing,
         UnsubscribeType, Nobody
<1>3. AdminSub'
  BY DEF HolderOK, Holder, InsideSub, AdminSub, Adding, Removing, UnsubscribeType, Nobody
<1>4. Indexed'
  BY DEF BehaviorsTypeOK, HolderOK, Holder, InsideSub, AdminSub, Indexed, UnderWay,
         Dropping, Owned, Adding, Removing, UnsubscribeType, Nobody
<1>5. Dropping'
  BY DEF BehaviorsTypeOK, HolderOK, Holder, InsideSub, Indexed, UnderWay, Dropping, Owned,
         Adding, Removing, UnsubscribeType, Nobody
<1>6. NoneLeft'
  BY DEF BehaviorsTypeOK, HolderOK, Holder, Hooks, InsideSub, Dropping, NoneLeft, Owned,
         Adding, Removing, UnsubscribeType, Nobody
<1>. QED BY <1>1, <1>2, <1>3, <1>4, <1>5, <1>6 DEF BehaviorInv

\* UnsubscribeOwner keeps it.
LEMMA UnsubscribeOwnerKeeps ==
    ASSUME BehaviorInv, UnsubscribeOwner
    PROVE  BehaviorInv'
<1>. USE HostAssumption DEF BehaviorInv
<1>1. BehaviorsTypeOK' /\ HolderOK'
  BY DEF BehaviorsTypeOK, HolderOK, Holder, Hooks, UnsubscribeOwner, Nobody
<1>2. InsideSub'
  BY DEF HolderOK, Holder, InsideSub, AdminSub, Dropping, Owned, Adding, Removing,
         UnsubscribeOwner, Nobody
<1>3. AdminSub'
  BY DEF HolderOK, Holder, InsideSub, AdminSub, Adding, Removing, UnsubscribeOwner, Nobody
<1>4. Indexed'
  BY DEF BehaviorsTypeOK, HolderOK, Holder, InsideSub, AdminSub, Indexed, UnderWay,
         Dropping, Owned, Adding, Removing, UnsubscribeOwner, Nobody
<1>5. Dropping'
  BY DEF BehaviorsTypeOK, HolderOK, Holder, InsideSub, Indexed, UnderWay, Dropping, Owned,
         Adding, Removing, UnsubscribeOwner, Nobody
<1>6. NoneLeft'
  BY DEF BehaviorsTypeOK, HolderOK, Holder, Hooks, InsideSub, Dropping, NoneLeft, Owned,
         Adding, Removing, UnsubscribeOwner, Nobody
<1>. QED BY <1>1, <1>2, <1>3, <1>4, <1>5, <1>6 DEF BehaviorInv

\* UnsubscribeDone keeps it.
LEMMA UnsubscribeDoneKeeps ==
    ASSUME BehaviorInv, UnsubscribeDone
    PROVE  BehaviorInv'
<1>. USE HostAssumption DEF BehaviorInv
<1>1. BehaviorsTypeOK' /\ HolderOK'
  BY DEF BehaviorsTypeOK, HolderOK, Holder, Hooks, UnsubscribeDone, Nobody
<1>2. InsideSub'
  BY DEF HolderOK, Holder, InsideSub, AdminSub, Dropping, Owned, Adding, Removing,
         UnsubscribeDone, Nobody
<1>3. AdminSub'
  BY DEF HolderOK, Holder, InsideSub, AdminSub, Adding, Removing, UnsubscribeDone, Nobody
<1>4. Indexed'
  BY DEF BehaviorsTypeOK, HolderOK, Holder, InsideSub, AdminSub, Indexed, UnderWay,
         Dropping, Owned, Adding, Removing, UnsubscribeDone, Nobody
<1>5. Dropping'
  BY DEF BehaviorsTypeOK, HolderOK, Holder, InsideSub, Indexed, UnderWay, Dropping, Owned,
         Adding, Removing, UnsubscribeDone, Nobody
<1>6. NoneLeft'
  BY DEF BehaviorsTypeOK, HolderOK, Holder, Hooks, InsideSub, Dropping, NoneLeft, Owned,
         Adding, Removing, UnsubscribeDone, Nobody
<1>. QED BY <1>1, <1>2, <1>3, <1>4, <1>5, <1>6 DEF BehaviorInv

\* UnsubscribeAll keeps it.
LEMMA UnsubscribeAllKeeps ==
    ASSUME BehaviorInv, UnsubscribeAll
    PROVE  BehaviorInv'
<1>. USE HostAssumption DEF BehaviorInv
<1>1. BehaviorsTypeOK' /\ HolderOK'
  BY DEF BehaviorsTypeOK, HolderOK, Holder, Hooks, UnsubscribeAll, registry, Nobody
<1>2. InsideSub'
  BY DEF HolderOK, Holder, InsideSub, AdminSub, Dropping, Owned, Adding, Removing,
         UnsubscribeAll, registry, Nobody
<1>3. AdminSub'
  BY DEF HolderOK, Holder, InsideSub, AdminSub, Adding, Removing, UnsubscribeAll,
         registry, Nobody
<1>4. Indexed'
  BY DEF BehaviorsTypeOK, HolderOK, Holder, InsideSub, AdminSub, Indexed, UnderWay,
         Dropping, Owned, Adding, Removing, UnsubscribeAll, registry, Nobody
<1>5. Dropping'
  BY DEF BehaviorsTypeOK, HolderOK, Holder, InsideSub, Indexed, UnderWay, Dropping, Owned,
         Adding, Removing, AdminSub, UnsubscribeAll, registry, Nobody
<1>6. NoneLeft'
  BY DEF BehaviorsTypeOK, HolderOK, Holder, Hooks, InsideSub, Dropping, NoneLeft, Owned,
         Adding, Removing, UnsubscribeAll, registry, Nobody
<1>. QED BY <1>1, <1>2, <1>3, <1>4, <1>5, <1>6 DEF BehaviorInv

\* AdminUnsubscribe keeps it.
LEMMA AdminUnsubscribeKeeps ==
    ASSUME NEW s \in Subscriptions, BehaviorInv, AdminUnsubscribe(s)
    PROVE  BehaviorInv'
<1>. USE HostAssumption DEF BehaviorInv
<1>1. BehaviorsTypeOK' /\ HolderOK'
  BY DEF BehaviorsTypeOK, HolderOK, Holder, Hooks, Indexed, AdminUnsubscribe, Nobody
<1>2. InsideSub'
  BY DEF HolderOK, Holder, InsideSub, AdminSub, Dropping, Owned, Adding, Removing,
         AdminUnsubscribe, Nobody
<1>3. AdminSub'
  BY DEF HolderOK, Holder, InsideSub, AdminSub, Adding, Removing, BehaviorsTypeOK,
         Indexed, AdminUnsubscribe, Nobody
<1>4. Indexed'
  BY DEF BehaviorsTypeOK, HolderOK, Holder, InsideSub, AdminSub, Indexed, UnderWay,
         Dropping, Owned, Adding, Removing, AdminUnsubscribe, Nobody
<1>5. Dropping'
  BY DEF BehaviorsTypeOK, HolderOK, Holder, InsideSub, Indexed, UnderWay, Dropping, Owned,
         Adding, Removing, AdminUnsubscribe, Nobody
<1>6. NoneLeft'
  BY DEF BehaviorsTypeOK, HolderOK, Holder, Hooks, InsideSub, Dropping, NoneLeft, Owned,
         Adding, Removing, AdminUnsubscribe, Nobody
<1>. QED BY <1>1, <1>2, <1>3, <1>4, <1>5, <1>6 DEF BehaviorInv

\* AdminUntype keeps it.
LEMMA AdminUntypeKeeps ==
    ASSUME BehaviorInv, AdminUntype
    PROVE  BehaviorInv'
<1>. USE HostAssumption DEF BehaviorInv
<1>1. BehaviorsTypeOK' /\ HolderOK'
  BY DEF BehaviorsTypeOK, HolderOK, Holder, Hooks, AdminUntype, Nobody
<1>2. InsideSub'
  BY DEF HolderOK, Holder, InsideSub, AdminSub, Dropping, Owned, Adding, Removing,
         AdminUntype, Nobody
<1>3. AdminSub'
  BY DEF HolderOK, Holder, InsideSub, AdminSub, Adding, Removing, AdminUntype, Nobody
<1>4. Indexed'
  BY DEF BehaviorsTypeOK, HolderOK, Holder, InsideSub, AdminSub, Indexed, UnderWay,
         Dropping, Owned, Adding, Removing, AdminUntype, Nobody
<1>5. Dropping'
  BY DEF BehaviorsTypeOK, HolderOK, Holder, InsideSub, Indexed, UnderWay, Dropping, Owned,
         Adding, Removing, AdminUntype, Nobody
<1>6. NoneLeft'
  BY DEF BehaviorsTypeOK, HolderOK, Holder, Hooks, InsideSub, Dropping, NoneLeft, Owned,
         Adding, Removing, AdminUntype, Nobody
<1>. QED BY <1>1, <1>2, <1>3, <1>4, <1>5, <1>6 DEF BehaviorInv

\* AdminDisown keeps it.
LEMMA AdminDisownKeeps ==
    ASSUME BehaviorInv, AdminDisown
    PROVE  BehaviorInv'
<1>. USE HostAssumption DEF BehaviorInv
<1>1. BehaviorsTypeOK' /\ HolderOK'
  BY DEF BehaviorsTypeOK, HolderOK, Holder, Hooks, AdminDisown, Nobody
<1>2. InsideSub'
  BY DEF HolderOK, Holder, InsideSub, AdminSub, Dropping, Owned, Adding, Removing,
         AdminDisown, Nobody
<1>3. AdminSub'
  BY DEF HolderOK, Holder, InsideSub, AdminSub, Adding, Removing, AdminDisown, Nobody
<1>4. Indexed'
  BY DEF BehaviorsTypeOK, HolderOK, Holder, InsideSub, AdminSub, Indexed, UnderWay,
         Dropping, Owned, Adding, Removing, AdminDisown, Nobody
<1>5. Dropping'
  BY DEF BehaviorsTypeOK, HolderOK, Holder, InsideSub, Indexed, UnderWay, Dropping, Owned,
         Adding, Removing, AdminDisown, Nobody
<1>6. NoneLeft'
  BY DEF BehaviorsTypeOK, HolderOK, Holder, Hooks, InsideSub, Dropping, NoneLeft, Owned,
         Adding, Removing, AdminDisown, Nobody
<1>. QED BY <1>1, <1>2, <1>3, <1>4, <1>5, <1>6 DEF BehaviorInv

\* Theorem: whenever nobody changes the registry, its three maps hold the same
\* subscriptions, and a behavior that is gone has none left (SubscriptionsKept):
\* unregister_all drops the list by owner it read first, and every step of a
\* subscription that comes or goes is between two steps of others.
THEOREM BehaviorsKept == BehaviorsSpec => [](BehaviorsTypeOK /\ SubscriptionsKept)
<1>1. BehaviorsInit => BehaviorInv
  BY HostAssumption DEF BehaviorsInit, BehaviorInv, BehaviorsTypeOK, HolderOK, Holder, Hooks,
     InsideSub, AdminSub, Indexed, UnderWay, Dropping, NoneLeft, Owned, Adding, Removing, Nobody
<1>2. BehaviorInv /\ [BehaviorsNext]_beVars => BehaviorInv'
  <2>1. ASSUME BehaviorInv, BehaviorsNext
        PROVE  BehaviorInv'
    BY <2>1, AttachKeeps, UpdateKeeps, PauseKeeps, ResumeKeeps, DetachBehaviorKeeps,
       SpawnHookEndsKeeps, UpdateHookEndsKeeps, DestroyHookEndsKeeps, SubscribeTypeKeeps,
       SubscribeOwnerKeeps, SubscribeIdKeeps, UnsubscribeNextKeeps, UnsubscribeTypeKeeps,
       UnsubscribeOwnerKeeps, UnsubscribeDoneKeeps, UnsubscribeAllKeeps,
       AdminUnsubscribeKeeps, AdminUntypeKeeps, AdminDisownKeeps DEF BehaviorsNext
  <2>2. ASSUME BehaviorInv, UNCHANGED beVars
        PROVE  BehaviorInv'
    BY <2>2 DEF beVars, BehaviorInv, BehaviorsTypeOK, HolderOK, InsideSub, AdminSub, Indexed,
       UnderWay, Dropping, NoneLeft, Owned, Adding, Removing
  <2>. QED BY <2>1, <2>2
<1>3. BehaviorInv => BehaviorsTypeOK /\ SubscriptionsKept
  <2>1. ASSUME BehaviorInv PROVE IndexesAgree
    <3>. SUFFICES ASSUME Quiet
                  PROVE  by_event_type = by_id
                         /\ \A e \in Hosts : by_owner[e] = Owned(e) \cap by_id
      BY DEF IndexesAgree
    <3>1. \A s \in Subscriptions : ~UnderWay(s)
      BY DEF Quiet, Nobody, UnderWay, Adding, Removing
    <3>2. by_event_type = by_id
      BY <2>1, <3>1 DEF BehaviorInv, BehaviorsTypeOK, Indexed
    <3>3. ASSUME NEW e \in Hosts, NEW s \in Subscriptions
          PROVE  s \in by_owner[e] <=> s \in Owned(e) \cap by_id
      BY <2>1, <3>1 DEF BehaviorInv, BehaviorsTypeOK, Indexed, Owned
    <3>4. \A e \in Hosts : by_owner[e] \subseteq Subscriptions
      BY <2>1 DEF BehaviorInv, BehaviorsTypeOK
    <3>5. \A e \in Hosts : by_owner[e] = Owned(e) \cap by_id
      BY <3>3, <3>4 DEF Owned
    <3>. QED BY <3>2, <3>5
  <2>2. ASSUME BehaviorInv PROVE NothingLeftBehind
    BY <2>2, <2>1 DEF BehaviorInv, BehaviorsTypeOK, HolderOK, NothingLeftBehind, IndexesAgree,
         NoneLeft, Quiet, Nobody
  <2>. QED BY <2>1, <2>2 DEF BehaviorInv, SubscriptionsKept
<1>. QED BY <1>1, <1>2, <1>3, PTL DEF BehaviorsSpec

(***************************************************************************)
(* Reloads.  A file whose new contents are not loaded is in the set of     *)
(* changed files, waits, or is in the hands of the watcher's reload; and a *)
(* handler that its file no longer lists or defines is one that a reload   *)
(* under way is about to remove.                                           *)
(***************************************************************************)

\* A reload under way: the files left, the first one's step, and names for it.
Job == [step : Steps \cup {"none", "clear"}, todo : Seq(Files), names : SUBSET Actions]
\* Task t is reloading.
Active(t) == job[t].step # "none"

\* Whoever reloads has a file to do, and a full reload loads no single file.
SoundJob(t, j) ==
    /\ j \in Job
    /\ IF j.step = "none" THEN j = NoJob ELSE j.todo # <<>>
    /\ IF t = Hangup THEN j.step \in {"none", "clear", "init", "insert"} ELSE j.step # "clear"

\* The types, and every reloader's job as it should be.
ReloadTypes ==
    /\ ReloadTypeOK
    /\ job \in [Reloaders -> Job]
    /\ \A t \in Reloaders : SoundJob(t, job[t])

\* The files a reloader is still going to load.
ToLoad(t) == LET files == job[t].todo
             IN  {files[i] : i \in IF job[t].step = "load" THEN DOMAIN files
                                                         ELSE DOMAIN files \ {1}}
\* A change that is not loaded yet waits to be.
WritesNoted ==
    \A f \in Files : disk[f].compiles /\ loaded[f] # disk[f].names =>
        f \in changed \cup ToSet(waiting) \cup ToLoad(Watcher)

\* One reload at a time, unless two have overlapped.
Alone == \A t, u \in Reloaders : Active(t) /\ Active(u) => t = u

\* A reload that will remove the handler of an action.
ToRemove(a) ==
    \E t \in Reloaders : job[t].step = "remove" /\ handlers[a] = File(t) /\ a \in job[t].names
\* A reload that will strike off the list of its file, and then remove its handlers.
ToUnlist(a) == \E t \in Reloaders : job[t].step = "unlist" /\ handlers[a] = File(t)
\* A full reload that will clear the registry.
ToClear == job[Hangup].step = "clear"

\* A handler is listed under its file, or a reload is about to remove it.
ListedOrGoing ==
    /\ \A a \in Actions : handlers[a] # NoFile => a \in by_script[handlers[a]] \/ ToRemove(a)
    /\ \A t \in Reloaders : job[t].step = "insert" => job[t].names \subseteq by_script[File(t)]

\* A handler's file defines its action, or a reload is about to remove it.
ServedOrGoing ==
    /\ \A a \in Actions : handlers[a] # NoFile =>
          a \in loaded[handlers[a]] \/ ToRemove(a) \/ ToUnlist(a) \/ ToClear
    /\ \A t \in Reloaders : job[t].step \in {"init", "insert"}
         => job[t].names \subseteq loaded[File(t)]

\* The inductive invariant.
ReloadInv ==
    /\ ReloadTypes /\ WritesNoted
    /\ ~overlapped => Alone /\ ListedOrGoing
    /\ ~overlapped /\ ~halfway => ServedOrGoing

\* Task t goes on with job j.
Becomes(t, j) == job' = [job EXCEPT ![t] = j]

\* The other jobs stay.
LEMMA JobBecomes ==
    ASSUME job \in [Reloaders -> Job], NEW t \in Reloaders, NEW j, Becomes(t, j)
    PROVE  job'[t] = j /\ \A u \in Reloaders : u # t => job'[u] = job[u]
BY DEF Becomes

\* A sound job keeps every job sound.
LEMMA JobTyped ==
    ASSUME ReloadTypes, NEW t \in Reloaders, NEW j, SoundJob(t, j), Becomes(t, j)
    PROVE  /\ job' \in [Reloaders -> Job]
           /\ \A u \in Reloaders : SoundJob(u, job'[u])
           /\ \A u \in Reloaders : /\ job'[u].step \in Steps \cup {"none", "clear"}
                                   /\ job'[u].todo \in Seq(Files)
                                   /\ job'[u].names \subseteq Actions
<1>1. job' \in [Reloaders -> Job]
  BY DEF ReloadTypes, Becomes, SoundJob
<1>2. \A u \in Reloaders : SoundJob(u, job'[u])
  BY JobBecomes DEF ReloadTypes
<1>. QED BY <1>1, <1>2 DEF Job

\* Whoever reloads has a first file.
LEMMA FileGiven ==
    ASSUME ReloadTypes, NEW t \in Reloaders, Active(t)
    PROVE  /\ File(t) \in Files /\ job[t].todo \in Seq(Files) /\ Len(job[t].todo) \in Nat \ {0}
           /\ File(t) = job[t].todo[1] /\ job[t].names \in SUBSET Actions
<1>1. job[t].todo \in Seq(Files) /\ job[t].names \in SUBSET Actions /\ job[t].todo # <<>>
  BY DEF ReloadTypes, SoundJob, Active, Job
<1>. QED BY <1>1 DEF File

\* What a sequence holds but for its first entry is what its tail holds.
LEMMA TailOf ==
    ASSUME NEW s \in Seq(Files), s # <<>>
    PROVE  {s[i] : i \in DOMAIN s \ {1}} = {Tail(s)[i] : i \in DOMAIN Tail(s)}
<1>1. DOMAIN s = 1 .. Len(s) /\ DOMAIN Tail(s) = 1 .. Len(s) - 1 /\ Len(s) \in Nat
  OBVIOUS
<1>2. \A i \in 1 .. Len(s) - 1 : Tail(s)[i] = s[i + 1]
  OBVIOUS
<1>3. ASSUME NEW i \in DOMAIN s \ {1}
      PROVE  i - 1 \in DOMAIN Tail(s) /\ Tail(s)[i - 1] = s[i]
  BY <1>1, <1>2
<1>4. ASSUME NEW i \in DOMAIN Tail(s)
      PROVE  i + 1 \in DOMAIN s \ {1} /\ Tail(s)[i] = s[i + 1]
  BY <1>1, <1>2
<1>. QED BY <1>3, <1>4

\* The first entry and the tail of a sequence, and their types.
LEMMA RestOf ==
    ASSUME NEW S, NEW s \in Seq(S), s # <<>>
    PROVE  /\ Len(s) \in Nat \ {0} /\ Head(s) = s[1] /\ s[1] \in S
           /\ Tail(s) \in Seq(S) /\ Len(Tail(s)) = Len(s) - 1
           /\ \A i \in 1 .. Len(s) - 1 : Tail(s)[i] = s[i + 1] /\ s[i + 1] \in S
<1>1. Len(s) \in Nat \ {0} /\ Head(s) = s[1] /\ \A i \in 1 .. Len(s) : s[i] \in S
  BY HeadTailProperties, EmptySeq, LenProperties, ElementOfSeq
<1>2. /\ Tail(s) \in Seq(S) /\ Len(Tail(s)) = Len(s) - 1
      /\ \A i \in 1 .. Len(Tail(s)) : Tail(s)[i] = s[i + 1]
  BY HeadTailProperties, EmptySeq
<1>. QED BY <1>1, <1>2

\* A job with two of its fields changed.
LEMMA JobRecord ==
    ASSUME NEW d \in Job, NEW step, NEW files, NEW names
    PROVE  /\ [d EXCEPT !.step = step, !.names = names]
                = [step |-> step, todo |-> d.todo, names |-> names]
           /\ [d EXCEPT !.step = step, !.todo = files]
                = [step |-> step, todo |-> files, names |-> d.names]
<1>1. [d EXCEPT !.step = step, !.names = names] =
        [[d EXCEPT !.step = step] EXCEPT !.names = names]
  BY Zenon
<1>2. [d EXCEPT !.step = step, !.todo = files] = [[d EXCEPT !.step = step] EXCEPT !.todo = files]
  BY Zenon
<1>3. [d EXCEPT !.step = step] = [step |-> step, todo |-> d.todo, names |-> d.names]
  BY DEF Job
<1>4. [[step |-> step, todo |-> d.todo, names |-> d.names] EXCEPT !.names = names]
          = [step |-> step, todo |-> d.todo, names |-> names]
  OBVIOUS
<1>5. [[step |-> step, todo |-> d.todo, names |-> d.names] EXCEPT !.todo = files]
          = [step |-> step, todo |-> files, names |-> d.names]
  OBVIOUS
<1>. QED BY <1>1, <1>2, <1>3, <1>4, <1>5

\* No job is a job without files.
LEMMA NoJobIsOne ==
    NoJob \in Job /\ NoJob.step = "none" /\ NoJob.todo = <<>> /\ NoJob.names = {}
BY DEF NoJob, Job

\* The next step of the same file.
LEMMA GoesTo ==
    ASSUME ReloadTypes, NEW t \in Reloaders, Active(t), NEW step \in Steps,
           NEW names \in SUBSET Actions,
           GoTo(t, step, names), t = Hangup => step \in {"init", "insert"}
    PROVE  \E j : /\ Becomes(t, j) /\ SoundJob(t, j)
                  /\ j.step = step /\ j.todo = job[t].todo /\ j.names = names
<1>. DEFINE j == [step |-> step, todo |-> job[t].todo, names |-> names]
<1>1. job[t] \in Job /\ job[t].todo \in Seq(Files) /\ job[t].todo # <<>>
  BY FileGiven DEF ReloadTypes, SoundJob, Active
<1>2. [job[t] EXCEPT !.step = step, !.names = names] = j
  BY <1>1, JobRecord
<1>3. job' = [job EXCEPT ![t] = j]
  BY <1>2 DEF GoTo, ReloadTypes
<1>4. SoundJob(t, j)
  BY <1>1 DEF SoundJob, Job, Steps
<1>5. j.step = step /\ j.todo = job[t].todo /\ j.names = names
  OBVIOUS
<1>. HIDE DEF j
<1>. QED BY <1>3, <1>4, <1>5 DEF Becomes

\* The next file, or the end of the reload.
LEMMA GoesOn ==
    ASSUME ReloadTypes, NEW t \in Reloaders, Active(t), NextFile(t)
    PROVE  \E j : /\ Becomes(t, j) /\ SoundJob(t, j)
                  /\ j.todo = Tail(job[t].todo)
                  /\ j.step \in {"none", IF t = Hangup THEN "init" ELSE "load"}
                  /\ j.step = "init" => j.names = loaded[Head(j.todo)]
<1>1. PICK s \in Seq(Files) : s = job[t].todo
  BY FileGiven
<1>2. s # <<>>
  BY <1>1 DEF ReloadTypes, SoundJob, Active
<1>3. Len(s) \in Nat \ {0} /\ \A i \in 1 .. Len(s) - 1 : s[i + 1] \in Files
  BY <1>2, RestOf
<1>6. PICK r \in Seq(Files) : /\ r = Tail(s) /\ Len(r) = Len(s) - 1
                              /\ \A i \in 1 .. Len(s) - 1 : r[i] = s[i + 1]
  <2>1. /\ Tail(s) \in Seq(Files) /\ Len(Tail(s)) = Len(s) - 1
        /\ \A i \in 1 .. Len(s) - 1 : Tail(s)[i] = s[i + 1]
    BY <1>2, RestOf
  <2>. QED BY <2>1, Zenon
<1>4. CASE Len(s) = 1
  <2>1. r = <<>>
    BY <1>6, <1>4, EmptySeq
  <2>2. SoundJob(t, NoJob)
    BY NoJobIsOne DEF SoundJob
  <2>3. Becomes(t, NoJob)
    BY <1>1, <1>4 DEF NextFile, Becomes
  <2>. QED BY <1>1, <1>6, <2>1, <2>2, <2>3, NoJobIsOne
<1>5. CASE Len(s) # 1
  <2>1. PICK k : k = [step |-> IF t = Hangup THEN "init" ELSE "load", todo |-> r,
                      names |-> IF t = Hangup THEN loaded[s[2]] ELSE {}]
    OBVIOUS
  <2>2. r[1] = s[2] /\ s[2] \in Files
    BY <1>3, <1>5, <1>6
  <2>3. r # <<>>
    <3>1. Len(r) # 0
      BY <1>3, <1>5, <1>6
    <3>2. Len(<<>>) = 0
      BY EmptySeq, Zenon
    <3>. QED BY <3>1, <3>2, Zenon
  <2>4. Head(r) = s[2]
    BY <2>2, <2>3, RestOf
  <2>5. loaded[s[2]] \subseteq Actions
    BY <2>2 DEF ReloadTypes, ReloadTypeOK
  <2>6. k \in Job
    BY <2>1, <2>5 DEF Job, Steps
  <2>7. /\ k.todo = r /\ k.step = IF t = Hangup THEN "init" ELSE "load"
        /\ k.step = "init" => k.names = loaded[Head(r)]
    BY <2>1, <2>4
  <2>8. SoundJob(t, k)
    BY <2>3, <2>6, <2>7 DEF SoundJob
  <2>9. Becomes(t, k)
    BY <1>1, <1>5, <1>6, <2>1 DEF NextFile, Becomes
  <2>. QED BY <1>1, <1>6, <2>7, <2>8, <2>9
<1>. QED BY <1>4, <1>5

\* A reload that starts, and whether it overlaps another.
LEMMA StartsWith ==
    ASSUME ReloadTypes, overlapped \in BOOLEAN, NEW t \in Reloaders,
           NEW step \in {"load", "clear"}, NEW files \in Seq(Files),
           files # <<>>, StartJob(t, step, files), step = "clear" <=> t = Hangup
    PROVE  /\ \E j : /\ Becomes(t, j) /\ SoundJob(t, j)
                     /\ j.step = step /\ j.todo = files /\ j.names = {}
           /\ ~Active(t)
           /\ ~overlapped' => ~overlapped /\ \A u \in Reloaders : ~Active(u)
           /\ overlapped' \in BOOLEAN
<1>. DEFINE j == [step |-> step, todo |-> files, names |-> {}]
<1>1. [NoJob EXCEPT !.step = step, !.todo = files] = j
  <2>1. PICK d \in Job : d = NoJob
    BY NoJobIsOne
  <2>2. [d EXCEPT !.step = step, !.todo = files] =
          [step |-> step, todo |-> files, names |-> d.names]
    BY JobRecord
  <2>3. d.names = {}
    BY <2>1, NoJobIsOne
  <2>. QED BY <2>1, <2>2, <2>3
<1>2. Becomes(t, j)
  BY <1>1 DEF StartJob, Becomes
<1>3. SoundJob(t, j)
  BY DEF SoundJob, Job, Steps
<1>4. \A u \in Reloaders : job[u] = NoJob <=> ~Active(u)
  BY DEF ReloadTypes, SoundJob, Active, NoJob
<1>5. overlapped' = (overlapped \/ \E u \in Reloaders : job[u] # NoJob) /\ job[t] = NoJob
  BY DEF StartJob
<1>6. j.step = step /\ j.todo = files /\ j.names = {}
  OBVIOUS
<1>. HIDE DEF j
<1>. QED BY <1>2, <1>3, <1>4, <1>5, <1>6

\* Changes stay noted when what was to be loaded stays or is loaded.
LEMMA WritesStay ==
    ASSUME ReloadTypes, WritesNoted, disk' = disk,
           changed \subseteq changed' \cup ToSet(waiting'),
           ToSet(waiting) \subseteq ToSet(waiting') \cup ToLoad(Watcher)',
           \A f \in Files : loaded'[f] # loaded[f] => loaded'[f] = disk[f].names,
           \A f \in Files : f \in ToLoad(Watcher) =>
               f \in ToLoad(Watcher)' \/ ~disk[f].compiles \/ loaded'[f] = disk[f].names
    PROVE  WritesNoted'
<1>. SUFFICES ASSUME NEW f \in Files, disk'[f].compiles, loaded'[f] # disk'[f].names
              PROVE  f \in changed' \cup ToSet(waiting') \cup ToLoad(Watcher)'
  BY Zenon DEF WritesNoted
<1>1. disk[f].compiles /\ loaded[f] # disk[f].names /\ loaded'[f] # disk[f].names
  BY Zenon
<1>2. f \in changed \cup ToSet(waiting) \cup ToLoad(Watcher)
  BY <1>1, Zenon DEF WritesNoted
<1>. QED BY <1>1, <1>2

\* What the watcher is still going to load, as its reload goes on.
LEMMA StillToLoad ==
    ASSUME ReloadTypes, NEW t \in Reloaders, NEW j, Becomes(t, j), SoundJob(t, j),
           \/ t # Watcher \/ ~Active(t)
           \/ j.todo = Tail(job[t].todo) /\ j.step \in {"none", "load"}
           \/ j.todo = job[t].todo /\ j.step # "load"
    PROVE  \A f \in ToLoad(Watcher) :
               f \in ToLoad(Watcher)' \/ (job[t].step = "load" /\ f = File(t))
<1>. DEFINE F == IF job[t].step = "load" THEN {File(t)} ELSE {}
<1>. SUFFICES ToLoad(Watcher) \subseteq ToLoad(Watcher)' \cup F
  OBVIOUS
<1>1. job \in [Reloaders -> Job] /\ Watcher \in Reloaders
  BY DEF ReloadTypes, Reloaders
<1>2. /\ job'[t] = j
      /\ \A u \in Reloaders : u # t => job'[u] = job[u]
  BY <1>1, JobBecomes
<1>3. CASE t # Watcher
  BY <1>1, <1>2, <1>3 DEF ToLoad
<1>4. CASE t = Watcher /\ ~Active(t)
  BY <1>4, EmptySeq DEF ToLoad, Active, ReloadTypes, SoundJob, NoJob
<1>5. CASE t = Watcher /\ Active(t)
  <2>1. PICK s \in Seq(Files) : s = job[t].todo
    BY <1>5, FileGiven
  <2>2. s # <<>>
    BY <1>5, <2>1 DEF ReloadTypes, SoundJob, Active
  <2>3. {s[i] : i \in DOMAIN s \ {1}} = {Tail(s)[i] : i \in DOMAIN Tail(s)}
    BY <2>2, TailOf
  <2>4. ToLoad(Watcher) = {s[i] : i \in IF job[t].step = "load" THEN DOMAIN s ELSE DOMAIN s \ {1}}
    BY <1>5, <2>1 DEF ToLoad
  <2>5. job[t].step = "load" => ToLoad(Watcher)
            \subseteq {s[i] : i \in DOMAIN s \ {1}} \cup {File(t)}
    BY <1>5, <2>1, <2>4, FileGiven
  <2>6. ToLoad(Watcher) \subseteq {s[i] : i \in DOMAIN s \ {1}} \cup F
    BY <1>3, <1>5, <2>4, <2>5
  <2>7. CASE j.todo = Tail(job[t].todo) /\ j.step \in {"none", "load"}
    <3>1. j.step = "load" => ToLoad(Watcher)' = {Tail(s)[i] : i \in DOMAIN Tail(s)}
      BY <1>2, <1>5, <2>1, <2>7 DEF ToLoad
    <3>2. ASSUME j.step = "none" PROVE {Tail(s)[i] : i \in DOMAIN Tail(s)} = {}
      <4>1. Tail(s) = <<>>
        BY <2>1, <2>7, <3>2 DEF SoundJob, NoJob
      <4>2. DOMAIN <<>> = {}
        OBVIOUS
      <4>3. DOMAIN Tail(s) = {}
        BY <4>1, <4>2, Zenon
      <4>. QED BY <4>3
    <3>. QED BY <2>3, <2>6, <2>7, <3>1, <3>2
  <2>8. CASE j.todo = job[t].todo /\ j.step # "load"
    <3>1. ToLoad(Watcher)' = {s[i] : i \in DOMAIN s \ {1}}
      BY <1>2, <1>5, <2>1, <2>8 DEF ToLoad
    <3>. QED BY <2>6, <3>1
  <2>. QED BY <1>5, <2>7, <2>8
<1>. QED BY <1>3, <1>4, <1>5

\* A step of a reload leaves the types, and the reloader alone if it was.
LEMMA ReloadGoes ==
    ASSUME ReloadTypes, NEW t \in Reloaders, Active(t), NEW j, Becomes(t, j), SoundJob(t, j),
           UNCHANGED <<disk, changed, waiting, edits, overlapped, halfway>>,
           loaded' \in [Files -> SUBSET Actions],
           handlers' \in [Actions -> Files \cup {NoFile}],
           by_script' \in [Files -> SUBSET Actions]
    PROVE  /\ ReloadTypes'
           /\ job'[t] = j
           /\ Alone => Alone' /\ \A u \in Reloaders : u # t =>
                          job[u].step = "none" /\ job'[u].step = "none"
<1>1. ReloadTypes'
  BY JobTyped DEF ReloadTypes, ReloadTypeOK
<1>2. job'[t] = j /\ \A u \in Reloaders : u # t => job'[u] = job[u]
  BY JobBecomes DEF ReloadTypes
<1>3. Alone => Alone' /\ \A u \in Reloaders : u # t => job[u].step = "none"
          /\ job'[u].step = "none"
  BY <1>2 DEF Alone, Active
<1>. QED BY <1>1, <1>2, <1>3

\* A file is loaded, or does not compile and is left as it was.
LEMMA LoadStep ==
    ASSUME ReloadInv, NEW t \in Reloaders, Load(t)
    PROVE  ReloadInv'
<1>. DEFINE g == File(t)
<1>0. ReloadTypes /\ WritesNoted /\ Active(t) /\ t # Hangup /\ g \in Files /\ job[t].step = "load"
      /\ NoFile \notin Files
  BY FileGiven, ReloadAssumption DEF ReloadInv, Load, Now, Active, ReloadTypes, SoundJob
<1>1. UNCHANGED <<disk, changed, waiting, handlers, by_script, edits, overlapped, halfway>>
  BY DEF Load
<1>2. CASE ~disk[g].compiles
  <2>1. NextFile(t) /\ loaded' = loaded
    BY <1>2 DEF Load
  <2>2. PICK j : /\ Becomes(t, j) /\ SoundJob(t, j) /\ j.todo = Tail(job[t].todo)
                 /\ j.step \in {"none", "load"}
    BY <1>0, <2>1, GoesOn
  <2>3. /\ ReloadTypes' /\ job'[t] = j
        /\ Alone => Alone' /\ \A u \in Reloaders : u # t =>
                       job[u].step = "none" /\ job'[u].step = "none"
    <3>1. loaded' \in [Files -> SUBSET Actions] /\ handlers' \in [Actions -> Files \cup {NoFile}]
          /\ by_script' \in [Files -> SUBSET Actions]
      BY <1>0, <1>1, <2>1 DEF ReloadTypes, ReloadTypeOK
    <3>. QED BY <1>0, <1>1, <2>2, <3>1, ReloadGoes
  <2>4. WritesNoted'
    <3>1. \A f \in ToLoad(Watcher) : f \in ToLoad(Watcher)' \/ f = g
      BY <1>0, <2>2, StillToLoad
    <3>. QED BY <1>0, <1>1, <1>2, <2>1, <3>1, WritesStay
  <2>5. Alone /\ ListedOrGoing => ListedOrGoing'
    BY <1>0, <1>1, <2>2, <2>3 DEF ListedOrGoing, ToRemove, File
  <2>6. Alone /\ ServedOrGoing => ServedOrGoing'
    BY <1>0, <1>1, <2>1, <2>2, <2>3 DEF ServedOrGoing, ToRemove, ToUnlist, ToClear, Reloaders,
         File
  <2>. QED BY <1>0, <1>1, <2>3, <2>4, <2>5, <2>6 DEF ReloadInv
<1>3. CASE disk[g].compiles
  <2>1. GoTo(t, "unlist", {}) /\ loaded' = [loaded EXCEPT ![g] = disk[g].names]
    BY <1>3 DEF Load
  <2>2. PICK j : /\ Becomes(t, j) /\ SoundJob(t, j) /\ j.todo = job[t].todo
                 /\ j.step = "unlist"
    BY <1>0, <2>1, GoesTo DEF Steps
  <2>3. /\ ReloadTypes' /\ job'[t] = j
        /\ Alone => Alone' /\ \A u \in Reloaders : u # t =>
                       job[u].step = "none" /\ job'[u].step = "none"
    <3>1. loaded' \in [Files -> SUBSET Actions] /\ handlers' \in [Actions -> Files \cup {NoFile}]
          /\ by_script' \in [Files -> SUBSET Actions]
      BY <1>0, <1>1, <2>1 DEF ReloadTypes, ReloadTypeOK, Contents
    <3>. QED BY <1>0, <1>1, <2>2, <3>1, ReloadGoes
  <2>4. \A f \in Files : loaded'[f] = IF f = g THEN disk[f].names ELSE loaded[f]
    BY <1>0, <2>1 DEF ReloadTypes, ReloadTypeOK
  <2>5. WritesNoted'
    <3>1. \A f \in ToLoad(Watcher) : f \in ToLoad(Watcher)' \/ f = g
      BY <1>0, <2>2, StillToLoad
    <3>. QED BY <1>0, <1>1, <2>4, <3>1, WritesStay
  <2>6. Alone /\ ListedOrGoing => ListedOrGoing'
    BY <1>0, <1>1, <2>2, <2>3 DEF ListedOrGoing, ToRemove, File
  <2>7. Alone /\ ServedOrGoing => ServedOrGoing'
    <3>1. File(t)' = g
      BY <2>2, <2>3 DEF File
    <3>2. \A a \in Actions : handlers[a] # NoFile => handlers[a] \in Files
      BY <1>0 DEF ReloadTypes, ReloadTypeOK
    <3>. QED BY <1>0, <1>1, <2>2, <2>3, <2>4, <3>1, <3>2
         DEF ServedOrGoing, ToRemove, ToUnlist, ToClear, Reloaders
  <2>. QED BY <1>0, <1>1, <2>3, <2>5, <2>6, <2>7 DEF ReloadInv
<1>. QED BY <1>2, <1>3

\* A step that loads nothing leaves what the watcher has to do.
LEMMA WritesGoOn ==
    ASSUME ReloadTypes, WritesNoted, NEW t \in Reloaders, Active(t), job[t].step # "load",
           UNCHANGED <<disk, changed, waiting, loaded>>,
           NEW j, Becomes(t, j), SoundJob(t, j),
           \/ j.todo = job[t].todo /\ j.step # "load"
           \/ j.todo = Tail(job[t].todo) /\ (j.step \in {"none", "load"} \/ t # Watcher)
    PROVE  WritesNoted'
<1>1. \A f \in ToLoad(Watcher) : f \in ToLoad(Watcher)'
  BY StillToLoad
<1>. QED BY <1>1, WritesStay

\* The list of a file is taken away; its handlers go next.
LEMMA StrikeOffStep ==
    ASSUME ReloadInv, NEW t \in Reloaders, StrikeOff(t)
    PROVE  ReloadInv'
<1>. DEFINE g == File(t)
<1>0. ReloadTypes /\ WritesNoted /\ Active(t) /\ t # Hangup /\ g \in Files
          /\ job[t].step = "unlist"
      /\ NoFile \notin Files /\ by_script[g] \in SUBSET Actions
  BY FileGiven, ReloadAssumption
     DEF ReloadInv, StrikeOff, Now, Active, ReloadTypes, SoundJob, ReloadTypeOK
<1>1. UNCHANGED <<disk, changed, waiting, loaded, handlers, edits, overlapped, halfway>>
      /\ by_script' = [by_script EXCEPT ![g] = {}] /\ GoTo(t, "remove", by_script[g])
  BY DEF StrikeOff
<1>2. PICK j : /\ Becomes(t, j) /\ SoundJob(t, j) /\ j.todo = job[t].todo
               /\ j.step = "remove" /\ j.names = by_script[g]
  BY <1>0, <1>1, GoesTo DEF Steps
<1>3. /\ ReloadTypes' /\ job'[t] = j
      /\ Alone => Alone' /\ \A u \in Reloaders : u # t =>
                     job[u].step = "none" /\ job'[u].step = "none"
  <2>1. loaded' \in [Files -> SUBSET Actions] /\ handlers' \in [Actions -> Files \cup {NoFile}]
        /\ by_script' \in [Files -> SUBSET Actions]
    BY <1>0, <1>1 DEF ReloadTypes, ReloadTypeOK
  <2>. QED BY <1>0, <1>1, <1>2, <2>1, ReloadGoes
<1>4. WritesNoted'
  BY <1>0, <1>1, <1>2, WritesGoOn
<1>5. File(t)' = g /\ (\A f \in Files : by_script'[f] = IF f = g THEN {} ELSE by_script[f])
      /\ \A a \in Actions : handlers[a] # NoFile => handlers[a] \in Files
  BY <1>0, <1>1, <1>2, <1>3 DEF ReloadTypes, ReloadTypeOK, File
<1>6. Alone /\ ListedOrGoing => ListedOrGoing'
  BY <1>0, <1>1, <1>2, <1>3, <1>5 DEF ListedOrGoing, ToRemove
<1>7. Alone /\ ListedOrGoing /\ ServedOrGoing => ServedOrGoing'
  BY <1>0, <1>1, <1>2, <1>3, <1>5
     DEF ListedOrGoing, ServedOrGoing, ToRemove, ToUnlist, ToClear, Reloaders
<1>. QED BY <1>0, <1>1, <1>3, <1>4, <1>6, <1>7 DEF ReloadInv

\* The handlers that the list named go.
LEMMA RemoveHandlersStep ==
    ASSUME ReloadInv, NEW t \in Reloaders, RemoveHandlers(t)
    PROVE  ReloadInv'
<1>. DEFINE g == File(t)
<1>0. ReloadTypes /\ WritesNoted /\ Active(t) /\ t # Hangup /\ g \in Files
          /\ job[t].step = "remove"
      /\ NoFile \notin Files /\ loaded[g] \in SUBSET Actions
  BY FileGiven, ReloadAssumption
     DEF ReloadInv, RemoveHandlers, Now, Active, ReloadTypes, SoundJob, ReloadTypeOK
<1>1. UNCHANGED <<disk, changed, waiting, loaded, by_script, edits, overlapped, halfway>>
      /\ handlers' = [a \in Actions |-> IF a \in job[t].names THEN NoFile ELSE handlers[a]]
      /\ GoTo(t, "init", loaded[g])
  BY DEF RemoveHandlers
<1>2. PICK j : /\ Becomes(t, j) /\ SoundJob(t, j) /\ j.todo = job[t].todo
               /\ j.step = "init" /\ j.names = loaded[g]
  BY <1>0, <1>1, GoesTo DEF Steps
<1>3. /\ ReloadTypes' /\ job'[t] = j
      /\ Alone => Alone' /\ \A u \in Reloaders : u # t =>
                     job[u].step = "none" /\ job'[u].step = "none"
  <2>1. loaded' \in [Files -> SUBSET Actions] /\ handlers' \in [Actions -> Files \cup {NoFile}]
        /\ by_script' \in [Files -> SUBSET Actions]
    BY <1>0, <1>1 DEF ReloadTypes, ReloadTypeOK
  <2>. QED BY <1>0, <1>1, <1>2, <2>1, ReloadGoes
<1>4. WritesNoted'
  BY <1>0, <1>1, <1>2, WritesGoOn
<1>5. File(t)' = g
  BY <1>2, <1>3 DEF File
<1>6. Alone /\ ListedOrGoing => ListedOrGoing'
  BY <1>0, <1>1, <1>2, <1>3, <1>5 DEF ListedOrGoing, ToRemove
<1>7. Alone /\ ServedOrGoing => ServedOrGoing'
  BY <1>0, <1>1, <1>2, <1>3, <1>5 DEF ServedOrGoing, ToRemove, ToUnlist, ToClear, Reloaders
<1>. QED BY <1>0, <1>1, <1>3, <1>4, <1>6, <1>7 DEF ReloadInv

\* A full reload clears every list and handler.
LEMMA ClearRegistryStep ==
    ASSUME ReloadInv, NEW t \in Reloaders, ClearRegistry(t)
    PROVE  ReloadInv'
<1>. DEFINE g == File(t)
<1>0. ReloadTypes /\ WritesNoted /\ Active(t) /\ t = Hangup /\ g \in Files
          /\ job[t].step = "clear"
      /\ NoFile \notin Files /\ loaded[g] \in SUBSET Actions
  BY FileGiven, ReloadAssumption
     DEF ReloadInv, ClearRegistry, Now, Active, ReloadTypes, SoundJob, ReloadTypeOK
<1>1. UNCHANGED <<disk, changed, waiting, loaded, edits, overlapped, halfway>>
      /\ handlers' = [a \in Actions |-> NoFile] /\ by_script' = [f \in Files |-> {}]
      /\ GoTo(t, "init", loaded[g])
  BY DEF ClearRegistry
<1>2. PICK j : /\ Becomes(t, j) /\ SoundJob(t, j) /\ j.todo = job[t].todo
               /\ j.step = "init" /\ j.names = loaded[g]
  BY <1>0, <1>1, GoesTo DEF Steps
<1>3. /\ ReloadTypes' /\ job'[t] = j
      /\ Alone => Alone' /\ \A u \in Reloaders : u # t =>
                     job[u].step = "none" /\ job'[u].step = "none"
  <2>1. loaded' \in [Files -> SUBSET Actions] /\ handlers' \in [Actions -> Files \cup {NoFile}]
        /\ by_script' \in [Files -> SUBSET Actions]
    BY <1>0, <1>1 DEF ReloadTypes, ReloadTypeOK
  <2>. QED BY <1>0, <1>1, <1>2, <2>1, ReloadGoes
<1>4. WritesNoted'
  BY <1>0, <1>1, <1>2, WritesGoOn
<1>5. File(t)' = g
  BY <1>2, <1>3 DEF File
<1>6. Alone /\ ListedOrGoing => ListedOrGoing'
  BY <1>1, <1>2, <1>3 DEF ListedOrGoing
<1>7. Alone /\ ServedOrGoing => ServedOrGoing'
  BY <1>1, <1>2, <1>3, <1>5 DEF ServedOrGoing
<1>. QED BY <1>0, <1>1, <1>3, <1>4, <1>6, <1>7 DEF ReloadInv

\* An action is listed under its file.
LEMMA ListActionStep ==
    ASSUME ReloadInv, NEW t \in Reloaders, NEW a \in Actions, ListAction(t, a)
    PROVE  ReloadInv'
<1>. DEFINE g == File(t)
<1>0. ReloadTypes /\ WritesNoted /\ Active(t) /\ g \in Files /\ job[t].step = "init"
      /\ NoFile \notin Files /\ a \in job[t].names
  BY FileGiven, ReloadAssumption DEF ReloadInv, ListAction, Now, Active
<1>1. UNCHANGED <<disk, changed, waiting, loaded, handlers, edits, overlapped, halfway>>
      /\ by_script' = [by_script EXCEPT ![g] = @ \cup {a}] /\ GoTo(t, "insert", {a})
  BY DEF ListAction, GoTo
<1>2. PICK j : /\ Becomes(t, j) /\ SoundJob(t, j) /\ j.todo = job[t].todo
               /\ j.step = "insert" /\ j.names = {a}
  BY <1>0, <1>1, GoesTo DEF Steps
<1>3. /\ ReloadTypes' /\ job'[t] = j
      /\ Alone => Alone' /\ \A u \in Reloaders : u # t =>
                     job[u].step = "none" /\ job'[u].step = "none"
  <2>1. loaded' \in [Files -> SUBSET Actions] /\ handlers' \in [Actions -> Files \cup {NoFile}]
        /\ by_script' \in [Files -> SUBSET Actions]
    BY <1>0, <1>1 DEF ReloadTypes, ReloadTypeOK
  <2>. QED BY <1>0, <1>1, <1>2, <2>1, ReloadGoes
<1>4. WritesNoted'
  BY <1>0, <1>1, <1>2, WritesGoOn
<1>5. File(t)' = g /\ (\A f \in Files : by_script[f] \subseteq by_script'[f])
          /\ a \in by_script'[g]
      /\ \A b \in Actions : handlers[b] # NoFile => handlers[b] \in Files
  BY <1>0, <1>1, <1>2, <1>3 DEF ReloadTypes, ReloadTypeOK, File
<1>6. Alone /\ ListedOrGoing => ListedOrGoing'
  BY <1>0, <1>1, <1>2, <1>3, <1>5 DEF ListedOrGoing, ToRemove
<1>7. Alone /\ ServedOrGoing => ServedOrGoing'
  BY <1>0, <1>1, <1>2, <1>3, <1>5 DEF ServedOrGoing, ToRemove, ToUnlist, ToClear, Reloaders
<1>. QED BY <1>0, <1>1, <1>3, <1>4, <1>6, <1>7 DEF ReloadInv

\* Registering goes on with the rest of the file, with the next one, or ends.
LEMMA RegistersOn ==
    ASSUME ReloadTypes, NEW t \in Reloaders, Active(t), job[t].step \in {"init", "insert"},
           NEW rest \in SUBSET loaded[File(t)],
           NextFile(t) \/ GoTo(t, "init", rest)
    PROVE  \E j : /\ Becomes(t, j) /\ SoundJob(t, j) /\ j.step \in {"none", "init", "load"}
                  /\ j.step = "init" => j.names \subseteq loaded[Head(j.todo)]
                  /\ \/ j.todo = job[t].todo /\ j.step # "load"
                     \/ j.todo = Tail(job[t].todo) /\ (j.step \in {"none", "load"} \/ t # Watcher)
<1>1. CASE NextFile(t)
  <2>1. PICK j : /\ Becomes(t, j) /\ SoundJob(t, j) /\ j.todo = Tail(job[t].todo)
                 /\ j.step \in {"none", IF t = Hangup THEN "init" ELSE "load"}
                 /\ j.step = "init" => j.names = loaded[Head(j.todo)]
    BY <1>1, GoesOn
  <2>. QED BY <2>1, ReloadAssumption
<1>2. CASE GoTo(t, "init", rest)
  <2>1. rest \in SUBSET Actions
    BY FileGiven DEF ReloadTypes, ReloadTypeOK
  <2>2. PICK j : /\ Becomes(t, j) /\ SoundJob(t, j) /\ j.todo = job[t].todo
                 /\ j.step = "init" /\ j.names = rest
    BY <1>2, <2>1, GoesTo DEF Steps
  <2>3. j.names \subseteq loaded[Head(j.todo)]
    BY <2>2 DEF File
  <2>. QED BY <2>2, <2>3
<1>. QED BY <1>1, <1>2

\* The handler listed last is inserted.
LEMMA InsertHandlerStep ==
    ASSUME ReloadInv, NEW t \in Reloaders, InsertHandler(t)
    PROVE  ReloadInv'
<1>. DEFINE g == File(t)
            rest == loaded[g] \ by_script[g]
<1>0. ReloadTypes /\ WritesNoted /\ Active(t) /\ g \in Files /\ job[t].step = "insert"
      /\ NoFile \notin Files /\ rest \in SUBSET loaded[g]
  BY FileGiven, ReloadAssumption DEF ReloadInv, InsertHandler, Now, Active
<1>1. UNCHANGED <<disk, changed, waiting, loaded, by_script, edits, overlapped, halfway>>
      /\ handlers' = [a \in Actions |-> IF a \in job[t].names THEN g ELSE handlers[a]]
      /\ (NextFile(t) \/ GoTo(t, "init", rest))
  BY DEF InsertHandler
<1>2. PICK j : /\ Becomes(t, j) /\ SoundJob(t, j) /\ j.step \in {"none", "init", "load"}
               /\ j.step = "init" => j.names \subseteq loaded[Head(j.todo)]
               /\ \/ j.todo = job[t].todo /\ j.step # "load"
                  \/ j.todo = Tail(job[t].todo) /\ (j.step \in {"none", "load"} \/ t # Watcher)
  <2>. HIDE DEF rest
  <2>. QED BY <1>0, <1>1, RegistersOn
<1>3. /\ ReloadTypes' /\ job'[t] = j
      /\ Alone => Alone' /\ \A u \in Reloaders : u # t =>
                     job[u].step = "none" /\ job'[u].step = "none"
  <2>1. loaded' \in [Files -> SUBSET Actions] /\ handlers' \in [Actions -> Files \cup {NoFile}]
        /\ by_script' \in [Files -> SUBSET Actions]
    BY <1>0, <1>1 DEF ReloadTypes, ReloadTypeOK
  <2>. QED BY <1>0, <1>1, <1>2, <2>1, ReloadGoes
<1>4. WritesNoted'
  BY <1>0, <1>1, <1>2, WritesGoOn
<1>5. Alone /\ ListedOrGoing => ListedOrGoing'
  BY <1>0, <1>1, <1>2, <1>3 DEF ListedOrGoing, ToRemove
<1>6. Alone /\ ServedOrGoing => ServedOrGoing'
  BY <1>0, <1>1, <1>2, <1>3 DEF ServedOrGoing, ToRemove, ToUnlist, ToClear, Reloaders, File
<1>. QED BY <1>0, <1>1, <1>3, <1>4, <1>5, <1>6 DEF ReloadInv

\* A script's init ends.
LEMMA EndInitStep ==
    ASSUME ReloadInv, NEW t \in Reloaders, EndInit(t)
    PROVE  ReloadInv'
<1>0. ReloadTypes /\ WritesNoted /\ Active(t) /\ job[t].step = "init" /\ NoFile \notin Files
  BY ReloadAssumption DEF ReloadInv, EndInit, Now, Active
<1>1. UNCHANGED <<disk, changed, waiting, loaded, handlers, by_script, edits, overlapped,
          halfway>>
      /\ NextFile(t)
  BY DEF EndInit
<1>2. PICK j : /\ Becomes(t, j) /\ SoundJob(t, j) /\ j.step \in {"none", "init", "load"}
               /\ j.step = "init" => j.names \subseteq loaded[Head(j.todo)]
               /\ \/ j.todo = job[t].todo /\ j.step # "load"
                  \/ j.todo = Tail(job[t].todo) /\ (j.step \in {"none", "load"} \/ t # Watcher)
  BY <1>0, <1>1, RegistersOn
<1>3. /\ ReloadTypes' /\ job'[t] = j
      /\ Alone => Alone' /\ \A u \in Reloaders : u # t =>
                     job[u].step = "none" /\ job'[u].step = "none"
  <2>1. loaded' \in [Files -> SUBSET Actions] /\ handlers' \in [Actions -> Files \cup {NoFile}]
        /\ by_script' \in [Files -> SUBSET Actions]
    BY <1>0, <1>1 DEF ReloadTypes, ReloadTypeOK
  <2>. QED BY <1>0, <1>1, <1>2, <2>1, ReloadGoes
<1>4. WritesNoted'
  BY <1>0, <1>1, <1>2, WritesGoOn
<1>5. Alone /\ ListedOrGoing => ListedOrGoing'
  BY <1>0, <1>1, <1>2, <1>3 DEF ListedOrGoing, ToRemove
<1>6. Alone /\ ServedOrGoing => ServedOrGoing'
  BY <1>0, <1>1, <1>2, <1>3 DEF ServedOrGoing, ToRemove, ToUnlist, ToClear, Reloaders, File
<1>. QED BY <1>0, <1>1, <1>3, <1>4, <1>5, <1>6 DEF ReloadInv

\* A reload that starts leaves the rest; it is alone unless others are at work.
LEMMA ReloadBegins ==
    ASSUME ReloadTypes, NEW t \in Reloaders, NEW j, Becomes(t, j), SoundJob(t, j), ~Active(t),
           j.step \in {"load", "clear"}, j.step = "clear" => t = Hangup,
           UNCHANGED <<handlers, by_script>>, overlapped' \in BOOLEAN,
           ~overlapped' => ~overlapped /\ \A u \in Reloaders : ~Active(u),
           ~overlapped /\ ~halfway => ServedOrGoing,
           ~overlapped => ListedOrGoing,
           halfway' = halfway,
           loaded' = loaded \/ j.step = "clear"
    PROVE  /\ ~overlapped' => Alone' /\ ListedOrGoing'
           /\ ~overlapped' /\ ~halfway' => ServedOrGoing'
<1>1. job'[t] = j /\ \A u \in Reloaders : u # t => job'[u] = job[u]
  BY JobBecomes DEF ReloadTypes
<1>. SUFFICES ASSUME ~overlapped'
              PROVE  Alone' /\ ListedOrGoing' /\ (~halfway' => ServedOrGoing')
  OBVIOUS
<1>2. /\ \A u \in Reloaders : job[u].step = "none"
      /\ \A u \in Reloaders : u # t => job'[u].step = "none"
  BY <1>1 DEF Active
<1>3. Alone'
  BY <1>2 DEF Alone, Active
<1>4. ListedOrGoing'
  BY <1>1, <1>2 DEF ListedOrGoing, ToRemove
<1>5. ~halfway' => ServedOrGoing'
  BY <1>1, <1>2 DEF ServedOrGoing, ToRemove, ToUnlist, ToClear, Reloaders
<1>. QED BY <1>3, <1>4, <1>5

\* The watcher takes the files that wait.
LEMMA ReloadWaitingStep ==
    ASSUME ReloadInv, ReloadWaiting
    PROVE  ReloadInv'
<1>0. /\ ReloadTypes /\ WritesNoted /\ waiting \in Seq(Files) /\ waiting # <<>>
      /\ Watcher \in Reloaders /\ Watcher # Hangup /\ overlapped \in BOOLEAN
  BY ReloadAssumption DEF ReloadInv, ReloadWaiting, ReloadTypes, ReloadTypeOK, Reloaders
<1>1. /\ StartJob(Watcher, "load", waiting) /\ waiting' = <<>>
      /\ UNCHANGED <<disk, changed, loaded, handlers, by_script, edits, halfway>>
  BY DEF ReloadWaiting
<1>2. /\ \E j : /\ Becomes(Watcher, j) /\ SoundJob(Watcher, j)
                /\ j.step = "load" /\ j.todo = waiting /\ j.names = {}
      /\ ~Active(Watcher)
      /\ ~overlapped' => ~overlapped /\ \A u \in Reloaders : ~Active(u)
      /\ overlapped' \in BOOLEAN
  BY <1>0, <1>1, StartsWith
<1>3. PICK j : /\ Becomes(Watcher, j) /\ SoundJob(Watcher, j)
               /\ j.step = "load" /\ j.todo = waiting
  BY <1>2
<1>4. ReloadTypes'
  <2>1. <<>> \in Seq(Files)
    BY EmptySeq
  <2>. QED BY <1>0, <1>1, <1>2, <1>3, <2>1, JobTyped DEF ReloadTypes, ReloadTypeOK
<1>5. WritesNoted'
  <2>1. job'[Watcher] = j
    BY <1>0, <1>3, JobBecomes DEF ReloadTypes
  <2>2. ToLoad(Watcher)' = ToSet(waiting)
    BY <1>3, <2>1 DEF ToLoad, ToSet
  <2>3. \A f \in Files : f \in ToLoad(Watcher) => f \in ToLoad(Watcher)'
    <3>1. \A f \in ToLoad(Watcher) :
              f \in ToLoad(Watcher)' \/ (job[Watcher].step = "load" /\ f = File(Watcher))
      BY <1>0, <1>2, <1>3, StillToLoad
    <3>. QED BY <1>2, <3>1 DEF Active
  <2>. QED BY <1>0, <1>1, <2>2, <2>3, WritesStay
<1>6. /\ ~overlapped' => Alone' /\ ListedOrGoing'
      /\ ~overlapped' /\ ~halfway' => ServedOrGoing'
  BY <1>0, <1>1, <1>2, <1>3, ReloadBegins DEF ReloadInv
<1>. QED BY <1>4, <1>5, <1>6 DEF ReloadInv

\* The sequence of one file.
LEMMA OneFile ==
    ASSUME NEW f \in Files
    PROVE  <<f>> \in Seq(Files) /\ <<f>> # <<>>
OBVIOUS

\* A task reloads one script.
LEMMA ReloadScriptStep ==
    ASSUME ReloadInv, NEW t \in Tasks, NEW f \in Files, ReloadScript(t, f)
    PROVE  ReloadInv'
<1>0. /\ ReloadTypes /\ WritesNoted /\ t \in Reloaders /\ t # Hangup /\ t # Watcher
      /\ Watcher \in Reloaders /\ overlapped \in BOOLEAN
  BY ReloadAssumption DEF ReloadInv, ReloadTypes, ReloadTypeOK, Reloaders
<1>1. PICK s : s = <<f>>
  OBVIOUS
<1>2. s \in Seq(Files) /\ s # <<>>
  BY <1>1, OneFile
<1>3. /\ StartJob(t, "load", s)
      /\ UNCHANGED <<disk, changed, waiting, loaded, handlers, by_script, edits, halfway>>
  BY <1>1 DEF ReloadScript
<1>4. /\ \E j : /\ Becomes(t, j) /\ SoundJob(t, j)
                /\ j.step = "load" /\ j.todo = s /\ j.names = {}
      /\ ~Active(t)
      /\ ~overlapped' => ~overlapped /\ \A u \in Reloaders : ~Active(u)
      /\ overlapped' \in BOOLEAN
  BY <1>0, <1>2, <1>3, StartsWith
<1>5. PICK j : Becomes(t, j) /\ SoundJob(t, j) /\ j.step = "load"
  BY <1>4
<1>6. ReloadTypes'
  BY <1>0, <1>3, <1>4, <1>5, JobTyped DEF ReloadTypes, ReloadTypeOK
<1>7. WritesNoted'
  <2>1. job'[Watcher] = job[Watcher]
    BY <1>0, <1>5, JobBecomes DEF ReloadTypes
  <2>. QED BY <1>0, <1>3, <2>1 DEF WritesNoted, ToLoad
<1>8. /\ ~overlapped' => Alone' /\ ListedOrGoing'
      /\ ~overlapped' /\ ~halfway' => ServedOrGoing'
  BY <1>0, <1>3, <1>4, <1>5, ReloadBegins DEF ReloadInv
<1>. QED BY <1>6, <1>7, <1>8 DEF ReloadInv

\* A directory listing is a sequence of files.
LEMMA AnOrder ==
    ASSUME NEW order \in SetToSeqs(Files)
    PROVE  order \in Seq(Files) /\ order # <<>>
<1>1. PICK n \in Nat : n = Cardinality(Files)
  BY ReloadAssumption, FS_CardinalityType
<1>2. n # 0
  BY <1>1, ReloadAssumption, FS_EmptySet
<1>3. order \in [1 .. n -> Files]
  BY <1>1 DEF SetToSeqs
<1>4. order \in Seq(Files) /\ Len(order) = n
  BY <1>3
<1>. QED BY <1>2, <1>4, EmptySeq

\* A full reload loads every file up to one that does not compile.
LEMMA LoadAllStep ==
    ASSUME ReloadInv, NEW order \in SetToSeqs(Files), LoadAll(order)
    PROVE  ReloadInv'
<1>. DEFINE bad == {i \in DOMAIN order : ~disk[order[i]].compiles}
            good == {order[i] : i \in {j \in DOMAIN order : \A b \in bad : j < b}}
<1>0. /\ ReloadTypes /\ WritesNoted /\ Hangup \in Reloaders /\ Watcher \in Reloaders
      /\ Watcher # Hangup /\ overlapped \in BOOLEAN /\ order \in Seq(Files) /\ order # <<>>
  BY ReloadAssumption, AnOrder DEF ReloadInv, ReloadTypes, ReloadTypeOK, Reloaders
<1>1. /\ loaded' = [f \in Files |-> IF f \in good THEN disk[f].names ELSE loaded[f]]
      /\ UNCHANGED <<disk, changed, waiting, handlers, by_script, edits>>
      /\ IF bad = {} THEN StartJob(Hangup, "clear", order) /\ UNCHANGED halfway
                     ELSE halfway' = TRUE /\ UNCHANGED <<job, overlapped>>
  BY DEF LoadAll
<1>2. PICK G : G = good
  OBVIOUS
<1>. HIDE DEF good
<1>3. /\ \A f \in Files : loaded'[f] = IF f \in G THEN disk[f].names ELSE loaded[f]
      /\ loaded' \in [Files -> SUBSET Actions]
  BY <1>0, <1>1, <1>2 DEF ReloadTypes, ReloadTypeOK, Contents
<1>4. job'[Watcher] = job[Watcher] => WritesNoted'
  BY <1>0, <1>1, <1>3 DEF WritesNoted, ToLoad
<1>5. CASE bad = {}
  <2>1. StartJob(Hangup, "clear", order) /\ halfway' = halfway
    BY <1>1, <1>5
  <2>2. /\ \E j : /\ Becomes(Hangup, j) /\ SoundJob(Hangup, j)
                  /\ j.step = "clear" /\ j.todo = order /\ j.names = {}
        /\ ~Active(Hangup)
        /\ ~overlapped' => ~overlapped /\ \A u \in Reloaders : ~Active(u)
        /\ overlapped' \in BOOLEAN
    BY <1>0, <2>1, StartsWith
  <2>3. PICK j : Becomes(Hangup, j) /\ SoundJob(Hangup, j) /\ j.step = "clear"
    BY <2>2
  <2>4. ReloadTypes'
    BY <1>0, <1>1, <1>3, <2>1, <2>2, <2>3, JobTyped DEF ReloadTypes, ReloadTypeOK
  <2>5. WritesNoted'
    BY <1>0, <1>4, <2>3, JobBecomes DEF ReloadTypes
  <2>6. /\ ~overlapped' => Alone' /\ ListedOrGoing'
        /\ ~overlapped' /\ ~halfway' => ServedOrGoing'
    BY <1>0, <1>1, <2>1, <2>2, <2>3, ReloadBegins DEF ReloadInv
  <2>. QED BY <2>4, <2>5, <2>6 DEF ReloadInv
<1>6. CASE bad # {}
  <2>1. halfway' = TRUE /\ UNCHANGED <<job, overlapped>>
    BY <1>1, <1>6
  <2>2. ReloadTypes'
    BY <1>0, <1>1, <1>3, <2>1 DEF ReloadTypes, ReloadTypeOK, SoundJob
  <2>3. ~overlapped' => Alone' /\ ListedOrGoing'
    BY <1>1, <2>1 DEF ReloadInv, Alone, Active, ListedOrGoing, ToRemove, File
  <2>. QED BY <1>4, <2>1, <2>2, <2>3 DEF ReloadInv
<1>. QED BY <1>5, <1>6

\* A file is written, or the watcher hears of it.
LEMMA DiskSteps ==
    ASSUME ReloadInv, NEW f \in Files,
           (\E c \in Contents : WriteScript(f, c)) \/ ReceiveEvent(f)
    PROVE  ReloadInv'
<1>0. ReloadTypes /\ WritesNoted /\ waiting \in Seq(Files)
  BY DEF ReloadInv, ReloadTypes, ReloadTypeOK
<1>1. UNCHANGED <<job, loaded, handlers, by_script, overlapped, halfway>>
  BY DEF WriteScript, ReceiveEvent
<1>2. /\ ~overlapped' => Alone' /\ ListedOrGoing'
      /\ ~overlapped' /\ ~halfway' => ServedOrGoing'
  BY <1>1 DEF ReloadInv, Alone, Active, ListedOrGoing, ServedOrGoing, ToRemove, ToUnlist,
       ToClear, File
<1>3. ASSUME NEW c \in Contents, WriteScript(f, c)
      PROVE  ReloadTypes' /\ WritesNoted'
  <2>1. ReloadTypes'
    BY <1>0, <1>1, <1>3, ReloadAssumption DEF WriteScript, ReloadTypes, ReloadTypeOK, SoundJob
  <2>2. WritesNoted'
    BY <1>0, <1>1, <1>3 DEF WriteScript, WritesNoted, ToLoad, ReloadTypes, ReloadTypeOK
  <2>. QED BY <2>1, <2>2
<1>4. ASSUME ReceiveEvent(f)
      PROVE  ReloadTypes' /\ WritesNoted'
  <2>1. waiting' = Noticed(f) /\ changed' = changed \ {f} /\ UNCHANGED <<disk, edits>>
    BY <1>4 DEF ReceiveEvent
  <2>2. Noticed(f) \in Seq(Files) /\ ToSet(waiting) \cup {f} \subseteq ToSet(Noticed(f))
    <3>1. CASE f \in ToSet(waiting)
      BY <1>0, <3>1 DEF Noticed
    <3>2. CASE f \notin ToSet(waiting)
      <4>0. Append(waiting, f) \in Seq(Files)
        BY <1>0, AppendProperties
      <4>1. PICK s \in Seq(Files) : s = Append(waiting, f)
        BY <4>0, Zenon
      <4>2. Len(waiting) \in Nat /\ Len(s) = Len(waiting) + 1 /\ s[Len(waiting) + 1] = f
            /\ \A i \in 1 .. Len(waiting) : s[i] = waiting[i]
        BY <1>0, <4>1, AppendProperties, LenProperties
      <4>3. ToSet(waiting) \cup {f} \subseteq ToSet(s)
        BY <1>0, <4>2 DEF ToSet
      <4>. QED BY <3>2, <4>1, <4>3 DEF Noticed
    <3>. QED BY <3>1, <3>2
  <2>3. ReloadTypes'
    BY <1>0, <1>1, <2>1, <2>2 DEF ReloadTypes, ReloadTypeOK, SoundJob
  <2>4. WritesNoted'
    BY <1>0, <1>1, <2>1, <2>2 DEF WritesNoted, ToLoad
  <2>. QED BY <2>3, <2>4
<1>. QED BY <1>2, <1>3, <1>4 DEF ReloadInv

\* Theorem: an edit that compiles is loaded or waits to be, and reloads that do not
\* overlap leave handlers that their file defines and lists (ReloadsHold).
THEOREM ReloadsKept == ReloadSpec => [](ReloadTypeOK /\ ReloadsHold)
<1>1. ReloadInit => ReloadInv
  <2>. SUFFICES ASSUME ReloadInit PROVE ReloadInv
    OBVIOUS
  <2>1. /\ job = [t \in Reloaders |-> NoJob] /\ overlapped = FALSE /\ halfway = FALSE
        /\ edits = 0 /\ waiting = <<>> /\ changed = {} /\ by_script = loaded
        /\ loaded = [f \in Files |-> disk[f].names]
        /\ disk \in [Files -> Contents] /\ handlers \in [Actions -> Files \cup {NoFile}]
    BY DEF ReloadInit
  <2>2. \A t \in Reloaders : job[t] = NoJob
    BY <2>1
  <2>3. ReloadTypes
    <3>1. <<>> \in Seq(Files)
      BY EmptySeq
    <3>2. loaded \in [Files -> SUBSET Actions]
      BY <2>1 DEF Contents
    <3>3. \A t \in Reloaders : SoundJob(t, job[t])
      BY <2>2, NoJobIsOne DEF SoundJob
    <3>4. job \in [Reloaders -> Job]
      BY <2>1, NoJobIsOne
    <3>5. \A t \in Reloaders : /\ job[t].step \in Steps \cup {"none", "clear"}
                               /\ job[t].todo \in Seq(Files) /\ job[t].names \subseteq Actions
      BY <2>2, <3>1, NoJobIsOne
    <3>6. edits \in 0..MaxEdits
      BY <2>1, ReloadAssumption
    <3>7. ReloadTypeOK
      BY <2>1, <3>1, <3>2, <3>5, <3>6 DEF ReloadTypeOK
    <3>. QED BY <3>3, <3>4, <3>7 DEF ReloadTypes
  <2>4. WritesNoted
    BY <2>1 DEF WritesNoted
  <2>5. Alone /\ ListedOrGoing /\ ServedOrGoing
    <3>1. \A a \in Actions : handlers[a] # NoFile => handlers[a] \in Files
              /\ a \in disk[handlers[a]].names
      BY DEF ReloadInit
    <3>. QED BY <2>1, <2>2, <3>1, NoJobIsOne DEF Alone, Active, ListedOrGoing, ServedOrGoing
  <2>. QED BY <2>3, <2>4, <2>5 DEF ReloadInv
<1>2. ReloadInv /\ [ReloadNext]_reVars => ReloadInv'
  <2>1. ASSUME ReloadInv, ReloadNext PROVE ReloadInv'
    BY <2>1, DiskSteps, ReloadWaitingStep, ReloadScriptStep, LoadAllStep, LoadStep, StrikeOffStep,
       RemoveHandlersStep, ClearRegistryStep, ListActionStep, InsertHandlerStep, EndInitStep
       DEF ReloadNext
  <2>2. ASSUME ReloadInv, UNCHANGED reVars PROVE ReloadInv'
    BY <2>2 DEF reVars, ReloadInv, ReloadTypes, ReloadTypeOK, SoundJob, WritesNoted, ToLoad,
         Alone,
       Active, ListedOrGoing, ServedOrGoing, ToRemove, ToUnlist, ToClear, File
  <2>. QED BY <2>1, <2>2
<1>3. ReloadInv => ReloadTypeOK /\ ReloadsHold
  <2>. SUFFICES ASSUME ReloadInv PROVE ReloadTypeOK /\ ReloadsHold
    OBVIOUS
  <2>1. Resting => \A t \in Reloaders : job[t].step = "none"
    BY NoJobIsOne DEF Resting
  <2>2. NoStaleHandler
    BY <2>1 DEF ReloadInv, NoStaleHandler, ServedOrGoing, ToRemove, ToUnlist, ToClear, Reloaders
  <2>3. HandlersListed
    BY <2>1 DEF ReloadInv, HandlersListed, ListedOrGoing, ToRemove
  <2>4. NoWriteMissed
    <3>. SUFFICES ASSUME changed = {}, waiting = <<>>, job[Watcher] = NoJob
                  PROVE  \A f \in Files : disk[f].compiles => loaded[f] = disk[f].names
      BY DEF NoWriteMissed
    <3>1. ToSet(waiting) = {}
      BY DEF ToSet
    <3>2. ToLoad(Watcher) = {}
      BY NoJobIsOne DEF ToLoad
    <3>. QED BY <3>1, <3>2 DEF ReloadInv, WritesNoted
  <2>. QED BY <2>2, <2>3, <2>4 DEF ReloadInv, ReloadTypes, ReloadsHold
<1>. QED BY <1>1, <1>2, <1>3, PTL DEF ReloadSpec

-----------------------------------------------------------------------------
(***************************************************************************)
(* The store of script state.  The disk follows the cache but for the keys *)
(* whose call was cut short; the copies of a checkpoint are those of the   *)
(* values it was taken of, or a call is under way that makes or removes them. *)
(***************************************************************************)

\* What the files of a checkpoint and of the store hold in the middle of a call.
CallInv ==
    /\ call.op \in {"checkpoint", "wipe", "rewrite"} =>
         call.of \in Checkpoints /\ copies[call.of] # NoCheckpoint
    /\ call.op = "remove" => \A k \in call.keys : cache[k] = NoValue
    /\ call.op = "checkpoint" =>
         /\ snapshot[call.of] = NoCheckpoint
         /\ \A k \in Keys \ call.keys : cache[k] # NoValue => copies[call.of][k] = cache[k]
    /\ call.op \in {"wipe", "rewrite"} => \A k \in Keys : copies[call.of][k] # Torn
    /\ call.op = "wipe" => \A k \in Keys \ call.keys : file[k] = NoValue
    /\ call.op = "rewrite" => \A k \in Keys \ call.keys : file[k] = copies[call.of][k]

\* A checkpoint that was taken to its end holds what it was taken of.
CopiesInv ==
    \A n \in Checkpoints : snapshot[n] # NoCheckpoint =>
        /\ copies[n] # NoCheckpoint
        /\ \A k \in Keys : snapshot[n][k] # NoValue => copies[n][k] = snapshot[n][k]

\* The inductive invariant.
StoreInv == StoreTypeOK /\ DiskFollowsCache /\ CallInv /\ CopiesInv

\* What a call may be doing.
Ops == {"none", "save", "remove", "checkpoint", "wipe", "rewrite"}

\* A call goes on with fewer keys.
LEMMA CallGoesOn ==
    ASSUME StoreTypeOK, NEW k \in call.keys, call' = Treated(k)
    PROVE  /\ call' \in [op : Ops, keys : SUBSET Keys, of : Checkpoints \cup {NoCheckpoint}]
           /\ \/ call'.op = call.op /\ call'.keys = call.keys \ {k} /\ call'.of = call.of
              \/ /\ call.op \in {"save", "remove"} /\ call.keys = {k}
                 /\ call'.op = "none" /\ call'.keys = {}
           /\ Busy' = IF call.op \in {"save", "remove"} THEN Busy \ {k} ELSE Busy
<1>1. call \in [op : Ops, keys : SUBSET Keys, of : Checkpoints \cup {NoCheckpoint}]
  BY DEF StoreTypeOK, Ops
<1>2. CASE call.keys = {k} /\ call.op \in {"save", "remove"}
  <2>1. call' = Idle
    BY <1>2 DEF Treated
  <2>2. call'.op = "none" /\ call'.keys = {} /\ Busy' = {} /\ Busy = call.keys
    BY <1>2, <2>1 DEF Idle, Busy
  <2>. QED BY <1>2, <2>1, <2>2 DEF Idle, Ops
<1>3. CASE ~(call.keys = {k} /\ call.op \in {"save", "remove"})
  <2>1. call' = [call EXCEPT !.keys = call.keys \ {k}]
    BY <1>3 DEF Treated
  <2>2. call'.op = call.op /\ call'.keys = call.keys \ {k} /\ call'.of = call.of
    BY <1>1, <2>1
  <2>3. call' \in [op : Ops, keys : SUBSET Keys, of : Checkpoints \cup {NoCheckpoint}]
    BY <1>1, <2>1
  <2>. QED BY <2>2, <2>3 DEF Busy
<1>. QED BY <1>2, <1>3

\* A call begins.
LEMMA CallBegins ==
    ASSUME NEW op \in Ops, NEW keys \in SUBSET Keys, NEW of \in Checkpoints \cup {NoCheckpoint},
           call' = Call(op, keys, of)
    PROVE  /\ call' \in [op : Ops, keys : SUBSET Keys, of : Checkpoints \cup {NoCheckpoint}]
           /\ call'.op = op /\ call'.keys = keys /\ call'.of = of
           /\ Busy' = CASE op \in {"save", "remove"} -> keys
                        [] op \in {"wipe", "rewrite"} -> Keys
                        [] OTHER -> {}
BY DEF Call, Busy

\* A call is over.
LEMMA CallOver ==
    ASSUME call' = Idle
    PROVE  /\ call' \in [op : Ops, keys : SUBSET Keys, of : Checkpoints \cup {NoCheckpoint}]
           /\ call'.op = "none" /\ Busy' = {}
BY DEF Idle, Busy, Ops

\* The types of the store.
LEMMA StoreTypesKept == StoreInv /\ [StoreNext]_storeVars => StoreTypeOK'
<1>. SUFFICES ASSUME StoreInv, [StoreNext]_storeVars PROVE StoreTypeOK'
  OBVIOUS
<1>. USE StoreAssumption DEF Ops
<1>0. StoreTypeOK /\ CallInv
  BY DEF StoreInv
<1>00. NoEntries \in [Keys -> Values \cup {NoValue}]
  BY DEF NoEntries
<1>1. ASSUME NEW k \in Keys, NEW v \in Values, SaveEntry(k, v) PROVE StoreTypeOK'
  <2>1. {k} \in SUBSET Keys /\ call' = Call("save", {k}, NoCheckpoint)
    BY <1>1 DEF SaveEntry
  <2>2. call' \in [op : Ops, keys : SUBSET Keys, of : Checkpoints \cup {NoCheckpoint}]
    BY <2>1, CallBegins
  <2>. QED BY <1>0, <1>1, <2>2 DEF SaveEntry, StoreTypeOK
<1>2. ASSUME NEW k \in Keys, WriteFile(k) PROVE StoreTypeOK'
  BY <1>0, <1>2, CallGoesOn DEF WriteFile, StoreTypeOK
<1>3. ASSUME NEW keys \in SUBSET Keys, DeleteEntries(keys) PROVE StoreTypeOK'
  BY <1>0, <1>3, CallBegins DEF DeleteEntries, StoreTypeOK
<1>4. ASSUME NEW k \in Keys, RemoveFile(k) PROVE StoreTypeOK'
  BY <1>0, <1>4, CallGoesOn DEF RemoveFile, StoreTypeOK
<1>5. ASSUME NEW n \in Checkpoints, Checkpoint(n) PROVE StoreTypeOK'
  <2>1. {k \in Keys : cache[k] # NoValue} \in SUBSET Keys
    OBVIOUS
  <2>2. call' \in [op : Ops, keys : SUBSET Keys, of : Checkpoints \cup {NoCheckpoint}]
    BY <1>5, <2>1, CallBegins DEF Checkpoint
  <2>3. copies' \in [Checkpoints -> [Keys -> Values \cup {NoValue, Torn}] \cup {NoCheckpoint}]
    <3>1. NoEntries \in [Keys -> Values \cup {NoValue, Torn}]
      BY DEF NoEntries
    <3>. QED BY <1>0, <1>5, <3>1 DEF Checkpoint, StoreTypeOK
  <2>4. snapshot' \in [Checkpoints -> [Keys -> Values \cup {NoValue}] \cup {NoCheckpoint}]
    BY <1>0, <1>5 DEF Checkpoint, StoreTypeOK
  <2>. QED BY <1>0, <1>5, <2>2, <2>3, <2>4 DEF Checkpoint, StoreTypeOK
<1>6. ASSUME NEW k \in Keys, CopyEntry(k) PROVE StoreTypeOK'
  <2>1. call.of \in Checkpoints /\ copies[call.of] \in [Keys -> Values \cup {NoValue, Torn}]
    BY <1>0, <1>6 DEF CopyEntry, CallInv, StoreTypeOK
  <2>2. [copies[call.of] EXCEPT ![k] = cache[k]] \in [Keys -> Values \cup {NoValue, Torn}]
    BY <1>0, <2>1 DEF StoreTypeOK
  <2>3. copies' = [copies EXCEPT ![call.of] = [copies[call.of] EXCEPT ![k] = cache[k]]]
    BY <1>6, Zenon DEF CopyEntry
  <2>4. copies' \in [Checkpoints -> [Keys -> Values \cup {NoValue, Torn}] \cup {NoCheckpoint}]
    BY <1>0, <2>2, <2>3 DEF StoreTypeOK
  <2>. QED BY <1>0, <1>6, <2>4, CallGoesOn DEF CopyEntry, StoreTypeOK
<1>7. ASSUME CheckpointDone PROVE StoreTypeOK'
  BY <1>0, <1>7, CallOver DEF CheckpointDone, StoreTypeOK
<1>8. ASSUME NEW n \in Checkpoints, Restore(n) PROVE StoreTypeOK'
  <2>1. {k \in Keys : file[k] # NoValue} \in SUBSET Keys
    OBVIOUS
  <2>. QED BY <1>0, <1>8, <2>1, CallBegins DEF Restore, StoreTypeOK
<1>9. ASSUME RewriteFrom PROVE StoreTypeOK'
  <2>1. {k \in Keys : copies[call.of][k] # NoValue} \in SUBSET Keys /\ call.of \in Checkpoints
    BY <1>0, <1>9 DEF RewriteFrom, CallInv
  <2>. QED BY <1>0, <1>9, <2>1, CallBegins DEF RewriteFrom, StoreTypeOK
<1>10. ASSUME NEW k \in Keys, RewriteFile(k) PROVE StoreTypeOK'
  <2>1. copies[call.of] \in [Keys -> Values \cup {NoValue, Torn}]
    BY <1>0, <1>10 DEF RewriteFile, CallInv, StoreTypeOK
  <2>. QED BY <1>0, <1>10, <2>1, CallGoesOn DEF RewriteFile, StoreTypeOK
<1>11. ASSUME NEW n \in Checkpoints, RestoreDone(n) PROVE StoreTypeOK'
  <2>1. copies[n] \in [Keys -> Values \cup {NoValue, Torn}] /\ \A k \in Keys : copies[n][k] # Torn
    BY <1>0, <1>11 DEF RestoreDone, CallInv, StoreTypeOK
  <2>2. copies[n] \in [Keys -> Values \cup {NoValue}]
    BY <2>1
  <2>. QED BY <1>0, <1>11, <2>2, CallOver DEF RestoreDone, StoreTypeOK
<1>12. ASSUME NEW n \in Checkpoints, DeleteCheckpoint(n) PROVE StoreTypeOK'
  BY <1>0, <1>12 DEF DeleteCheckpoint, StoreTypeOK
<1>13. ASSUME NEW o \in Outcomes
       PROVE  /\ o[1] \in [Keys -> Values \cup {NoValue, Torn}]
              /\ o[2] \in [Checkpoints ->
                    [Keys -> Values \cup {NoValue, Torn}] \cup {NoCheckpoint}]
  <2>1. CASE o = <<file, copies>>
    BY <1>0, <2>1 DEF StoreTypeOK
  <2>2. ASSUME NEW k \in call.keys, o = <<[file EXCEPT ![k] = Torn], copies>>
        PROVE  o[1] \in [Keys -> Values \cup {NoValue, Torn}] /\ o[2] = copies
    BY <1>0, <2>2 DEF StoreTypeOK
  <2>3. ASSUME call.op = "checkpoint", NEW k \in call.keys,
               o = <<file, [copies EXCEPT ![call.of][k] = Torn]>>
        PROVE  /\ o[1] = file
               /\ o[2] \in [Checkpoints ->
                     [Keys -> Values \cup {NoValue, Torn}] \cup {NoCheckpoint}]
    <3>1. call.of \in Checkpoints /\ copies[call.of] \in [Keys -> Values \cup {NoValue, Torn}]
          /\ k \in Keys
      BY <1>0, <2>3 DEF CallInv, StoreTypeOK
    <3>2. [copies[call.of] EXCEPT ![k] = Torn] \in [Keys -> Values \cup {NoValue, Torn}]
      BY <3>1
    <3>3. o[1] = file /\ o[2] = [copies EXCEPT ![call.of] = [copies[call.of] EXCEPT ![k] = Torn]]
      BY <2>3, Zenon
    <3>4. PICK W \in [Keys -> Values \cup {NoValue, Torn}] :
            W = [copies[call.of] EXCEPT ![k] = Torn]
      BY <3>2
    <3>5. o[1] = file /\ o[2] = [copies EXCEPT ![call.of] = W]
      BY <3>3, <3>4, Zenon
    <3>6. [copies EXCEPT ![call.of] = W]
            \in [Checkpoints -> [Keys -> Values \cup {NoValue, Torn}] \cup {NoCheckpoint}]
      BY <1>0, <3>4 DEF StoreTypeOK
    <3>. QED BY <3>5, <3>6, Zenon
  <2>. QED BY <1>0, <2>1, <2>2, <2>3 DEF Outcomes, StoreTypeOK
<1>14. ASSUME DiskFails PROVE StoreTypeOK'
  <2>1. PICK o \in Outcomes : file' = o[1] /\ copies' = o[2]
    BY <1>14 DEF DiskFails
  <2>2. Busy \subseteq Keys
    BY <1>0 DEF Busy, StoreTypeOK
  <2>. QED BY <1>0, <1>13, <1>14, <2>1, <2>2, CallOver DEF DiskFails, StoreTypeOK
<1>15. ASSUME StoreRestart PROVE StoreTypeOK'
  <2>1. PICK o \in Outcomes : file' = o[1] /\ copies' = o[2]
    BY <1>15 DEF StoreRestart
  <2>2. cache' \in [Keys -> Values \cup {NoValue}]
    BY <1>13, <1>15, <2>1 DEF StoreRestart, Loaded
  <2>. QED BY <1>0, <1>13, <1>15, <2>1, <2>2, CallOver DEF StoreRestart, StoreTypeOK
<1>16. CASE UNCHANGED storeVars
  BY <1>0, <1>16 DEF storeVars, StoreTypeOK
<1>17. \A k \in Keys : {k} \in SUBSET Keys
  OBVIOUS
<1>18. \A s \in Spaces : {s} \X Names \in SUBSET Keys
  BY DEF Keys
<1>. QED BY <1>1, <1>2, <1>3, <1>4, <1>5, <1>6, <1>7, <1>8, <1>9, <1>10, <1>11, <1>12,
            <1>14, <1>15, <1>16, <1>17, <1>18 DEF StoreNext

\* The disk follows the cache, and the files of the call under way are accounted for.
LEMMA StoreInductive == StoreInv /\ [StoreNext]_storeVars => StoreInv'
<1>. SUFFICES ASSUME StoreInv, [StoreNext]_storeVars PROVE StoreInv'
  OBVIOUS
<1>. USE StoreAssumption DEF Ops
<1>0. StoreTypeOK /\ DiskFollowsCache /\ CallInv /\ CopiesInv /\ StoreTypeOK'
  BY StoreTypesKept DEF StoreInv
<1>. SUFFICES DiskFollowsCache' /\ CallInv' /\ CopiesInv'
  BY <1>0 DEF StoreInv
<1>t. /\ cache \in [Keys -> Values \cup {NoValue}]
      /\ file \in [Keys -> Values \cup {NoValue, Torn}]
      /\ call.keys \subseteq Keys /\ call.of \in Checkpoints \cup {NoCheckpoint}
  BY <1>0 DEF StoreTypeOK
<1>i. ASSUME call = Idle PROVE Busy = {} /\ call.op = "none"
  BY <1>i DEF Idle, Busy
<1>1. ASSUME NEW k \in Keys, NEW v \in Values, SaveEntry(k, v)
      PROVE  DiskFollowsCache' /\ CallInv' /\ CopiesInv'
  <2>1. {k} \in SUBSET Keys /\ call' = Call("save", {k}, NoCheckpoint) /\ call = Idle
        /\ UNCHANGED <<file, copies, suspect, snapshot>> /\ cache' = [cache EXCEPT ![k] = v]
    BY <1>1 DEF SaveEntry
  <2>2. call'.op = "save" /\ Busy' = {k}
    BY <2>1, CallBegins
  <2>3. DiskFollowsCache'
    BY <1>0, <1>t, <1>i, <2>1, <2>2 DEF DiskFollowsCache
  <2>. QED BY <1>0, <2>1, <2>2, <2>3 DEF CallInv, CopiesInv
<1>2. ASSUME NEW k \in Keys, WriteFile(k) PROVE DiskFollowsCache' /\ CallInv' /\ CopiesInv'
  <2>1. /\ k \in call.keys /\ call' = Treated(k) /\ call.op = "save"
        /\ UNCHANGED <<cache, copies, snapshot>> /\ file' = [file EXCEPT ![k] = cache[k]]
        /\ suspect' = suspect \ {k}
    BY <1>2 DEF WriteFile
  <2>2. call'.op \in {"save", "none"} /\ Busy' = Busy \ {k}
    BY <1>0, <2>1, CallGoesOn
  <2>3. DiskFollowsCache'
    BY <1>0, <1>t, <2>1, <2>2 DEF DiskFollowsCache, Loaded
  <2>. QED BY <1>0, <2>1, <2>2, <2>3 DEF CallInv, CopiesInv
<1>3. ASSUME NEW keys \in SUBSET Keys, DeleteEntries(keys)
      PROVE  DiskFollowsCache' /\ CallInv' /\ CopiesInv'
  <2>1. /\ call' = Call("remove", keys, NoCheckpoint) /\ call = Idle
        /\ UNCHANGED <<file, copies, suspect, snapshot>>
        /\ cache' = [k \in Keys |-> IF k \in keys THEN NoValue ELSE cache[k]]
    BY <1>3 DEF DeleteEntries
  <2>2. call'.op = "remove" /\ call'.keys = keys /\ Busy' = keys
    BY <2>1, CallBegins
  <2>3. DiskFollowsCache'
    BY <1>0, <1>t, <1>i, <2>1, <2>2 DEF DiskFollowsCache
  <2>. QED BY <1>0, <2>1, <2>2, <2>3 DEF CallInv, CopiesInv
<1>4. ASSUME NEW k \in Keys, RemoveFile(k) PROVE DiskFollowsCache' /\ CallInv' /\ CopiesInv'
  <2>1. /\ k \in call.keys /\ call' = Treated(k) /\ call.op \in {"remove", "wipe"}
        /\ UNCHANGED <<cache, copies, snapshot>> /\ file' = [file EXCEPT ![k] = NoValue]
        /\ suspect' = IF call.op = "remove" THEN suspect \ {k} ELSE suspect
    BY <1>4 DEF RemoveFile
  <2>2. CASE call.op = "remove"
    <3>1. call'.op \in {"remove", "none"} /\ call'.keys \subseteq call.keys /\ Busy' = Busy \ {k}
      BY <1>0, <2>1, <2>2, CallGoesOn
    <3>2. cache[k] = NoValue
      BY <1>0, <2>1, <2>2 DEF CallInv
    <3>3. DiskFollowsCache'
      BY <1>0, <1>t, <2>1, <2>2, <3>1, <3>2 DEF DiskFollowsCache, Loaded
    <3>. QED BY <1>0, <2>1, <2>2, <3>1, <3>3 DEF CallInv, CopiesInv
  <2>3. CASE call.op = "wipe"
    <3>1. call'.op = "wipe" /\ call'.keys = call.keys \ {k} /\ call'.of = call.of /\ Busy' = Busy
      BY <1>0, <2>1, <2>3, CallGoesOn
    <3>2. Busy = Keys
      BY <2>3 DEF Busy
    <3>3. DiskFollowsCache'
      BY <3>1, <3>2 DEF DiskFollowsCache
    <3>4. CallInv'
      BY <1>0, <1>t, <2>1, <2>3, <3>1 DEF CallInv
    <3>. QED BY <1>0, <2>1, <3>3, <3>4 DEF CopiesInv
  <2>. QED BY <2>1, <2>2, <2>3
<1>5. ASSUME NEW n \in Checkpoints, Checkpoint(n)
      PROVE  DiskFollowsCache' /\ CallInv' /\ CopiesInv'
  <2>. DEFINE keys == {k \in Keys : cache[k] # NoValue}
  <2>1. /\ call' = Call("checkpoint", keys, n) /\ call = Idle
        /\ UNCHANGED <<cache, file, suspect>>
        /\ copies' = [copies EXCEPT ![n] = IF copies[n] = NoCheckpoint
              THEN NoEntries ELSE copies[n]]
        /\ snapshot' = [snapshot EXCEPT ![n] = NoCheckpoint]
    BY <1>5 DEF Checkpoint
  <2>2. call'.op = "checkpoint" /\ call'.keys = keys /\ call'.of = n /\ Busy' = {}
    BY <2>1, CallBegins
  <2>3. NoEntries # NoCheckpoint
    BY DEF NoEntries, Keys
  <2>4. DiskFollowsCache'
    BY <1>0, <1>i, <2>1, <2>2 DEF DiskFollowsCache
  <2>5. copies'[n] # NoCheckpoint /\ snapshot'[n] = NoCheckpoint
    BY <1>0, <2>1, <2>3 DEF StoreTypeOK
  <2>6. \A m \in Checkpoints : m # n => copies'[m] = copies[m] /\ snapshot'[m] = snapshot[m]
    BY <1>0, <2>1 DEF StoreTypeOK
  <2>7. CopiesInv'
    BY <1>0, <2>5, <2>6 DEF CopiesInv
  <2>. QED BY <2>1, <2>2, <2>4, <2>5, <2>7 DEF CallInv
<1>6. ASSUME NEW k \in Keys, CopyEntry(k) PROVE DiskFollowsCache' /\ CallInv' /\ CopiesInv'
  <2>1. /\ k \in call.keys /\ call' = Treated(k) /\ call.op = "checkpoint"
        /\ UNCHANGED <<cache, file, suspect, snapshot>>
        /\ copies' = [copies EXCEPT ![call.of] = [copies[call.of] EXCEPT ![k] = cache[k]]]
    <3>1. copies' = [copies EXCEPT ![call.of] = [copies[call.of] EXCEPT ![k] = cache[k]]]
      BY <1>6, Zenon DEF CopyEntry
    <3>. QED BY <1>6, <3>1 DEF CopyEntry
  <2>2. /\ call'.op = "checkpoint" /\ call'.keys = call.keys \ {k} /\ call'.of = call.of
        /\ Busy' = Busy
    BY <1>0, <2>1, CallGoesOn
  <2>3. call.of \in Checkpoints /\ copies[call.of] \in [Keys -> Values \cup {NoValue, Torn}]
        /\ snapshot[call.of] = NoCheckpoint
    BY <1>0, <2>1 DEF CallInv, StoreTypeOK
  <2>4. /\ copies'[call.of] = [copies[call.of] EXCEPT ![k] = cache[k]]
        /\ \A m \in Checkpoints : m # call.of => copies'[m] = copies[m]
    BY <1>0, <2>1, <2>3 DEF StoreTypeOK
  <2>5. copies'[call.of] # NoCheckpoint
    <3>1. copies'[call.of] \in [Keys -> Values \cup {NoValue, Torn}]
      BY <1>t, <2>3, <2>4
    <3>. QED BY <3>1 DEF Keys
  <2>6. DiskFollowsCache'
    BY <1>0, <2>1, <2>2 DEF DiskFollowsCache
  <2>7. \A j \in Keys \ call'.keys : cache[j] # NoValue => copies'[call.of][j] = cache[j]
    BY <1>0, <2>1, <2>2, <2>3, <2>4 DEF CallInv
  <2>8. CopiesInv'
    BY <1>0, <2>1, <2>3, <2>4 DEF CopiesInv
  <2>. QED BY <2>1, <2>2, <2>3, <2>5, <2>6, <2>7, <2>8 DEF CallInv
<1>7. ASSUME CheckpointDone PROVE DiskFollowsCache' /\ CallInv' /\ CopiesInv'
  <2>1. /\ call.op = "checkpoint" /\ call.keys = {} /\ call' = Idle
        /\ snapshot' = [snapshot EXCEPT ![call.of] = cache]
        /\ UNCHANGED <<cache, file, copies, suspect>>
    BY <1>7 DEF CheckpointDone
  <2>2. call'.op = "none" /\ Busy' = {} /\ Busy = {}
    BY <2>1, CallOver DEF Busy
  <2>3. call.of \in Checkpoints /\ copies[call.of] # NoCheckpoint
        /\ \A k \in Keys : cache[k] # NoValue => copies[call.of][k] = cache[k]
    BY <1>0, <2>1 DEF CallInv
  <2>4. CopiesInv'
    <3>1. snapshot'[call.of] = cache
          /\ \A m \in Checkpoints : m # call.of => snapshot'[m] = snapshot[m]
      BY <1>0, <2>1, <2>3 DEF StoreTypeOK
    <3>. QED BY <1>0, <2>1, <2>3, <3>1 DEF CopiesInv
  <2>5. DiskFollowsCache'
    BY <1>0, <2>1, <2>2 DEF DiskFollowsCache
  <2>6. CallInv'
    BY <2>2 DEF CallInv
  <2>. QED BY <2>4, <2>5, <2>6
<1>8. ASSUME NEW n \in Checkpoints, Restore(n) PROVE DiskFollowsCache' /\ CallInv' /\ CopiesInv'
  <2>. DEFINE keys == {k \in Keys : file[k] # NoValue}
  <2>1. /\ call' = Call("wipe", keys, n) /\ call = Idle /\ copies[n] # NoCheckpoint
        /\ (\A k \in Keys : copies[n][k] # Torn)
        /\ UNCHANGED <<cache, file, copies, suspect, snapshot>>
    BY <1>8 DEF Restore
  <2>2. call'.op = "wipe" /\ call'.keys = keys /\ call'.of = n /\ Busy' = Keys
    BY <2>1, CallBegins
  <2>3. \A k \in Keys \ call'.keys : file'[k] = NoValue
    BY <2>1, <2>2
  <2>4. CallInv'
    BY <2>1, <2>2, <2>3 DEF CallInv
  <2>. QED BY <1>0, <2>1, <2>2, <2>4 DEF DiskFollowsCache, CopiesInv
<1>9. ASSUME RewriteFrom PROVE DiskFollowsCache' /\ CallInv' /\ CopiesInv'
  <2>. DEFINE keys == {k \in Keys : copies[call.of][k] # NoValue}
  <2>1. /\ call' = Call("rewrite", keys, call.of) /\ call.op = "wipe" /\ call.keys = {}
        /\ UNCHANGED <<cache, file, copies, suspect, snapshot>>
    BY <1>9 DEF RewriteFrom
  <2>2. call'.op = "rewrite" /\ call'.keys = keys /\ call'.of = call.of /\ Busy' = Keys
    BY <1>t, <2>1, CallBegins
  <2>3. CallInv'
    BY <1>0, <2>1, <2>2 DEF CallInv
  <2>. QED BY <1>0, <2>1, <2>2, <2>3 DEF DiskFollowsCache, CopiesInv
<1>10. ASSUME NEW k \in Keys, RewriteFile(k) PROVE DiskFollowsCache' /\ CallInv' /\ CopiesInv'
  <2>1. /\ k \in call.keys /\ call' = Treated(k) /\ call.op = "rewrite"
        /\ UNCHANGED <<cache, copies, suspect, snapshot>>
        /\ file' = [file EXCEPT ![k] = copies[call.of][k]]
    BY <1>10 DEF RewriteFile
  <2>2. call'.op = "rewrite" /\ call'.keys = call.keys \ {k} /\ call'.of = call.of /\ Busy' = Keys
    <3>1. Busy = Keys
      BY <2>1 DEF Busy
    <3>. QED BY <1>0, <2>1, <3>1, CallGoesOn
  <2>3. CallInv'
    BY <1>0, <1>t, <2>1, <2>2 DEF CallInv
  <2>. QED BY <1>0, <2>1, <2>2, <2>3 DEF DiskFollowsCache, CopiesInv
<1>11. ASSUME NEW n \in Checkpoints, RestoreDone(n)
      PROVE  DiskFollowsCache' /\ CallInv' /\ CopiesInv'
  <2>1. /\ call.op = "rewrite" /\ call.keys = {} /\ call.of = n /\ cache' = copies[n]
        /\ call' = Idle
        /\ UNCHANGED <<file, copies, snapshot>>
    BY <1>11 DEF RestoreDone
  <2>2. call'.op = "none"
    BY <2>1, CallOver
  <2>3. \A k \in Keys : file[k] = copies[n][k] /\ copies[n][k] # Torn
    BY <1>0, <2>1 DEF CallInv
  <2>. QED BY <1>0, <2>1, <2>2, <2>3 DEF DiskFollowsCache, Loaded, CallInv, CopiesInv
<1>12. ASSUME NEW n \in Checkpoints, DeleteCheckpoint(n)
       PROVE  DiskFollowsCache' /\ CallInv' /\ CopiesInv'
  <2>1. /\ call = Idle /\ snapshot' = [snapshot EXCEPT ![n] = NoCheckpoint]
        /\ copies' = [copies EXCEPT ![n] = NoCheckpoint]
        /\ UNCHANGED <<cache, file, call, suspect>>
    BY <1>12 DEF DeleteCheckpoint
  <2>2. CopiesInv'
    BY <1>0, <2>1 DEF CopiesInv, StoreTypeOK
  <2>. QED BY <1>0, <1>i, <2>1, <2>2 DEF DiskFollowsCache, Busy, CallInv
<1>13. ASSUME NEW o \in Outcomes
       PROVE  /\ \A k \in Keys \ Busy : o[1][k] = file[k]
              /\ \A n \in Checkpoints : snapshot[n] # NoCheckpoint => o[2][n] = copies[n]
  <2>1. CASE o = <<file, copies>>
    BY <2>1
  <2>2. ASSUME call.op \in {"save", "rewrite"}, NEW k \in call.keys,
               o = <<[file EXCEPT ![k] = Torn], copies>>
        PROVE  (\A j \in Keys \ Busy : o[1][j] = file[j]) /\ o[2] = copies
    <3>1. k \in Busy
      BY <1>t, <2>2 DEF Busy
    <3>. QED BY <1>t, <2>2, <3>1
  <2>3. ASSUME call.op = "checkpoint", NEW k \in call.keys,
               o = <<file, [copies EXCEPT ![call.of][k] = Torn]>>
        PROVE  /\ o[1] = file
               /\ \A n \in Checkpoints : snapshot[n] # NoCheckpoint => o[2][n] = copies[n]
    <3>1. snapshot[call.of] = NoCheckpoint
      BY <1>0, <2>3 DEF CallInv
    <3>2. \A n \in Checkpoints : n # call.of => o[2][n] = copies[n]
      BY <1>0, <2>3 DEF StoreTypeOK
    <3>. QED BY <2>3, <3>1, <3>2
  <2>. QED BY <2>1, <2>2, <2>3 DEF Outcomes
<1>14. ASSUME DiskFails PROVE DiskFollowsCache' /\ CallInv' /\ CopiesInv'
  <2>1. PICK o \in Outcomes : file' = o[1] /\ copies' = o[2]
    BY <1>14 DEF DiskFails
  <2>2. call' = Idle /\ suspect' = suspect \cup Busy /\ UNCHANGED <<cache, snapshot>>
    BY <1>14 DEF DiskFails
  <2>3. call'.op = "none" /\ Busy' = {}
    BY <2>2, CallOver
  <2>. QED BY <1>0, <1>13, <2>1, <2>2, <2>3 DEF DiskFollowsCache, CallInv, CopiesInv
<1>15. ASSUME StoreRestart PROVE DiskFollowsCache' /\ CallInv' /\ CopiesInv'
  <2>1. PICK o \in Outcomes : file' = o[1] /\ copies' = o[2]
    BY <1>15 DEF StoreRestart
  <2>2. call' = Idle /\ cache' = [k \in Keys |-> Loaded(file'[k])] /\ UNCHANGED snapshot
    BY <1>15 DEF StoreRestart
  <2>3. call'.op = "none"
    BY <2>2, CallOver
  <2>. QED BY <1>0, <1>13, <2>1, <2>2, <2>3 DEF DiskFollowsCache, Loaded, CallInv, CopiesInv
<1>16. CASE UNCHANGED storeVars
  BY <1>0, <1>16 DEF storeVars, DiskFollowsCache, Busy, CallInv, CopiesInv
<1>17. \A k \in Keys : {k} \in SUBSET Keys
  OBVIOUS
<1>18. \A s \in Spaces : {s} \X Names \in SUBSET Keys
  BY DEF Keys
<1>. QED BY <1>1, <1>2, <1>3, <1>4, <1>5, <1>6, <1>7, <1>8, <1>9, <1>10, <1>11, <1>12,
            <1>14, <1>15, <1>16, <1>17, <1>18 DEF StoreNext

\* Saves, deletions, checkpoints and restores are cut short anywhere, and a disk
\* operation may fail: the disk follows the cache, and a restore brings back what the
\* checkpoint was taken of (StoreKeeps).
THEOREM StoresKeep == StoreSpec => []StoreTypeOK /\ StoreKeeps
<1>1. StoreInit => StoreInv
  <2>. SUFFICES ASSUME StoreInit PROVE StoreInv
    OBVIOUS
  <2>1. NoEntries \in [Keys -> Values \cup {NoValue}]
    BY DEF NoEntries
  <2>2. StoreTypeOK
    BY <2>1 DEF StoreInit, StoreTypeOK, Idle
  <2>3. call.op = "none" /\ \A n \in Checkpoints : snapshot[n] = NoCheckpoint
    BY DEF StoreInit, Idle
  <2>4. DiskFollowsCache
    BY StoreAssumption DEF StoreInit, NoEntries, DiskFollowsCache, Loaded
  <2>. QED BY <2>2, <2>3, <2>4 DEF StoreInv, CallInv, CopiesInv
<1>2. StoreInv /\ [StoreNext]_storeVars => StoreInv'
  BY StoreInductive
<1>3. StoreInv => StoreTypeOK /\ DiskFollowsCache
  BY DEF StoreInv
<1>4. StoreInv' => DiskFollowsCache'
  BY DEF StoreInv
<1>5. StoreInv => \A n \in Checkpoints : RestoreDone(n) /\ snapshot[n] # NoCheckpoint =>
            \A k \in Keys : snapshot[n][k] # NoValue => cache'[k] = snapshot[n][k]
  BY DEF StoreInv, CopiesInv, RestoreDone
<1>. QED BY <1>1, <1>2, <1>3, <1>4, <1>5, PTL DEF StoreSpec, StoreKeeps, RestoreBringsBack

-----------------------------------------------------------------------------
(***************************************************************************)
(* Archetypes.  Whoever loads holds the lock of a shelf while it fills it, *)
(* and what it has put there is part of the one edition it has read.       *)
(***************************************************************************)

\* What a thread that loads is about.
Errand == [step: {"idle", "look", "read", "ready", "fill", "clear"},
           rest: Seq(Shelves), text: 0..MaxTexts, left: SUBSET Archetypes]

\* What a thread that loads knows of the text it has read, and what it has put on the
\* shelf whose lock it holds.
ErrandOK(l) ==
    /\ task[l].step # "idle" => task[l].rest # <<>>
    /\ task[l].step \in {"read", "ready", "fill"} =>
         task[l].text \in DOMAIN editions[Kind(l)]
    /\ task[l].step \in {"ready", "fill"} => editions[Kind(l)][task[l].text].sort = "good"
    /\ task[l].step = "fill" =>
         LET holds == editions[Kind(l)][task[l].text].holds
         IN  /\ writing[Kind(l)] = l /\ task[l].left \subseteq holds
             /\ shelf[Kind(l)] = Of(holds \ task[l].left, task[l].text)

\* The inductive invariant.
DataInv ==
    /\ DataTypeOK /\ ShelvesWhole
    /\ \A k \in Shelves : Len(editions[k]) <= MaxTexts
    /\ \A l \in Stockers : ErrandOK(l)

\* One thread goes on, and the others stay where they are.
LEMMA ErrandGoes ==
    ASSUME task \in [Stockers -> Errand], NEW l \in Stockers, NEW r \in Errand,
           task' = [task EXCEPT ![l] = r]
    PROVE  /\ task' \in [Stockers -> Errand] /\ task'[l] = r
           /\ \A m \in Stockers : m # l => task'[m] = task[m]
OBVIOUS

\* The errand with another step is the same otherwise.
LEMMA OneField ==
    ASSUME NEW P, NEW R, NEW T, NEW L,
           NEW d \in [step : P, rest : R, text : T, left : L], NEW v
    PROVE  [d EXCEPT !.step = v] = [step |-> v, rest |-> d.rest, text |-> d.text, left |-> d.left]
OBVIOUS

\* A thread takes a step, and a second field of its errand with it.
LEMMA ErrandSteps ==
    ASSUME task \in [Stockers -> Errand], NEW l \in Stockers,
           NEW s \in {"look", "read", "fill", "clear"}, NEW o
    PROVE  /\ [task EXCEPT ![l].step = s, ![l].rest = o] = [task EXCEPT ![l] =
                [step |-> s, rest |-> o, text |-> task[l].text, left |-> task[l].left]]
           /\ [task EXCEPT ![l].step = s, ![l].text = o] = [task EXCEPT ![l] =
                [step |-> s, rest |-> task[l].rest, text |-> o, left |-> task[l].left]]
           /\ [task EXCEPT ![l].step = s, ![l].left = o] = [task EXCEPT ![l] =
                [step |-> s, rest |-> task[l].rest, text |-> task[l].text, left |-> o]]
<1>0. PICK w \in [Stockers -> Errand] : w = task
  OBVIOUS
<1>1. PICK u : u = [w EXCEPT ![l].step = s]
  OBVIOUS
<1>2. PICK d \in Errand : d = w[l]
  OBVIOUS
<1>3. u = [w EXCEPT ![l] = [d EXCEPT !.step = s]]
  BY <1>1, <1>2, Zenon
<1>4. PICK e \in Errand : e = [step |-> s, rest |-> d.rest, text |-> d.text, left |-> d.left]
  BY DEF Errand
<1>5. [d EXCEPT !.step = s] = e
  <2>1. [d EXCEPT !.step = s] = [step |-> s, rest |-> d.rest, text |-> d.text, left |-> d.left]
    <3>1. \E P, R, T, L : d \in [step : P, rest : R, text : T, left : L]
      BY Zenon DEF Errand
    <3>2. PICK P, R, T, L : d \in [step : P, rest : R, text : T, left : L]
      BY <3>1
    <3>. QED BY <3>2, OneField, SMT
  <2>. QED BY <1>4, <2>1, Zenon
<1>6. u = [w EXCEPT ![l] = e]
  BY <1>3, <1>5
<1>7. u \in [Stockers -> Errand] /\ u[l] = e
  BY <1>6
<1>8. ASSUME NEW v PROVE [u EXCEPT ![l] = v] = [w EXCEPT ![l] = v]
  BY <1>6, <1>7
<1>9. /\ [u EXCEPT ![l].rest = o] = [u EXCEPT ![l] = [e EXCEPT !.rest = o]]
      /\ [u EXCEPT ![l].text = o] = [u EXCEPT ![l] = [e EXCEPT !.text = o]]
      /\ [u EXCEPT ![l].left = o] = [u EXCEPT ![l] = [e EXCEPT !.left = o]]
  BY <1>7, Zenon
<1>10. /\ [e EXCEPT !.rest = o] = [step |-> s, rest |-> o, text |-> d.text, left |-> d.left]
       /\ [e EXCEPT !.text = o] = [step |-> s, rest |-> d.rest, text |-> o, left |-> d.left]
       /\ [e EXCEPT !.left = o] = [step |-> s, rest |-> d.rest, text |-> d.text, left |-> o]
  <2>1. e.step = s /\ e.rest = d.rest /\ e.text = d.text /\ e.left = d.left
    BY <1>4
  <2>2. /\ [e EXCEPT !.rest = o] = [step |-> e.step, rest |-> o, text |-> e.text, left |-> e.left]
        /\ [e EXCEPT !.text = o] = [step |-> e.step, rest |-> e.rest, text |-> o, left |-> e.left]
        /\ [e EXCEPT !.left = o] = [step |-> e.step, rest |-> e.rest, text |-> e.text, left |-> o]
    BY DEF Errand
  <2>. QED BY <2>1, <2>2
<1>11. /\ [w EXCEPT ![l].step = s, ![l].rest = o] = [u EXCEPT ![l].rest = o]
       /\ [w EXCEPT ![l].step = s, ![l].text = o] = [u EXCEPT ![l].text = o]
       /\ [w EXCEPT ![l].step = s, ![l].left = o] = [u EXCEPT ![l].left = o]
  BY <1>1, Zenon
<1>12. [w EXCEPT ![l].step = s, ![l].rest = o] =
            [w EXCEPT ![l] = [step |-> s, rest |-> o, text |-> d.text, left |-> d.left]]
  BY <1>8, <1>9, <1>10, <1>11, Zenon
<1>13. [w EXCEPT ![l].step = s, ![l].text = o] =
            [w EXCEPT ![l] = [step |-> s, rest |-> d.rest, text |-> o, left |-> d.left]]
  BY <1>8, <1>9, <1>10, <1>11, Zenon
<1>14. [w EXCEPT ![l].step = s, ![l].left = o] =
            [w EXCEPT ![l] = [step |-> s, rest |-> d.rest, text |-> d.text, left |-> o]]
  BY <1>8, <1>9, <1>10, <1>11, Zenon
<1>. QED BY <1>0, <1>2, <1>12, <1>13, <1>14, Zenon

\* A list that holds one more shelf goes on with the rest of it.
LEMMA NextGoes ==
    ASSUME task \in [Stockers -> Errand], NEW l \in Stockers, task[l].rest # <<>>, NextShelf(l)
    PROVE  \E r \in Errand : /\ task' = [task EXCEPT ![l] = r] /\ r.step \in {"idle", "look"}
                             /\ r.step = "look" => r.rest # <<>>
<1>1. task[l].rest \in Seq(Shelves)
  BY DEF Errand
<1>2. /\ Tail(task[l].rest) \in Seq(Shelves) /\ Len(task[l].rest) \in Nat
      /\ Len(task[l].rest) # 1 => Tail(task[l].rest) # <<>>
  <2>1. PICK s \in Seq(Shelves) : s = task[l].rest
    BY <1>1
  <2>2. s # <<>> /\ Len(s) \in Nat
    BY <2>1, LenProperties
  <2>3. Tail(s) \in Seq(Shelves) /\ Len(Tail(s)) = Len(s) - 1
    BY <2>2, HeadTailProperties
  <2>4. Len(s) # 1 => Len(Tail(s)) # 0
    BY <2>2, <2>3
  <2>5. Len(s) # 1 => Tail(s) # <<>>
    BY <2>4, EmptySeq
  <2>. QED BY <2>1, <2>2, <2>3, <2>5
<1>3. CASE Len(task[l].rest) = 1
  <2>1. task' = [task EXCEPT ![l] = Waiting]
    BY <1>3 DEF NextShelf
  <2>2. Waiting \in Errand /\ Waiting.step = "idle"
    BY MaxTextsAssumption DEF Waiting, Errand
  <2>. QED BY <2>1, <2>2
<1>4. CASE Len(task[l].rest) # 1
  <2>. DEFINE r == [step |-> "look", rest |-> Tail(task[l].rest), text |-> 0, left |-> {}]
  <2>0. Waiting \in Errand
    BY MaxTextsAssumption DEF Waiting, Errand
  <2>1. [Waiting EXCEPT !.step = "look", !.rest = Tail(task[l].rest)] = r
    <3>1. PICK s : s = Tail(task[l].rest)
      OBVIOUS
    <3>2. [Waiting EXCEPT !.step = "look", !.rest = s]
            = [[Waiting EXCEPT !.step = "look"] EXCEPT !.rest = s]
      BY Zenon
    <3>3. [Waiting EXCEPT !.step = "look"]
            = [step |-> "look", rest |-> <<>>, text |-> 0, left |-> {}]
      <4>1. PICK d \in Errand : d = Waiting
        BY <2>0
      <4>2. d.step = "idle" /\ d.rest = <<>> /\ d.text = 0 /\ d.left = {}
        BY <4>1 DEF Waiting
      <4>3. [d EXCEPT !.step = "look"]
              = [step |-> "look", rest |-> d.rest, text |-> d.text, left |-> d.left]
        BY OneField DEF Errand
      <4>. QED BY <4>1, <4>2, <4>3, Zenon
    <3>4. [[step |-> "look", rest |-> <<>>, text |-> 0, left |-> {}] EXCEPT !.rest = s]
            = [step |-> "look", rest |-> s, text |-> 0, left |-> {}]
      OBVIOUS
    <3>. QED BY <3>1, <3>2, <3>3, <3>4
  <2>2. task' = [task EXCEPT ![l] = [Waiting EXCEPT !.step = "look", !.rest = Tail(task[l].rest)]]
    BY <1>4, Zenon DEF NextShelf
  <2>3. task' = [task EXCEPT ![l] = r]
    BY <2>1, <2>2, Zenon
  <2>4. r \in Errand /\ r.step = "look" /\ r.rest # <<>>
    BY <1>2, <1>4, MaxTextsAssumption DEF Errand
  <2>. HIDE DEF r
  <2>. QED BY <2>3, <2>4
<1>. QED BY <1>3, <1>4

\* The directory lists the shelves.
LEMMA DirectoryLists == Directory \in Seq(Shelves) /\ Directory # <<>>
<1>. DEFINE n == Cardinality(Shelves)
<1>1. n \in Nat /\ n # 0
  BY ShelfAssumption, FS_CardinalityType, FS_EmptySet
<1>2. \E f \in [1..n -> Shelves] : IsInjective(f)
  <2>1. ExistsBijection(1..n, Shelves)
    BY ShelfAssumption, FS_CardinalityType
  <2>2. PICK f \in [1..n -> Shelves] : \A a, b \in 1..n : f[a] = f[b] => a = b
    BY <2>1 DEF ExistsBijection, Bijection, Injection, IsInjective, Surjection
  <2>. QED BY <2>2 DEF IsInjective
<1>3. Directory \in [1..n -> Shelves]
  BY <1>2 DEF Directory, SetToSeq
<1>. HIDE DEF n
<1>. QED BY <1>1, <1>3

\* A file that may still be written to has had fewer texts than the bound.
LEMMA RoomForText ==
    ASSUME DataInv, NEW k \in Shelves, Cardinality(Written) < MaxTexts
    PROVE  Len(editions[k]) < MaxTexts
<1>. SUFFICES ASSUME Len(editions[k]) = MaxTexts PROVE FALSE
  BY MaxTextsAssumption DEF DataInv, DataTypeOK
<1>. DEFINE T == {k} \X (1..MaxTexts)
            f == [i \in 1..MaxTexts |-> <<k, i>>]
<1>1. DOMAIN editions[k] = 1..MaxTexts
  BY DEF DataInv, DataTypeOK
<1>2. T \subseteq Written
  BY <1>1 DEF Written
<1>3. IsFiniteSet(1..MaxTexts) /\ Cardinality(1..MaxTexts) = MaxTexts
  BY MaxTextsAssumption, FS_Interval
<1>4. IsFiniteSet(Written)
  <2>1. IsFiniteSet(Shelves \X (1..MaxTexts))
    BY <1>3, ShelfAssumption, FS_Product
  <2>. QED BY <2>1, FS_Subset DEF Written
<1>5. f \in Injection(1..MaxTexts, Written)
  BY <1>2 DEF Injection, IsInjective
<1>6. MaxTexts <= Cardinality(Written)
  BY <1>3, <1>4, <1>5, FS_Injection
<1>7. Cardinality(Written) \in Nat
  BY <1>4, FS_CardinalityType
<1>. QED BY <1>6, <1>7, MaxTextsAssumption

\* What is true of a shelf that nobody writes.
WholeAt(k) ==
    writing[k] = NoStocker =>
        IF k \in filled
        THEN \E n \in DOMAIN editions[k] :
                editions[k][n].sort = "good" /\ shelf[k] = Of(editions[k][n].holds, n)
        ELSE shelf[k] = Bare

\* The first shelf of a list is a shelf.
LEMMA KindIn ==
    ASSUME DataInv, NEW l \in Stockers, task[l].step # "idle"
    PROVE  Kind(l) \in Shelves /\ task[l].rest # <<>>
<1>1. task[l].rest \in Seq(Shelves) /\ task[l].rest # <<>>
  BY DEF DataInv, DataTypeOK, ErrandOK
<1>. QED BY <1>1, HeadTailProperties DEF Kind

\* A step of one thread, on a shelf that is free or its own, is of no concern to the
\* others and to the other shelves.
LEMMA OthersGoOn ==
    ASSUME DataInv, NEW l \in Stockers, \A m \in Stockers : m # l => task'[m] = task[m],
           UNCHANGED editions, NEW k \in Shelves, writing[k] \in {l, NoStocker},
           \A j \in Shelves : j # k => writing'[j] = writing[j] /\ shelf'[j] = shelf[j]
    PROVE  \A m \in Stockers : m # l => ErrandOK(m)'
<1>. SUFFICES ASSUME NEW m \in Stockers, m # l PROVE ErrandOK(m)'
  OBVIOUS
<1>1. ErrandOK(m) /\ task'[m] = task[m]
  BY DEF DataInv
<1>2. Kind(m)' = Kind(m)
  BY <1>1 DEF Kind
<1>3. ASSUME task[m].step = "fill"
      PROVE  writing'[Kind(m)] = writing[Kind(m)] /\ shelf'[Kind(m)] = shelf[Kind(m)]
  <2>1. Kind(m) \in Shelves /\ writing[Kind(m)] = m
    BY <1>1, <1>3, KindIn DEF ErrandOK
  <2>. QED BY <2>1, ShelfAssumption
<1>. QED BY <1>1, <1>2, <1>3 DEF ErrandOK

\* A thread that has not taken a shelf moves on.
LEMMA WithoutShelf ==
    ASSUME DataInv, NEW l \in Stockers, task[l].step # "fill", NEW r \in Errand,
           task' = [task EXCEPT ![l] = r], UNCHANGED <<editions, shelf, writing, filled>>,
           r.step # "fill", r.step # "idle" => r.rest # <<>>,
           r.step \in {"read", "ready"} =>
             /\ r.text \in DOMAIN editions[Head(r.rest)]
             /\ r.step = "ready" => editions[Head(r.rest)][r.text].sort = "good"
    PROVE  DataInv'
<1>1. task \in [Stockers -> Errand]
  BY DEF DataInv, DataTypeOK, Errand
<1>2. /\ task' \in [Stockers -> Errand] /\ task'[l] = r
      /\ \A m \in Stockers : m # l => task'[m] = task[m]
  BY <1>1, ErrandGoes
<1>3. DataTypeOK'
  BY <1>2 DEF DataInv, DataTypeOK, Errand
<1>4. ErrandOK(l)'
  BY <1>2 DEF ErrandOK, Kind
<1>5. \A m \in Stockers : m # l => ErrandOK(m)'
  <2>. SUFFICES ASSUME NEW m \in Stockers, m # l PROVE ErrandOK(m)'
    OBVIOUS
  <2>1. ErrandOK(m) /\ task'[m] = task[m]
    BY <1>2 DEF DataInv
  <2>. QED BY <2>1 DEF ErrandOK, Kind
<1>6. ShelvesWhole'
  BY DEF DataInv, ShelvesWhole
<1>. QED BY <1>3, <1>4, <1>5, <1>6 DEF DataInv

\* Edits, loads and clearings, in any order, keep it.
LEMMA DataInductive == DataInv /\ [DataNext]_dataVars => DataInv'
<1>. SUFFICES ASSUME DataInv, [DataNext]_dataVars PROVE DataInv'
  OBVIOUS
<1>. USE MaxTextsAssumption
<1>0. /\ DataTypeOK /\ task \in [Stockers -> Errand] /\ \A k \in Shelves : WholeAt(k)
      /\ \A l \in Stockers : ErrandOK(l) /\ task[l] \in Errand
  BY DEF DataInv, DataTypeOK, Errand, ShelvesWhole, WholeAt
<1>w. ASSUME \A k \in Shelves : WholeAt(k)' PROVE ShelvesWhole'
  BY <1>w DEF WholeAt, ShelvesWhole
<1>1. ASSUME NEW k \in Shelves, NEW t \in Texts, EditDefinitions(k, t) PROVE DataInv'
  <2>1. /\ editions' = [editions EXCEPT ![k] = Append(editions[k], t)]
        /\ UNCHANGED <<shelf, writing, task, filled>> /\ Cardinality(Written) < MaxTexts
    BY <1>1 DEF EditDefinitions
  <2>2. editions[k] \in Seq(Texts) /\ Len(editions[k]) < MaxTexts /\ Len(editions[k]) \in Nat
    BY <1>0, <2>1, RoomForText DEF DataTypeOK
  <2>3. PICK s : s = Append(editions[k], t)
    OBVIOUS
  <2>4. /\ s \in Seq(Texts) /\ Len(s) = Len(editions[k]) + 1 /\ DOMAIN s = 1..Len(s)
        /\ DOMAIN editions[k] = 1..Len(editions[k])
        /\ \A n \in 1..Len(editions[k]) : s[n] = editions[k][n]
    BY <2>2, <2>3, AppendProperties, LenProperties
  <2>5. editions' \in [Shelves -> Seq(Texts)] /\ editions'[k] = s
        /\ \A j \in Shelves : j # k => editions'[j] = editions[j]
    BY <1>0, <2>1, <2>3, <2>4 DEF DataTypeOK
  <2>6. \A j \in Shelves : \A n \in DOMAIN editions[j] :
            n \in DOMAIN editions'[j] /\ editions'[j][n] = editions[j][n]
    <3>1. ASSUME NEW j \in Shelves, NEW n \in DOMAIN editions[j]
          PROVE  n \in DOMAIN editions'[j] /\ editions'[j][n] = editions[j][n]
      <4>1. CASE j # k
        BY <2>5, <4>1, Zenon
      <4>2. CASE j = k
        <5>1. n \in 1..Len(editions[k])
          BY <2>4, <4>2
        <5>2. n \in 1..Len(s)
          BY <2>2, <2>4, <5>1
        <5>. QED BY <2>4, <2>5, <4>2, <5>1, <5>2
      <4>. QED BY <4>1, <4>2
    <3>. QED BY <3>1
  <2>7. DataTypeOK' /\ \A j \in Shelves : Len(editions'[j]) <= MaxTexts
    <3>1. \A j \in Shelves : Len(editions'[j]) <= MaxTexts
      BY <2>2, <2>4, <2>5 DEF DataInv
    <3>. QED BY <1>0, <2>1, <2>5, <3>1 DEF DataTypeOK
  <2>8. ASSUME NEW l \in Stockers PROVE ErrandOK(l)'
    <3>1. ErrandOK(l) /\ (task[l].step # "idle" => Kind(l) \in Shelves) /\ Kind(l)' = Kind(l)
      BY <1>0, <2>1, KindIn DEF Kind
    <3>2. task'[l] = task[l] /\ shelf' = shelf /\ writing' = writing
      BY <2>1
    <3>3. ASSUME task[l].step \in {"read", "ready", "fill"}
          PROVE  /\ task[l].text \in DOMAIN editions'[Kind(l)]
                 /\ editions'[Kind(l)][task[l].text] = editions[Kind(l)][task[l].text]
      BY <2>6, <3>1, <3>3 DEF ErrandOK
    <3>. QED BY <3>1, <3>2, <3>3 DEF ErrandOK
  <2>9. ASSUME NEW j \in Shelves PROVE WholeAt(j)'
    BY <1>0, <2>1, <2>6 DEF WholeAt
  <2>. QED BY <1>w, <2>7, <2>8, <2>9 DEF DataInv
<1>2. ASSUME NEW l \in Stockers, NEW order \in {Directory} \cup {<<k>> : k \in Shelves},
             BeginLoad(l, order)
      PROVE  DataInv'
  <2>1. order \in Seq(Shelves) /\ order # <<>>
    <3>1. ASSUME NEW k \in Shelves PROVE <<k>> \in Seq(Shelves) /\ <<k>> # <<>>
      OBVIOUS
    <3>. QED BY <3>1, DirectoryLists
  <2>. DEFINE r == [step |-> "look", rest |-> order, text |-> task[l].text, left |-> task[l].left]
  <2>2. r \in Errand
    BY <1>0, <2>1 DEF Errand
  <2>3. task' = [task EXCEPT ![l] = r]
    BY <1>0, <1>2, ErrandSteps, Zenon DEF BeginLoad
  <2>4. task[l].step = "idle" /\ UNCHANGED <<editions, shelf, writing, filled>>
    BY <1>2 DEF BeginLoad, Waiting
  <2>5. r.step = "look" /\ r.rest = order
    OBVIOUS
  <2>. HIDE DEF r
  <2>. QED BY <2>1, <2>2, <2>3, <2>4, <2>5, WithoutShelf
<1>3. ASSUME NEW l \in Stockers, ReadDefinitions(l) PROVE DataInv'
  <2>1. task[l].step = "look" /\ UNCHANGED <<editions, shelf, writing, filled>>
    BY <1>3 DEF ReadDefinitions
  <2>2. Kind(l) \in Shelves /\ task[l].rest # <<>>
    BY <2>1, KindIn
  <2>3. CASE editions[Kind(l)] = <<>>
    <3>1. PICK r \in Errand : /\ task' = [task EXCEPT ![l] = r] /\ r.step \in {"idle", "look"}
                              /\ r.step = "look" => r.rest # <<>>
      BY <1>0, <1>3, <2>2, <2>3, NextGoes DEF ReadDefinitions
    <3>. QED BY <2>1, <3>1, WithoutShelf
  <2>4. CASE editions[Kind(l)] # <<>>
    <3>. DEFINE n == Len(editions[Kind(l)])
                r == [step |-> "read", rest |-> task[l].rest, text |-> n, left |-> task[l].left]
    <3>1. n \in 1..MaxTexts /\ n \in DOMAIN editions[Kind(l)]
      <4>1. editions[Kind(l)] \in Seq(Texts) /\ n <= MaxTexts
        BY <2>2 DEF DataInv, DataTypeOK
      <4>2. n \in Nat /\ n # 0 /\ DOMAIN editions[Kind(l)] = 1..n
        BY <2>4, <4>1, LenProperties, EmptySeq
      <4>. QED BY <4>1, <4>2
    <3>. HIDE DEF n
    <3>2. r \in Errand
      BY <1>0, <3>1 DEF Errand
    <3>3. task' = [task EXCEPT ![l] = r]
      BY <1>0, <1>3, <2>4, ErrandSteps, Zenon DEF ReadDefinitions, n
    <3>4. r.step = "read" /\ r.rest = task[l].rest /\ r.text = n
      OBVIOUS
    <3>. HIDE DEF r
    <3>. QED BY <2>1, <2>2, <3>1, <3>2, <3>3, <3>4, WithoutShelf DEF Kind
  <2>. QED BY <2>3, <2>4
<1>4. ASSUME NEW l \in Stockers, RunDefinitions(l) PROVE DataInv'
  <2>1. task[l].step = "read" /\ UNCHANGED <<editions, shelf, writing, filled>>
    BY <1>4 DEF RunDefinitions
  <2>2. /\ Kind(l) \in Shelves /\ task[l].rest # <<>> /\ task[l].text \in DOMAIN editions[Kind(l)]
    BY <1>0, <2>1, KindIn DEF ErrandOK
  <2>3. CASE editions[Kind(l)][task[l].text].sort # "good"
    <3>1. PICK r \in Errand : /\ task' = [task EXCEPT ![l] = r] /\ r.step \in {"idle", "look"}
                              /\ r.step = "look" => r.rest # <<>>
      BY <1>0, <1>4, <2>2, <2>3, NextGoes DEF RunDefinitions
    <3>. QED BY <2>1, <3>1, WithoutShelf
  <2>4. CASE editions[Kind(l)][task[l].text].sort = "good"
    <3>. DEFINE r == [task[l] EXCEPT !.step = "ready"]
    <3>1. task' = [task EXCEPT ![l] = r]
      BY <1>4, <2>4, Zenon DEF RunDefinitions
    <3>2. r \in Errand /\ r.step = "ready" /\ r.rest = task[l].rest /\ r.text = task[l].text
      BY <1>0 DEF Errand
    <3>. HIDE DEF r
    <3>. QED BY <2>1, <2>2, <2>4, <3>1, <3>2, WithoutShelf DEF Kind
  <2>. QED BY <2>3, <2>4
<1>5. ASSUME NEW l \in Stockers, BeginClear(l) PROVE DataInv'
  <2>. DEFINE r == [step |-> "clear", rest |-> Directory,
                    text |-> task[l].text, left |-> task[l].left]
  <2>2. r \in Errand
    BY <1>0, DirectoryLists DEF Errand
  <2>3. task' = [task EXCEPT ![l] = r]
    BY <1>0, <1>5, ErrandSteps, Zenon DEF BeginClear
  <2>4. task[l].step = "idle" /\ UNCHANGED <<editions, shelf, writing, filled>>
    BY <1>5 DEF BeginClear, Waiting
  <2>5. r.step = "clear" /\ r.rest = Directory
    OBVIOUS
  <2>. HIDE DEF r
  <2>. QED BY <2>2, <2>3, <2>4, <2>5, DirectoryLists, WithoutShelf
<1>6. ASSUME NEW l \in Stockers, TakeShelf(l) PROVE DataInv'
  <2>1. /\ task[l].step = "ready" /\ writing[Kind(l)] = NoStocker
        /\ UNCHANGED <<editions, filled>>
        /\ writing' = [writing EXCEPT ![Kind(l)] = l] /\ shelf' = [shelf EXCEPT ![Kind(l)] = Bare]
    BY <1>6 DEF TakeShelf, Emptied
  <2>2. /\ Kind(l) \in Shelves /\ task[l].rest # <<>> /\ task[l].text \in DOMAIN editions[Kind(l)]
        /\ editions[Kind(l)][task[l].text].sort = "good"
    BY <1>0, <2>1, KindIn DEF ErrandOK
  <2>. DEFINE holds == editions[Kind(l)][task[l].text].holds
              r == [step |-> "fill", rest |-> task[l].rest, text |-> task[l].text, left |-> holds]
  <2>3. holds \subseteq Archetypes
    <3>1. editions[Kind(l)][task[l].text] \in Texts
      BY <1>0, <2>2, ElementOfSeq, LenProperties DEF DataTypeOK
    <3>. QED BY <3>1 DEF Texts
  <2>4. task' = [task EXCEPT ![l] = r]
    BY <1>0, <1>6, ErrandSteps, Zenon DEF TakeShelf
  <2>5. r \in Errand
    BY <1>0, <2>3 DEF Errand
  <2>6. r.step = "fill" /\ r.rest = task[l].rest /\ r.text = task[l].text /\ r.left = holds
    OBVIOUS
  <2>. HIDE DEF r
  <2>7. /\ task' \in [Stockers -> Errand] /\ task'[l] = r
        /\ \A m \in Stockers : m # l => task'[m] = task[m]
    BY <1>0, <2>4, <2>5, ErrandGoes
  <2>8. DataTypeOK'
    BY <1>0, <2>1, <2>2, <2>7 DEF DataTypeOK, Errand, Bare
  <2>9. Kind(l)' = Kind(l)
    BY <2>6, <2>7 DEF Kind
  <2>10. writing'[Kind(l)] = l /\ shelf'[Kind(l)] = Bare /\ \A j \in Shelves : j # Kind(l) =>
            writing'[j] = writing[j] /\ shelf'[j] = shelf[j]
    BY <1>0, <2>1, <2>2 DEF DataTypeOK
  <2>11. Of({}, task[l].text) = Bare
    BY DEF Of, Bare
  <2>12. ErrandOK(l)'
    <3>1. holds \ r.left = {}
      BY <2>6
    <3>2. /\ task'[l].step = "fill" /\ task'[l].rest # <<>> /\ task'[l].text = task[l].text
          /\ task'[l].left = holds /\ editions' = editions
      BY <2>1, <2>2, <2>6, <2>7
    <3>. QED BY <2>2, <2>6, <2>9, <2>10, <2>11, <3>1, <3>2 DEF ErrandOK
  <2>13. \A m \in Stockers : m # l => ErrandOK(m)'
    <3>1. UNCHANGED editions /\ writing[Kind(l)] \in {l, NoStocker}
      BY <2>1
    <3>2. PICK k \in Shelves : k = Kind(l)
      BY <2>2
    <3>. QED BY <2>7, <2>10, <3>1, <3>2, OthersGoOn
  <2>14. ASSUME NEW j \in Shelves PROVE WholeAt(j)'
    BY <1>0, <2>1, <2>10, ShelfAssumption DEF WholeAt
  <2>. QED BY <1>w, <2>1, <2>8, <2>12, <2>13, <2>14 DEF DataInv
<1>7. ASSUME NEW l \in Stockers, NEW i \in Archetypes, PutArchetype(l, i) PROVE DataInv'
  <2>1. /\ task[l].step = "fill" /\ i \in task[l].left /\ UNCHANGED <<editions, writing, filled>>
    BY <1>7 DEF PutArchetype
  <2>2. /\ Kind(l) \in Shelves /\ task[l].rest # <<>> /\ task[l].text \in DOMAIN editions[Kind(l)]
        /\ editions[Kind(l)][task[l].text].sort = "good" /\ writing[Kind(l)] = l
    BY <1>0, <2>1, KindIn DEF ErrandOK
  <2>. DEFINE holds == editions[Kind(l)][task[l].text].holds
              r == [task[l] EXCEPT !.left = task[l].left \ {i}]
              full == [shelf[Kind(l)] EXCEPT ![i] = task[l].text]
  <2>3. task' = [task EXCEPT ![l] = r] /\ shelf' = [shelf EXCEPT ![Kind(l)] = full]
    BY <1>7, Zenon DEF PutArchetype
  <2>4. /\ r \in Errand /\ r.step = "fill" /\ r.rest = task[l].rest /\ r.text = task[l].text
        /\ r.left = task[l].left \ {i}
    BY <1>0, <2>1 DEF Errand
  <2>. HIDE DEF r
  <2>5. /\ task' \in [Stockers -> Errand] /\ task'[l] = r
        /\ \A m \in Stockers : m # l => task'[m] = task[m]
    BY <1>0, <2>3, <2>4, ErrandGoes
  <2>6. shelf[Kind(l)] = Of(holds \ task[l].left, task[l].text) /\ task[l].left \subseteq holds
    BY <1>0, <2>1 DEF ErrandOK
  <2>7. full = Of(holds \ r.left, task[l].text)
    <3>1. holds \ r.left = (holds \ task[l].left) \cup {i}
      BY <2>1, <2>4, <2>6
    <3>2. full = [j \in Archetypes |-> IF j = i THEN task[l].text ELSE shelf[Kind(l)][j]]
      BY <2>6 DEF Of
    <3>. HIDE DEF holds, full
    <3>. QED BY <2>6, <3>1, <3>2 DEF Of
  <2>8. full \in [Archetypes -> (1..MaxTexts) \cup {NoEntry}]
    <3>1. task[l].text \in 1..MaxTexts
      <4>1. editions[Kind(l)] \in Seq(Texts) /\ Len(editions[Kind(l)]) <= MaxTexts
        BY <2>2 DEF DataInv, DataTypeOK
      <4>. QED BY <2>2, <4>1, LenProperties
    <3>. QED BY <1>0, <2>2, <3>1 DEF DataTypeOK
  <2>. HIDE DEF full
  <2>9. DataTypeOK'
    BY <1>0, <2>1, <2>3, <2>5, <2>8 DEF DataTypeOK, Errand
  <2>10. shelf'[Kind(l)] = full /\ \A j \in Shelves : j # Kind(l) =>
            writing'[j] = writing[j] /\ shelf'[j] = shelf[j]
    BY <1>0, <2>1, <2>2, <2>3 DEF DataTypeOK
  <2>11. Kind(l)' = Kind(l)
    BY <2>4, <2>5 DEF Kind
  <2>12. ErrandOK(l)'
    <3>1. /\ task'[l].step = "fill" /\ task'[l].rest # <<>> /\ task'[l].text = task[l].text
          /\ task'[l].left = r.left /\ editions' = editions /\ writing' = writing
          /\ r.left \subseteq holds
      BY <2>1, <2>2, <2>4, <2>5, <2>6
    <3>. QED BY <2>2, <2>7, <2>10, <2>11, <3>1 DEF ErrandOK
  <2>13. \A m \in Stockers : m # l => ErrandOK(m)'
    <3>1. UNCHANGED editions /\ writing[Kind(l)] \in {l, NoStocker}
      BY <2>1, <2>2
    <3>2. PICK k \in Shelves : k = Kind(l)
      BY <2>2
    <3>. QED BY <2>5, <2>10, <3>1, <3>2, OthersGoOn
  <2>14. ASSUME NEW j \in Shelves PROVE WholeAt(j)'
    BY <1>0, <2>1, <2>2, <2>10, ShelfAssumption DEF WholeAt
  <2>. QED BY <1>w, <2>1, <2>9, <2>12, <2>13, <2>14 DEF DataInv
<1>8. ASSUME NEW l \in Stockers, LeaveShelf(l) PROVE DataInv'
  <2>1. /\ task[l].step = "fill" /\ task[l].left = {} /\ UNCHANGED <<editions, shelf>>
        /\ writing' = [writing EXCEPT ![Kind(l)] = NoStocker] /\ filled' = filled \cup {Kind(l)}
        /\ NextShelf(l)
    BY <1>8 DEF LeaveShelf
  <2>2. /\ Kind(l) \in Shelves /\ task[l].rest # <<>> /\ task[l].text \in DOMAIN editions[Kind(l)]
        /\ editions[Kind(l)][task[l].text].sort = "good" /\ writing[Kind(l)] = l
        /\ shelf[Kind(l)] = Of(editions[Kind(l)][task[l].text].holds, task[l].text)
    BY <1>0, <2>1, KindIn DEF ErrandOK
  <2>3. PICK r \in Errand : /\ task' = [task EXCEPT ![l] = r] /\ r.step \in {"idle", "look"}
                            /\ r.step = "look" => r.rest # <<>>
    BY <1>0, <2>1, <2>2, NextGoes
  <2>4. /\ task' \in [Stockers -> Errand] /\ task'[l] = r
        /\ \A m \in Stockers : m # l => task'[m] = task[m]
    BY <1>0, <2>3, ErrandGoes
  <2>5. DataTypeOK'
    BY <1>0, <2>1, <2>2, <2>4 DEF DataTypeOK, Errand
  <2>6. writing'[Kind(l)] = NoStocker /\ \A j \in Shelves : j # Kind(l) =>
            writing'[j] = writing[j] /\ shelf'[j] = shelf[j]
    BY <1>0, <2>1, <2>2 DEF DataTypeOK
  <2>7. ErrandOK(l)'
    BY <2>3, <2>4 DEF ErrandOK
  <2>8. \A m \in Stockers : m # l => ErrandOK(m)'
    <3>1. UNCHANGED editions /\ writing[Kind(l)] \in {l, NoStocker}
      BY <2>1, <2>2
    <3>2. PICK k \in Shelves : k = Kind(l)
      BY <2>2
    <3>. QED BY <2>4, <2>6, <3>1, <3>2, OthersGoOn
  <2>9. ASSUME NEW j \in Shelves PROVE WholeAt(j)'
    <3>1. CASE j = Kind(l)
      BY <2>1, <2>2, <2>6, <3>1 DEF WholeAt
    <3>2. CASE j # Kind(l)
      BY <1>0, <2>1, <2>6, <3>2 DEF WholeAt
    <3>. QED BY <3>1, <3>2
  <2>. QED BY <1>w, <2>1, <2>5, <2>7, <2>8, <2>9 DEF DataInv
<1>9. ASSUME NEW l \in Stockers, ClearShelf(l) PROVE DataInv'
  <2>1. /\ task[l].step = "clear" /\ writing[Kind(l)] = NoStocker
        /\ UNCHANGED <<editions, writing>>
        /\ shelf' = [shelf EXCEPT ![Kind(l)] = Bare] /\ filled' = filled \ {Kind(l)}
    BY <1>9 DEF ClearShelf
  <2>2. Kind(l) \in Shelves /\ task[l].rest # <<>>
    BY <2>1, KindIn
  <2>. DEFINE r == IF Len(task[l].rest) = 1
        THEN Waiting ELSE [task[l] EXCEPT !.rest = Tail(task[l].rest)]
  <2>3. task' = [task EXCEPT ![l] = r]
    <3>1. task' = [task EXCEPT ![l] =
            IF Len(@.rest) = 1 THEN Waiting ELSE [@ EXCEPT !.rest = Tail(task[l].rest)]]
      BY <1>9, Zenon DEF ClearShelf
    <3>. QED BY <3>1
  <2>4. r \in Errand /\ r.step \in {"idle", "clear"} /\ (r.step = "clear" => r.rest # <<>>)
    <3>1. PICK s \in Seq(Shelves) : s = task[l].rest
      BY <1>0 DEF Errand
    <3>2. s # <<>> /\ Len(s) \in Nat
      BY <2>2, <3>1, LenProperties
    <3>3. Tail(s) \in Seq(Shelves) /\ Len(Tail(s)) = Len(s) - 1
      BY <3>2, HeadTailProperties
    <3>4. Len(s) # 1 => Tail(s) # <<>>
      BY <3>2, <3>3, EmptySeq
    <3>5. PICK e \in Seq(Shelves) : e = Tail(s)
      BY <3>3
    <3>6. /\ [task[l] EXCEPT !.rest = e] \in Errand /\ [task[l] EXCEPT !.rest = e].step = "clear"
          /\ [task[l] EXCEPT !.rest = e].rest = e
      BY <1>0, <2>1 DEF Errand
    <3>7. Waiting \in Errand /\ Waiting.step = "idle"
      BY DEF Waiting, Errand
    <3>8. CASE Len(s) = 1
      BY <3>1, <3>7, <3>8
    <3>9. CASE Len(s) # 1
      <4>1. r = [task[l] EXCEPT !.rest = e]
        BY <3>1, <3>5, <3>9
      <4>. QED BY <3>4, <3>5, <3>6, <3>9, <4>1, Zenon
    <3>. QED BY <3>8, <3>9
  <2>. HIDE DEF r
  <2>5. /\ task' \in [Stockers -> Errand] /\ task'[l] = r
        /\ \A m \in Stockers : m # l => task'[m] = task[m]
    BY <1>0, <2>3, <2>4, ErrandGoes
  <2>6. DataTypeOK'
    BY <1>0, <2>1, <2>2, <2>5 DEF DataTypeOK, Errand, Bare
  <2>7. shelf'[Kind(l)] = Bare /\ \A j \in Shelves : j # Kind(l) =>
            writing'[j] = writing[j] /\ shelf'[j] = shelf[j]
    BY <1>0, <2>1, <2>2 DEF DataTypeOK
  <2>8. ErrandOK(l)'
    BY <2>4, <2>5 DEF ErrandOK
  <2>9. \A m \in Stockers : m # l => ErrandOK(m)'
    <3>1. UNCHANGED editions /\ writing[Kind(l)] \in {l, NoStocker}
      BY <2>1, <2>2
    <3>2. PICK k \in Shelves : k = Kind(l)
      BY <2>2
    <3>. QED BY <2>5, <2>7, <3>1, <3>2, OthersGoOn
  <2>10. ASSUME NEW j \in Shelves PROVE WholeAt(j)'
    <3>1. CASE j = Kind(l)
      BY <2>1, <2>2, <2>7, <3>1 DEF WholeAt
    <3>2. CASE j # Kind(l)
      BY <1>0, <2>1, <2>7, <3>2 DEF WholeAt
    <3>. QED BY <3>1, <3>2
  <2>. QED BY <1>w, <2>1, <2>6, <2>8, <2>9, <2>10 DEF DataInv
<1>10. CASE UNCHANGED dataVars
  BY <1>10 DEF dataVars, DataInv, DataTypeOK, ShelvesWhole, ErrandOK, Kind
<1>. QED BY <1>1, <1>2, <1>3, <1>4, <1>5, <1>6, <1>7, <1>8, <1>9, <1>10 DEF DataNext

\* Files are edited and loads and clearings overlap: who looks while nobody writes sees
\* one edition of each file, whole (ShelvesWhole).
THEOREM ShelvesStayWhole == DataSpec => [](DataTypeOK /\ ShelvesWhole)
<1>1. DataInit => DataInv
  <2>. SUFFICES ASSUME DataInit PROVE DataInv
    OBVIOUS
  <2>1. /\ editions = [k \in Shelves |-> <<>>] /\ shelf = [k \in Shelves |-> Bare] /\ filled = {}
        /\ writing = [k \in Shelves |-> NoStocker] /\ task = [l \in Stockers |-> Waiting]
    BY DEF DataInit
  <2>2. <<>> \in Seq(Texts) /\ <<>> \in Seq(Shelves) /\ Len(<<>>) = 0
    BY EmptySeq
  <2>3. Waiting \in Errand /\ Waiting.step = "idle"
    BY <2>2, MaxTextsAssumption DEF Waiting, Errand
  <2>4. DataTypeOK
    BY <2>1, <2>2, <2>3 DEF DataTypeOK, Errand, Bare
  <2>. QED BY <2>1, <2>2, <2>3, <2>4, MaxTextsAssumption DEF DataInv, ShelvesWhole, ErrandOK
<1>2. DataInv => DataTypeOK /\ ShelvesWhole
  BY DEF DataInv
<1>. QED BY <1>1, <1>2, DataInductive, PTL DEF DataSpec

-----------------------------------------------------------------------------
(***************************************************************************)
(* Dispatch.  What is offered has not been called, what was called is in   *)
(* the order of the priorities, and what was collected is of those called  *)
(* that returned, in the same order.                                       *)
(***************************************************************************)

\* No two of the subscriptions have an id in common.
Apart(subs) == \A i, j \in DOMAIN subs : i # j => subs[i].id # subs[j].id

\* Some of the subscriptions, none of them twice.
Among(subs, kept, some) ==
    /\ some \in Seq(Subscription) /\ Apart(some)
    /\ \A i \in DOMAIN some : some[i] \in kept /\ \E m \in DOMAIN subs : some[i] = subs[m]

\* Step by step, f keeps of the subscriptions those in the set.
Keeps(f, subs, kept) ==
    /\ f[0] = <<>> /\ f[Len(subs)] = Those(subs, kept)
    /\ \A i \in 1..Len(subs) :
        f[i] = IF subs[i] \in kept THEN Append(f[i - 1], subs[i]) ELSE f[i - 1]

\* What is kept of a list of subscriptions, one step after the other.
LEMMA KeptSteps ==
    ASSUME NEW subs \in Seq(Subscription), NEW kept
    PROVE  \E f \in [0..Len(subs) -> Seq(Subscription)] : Keeps(f, subs, kept)
<1>. DEFINE n == Len(subs)
            X == Seq(Subscription)
            Do(i, y) == IF subs[i] \in kept THEN Append(y, subs[i]) ELSE y
            G == [p \in (1..n) \X X |-> Do(p[1], p[2])]
            P(g) == g = [i \in 0..n |-> IF i = 0 THEN <<>> ELSE Do(i, g[i - 1])]
<1>1. n \in Nat /\ \A i \in 1..n : subs[i] \in Subscription
  BY LenProperties, ElementOfSeq
<1>2. ASSUME NEW i \in 1..n, NEW y \in X PROVE Do(i, y) \in X
  <2>. QED BY <1>1, AppendProperties
<1>3. ASSUME NEW i \in 1..n, NEW y \in X PROVE G[<<i, y>>] = Do(i, y)
  OBVIOUS
<1>a. Those(subs, kept) = (CHOOSE g : g = [i \in 0..n |-> IF i = 0 THEN <<>>
            ELSE IF subs[i] \in kept THEN Append(g[i - 1], subs[i]) ELSE g[i - 1]])[n]
  BY Zenon DEF Those
<1>4. Those(subs, kept) = (CHOOSE g : P(g))[n]
  BY <1>a, Zenon
<1>. SUFFICES \E f \in [0..n -> X] : /\ f[0] = <<>> /\ f[n] = Those(subs, kept)
                                     /\ \A i \in 1..n : f[i] = Do(i, f[i - 1])
  BY Zenon DEF Keeps
<1>b. <<>> \in X
  OBVIOUS
<1>. HIDE DEF X, Do, G, n
<1>5. PICK f \in [0..n -> X] : Computes(f, n, <<>>, G)
  <2>1. n \in Nat /\ <<>> \in X /\ \A i \in 1..n, y \in X : G[<<i, y>>] \in X
    BY <1>1, <1>2, <1>3, <1>b
  <2>. QED BY <2>1, Recursion
<1>6. f[0] = <<>> /\ \A i \in 1..n : f[i] = Do(i, f[i - 1])
  <2>1. ASSUME NEW i \in 1..n PROVE f[i - 1] \in X
    BY <1>1
  <2>. QED BY <1>3, <1>5, <2>1 DEF Computes
<1>7. P(f)
  <2>1. ASSUME NEW i \in 0..n PROVE f[i] = IF i = 0 THEN <<>> ELSE Do(i, f[i - 1])
    BY <1>1, <1>6
  <2>. QED BY <1>5, <2>1
<1>8. ASSUME NEW g, P(g) PROVE g = f
  <2>. DEFINE T == {i \in 0..n : g[i] = f[i]}
  <2>1. \A i \in 0..n : g[i] = IF i = 0 THEN <<>> ELSE Do(i, g[i - 1])
    BY <1>8
  <2>2. 0 \in T
    BY <2>1, <1>1, <1>6
  <2>3. ASSUME NEW i \in 1..n, i - 1 \in T PROVE i \in T
    BY <2>1, <2>3, <1>1, <1>6
  <2>4. 0..n \subseteq T
    <3>. HIDE DEF T
    <3>. QED BY <1>1, <2>2, <2>3, Upto
  <2>. QED BY <1>5, <1>8, <2>4
<1>9. f[n] = Those(subs, kept)
  <2>. HIDE DEF P
  <2>. QED BY <1>4, <1>7, <1>8
<1>. QED BY <1>5, <1>6, <1>9

\* Those that are kept are some of the subscriptions, none of them twice.
LEMMA ThoseAreAmong ==
    ASSUME NEW subs \in Seq(Subscription), Apart(subs), NEW kept
    PROVE  Among(subs, kept, Those(subs, kept))
<1>0. PICK f \in [0..Len(subs) -> Seq(Subscription)] : Keeps(f, subs, kept)
  BY KeptSteps
<1>1. /\ f[0] = <<>> /\ f[Len(subs)] = Those(subs, kept)
      /\ \A i \in 1..Len(subs) :
            f[i] = IF subs[i] \in kept THEN Append(f[i - 1], subs[i]) ELSE f[i - 1]
  BY <1>0, Zenon DEF Keeps
<1>2. PICK n \in Nat : n = Len(subs) /\ DOMAIN subs = 1..n
  BY LenProperties
<1>. DEFINE Kept(i) == \A p \in DOMAIN f[i] :
                        f[i][p] \in kept /\ \E m \in 1..i : f[i][p] = subs[m]
            T == {i \in 0..n : Apart(f[i]) /\ Kept(i)}
<1>3. 0 \in T
  <2>1. DOMAIN f[0] = {}
    <3>1. f[0] = <<>>
      BY <1>1
    <3>2. DOMAIN <<>> = {}
      OBVIOUS
    <3>. QED BY <3>1, <3>2, Zenon
  <2>2. Apart(f[0]) /\ Kept(0)
    BY <2>1, Zenon DEF Apart
  <2>3. 0 \in 0..n
    BY <1>2
  <2>. QED BY <2>2, <2>3
<1>4. ASSUME NEW i \in 1..n, i - 1 \in T PROVE i \in T
  <2>1. /\ i - 1 \in 0..n /\ f[i - 1] \in Seq(Subscription) /\ subs[i] \in Subscription
        /\ i \in 0..n
    <3>1. i - 1 \in 0..n /\ i \in 0..n /\ i \in 1..Len(subs)
      BY <1>2
    <3>2. subs[i] \in Subscription
      BY <3>1, ElementOfSeq
    <3>3. f[i - 1] \in Seq(Subscription)
      BY <1>1, <1>2, <3>1
    <3>. QED BY <3>1, <3>2, <3>3
  <2>2. PICK g \in Seq(Subscription) : g = f[i - 1]
    BY <2>1
  <2>3. Apart(g) /\ \A p \in DOMAIN g : g[p] \in kept /\ \E m \in 1..i - 1 : g[p] = subs[m]
    BY <1>4, <2>2
  <2>4. CASE subs[i] \notin kept
    <3>1. f[i] = g
      BY <1>1, <1>2, <2>2, <2>4
    <3>2. \A m \in 1..i - 1 : m \in 1..i
      OBVIOUS
    <3>. QED BY <2>1, <2>3, <3>1, <3>2
  <2>5. CASE subs[i] \in kept
    <3>1. PICK h : h = Append(g, subs[i])
      OBVIOUS
    <3>2. f[i] = h
      BY <1>1, <1>2, <2>2, <2>5, <3>1
    <3>3. /\ Len(g) \in Nat /\ DOMAIN g = 1..Len(g) /\ DOMAIN h = 1..(Len(g) + 1)
          /\ h[Len(g) + 1] = subs[i] /\ \A p \in 1..Len(g) : h[p] = g[p]
      <4>1. Len(g) \in Nat /\ DOMAIN g = 1..Len(g)
        BY LenProperties
      <4>2. /\ h \in Seq(Subscription) /\ Len(h) = Len(g) + 1 /\ h[Len(g) + 1] = subs[i]
            /\ \A p \in 1..Len(g) : h[p] = g[p]
        BY <2>1, <3>1, AppendProperties
      <4>3. DOMAIN h = 1..Len(h)
        BY <4>2, LenProperties
      <4>. QED BY <4>1, <4>2, <4>3
    <3>4. ASSUME NEW p \in DOMAIN h
          PROVE  h[p] \in kept /\ \E m \in 1..i : h[p] = subs[m]
      <4>1. CASE p = Len(g) + 1
        BY <2>5, <3>3, <4>1
      <4>2. CASE p # Len(g) + 1
        <5>1. p \in DOMAIN g /\ h[p] = g[p]
          BY <3>3, <4>2
        <5>2. PICK m \in 1..i - 1 : g[p] = subs[m]
          BY <2>3, <5>1
        <5>3. m \in 1..i
          OBVIOUS
        <5>. QED BY <2>3, <5>1, <5>2, <5>3
      <4>. QED BY <4>1, <4>2
    <3>5. ASSUME NEW p \in DOMAIN g PROVE g[p].id # subs[i].id
      <4>1. PICK m \in 1..i - 1 : g[p] = subs[m]
        BY <2>3
      <4>2. m \in DOMAIN subs /\ i \in DOMAIN subs /\ m # i
        BY <1>2
      <4>. QED BY <4>1, <4>2 DEF Apart
    <3>6. Apart(h)
      <4>. SUFFICES ASSUME NEW p \in DOMAIN h, NEW q \in DOMAIN h, p # q PROVE h[p].id # h[q].id
        BY DEF Apart
      <4>1. CASE p \in DOMAIN g /\ q \in DOMAIN g
        BY <2>3, <3>3, <4>1 DEF Apart
      <4>2. CASE p \notin DOMAIN g
        <5>1. p = Len(g) + 1 /\ q \in DOMAIN g
          BY <3>3, <4>2
        <5>. QED BY <3>3, <3>5, <5>1
      <4>3. CASE q \notin DOMAIN g
        <5>1. q = Len(g) + 1 /\ p \in DOMAIN g
          BY <3>3, <4>3
        <5>. QED BY <3>3, <3>5, <5>1
      <4>. QED BY <4>1, <4>2, <4>3
    <3>. QED BY <2>1, <3>2, <3>4, <3>6
  <2>. QED BY <2>4, <2>5
<1>5. 0..n \subseteq T
  <2>. HIDE DEF T
  <2>. QED BY <1>2, <1>3, <1>4, Upto
<1>6. n \in 0..n
  BY <1>2
<1>7. Apart(f[n]) /\ Kept(n) /\ f[n] = Those(subs, kept) /\ f[n] \in Seq(Subscription)
  BY <1>1, <1>2, <1>5, <1>6
<1>. QED BY <1>2, <1>7 DEF Among

\* Sorted by priority, the subscriptions are the same, those of the first priority first.
LEMMA SortedIs ==
    ASSUME NEW subs \in Seq(Subscription), Apart(subs)
    PROVE  /\ Sorted(subs) \in Seq(Subscription) /\ Apart(Sorted(subs))
           /\ \A i, j \in DOMAIN Sorted(subs) : i < j =>
                Sorted(subs)[i].priority <= Sorted(subs)[j].priority
<1>1. PICK a : a = Those(subs, {h \in Subscription : h.priority = 0})
  OBVIOUS
<1>2. PICK b : b = Those(subs, {h \in Subscription : h.priority = 1})
  OBVIOUS
<1>3. Among(subs, {h \in Subscription : h.priority = 0}, a)
  BY <1>1, ThoseAreAmong
<1>4. Among(subs, {h \in Subscription : h.priority = 1}, b)
  BY <1>2, ThoseAreAmong
<1>5. a \in Seq(Subscription) /\ b \in Seq(Subscription)
  BY <1>3, <1>4 DEF Among
<1>6. PICK c : c = a \o b
  OBVIOUS
<1>7. Sorted(subs) = c
  BY <1>1, <1>2, <1>6 DEF Sorted
<1>8. /\ c \in Seq(Subscription) /\ Len(c) = Len(a) + Len(b) /\ DOMAIN c = 1..Len(c)
      /\ \A i \in 1..Len(c) : c[i] = IF i <= Len(a) THEN a[i] ELSE b[i - Len(a)]
  <2>1. /\ c \in Seq(Subscription) /\ Len(c) = Len(a) + Len(b)
        /\ \A i \in 1..Len(a) + Len(b) : c[i] = IF i <= Len(a) THEN a[i] ELSE b[i - Len(a)]
    BY <1>5, <1>6, ConcatProperties
  <2>. QED BY <2>1, LenProperties
<1>9. /\ Len(a) \in Nat /\ DOMAIN a = 1..Len(a) /\ Len(b) \in Nat /\ DOMAIN b = 1..Len(b)
  BY <1>5, LenProperties
<1>10. ASSUME NEW i \in 1..Len(c)
       PROVE  IF i <= Len(a) THEN i \in DOMAIN a /\ c[i] = a[i] /\ c[i].priority = 0
              ELSE i - Len(a) \in DOMAIN b /\ c[i] = b[i - Len(a)] /\ c[i].priority = 1
  <2>1. CASE i <= Len(a)
    <3>1. i \in DOMAIN a /\ c[i] = a[i]
      BY <1>8, <1>9, <2>1
    <3>2. a[i] \in {h \in Subscription : h.priority = 0}
      BY <1>3, <3>1, Zenon DEF Among
    <3>. QED BY <2>1, <3>1, <3>2
  <2>2. CASE ~(i <= Len(a))
    <3>1. i - Len(a) \in DOMAIN b /\ c[i] = b[i - Len(a)]
      BY <1>8, <1>9, <2>2
    <3>2. b[i - Len(a)] \in {h \in Subscription : h.priority = 1}
      BY <1>4, <3>1, Zenon DEF Among
    <3>. QED BY <2>2, <3>1, <3>2
  <2>. QED BY <2>1, <2>2
<1>11. ASSUME NEW i \in DOMAIN a, NEW j \in DOMAIN b PROVE a[i].id # b[j].id
  <2>1. PICK m \in DOMAIN subs : a[i] = subs[m] /\ subs[m].priority = 0
    BY <1>3 DEF Among
  <2>2. PICK l \in DOMAIN subs : b[j] = subs[l] /\ subs[l].priority = 1
    BY <1>4 DEF Among
  <2>. QED BY <2>1, <2>2 DEF Apart
<1>12. Apart(c)
  <2>. SUFFICES ASSUME NEW i \in 1..Len(c), NEW j \in 1..Len(c), i # j PROVE c[i].id # c[j].id
    BY <1>8 DEF Apart
  <2>1. CASE i <= Len(a) /\ j <= Len(a)
    BY <1>3, <1>10, <2>1 DEF Among, Apart
  <2>2. CASE ~(i <= Len(a)) /\ ~(j <= Len(a))
    <3>1. i - Len(a) # j - Len(a)
      BY <1>8, <1>9
    <3>2. PICK k \in DOMAIN b : k = i - Len(a) /\ c[i] = b[k]
      BY <1>10, <2>2
    <3>3. PICK l \in DOMAIN b : l = j - Len(a) /\ c[j] = b[l]
      BY <1>10, <2>2
    <3>4. Apart(b)
      BY <1>4 DEF Among
    <3>. QED BY <3>1, <3>2, <3>3, <3>4 DEF Apart
  <2>3. CASE i <= Len(a) /\ ~(j <= Len(a))
    BY <1>10, <1>11, <2>3
  <2>4. CASE ~(i <= Len(a)) /\ j <= Len(a)
    BY <1>10, <1>11, <2>4
  <2>. QED BY <2>1, <2>2, <2>3, <2>4
<1>13. ASSUME NEW i \in 1..Len(c), NEW j \in 1..Len(c), i < j
       PROVE  c[i].priority <= c[j].priority
  <2>1. CASE j <= Len(a)
    <3>1. i <= Len(a)
      BY <1>8, <1>9, <1>13, <2>1
    <3>. QED BY <1>10, <2>1, <3>1
  <2>2. CASE ~(j <= Len(a))
    BY <1>10, <2>2
  <2>. QED BY <2>1, <2>2
<1>. QED BY <1>7, <1>8, <1>12, <1>13

\* What became of a handler that was called.
Outcome == [of : Callers, priority : 0..1, ok : BOOLEAN]

\* The handlers called so far are the ones before those still offered.
Calling(done, rest) ==
    /\ Apart(rest)
    /\ \A i, j \in DOMAIN rest : i < j => rest[i].priority <= rest[j].priority
    /\ \A i, j \in DOMAIN done : i < j => /\ done[i].priority <= done[j].priority
                                          /\ done[i].of # done[j].of
    /\ \A i \in DOMAIN done : \A j \in DOMAIN rest :
            done[i].of # rest[j].id /\ done[i].priority <= rest[j].priority

\* What was collected is of handlers that returned, in the order of their calls.
Collected(changes, done) ==
    /\ \A i \in DOMAIN changes : \E k \in DOMAIN done : done[k].of = changes[i] /\ done[k].ok
    /\ \A i, j \in DOMAIN changes : i < j => \A k, l \in DOMAIN done :
            done[k].of = changes[i] /\ done[l].of = changes[j] => k <= l

\* What each phase of a dispatch leaves empty, and whose turn it is.
Phases ==
    /\ ~(dispatch.kind = "event" \/ InEvent) => offered = <<>>
    /\ InEvent => offered # <<>> /\ dispatch.of = Head(offered).id
    /\ NothingRuns \/ dispatch.kind = "checking"
            \/ (dispatch.kind = "running" /\ dispatch.of \in Verbs) =>
        outcomes = <<>> /\ result = <<>>
    /\ \A i \in DOMAIN queue : dispatch.kind = "running" /\ queue[i] = dispatch.of

\* The inductive invariant.
DispatchInv ==
    /\ DispatchTypeOK /\ Apart(subscribed)
    /\ Calling(outcomes, offered) /\ Collected(result, outcomes) /\ Phases

\* It implies that handlers are kept apart.
LEMMA HandlersAreApart == DispatchInv => HandlersIsolated
<1>. SUFFICES ASSUME DispatchInv PROVE HandlersIsolated
  OBVIOUS
<1>1. Calling(outcomes, offered) /\ Collected(result, outcomes) /\ Phases
      /\ outcomes \in Seq(Outcome)
  BY DEF DispatchInv, DispatchTypeOK, Outcome
<1>2. \A i, j \in DOMAIN outcomes : i < j => /\ outcomes[i].priority <= outcomes[j].priority
                                             /\ outcomes[i].of # outcomes[j].of
  BY <1>1, Zenon DEF Calling
<1>3. ASSUME NEW c, NEW k \in DOMAIN outcomes, outcomes[k].of = c PROVE PositionOf(c) = k
  <2>1. PositionOf(c) \in DOMAIN outcomes /\ outcomes[PositionOf(c)].of = c
    BY <1>3, Zenon DEF PositionOf
  <2>2. PICK l \in DOMAIN outcomes : l = PositionOf(c) /\ outcomes[l].of = c
    BY <2>1
  <2>3. l \in Nat /\ k \in Nat
    BY <1>1, LenProperties
  <2>4. ~(l < k) /\ ~(k < l)
    BY <1>2, <1>3, <2>2
  <2>. QED BY <2>2, <2>3, <2>4
<1>4. ASSUME NEW i \in DOMAIN result
      PROVE  \E k \in DOMAIN outcomes : outcomes[k].of = result[i] /\ outcomes[k].ok
  BY <1>1, Zenon DEF Collected
<1>5. \A i \in DOMAIN result : result[i] \in Succeeded
  BY <1>4, Zenon DEF Succeeded
<1>6. ASSUME NEW i \in DOMAIN result, NEW j \in DOMAIN result, i < j
      PROVE  PositionOf(result[i]) <= PositionOf(result[j])
  <2>1. PICK k \in DOMAIN outcomes : outcomes[k].of = result[i]
    BY <1>4
  <2>2. PICK l \in DOMAIN outcomes : outcomes[l].of = result[j]
    BY <1>4
  <2>3. k <= l
    BY <1>1, <1>6, <2>1, <2>2, Zenon DEF Collected
  <2>4. PositionOf(result[i]) = k /\ PositionOf(result[j]) = l
    BY <1>3, <2>1, <2>2
  <2>. QED BY <2>3, <2>4
<1>7. \A i \in DOMAIN queue : dispatch.kind = "running" /\ queue[i] = dispatch.of
  BY <1>1 DEF Phases
<1>. QED BY <1>2, <1>5, <1>6, <1>7 DEF HandlersIsolated

\* The handler offered first was called, or passed over and noted as failed.
LEMMA OneCalled ==
    ASSUME offered \in Seq(Subscription), outcomes \in Seq(Outcome), offered # <<>>,
           Calling(outcomes, offered), NEW ok \in BOOLEAN, Ended(Head(offered), ok),
           offered' = Tail(offered)
    PROVE  /\ offered' \in Seq(Subscription) /\ outcomes' \in Seq(Outcome)
           /\ Calling(outcomes', offered')
           /\ Len(outcomes') = Len(outcomes) + 1 /\ Len(outcomes) \in Nat
           /\ outcomes'[Len(outcomes) + 1].of = Head(offered).id
           /\ outcomes'[Len(outcomes) + 1].ok = ok
           /\ DOMAIN outcomes' = 1..(Len(outcomes) + 1) /\ DOMAIN outcomes = 1..Len(outcomes)
           /\ \A i \in DOMAIN outcomes : outcomes'[i] = outcomes[i]
           /\ \A i \in DOMAIN outcomes : outcomes[i].of # Head(offered).id
<1>1. PICK s \in Seq(Subscription) : s = offered
  OBVIOUS
<1>2. PICK o \in Seq(Outcome) : o = outcomes
  OBVIOUS
<1>3. /\ s # <<>> /\ Len(s) \in Nat \ {0} /\ DOMAIN s = 1..Len(s) /\ Len(o) \in Nat
      /\ DOMAIN o = 1..Len(o)
  BY <1>1, LenProperties, EmptySeq
<1>4. PICK h \in Subscription : h = Head(s)
  BY <1>3, HeadTailProperties
<1>5. PICK r \in Seq(Subscription) : r = Tail(s) /\ Len(r) = Len(s) - 1
        /\ \A i \in 1..Len(r) : r[i] = s[i + 1]
  BY <1>3, HeadTailProperties
<1>6. DOMAIN r = 1..Len(r) /\ h = s[1]
  BY <1>3, <1>4, <1>5, LenProperties
<1>7. PICK e : e = [of |-> h.id, priority |-> h.priority, ok |-> ok]
  OBVIOUS
<1>8. e \in Outcome /\ e.of = h.id /\ e.priority = h.priority /\ e.ok = ok
  BY <1>7 DEF Outcome, Callers, Subscription
<1>9. PICK n : n = Append(o, e)
  OBVIOUS
<1>10. /\ n \in Seq(Outcome) /\ DOMAIN n = 1..(Len(o) + 1) /\ Len(n) = Len(o) + 1
       /\ n[Len(o) + 1] = e /\ \A i \in 1..Len(o) : n[i] = o[i]
  <2>1. /\ n \in Seq(Outcome) /\ Len(n) = Len(o) + 1
        /\ n[Len(o) + 1] = e /\ \A i \in 1..Len(o) : n[i] = o[i]
    BY <1>8, <1>9, AppendProperties
  <2>. QED BY <2>1, LenProperties
<1>11. outcomes' = n /\ offered' = r
  BY <1>1, <1>2, <1>4, <1>5, <1>7, <1>9 DEF Ended
<1>12. Calling(o, s)
  BY <1>1, <1>2
<1>13. ASSUME NEW i \in DOMAIN o PROVE o[i].of # h.id /\ o[i].priority <= h.priority
  <2>1. 1 \in DOMAIN s
    BY <1>3
  <2>. QED BY <1>6, <1>12, <2>1, Zenon DEF Calling
<1>14. ASSUME NEW j \in DOMAIN r
       PROVE  j + 1 \in DOMAIN s /\ r[j] = s[j + 1] /\ 1 \in DOMAIN s /\ 1 < j + 1 /\ 1 # j + 1
  BY <1>3, <1>5, <1>6
<1>15. Apart(r)
  <2>. SUFFICES ASSUME NEW i \in DOMAIN r, NEW j \in DOMAIN r, i # j PROVE r[i].id # r[j].id
    BY DEF Apart
  <2>1. PICK k \in DOMAIN s : k = i + 1 /\ r[i] = s[k]
    BY <1>14
  <2>2. PICK l \in DOMAIN s : l = j + 1 /\ r[j] = s[l]
    BY <1>14
  <2>3. k # l
    BY <1>6, <2>1, <2>2
  <2>. QED BY <1>12, <2>1, <2>2, <2>3 DEF Calling, Apart
<1>16. ASSUME NEW i \in DOMAIN r, NEW j \in DOMAIN r, i < j
       PROVE  r[i].priority <= r[j].priority
  <2>1. PICK k \in DOMAIN s : k = i + 1 /\ r[i] = s[k]
    BY <1>14
  <2>2. PICK l \in DOMAIN s : l = j + 1 /\ r[j] = s[l]
    BY <1>14
  <2>3. k < l
    BY <1>6, <1>16, <2>1, <2>2
  <2>. QED BY <1>12, <2>1, <2>2, <2>3, Zenon DEF Calling
<1>17. ASSUME NEW j \in DOMAIN r PROVE h.id # r[j].id /\ h.priority <= r[j].priority
  <2>1. PICK l \in DOMAIN s : l = j + 1 /\ r[j] = s[l] /\ 1 \in DOMAIN s /\ 1 < l /\ 1 # l
    BY <1>14
  <2>. QED BY <1>6, <1>12, <2>1, Zenon DEF Calling, Apart
<1>18. ASSUME NEW i \in DOMAIN n, NEW j \in DOMAIN n, i < j
       PROVE  n[i].priority <= n[j].priority /\ n[i].of # n[j].of
  <2>1. i \in DOMAIN o /\ n[i] = o[i]
    BY <1>3, <1>10, <1>18
  <2>2. CASE j = Len(o) + 1
    BY <1>8, <1>10, <1>13, <2>1, <2>2
  <2>3. CASE j # Len(o) + 1
    <3>1. j \in DOMAIN o /\ n[j] = o[j]
      BY <1>3, <1>10, <2>3
    <3>. QED BY <1>12, <1>18, <2>1, <3>1, Zenon DEF Calling
  <2>. QED BY <2>2, <2>3
<1>19. ASSUME NEW i \in DOMAIN n, NEW j \in DOMAIN r
       PROVE  n[i].of # r[j].id /\ n[i].priority <= r[j].priority
  <2>1. CASE i = Len(o) + 1
    BY <1>8, <1>10, <1>17, <2>1
  <2>2. CASE i # Len(o) + 1
    <3>1. i \in DOMAIN o /\ n[i] = o[i]
      BY <1>3, <1>10, <2>2
    <3>2. PICK l \in DOMAIN s : r[j] = s[l]
      BY <1>14
    <3>. QED BY <1>12, <3>1, <3>2, Zenon DEF Calling
  <2>. QED BY <2>1, <2>2
<1>20. Calling(n, r)
  BY <1>15, <1>16, <1>18, <1>19, Zenon DEF Calling
<1>21. Head(offered).id = h.id
  BY <1>1, <1>4
<1>. QED BY <1>2, <1>3, <1>8, <1>10, <1>11, <1>13, <1>20, <1>21

\* What was collected stays so when one more handler is called, and what that one
\* queued comes after it.
LEMMA CollectedOn ==
    ASSUME NEW changes \in Seq(Callers), NEW done \in Seq(Outcome), NEW last \in Seq(Outcome),
           Collected(changes, done), NEW c,
           Len(done) \in Nat, DOMAIN done = 1..Len(done), DOMAIN last = 1..(Len(done) + 1),
           last[Len(done) + 1].of = c, \A i \in DOMAIN done : last[i] = done[i],
           \A i \in DOMAIN done : done[i].of # c
    PROVE  /\ Collected(changes, last)
           /\ \A more \in Seq(Callers) :
                last[Len(done) + 1].ok /\ (\A i \in DOMAIN more : more[i] = c) =>
                    Collected(changes \o more, last)
<1>1. ASSUME NEW i \in DOMAIN changes, NEW k \in DOMAIN last, last[k].of = changes[i]
      PROVE  k \in DOMAIN done /\ done[k].of = changes[i]
  <2>1. PICK l \in DOMAIN done : done[l].of = changes[i]
    BY Zenon DEF Collected
  <2>2. changes[i] # c
    BY <2>1
  <2>3. k # Len(done) + 1
    BY <1>1, <2>2
  <2>4. k \in DOMAIN done
    BY <2>3
  <2>. QED BY <1>1, <2>4
<1>2. ASSUME NEW i \in DOMAIN changes
      PROVE  \E k \in DOMAIN last : last[k].of = changes[i] /\ last[k].ok
  <2>1. PICK l \in DOMAIN done : done[l].of = changes[i] /\ done[l].ok
    BY Zenon DEF Collected
  <2>2. l \in DOMAIN last
    OBVIOUS
  <2>. QED BY <2>1, <2>2
<1>3. ASSUME NEW i \in DOMAIN changes, NEW j \in DOMAIN changes, i < j,
             NEW k \in DOMAIN last, NEW l \in DOMAIN last,
             last[k].of = changes[i], last[l].of = changes[j]
      PROVE  k <= l
  BY <1>1, <1>3, Zenon DEF Collected
<1>4. Collected(changes, last)
  BY <1>2, <1>3, Zenon DEF Collected
<1>5. ASSUME NEW more \in Seq(Callers), last[Len(done) + 1].ok, \A i \in DOMAIN more : more[i] = c
      PROVE  Collected(changes \o more, last)
  <2>1. PICK all : all = changes \o more
    OBVIOUS
  <2>2. /\ Len(changes) \in Nat /\ DOMAIN changes = 1..Len(changes)
        /\ Len(more) \in Nat /\ DOMAIN more = 1..Len(more)
    BY LenProperties
  <2>3. /\ DOMAIN all = 1..(Len(changes) + Len(more))
        /\ \A i \in 1..Len(changes) + Len(more) :
              all[i] = IF i <= Len(changes) THEN changes[i] ELSE more[i - Len(changes)]
    <3>1. /\ all \in Seq(Callers) /\ Len(all) = Len(changes) + Len(more)
          /\ \A i \in 1..Len(changes) + Len(more) :
              all[i] = IF i <= Len(changes) THEN changes[i] ELSE more[i - Len(changes)]
      BY <2>1, ConcatProperties
    <3>. QED BY <3>1, LenProperties
  <2>4. ASSUME NEW i \in DOMAIN all
        PROVE  IF i <= Len(changes) THEN i \in DOMAIN changes /\ all[i] = changes[i]
               ELSE all[i] = c
    <3>1. CASE i <= Len(changes)
      BY <2>2, <2>3, <3>1
    <3>2. CASE ~(i <= Len(changes))
      <4>1. i - Len(changes) \in DOMAIN more /\ all[i] = more[i - Len(changes)]
        BY <2>2, <2>3, <3>2
      <4>. QED BY <1>5, <3>2, <4>1
    <3>. QED BY <3>1, <3>2
  <2>5. Len(done) + 1 \in DOMAIN last
    OBVIOUS
  <2>6. ASSUME NEW i \in DOMAIN all
        PROVE  \E k \in DOMAIN last : last[k].of = all[i] /\ last[k].ok
    <3>1. CASE i <= Len(changes)
      BY <1>2, <2>4, <3>1
    <3>2. CASE ~(i <= Len(changes))
      BY <1>5, <2>4, <2>5, <3>2
    <3>. QED BY <3>1, <3>2
  <2>7. ASSUME NEW i \in DOMAIN all, NEW j \in DOMAIN all, i < j,
               NEW k \in DOMAIN last, NEW l \in DOMAIN last,
               last[k].of = all[i], last[l].of = all[j]
        PROVE  k <= l
    <3>1. CASE j <= Len(changes)
      <4>1. i <= Len(changes)
        BY <2>2, <2>3, <2>7, <3>1
      <4>. QED BY <1>3, <2>4, <2>7, <3>1, <4>1
    <3>2. CASE ~(j <= Len(changes))
      <4>1. last[l].of = c
        BY <2>4, <2>7, <3>2
      <4>2. l = Len(done) + 1
        <5>1. CASE l \in DOMAIN done
          BY <4>1, <5>1
        <5>2. CASE l \notin DOMAIN done
          BY <5>2
        <5>. QED BY <5>1, <5>2
      <4>. QED BY <4>2
    <3>. QED BY <3>1, <3>2
  <2>8. Collected(all, last)
    BY <2>6, <2>7, Zenon DEF Collected
  <2>. QED BY <2>1, <2>8
<1>. QED BY <1>4, <1>5

\* The handlers after one that is passed over.
LEMMA OnePassed ==
    ASSUME NEW done, NEW subs \in Seq(Subscription), subs # <<>>, Calling(done, subs)
    PROVE  Tail(subs) \in Seq(Subscription) /\ Calling(done, Tail(subs))
<1>1. PICK r \in Seq(Subscription) : r = Tail(subs) /\ Len(r) = Len(subs) - 1
        /\ \A i \in 1..Len(r) : r[i] = subs[i + 1]
  BY HeadTailProperties
<1>2. Len(subs) \in Nat /\ DOMAIN subs = 1..Len(subs) /\ DOMAIN r = 1..Len(r)
  BY LenProperties
<1>3. ASSUME NEW j \in DOMAIN r
      PROVE  j + 1 \in DOMAIN subs /\ r[j] = subs[j + 1]
  BY <1>1, <1>2
<1>4. Apart(r)
  <2>. SUFFICES ASSUME NEW i \in DOMAIN r, NEW j \in DOMAIN r, i # j PROVE r[i].id # r[j].id
    BY DEF Apart
  <2>1. PICK k \in DOMAIN subs : k = i + 1 /\ r[i] = subs[k]
    BY <1>3
  <2>2. PICK l \in DOMAIN subs : l = j + 1 /\ r[j] = subs[l]
    BY <1>3
  <2>3. k # l
    BY <1>2, <2>1, <2>2
  <2>. QED BY <2>1, <2>2, <2>3 DEF Calling, Apart
<1>5. ASSUME NEW i \in DOMAIN r, NEW j \in DOMAIN r, i < j
      PROVE  r[i].priority <= r[j].priority
  <2>1. PICK k \in DOMAIN subs : k = i + 1 /\ r[i] = subs[k]
    BY <1>3
  <2>2. PICK l \in DOMAIN subs : l = j + 1 /\ r[j] = subs[l]
    BY <1>3
  <2>3. k < l
    BY <1>2, <1>5, <2>1, <2>2
  <2>. QED BY <2>1, <2>2, <2>3, Zenon DEF Calling
<1>6. ASSUME NEW i \in DOMAIN done, NEW j \in DOMAIN r
      PROVE  done[i].of # r[j].id /\ done[i].priority <= r[j].priority
  <2>1. PICK l \in DOMAIN subs : r[j] = subs[l]
    BY <1>3
  <2>. QED BY <2>1, Zenon DEF Calling
<1>7. Calling(done, r)
  BY <1>4, <1>5, <1>6, Zenon DEF Calling
<1>. QED BY <1>1, <1>7

\* Nothing was called, or one handler was and there are no others.
LEMMA NoneCalled ==
    /\ \A subs : /\ Apart(subs)
                 /\ \A i, j \in DOMAIN subs : i < j => subs[i].priority <= subs[j].priority
                 => Calling(<<>>, subs)
    /\ \A done : Collected(<<>>, done)
    /\ Apart(<<>>)
    /\ \A e : Calling(<<e>>, <<>>)
<1>1. DOMAIN <<>> = {}
  OBVIOUS
<1>2. ASSUME NEW e PROVE Calling(<<e>>, <<>>)
  <2>1. DOMAIN <<e>> = {1} /\ ~(1 < 1)
    OBVIOUS
  <2>. QED BY <1>1, <2>1, Zenon DEF Calling, Apart
<1>3. Apart(<<>>)
  BY <1>1, Zenon DEF Apart
<1>4. ASSUME NEW subs, Apart(subs),
             \A i, j \in DOMAIN subs : i < j => subs[i].priority <= subs[j].priority
      PROVE  Calling(<<>>, subs)
  BY <1>1, <1>4, Zenon DEF Calling
<1>5. ASSUME NEW done PROVE Collected(<<>>, done)
  BY <1>1, Zenon DEF Collected
<1>. QED BY <1>2, <1>3, <1>4, <1>5

\* What the kinds of calls carry.
LEMMA CallKinds ==
    ASSUME dispatch \in Calls
    PROVE  /\ NothingRuns <=> dispatch.kind = "none"
           /\ dispatch.kind \in {"event", "running"} => dispatch.sector \in Areas
           /\ dispatch.kind = "running" => dispatch.of \in Callers
           /\ dispatch.kind = "checking" => dispatch.of \in Verbs
<1>1. CASE dispatch \in [kind : {"event"}, sector : Areas]
  BY <1>1 DEF NothingRuns, NoCall
<1>2. CASE dispatch \in [kind : {"running"}, of : Callers, sector : Areas]
  BY <1>2 DEF NothingRuns, NoCall
<1>3. CASE dispatch \in [kind : {"checking"}, of : Verbs]
  BY <1>3 DEF NothingRuns, NoCall
<1>4. CASE dispatch \in {Finished(s) : s \in {"ok", "failed", "refused"}}
  BY <1>4 DEF NothingRuns, NoCall, Finished
<1>5. CASE dispatch = NoCall
  BY <1>5 DEF NothingRuns, NoCall
<1>. QED BY <1>1, <1>2, <1>3, <1>4, <1>5, Zenon DEF Calls

\* The calls there are, and what they are of.
LEMMA CallsThere ==
    /\ \A s \in {"ok", "failed", "refused"} :
            Finished(s) \in Calls /\ Finished(s).kind = "done"
    /\ NoCall \in Calls /\ NoCall.kind = "none"
    /\ \A a \in Areas : [kind |-> "event", sector |-> a] \in Calls
    /\ \A c \in Callers, a \in Areas : [kind |-> "running", of |-> c, sector |-> a] \in Calls
    /\ \A v \in Verbs : [kind |-> "checking", of |-> v] \in Calls
<1>1. ASSUME NEW s \in {"ok", "failed", "refused"}
      PROVE  Finished(s) \in Calls /\ Finished(s).kind = "done"
  <2>1. Finished(s) \in Calls
    BY Zenon DEF Calls
  <2>2. Finished(s).kind = "done"
    BY DEF Finished
  <2>. QED BY <2>1, <2>2
<1>2. NoCall \in Calls /\ NoCall.kind = "none"
  <2>1. NoCall \in Calls
    BY Zenon DEF Calls
  <2>. QED BY <2>1 DEF NoCall
<1>3. ASSUME NEW a \in Areas PROVE [kind |-> "event", sector |-> a] \in Calls
  <2>1. [kind |-> "event", sector |-> a] \in [kind : {"event"}, sector : Areas]
    OBVIOUS
  <2>. QED BY <2>1, Zenon DEF Calls
<1>4. ASSUME NEW c \in Callers, NEW a \in Areas
      PROVE  [kind |-> "running", of |-> c, sector |-> a] \in Calls
  <2>1. [kind |-> "running", of |-> c, sector |-> a]
            \in [kind : {"running"}, of : Callers, sector : Areas]
    OBVIOUS
  <2>. QED BY <2>1, Zenon DEF Calls
<1>5. ASSUME NEW v \in Verbs PROVE [kind |-> "checking", of |-> v] \in Calls
  <2>1. [kind |-> "checking", of |-> v] \in [kind : {"checking"}, of : Verbs]
    OBVIOUS
  <2>. QED BY <2>1, Zenon DEF Calls
<1>. QED BY <1>1, <1>2, <1>3, <1>4, <1>5

\* Subscriptions come, go and are switched while a dispatch goes on without them.
LEMMA SubscribedChange ==
    ASSUME DispatchInv, UNCHANGED <<offered, verbs, off, reach, dispatch, queue, result,
           outcomes>>,
           subscribed' \in Seq(Subscription), Apart(subscribed')
    PROVE  DispatchInv'
<1>1. DispatchTypeOK'
  BY DEF DispatchInv, DispatchTypeOK
<1>2. Phases'
  BY DEF DispatchInv, Phases, InEvent, NothingRuns
<1>. QED BY <1>1, <1>2 DEF DispatchInv

\* Handlers come and go, and verbs are registered.
LEMMA SubscriptionSteps ==
    ASSUME DispatchInv, NEW s \in Subscribers,
           \/ Unsubscribe(s)
           \/ \E on \in BOOLEAN : SetEnabled(s, on)
           \/ \E p \in 0..1, a \in Areas \cup {Anywhere} : Subscribe(s, p, a)
    PROVE  DispatchInv'
<1>0. subscribed \in Seq(Subscription) /\ Apart(subscribed)
  BY DEF DispatchInv, DispatchTypeOK
<1>1. CASE Unsubscribe(s)
  <2>1. PICK keep : keep = {h \in Subscription : h.id # s}
    OBVIOUS
  <2>2. subscribed' = Those(subscribed, keep)
    BY <1>1, <2>1, Zenon DEF Unsubscribe
  <2>3. Among(subscribed, keep, Those(subscribed, keep))
    BY <1>0, ThoseAreAmong
  <2>4. PICK r \in Seq(Subscription) : r = Those(subscribed, keep) /\ Apart(r)
    BY <2>3 DEF Among
  <2>. QED BY <1>1, <2>2, <2>4, SubscribedChange DEF Unsubscribe, Unregistered
<1>2. ASSUME NEW on \in BOOLEAN, SetEnabled(s, on) PROVE DispatchInv'
  <2>1. PICK r : r = [i \in DOMAIN subscribed |->
            IF subscribed[i].id = s THEN [subscribed[i] EXCEPT !.enabled = on]
                                    ELSE subscribed[i]]
    OBVIOUS
  <2>2. Len(subscribed) \in Nat /\ DOMAIN subscribed = 1..Len(subscribed)
    BY <1>0, LenProperties
  <2>3. \A i \in DOMAIN subscribed : r[i] \in Subscription /\ r[i].id = subscribed[i].id
    <3>1. \A h \in Subscription : /\ [h EXCEPT !.enabled = on] \in Subscription
                                  /\ [h EXCEPT !.enabled = on].id = h.id
      BY DEF Subscription
    <3>2. ASSUME NEW i \in DOMAIN subscribed PROVE subscribed[i] \in Subscription
      BY <1>0, <2>2, ElementOfSeq
    <3>. HIDE DEF Subscription
    <3>. QED BY <2>1, <3>1, <3>2
  <2>4. DOMAIN r = 1..Len(subscribed)
    BY <2>1, <2>2
  <2>5. r \in Seq(Subscription)
    <3>1. r \in [1..Len(subscribed) -> Subscription]
      BY <2>1, <2>2, <2>3
    <3>. QED BY <2>2, <3>1
  <2>6. Apart(r)
    BY <1>0, <2>2, <2>3, <2>4, Zenon DEF Apart
  <2>7. subscribed' = r
    BY <1>2, <2>1, Zenon DEF SetEnabled
  <2>. QED BY <1>2, <2>5, <2>6, <2>7, SubscribedChange DEF SetEnabled, Unregistered
<1>3. ASSUME NEW p \in 0..1, NEW a \in Areas \cup {Anywhere}, Subscribe(s, p, a)
      PROVE  DispatchInv'
  <2>1. PICK h : h = [id |-> s, priority |-> p, sector |-> a, enabled |-> TRUE]
    OBVIOUS
  <2>2. h \in Subscription /\ h.id = s
    BY <2>1 DEF Subscription
  <2>3. PICK r : r = Append(subscribed, h)
    OBVIOUS
  <2>4. PICK m \in Nat : m = Len(subscribed) /\ DOMAIN subscribed = 1..m
    BY <1>0, LenProperties
  <2>5. /\ r \in Seq(Subscription) /\ DOMAIN r = 1..(m + 1)
        /\ r[m + 1] = h /\ \A i \in 1..m : r[i] = subscribed[i]
    <3>1. /\ r \in Seq(Subscription) /\ Len(r) = m + 1
          /\ r[m + 1] = h /\ \A i \in 1..m : r[i] = subscribed[i]
      BY <1>0, <2>2, <2>3, <2>4, AppendProperties
    <3>. QED BY <3>1, LenProperties
  <2>6. \A i \in DOMAIN subscribed : subscribed[i].id # s
    BY <1>3, Zenon DEF Subscribe, IdsOf
  <2>7. Apart(r)
    <3>. SUFFICES ASSUME NEW i \in DOMAIN r, NEW j \in DOMAIN r, i # j PROVE r[i].id # r[j].id
      BY DEF Apart
    <3>1. CASE i \in 1..m /\ j \in 1..m
      BY <1>0, <2>4, <2>5, <3>1 DEF Apart
    <3>2. CASE i = m + 1
      BY <2>2, <2>4, <2>5, <2>6, <3>2
    <3>3. CASE j = m + 1
      BY <2>2, <2>4, <2>5, <2>6, <3>3
    <3>. QED BY <2>5, <3>1, <3>2, <3>3
  <2>8. subscribed' = r
    BY <1>3, <2>1, <2>3 DEF Subscribe
  <2>. QED BY <1>3, <2>5, <2>7, <2>8, SubscribedChange DEF Subscribe, Unregistered
<1>. QED BY <1>1, <1>2, <1>3

\* The registries of verbs change between dispatches.
LEMMA VerbSteps ==
    ASSUME DispatchInv, NEW v \in Verbs,
           Disable(v) \/ \E how \in Registrations : Register(v, how)
    PROVE  DispatchInv'
<1>1. /\ verbs' \in [Verbs -> Registrations] /\ off' \subseteq Verbs
      /\ UNCHANGED <<subscribed, offered, reach, dispatch, queue, result, outcomes>>
  BY DEF DispatchInv, DispatchTypeOK, Disable, Register
<1>2. DispatchTypeOK'
  BY <1>1 DEF DispatchInv, DispatchTypeOK
<1>3. Phases'
  BY <1>1 DEF DispatchInv, Phases, InEvent, NothingRuns
<1>. QED BY <1>1, <1>2, <1>3 DEF DispatchInv

\* The dispatches begin, and are taken.
LEMMA DispatchBegins ==
    ASSUME DispatchInv,
           \/ \E a \in Areas : DispatchEvent(a)
           \/ \E v \in Verbs : DispatchVerb(v)
           \/ EventDone \/ TakeDispatched
           \/ \E a \in Areas : SetByBehavior(a)
    PROVE  DispatchInv'
<1>0. /\ DispatchTypeOK /\ subscribed \in Seq(Subscription) /\ Apart(subscribed)
      /\ dispatch \in Calls
      /\ Phases /\ Calling(outcomes, offered) /\ Collected(result, outcomes)
  BY DEF DispatchInv, DispatchTypeOK
<1>1. ASSUME NEW a \in Areas, DispatchEvent(a) PROVE DispatchInv'
  <2>1. PICK d : d = [kind |-> "event", sector |-> a]
    OBVIOUS
  <2>2. d \in Calls /\ d.kind = "event"
    BY <2>1, CallsThere
  <2>3. PICK r \in Seq(Subscription) : r = Sorted(subscribed) /\ Apart(r) /\
          \A i, j \in DOMAIN r : i < j => r[i].priority <= r[j].priority
    BY <1>0, SortedIs, Zenon
  <2>4. /\ dispatch' = d /\ offered' = r /\ NothingRuns /\ queue = <<>>
        /\ UNCHANGED <<subscribed, verbs, off, reach, queue, result, outcomes>>
    BY <1>1, <2>1, <2>3 DEF DispatchEvent
  <2>5. outcomes = <<>> /\ result = <<>>
    BY <1>0, <2>4 DEF Phases
  <2>6. Calling(<<>>, r) /\ Collected(<<>>, outcomes)
    BY <2>3, NoneCalled, Zenon
  <2>7. DispatchTypeOK'
    BY <1>0, <2>2, <2>4 DEF DispatchTypeOK
  <2>8. Phases'
    BY <2>2, <2>4, <2>5 DEF Phases, InEvent, NothingRuns, NoCall
  <2>9. Calling(outcomes', offered') /\ Collected(result', outcomes') /\ Apart(subscribed')
    BY <1>0, <2>4, <2>5, <2>6
  <2>. QED BY <2>7, <2>8, <2>9 DEF DispatchInv
<1>2. ASSUME NEW v \in Verbs, DispatchVerb(v) PROVE DispatchInv'
  <2>1. PICK d \in Calls : /\ d.kind \in {"done", "checking"}
                           /\ dispatch' = d
    BY <1>2, CallsThere DEF DispatchVerb
  <2>2. /\ NothingRuns /\ queue = <<>>
        /\ UNCHANGED <<reach, queue, result, outcomes, subscribed, verbs, off, offered>>
    BY <1>2 DEF DispatchVerb, SameRegistries
  <2>3. outcomes = <<>> /\ result = <<>> /\ offered = <<>>
    BY <1>0, <2>2, CallKinds DEF Phases, InEvent
  <2>4. DispatchTypeOK'
    BY <1>0, <2>1, <2>2 DEF DispatchTypeOK
  <2>5. Phases'
    BY <2>1, <2>2, <2>3 DEF Phases, InEvent, NothingRuns, NoCall
  <2>. QED BY <1>0, <2>2, <2>4, <2>5 DEF DispatchInv
<1>3. CASE EventDone
  <2>1. /\ dispatch' \in Calls /\ dispatch'.kind = "done" /\ dispatch.kind = "event"
        /\ offered = <<>>
        /\ UNCHANGED <<subscribed, verbs, off, reach, offered, queue, result, outcomes>>
    BY <1>3, CallsThere DEF EventDone
  <2>2. \A i \in DOMAIN queue : FALSE
    BY <1>0, <2>1 DEF Phases
  <2>3. DispatchTypeOK'
    BY <1>0, <2>1 DEF DispatchTypeOK
  <2>4. Phases'
    BY <2>1, <2>2 DEF Phases, InEvent, NothingRuns, NoCall
  <2>. QED BY <1>0, <2>1, <2>3, <2>4 DEF DispatchInv
<1>4. CASE TakeDispatched
  <2>1. /\ dispatch' = NoCall /\ dispatch'.kind = "none" /\ dispatch.kind = "done"
        /\ result' = <<>> /\ outcomes' = <<>>
        /\ UNCHANGED <<reach, queue, subscribed, verbs, off, offered>>
    BY <1>4, CallsThere DEF TakeDispatched, SameRegistries
  <2>2. offered = <<>> /\ \A i \in DOMAIN queue : FALSE
    BY <1>0, <2>1 DEF Phases, InEvent
  <2>3. DispatchTypeOK'
    BY <1>0, <2>1, CallsThere DEF DispatchTypeOK
  <2>4. Phases'
    BY <2>1, <2>2 DEF Phases, InEvent, NothingRuns
  <2>5. Calling(<<>>, offered) /\ Collected(<<>>, outcomes')
    BY <1>0, NoneCalled DEF Calling
  <2>6. Calling(outcomes', offered') /\ Collected(result', outcomes') /\ Apart(subscribed')
    BY <1>0, <2>1, <2>5
  <2>. QED BY <2>3, <2>4, <2>6 DEF DispatchInv
<1>5. ASSUME NEW a \in Areas, SetByBehavior(a) PROVE DispatchInv'
  <2>1. /\ reach' = a
        /\ UNCHANGED <<dispatch, queue, result, outcomes, subscribed, verbs, off, offered>>
    BY <1>5 DEF SetByBehavior, SameRegistries
  <2>2. DispatchTypeOK'
    BY <1>0, <2>1 DEF DispatchTypeOK
  <2>3. Phases'
    BY <1>0, <2>1 DEF Phases, InEvent, NothingRuns
  <2>. QED BY <1>0, <2>1, <2>2, <2>3 DEF DispatchInv
<1>. QED BY <1>1, <1>2, <1>3, <1>4, <1>5

\* A handler is passed over, entered, queues a change, or ends.
LEMMA HandlerSteps ==
    ASSUME DispatchInv,
           \/ PassHandler \/ EnterHandler \/ QueueFromHandler
           \/ \E ok \in BOOLEAN : HandlerEnds(ok)
    PROVE  DispatchInv'
<1>0. /\ DispatchTypeOK /\ Apart(subscribed) /\ dispatch \in Calls
      /\ Phases /\ Calling(outcomes, offered) /\ Collected(result, outcomes)
      /\ offered \in Seq(Subscription) /\ outcomes \in Seq(Outcome)
      /\ queue \in Seq(Callers) /\ result \in Seq(Callers)
  BY DEF DispatchInv, DispatchTypeOK, Outcome
<1>1. CASE PassHandler
  <2>1. /\ dispatch.kind = "event" /\ offered # <<>> /\ offered' = Tail(offered)
        /\ UNCHANGED <<subscribed, verbs, off, reach, dispatch, queue, result>>
        /\ Ended(Head(offered), FALSE) \/ UNCHANGED outcomes
    BY <1>1 DEF PassHandler
  <2>2. Phases'
    BY <1>0, <2>1 DEF Phases, InEvent, NothingRuns, NoCall
  <2>3. CASE Ended(Head(offered), FALSE)
    <3>1. /\ offered' \in Seq(Subscription) /\ outcomes' \in Seq(Outcome)
          /\ Calling(outcomes', offered')
          /\ Len(outcomes') = Len(outcomes) + 1 /\ Len(outcomes) \in Nat
          /\ outcomes'[Len(outcomes) + 1].of = Head(offered).id
          /\ DOMAIN outcomes' = 1..(Len(outcomes) + 1) /\ DOMAIN outcomes = 1..Len(outcomes)
          /\ \A i \in DOMAIN outcomes : outcomes'[i] = outcomes[i]
          /\ \A i \in DOMAIN outcomes : outcomes[i].of # Head(offered).id
      BY <1>0, <2>1, <2>3, OneCalled
    <3>2. PICK o \in Seq(Outcome) : o = outcomes'
      BY <3>1
    <3>3. PICK c : c = Head(offered).id
      OBVIOUS
    <3>4. Collected(result, o)
      BY <1>0, <3>1, <3>2, <3>3, CollectedOn
    <3>5. DispatchTypeOK'
      BY <1>0, <2>1, <3>1 DEF DispatchTypeOK, Outcome
    <3>6. Collected(result', outcomes')
      BY <2>1, <3>2, <3>4
    <3>. QED BY <1>0, <2>1, <2>2, <3>1, <3>5, <3>6 DEF DispatchInv
  <2>4. CASE UNCHANGED outcomes
    <3>1. offered' \in Seq(Subscription) /\ Calling(outcomes', offered')
      BY <1>0, <2>1, <2>4, OnePassed
    <3>2. DispatchTypeOK'
      BY <1>0, <2>1, <2>4, <3>1 DEF DispatchTypeOK
    <3>. QED BY <1>0, <2>1, <2>2, <2>4, <3>1, <3>2 DEF DispatchInv
  <2>. QED BY <2>1, <2>3, <2>4
<1>2. CASE EnterHandler
  <2>1. PICK h : h = Head(offered)
    OBVIOUS
  <2>2. offered # <<>> /\ dispatch.kind = "event"
    BY <1>2 DEF EnterHandler
  <2>3. h \in Subscription
    BY <1>0, <2>1, <2>2, HeadTailProperties
  <2>4. /\ h.id \in Subscribers /\ h.id \in Callers /\ h.sector \in Areas \cup {Anywhere}
        /\ h.id \notin Verbs
    BY <2>3, CallerAssumption DEF Subscription, Callers
  <2>5. PICK d : d = [kind |-> "running", of |-> h.id, sector |-> dispatch.sector]
    OBVIOUS
  <2>6. d \in Calls /\ d.kind = "running" /\ d.of = h.id
    BY <1>0, <2>2, <2>4, <2>5, CallKinds, CallsThere
  <2>7. /\ dispatch' = d /\ reach' = h.sector
        /\ UNCHANGED <<subscribed, verbs, off, offered, queue, result, outcomes>>
    BY <1>2, <2>1, <2>5 DEF EnterHandler
  <2>8. DispatchTypeOK'
    BY <1>0, <2>4, <2>6, <2>7 DEF DispatchTypeOK
  <2>9. \A i \in DOMAIN queue : FALSE
    BY <1>0, <2>2 DEF Phases
  <2>10. Phases'
    BY <2>1, <2>2, <2>4, <2>6, <2>7, <2>9 DEF Phases, InEvent, NothingRuns, NoCall
  <2>. QED BY <1>0, <2>7, <2>8, <2>10 DEF DispatchInv
<1>3. CASE QueueFromHandler
  <2>1. /\ dispatch.kind = "running"
        /\ UNCHANGED <<subscribed, verbs, off, reach, dispatch, offered, result, outcomes>>
    BY <1>3 DEF QueueFromHandler
  <2>2. PICK c \in Callers : c = dispatch.of
    BY <1>0, <2>1, CallKinds
  <2>3. PICK q : q = Append(queue, c)
    OBVIOUS
  <2>4. queue' = q
    BY <1>3, <2>2, <2>3 DEF QueueFromHandler
  <2>5. q \in Seq(Callers) /\ \A i \in DOMAIN q : q[i] = c
    <3>1. /\ q \in Seq(Callers) /\ Len(q) = Len(queue) + 1 /\ Len(queue) \in Nat
          /\ DOMAIN queue = 1..Len(queue)
          /\ q[Len(queue) + 1] = c /\ \A i \in 1..Len(queue) : q[i] = queue[i]
      BY <1>0, <2>3, AppendProperties, LenProperties
    <3>2. DOMAIN q = 1..(Len(queue) + 1)
      BY <3>1, LenProperties
    <3>3. \A i \in 1..Len(queue) : queue[i] = c
      BY <1>0, <2>2, <3>1 DEF Phases
    <3>. QED BY <3>1, <3>2, <3>3
  <2>6. DispatchTypeOK'
    BY <1>0, <2>1, <2>4, <2>5 DEF DispatchTypeOK
  <2>7. Phases'
    BY <1>0, <2>1, <2>2, <2>4, <2>5 DEF Phases, InEvent, NothingRuns
  <2>. QED BY <1>0, <2>1, <2>6, <2>7 DEF DispatchInv
<1>4. ASSUME NEW ok \in BOOLEAN, HandlerEnds(ok) PROVE DispatchInv'
  <2>1. /\ InEvent /\ offered # <<>> /\ dispatch.of = Head(offered).id
        /\ dispatch.kind = "running"
    BY <1>0, <1>4 DEF HandlerEnds, InEvent, Phases
  <2>2. PICK d : d = [kind |-> "event", sector |-> dispatch.sector]
    OBVIOUS
  <2>3. d \in Calls /\ d.kind = "event"
    BY <1>0, <2>1, <2>2, CallKinds, CallsThere
  <2>4. /\ queue' = <<>> /\ result' = IF ok THEN result \o queue ELSE result
        /\ Ended(Head(offered), ok) /\ offered' = Tail(offered)
        /\ dispatch' = d /\ UNCHANGED <<subscribed, verbs, off, reach>>
    BY <1>4, <2>2 DEF HandlerEnds, Taken
  <2>5. /\ offered' \in Seq(Subscription) /\ outcomes' \in Seq(Outcome)
        /\ Calling(outcomes', offered')
        /\ Len(outcomes') = Len(outcomes) + 1 /\ Len(outcomes) \in Nat
        /\ outcomes'[Len(outcomes) + 1].of = Head(offered).id
        /\ outcomes'[Len(outcomes) + 1].ok = ok
        /\ DOMAIN outcomes' = 1..(Len(outcomes) + 1) /\ DOMAIN outcomes = 1..Len(outcomes)
        /\ \A i \in DOMAIN outcomes : outcomes'[i] = outcomes[i]
        /\ \A i \in DOMAIN outcomes : outcomes[i].of # Head(offered).id
    BY <1>0, <2>1, <2>4, OneCalled
  <2>6. PICK o \in Seq(Outcome) : o = outcomes'
    BY <2>5
  <2>7. PICK c : c = Head(offered).id
    OBVIOUS
  <2>8. \A i \in DOMAIN queue : queue[i] = c
    BY <1>0, <2>1, <2>7 DEF Phases
  <2>9. /\ Collected(result, o)
        /\ \A more \in Seq(Callers) :
              o[Len(outcomes) + 1].ok /\ (\A i \in DOMAIN more : more[i] = c) =>
                  Collected(result \o more, o)
    BY <1>0, <2>5, <2>6, <2>7, CollectedOn
  <2>10. result' \in Seq(Callers) /\ Collected(result', outcomes')
    <3>1. CASE ok
      <4>1. o[Len(outcomes) + 1].ok
        BY <2>5, <2>6, <3>1
      <4>2. Collected(result \o queue, o)
        BY <1>0, <2>8, <2>9, <4>1
      <4>3. result \o queue \in Seq(Callers)
        BY <1>0, ConcatProperties
      <4>. QED BY <2>4, <2>6, <3>1, <4>2, <4>3
    <3>2. CASE ~ok
      BY <1>0, <2>4, <2>6, <2>9, <3>2
    <3>. QED BY <3>1, <3>2
  <2>11. DispatchTypeOK'
    BY <1>0, <2>3, <2>4, <2>5, <2>10 DEF DispatchTypeOK, Outcome
  <2>12. Phases'
    BY <2>3, <2>4 DEF Phases, InEvent, NothingRuns, NoCall
  <2>. QED BY <1>0, <2>4, <2>5, <2>10, <2>11, <2>12 DEF DispatchInv
<1>. QED BY <1>1, <1>2, <1>3, <1>4

\* A verb is checked, and its script ends.
LEMMA VerbRuns ==
    ASSUME DispatchInv,
           \/ \E b, d \in BOOLEAN : Check(b, d)
           \/ \E b \in BOOLEAN, s \in {"ok", "failed"} : VerbEnds(b, s)
    PROVE  DispatchInv'
<1>0. /\ DispatchTypeOK /\ Apart(subscribed) /\ dispatch \in Calls
      /\ Phases /\ Calling(outcomes, offered) /\ Collected(result, outcomes)
      /\ offered \in Seq(Subscription) /\ outcomes \in Seq(Outcome)
      /\ queue \in Seq(Callers) /\ result \in Seq(Callers)
  BY DEF DispatchInv, DispatchTypeOK, Outcome
<1>1. ASSUME NEW b \in BOOLEAN, NEW m \in BOOLEAN, Check(b, m) PROVE DispatchInv'
  <2>1. /\ dispatch.kind = "checking"
        /\ UNCHANGED <<queue, result, outcomes, subscribed, verbs, off, offered>>
    BY <1>1 DEF Check, SameRegistries
  <2>2. PICK v \in Verbs : v = dispatch.of
    BY <1>0, <2>1, CallKinds
  <2>3. v \in Callers /\ v \notin Subscribers /\ Home \in Areas
    BY CallerAssumption, AreaAssumption DEF Callers
  <2>4. PICK d \in Calls : /\ dispatch' = d
                           /\ \/ d.kind = "done"
                              \/ d.kind = "running" /\ d.of = v
    <3>1. CASE RunsScript(v, b)
      <4>1. PICK d : d = [kind |-> "running", of |-> v, sector |-> Home]
        OBVIOUS
      <4>2. d \in Calls /\ d.kind = "running" /\ d.of = v
        BY <2>3, <4>1, CallsThere
      <4>. QED BY <3>1, <4>1, <4>2 DEF RunsScript
    <3>2. CASE \E s \in {"ok", "failed", "refused"} : dispatch' = Finished(s)
      BY <3>2, CallsThere
    <3>3. RunsScript(v, b) \/ \E s \in {"ok", "failed", "refused"} : dispatch' = Finished(s)
      BY <1>1, <2>2 DEF Check
    <3>. QED BY <3>1, <3>2, <3>3
  <2>5. reach' \in Areas \cup {Anywhere}
    BY <1>0, <1>1 DEF Check, RunsScript, DispatchTypeOK
  <2>6. outcomes = <<>> /\ result = <<>> /\ offered = <<>> /\ \A i \in DOMAIN queue : FALSE
    BY <1>0, <2>1 DEF Phases, InEvent
  <2>7. DispatchTypeOK'
    BY <1>0, <2>1, <2>4, <2>5 DEF DispatchTypeOK
  <2>8. Phases'
    BY <2>1, <2>3, <2>4, <2>6 DEF Phases, InEvent, NothingRuns, NoCall
  <2>. QED BY <1>0, <2>1, <2>7, <2>8 DEF DispatchInv
<1>2. ASSUME NEW threw \in BOOLEAN, NEW s \in {"ok", "failed"}, VerbEnds(threw, s)
      PROVE  DispatchInv'
  <2>1. /\ dispatch.kind = "running" /\ dispatch.of \in Verbs
        /\ UNCHANGED <<reach, subscribed, verbs, off, offered>>
        /\ queue' = <<>> /\ result' = IF threw THEN <<>> ELSE queue
        /\ dispatch' \in Calls /\ dispatch'.kind = "done"
    BY <1>2, CallsThere DEF VerbEnds, SameRegistries, Taken
  <2>2. PICK c \in Verbs : c = dispatch.of
    BY <2>1
  <2>a. PICK b \in BOOLEAN : b = ~threw
    OBVIOUS
  <2>3. PICK e : e = [of |-> c, priority |-> 0, ok |-> b]
    OBVIOUS
  <2>4. e \in Outcome /\ e.of = c /\ (e.ok <=> ~threw)
    <3>1. e \in Outcome /\ e.of = c
      BY <2>3 DEF Outcome, Callers
    <3>2. e.ok = b
      BY <2>3
    <3>. QED BY <2>a, <3>1, <3>2
  <2>5. PICK o : o = <<e>>
    OBVIOUS
  <2>6. o \in Seq(Outcome) /\ DOMAIN o = {1} /\ o[1] = e
    BY <2>4, <2>5
  <2>7. outcomes' = o
    BY <1>2, <2>2, <2>a, <2>3, <2>5 DEF VerbEnds
  <2>8. offered = <<>>
    BY <1>0, <2>1, CallerAssumption DEF Phases, InEvent
  <2>9. Calling(o, <<>>)
    BY <2>5, NoneCalled, Zenon
  <2>10. Collected(queue, o) \/ threw
    <3>1. \A i \in DOMAIN queue : queue[i] = c
      BY <1>0, <2>2 DEF Phases
    <3>2. \A k, l \in DOMAIN o : k <= l
      BY <2>6
    <3>3. ~threw => \A i \in DOMAIN queue : \E k \in DOMAIN o : o[k].of = queue[i] /\ o[k].ok
      BY <2>4, <2>6, <3>1
    <3>. QED BY <3>2, <3>3, Zenon DEF Collected
  <2>11. Collected(<<>>, o)
    BY NoneCalled
  <2>12. Collected(result', outcomes') /\ result' \in Seq(Callers)
    BY <1>0, <2>1, <2>7, <2>10, <2>11
  <2>13. Calling(outcomes', offered')
    BY <2>1, <2>7, <2>8, <2>9
  <2>14. DispatchTypeOK'
    BY <1>0, <2>1, <2>6, <2>7, <2>12 DEF DispatchTypeOK, Outcome
  <2>15. Phases'
    BY <2>1, <2>8 DEF Phases, InEvent, NothingRuns, NoCall
  <2>. QED BY <1>0, <2>1, <2>12, <2>13, <2>14, <2>15 DEF DispatchInv
<1>. QED BY <1>1, <1>2

\* Whatever is dispatched keeps it.
LEMMA DispatchInductive == DispatchInv /\ [DispatchNext]_dispatchVars => DispatchInv'
<1>. SUFFICES ASSUME DispatchInv, [DispatchNext]_dispatchVars PROVE DispatchInv'
  OBVIOUS
<1>1. ASSUME NEW s \in Subscribers,
             \/ Unsubscribe(s)
             \/ \E on \in BOOLEAN : SetEnabled(s, on)
             \/ \E p \in 0..1, a \in Areas \cup {Anywhere} : Subscribe(s, p, a)
      PROVE  DispatchInv'
  BY <1>1, SubscriptionSteps, Zenon
<1>2. ASSUME NEW v \in Verbs, Disable(v) \/ \E how \in Registrations : Register(v, how)
      PROVE  DispatchInv'
  BY <1>2, VerbSteps, Zenon
<1>3. ASSUME \/ \E a \in Areas : DispatchEvent(a)
             \/ \E v \in Verbs : DispatchVerb(v)
             \/ EventDone \/ TakeDispatched
             \/ \E a \in Areas : SetByBehavior(a)
      PROVE  DispatchInv'
  BY <1>3, DispatchBegins, Zenon
<1>4. ASSUME \/ PassHandler \/ EnterHandler \/ QueueFromHandler
             \/ \E ok \in BOOLEAN : HandlerEnds(ok)
      PROVE  DispatchInv'
  BY <1>4, HandlerSteps, Zenon
<1>5. ASSUME \/ \E b, d \in BOOLEAN : Check(b, d)
             \/ \E b \in BOOLEAN, s \in {"ok", "failed"} : VerbEnds(b, s)
      PROVE  DispatchInv'
  BY <1>5, VerbRuns, Zenon
<1>6. CASE UNCHANGED dispatchVars
  BY <1>6 DEF dispatchVars, DispatchInv, DispatchTypeOK, Phases, InEvent, NothingRuns
<1>. QED BY <1>1, <1>2, <1>3, <1>4, <1>5, <1>6, Zenon DEF DispatchNext

\* Whatever handlers there are, and whichever of them throw, what a dispatch hands on is
\* of those that returned, in the order of their calls (HandlersIsolated).
THEOREM HandlersStayApart == DispatchSpec => [](DispatchTypeOK /\ HandlersIsolated)
<1>1. DispatchInit => DispatchInv
  <2>. SUFFICES ASSUME DispatchInit PROVE DispatchInv
    OBVIOUS
  <2>1. DispatchTypeOK
    BY CallsThere DEF DispatchInit, DispatchTypeOK, Registrations
  <2>2. Apart(subscribed) /\ Calling(outcomes, offered) /\ Collected(result, outcomes)
    BY NoneCalled DEF DispatchInit
  <2>3. Phases
    BY CallsThere DEF DispatchInit, Phases, InEvent
  <2>. QED BY <2>1, <2>2, <2>3 DEF DispatchInv
<1>2. DispatchInv => DispatchTypeOK /\ HandlersIsolated
  BY HandlersAreApart DEF DispatchInv
<1>. QED BY <1>1, <1>2, DispatchInductive, PTL DEF DispatchSpec

-----------------------------------------------------------------------------
(***************************************************************************)
(* Action scripts.  What serves an action was registered by a line of a    *)
(* script, and whoever is registered has such a line.                      *)
(***************************************************************************)

\* A line of the script's init() registers a handler of the action.
RegisteredAt(s, i, a) ==
    /\ i \in DOMAIN statements[s]
    /\ Registers(statements[s][i]) /\ statements[s][i].action = a

\* What serves an action was registered by a line of its script, before the server
\* began nothing was, and a script that registered an action has such a line.
ActionInv ==
    /\ ActionsTypeOK
    /\ ~begun => toInit = {} /\ \A a \in ActionNames : served[a] = Unserved /\ registrars[a] = {}
    /\ \A a \in ActionNames : served[a] # Unserved =>
        /\ served[a].script \in ActionFiles /\ served[a].handler \in Handlers
        /\ \E i \in DOMAIN statements[served[a].script] :
                /\ RegisteredAt(served[a].script, i, a)
                /\ statements[served[a].script][i].handler = served[a].handler
    /\ \A a \in ActionNames : \A s \in registrars[a] : \E i \in Nat : RegisteredAt(s, i, a)

\* The lines of a script have their fields.
LEMMA LineAt ==
    ASSUME ActionInv, NEW s \in ActionFiles, NEW i \in DOMAIN statements[s]
    PROVE  /\ statements[s][i] \in Lines /\ i \in Nat
           /\ Registers(statements[s][i]) =>
                statements[s][i].action \in ActionNames /\ statements[s][i].handler \in Handlers
<1>1. statements[s] \in Seq(Lines)
  BY DEF ActionInv, ActionsTypeOK
<1>2. i \in 1..Len(statements[s]) /\ i \in Nat
  BY <1>1, LenProperties
<1>3. statements[s][i] \in Lines
  BY <1>1, <1>2, ElementOfSeq
<1>4. PICK line \in Lines : line = statements[s][i]
  BY <1>3
<1>5. Registers(line) => line.action \in ActionNames /\ line.handler \in Handlers
  BY DEF Registers, Lines
<1>. QED BY <1>2, <1>3, <1>4, <1>5

\* The validator finds an action that a script registers.
LEMMA FoundInText ==
    ASSUME ActionInv, NEW s \in ActionFiles, NEW i, NEW a, RegisteredAt(s, i, a)
    PROVE  /\ \E j \in Extracted(s) : statements[s][j].action = a
           /\ i \in Extracted(s) \/ Overlooked(s, i)
<1>1. i \in DOMAIN statements[s] /\ statements[s][i].action = a
      /\ statements[s][i].op \in {"register", "require"}
  BY DEF RegisteredAt, Registers
<1>2. ASSUME NEW j \in PlainLines(s) PROVE j \in Extracted(s)
  BY <1>2 DEF Extracted
<1>3. CASE statements[s][i].op = "register"
  <2>1. i \in Extracted(s)
    BY <1>1, <1>3 DEF Extracted, PlainLines
  <2>. QED BY <1>1, <2>1
<1>4. CASE statements[s][i].op = "require"
  <2>1. i \in Extracted(s) \/ Overlooked(s, i)
    BY <1>1, <1>4, Zenon DEF Extracted
  <2>2. CASE \E j \in PlainLines(s) : statements[s][j].action = a
    BY <1>2, <2>1, <2>2
  <2>3. CASE \A j \in PlainLines(s) : statements[s][j].action # a
    <3>. DEFINE S == {k \in DOMAIN statements[s] :
                        statements[s][k].op = "require" /\ statements[s][k].action = a}
    <3>1. DOMAIN statements[s] = 1..Len(statements[s]) /\ Len(statements[s]) \in Nat
      <4>1. statements[s] \in Seq(Lines)
        BY DEF ActionInv, ActionsTypeOK
      <4>. QED BY <4>1, LenProperties
    <3>2. S \subseteq 0..Len(statements[s]) /\ S # {}
      BY <1>1, <1>4, <3>1
    <3>3. PICK m \in S : \A l \in S : m <= l
      <4>. HIDE DEF S
      <4>. QED BY <3>1, <3>2, Least
    <3>4. m \in 1..Len(statements[s]) /\ statements[s][m].op = "require"
          /\ statements[s][m].action = a /\ m \in DOMAIN statements[s]
      BY <3>1
    <3>5. ASSUME NEW k \in 1..m - 1, statements[s][k].op = "require",
                 statements[s][k].action = a
          PROVE  FALSE
      <4>1. k \in S
        BY <3>1, <3>4, <3>5
      <4>2. m <= k
        BY <3>3, <4>1
      <4>. QED BY <3>1, <3>4, <4>2
    <3>. HIDE DEF S
    <3>6. ~Overlooked(s, m)
      BY <2>3, <3>4, <3>5 DEF Overlooked
    <3>7. m \in Extracted(s)
      BY <3>4, <3>6, Zenon DEF Extracted
    <3>. QED BY <2>1, <3>4, <3>7
  <2>. QED BY <2>2, <2>3
<1>. QED BY <1>1, <1>3, <1>4

\* It implies that the reports hold.
LEMMA ReportsFollow == ActionInv => ReportsHold
<1>. SUFFICES ASSUME ActionInv PROVE ReportsHold
  OBVIOUS
<1>1. ASSUME NEW a \in ActionNames, served[a] # Unserved, ValidFile(served[a].script),
             NEW s \in ActionFiles, s = served[a].script,
             NEW h \in Handlers, h = served[a].handler
      PROVE  Serves(s, h) \/ \E i \in DOMAIN statements[s] :
                    /\ statements[s][i].action = a /\ statements[s][i].handler = h
                    /\ Overlooked(s, i)
  <2>1. PICK i \in DOMAIN statements[s] : RegisteredAt(s, i, a) /\ statements[s][i].handler = h
    BY <1>1 DEF ActionInv
  <2>2. CASE i \in Extracted(s)
    <3>1. ~Misfit(s, h) /\ ~FaultyBody(s, h)
      BY <1>1, <2>1, <2>2 DEF ValidFile
    <3>2. defined[s][h] \in Definitions
      BY DEF ActionInv, ActionsTypeOK
    <3>. QED BY <3>1, <3>2 DEF Misfit, FaultyBody, Definitions, Serves
  <2>3. CASE Overlooked(s, i)
    BY <2>1, <2>3 DEF RegisteredAt
  <2>. QED BY <2>1, <2>2, <2>3, FoundInText
<1>2. ValidActionsAreServed
  BY <1>1 DEF ValidActionsAreServed, ActionInv
<1>3. ASSUME NEW a \in ActionNames, Cardinality(registrars[a]) > 1 PROVE ConflictWarned(a)
  <2>1. registrars[a] \subseteq ActionFiles /\ IsFiniteSet(registrars[a])
    <3>1. registrars[a] \subseteq ActionFiles
      BY DEF ActionInv, ActionsTypeOK
    <3>. QED BY <3>1, ActionFilesAssumption, FS_Subset
  <2>2. PICK s, r \in registrars[a] : s # r
    <3>1. SUFFICES ASSUME \A s, r \in registrars[a] : s = r PROVE FALSE
      OBVIOUS
    <3>2. CASE registrars[a] = {}
      BY <1>3, <3>2, FS_EmptySet
    <3>3. ASSUME NEW x \in registrars[a] PROVE FALSE
      <4>1. registrars[a] = {x}
        BY <3>1, <3>3
      <4>2. Cardinality({x}) = 1
        BY FS_Singleton
      <4>. QED BY <1>3, <4>1, <4>2
    <3>. QED BY <3>2, <3>3
  <2>3. PICK i \in Nat : RegisteredAt(s, i, a)
    BY DEF ActionInv
  <2>4. PICK j \in Nat : RegisteredAt(r, j, a)
    BY DEF ActionInv
  <2>5. PICK k \in Extracted(s) : statements[s][k].action = a
    BY <2>1, <2>3, FoundInText
  <2>6. PICK l \in Extracted(r) : statements[r][l].action = a
    BY <2>1, <2>4, FoundInText
  <2>7. <<s, k>> # <<r, l>> /\ s \in ActionFiles /\ r \in ActionFiles
    BY <2>1, <2>2
  <2>. QED BY <2>5, <2>6, <2>7, Zenon DEF ConflictWarned
<1>4. NoSilentConflict
  BY <1>3 DEF NoSilentConflict
<1>. QED BY <1>2, <1>4 DEF ReportsHold

\* A set of lines has a last one.
LEMMA LastLine ==
    ASSUME NEW n \in Nat, NEW S, S \subseteq 1..n, S # {}
    PROVE  \E i \in S : \A j \in S : j <= i
<1>. DEFINE T == {n - i : i \in S}
<1>1. T \subseteq 0..n /\ T # {}
  <2>1. ASSUME NEW i \in S PROVE n - i \in 0..n
    <3>1. i \in 1..n
      OBVIOUS
    <3>. QED BY <3>1
  <2>2. \A x \in T : \E i \in S : x = n - i
    OBVIOUS
  <2>3. T # {}
    OBVIOUS
  <2>. HIDE DEF T
  <2>. QED BY <2>1, <2>2, <2>3
<1>2. PICK m \in T : \A l \in T : m <= l
  <2>. HIDE DEF T
  <2>. QED BY <1>1, Least
<1>3. PICK i \in S : m = n - i
  OBVIOUS
<1>4. ASSUME NEW j \in S PROVE j <= i
  <2>1. n - i <= n - j
    BY <1>2, <1>3
  <2>. QED BY <2>1
<1>. QED BY <1>4

\* The init() of a script registers what its lines say.
LEMMA InitRegisters ==
    ASSUME ActionInv, NEW s \in ActionFiles, CallInit(s), NEW a \in ActionNames
    PROVE  \/ served'[a] = served[a] /\ registrars'[a] = registrars[a]
           \/ /\ registrars'[a] = registrars[a] \cup {s}
              /\ \E i \in DOMAIN statements[s] :
                    /\ RegisteredAt(s, i, a)
                    /\ served'[a] = [script |-> s, handler |-> statements[s][i].handler]
<1>. DEFINE S(b) == {i \in Executed(s) :
                Registers(statements[s][i]) /\ statements[s][i].action = b}
            L(b) == CHOOSE i \in S(b) : \A j \in S(b) : j <= i
<1>1. /\ served' = [b \in ActionNames |-> IF S(b) = {} THEN served[b]
                        ELSE [script |-> s, handler |-> statements[s][L(b)].handler]]
      /\ registrars' = [b \in ActionNames |->
                        IF S(b) = {} THEN registrars[b] ELSE registrars[b] \cup {s}]
  BY Zenon DEF CallInit
<1>2. /\ served'[a] = IF S(a) = {} THEN served[a]
                        ELSE [script |-> s, handler |-> statements[s][L(a)].handler]
      /\ registrars'[a] = IF S(a) = {} THEN registrars[a] ELSE registrars[a] \cup {s}
  <2>. HIDE DEF S, L
  <2>. QED BY <1>1, Zenon
<1>3. CASE S(a) = {}
  <2>. HIDE DEF S, L
  <2>. QED BY <1>2, <1>3
<1>4. CASE S(a) # {}
  <2>1. S(a) \subseteq 1..Len(statements[s]) /\ S(a) \subseteq DOMAIN statements[s]
        /\ Len(statements[s]) \in Nat
    <3>1. statements[s] \in Seq(Lines)
      BY DEF ActionInv, ActionsTypeOK
    <3>2. S(a) \subseteq DOMAIN statements[s]
      BY DEF Executed
    <3>. HIDE DEF S
    <3>. QED BY <3>1, <3>2, LenProperties
  <2>2. L(a) \in S(a)
    <3>1. PICK R : R = S(a)
      OBVIOUS
    <3>2. \E i \in R : \A j \in R : j <= i
      <4>. HIDE DEF S, L
      <4>. QED BY <1>4, <2>1, <3>1, LastLine
    <3>3. (CHOOSE i \in R : \A j \in R : j <= i) \in R
      BY <3>2
    <3>4. L(a) = CHOOSE i \in R : \A j \in R : j <= i
      BY <3>1
    <3>. HIDE DEF S, L
    <3>. QED BY <3>1, <3>3, <3>4
  <2>3. RegisteredAt(s, L(a), a)
    <3>1. PICK i \in S(a) : i = L(a)
      <4>. HIDE DEF S, L
      <4>. QED BY <2>2
    <3>2. i \in DOMAIN statements[s] /\ Registers(statements[s][i]) /\ statements[s][i].action = a
      BY <2>1
    <3>. HIDE DEF S, L
    <3>. QED BY <3>1, <3>2 DEF RegisteredAt
  <2>. HIDE DEF S, L
  <2>4. L(a) \in DOMAIN statements[s]
    BY <2>1, <2>2
  <2>. QED BY <1>2, <1>4, <2>3, <2>4
<1>. QED BY <1>3, <1>4

\* What the server begins with, an init and a validation keep it.
LEMMA ActionInductive == ActionInv /\ [ActionsNext]_actionVars => ActionInv'
<1>. SUFFICES ASSUME ActionInv, [ActionsNext]_actionVars PROVE ActionInv'
  OBVIOUS
<1>0. ActionsTypeOK
  BY DEF ActionInv
<1>1. ASSUME NEW s \in ActionFiles, WriteInit(s) PROVE ActionInv'
  <2>1. /\ hasInit' \in [ActionFiles -> BOOLEAN]
        /\ UNCHANGED <<defined, statements, toInit, begun, served, registrars>>
    BY <1>0, <1>1 DEF WriteInit, ActionsTypeOK
  <2>. QED BY <2>1 DEF ActionInv, ActionsTypeOK, RegisteredAt
<1>2. ASSUME NEW s \in ActionFiles, NEW h \in Handlers, NEW how \in Definitions,
             WriteFunction(s, h, how)
      PROVE  ActionInv'
  <2>1. /\ defined' = [defined EXCEPT ![s][h] = how]
        /\ UNCHANGED <<statements, hasInit, toInit, begun, served, registrars>>
    BY <1>2 DEF WriteFunction
  <2>2. PICK W \in [Handlers -> Definitions] : W = defined[s]
    BY <1>0 DEF ActionsTypeOK
  <2>3. defined' = [defined EXCEPT ![s] = [W EXCEPT ![h] = how]]
    BY <2>1, <2>2, Zenon
  <2>4. defined' \in [ActionFiles -> [Handlers -> Definitions]]
    BY <1>0, <2>3 DEF ActionsTypeOK
  <2>. QED BY <2>1, <2>4 DEF ActionInv, ActionsTypeOK, RegisteredAt
<1>3. ASSUME NEW s \in ActionFiles, NEW line \in Lines, WriteLine(s, line) PROVE ActionInv'
  <2>1. /\ ~begun /\ statements' = [statements EXCEPT ![s] = Append(statements[s], line)]
        /\ UNCHANGED <<defined, hasInit, toInit, begun, served, registrars>>
    BY <1>3 DEF WriteLine, StillWriting
  <2>2. statements' \in [ActionFiles -> Seq(Lines)]
    BY <1>0, <2>1, AppendProperties DEF ActionsTypeOK
  <2>3. ActionsTypeOK'
    BY <1>0, <2>1, <2>2 DEF ActionsTypeOK
  <2>. QED BY <2>1, <2>3 DEF ActionInv
<1>4. CASE Begin
  <2>1. /\ ~begun /\ begun' = TRUE /\ toInit' = ActionFiles
        /\ UNCHANGED <<defined, statements, hasInit, served, registrars>>
    BY <1>4 DEF Begin
  <2>2. ActionsTypeOK'
    BY <1>0, <2>1 DEF ActionsTypeOK
  <2>. QED BY <2>1, <2>2 DEF ActionInv, RegisteredAt
<1>5. ASSUME NEW s \in ActionFiles, CallInit(s) PROVE ActionInv'
  <2>1. /\ begun /\ toInit' \subseteq ActionFiles
        /\ UNCHANGED <<defined, statements, hasInit, begun>>
    BY <1>0, <1>5 DEF CallInit, ActionInv, ActionsTypeOK
  <2>2. /\ served' = [a \in ActionNames |-> served'[a]]
        /\ registrars' = [a \in ActionNames |-> registrars'[a]]
    BY <1>5 DEF CallInit
  <2>3. ASSUME NEW a \in ActionNames
        PROVE  /\ served'[a] \in [script: ActionFiles, handler: Handlers] \cup {Unserved}
               /\ registrars'[a] \in SUBSET ActionFiles
               /\ served'[a] # Unserved =>
                    /\ served'[a].script \in ActionFiles /\ served'[a].handler \in Handlers
                    /\ \E i \in DOMAIN statements[served'[a].script] :
                            /\ RegisteredAt(served'[a].script, i, a)
                            /\ statements[served'[a].script][i].handler = served'[a].handler
               /\ \A r \in registrars'[a] : \E i \in Nat : RegisteredAt(r, i, a)
    <3>1. CASE served'[a] = served[a] /\ registrars'[a] = registrars[a]
      BY <1>0, <3>1 DEF ActionInv, ActionsTypeOK
    <3>2. ASSUME registrars'[a] = registrars[a] \cup {s}, NEW i \in DOMAIN statements[s],
                 RegisteredAt(s, i, a),
                 served'[a] = [script |-> s, handler |-> statements[s][i].handler]
          PROVE  /\ served'[a] \in [script: ActionFiles, handler: Handlers] \cup {Unserved}
                 /\ registrars'[a] \in SUBSET ActionFiles
                 /\ served'[a] # Unserved =>
                      /\ served'[a].script \in ActionFiles /\ served'[a].handler \in Handlers
                      /\ \E j \in DOMAIN statements[served'[a].script] :
                            /\ RegisteredAt(served'[a].script, j, a)
                            /\ statements[served'[a].script][j].handler = served'[a].handler
                 /\ \A r \in registrars'[a] : \E j \in Nat : RegisteredAt(r, j, a)
      <4>1. statements[s][i].handler \in Handlers /\ i \in Nat
        BY <3>2, LineAt DEF RegisteredAt
      <4>2. served'[a].script = s /\ served'[a].handler = statements[s][i].handler
        BY <3>2
      <4>3. served'[a] \in [script: ActionFiles, handler: Handlers]
        BY <3>2, <4>1
      <4>4. \A r \in registrars[a] : \E j \in Nat : RegisteredAt(r, j, a)
        BY DEF ActionInv
      <4>5. \A r \in registrars'[a] : \E j \in Nat : RegisteredAt(r, j, a)
        BY <3>2, <4>1, <4>4
      <4>6. registrars[a] \in SUBSET ActionFiles
        BY <1>0 DEF ActionsTypeOK
      <4>7. registrars'[a] \in SUBSET ActionFiles
        BY <3>2, <4>6
      <4>. QED BY <3>2, <4>1, <4>2, <4>3, <4>5, <4>7
    <3>. QED BY <1>5, <3>1, <3>2, InitRegisters
  <2>4. ActionsTypeOK'
    <3>1. served' \in [ActionNames -> [script: ActionFiles, handler: Handlers] \cup {Unserved}]
      BY <2>2, <2>3
    <3>2. registrars' \in [ActionNames -> SUBSET ActionFiles]
      BY <2>2, <2>3
    <3>. QED BY <1>0, <2>1, <3>1, <3>2 DEF ActionsTypeOK
  <2>5. \A r, i, a : RegisteredAt(r, i, a)' <=> RegisteredAt(r, i, a)
    BY <2>1 DEF RegisteredAt
  <2>. QED BY <2>1, <2>3, <2>4, <2>5 DEF ActionInv
<1>6. CASE UNCHANGED actionVars
  BY <1>6 DEF actionVars, ActionInv, ActionsTypeOK, RegisteredAt
<1>. QED BY <1>1, <1>2, <1>3, <1>4, <1>5, <1>6 DEF ActionsNext

\* What the validator says of action scripts holds of what they register (ReportsHold).
THEOREM ReportsKept == ActionsSpec => [](ActionsTypeOK /\ ReportsHold)
<1>1. ActionsInit => ActionInv
  <2>. SUFFICES ASSUME ActionsInit PROVE ActionInv
    OBVIOUS
  <2>1. <<>> \in Seq(Lines)
    OBVIOUS
  <2>2. ActionsTypeOK
    BY <2>1, Zenon DEF ActionsInit, ActionsTypeOK, Definitions
  <2>. QED BY <2>2 DEF ActionsInit, ActionInv
<1>2. ActionInv => ActionsTypeOK /\ ReportsHold
  BY ReportsFollow DEF ActionInv
<1>. QED BY <1>1, <1>2, ActionInductive, PTL DEF ActionsSpec

-----------------------------------------------------------------------------
(***************************************************************************)
(* The run.  Its parts share no variable, so a behaviour of ScriptsSpec,   *)
(* which moves one of them, is a behaviour of each: what was proved of the *)
(* parts holds of what the run Scripts checks.                             *)
(***************************************************************************)

\* A step of one part leaves the others where they are.
LEMMA ScriptsSteps ==
    [ScriptsNext]_scriptsVars =>
        /\ [StoreNext]_storeVars /\ [ScriptNext]_stVars /\ [BehaviorsNext]_beVars
        /\ [ReloadNext]_reVars /\ [DispatchNext]_dispatchVars /\ [ScriptStateNext]_ssVars
        /\ [WatchesNext]_watchVars /\ [ContractsNext]_contractVars /\ [ActionsNext]_actionVars
        /\ [DataNext]_dataVars /\ [ChecksNext]_chkVars /\ UNCHANGED component
BY DEF ScriptsNext, scriptsVars

\* A behaviour of the engine is one of each part.
LEMMA ScriptsRunTheirParts ==
    ScriptsSpec => /\ StoreSpec /\ ScriptSpec /\ BehaviorsSpec /\ ReloadSpec /\ DispatchSpec
                   /\ ScriptStateSpec /\ WatchesSpec /\ ContractsSpec /\ ActionsSpec /\ DataSpec
                   /\ ChecksSpec
BY ScriptsSteps, PTL
   DEF ScriptsSpec, ScriptsInit, StoreSpec, ScriptSpec, BehaviorsSpec, ReloadSpec, DispatchSpec,
       ScriptStateSpec, WatchesSpec, ContractsSpec, ActionsSpec, DataSpec, ChecksSpec

\* A run is about one of the parts.
SomeScripts ==
    component \in {"store", "changes", "behaviors", "reload", "checks", "dispatch", "state",
                  "watches", "contracts", "actions", "data"}

\* The types of all that the engine keeps for scripts, for any number of ships, scripts,
\* handlers, threads, keys and files.
THEOREM ScriptsTypes == ScriptsSpec => []ScriptsTypeOK
<1>1. ScriptsSpec => []SomeScripts
  <2>1. ScriptsInit => SomeScripts
    BY DEF ScriptsInit, SomeScripts
  <2>2. SomeScripts /\ [ScriptsNext]_scriptsVars => SomeScripts'
    BY ScriptsSteps, Zenon DEF SomeScripts
  <2>. QED BY <2>1, <2>2, PTL DEF ScriptsSpec
<1>2. SomeScripts /\ StoreTypeOK /\ ScriptTypeOK /\ BehaviorsTypeOK /\ ReloadTypeOK
        /\ ChecksTypeOK /\ DispatchTypeOK /\ ScriptStateTypeOK /\ WatchesTypeOK
        /\ ContractsTypeOK /\ ActionsTypeOK /\ DataTypeOK => ScriptsTypeOK
  <2>. SUFFICES ASSUME SomeScripts, StoreTypeOK, ScriptTypeOK, BehaviorsTypeOK, ReloadTypeOK,
                       ChecksTypeOK, DispatchTypeOK, ScriptStateTypeOK, WatchesTypeOK,
                       ContractsTypeOK, ActionsTypeOK, DataTypeOK
                PROVE  ScriptsTypeOK
    OBVIOUS
  <2>1. CASE component = "store"
    BY <2>1, Zenon DEF ScriptsTypeOK
  <2>2. CASE component = "changes"
    BY <2>2, Zenon DEF ScriptsTypeOK
  <2>3. CASE component = "behaviors"
    BY <2>3, Zenon DEF ScriptsTypeOK
  <2>4. CASE component = "reload"
    BY <2>4, Zenon DEF ScriptsTypeOK
  <2>5. CASE component = "checks"
    BY <2>5, Zenon DEF ScriptsTypeOK
  <2>6. CASE component = "dispatch"
    BY <2>6, Zenon DEF ScriptsTypeOK
  <2>7. CASE component = "state"
    BY <2>7, Zenon DEF ScriptsTypeOK
  <2>8. CASE component = "watches"
    BY <2>8, Zenon DEF ScriptsTypeOK
  <2>9. CASE component = "contracts"
    BY <2>9, Zenon DEF ScriptsTypeOK
  <2>10. CASE component = "actions"
    BY <2>10, Zenon DEF ScriptsTypeOK
  <2>11. CASE component = "data"
    BY <2>11, Zenon DEF ScriptsTypeOK
  <2>. QED BY <2>1, <2>2, <2>3, <2>4, <2>5, <2>6, <2>7, <2>8, <2>9, <2>10, <2>11 DEF SomeScripts
<1>. QED BY <1>1, <1>2, ScriptsRunTheirParts, StoresKeep, TransactionsKeep, BehaviorsKept,
            ReloadsKept, NoAlarmIsFalse, HandlersStayApart, ScriptsReadTheirWrites,
            WatchesMeanOnce, VettedAnswer, ReportsKept, ShelvesStayWhole, PTL

\* Theorem: what an author is told of a script before it runs is so, whatever the script
\* (ValidationHolds).
THEOREM ScriptsAreValidated == ScriptsSpec => []ValidationHolds
<1>1. NoFalseAlarm /\ ReportsHold /\ VettedScriptsAnswer => ValidationHolds
  BY DEF ValidationHolds
<1>. QED BY <1>1, ScriptsRunTheirParts, NoAlarmIsFalse, ReportsKept, VettedAnswer, PTL

\* Theorem: what is promised to a script by what calls it and what it calls holds for
\* any number of handlers, ships, watches, threads and files (ScriptsAreServed).
THEOREM ScriptsAlwaysServed == ScriptsSpec => []ScriptsAreServed
<1>1. HandlersIsolated /\ ReadsWhatItWrote /\ OnceMeansOnce /\ ShelvesWhole => ScriptsAreServed
  BY DEF ScriptsAreServed
<1>. QED BY <1>1, ScriptsRunTheirParts, HandlersStayApart, ScriptsReadTheirWrites,
            WatchesMeanOnce, ShelvesStayWhole, PTL

\* Theorem: the run's invariants about changes, subscriptions and reloads.
THEOREM ScriptsInvariants ==
    ScriptsSpec => [](TransactionsHold /\ SubscriptionsKept /\ ReloadsHold)
BY ScriptsRunTheirParts, TransactionsKeep, BehaviorsKept, ReloadsKept, PTL

\* Theorem: the run's action and temporal properties about the store.
THEOREM ScriptsStoreKeeps == ScriptsSpec => StoreKeeps
BY ScriptsRunTheirParts, StoresKeep, PTL DEF StoreKeeps, RestoreBringsBack
=============================================================================

---------------------------- MODULE ScriptReload ----------------------------
(***************************************************************************)
(* The loading of action scripts and the registry of the handlers they     *)
(* register: the script engine's map of compiled scripts (engine.rs), the  *)
(* file watcher (hot_reload.rs), the reload a signal asks for (reload.rs), *)
(* a game master's reload, and ActionRegistry (actions/registry.rs).       *)
(*                                                                         *)
(* A script is what its init() registers: a set of actions.  A reloader is *)
(* a task that compiles scripts and then registers again: each step of it  *)
(* takes another lock, and several reloaders may run at a time.            *)
(***************************************************************************)
EXTENDS Naturals, Sequences, FiniteSets, SequencesExt

CONSTANTS
    Files,          \* the action scripts
    Actions,        \* the names of the actions they register
    Tasks,          \* game masters' tasks that reload a script
    Watcher,        \* the task of the file watcher
    Hangup,         \* the task that reloads everything on a signal
    NoFile,         \* no handler, or no job
    MaxEdits        \* bound: how often files are written

ASSUME ReloadAssumption ==
    /\ Files # {} /\ IsFiniteSet(Files)
    /\ NoFile \notin Files
    /\ Watcher \notin Tasks /\ Hangup \notin Tasks /\ Watcher # Hangup
    /\ MaxEdits \in Nat

Reloaders == Tasks \cup {Watcher, Hangup}

VARIABLES
    disk,           \* per file: its contents
    changed,        \* the files with an event in the watcher's channel
    waiting,        \* the watcher's pending_reloads
    loaded,         \* per file: the compiled script
    handlers,       \* per action: the file whose handler is registered
    by_script,      \* per file: the actions listed under it
    job,            \* per reloader: the step it is at
    edits,          \* how many writes there were
    overlapped,     \* history: two reloads ran at the same time
    halfway         \* history: a full reload stopped at a broken script

reVars == <<disk, changed, waiting, loaded, handlers, by_script, job, edits,
            overlapped, halfway>>

\* A reloader's step, the files still to do, and for the step "remove" and
\* "init" the actions still to remove or to register.
NoJob == [step |-> "none", todo |-> <<>>, names |-> {}]
Contents == [compiles : BOOLEAN, names : SUBSET Actions]
Steps == {"load", "unlist", "remove", "init", "insert"}

\* Type correctness.
ReloadTypeOK ==
    /\ disk \in [Files -> Contents]
    /\ changed \subseteq Files
    /\ waiting \in Seq(Files)
    /\ loaded \in [Files -> SUBSET Actions]
    /\ handlers \in [Actions -> Files \cup {NoFile}]
    /\ by_script \in [Files -> SUBSET Actions]
    /\ \A t \in Reloaders : /\ job[t].step \in Steps \cup {"none", "clear"}
                            /\ job[t].todo \in Seq(Files)
                            /\ job[t].names \subseteq Actions
    /\ edits \in 0..MaxEdits
    /\ overlapped \in BOOLEAN /\ halfway \in BOOLEAN

\* The server starts: load_all_scripts, then initialize_action_scripts.
ReloadInit ==
    /\ disk \in [Files -> {c \in Contents : c.compiles}]
    /\ changed = {} /\ waiting = <<>>
    /\ loaded = [f \in Files |-> disk[f].names]
    /\ handlers \in [Actions -> Files \cup {NoFile}]
    /\ \A a \in Actions :
            LET owners == {f \in Files : a \in disk[f].names}
            IN  IF owners = {} THEN handlers[a] = NoFile
                               ELSE handlers[a] \in owners
    /\ by_script = loaded
    /\ job = [t \in Reloaders |-> NoJob]
    /\ edits = 0
    /\ overlapped = FALSE /\ halfway = FALSE

-----------------------------------------------------------------------------
(* The disk and the watcher's channel *)

\* Someone writes a script (a game master's WriteScript, an editor): the
\* watcher is sent an event.
WriteScript(f, contents) ==
    /\ edits < MaxEdits
    /\ disk' = [disk EXCEPT ![f] = contents]
    /\ changed' = changed \cup {f}
    /\ edits' = edits + 1
    /\ UNCHANGED <<waiting, loaded, handlers, by_script, job, overlapped,
                   halfway>>

\* A file is pending once, whatever the number of its events.
Noticed(f) == IF f \in ToSet(waiting) THEN waiting ELSE Append(waiting, f)

\* The watcher's task receives an event; it does not while it reloads.
ReceiveEvent(f) ==
    /\ f \in changed /\ job[Watcher] = NoJob
    /\ waiting' = Noticed(f)
    /\ changed' = changed \ {f}
    /\ UNCHANGED <<disk, loaded, handlers, by_script, job, edits, overlapped,
                   halfway>>

\* A reload starts.
StartJob(t, step, todo) ==
    /\ job[t] = NoJob
    /\ job' = [job EXCEPT ![t] = [NoJob EXCEPT !.step = step, !.todo = todo]]
    /\ overlapped' = (overlapped \/ \E u \in Reloaders : job[u] # NoJob)

\* The channel was quiet for the debounce time: every pending file.
ReloadWaiting ==
    /\ changed = {} /\ waiting # <<>>
    /\ StartJob(Watcher, "load", waiting)
    /\ waiting' = <<>>
    /\ UNCHANGED <<disk, changed, loaded, handlers, by_script, edits, halfway>>

\* A game master's ReloadScript.
ReloadScript(t, f) ==
    /\ t \in Tasks
    /\ StartJob(t, "load", <<f>>)
    /\ UNCHANGED <<disk, changed, waiting, loaded, handlers, by_script, edits,
                   halfway>>

\* SIGHUP: load_all_scripts compiles every file and stops at the first that
\* does not; the handlers are then left as they are.
LoadAll(order) ==
    /\ order \in SetToSeqs(Files)
    /\ LET bad == {i \in DOMAIN order : ~disk[order[i]].compiles}
           good == {order[i] : i \in {j \in DOMAIN order :
                                        \A b \in bad : j < b}}
       IN  /\ loaded' = [f \in Files |-> IF f \in good THEN disk[f].names
                                                       ELSE loaded[f]]
           /\ IF bad = {}
                THEN StartJob(Hangup, "clear", order) /\ UNCHANGED halfway
                ELSE /\ halfway' = TRUE
                     /\ UNCHANGED <<job, overlapped>>
    /\ job[Hangup] = NoJob
    /\ UNCHANGED <<disk, changed, waiting, handlers, by_script, edits>>

-----------------------------------------------------------------------------
(* The steps of a reload *)

Now(t, step) == job[t].step = step
File(t) == Head(job[t].todo)
GoTo(t, step, names) ==
    job' = [job EXCEPT ![t].step = step, ![t].names = names]

\* The next file, or the end.  A full reload only registers.
NextFile(t) ==
    job' = [job EXCEPT ![t] =
        IF Len(@.todo) = 1 THEN NoJob
        ELSE [step |-> IF t = Hangup THEN "init" ELSE "load",
              todo |-> Tail(@.todo),
              names |-> IF t = Hangup THEN loaded[@.todo[2]] ELSE {}]]

\* load_script: the file is compiled and replaces the script, or it does
\* not compile and this reload ends.
Load(t) ==
    /\ Now(t, "load")
    /\ IF ~disk[File(t)].compiles
         THEN NextFile(t) /\ UNCHANGED loaded
         ELSE /\ loaded' = [loaded EXCEPT ![File(t)] = disk[File(t)].names]
              /\ GoTo(t, "unlist", {})
    /\ UNCHANGED <<disk, changed, waiting, handlers, by_script, edits,
                   overlapped, halfway>>

\* unregister_for_script: the script's list of actions is taken,
StrikeOff(t) ==
    /\ Now(t, "unlist")
    /\ by_script' = [by_script EXCEPT ![File(t)] = {}]
    /\ GoTo(t, "remove", by_script[File(t)])
    /\ UNCHANGED <<disk, changed, waiting, loaded, handlers, edits,
                   overlapped, halfway>>

\* Mutant of RemoveHandlers: the old handlers are left in place.
KeepHandlers(t) ==
    /\ Now(t, "remove")
    /\ GoTo(t, "init", loaded[File(t)])
    /\ UNCHANGED <<disk, changed, waiting, loaded, handlers, by_script, edits,
                   overlapped, halfway>>

\* then, under the other lock, the handlers of these actions are removed,
\* whichever script registered them last.
RemoveHandlers(t) ==
    /\ Now(t, "remove")
    /\ handlers' = [a \in Actions |->
                        IF a \in job[t].names THEN NoFile ELSE handlers[a]]
    /\ GoTo(t, "init", loaded[File(t)])
    /\ UNCHANGED <<disk, changed, waiting, loaded, by_script, edits,
                   overlapped, halfway>>

\* clear: every handler, then every list, before a full registration.
ClearRegistry(t) ==
    /\ Now(t, "clear")
    /\ handlers' = [a \in Actions |-> NoFile]
    /\ by_script' = [f \in Files |-> {}]
    /\ GoTo(t, "init", loaded[File(t)])
    /\ UNCHANGED <<disk, changed, waiting, loaded, edits, overlapped, halfway>>

\* init() registers an action: its name is listed under the script,
ListAction(t, a) ==
    /\ Now(t, "init") /\ a \in job[t].names
    /\ by_script' = [by_script EXCEPT ![File(t)] = @ \cup {a}]
    /\ job' = [job EXCEPT ![t].step = "insert",
                          ![t].names = {a}]
    /\ UNCHANGED <<disk, changed, waiting, loaded, handlers, edits,
                   overlapped, halfway>>

\* then its handler replaces the one that was registered.
InsertHandler(t) ==
    /\ Now(t, "insert")
    /\ handlers' = [a \in Actions |-> IF a \in job[t].names THEN File(t)
                                                            ELSE handlers[a]]
    /\ LET rest == loaded[File(t)] \ by_script[File(t)]
       IN  IF rest = {} THEN NextFile(t) ELSE GoTo(t, "init", rest)
    /\ UNCHANGED <<disk, changed, waiting, loaded, by_script, edits,
                   overlapped, halfway>>

\* init() returns, or throws before it registered every action.
EndInit(t) ==
    /\ Now(t, "init")
    /\ NextFile(t)
    /\ UNCHANGED <<disk, changed, waiting, loaded, handlers, by_script, edits,
                   overlapped, halfway>>

ReloadNext ==
    \/ \E f \in Files, c \in Contents : WriteScript(f, c)
    \/ \E f \in Files : ReceiveEvent(f)
    \/ ReloadWaiting
    \/ \E t \in Tasks, f \in Files : ReloadScript(t, f)
    \/ \E order \in SetToSeqs(Files) : LoadAll(order)
    \/ \E t \in Reloaders : Load(t)
    \/ \E t \in Reloaders : StrikeOff(t)
    \/ \E t \in Reloaders : RemoveHandlers(t)
    \/ \E t \in Reloaders : ClearRegistry(t)
    \/ \E t \in Reloaders, a \in Actions : ListAction(t, a)
    \/ \E t \in Reloaders : InsertHandler(t)
    \/ \E t \in Reloaders : EndInit(t)

ReloadSpec == ReloadInit /\ [][ReloadNext]_reVars

-----------------------------------------------------------------------------
(* Properties *)

Resting == \A t \in Reloaders : job[t] = NoJob

\* Between reloads, no action is bound to a script that, as it is compiled
\* now, does not register it: a dispatch would call a function that is gone.
\* It needs reloads that did not overlap, and no full reload that stopped
\* halfway, having replaced scripts and registered none of them again.
NoStaleHandler ==
    Resting /\ ~overlapped /\ ~halfway =>
        \A a \in Actions : handlers[a] # NoFile => a \in loaded[handlers[a]]

\* Between reloads, every handler is listed under its script, so that the
\* next reload of the script finds and removes it.  Overlapping reloads can
\* orphan one.
HandlersListed ==
    Resting /\ ~overlapped =>
        \A a \in Actions : handlers[a] # NoFile => a \in by_script[handlers[a]]

\* No write is missed: when the watcher has nothing to do, each script is
\* compiled from what the disk holds, unless that does not compile.
NoWriteMissed ==
    changed = {} /\ waiting = <<>> /\ job[Watcher] = NoJob =>
        \A f \in Files : disk[f].compiles => loaded[f] = disk[f].names

\* After any writes and reloads, what runs is what the disk says.
ReloadsHold == NoStaleHandler /\ HandlersListed /\ NoWriteMissed
=============================================================================

------------------------- MODULE ScriptTransactions -------------------------
(***************************************************************************)
(* How scripts change the game: the state accessor all of them share       *)
(* (bw-game/src/state/accessor.rs), its overlay of pending changes         *)
(* (overlay.rs), the execution guard of a thread (context.rs), and the     *)
(* transactions a script may open (transaction.rs).                        *)
(*                                                                         *)
(* A runner is a thread that runs one script at a time: the game loop runs *)
(* behaviour hooks, whose queued changes the guard applies when it drops;  *)
(* a player's connection runs action handlers, whose changes are taken     *)
(* from the queue and applied by the connection afterwards.  There is one  *)
(* queue, one overlay and one set of permissions for all of them.          *)
(***************************************************************************)
EXTENDS Naturals, Sequences, FiniteSets, SequencesExt

CONSTANTS
    Runners,        \* the threads that run scripts
    Targets,        \* the ships scripts read and change
    MaxHull,        \* the hull a ship cannot exceed
    MaxChanges,     \* bound: how many changes are queued in a behaviour
    MaxDepth,       \* bound: how many transactions a script holds open
    NoHull          \* the overlay has no entry, or the ship does not exist

ASSUME HullAssumption == MaxHull \in Nat /\ NoHull \notin Nat
ASSUME BoundAssumption == MaxChanges \in Nat /\ MaxDepth \in Nat

VARIABLES
    script,         \* per runner: what it is doing
    canWrite,       \* can_write_ships of the shared accessor, as set last
    pending,        \* the accessor's queue of changes
    overlay,        \* per ship: the hull recorded in the overlay
    liveHull,       \* per ship: the hull in the live state
    opened,         \* per runner: its open transactions, oldest first
    recorded,       \* per runner: the change recorded but not yet queued
    batch,          \* per runner: the changes taken and not yet applied
    queued,         \* history: how many changes were queued
    applied,        \* history: the changes applied, in order
    aborted,        \* history: the changes a lone script rolled back
    lone,           \* history: no other script ran beside this one
    undone          \* history: the overlay outlived a rollback

stVars == <<script, canWrite, pending, overlay, liveHull, opened, recorded,
            batch, queued, applied, aborted, lone, undone>>

Kinds == {"behavior", "action"}
Change == [id : 1..MaxChanges, ship : Targets, hull : 0..MaxHull + 1]
NoChange == <<>>

\* Type correctness.
ScriptTypeOK ==
    /\ script \in [Runners -> Kinds \cup {"none", "leaving"}]
    /\ canWrite \in BOOLEAN
    /\ pending \in Seq(Change)
    /\ overlay \in [Targets -> 0..MaxHull + 1 \cup {NoHull}]
    /\ liveHull \in [Targets -> 0..MaxHull]
    /\ opened \in [Runners -> Seq([checkpoint : Nat, first : Nat])]
    /\ recorded \in [Runners -> Change \cup {NoChange}]
    /\ batch \in [Runners -> Seq(Change)]
    /\ queued \in 0..MaxChanges
    /\ applied \in Seq(1..MaxChanges)
    /\ aborted \subseteq 1..MaxChanges
    /\ lone \in [Runners -> BOOLEAN]
    /\ undone \in BOOLEAN

ScriptInit ==
    /\ script = [r \in Runners |-> "none"]
    /\ canWrite = FALSE
    /\ pending = <<>>
    /\ overlay = [s \in Targets |-> NoHull]
    /\ liveHull = [s \in Targets |-> MaxHull]
    /\ opened = [r \in Runners |-> <<>>]
    /\ recorded = [r \in Runners |-> NoChange]
    /\ batch = [r \in Runners |-> <<>>]
    /\ queued = 0 /\ applied = <<>> /\ aborted = {}
    /\ lone = [r \in Runners |-> TRUE]
    /\ undone = FALSE

-----------------------------------------------------------------------------
(* Helpers *)

\* Mutant of Clamp: a hull is taken as a script set it.
Unclamped(h) == h

\* ModifyShip keeps a hull within its bounds.
Clamp(h) == IF h > MaxHull THEN MaxHull ELSE h

\* The live hulls after a sequence of changes is applied in order.
AfterChanges(live, changes) ==
    LET after[n \in 0..Len(changes)] ==
            IF n = 0 THEN live
            ELSE [after[n - 1] EXCEPT ![changes[n].ship] = Clamp(changes[n].hull)]
    IN  after[Len(changes)]

\* get_ship: the live ship with the overlay's changes merged in.
ReadHull(s) == IF overlay[s] = NoHull THEN liveHull[s] ELSE overlay[s]

Running(r) == script[r] \in Kinds
NothingRecorded == [s \in Targets |-> NoHull]
Ids(changes) == [i \in DOMAIN changes |-> changes[i].id]

\* Apply a sequence of changes to the live state (apply_mutations).
ApplyChanges(changes) ==
    /\ liveHull' = AfterChanges(liveHull, changes)
    /\ applied' = applied \o Ids(changes)

-----------------------------------------------------------------------------
(* The execution guard *)

\* ExecutionGuard::enter, after the executor set the permissions of the
\* shared accessor: those of an NPC and trusted ones both let it write ships.
Enter(r, kind) ==
    /\ script[r] = "none"
    /\ batch[r] = <<>>
    /\ script' = [script EXCEPT ![r] = kind]
    /\ canWrite' = TRUE
    /\ lone' = [q \in Runners |->
            IF q = r THEN \A p \in Runners \ {r} : script[p] = "none"
                     ELSE lone[q] /\ script[q] = "none"]
    /\ UNCHANGED <<pending, overlay, liveHull, opened, recorded, batch, queued,
                   applied, aborted, undone>>

\* An administrator evaluates a script: the permissions of the accessor
\* every running script uses are replaced (routes/admin.rs).
EvalPermissions(trusted) ==
    /\ canWrite' = trusted
    /\ UNCHANGED <<script, pending, overlay, liveHull, opened, recorded, batch,
                   queued, applied, aborted, lone, undone>>

\* take_mutations: the overlay is cleared and the queue emptied.
TakeChanges ==
    /\ overlay' = NothingRecorded
    /\ pending' = <<>>
    /\ undone' = FALSE

\* A behaviour hook returns or throws: its transactions are dropped, and
\* the guard applies whatever the queue holds.
FinishBehavior(r) ==
    /\ script[r] = "behavior" /\ recorded[r] = NoChange /\ opened[r] = <<>>
    /\ script' = [script EXCEPT ![r] = "none"]
    /\ TakeChanges
    /\ ApplyChanges(pending)
    /\ lone' = [lone EXCEPT ![r] = TRUE]
    /\ UNCHANGED <<canWrite, opened, recorded, batch, queued, aborted>>

\* An action handler returned: the changes are taken; those of a handler
\* that threw are dropped.
FinishAction(r, ok) ==
    /\ script[r] = "action" /\ recorded[r] = NoChange /\ opened[r] = <<>>
    /\ script' = [script EXCEPT ![r] = "leaving"]
    /\ batch' = [batch EXCEPT ![r] = IF ok THEN pending ELSE <<>>]
    /\ TakeChanges
    /\ UNCHANGED <<canWrite, liveHull, opened, recorded, queued, applied,
                   aborted, lone>>

\* The guard of an action drops: it applies what was queued since, the
\* changes of scripts that run on other threads.
LeaveAction(r) ==
    /\ script[r] = "leaving"
    /\ script' = [script EXCEPT ![r] = "none"]
    /\ TakeChanges
    /\ ApplyChanges(pending)
    /\ lone' = [lone EXCEPT ![r] = TRUE]
    /\ UNCHANGED <<canWrite, opened, recorded, batch, queued, aborted>>

\* The connection applies the changes its action returned.
ApplyBatch(r) ==
    /\ script[r] = "none" /\ batch[r] # <<>>
    /\ ApplyChanges(batch[r])
    /\ batch' = [batch EXCEPT ![r] = <<>>]
    /\ UNCHANGED <<script, canWrite, pending, overlay, opened, recorded,
                   queued, aborted, lone, undone>>

-----------------------------------------------------------------------------
(* What a script does *)

\* modify_ship, refused without the permission to write: the overlay first,
RecordChange(r, s, h) ==
    /\ Running(r) /\ recorded[r] = NoChange /\ queued < MaxChanges
    /\ canWrite
    /\ queued' = queued + 1
    /\ recorded' = [recorded EXCEPT ![r] =
                        [id |-> queued + 1, ship |-> s, hull |-> h]]
    /\ overlay' = [overlay EXCEPT ![s] = h]
    /\ UNCHANGED <<script, canWrite, pending, liveHull, opened, batch,
                   applied, aborted, lone, undone>>

\* then, under another lock, the queue.
QueueChange(r) ==
    /\ recorded[r] # NoChange
    /\ pending' = Append(pending, recorded[r])
    /\ recorded' = [recorded EXCEPT ![r] = NoChange]
    /\ UNCHANGED <<script, canWrite, overlay, liveHull, opened, batch,
                   queued, applied, aborted, lone, undone>>

\* damage_ship: the hull the script reads less the damage, never below 0.
DamageShip(r, s, amount) ==
    RecordChange(r, s, IF ReadHull(s) > amount THEN ReadHull(s) - amount
                                               ELSE 0)

\* TransactionContext::new: the length of the queue is the checkpoint.
BeginTransaction(r) ==
    /\ Running(r) /\ recorded[r] = NoChange /\ Len(opened[r]) < MaxDepth
    /\ opened' = [opened EXCEPT ![r] =
            Append(@, [checkpoint |-> Len(pending), first |-> queued + 1])]
    /\ UNCHANGED <<script, canWrite, pending, overlay, liveHull, recorded,
                   batch, queued, applied, aborted, lone, undone>>

\* commit: the changes stay queued.
Commit(r) ==
    /\ Running(r) /\ recorded[r] = NoChange /\ opened[r] # <<>>
    /\ opened' = [opened EXCEPT ![r] = Front(@)]
    /\ UNCHANGED <<script, canWrite, pending, overlay, liveHull, recorded,
                   batch, queued, applied, aborted, lone, undone>>

\* Mutant of Truncated: one change too many is kept.
TruncatedLate(checkpoint) ==
    SubSeq(pending, 1, IF checkpoint < Len(pending) THEN checkpoint + 1
                                                    ELSE Len(pending))

\* rollback_to_checkpoint: the queue is cut; the overlay is not touched.
Truncated(checkpoint) ==
    SubSeq(pending, 1, IF checkpoint < Len(pending) THEN checkpoint
                                                    ELSE Len(pending))

\* rollback, or the drop of a transaction that was not committed.
Rollback(r) ==
    /\ Running(r) /\ recorded[r] = NoChange /\ opened[r] # <<>>
    /\ pending' = Truncated(Last(opened[r]).checkpoint)
    /\ opened' = [opened EXCEPT ![r] = Front(@)]
    /\ aborted' = IF lone[r]
                    THEN aborted \cup (Last(opened[r]).first)..queued
                    ELSE aborted
    /\ undone' = TRUE
    /\ UNCHANGED <<script, canWrite, overlay, liveHull, recorded, batch,
                   queued, applied, lone>>

ScriptNext ==
    \/ \E r \in Runners, kind \in Kinds : Enter(r, kind)
    \/ \E trusted \in BOOLEAN : EvalPermissions(trusted)
    \/ \E r \in Runners : FinishBehavior(r)
    \/ \E r \in Runners, ok \in BOOLEAN : FinishAction(r, ok)
    \/ \E r \in Runners : LeaveAction(r)
    \/ \E r \in Runners : ApplyBatch(r)
    \/ \E r \in Runners, s \in Targets, h \in 0..MaxHull + 1 :
            RecordChange(r, s, h)
    \/ \E r \in Runners, s \in Targets : DamageShip(r, s, 1)
    \/ \E r \in Runners : QueueChange(r)
    \/ \E r \in Runners : BeginTransaction(r)
    \/ \E r \in Runners : Commit(r)
    \/ \E r \in Runners : Rollback(r)

ScriptSpec == ScriptInit /\ [][ScriptNext]_stVars

-----------------------------------------------------------------------------
(* Properties *)

\* What a script rolled back, while no other script ran beside it, is never
\* applied: neither by its own guard, nor by the connection that takes its
\* changes, nor by the guard of a later script.
RolledBackIsGone == \A i \in DOMAIN applied : applied[i] \notin aborted

\* A change is applied at most once, however the guards of several threads
\* and the connections that took a batch follow one another.
AppliedOnce ==
    \A i, j \in DOMAIN applied : applied[i] = applied[j] => i = j

\* A script that runs alone reads its own writes: a ship's hull as it will
\* be when the queue is applied.  It holds until a rollback (the overlay
\* keeps what was cut from the queue) and for hulls in range (the overlay
\* does not clamp).
ReadsOwnWrites ==
    \A r \in Runners : Running(r) /\ lone[r] /\ recorded[r] = NoChange /\ ~undone =>
        \A s \in Targets :
            Clamp(ReadHull(s)) = AfterChanges(liveHull, pending)[s]

\* What transactions, the overlay and the queue promise a script together.
TransactionsHold == RolledBackIsGone /\ AppliedOnce /\ ReadsOwnWrites
=============================================================================

---------------------------- MODULE ScriptStore ----------------------------
(***************************************************************************)
(* The store scripts keep their state in (bw-scripting/src/persistence):   *)
(* a cache in memory, a file per key in a directory per namespace, and     *)
(* checkpoints, which are directories of copies.  Scripts that use it run  *)
(* one at a time, under the behaviour manager's lock, so one call is under *)
(* way at most; the process may stop between any two of its disk           *)
(* operations, and any of them may fail.  A file whose writing was cut     *)
(* short does not parse: a start skips it.                                 *)
(*                                                                         *)
(* Names that differ in a character the file system forbids share a file;  *)
(* the keys of the model are keys whose files differ.                      *)
(***************************************************************************)
EXTENDS Naturals, FiniteSets

CONSTANTS
    Spaces,         \* the namespaces
    Names,          \* the keys of a namespace
    Values,         \* what scripts save
    Checkpoints,    \* the names of checkpoints
    NoValue,        \* the key has no entry, or no file
    Torn,           \* the file was cut short while it was written
    NoCheckpoint    \* there is no such checkpoint, or none that is complete

ASSUME StoreAssumption ==
    /\ NoValue \notin Values /\ Torn \notin Values \cup {NoValue}
    /\ NoCheckpoint \notin [Spaces \X Names -> Values \cup {NoValue, Torn}]

VARIABLES
    cache,          \* per key: the value in memory
    file,           \* per key: the content of its file
    copies,         \* per checkpoint: the files of its directory
    call,           \* the call under way and the keys it has still to treat
    suspect,        \* history: keys whose last disk operation failed
    snapshot        \* history: per checkpoint, the cache it was taken of

storeVars == <<cache, file, copies, call, suspect, snapshot>>

Keys == Spaces \X Names
NoEntries == [k \in Keys |-> NoValue]
Idle == [op |-> "none", keys |-> {}, of |-> NoCheckpoint]
Call(op, keys, of) == [op |-> op, keys |-> keys, of |-> of]

\* Type correctness.
StoreTypeOK ==
    /\ cache \in [Keys -> Values \cup {NoValue}]
    /\ file \in [Keys -> Values \cup {NoValue, Torn}]
    /\ copies \in [Checkpoints ->
                    [Keys -> Values \cup {NoValue, Torn}] \cup {NoCheckpoint}]
    /\ call \in [op : {"none", "save", "remove", "checkpoint", "wipe",
                       "rewrite"},
                 keys : SUBSET Keys, of : Checkpoints \cup {NoCheckpoint}]
    /\ suspect \subseteq Keys
    /\ snapshot \in [Checkpoints ->
                        [Keys -> Values \cup {NoValue}] \cup {NoCheckpoint}]

StoreInit ==
    /\ cache = NoEntries /\ file = NoEntries
    /\ copies = [n \in Checkpoints |-> NoCheckpoint]
    /\ call = Idle /\ suspect = {}
    /\ snapshot = [n \in Checkpoints |-> NoCheckpoint]

\* What a start reads of a file: load_all_to_cache skips what does not parse.
Loaded(content) == IF content = Torn THEN NoValue ELSE content

\* The keys whose files the call under way has not brought in line yet.
Busy == CASE call.op \in {"save", "remove"} -> call.keys
          [] call.op \in {"wipe", "rewrite"} -> Keys
          [] OTHER -> {}

\* The call goes on with the keys that are left, or is over.
Treated(k) == IF call.keys = {k} /\ call.op \in {"save", "remove"}
                THEN Idle
                ELSE [call EXCEPT !.keys = @ \ {k}]

-----------------------------------------------------------------------------
(* Entries *)

\* save: the cache first; the lock is released and the file written.
SaveEntry(k, v) ==
    /\ call = Idle
    /\ cache' = [cache EXCEPT ![k] = v]
    /\ call' = Call("save", {k}, NoCheckpoint)
    /\ UNCHANGED <<file, copies, suspect, snapshot>>

WriteFile(k) ==
    /\ call.op = "save" /\ k \in call.keys
    /\ file' = [file EXCEPT ![k] = cache[k]]
    /\ call' = Treated(k)
    /\ suspect' = suspect \ {k}
    /\ UNCHANGED <<cache, copies, snapshot>>

\* delete: an entry and its file; clear_namespace: a namespace and its
\* directory.
DeleteEntries(keys) ==
    /\ call = Idle
    /\ cache' = [k \in Keys |-> IF k \in keys THEN NoValue ELSE cache[k]]
    /\ call' = Call("remove", keys, NoCheckpoint)
    /\ UNCHANGED <<file, copies, suspect, snapshot>>

\* Mutant of RemoveFile: the file of an entry stays when it is deleted.
RemoveFileNot(k) ==
    /\ call.op \in {"remove", "wipe"} /\ k \in call.keys
    /\ file' = IF call.op = "wipe" THEN [file EXCEPT ![k] = NoValue] ELSE file
    /\ call' = Treated(k)
    /\ suspect' = IF call.op = "remove" THEN suspect \ {k} ELSE suspect
    /\ UNCHANGED <<cache, copies, snapshot>>

RemoveFile(k) ==
    /\ call.op \in {"remove", "wipe"} /\ k \in call.keys
    /\ file' = [file EXCEPT ![k] = NoValue]
    /\ call' = Treated(k)
    /\ suspect' = IF call.op = "remove" THEN suspect \ {k} ELSE suspect
    /\ UNCHANGED <<cache, copies, snapshot>>

-----------------------------------------------------------------------------
(* Checkpoints *)

\* checkpoint: its directory is created unless it exists; one that exists
\* keeps its files.
Checkpoint(n) ==
    /\ call = Idle
    /\ copies' = [copies EXCEPT ![n] =
                    IF @ = NoCheckpoint THEN NoEntries ELSE @]
    /\ call' = Call("checkpoint", {k \in Keys : cache[k] # NoValue}, n)
    /\ snapshot' = [snapshot EXCEPT ![n] = NoCheckpoint]
    /\ UNCHANGED <<cache, file, suspect>>

\* Mutant of CopyEntry: a file the directory holds already is kept.
CopyEntryOnce(k) ==
    /\ call.op = "checkpoint" /\ k \in call.keys
    /\ copies' = [copies EXCEPT ![call.of][k] =
                    IF @ = NoValue THEN cache[k] ELSE @]
    /\ call' = Treated(k)
    /\ UNCHANGED <<cache, file, suspect, snapshot>>

CopyEntry(k) ==
    /\ call.op = "checkpoint" /\ k \in call.keys
    /\ copies' = [copies EXCEPT ![call.of][k] = cache[k]]
    /\ call' = Treated(k)
    /\ UNCHANGED <<cache, file, suspect, snapshot>>

CheckpointDone ==
    /\ call.op = "checkpoint" /\ call.keys = {}
    /\ snapshot' = [snapshot EXCEPT ![call.of] = cache]
    /\ call' = Idle
    /\ UNCHANGED <<cache, file, copies, suspect>>

\* restore_checkpoint: every copy is read first, and one that does not
\* parse ends the call with nothing changed; then the directories of all
\* namespaces are removed,
Restore(n) ==
    /\ call = Idle
    /\ copies[n] # NoCheckpoint
    /\ \A k \in Keys : copies[n][k] # Torn
    /\ call' = Call("wipe", {k \in Keys : file[k] # NoValue}, n)
    /\ UNCHANGED <<cache, file, copies, suspect, snapshot>>

\* the copies are written one by one,
RewriteFrom ==
    /\ call.op = "wipe" /\ call.keys = {}
    /\ call' = Call("rewrite",
                    {k \in Keys : copies[call.of][k] # NoValue}, call.of)
    /\ UNCHANGED <<cache, file, copies, suspect, snapshot>>

RewriteFile(k) ==
    /\ call.op = "rewrite" /\ k \in call.keys
    /\ file' = [file EXCEPT ![k] = copies[call.of][k]]
    /\ call' = Treated(k)
    /\ UNCHANGED <<cache, copies, suspect, snapshot>>

\* and the cache is replaced last.
RestoreDone(n) ==
    /\ call.op = "rewrite" /\ call.keys = {} /\ call.of = n
    /\ cache' = copies[n]
    /\ call' = Idle
    /\ suspect' = {}
    /\ UNCHANGED <<file, copies, snapshot>>

DeleteCheckpoint(n) ==
    /\ call = Idle
    /\ copies' = [copies EXCEPT ![n] = NoCheckpoint]
    /\ snapshot' = [snapshot EXCEPT ![n] = NoCheckpoint]
    /\ UNCHANGED <<cache, file, call, suspect>>

-----------------------------------------------------------------------------
(* Failures *)

\* Where a call leaves the files: as they are, or with one file cut short.
Outcomes ==
    {<<file, copies>>}
    \cup (IF call.op \in {"save", "rewrite"}
            THEN {<<[file EXCEPT ![k] = Torn], copies>> : k \in call.keys}
            ELSE {})
    \cup (IF call.op = "checkpoint"
            THEN {<<file, [copies EXCEPT ![call.of][k] = Torn]>> :
                        k \in call.keys}
            ELSE {})

\* A disk operation fails: the call returns the error where it is.
DiskFails ==
    /\ call # Idle
    /\ \E o \in Outcomes : file' = o[1] /\ copies' = o[2]
    /\ suspect' = suspect \cup Busy
    /\ call' = Idle
    /\ UNCHANGED <<cache, snapshot>>

\* The process stops and starts again: FileStore::new reads the files.
StoreRestart ==
    /\ \E o \in Outcomes : file' = o[1] /\ copies' = o[2]
    /\ cache' = [k \in Keys |-> Loaded(file'[k])]
    /\ suspect' = {}
    /\ call' = Idle
    /\ UNCHANGED snapshot

StoreNext ==
    \/ \E k \in Keys, v \in Values : SaveEntry(k, v)
    \/ \E k \in Keys : WriteFile(k)
    \/ \E k \in Keys : DeleteEntries({k})
    \/ \E s \in Spaces : DeleteEntries({s} \X Names)
    \/ \E k \in Keys : RemoveFile(k)
    \/ \E n \in Checkpoints : Checkpoint(n)
    \/ \E k \in Keys : CopyEntry(k)
    \/ CheckpointDone
    \/ \E n \in Checkpoints : Restore(n)
    \/ RewriteFrom
    \/ \E k \in Keys : RewriteFile(k)
    \/ \E n \in Checkpoints : RestoreDone(n)
    \/ \E n \in Checkpoints : DeleteCheckpoint(n)
    \/ DiskFails
    \/ StoreRestart

StoreSpec == StoreInit /\ [][StoreNext]_storeVars

-----------------------------------------------------------------------------
(* Properties *)

\* What a restart would read is what scripts see: but for the keys of the
\* call under way, and for those whose last disk operation failed, the file
\* of every key holds the value in memory, whatever deletions, clearings,
\* restores and restarts came before.
DiskFollowsCache ==
    \A k \in Keys \ (Busy \cup suspect) : Loaded(file[k]) = cache[k]

\* A restored checkpoint brings back every value that was in memory when it
\* was last taken to the end, although its directory may have been written
\* over an older checkpoint of the same name (whose other files stay: a key
\* deleted in between comes back too).
RestoreBringsBack ==
    [][\A n \in Checkpoints : RestoreDone(n) /\ snapshot[n] # NoCheckpoint =>
            \A k \in Keys : snapshot[n][k] # NoValue =>
                                cache'[k] = snapshot[n][k]]_storeVars

\* What the store promises after every step: the disk follows the cache, and a
\* checkpoint brings back what it was taken of.
StoreKeeps == [][DiskFollowsCache']_storeVars /\ RestoreBringsBack
=============================================================================

------------------------------- MODULE GmEditor -------------------------------
(***************************************************************************)
(* The staged changes of the game master's editor (bw-gm-editor): what is  *)
(* staged, previewed and committed over the WebSocket, and the server's    *)
(* answers, which come in order but arrive when more has been staged or    *)
(* discarded.  Changes are names; the server rejects some of them when it  *)
(* validates and some when it applies them.  The editor connects once: a   *)
(* closed connection is not opened again.                                  *)
(***************************************************************************)
EXTENDS Naturals, Sequences, FiniteSets, SequencesExt

CONSTANTS
    Edits,          \* the changes a game master may stage, each once
    NoEdit,
    MaxCommits      \* bound on the commits requested

ASSUME CommitsAssumption == MaxCommits \in Nat /\ NoEdit \notin Edits

VARIABLES
    entries,        \* StagedChangesState.changes: change, preview, has_error
    previewing,     \* preview_loading
    committing,     \* commit_loading
    requests,       \* what the server has still to serve
    answers,        \* what the editor has still to receive
    linked,         \* the socket is open
    times,          \* per change: how often the live world took it
    used,           \* history: changes staged so far
    discarded,      \* history: changes the game master removed again
    late,           \* history: staged while a commit was under way
    halted,         \* history: changes of a commit that was answered with errors
    commits

gmVars == <<entries, previewing, committing, requests, answers, linked, times,
            used, discarded, late, halted, commits>>

Entry == [edit : Edits, preview : Edits \cup {NoEdit}, bad : BOOLEAN]
EditsOf(seq) == [i \in DOMAIN seq |-> seq[i].edit]

GmEditorTypeOK ==
    /\ \A i \in DOMAIN entries : entries[i] \in Entry
    /\ \A i, j \in DOMAIN entries : entries[i].edit = entries[j].edit => i = j
    /\ previewing \in BOOLEAN /\ committing \in BOOLEAN /\ linked \in BOOLEAN
    /\ \A i \in DOMAIN requests : requests[i].op \in {"preview", "commit"}
    /\ \A i \in DOMAIN answers : answers[i].op \in {"preview", "commit"}
    /\ times \in [Edits -> 0..MaxCommits]
    /\ commits \in 0..MaxCommits

GmEditorInit ==
    /\ entries = <<>> /\ previewing = FALSE /\ committing = FALSE
    /\ requests = <<>> /\ answers = <<>> /\ linked = TRUE
    /\ times = [e \in Edits |-> 0]
    /\ used = {} /\ discarded = {} /\ late = {} /\ halted = {}
    /\ commits = 0

-----------------------------------------------------------------------------
(* The game master *)

StageEdit(e) ==
    /\ e \notin used
    /\ entries' = Append(entries, [edit |-> e, preview |-> NoEdit, bad |-> FALSE])
    /\ used' = used \cup {e}
    /\ late' = IF committing THEN late \cup {e} ELSE late
    /\ UNCHANGED <<previewing, committing, requests, answers, linked, times,
                   discarded, halted, commits>>

RemoveEdit(i) ==
    /\ i \in DOMAIN entries
    /\ entries' = RemoveAt(entries, i)
    /\ discarded' = discarded \cup {entries[i].edit}
    /\ UNCHANGED <<previewing, committing, requests, answers, linked, times, used,
                   late, halted, commits>>

DiscardAll ==
    /\ entries # <<>>
    /\ entries' = <<>>
    /\ discarded' = discarded \cup ToSet(EditsOf(entries))
    /\ UNCHANGED <<previewing, committing, requests, answers, linked, times, used,
                   late, halted, commits>>

\* The request is lost when the socket is not open; the button stays as it is.
SendToServer(op) ==
    requests' = IF linked THEN Append(requests, [op |-> op, edits |-> EditsOf(entries)])
                          ELSE requests

RefreshPreview ==
    /\ entries # <<>> /\ ~previewing
    /\ previewing' = TRUE
    /\ SendToServer("preview")
    /\ UNCHANGED <<entries, committing, answers, linked, times, used, discarded,
                   late, halted, commits>>

CommitAll ==
    /\ entries # <<>> /\ ~committing
    /\ \A i \in DOMAIN entries : ~entries[i].bad
    /\ commits < MaxCommits /\ commits' = commits + 1
    /\ committing' = TRUE
    /\ SendToServer("commit")
    /\ UNCHANGED <<entries, previewing, answers, linked, times, used, discarded,
                   late, halted>>

-----------------------------------------------------------------------------
(* The server *)

Answered(answer) ==
    /\ requests' = Tail(requests)
    /\ answers' = IF linked THEN Append(answers, answer) ELSE answers

Asked(op) == requests # <<>> /\ Head(requests).op = op

\* The one way to list numbers in order.
InOrder(positions) ==
    {f \in [1..Cardinality(positions) -> positions] :
        \A i, j \in DOMAIN f : i < j => f[i] < f[j]}

\* The previews of the valid changes, without their positions, and the
\* positions of the others.
ServePreview ==
    /\ Asked("preview")
    /\ \E wrong \in SUBSET DOMAIN Head(requests).edits :
        LET asked == Head(requests).edits
        IN  \E right \in InOrder(DOMAIN asked \ wrong) :
                Answered([op |-> "preview", wrong |-> wrong,
                          edits |-> [i \in DOMAIN right |-> asked[right[i]]]])
    /\ UNCHANGED <<entries, previewing, committing, linked, times, used, discarded,
                   late, halted, commits>>

\* Nothing is applied unless all changes are valid; then each is applied or not.
ServeCommit ==
    /\ Asked("commit")
    /\ \E taken \in SUBSET ToSet(Head(requests).edits) :
        /\ times' = [e \in Edits |-> IF e \in taken THEN times[e] + 1 ELSE times[e]]
        /\ LET all == (taken = ToSet(Head(requests).edits))
           IN  /\ Answered([op |-> "commit", success |-> all])
               /\ halted' = IF all THEN halted ELSE halted \cup taken
    /\ UNCHANGED <<entries, previewing, committing, linked, used, discarded, late,
                   commits>>

-----------------------------------------------------------------------------
(* The editor's handlers *)

\* update_previews: by position in what is staged now.
ReceivePreview ==
    /\ answers # <<>> /\ Head(answers).op = "preview"
    /\ answers' = Tail(answers)
    /\ entries' = [i \in DOMAIN entries |->
            [entries[i] EXCEPT
                !.preview = IF i \in DOMAIN Head(answers).edits
                                THEN Head(answers).edits[i] ELSE NoEdit,
                !.bad = i \in Head(answers).wrong]]
    /\ previewing' = FALSE
    /\ UNCHANGED <<committing, requests, linked, times, used, discarded, late, halted,
                   commits>>

\* Mutant of StagedAfter: a commit with errors clears the list as well.
StagedAfterAny(success) == <<>>

\* A commit without errors clears whatever is staged by now.
StagedAfter(success) == IF success THEN <<>> ELSE entries

ReceiveCommit ==
    /\ answers # <<>> /\ Head(answers).op = "commit"
    /\ answers' = Tail(answers)
    /\ committing' = FALSE
    /\ entries' = StagedAfter(Head(answers).success)
    /\ UNCHANGED <<previewing, requests, linked, times, used, discarded, late, halted,
                   commits>>

\* onclose: what was not received is lost, what was sent may be served or not.
LinkCloses ==
    /\ linked
    /\ linked' = FALSE
    /\ answers' = <<>>
    /\ requests' \in {requests, <<>>}
    /\ UNCHANGED <<entries, previewing, committing, times, used, discarded, late,
                   halted, commits>>

GmEditorNext ==
    \/ \E e \in Edits : StageEdit(e)
    \/ \E i \in 1..Cardinality(Edits) : RemoveEdit(i)
    \/ DiscardAll \/ RefreshPreview \/ CommitAll
    \/ ServePreview \/ ServeCommit
    \/ ReceivePreview \/ ReceiveCommit
    \/ LinkCloses

GmEditorSpec == GmEditorInit /\ [][GmEditorNext]_gmVars

-----------------------------------------------------------------------------
(* Properties *)

\* A change that the game master staged and did not remove is still staged or
\* was applied, whatever answers arrive when; only what was staged while a
\* commit was under way may be swept away with it.
NoEditVanishes ==
    used \ (discarded \cup late) \subseteq
        ToSet(EditsOf(entries)) \cup {e \in Edits : times[e] > 0}

\* A change is applied once, unless an earlier commit took it and failed on
\* another: then the editor keeps all of them staged and sends them again.
AppliedAgainAfterErrors == \A e \in Edits : times[e] > 1 => e \in halted

\* What the editor stages reaches the live world, and once.
EditsReachOnce == NoEditVanishes /\ AppliedAgainAfterErrors
=============================================================================

------------------------------- MODULE WriteOrder -------------------------------
(***************************************************************************)
(* What the persistence pipeline promises of one key: the snapshots        *)
(* submitted for it reach its row in the order in which they were          *)
(* submitted.  Any of them may be dropped on the way, but the row never    *)
(* goes back to a snapshot older than the one it holds.                    *)
(***************************************************************************)
EXTENDS Sequences

CONSTANTS Values, Absent

VARIABLES
    pending,   \* the snapshots on their way, oldest first
    stored     \* the row

vars == <<pending, stored>>

Init == pending = <<>> /\ stored = Absent

Submit ==
    /\ \E v \in Values : pending' = Append(pending, v)
    /\ UNCHANGED stored

\* The oldest snapshot is written, or given up: it failed or a newer one is known.
Write ==
    /\ pending # <<>>
    /\ stored' = Head(pending)
    /\ pending' = Tail(pending)

Drop ==
    /\ pending # <<>>
    /\ pending' = Tail(pending)
    /\ UNCHANGED stored

\* A new account: its rows are written past the pipeline, when there were none
\* and nothing is on its way.
Create ==
    /\ stored = Absent /\ pending = <<>>
    /\ stored' \in Values
    /\ UNCHANGED pending

Stop == pending' = <<>> /\ UNCHANGED stored

Next == Submit \/ Write \/ Drop \/ Create \/ Stop

Spec == Init /\ [][Next]_vars
=============================================================================

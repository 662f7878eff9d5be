----------------------------- MODULE ScriptPanel ----------------------------
(***************************************************************************)
(* The script editor of the game-master editor (bw-gm-editor,              *)
(* script_editor.rs) and the validation panel made for it                  *)
(* (validation_panel.rs): an effect that runs on every change of the path, *)
(* the text or the text last sent for validation, a debounce timer, and    *)
(* answers that come back in order.  No tab mounts the validation panel    *)
(* yet; it is modelled on the editor's path and text, as its props ask.    *)
(***************************************************************************)
EXTENDS Naturals, Sequences

CONSTANTS
    Paths,          \* the script files
    Texts,          \* texts a file or the editor can have, but the empty one
    EmptyText,      \* the empty text the editor and the panel start with
    NoPath,         \* no file is selected
    NoText,         \* no timer, no answer
    MaxCalls        \* bound: messages under way

ASSUME ScriptPanelAssumption ==
    NoPath \notin Paths /\ NoText \notin Texts \cup {EmptyText} /\ MaxCalls \in Nat

VARIABLES
    path,           \* GMEditorState.selected_script
    text,           \* GMEditorState.script_content
    original,       \* GMEditorState.script_original
    calls,          \* to the server, in order
    returns,        \* from the server, in order
    validated,      \* last_validated_content
    due,            \* the text the pending timer will send
    validating,     \* ValidationState.validating
    verdict         \* the text the issues on display are about

scriptPanelVars == <<path, text, original, calls, returns, validated, due,
                     validating, verdict>>

AnyText == Texts \cup {EmptyText}

\* Type correctness.
ScriptPanelTypeOK ==
    /\ path \in Paths \cup {NoPath}
    /\ text \in AnyText /\ original \in AnyText /\ validated \in AnyText
    /\ due \in AnyText \cup {NoText} /\ verdict \in AnyText \cup {NoText}
    /\ Len(calls) + Len(returns) <= MaxCalls
    /\ validating \in BOOLEAN

ScriptPanelInit ==
    /\ path = NoPath
    /\ text = EmptyText /\ original = EmptyText /\ validated = EmptyText
    /\ calls = <<>> /\ returns = <<>>
    /\ due = NoText /\ verdict = NoText
    /\ validating = FALSE

\* What the effect leaves in the timer for path p, text t and last validated
\* text v: a text that was validated last leaves a running timer alone, any
\* other replaces it.
Due(p, t, v) == IF p = NoPath \/ t = v THEN due ELSE t

\* Mutant of DueAfter: the effect does not depend on the validated text.
DueAfterNever(sent) == NoText

\* The timer once its text is sent: the effect runs again, as the text last
\* validated has changed.
DueAfter(sent) == IF text = sent THEN NoText ELSE text

Call(c) == /\ Len(calls) + Len(returns) < MaxCalls
           /\ calls' = Append(calls, c)

-----------------------------------------------------------------------------

\* A file of the list is clicked: its content is asked for.
SelectFile(p) ==
    /\ Call([op |-> "read", of |-> p])
    /\ UNCHANGED <<path, text, original, returns, validated, due, validating,
                   verdict>>

\* A script error is opened in the editor: the path changes at once, the
\* text when the answer comes, if it comes.
OpenFromError(p) ==
    /\ path' = p
    /\ due' = Due(p, text, validated)
    /\ Call([op |-> "read", of |-> p])
    /\ UNCHANGED <<text, original, returns, validated, validating, verdict>>

\* CodeMirror reports a change.
EditText(t) ==
    /\ path # NoPath /\ t # text
    /\ text' = t
    /\ due' = Due(path, t, validated)
    /\ UNCHANGED <<path, original, calls, returns, validated, validating,
                   verdict>>

\* Stage Change: the text goes to the staged changes (module GmEditor) under
\* the selected path, and counts as the original.
StageText ==
    /\ path # NoPath /\ text # original
    /\ original' = text
    /\ UNCHANGED <<path, text, calls, returns, validated, due, validating,
                   verdict>>

\* The timer fires: the generation is the latest, as a replaced timer is
\* cancelled.
TimerFires ==
    /\ due # NoText
    /\ validated' = due
    /\ due' = DueAfter(due)
    /\ validating' = TRUE
    /\ Call([op |-> "validate", of |-> due])
    /\ UNCHANGED <<path, text, original, returns, verdict>>

-----------------------------------------------------------------------------

\* handle_read_script: the file's content, or an error.
ServeRead ==
    /\ calls # <<>> /\ Head(calls).op = "read"
    /\ calls' = Tail(calls)
    /\ \/ \E t \in AnyText :
            returns' = Append(returns, [op |-> "content",
                                        of |-> Head(calls).of, text |-> t])
       \/ returns' = Append(returns, [op |-> "error"])
    /\ UNCHANGED <<path, text, original, validated, due, validating, verdict>>

\* handle_validate_script.
ServeValidate ==
    /\ calls # <<>> /\ Head(calls).op = "validate"
    /\ calls' = Tail(calls)
    /\ returns' = Append(returns, [op |-> "result", text |-> Head(calls).of])
    /\ UNCHANGED <<path, text, original, validated, due, validating, verdict>>

\* ScriptContent: the answer takes the editor, whatever was typed or
\* selected since the question.
TakeContent ==
    /\ returns # <<>> /\ Head(returns).op = "content"
    /\ LET c == Head(returns) IN
       /\ path' = c.of
       /\ text' = c.text /\ original' = c.text
       /\ due' = Due(c.of, c.text, validated)
    /\ returns' = Tail(returns)
    /\ UNCHANGED <<calls, validated, validating, verdict>>

\* on_validation_result, of whatever text was sent.
TakeResult ==
    /\ returns # <<>> /\ Head(returns).op = "result"
    /\ verdict' = Head(returns).text
    /\ validating' = FALSE
    /\ returns' = Tail(returns)
    /\ UNCHANGED <<path, text, original, calls, validated, due>>

\* AdminError: the message is shown, the path stays.
TakeError ==
    /\ returns # <<>> /\ Head(returns).op = "error"
    /\ returns' = Tail(returns)
    /\ UNCHANGED <<path, text, original, calls, validated, due, validating,
                   verdict>>

ScriptPanelNext ==
    \/ \E p \in Paths : SelectFile(p) \/ OpenFromError(p)
    \/ \E t \in AnyText : EditText(t)
    \/ StageText \/ TimerFires \/ ServeRead \/ ServeValidate
    \/ TakeContent \/ TakeResult \/ TakeError

-----------------------------------------------------------------------------

\* Once no timer runs and nothing is under way, the issues on display are
\* those of the text in the editor, whatever was typed, undone, opened or
\* answered in between.  (A first file that is empty is not validated.)
VerdictFits ==
    (due = NoText /\ calls = <<>> /\ returns = <<>> /\ path # NoPath)
        => \/ verdict = text /\ ~validating
           \/ verdict = NoText /\ text = EmptyText
=============================================================================

-------------------------------- MODULE MCTools --------------------------------
(***************************************************************************)
(* What players and game masters work with, checked in one run: playtests, *)
(* edits of the live world, the clients' view of a sector, the web         *)
(* client's connection, the keyboard of the terminal client, the editor's  *)
(* staged changes, its debug panel, its lists and its script editor.  The  *)
(* modules share no variable: `component` says which of them a behaviour   *)
(* is about, and the others keep an initial state.                         *)
(***************************************************************************)
EXTENDS Playtests, GmEdits, ClientView, ClientLink, GmEditor, DebugPanel,
        EditorPanels, ScriptPanel, TextClient, TLC

VARIABLE component

toolsVars == <<component, ptVars, geVars, viewVars, linkVars, gmVars, panelVars,
               editorVars, scriptPanelVars, textVars>>

\* Only the component under way chooses among its initial states.
ToolsInit ==
    /\ component \in {"playtests", "edits", "view", "link", "editor", "debugging",
                     "panels", "script", "text"}
    /\ PlaytestsInit /\ GmEditsInit /\ ViewInit /\ LinkInit /\ GmEditorInit
    /\ DebugPanelInit /\ EditorPanelsInit /\ ScriptPanelInit
    /\ TextClientInit
    /\ component = "edits" \/ \A s \in OldShips : live.at[s] = CHOOSE c \in Sectors : TRUE

ToolsNext ==
    \/ /\ component = "playtests" /\ PlaytestsNext
       /\ UNCHANGED <<component, geVars, viewVars, linkVars, gmVars, panelVars,
                    editorVars, scriptPanelVars, textVars>>
    \/ /\ component = "edits" /\ GmEditsNext
       /\ UNCHANGED <<component, ptVars, viewVars, linkVars, gmVars, panelVars,
                    editorVars, scriptPanelVars, textVars>>
    \/ /\ component = "view" /\ ViewNext
       /\ UNCHANGED <<component, ptVars, geVars, linkVars, gmVars, panelVars,
                    editorVars, scriptPanelVars, textVars>>
    \/ /\ component = "link" /\ LinkNext
       /\ UNCHANGED <<component, ptVars, geVars, viewVars, gmVars, panelVars,
                    editorVars, scriptPanelVars, textVars>>
    \/ /\ component = "editor" /\ GmEditorNext
       /\ UNCHANGED <<component, ptVars, geVars, viewVars, linkVars, panelVars,
                    editorVars, scriptPanelVars, textVars>>
    \/ /\ component = "debugging" /\ DebugPanelNext
       /\ UNCHANGED <<component, ptVars, geVars, viewVars, linkVars, gmVars,
                    editorVars, scriptPanelVars, textVars>>
    \/ /\ component = "panels" /\ EditorPanelsNext
       /\ UNCHANGED <<component, ptVars, geVars, viewVars, linkVars, gmVars,
                    panelVars, scriptPanelVars, textVars>>
    \/ /\ component = "script" /\ ScriptPanelNext
       /\ UNCHANGED <<component, ptVars, geVars, viewVars, linkVars, gmVars,
                    panelVars, editorVars, textVars>>
    \/ /\ component = "text" /\ TextClientNext
       /\ UNCHANGED <<component, ptVars, geVars, viewVars, linkVars, gmVars,
                    panelVars, editorVars, scriptPanelVars>>

ToolsSpec == ToolsInit /\ [][ToolsNext]_toolsVars

\* The type invariant of the component that runs: for the link, the web client makes
\* no more attempts in a row than its limit (MayReconnect).
ToolsTypeOK ==
    CASE component = "playtests" -> PlaytestsTypeOK
      [] component = "edits" -> GmEditsTypeOK
      [] component = "view" -> ViewTypeOK
      [] component = "link" -> LinkTypeOK
      [] component = "editor" -> GmEditorTypeOK
      [] component = "debugging" -> DebugPanelTypeOK
      [] component = "panels" -> EditorPanelsTypeOK
      [] component = "script" -> ScriptPanelTypeOK
      [] component = "text" -> TextTypeOK

\* What game masters are told of the edits of the world: what is reported done is
\* in the state or was lost for a stated reason (EditsAgree), and what the editor
\* commits reaches the server once (EditsReachOnce).
EditsHold ==
    /\ component = "edits" => EditsAgree
    /\ component = "editor" => EditsReachOnce

\* Once every question of the editor is answered, each of its panels shows what the
\* server holds, or the answer to the last question it asked: breakpoints and the
\* debug session (PanelAgrees), lists, pages and schemas (BoardsSettle), and the
\* issues of the text in the script editor (VerdictFits).
EditorShowsServer ==
    /\ component = "debugging" => PanelAgrees
    /\ component = "panels" => BoardsSettle
    /\ component = "script" => VerdictFits

\* The modules share these model values (a player of a playtest and a sector of a
\* view), so that one permutation of two values reduces both.
Symmetry == Permutations(Players)
=============================================================================

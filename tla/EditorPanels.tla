---------------------------- MODULE EditorPanels ----------------------------
(***************************************************************************)
(* The tabs of the game-master editor (bw-gm-editor) that ask the server   *)
(* and show what it answers: entities, state inspector, definition         *)
(* schemas and exports.  A tab's component is mounted when it is selected, *)
(* and its own choices start afresh; the answers live in shared state and  *)
(* stay (state/*.rs).  Questions are not numbered: an answer is taken for  *)
(* the answer to the latest question.  A question sent while the socket is *)
(* not open is lost (api/admin_ws.rs:279), and nothing asks again when it  *)
(* opens.                                                                  *)
(***************************************************************************)
EXTENDS Naturals, Sequences

CONSTANTS
    Kinds,          \* entity types
    ShipKind,       \* the type a newly mounted component starts with
    Archetypes,     \* archetype types
    NothingYet,     \* no answer, no choice
    Whole,          \* a question about the whole list
    MaxPage,        \* bound: the inspector's pages, from 0
    MaxPending      \* bound: questions and answers under way when one is asked

ASSUME KindAssumption == ShipKind \in Kinds
ASSUME PanelBoundsAssumption == MaxPage \in Nat /\ MaxPending \in Nat

VARIABLES
    connection,     \* the editor's connection
    questions,      \* to the server, in order
    replies,        \* to the editor, in order
    tab,            \* the selected tab
    picked,         \* the mounted component's entity type
    page,           \* InspectorState.offset, in pages
    pages,          \* InspectorState.total_count, in pages
    schema,         \* SchemaState.selected_type
    loading,        \* per board: its loading flag
    boards,         \* per kind of answer: what the last one was about
    exporting       \* ExportState.creating_id is set

editorVars == <<connection, questions, replies, tab, picked, page, pages, schema,
                loading, boards, exporting>>
boardVars == <<pages, schema, loading, boards, exporting>>

Boards == {"entities", "state", "schemas", "exports"}
Tabs == {"entities", "state", "definitions", "export", "debug"}
AnswerKinds == {"entities", "state", "schemas", "fields"}
About == [kind : Kinds, page : 0..MaxPage] \cup Archetypes
            \cup {Whole, NothingYet}

\* Type correctness.
EditorPanelsTypeOK ==
    /\ connection \in {"connecting", "open", "closed"}
    /\ Len(questions) + Len(replies) <= 2 * MaxPending
    /\ tab \in Tabs /\ picked \in Kinds
    /\ page \in 0..MaxPage /\ pages \in 0..MaxPage
    /\ schema \in Archetypes \cup {NothingYet}
    /\ loading \in [Boards -> BOOLEAN]
    /\ boards \in [AnswerKinds -> About]
    /\ exporting \in BOOLEAN

EditorPanelsInit ==
    /\ connection = "connecting"
    /\ questions = <<>> /\ replies = <<>>
    /\ tab = "debug" /\ picked = ShipKind
    /\ page = 0 /\ pages = 0
    /\ schema = NothingYet
    /\ loading = [b \in Boards |-> FALSE]
    /\ boards = [b \in AnswerKinds |-> NothingYet]
    /\ exporting = FALSE

-----------------------------------------------------------------------------
(* The connection *)

SocketOpens ==
    /\ connection = "connecting"
    /\ connection' = "open"
    /\ UNCHANGED <<questions, replies, tab, picked, page, boardVars>>

\* The editor does not connect again.
SocketCloses ==
    /\ connection # "closed"
    /\ connection' = "closed"
    /\ questions' = <<>> /\ replies' = <<>>
    /\ UNCHANGED <<tab, picked, page, boardVars>>

\* AdminWsClient::send.
Send(q) ==
    /\ Len(questions) + Len(replies) < MaxPending
    /\ questions' = IF connection = "open" THEN Append(questions, q)
                                       ELSE questions
    /\ UNCHANGED <<connection, replies>>

Question(b, about) == [for |-> b, about |-> about]
Load(b) == loading' = [loading EXCEPT ![b] = TRUE]

-----------------------------------------------------------------------------
(* The tabs *)

LeaveAlone == UNCHANGED <<pages, schema, boards, exporting>>

\* EntityBrowser: asks when it is mounted and when its type changes.
BrowseEntities(k) ==
    /\ tab' = "entities" /\ picked' = k
    /\ Load("entities")
    /\ Send(Question("entities", [kind |-> k, page |-> 0]))
    /\ UNCHANGED page /\ LeaveAlone

\* StateInspector: asks when it is mounted, for the page it had, and when
\* its type or its page changes.
InspectState(k, p) ==
    /\ tab' = "state" /\ picked' = k /\ page' = p
    /\ Load("state")
    /\ Send(Question("state", [kind |-> k, page |-> p]))
    /\ LeaveAlone

\* SchemaBrowser and ExportPanel ask when they are mounted;
\* the schemas and the exports again on a click.
OpenList(t, b) ==
    /\ tab' = t
    /\ Load(b)
    /\ Send(Question(b, Whole))
    /\ UNCHANGED <<picked, page>> /\ LeaveAlone

OpenTab ==
    \/ tab # "entities" /\ BrowseEntities(ShipKind)
    \/ tab # "state" /\ InspectState(ShipKind, page)
    \/ OpenList("definitions", "schemas")
    \/ OpenList("export", "exports")

PickKind(k) ==
    /\ k # picked
    /\ \/ tab = "entities" /\ BrowseEntities(k)
       \/ tab = "state" /\ InspectState(k, 0)

\* Previous and Next go by the total of the answer shown.
TurnPage ==
    /\ tab = "state"
    /\ \/ page > 0 /\ InspectState(picked, page - 1)
       \/ page < pages /\ InspectState(picked, page + 1)

\* Refresh.
AskAgain == tab = "state" /\ InspectState(picked, page)

\* An archetype of the list: its fields are cleared and asked for.  The
\* list and the fields share one loading flag.
PickSchema(a) ==
    /\ tab = "definitions" /\ boards["schemas"] # NothingYet
    /\ schema' = a
    /\ boards' = [boards EXCEPT !["fields"] = NothingYet]
    /\ Load("schemas")
    /\ Send(Question("fields", a))
    /\ UNCHANGED <<tab, picked, page, pages, exporting>>

\* An export is created, while none is.
CreateExport ==
    /\ tab = "export" /\ ~exporting
    /\ Send(Question("export", Whole))
    /\ UNCHANGED <<tab, picked, page, boardVars>>

-----------------------------------------------------------------------------
(* The server answers in order; most answers are whatever the game holds *)

Reply(rs) ==
    /\ questions' = Tail(questions)
    /\ replies' = replies \o rs
    /\ UNCHANGED <<connection, tab, picked, page, boardVars>>

For(b) == questions # <<>> /\ Head(questions).for = b

\* handle_query_entities, the filtered list from the offset on.
AnswerEntities == For("entities") /\ Reply(<<Head(questions)>>)

\* handle_get_state_snapshot: the page, and a total that may have changed.
AnswerSnapshot ==
    /\ For("state")
    /\ \E n \in 0..MaxPage :
         Reply(<<[for |-> "state", about |-> Head(questions).about,
                  pages |-> n]>>)

\* handle_get_archetype_schemas; the list of exports is always empty.
AnswerList ==
    /\ \E b \in {"schemas", "exports"} : For(b)
    /\ Reply(<<Head(questions)>>)

\* handle_get_archetype_schema of a registered type.
AnswerFields == For("fields") /\ Reply(<<Head(questions)>>)

\* An export is announced and fails at once: two messages.
AnswerExport ==
    /\ For("export")
    /\ Reply(<<[for |-> "exportCreated"], [for |-> "exportFailed"]>>)

-----------------------------------------------------------------------------
(* What the editor does with an answer, whatever it has asked since *)

Hear == /\ replies' = Tail(replies)
        /\ UNCHANGED <<connection, questions, tab, picked, page>>

Came(b) == replies # <<>> /\ Head(replies).for = b

\* ExportList: the list is empty.
HearExports ==
    /\ Came("exports")
    /\ loading' = [loading EXCEPT !["exports"] = FALSE]
    /\ Hear /\ UNCHANGED <<pages, schema, boards, exporting>>

\* EntityList and ArchetypeSchemas.
HearBoard(b) ==
    /\ Came(b)
    /\ boards' = [boards EXCEPT ![b] = Head(replies).about]
    /\ loading' = [loading EXCEPT ![b] = FALSE]
    /\ Hear /\ UNCHANGED <<pages, schema, exporting>>

\* on_snapshot: the entity type of the answer is not looked at.
HearSnapshot ==
    /\ Came("state")
    /\ boards' = [boards EXCEPT !["state"] = Head(replies).about]
    /\ pages' = Head(replies).pages
    /\ loading' = [loading EXCEPT !["state"] = FALSE]
    /\ Hear /\ UNCHANGED <<schema, exporting>>

\* Mutant: the fields are shown under the archetype now selected.
HearFieldsOnly ==
    /\ Came("fields")
    /\ boards' = [boards EXCEPT !["fields"] = Head(replies).about]
    /\ loading' = [loading EXCEPT !["schemas"] = FALSE]
    /\ Hear /\ UNCHANGED <<pages, schema, exporting>>

\* on_schema_detail: the selection goes to the archetype that was answered.
HearFields ==
    /\ Came("fields")
    /\ schema' = Head(replies).about
    /\ boards' = [boards EXCEPT !["fields"] = Head(replies).about]
    /\ loading' = [loading EXCEPT !["schemas"] = FALSE]
    /\ Hear /\ UNCHANGED <<pages, exporting>>

HearExport ==
    /\ replies # <<>> /\ Head(replies).for \in {"exportCreated", "exportFailed"}
    /\ exporting' = (Head(replies).for = "exportCreated")
    /\ Hear /\ UNCHANGED <<pages, schema, loading, boards>>

-----------------------------------------------------------------------------

EditorPanelsNext ==
    \/ SocketOpens \/ SocketCloses
    \/ OpenTab \/ TurnPage \/ AskAgain
    \/ \E k \in Kinds : PickKind(k)
    \/ \E a \in Archetypes : PickSchema(a)
    \/ CreateExport
    \/ AnswerEntities \/ AnswerSnapshot \/ AnswerList \/ AnswerFields
    \/ AnswerExport
    \/ \E b \in {"entities", "schemas"} : HearBoard(b)
    \/ HearExports
    \/ HearSnapshot \/ HearFields \/ HearExport

-----------------------------------------------------------------------------

\* While the connection stands and nothing is under way, a mounted board that
\* does not claim to load shows the answer to the question its choices ask;
\* the fields on display are at any time those of the selected archetype.
BoardsSettle ==
    /\ boards["fields"] # NothingYet => boards["fields"] = schema
    /\ (questions = <<>> /\ replies = <<>> /\ connection # "closed") =>
         /\ (tab = "entities" /\ ~loading["entities"])
               => boards["entities"] = [kind |-> picked, page |-> 0]
         /\ (tab = "state" /\ ~loading["state"])
               => boards["state"] = [kind |-> picked, page |-> page]
         /\ ~exporting
=============================================================================

------------------------------ MODULE TextClient ------------------------------
(***************************************************************************)
(* The keyboard of the terminal client (bw-tui): what a key means depends  *)
(* on the input mode, on the question the server asked last, on the        *)
(* invitations and proposals that wait, and on the panel in focus.  A      *)
(* frame handles one key and then every message that came, so a key        *)
(* answers what was drawn.  The lists of the client (ships, locations,     *)
(* missions) are in module ClientView: a key that needs one of them sends  *)
(* its message or does nothing.  A dialog is never open, as only a mission *)
(* under way opens one and active_mission is never set.                    *)
(***************************************************************************)
EXTENDS Naturals, FiniteSets, Sequences, SequencesExt, Functions

CONSTANTS
    Cards,          \* what questions are about: missions, choices, invitations
    NoChoice,       \* no question on display
    Silence,        \* no message
    MaxAsked        \* bound: questions of the server

VARIABLES
    mode,           \* UiState.input_mode
    typed,          \* UiState.input_buffer is not empty
    focus,          \* UiState.focus
    cursor,         \* UiState.map_cursor is set
    missionChoice,  \* GameState.mission_choice
    genericChoice,  \* GameState.generic_choice
    invites,        \* GameState.squadron_invites
    proposals,      \* GameState.alliance_proposals
    cable,          \* the network task
    said,           \* the message the last step handed to it
    asked,          \* how often the server asked each question (history)
    answered        \* how often an answer was handed to the network task

textVars == <<mode, typed, focus, cursor, missionChoice, genericChoice, invites,
              proposals, cable, said, asked, answered>>

Questions == {"mission", "generic", "invite", "proposal"}
OnDisplay == [of: Cards, open: BOOLEAN]

\* What a command, and a key of the map, can send.
CommandMessages == {"dock", "undock", "stop", "move", "chat", "metrics",
                    "create squadron", "leave squadron", "service"}
MapMessages == {"dock", "undock", "stop", "engage", "disengage", "jump"}

\* Type correctness.
TextTypeOK ==
    /\ mode \in {"normal", "insert", "command"}
    /\ typed \in BOOLEAN /\ cursor \in BOOLEAN
    /\ focus \in {"map", "left", "right"}
    /\ missionChoice \in OnDisplay \cup {NoChoice}
    /\ genericChoice \in OnDisplay \cup {NoChoice}
    /\ ToSet(invites) \cup ToSet(proposals) \subseteq Cards
    /\ cable \in {"dialing", "up", "down", "quit"}
    /\ said \in CommandMessages \cup MapMessages \cup
                {"hail", "accept", "answer", Silence}
    /\ asked \in [Questions -> [Cards -> Nat]]
    /\ answered \in [Questions -> [Cards -> Nat]]

TextClientInit ==
    /\ mode = "normal" /\ typed = FALSE /\ focus = "map" /\ cursor = FALSE
    /\ missionChoice = NoChoice /\ genericChoice = NoChoice
    /\ invites = <<>> /\ proposals = <<>>
    /\ cable = "dialing" /\ said = Silence
    /\ asked = [q \in Questions |-> [c \in Cards |-> 0]]
    /\ answered = [q \in Questions |-> [c \in Cards |-> 0]]

AskedInAll ==
    LET Of(q) == FoldFunction(+, 0, asked[q])
    IN  Of("mission") + Of("generic") + Of("invite") + Of("proposal")

\* NetworkClient.send: once the task is gone the message is dropped without a
\* word.
Say(m) == said' = IF cable = "down" THEN Silence ELSE m

GiveAnswer(q, c) ==
    /\ Say("answer")
    /\ answered' = [answered EXCEPT ![q][c] = @ + (IF cable = "down" THEN 0 ELSE 1)]

\* Mutants: an answered choice stays on display, and an invitation is struck from
\* the wrong end of the list.
AfterChoiceKept(choice) == choice
RestWithoutLast(waiting) == Front(waiting)

\* What is on display once a choice is answered, and what waits once the first
\* of a list is.
AfterChoice(choice) == NoChoice
Rest(waiting) == Tail(waiting)

-----------------------------------------------------------------------------

\* run_connection: the socket opens, and the token is sent first if there is one;
\* it cannot be opened, or fails; the server closes it.  Nothing reconnects.
Open == /\ cable = "dialing" /\ cable' = "up"
        /\ said' = Silence
        /\ UNCHANGED <<mode, typed, focus, cursor, missionChoice, genericChoice,
                       invites, proposals, asked, answered>>

LoseSocket == /\ cable \in {"dialing", "up"} /\ cable' = "down"
        /\ said' = Silence
        /\ UNCHANGED <<mode, typed, focus, cursor, missionChoice, genericChoice,
                       invites, proposals, asked, answered>>

AskPlayer(q, c) ==
    /\ cable = "up" /\ AskedInAll < MaxAsked
    /\ asked' = [asked EXCEPT ![q][c] = @ + 1]
    /\ said' = Silence
    /\ UNCHANGED <<mode, typed, focus, cursor, cable, answered>>

\* A newer choice takes the place of an unanswered one.
HearMissionChoice(c, open) ==
    /\ AskPlayer("mission", c)
    /\ missionChoice' = [of |-> c, open |-> open]
    /\ UNCHANGED <<genericChoice, invites, proposals>>

HearChoiceRequired(c, open) ==
    /\ AskPlayer("generic", c)
    /\ genericChoice' = [of |-> c, open |-> open]
    /\ UNCHANGED <<missionChoice, invites, proposals>>

\* An invitation and a proposal have identifiers of their own.
HearInvite(c) ==
    /\ AskPlayer("invite", c) /\ asked["invite"][c] = 0
    /\ invites' = Append(invites, c)
    /\ UNCHANGED <<missionChoice, genericChoice, proposals>>

HearProposal(c) ==
    /\ AskPlayer("proposal", c) /\ asked["proposal"][c] = 0
    /\ proposals' = Append(proposals, c)
    /\ UNCHANGED <<missionChoice, genericChoice, invites>>

\* The result of any mission takes the choice off the display.
HearMissionResult ==
    /\ cable = "up" /\ missionChoice # NoChoice
    /\ missionChoice' = NoChoice
    /\ said' = Silence
    /\ UNCHANGED <<mode, typed, focus, cursor, genericChoice, invites, proposals,
                   cable, asked, answered>>

-----------------------------------------------------------------------------

\* handle_insert_mode: Esc and Enter leave it, Enter only with a text to send.
InsertKey ==
    /\ mode = "insert" /\ cable # "quit"
    /\ \/ mode' = "normal" /\ typed' = FALSE /\ said' = Silence
       \/ typed /\ mode' = "normal" /\ typed' = FALSE /\ Say("chat")
       \/ typed' \in BOOLEAN /\ said' = Silence /\ UNCHANGED mode
    /\ UNCHANGED <<focus, cursor, missionChoice, genericChoice, invites,
                   proposals, cable, asked, answered>>

\* handle_command_mode and execute_command: what is typed is a choice.
CommandKey ==
    /\ mode = "command" /\ cable # "quit"
    /\ mode' = "normal"
    /\ said' = Silence \/ \E m \in CommandMessages : Say(m)
    /\ UNCHANGED <<typed, focus, cursor, missionChoice, genericChoice, invites,
                   proposals, cable, asked, answered>>

\* handle_mission_choice: a digit of an option that is available; Esc and every
\* other key are refused.
MissionChoiceKey ==
    /\ mode = "normal" /\ cable # "quit"
    /\ missionChoice # NoChoice /\ missionChoice.open
    /\ GiveAnswer("mission", missionChoice.of)
    /\ missionChoice' = AfterChoice(missionChoice)
    /\ UNCHANGED <<mode, typed, focus, cursor, genericChoice, invites, proposals,
                   cable, asked>>

\* handle_generic_choice: a digit of an available option, or Esc.
GenericChoiceKey ==
    /\ mode = "normal" /\ cable # "quit"
    /\ missionChoice = NoChoice /\ genericChoice # NoChoice
    /\ \/ /\ genericChoice.open
          /\ GiveAnswer("generic", genericChoice.of)
          /\ genericChoice' = AfterChoice(genericChoice)
       \/ /\ genericChoice' = NoChoice /\ said' = Silence
          /\ UNCHANGED answered
    /\ UNCHANGED <<mode, typed, focus, cursor, missionChoice, invites, proposals,
                   cable, asked>>

\* The keys that are not taken by a text or a choice on display.
Free == /\ mode = "normal" /\ cable # "quit"
        /\ missionChoice = NoChoice /\ genericChoice = NoChoice

\* handle_squadron_invite: y and n answer the first one.
InviteKey ==
    /\ Free /\ invites # <<>>
    /\ GiveAnswer("invite", Head(invites))
    /\ invites' = Rest(invites)
    /\ UNCHANGED <<mode, typed, focus, cursor, missionChoice, genericChoice,
                   proposals, cable, asked>>

\* handle_alliance_proposal: only when no invitation waits.
ProposalKey ==
    /\ Free /\ invites = <<>> /\ proposals # <<>>
    /\ GiveAnswer("proposal", Head(proposals))
    /\ proposals' = Rest(proposals)
    /\ UNCHANGED <<mode, typed, focus, cursor, missionChoice, genericChoice,
                   invites, cable, asked>>

\* Tab and Shift-Tab.
FocusKey ==
    /\ Free /\ focus' \in {"map", "left", "right"} \ {focus}
    /\ said' = Silence
    /\ UNCHANGED <<mode, typed, cursor, missionChoice, genericChoice, invites,
                   proposals, cable, asked, answered>>

\* The colon, and the keys for a text on the map and on the right.
ModeKey ==
    /\ Free
    /\ \/ mode' = "command" /\ UNCHANGED typed
       \/ focus \in {"map", "right"} /\ mode' = "insert" /\ typed' = FALSE
    /\ said' = Silence
    /\ UNCHANGED <<focus, cursor, missionChoice, genericChoice, invites,
                   proposals, cable, asked, answered>>

\* handle_map_input: the cursor, Enter to go where it is, orders of the ship; the
\* key to hail is the one that accepts what waits.
MapKey ==
    /\ Free /\ focus = "map"
    /\ \/ cursor' = TRUE /\ said' = Silence
       \/ cursor /\ Say("move") /\ UNCHANGED cursor
       \/ (\E m \in MapMessages : Say(m)) /\ UNCHANGED cursor
       \/ invites = <<>> /\ proposals = <<>> /\ Say("hail") /\ UNCHANGED cursor
    /\ UNCHANGED <<mode, typed, focus, missionChoice, genericChoice, invites,
                   proposals, cable, asked, answered>>

\* handle_left_sidebar: accepting the mission under the mark.
LeftKey ==
    /\ Free /\ focus = "left"
    /\ Say("accept")
    /\ UNCHANGED <<mode, typed, focus, cursor, missionChoice, genericChoice,
                   invites, proposals, cable, asked, answered>>

\* q outside of a text, and Ctrl-C: the network task is aborted.
Quit ==
    /\ cable # "quit" /\ cable' = "quit"
    /\ said' = Silence
    /\ UNCHANGED <<mode, typed, focus, cursor, missionChoice, genericChoice,
                   invites, proposals, asked, answered>>

TextClientNext ==
    \/ Open \/ LoseSocket \/ HearMissionResult
    \/ \E c \in Cards, open \in BOOLEAN :
            HearMissionChoice(c, open) \/ HearChoiceRequired(c, open)
    \/ \E c \in Cards : HearInvite(c) \/ HearProposal(c)
    \/ InsertKey \/ CommandKey \/ MissionChoiceKey \/ GenericChoiceKey
    \/ InviteKey \/ ProposalKey \/ FocusKey \/ ModeKey \/ MapKey \/ LeftKey
    \/ Quit

TextClientSpec == TextClientInit /\ [][TextClientNext]_textVars

-----------------------------------------------------------------------------

\* How often question q about c is on display or in line.
Waiting(q, c) ==
    LET Shown(choice) == IF choice # NoChoice /\ choice.of = c THEN 1 ELSE 0
        Listed(list) == Cardinality({i \in DOMAIN list : list[i] = c})
    IN  CASE q = "mission" -> Shown(missionChoice)
          [] q = "generic" -> Shown(genericChoice)
          [] q = "invite" -> Listed(invites)
          [] q = "proposal" -> Listed(proposals)

\* However keys and messages interleave, the player answers a question no more
\* often than the server asked it; and while there is a connection an invitation
\* or a proposal goes only with its answer: none is answered in the place of
\* another, or dropped by a choice, a command or a text that comes in between
\* (handle_key, handle_mission_choice, handle_squadron_invite, ...).
AnsweredOnce ==
    \A q \in Questions, c \in Cards :
        /\ answered[q][c] + Waiting(q, c) <= asked[q][c]
        /\ q \in {"invite", "proposal"} /\ cable \in {"dialing", "up"} =>
                answered[q][c] + Waiting(q, c) = asked[q][c]
=============================================================================

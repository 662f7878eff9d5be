----------------------------- MODULE DebugPanel -----------------------------
(***************************************************************************)
(* The debug panel of the game-master editor (bw-gm-editor, debug_panel.rs *)
(* and debug_state.rs) against the handlers that answer it                 *)
(* (ws/admin_handler.rs): two FIFO channels, and the task that forwards    *)
(* pauses into one of them.  The controller itself and the script that     *)
(* stops are module Debugger; here a pause is an event that just happens.  *)
(*                                                                         *)
(* No component calls set_breakpoint, set_function_breakpoint or           *)
(* list_breakpoints yet: they are modelled as calls of the client's API.   *)
(***************************************************************************)
EXTENDS Naturals, Sequences

CONSTANTS
    PanelSessions,  \* identifiers of debug sessions, used once each
    Breaks,         \* identifiers of breakpoints, used once each
    NoPanelSession, \* no session
    MaxWire,        \* bound: messages under way, both directions together
    MaxStops        \* bound: pauses a session's channel holds

ASSUME DebugPanelAssumption ==
    NoPanelSession \notin PanelSessions /\ MaxWire \in Nat /\ MaxStops \in Nat

VARIABLES
    held,           \* the session DEBUG_SESSIONS has for this player
    breaks,         \* the breakpoints of that session
    stopped,        \* its paused_at is set
    stops,          \* per session: pauses its forwarding task has to send
    spent,          \* the identifiers used so far
    channel,        \* the messages to the server and to the panel
    panel,          \* DebugPanelState
    rows            \* per breakpoint: the state its row was drawn with

panelVars == <<held, breaks, stopped, stops, spent, channel, panel, rows>>
serverVars == <<held, breaks, stopped, stops, spent>>

Shape == {"absent", "on", "off"}
NoBreaks == [b \in Breaks |-> "absent"]

\* Type correctness.
DebugPanelTypeOK ==
    /\ held \in PanelSessions \cup {NoPanelSession}
    /\ breaks \in [Breaks -> Shape] /\ rows \in [Breaks -> Shape]
    /\ stopped \in BOOLEAN
    /\ stops \in [PanelSessions -> 0..MaxStops]
    /\ spent \subseteq PanelSessions \cup Breaks
    /\ Len(channel.up) + Len(channel.down) <= MaxWire
    /\ panel \in [session : PanelSessions \cup {NoPanelSession},
                  connecting : BOOLEAN, paused : BOOLEAN, frames : BOOLEAN,
                  locals : BOOLEAN, bps : [Breaks -> Shape],
                  fns : SUBSET Breaks]

FreshPanel == [session |-> NoPanelSession, connecting |-> FALSE,
               paused |-> FALSE, frames |-> FALSE, locals |-> FALSE,
               bps |-> NoBreaks, fns |-> {}]

DebugPanelInit ==
    /\ held = NoPanelSession /\ breaks = NoBreaks /\ stopped = FALSE
    /\ stops = [s \in PanelSessions |-> 0]
    /\ spent = {}
    /\ channel = [up |-> <<>>, down |-> <<>>]
    /\ panel = FreshPanel
    /\ rows = NoBreaks

-----------------------------------------------------------------------------
(* What the game master clicks *)

Room == Len(channel.up) + Len(channel.down) < MaxWire

Ask(q) ==
    /\ Room
    /\ channel' = [channel EXCEPT !.up = Append(@, q)]
    /\ UNCHANGED <<serverVars, rows>>

\* The header: Start is offered without a session, End with one.
ClickStart ==
    /\ panel.session = NoPanelSession /\ ~panel.connecting
    /\ panel' = [panel EXCEPT !.connecting = TRUE]
    /\ Ask([does |-> "start"])

ClickEnd ==
    /\ panel.session # NoPanelSession
    /\ Ask([does |-> "end"])
    /\ UNCHANGED panel

\* Continue and the steps are offered while paused, Pause otherwise.
ClickControl(c) ==
    /\ panel.session # NoPanelSession
    /\ panel.paused <=> c # "pause"
    /\ Ask([does |-> c])
    /\ UNCHANGED panel

\* A frame of the call stack is selected: its variables are asked for.
SelectFrame ==
    /\ panel.session # NoPanelSession /\ panel.frames
    /\ Ask([does |-> "variables"])
    /\ UNCHANGED panel

\* A variable is opened, or an expression is evaluated: the server answers
\* both with an error.
ExpandVariable ==
    /\ panel.session # NoPanelSession /\ panel.locals
    /\ Ask([does |-> "expand"])
    /\ UNCHANGED panel

\* set_breakpoint, set_function_breakpoint and list_breakpoints.
RequestBreakpoint(c) ==
    /\ Ask([does |-> c])
    /\ UNCHANGED panel

\* A row sends the negation of the state it was drawn with: the list is
\* keyed by identifier, and a row already drawn keeps its first value.
ToggleRow(b) ==
    /\ panel.session # NoPanelSession /\ rows[b] # "absent"
    /\ Ask([does |-> "toggle", id |-> b, to |-> IF rows[b] = "on"
                                                  THEN "off" ELSE "on"])
    /\ UNCHANGED panel

RemoveRow(b) ==
    /\ panel.session # NoPanelSession /\ rows[b] # "absent"
    /\ Ask([does |-> "remove", id |-> b])
    /\ UNCHANGED panel

\* The editor is closed and mounted again: a new panel on a new socket.
\* What the old connection had not handled is lost; the session is not.
ReopenEditor ==
    /\ panel' = FreshPanel
    /\ rows' = NoBreaks
    /\ channel' = [up |-> <<>>, down |-> <<>>]
    /\ UNCHANGED serverVars

-----------------------------------------------------------------------------
(* The server, one message at a time *)

Requested(c) == channel.up # <<>> /\ Head(channel.up).does = c

Answer(a) == channel' = [up |-> Tail(channel.up), down |-> Append(channel.down, a)]

\* Every request but the start needs a session.
NoneActive(c) ==
    /\ Requested(c) /\ held = NoPanelSession
    /\ Answer([is |-> "error"])
    /\ UNCHANGED <<serverVars, panel, rows>>

\* handle_start_debug_session on the live game.
AnswerStart ==
    /\ Requested("start")
    /\ UNCHANGED <<breaks, stopped, stops, panel, rows>>
    /\ \/ /\ held # NoPanelSession
          /\ Answer([is |-> "error"])
          /\ UNCHANGED <<held, spent>>
       \/ /\ held = NoPanelSession
          /\ \E s \in PanelSessions \ spent :
               /\ held' = s
               /\ spent' = spent \cup {s}
               /\ Answer([is |-> "started", of |-> s])

AnswerEnd ==
    /\ Requested("end") /\ held # NoPanelSession
    /\ held' = NoPanelSession /\ breaks' = NoBreaks /\ stopped' = FALSE
    /\ Answer([is |-> "ended"])
    /\ UNCHANGED <<stops, spent, panel, rows>>

AnswerSet ==
    /\ Requested("set") /\ held # NoPanelSession
    /\ \E b \in Breaks \ spent :
         /\ breaks' = [breaks EXCEPT ![b] = "on"]
         /\ spent' = spent \cup {b}
         /\ Answer([is |-> "set", id |-> b])
    /\ UNCHANGED <<held, stopped, stops, panel, rows>>

\* A function breakpoint is announced and stored nowhere.
AnswerSetFunction ==
    /\ Requested("setFunction") /\ held # NoPanelSession
    /\ \E b \in Breaks \ spent :
         /\ spent' = spent \cup {b}
         /\ Answer([is |-> "setFunction", id |-> b])
    /\ UNCHANGED <<held, breaks, stopped, stops, panel, rows>>

AnswerRemove ==
    /\ Requested("remove") /\ held # NoPanelSession
    /\ LET b == Head(channel.up).id IN
       IF breaks[b] = "absent"
         THEN Answer([is |-> "error"]) /\ UNCHANGED breaks
         ELSE /\ breaks' = [breaks EXCEPT ![b] = "absent"]
              /\ Answer([is |-> "removed", id |-> b])
    /\ UNCHANGED <<held, stopped, stops, spent, panel, rows>>

AnswerToggle ==
    /\ Requested("toggle") /\ held # NoPanelSession
    /\ LET q == Head(channel.up) IN
       IF breaks[q.id] = "absent"
         THEN Answer([is |-> "error"]) /\ UNCHANGED breaks
         ELSE /\ breaks' = [breaks EXCEPT ![q.id] = q.to]
              /\ Answer([is |-> "toggled", id |-> q.id, to |-> q.to])
    /\ UNCHANGED <<held, stopped, stops, spent, panel, rows>>

AnswerBreakpoints ==
    /\ Requested("list") /\ held # NoPanelSession
    /\ Answer([is |-> "list", all |-> breaks])
    /\ UNCHANGED <<serverVars, panel, rows>>

\* Continue and the steps: the command is sent, and the session is taken
\* for resumed.  A full or unread command channel refuses.
AnswerGoOn(c) ==
    /\ Requested(c) /\ held # NoPanelSession
    /\ \/ /\ Answer([is |-> "resumed"])
          /\ stopped' = FALSE
       \/ /\ Answer([is |-> "error"])
          /\ UNCHANGED stopped
    /\ UNCHANGED <<held, breaks, stops, spent, panel, rows>>

\* A pause is answered by the script, if it ever stops.
AnswerPause ==
    /\ Requested("pause") /\ held # NoPanelSession
    /\ \/ channel' = [channel EXCEPT !.up = Tail(@)]
       \/ Answer([is |-> "error"])
    /\ UNCHANGED <<serverVars, panel, rows>>

\* The variables are those of the stopped frame, whichever was asked for.
AnswerVariables ==
    /\ Requested("variables") /\ held # NoPanelSession
    /\ Answer([is |-> IF stopped THEN "variables" ELSE "error"])
    /\ UNCHANGED <<serverVars, panel, rows>>

AnswerExpand ==
    /\ Requested("expand") /\ held # NoPanelSession
    /\ Answer([is |-> "error"])
    /\ UNCHANGED <<serverVars, panel, rows>>

\* A script stops under the session: a pause for its forwarding task.
ScriptStops ==
    /\ held # NoPanelSession /\ stops[held] < MaxStops
    /\ stops' = [stops EXCEPT ![held] = @ + 1]
    /\ UNCHANGED <<held, breaks, stopped, spent, channel, panel, rows>>

\* The forwarding task: set_paused does nothing for a session that ended,
\* the message is sent all the same.
ForwardStop(s) ==
    /\ stops[s] > 0 /\ Room
    /\ stops' = [stops EXCEPT ![s] = @ - 1]
    /\ stopped' = (stopped \/ s = held)
    /\ channel' = [channel EXCEPT !.down = Append(@, [is |-> "paused"])]
    /\ UNCHANGED <<held, breaks, spent, panel, rows>>

-----------------------------------------------------------------------------
(* What the panel does with a message *)

Incoming(k) == channel.down # <<>> /\ Head(channel.down).is = k

Took == channel' = [channel EXCEPT !.down = Tail(@)]

OnStarted ==
    /\ Incoming("started")
    /\ panel' = [panel EXCEPT !.session = Head(channel.down).of,
                              !.connecting = FALSE]
    /\ Took /\ UNCHANGED <<serverVars, rows>>

\* The breakpoints shown outlive the session.
OnEnded ==
    /\ Incoming("ended")
    /\ panel' = [panel EXCEPT !.session = NoPanelSession, !.paused = FALSE,
                              !.frames = FALSE, !.locals = FALSE]
    /\ Took /\ UNCHANGED <<serverVars, rows>>

\* The rows drawn for a new list of breakpoints.
Redrawn(shown) ==
    [b \in Breaks |-> IF shown[b] = "absent" THEN "absent"
                      ELSE IF rows[b] = "absent" THEN shown[b] ELSE rows[b]]

Shows(shown) ==
    /\ panel' = [panel EXCEPT !.bps = shown]
    /\ rows' = Redrawn(shown)
    /\ Took /\ UNCHANGED serverVars

OnSet ==
    /\ Incoming("set")
    /\ Shows([panel.bps EXCEPT ![Head(channel.down).id] = "on"])

OnRemoved ==
    /\ Incoming("removed")
    /\ Shows([panel.bps EXCEPT ![Head(channel.down).id] = "absent"])

\* Mutant: the state shown is turned over instead of set.
OnToggledFlips ==
    /\ Incoming("toggled")
    /\ LET m == Head(channel.down) IN
       Shows([panel.bps EXCEPT ![m.id] = IF @ = "absent" THEN @
                                         ELSE IF @ = "on" THEN "off" ELSE "on"])

\* A breakpoint the panel does not show is passed over.
OnToggled ==
    /\ Incoming("toggled")
    /\ LET m == Head(channel.down) IN
       Shows([panel.bps EXCEPT ![m.id] = IF @ = "absent" THEN @ ELSE m.to])

\* Function breakpoints have rows too; the list never has any.
OnFunctionSet ==
    /\ Incoming("setFunction")
    /\ panel' = [panel EXCEPT !.fns = @ \cup {Head(channel.down).id}]
    /\ rows' = [rows EXCEPT ![Head(channel.down).id] = "on"]
    /\ Took /\ UNCHANGED serverVars

OnList ==
    /\ Incoming("list")
    /\ panel' = [panel EXCEPT !.bps = Head(channel.down).all, !.fns = {}]
    /\ rows' = Redrawn(Head(channel.down).all)
    /\ Took /\ UNCHANGED serverVars

\* A pause is shown, and its variables are asked for at once.
OnPaused ==
    /\ Incoming("paused")
    /\ panel' = [panel EXCEPT !.paused = TRUE, !.frames = TRUE]
    /\ channel' = [up |-> Append(channel.up, [does |-> "variables"]),
                down |-> Tail(channel.down)]
    /\ UNCHANGED <<serverVars, rows>>

\* The call stack and the variables stay on display.
OnResumed ==
    /\ Incoming("resumed")
    /\ panel' = [panel EXCEPT !.paused = FALSE]
    /\ Took /\ UNCHANGED <<serverVars, rows>>

OnVariables ==
    /\ Incoming("variables")
    /\ panel' = [panel EXCEPT !.locals = TRUE]
    /\ Took /\ UNCHANGED <<serverVars, rows>>

OnError ==
    /\ Incoming("error")
    /\ panel' = [panel EXCEPT !.connecting = FALSE]
    /\ Took /\ UNCHANGED <<serverVars, rows>>

-----------------------------------------------------------------------------

GoOn == {"continue", "step"}
Needing == GoOn \cup {"end", "set", "setFunction", "remove", "toggle",
                      "list", "pause", "variables", "expand"}

PanelActs ==
    \/ ClickStart \/ ClickEnd \/ SelectFrame \/ ExpandVariable
    \/ \E c \in GoOn \cup {"pause"} : ClickControl(c)
    \/ \E c \in {"set", "setFunction", "list"} : RequestBreakpoint(c)
    \/ \E b \in Breaks : ToggleRow(b) \/ RemoveRow(b)
    \/ ReopenEditor

ServerActs ==
    \/ AnswerStart \/ AnswerEnd \/ AnswerSet \/ AnswerSetFunction
    \/ AnswerRemove \/ AnswerToggle \/ AnswerBreakpoints \/ AnswerPause
    \/ AnswerVariables \/ AnswerExpand \/ ScriptStops
    \/ \E c \in Needing : NoneActive(c)
    \/ \E c \in GoOn : AnswerGoOn(c)
    \/ \E s \in PanelSessions : ForwardStop(s)

PanelHears ==
    \/ OnStarted \/ OnEnded \/ OnSet \/ OnRemoved \/ OnToggled
    \/ OnFunctionSet \/ OnList \/ OnPaused \/ OnResumed \/ OnVariables
    \/ OnError

DebugPanelNext == PanelActs \/ ServerActs \/ PanelHears

-----------------------------------------------------------------------------

\* Once every message has arrived, a panel with a session is in the session
\* the server holds for it, and shows each of that session's breakpoints as
\* the server has it (it may also show those of a session that ended).
PanelAgrees ==
    (channel.up = <<>> /\ channel.down = <<>> /\ panel.session # NoPanelSession)
        => /\ panel.session = held
           /\ \A b \in Breaks :
                breaks[b] # "absent" => panel.bps[b] = breaks[b]
=============================================================================

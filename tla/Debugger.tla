------------------------------ MODULE Debugger ------------------------------
(***************************************************************************)
(* The script debugger: the controller's sessions (debug/controller.rs),   *)
(* the callback that stops a script and waits for a command                *)
(* (debug/rhai_integration.rs), and the game master's commands and the     *)
(* task that forwards pauses (ws/admin_handler.rs).                        *)
(*                                                                         *)
(* One thread runs behaviour hooks of a script that has breakpoints.  The  *)
(* wait is tokio's blocking_recv, which is modelled as a wait: that is     *)
(* what it does on a thread of its own.                                    *)
(***************************************************************************)
EXTENDS Naturals, Sequences

CONSTANTS
    Masters,        \* the game masters
    DebugSessions,  \* the identifiers of debug sessions, used once each
    NoSession,      \* no session: none is started, or no debug engine is used
    CommandCapacity,\* bound: COMMAND_CHANNEL_CAPACITY, 16 in the code
    MaxPauses       \* bound: EVENT_CHANNEL_CAPACITY, 64 in the code

ASSUME CapacityAssumption ==
    CommandCapacity \in Nat \ {0} /\ MaxPauses \in Nat \ {0}

VARIABLES
    mine,           \* per master: the session DEBUG_SESSIONS maps it to
    ended,          \* the sessions that were started and ended
    armed,          \* per session: it has an enabled breakpoint in the script
    commands,       \* per session: the commands in its channel
    hook,           \* the hook: what it does and its debug engine's session
    stepping,       \* the step mode of the hook's engine
    events,         \* per session: pauses the forwarding task has to deliver
    shownPaused,    \* per session: paused_at is set
    answering       \* per master: the session whose command was just sent

dbVars == <<mine, ended, armed, commands, hook, stepping, events,
            shownPaused, answering>>

Commands == {"continue", "step", "pause"}

\* Type correctness.
DebuggerTypeOK ==
    /\ mine \in [Masters -> DebugSessions \cup {NoSession}]
    /\ ended \subseteq DebugSessions
    /\ armed \in [DebugSessions -> BOOLEAN]
    /\ \A s \in DebugSessions : Len(commands[s]) <= CommandCapacity
    /\ hook \in [does : {"nothing", "runs", "waits"},
                 under : DebugSessions \cup {NoSession}]
    /\ stepping \in BOOLEAN
    /\ events \in [DebugSessions -> 0..MaxPauses]
    /\ shownPaused \in [DebugSessions -> BOOLEAN]
    /\ answering \in [Masters -> DebugSessions \cup {NoSession}]

NoHook == [does |-> "nothing", under |-> NoSession]

DebuggerInit ==
    /\ mine = [g \in Masters |-> NoSession]
    /\ ended = {}
    /\ armed = [s \in DebugSessions |-> FALSE]
    /\ commands = [s \in DebugSessions |-> <<>>]
    /\ hook = NoHook
    /\ stepping = FALSE
    /\ events = [s \in DebugSessions |-> 0]
    /\ shownPaused = [s \in DebugSessions |-> FALSE]
    /\ answering = [g \in Masters |-> NoSession]

\* The sessions the controller holds.
Open == {mine[g] : g \in Masters} \ {NoSession}

-----------------------------------------------------------------------------
(* The game master *)

\* start_session, unless the master has one.
StartSession(g, s) ==
    /\ mine[g] = NoSession /\ answering[g] = NoSession
    /\ s \notin Open \cup ended
    /\ mine' = [mine EXCEPT ![g] = s]
    /\ UNCHANGED <<ended, armed, commands, hook, stepping, events,
                   shownPaused, answering>>

\* end_session: the session's state and the command sender are dropped.
EndSession(g) ==
    /\ mine[g] # NoSession /\ answering[g] = NoSession
    /\ ended' = ended \cup {mine[g]}
    /\ mine' = [mine EXCEPT ![g] = NoSession]
    /\ armed' = [armed EXCEPT ![mine[g]] = FALSE]
    /\ shownPaused' = [shownPaused EXCEPT ![mine[g]] = FALSE]
    /\ UNCHANGED <<commands, hook, stepping, events, answering>>

\* A breakpoint is set, removed, enabled or disabled.
ArmBreakpoint(g, enabled) ==
    /\ mine[g] # NoSession /\ answering[g] = NoSession
    /\ armed' = [armed EXCEPT ![mine[g]] = enabled]
    /\ UNCHANGED <<mine, ended, commands, hook, stepping, events,
                   shownPaused, answering>>

\* send_command: a full channel refuses.  A command to go on is answered
\* in a second step.
SendCommand(g, c) ==
    /\ mine[g] # NoSession /\ answering[g] = NoSession
    /\ Len(commands[mine[g]]) < CommandCapacity
    /\ commands' = [commands EXCEPT ![mine[g]] = Append(@, c)]
    /\ answering' = IF c = "pause" THEN answering
                                   ELSE [answering EXCEPT ![g] = mine[g]]
    /\ UNCHANGED <<mine, ended, armed, hook, stepping, events, shownPaused>>

\* The handler takes the session for resumed, whatever the script did since.
AnswerResumed(g) ==
    /\ answering[g] # NoSession
    /\ shownPaused' = [shownPaused EXCEPT ![answering[g]] = FALSE]
    /\ answering' = [answering EXCEPT ![g] = NoSession]
    /\ UNCHANGED <<mine, ended, armed, commands, hook, stepping, events>>

\* The forwarding task delivers a pause: set_paused, then the message.
ForwardPause(s) ==
    /\ events[s] > 0
    /\ events' = [events EXCEPT ![s] = @ - 1]
    /\ shownPaused' = [shownPaused EXCEPT ![s] = s \in Open]
    /\ UNCHANGED <<mine, ended, armed, commands, hook, stepping, answering>>

-----------------------------------------------------------------------------
(* The thread of the scripts *)

\* A hook runs under a debug engine of one of the sessions with an enabled
\* breakpoint in its script, or without one if there are none.
HookBegins(s) ==
    /\ hook = NoHook
    /\ s \in Open /\ armed[s]
    /\ hook' = [does |-> "runs", under |-> s]
    /\ stepping' = FALSE
    /\ UNCHANGED <<mine, ended, armed, commands, events, shownPaused,
                   answering>>

\* A breakpoint, a step or an error stops the script: the pause is sent and
\* the thread waits.  The breakpoints are those the engine was made with,
\* removed or not.
PauseScript(s) ==
    /\ hook = [does |-> "runs", under |-> s]
    /\ events[s] < MaxPauses
    /\ events' = [events EXCEPT ![s] = @ + 1]
    /\ hook' = [hook EXCEPT !.does = "waits"]
    /\ stepping' = FALSE
    /\ UNCHANGED <<mine, ended, armed, commands, shownPaused, answering>>

\* The hook returns; a step mode that was not used goes with its engine.
HookReturns ==
    /\ hook.does = "runs"
    /\ hook' = NoHook
    /\ stepping' = FALSE
    /\ UNCHANGED <<mine, ended, armed, commands, events, shownPaused,
                   answering>>

\* pause_and_wait: the commands that were sent first are served first, also
\* those of before the pause; Pause and Evaluate are ignored.
ServeCommand(s) ==
    /\ hook = [does |-> "waits", under |-> s]
    /\ commands[s] # <<>>
    /\ commands' = [commands EXCEPT ![s] = Tail(@)]
    /\ hook' = IF Head(commands[s]) = "pause"
                    THEN hook ELSE [hook EXCEPT !.does = "runs"]
    /\ stepping' = (Head(commands[s]) = "step")
    /\ UNCHANGED <<mine, ended, armed, events, shownPaused, answering>>

\* Mutant of Terminated: the engine that waits keeps the channel open.
TerminatedNever(s) == FALSE

\* The channel is closed once the session's sender is gone and it is empty.
Terminated(s) == s \in ended /\ commands[s] = <<>>

\* The session ended: the script fails.
Terminate(s) ==
    /\ hook = [does |-> "waits", under |-> s]
    /\ Terminated(s)
    /\ hook' = NoHook
    /\ stepping' = FALSE
    /\ UNCHANGED <<mine, ended, armed, commands, events, shownPaused,
                   answering>>

DebuggerNext ==
    \/ \E g \in Masters, s \in DebugSessions : StartSession(g, s)
    \/ \E g \in Masters : EndSession(g)
    \/ \E g \in Masters, enabled \in BOOLEAN : ArmBreakpoint(g, enabled)
    \/ \E g \in Masters, c \in Commands : SendCommand(g, c)
    \/ \E g \in Masters : AnswerResumed(g)
    \/ \E s \in DebugSessions : ForwardPause(s)
    \/ \E s \in DebugSessions : HookBegins(s)
    \/ \E s \in DebugSessions : PauseScript(s)
    \/ HookReturns
    \/ \E s \in DebugSessions : ServeCommand(s)
    \/ \E s \in DebugSessions : Terminate(s)

\* The script's thread and the forwarding tasks run when they can.  Nothing
\* is assumed of the game masters.
DebuggerFairness ==
    /\ WF_dbVars(HookReturns)
    /\ \A s \in DebugSessions :
        /\ WF_dbVars(ForwardPause(s))
        /\ WF_dbVars(ServeCommand(s))
        /\ WF_dbVars(Terminate(s))

DebuggerSpec == DebuggerInit /\ [][DebuggerNext]_dbVars /\ DebuggerFairness

-----------------------------------------------------------------------------
(* Properties *)

\* Ending a session lets its script go, whatever commands are still in the
\* channel and whatever is sent to other sessions: with the script goes the
\* game loop, which waits for it under the behaviour manager's lock.
EndReleases ==
    \A s \in DebugSessions :
        (s \in ended /\ hook.under = s) ~> (hook.under # s)
=============================================================================

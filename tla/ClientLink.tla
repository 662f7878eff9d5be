------------------------------ MODULE ClientLink ------------------------------
(***************************************************************************)
(* The web client's connection (bw-frontend/src/api/ws.rs) and the page    *)
(* that asks for it (pages/game.rs).  The browser runs one callback at a   *)
(* time: a socket opens, fails, closes or brings the initial state, a      *)
(* timer fires, or the page's effect runs because the state changed.  A    *)
(* socket fails in two callbacks, onerror and then onclose, and the        *)
(* callbacks of an old socket stay in place while a new one is tried.      *)
(* Identifiers of closed sockets are used again.  A token is stored and    *)
(* nothing ever disables the automatic reconnect.                          *)
(***************************************************************************)
EXTENDS Naturals, FiniteSets

CONSTANTS
    Sockets,        \* as many sockets as may be in use at once
    MaxAttempts,    \* MAX_RECONNECT_ATTEMPTS
    MaxTimers       \* bound on the timers set

ASSUME AttemptsAssumption == MaxAttempts \in Nat /\ MaxTimers \in Nat

VARIABLES
    link,           \* ConnectionState
    socket,         \* per socket: none, connecting, open, or failed before onclose
    attempts,       \* reconnect_attempts
    generation,     \* reconnect_generation
    timers,         \* the generations the pending timers expect
    pageDue         \* the state changed since the page's effect last ran

linkVars == <<link, socket, attempts, generation, timers, pageDue>>

LinkStates == {"Disconnected", "Connecting", "Connected", "Reconnecting"}

LinkTypeOK ==
    /\ link \in LinkStates
    /\ socket \in [Sockets -> {"none", "connecting", "open", "failed"}]
    /\ attempts \in 0..MaxAttempts
    /\ generation \in 0..MaxTimers
    /\ timers \subseteq 1..MaxTimers
    /\ pageDue \in BOOLEAN

LinkInit ==
    /\ link = "Disconnected"
    /\ socket = [s \in Sockets |-> "none"]
    /\ attempts = 0 /\ generation = 0 /\ timers = {}
    /\ pageDue = TRUE

\* A signal that is set wakes whoever reads it, although the value is the same.
LinkBecomes(state) == link' = state /\ pageDue' = TRUE

\* connect_internal: a new socket; a reconnect keeps its state.
NewSocket(s) ==
    /\ socket[s] = "none"
    /\ socket' = [socket EXCEPT ![s] = "connecting"]

\* The page's effect: whenever the state is Disconnected, connect starts over.
PageConnects(s) ==
    /\ pageDue /\ link = "Disconnected"
    /\ NewSocket(s)
    /\ LinkBecomes("Connecting")
    /\ attempts' = 0
    /\ UNCHANGED <<generation, timers>>

PageLooks ==
    /\ pageDue /\ link # "Disconnected"
    /\ pageDue' = FALSE
    /\ UNCHANGED <<link, socket, attempts, generation, timers>>

\* onopen
Opens(s) ==
    /\ socket[s] = "connecting"
    /\ socket' = [socket EXCEPT ![s] = "open"]
    /\ LinkBecomes("Connected")
    /\ UNCHANGED <<attempts, generation, timers>>

\* onmessage: the initial state shows that the reconnect succeeded.
ReceivesInitialState(s) ==
    /\ socket[s] = "open"
    /\ attempts' = 0
    /\ UNCHANGED <<link, socket, generation, timers, pageDue>>

\* onerror: the socket's onclose is still to come.
Fails(s) ==
    /\ socket[s] \in {"connecting", "open"}
    /\ socket' = [socket EXCEPT ![s] = "failed"]
    /\ LinkBecomes("Disconnected")
    /\ UNCHANGED <<attempts, generation, timers>>

\* Mutant of Expected: the generation is read before it is advanced.
ExpectedBefore(g) == g

\* What the timer that is set at generation g expects to find when it fires.
Expected(g) == g + 1

\* Mutant of MayReconnect: the attempts are not counted.
MayReconnectAlways == TRUE

MayReconnect == attempts < MaxAttempts

\* onclose: the next attempt is set, or the client gives up.
Closes(s) ==
    /\ socket[s] \in {"open", "failed"}
    /\ socket' = [socket EXCEPT ![s] = "none"]
    /\ IF MayReconnect
       THEN /\ generation < MaxTimers
            /\ LinkBecomes("Reconnecting")
            /\ attempts' = attempts + 1
            /\ generation' = generation + 1
            /\ timers' = timers \cup {Expected(generation)}
       ELSE /\ LinkBecomes("Disconnected")
            /\ UNCHANGED <<attempts, generation, timers>>

\* The timer's closure: stale if another close or an open came in between.
TimerIsStale(t) ==
    /\ t \in timers /\ ~(t = generation /\ link = "Reconnecting")
    /\ timers' = timers \ {t}
    /\ UNCHANGED <<link, socket, attempts, generation, pageDue>>

TimerReconnects(t, s) ==
    /\ t \in timers /\ t = generation /\ link = "Reconnecting"
    /\ timers' = timers \ {t}
    /\ NewSocket(s)
    /\ UNCHANGED <<link, attempts, generation, pageDue>>

LinkNext ==
    \/ PageLooks
    \/ \E s \in Sockets :
        \/ PageConnects(s)
        \/ Opens(s)
        \/ ReceivesInitialState(s)
        \/ Fails(s)
        \/ Closes(s)
    \/ \E t \in timers : TimerIsStale(t) \/ \E s \in Sockets : TimerReconnects(t, s)

LinkSpec == LinkInit /\ [][LinkNext]_linkVars

-----------------------------------------------------------------------------
(* Properties *)

\* The client never comes to rest without a connection: whatever sockets open,
\* fail and close in between, and whatever timers have become stale, some
\* callback that leads on is still to come.
NeverStuck ==
    CASE link = "Connected" -> \E s \in Sockets : socket[s] \in {"open", "failed"}
      [] link = "Connecting" -> \E s \in Sockets : socket[s] \in {"connecting", "failed"}
      [] link = "Reconnecting" ->
            \/ generation \in timers
            \/ \E s \in Sockets : socket[s] \in {"connecting", "failed"}
      [] link = "Disconnected" -> pageDue

=============================================================================

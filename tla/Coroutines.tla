------------------------------- MODULE Coroutines -------------------------------
(***************************************************************************)
(* The scheduler of script coroutines, bw-scripting/src/coroutines.  A     *)
(* coroutine that has not ended is in one of four places: the ready queue, *)
(* the list of a tick, the list of an event, or among those that wait for  *)
(* the next frame.                                                         *)
(*                                                                         *)
(* The game loop runs a tick under the write lock of the whole scheduler,  *)
(* so a caller finds it between ticks only.  What a script does in one     *)
(* execution is a choice: it ends, or it asks to be resumed.  Ticks are    *)
(* counted from the current one: a key of tick_waiters, like resume_at, is *)
(* the number of ticks still to come, and a key that is past is -1.        *)
(***************************************************************************)
EXTENDS Integers, FiniteSets, SequencesExt

CONSTANTS
    Coros,       \* identifiers: a Uuid is drawn once
    Events,      \* event types; also stand for the state WaitingForEvent(e)
    MaxPerTick,  \* executions in one tick
    MaxDelay     \* bound: longest delay a script asks for

Unlisted == {"unborn", "gone"}
Others   == {"Ready", "Running", "Ticks", "Frame"}

ASSUME CoroutinesAssumption ==
    /\ MaxPerTick \in Nat \ {0}
    /\ MaxDelay \in Nat \ {0}
    /\ IsFiniteSet(Coros)
    /\ Events \intersect (Unlisted \union Others) = {}

Delays == 0 .. MaxDelay
States == Unlisted \union Others \union Events
Past   == -1

VARIABLES
    state,          \* coroutines: state of each; "gone" when the entry is removed
    resumeAt,       \* resume_at of each, kept when it is resumed
    ready,          \* ready_queue
    tickWaiters,    \* per tick still to come, its waiters
    eventWaiters,   \* per event, its waiters
    phase,          \* of the game loop: "idle", "running" a tick, "blocked" for good
    processed       \* executions in this tick

vars == <<state, resumeAt, ready, tickWaiters, eventWaiters, phase, processed>>
loop == <<phase, processed>>

Init ==
    /\ state = [c \in Coros |-> "unborn"]
    /\ resumeAt = [c \in Coros |-> Past]
    /\ ready = <<>>
    /\ tickWaiters = [k \in Delays |-> <<>>]
    /\ eventWaiters = [e \in Events |-> <<>>]
    /\ phase = "idle"
    /\ processed = 0

Listed(c)    == state[c] \notin Unlisted
Become(c, s) == state' = [state EXCEPT ![c] = s]

\* What retain and filter keep of a list: those in the set, in their order.
Retained(s, keep) ==
    LET First[n \in 0 .. Len(s)] ==
            IF n = 0 THEN <<>>
            ELSE IF s[n] \in keep THEN Append(First[n - 1], s[n])
            ELSE First[n - 1]
    IN  First[Len(s)]

Without(s, c) == Retained(s, Coros \ {c})

-----------------------------------------------------------------------------
(***************************************************************************)
(* Calls of other threads, between ticks.                                  *)
(***************************************************************************)
Spawn(c) ==
    /\ phase = "idle"
    /\ state[c] = "unborn"
    /\ Become(c, "Ready")
    /\ ready' = Append(ready, c)
    /\ UNCHANGED <<resumeAt, tickWaiters, eventWaiters, loop>>

WaitTicks(c, d) ==
    /\ Become(c, "Ticks")
    /\ resumeAt' = [resumeAt EXCEPT ![c] = d]
    /\ tickWaiters' = [tickWaiters EXCEPT ![d] = Append(@, c)]

SpawnScheduled(c, d) ==
    /\ phase = "idle"
    /\ state[c] = "unborn"
    /\ WaitTicks(c, d)
    /\ UNCHANGED <<ready, eventWaiters, loop>>

\* Mutant of Unlist: the list of the event keeps the coroutine.
UnlistTicksOnly(c) ==
    /\ tickWaiters' = [k \in Delays |->
                         IF k = resumeAt[c] THEN Without(tickWaiters[k], c) ELSE tickWaiters[k]]
    /\ UNCHANGED eventWaiters

\* By its resume_at, though it may have been resumed since, and by its state.
Unlist(c) ==
    /\ tickWaiters' = [k \in Delays |->
                         IF k = resumeAt[c] THEN Without(tickWaiters[k], c) ELSE tickWaiters[k]]
    /\ eventWaiters' = [e \in Events |->
                          IF e = state[c] THEN Without(eventWaiters[e], c) ELSE eventWaiters[e]]

\* A coroutine in the ready queue is left there: its turn will find no entry.
Cancel(c) ==
    /\ phase = "idle"
    /\ Listed(c)
    /\ Unlist(c)
    /\ Become(c, "gone")
    /\ UNCHANGED <<resumeAt, ready, loop>>

Woken(s) == Retained(s, {c \in Coros : Listed(c)})

Wake(s) ==
    /\ state' = [c \in Coros |-> IF Contains(s, c) THEN "Ready" ELSE state[c]]
    /\ ready' = ready \o s

NotifyEvent(e) ==
    /\ phase = "idle"
    /\ eventWaiters[e] # <<>>
    /\ Wake(Woken(eventWaiters[e]))
    /\ eventWaiters' = [eventWaiters EXCEPT ![e] = <<>>]
    /\ UNCHANGED <<resumeAt, tickWaiters, loop>>

-----------------------------------------------------------------------------
(***************************************************************************)
(* tick: the two wake-ups, up to MaxPerTick executions, the end.           *)
(***************************************************************************)

\* Mutant of Due: those of the new tick only.
DueNowOnly == {tickWaiters[1]}

\* Keys up to the new tick, in the order of a hash map: the tick it is now, and the
\* last one, whose list holds those that asked for no delay after it was emptied.
Due == {tickWaiters[0] \o tickWaiters[1], tickWaiters[1] \o tickWaiters[0]}

Frames == {c \in Coros : state[c] = "Frame"}

StartTick ==
    /\ phase = "idle"
    /\ \E due \in Due, frames \in SetToSeqs(Frames) : Wake(Woken(due) \o frames)
    /\ tickWaiters' = [k \in Delays |->
                         IF k \in 1 .. MaxDelay - 1 THEN tickWaiters[k + 1] ELSE <<>>]
    /\ resumeAt' = [c \in Coros |-> IF resumeAt[c] = Past THEN Past ELSE resumeAt[c] - 1]
    /\ phase' = "running"
    /\ UNCHANGED <<eventWaiters, processed>>

\* Mutant of MayRun.
MayRunOneMore == phase = "running" /\ processed <= MaxPerTick

MayRun == phase = "running" /\ processed < MaxPerTick

Rest == Tail(ready)

Pop(c) ==
    /\ MayRun
    /\ ready # <<>>
    /\ c = Head(ready)
    /\ processed' = processed + 1

\* Cancelled since it was queued: counted and reported as failed.
RunGone(c) ==
    /\ Pop(c)
    /\ ~Listed(c)
    /\ ready' = Rest
    /\ UNCHANGED <<state, resumeAt, tickWaiters, eventWaiters, phase>>

\* Completed or failed.
RunEnds(c) ==
    /\ Pop(c)
    /\ Listed(c)
    /\ Become(c, "gone")
    /\ ready' = Rest
    /\ UNCHANGED <<resumeAt, tickWaiters, eventWaiters, phase>>

RunYieldsTicks(c, d) ==
    /\ Pop(c)
    /\ Listed(c)
    /\ WaitTicks(c, d)
    /\ ready' = Rest
    /\ UNCHANGED <<eventWaiters, phase>>

RunYieldsFrame(c) ==
    /\ Pop(c)
    /\ Listed(c)
    /\ Become(c, "Frame")
    /\ ready' = Rest
    /\ UNCHANGED <<resumeAt, tickWaiters, eventWaiters, phase>>

RunYieldsEvent(c, e) ==
    /\ Pop(c)
    /\ Listed(c)
    /\ Become(c, e)
    /\ eventWaiters' = [eventWaiters EXCEPT ![e] = Append(@, c)]
    /\ ready' = Rest
    /\ UNCHANGED <<resumeAt, tickWaiters, phase>>

\* schedule: handle_yield holds coroutines.write() when it calls spawn_scheduled, which
\* asks for it again.  The lock is not reentrant and no script is ever unloaded, which
\* would make spawn_scheduled return before: the thread waits for itself.
RunSchedules(c) ==
    /\ Pop(c)
    /\ Listed(c)
    /\ Become(c, "Running")
    /\ ready' = Rest
    /\ phase' = "blocked"
    /\ UNCHANGED <<resumeAt, tickWaiters, eventWaiters>>

EndTick ==
    /\ phase = "running"
    /\ ready = <<>> \/ ~MayRun
    /\ phase' = "idle"
    /\ processed' = 0
    /\ UNCHANGED <<state, resumeAt, ready, tickWaiters, eventWaiters>>

Run(c) ==
    \/ RunGone(c) \/ RunEnds(c) \/ RunYieldsFrame(c) \/ RunSchedules(c)
    \/ \E d \in Delays : RunYieldsTicks(c, d)
    \/ \E e \in Events : RunYieldsEvent(c, e)

Tick == StartTick \/ (\E c \in Coros : Run(c)) \/ EndTick

CallsBetween ==
    \/ \E c \in Coros : Spawn(c) \/ Cancel(c) \/ (\E d \in Delays : SpawnScheduled(c, d))
    \/ \E e \in Events : NotifyEvent(e)

Next == Tick \/ CallsBetween

Spec == Init /\ [][Next]_vars

\* The game loop runs tick after tick; nobody need call anything.
FairSpec == Spec /\ WF_vars(Tick)

-----------------------------------------------------------------------------
TypeOK ==
    /\ state \in [Coros -> States]
    /\ resumeAt \in [Coros -> Delays \union {Past}]
    /\ ready \in Seq(Coros)
    /\ tickWaiters \in [Delays -> Seq(Coros)]
    /\ eventWaiters \in [Events -> Seq(Coros)]
    /\ phase \in {"idle", "running", "blocked"}
    /\ processed \in 0 .. MaxPerTick

Times(s, c) == Cardinality({i \in DOMAIN s : s[i] = c})
Once(b)     == IF b THEN 1 ELSE 0

\* A coroutine that waits is in the one list its state and resume_at name, once, and
\* in no other; one that is ready is once in the queue.  So none is lost by a wake-up
\* or a cancellation, none is executed twice for one wake-up, and no list is left
\* with a coroutine that was cancelled; the ready queue alone may be.
OnePlace ==
    \A c \in Coros :
        /\ \/ Times(ready, c) = Once(state[c] = "Ready")
           \/ state[c] = "gone" /\ Times(ready, c) = 1
        /\ state[c] = "Ticks" => resumeAt[c] # Past
        /\ \A k \in Delays :
              Times(tickWaiters[k], c) = Once(state[c] = "Ticks" /\ resumeAt[c] = k)
        /\ \A e \in Events : Times(eventWaiters[e], c) = Once(state[c] = e)

Blocked == phase = "blocked"

\* Whoever is ready gets its turn, and whoever waits for a tick or a frame becomes
\* ready or is cancelled, however many others are ready, yield again or were cancelled
\* in the queue and eat up the executions of a tick.
EventuallyRuns ==
    \A c \in Coros :
        /\ state[c] = "Ready" ~> (state[c] # "Ready" \/ Blocked)
        /\ state[c] \in {"Ticks", "Frame"} ~> (state[c] \notin {"Ticks", "Frame"} \/ Blocked)

\* Every tick ends.  "This coroutine continues immediately (schedule doesn't pause)"
\* says so of the one yield that is served by another call of the scheduler.
TicksEnd == (phase # "idle") ~> (phase = "idle")
=============================================================================

----------------------------- MODULE Isolation -----------------------------
(***************************************************************************)
(* What the circuit breaker promises the rest of the router, without       *)
(* counters, windows or generations: a backend is isolated for a full      *)
(* period, then tried with a bounded number of calls, and is trusted again *)
(* only when every one of those trials has been answered well.             *)
(***************************************************************************)
EXTENDS Naturals

CONSTANTS Calls, MaxRequests, Timeout

VARIABLES
    mode,     \* "closed", "open" or "halfOpen"
    cooling,  \* ticks of isolation left
    started,  \* the number of trials started
    running,  \* the trial calls that have not been answered
    passed    \* the number of trials answered well

ivars == <<mode, cooling, started, running, passed>>

NoTrials == started = 0 /\ running = {} /\ passed = 0

IsolationInit == mode = "closed" /\ cooling = 0 /\ NoTrials

Isolate == mode' = "open" /\ cooling' = Timeout /\ NoTrials'

Trip == mode = "closed" /\ Isolate

Cool ==
    /\ mode = "open" /\ cooling > 0
    /\ cooling' = cooling - 1
    /\ UNCHANGED <<mode, started, running, passed>>

\* The period is over: trials may begin, perhaps with one at once.
Probation ==
    /\ mode = "open" /\ cooling = 0
    /\ mode' = "halfOpen"
    /\ \/ UNCHANGED <<started, running>>
       \/ \E c \in Calls : started' = 1 /\ running' = {c}
    /\ UNCHANGED <<cooling, passed>>

StartTrial(c) ==
    /\ mode = "halfOpen" /\ c \notin running
    /\ started < MaxRequests
    /\ started' = started + 1 /\ running' = running \cup {c}
    /\ UNCHANGED <<mode, cooling, passed>>

PassTrial(c) ==
    /\ mode = "halfOpen" /\ c \in running
    /\ passed + 1 < MaxRequests
    /\ running' = running \ {c} /\ passed' = passed + 1
    /\ UNCHANGED <<mode, cooling, started>>

\* The last trial passes: nothing else is outstanding.
Restore(c) ==
    /\ mode = "halfOpen" /\ running = {c}
    /\ passed + 1 = MaxRequests
    /\ mode' = "closed" /\ NoTrials'
    /\ UNCHANGED cooling

FailTrial(c) == mode = "halfOpen" /\ c \in running /\ Isolate

IsolationNext ==
    \/ Trip \/ Cool \/ Probation
    \/ \E c \in Calls : StartTrial(c) \/ PassTrial(c) \/ Restore(c) \/ FailTrial(c)

IsolationSpec == IsolationInit /\ [][IsolationNext]_ivars
============================================================================

------------------------------ MODULE Process ------------------------------
(***************************************************************************)
(* The life of the router process: its two HTTP servers, the manual health *)
(* checks the admin server runs against a backend, and the shutdown of     *)
(* main() that tells one server after the other to drain, in the order a   *)
(* Go map gives, under one deadline for both.                              *)
(*                                                                         *)
(* A request to the main server is only known to be in flight; a request   *)
(* to the admin server is a health check.  Time advances in ticks.         *)
(***************************************************************************)
EXTENDS Naturals, FiniteSets

CONSTANTS
    Requests,   \* requests to the main server
    Checks,     \* POST /admin/backend/{id}/health-check requests
    Grace,      \* ticks the two servers have together to drain (10 s)
    CheckTime   \* ticks a health check may take (5 s)

ASSUME ProcessAssumption ==
    /\ Requests \cap Checks = {}
    /\ Grace \in Nat
    /\ CheckTime \in Nat \ {0}

VARIABLES
    phase,      \* of main(): launching, waiting, draining, exited
    listening,  \* listening[s]: where the goroutine of server s is
    open,       \* the servers nobody has told to shut down
    servers,    \* the map `servers`
    errors,     \* how many errors startupErrChan holds
    signalled,  \* sigChan holds a signal
    turn,       \* the server whose Shutdown runs, if any
    left,       \* ticks left of the shutdown context
    flight,     \* requests in flight at the main server
    cut,        \* requests whose connection was closed under them
    up,         \* the backend answers HeadBucket
    silent,     \* ticks since it last did, up to Horizon
    check,      \* check[k]: a health check and what its backend has answered
    health      \* the backend's HealthState, and how old its evidence was

main == <<phase, listening, open, servers, errors, signalled, turn, left>>
backend == <<up, silent>>
vars == <<main, flight, cut, backend, check, health>>

Servers == {"main", "admin"}
NoServer == "none"

\* Bound of the model: a silence longer than this is not told from it.
Horizon == CheckTime + 1

Idle == [running |-> FALSE, age |-> 0, seen |-> "nothing"]

InFlight(s) ==
    IF s = "main" THEN flight ELSE {k \in Checks : check[k].running}

AllInFlight == InFlight("main") \cup InFlight("admin")

Init ==
    /\ phase = "launching"
    /\ listening = [s \in Servers |-> "serving"]
    /\ open = Servers
    /\ servers = Servers
    /\ errors = 0
    /\ signalled = FALSE
    /\ turn = NoServer
    /\ left = Grace
    /\ flight = {}
    /\ cut = {}
    /\ up = TRUE
    /\ silent = 0
    /\ check = [k \in Checks |-> Idle]
    /\ health = [healthy |-> TRUE, old |-> 0]

Alive == phase # "exited"

-----------------------------------------------------------------------------
(* Requests and the backend they are about.                                *)

Accept(r) ==
    /\ Alive
    /\ "main" \in open
    /\ r \notin flight \cup cut
    /\ flight' = flight \cup {r}
    /\ UNCHANGED <<main, cut, backend, check, health>>

Finish(r) ==
    /\ Alive
    /\ r \in flight
    /\ flight' = flight \ {r}
    /\ UNCHANGED <<main, cut, backend, check, health>>

BackendTurns ==
    /\ Alive
    /\ up' = ~up
    /\ silent' = 0
    /\ UNCHANGED <<main, flight, cut, check, health>>

BeginCheck(k) ==
    /\ Alive
    /\ "admin" \in open
    /\ ~check[k].running /\ k \notin cut
    /\ check' = [check EXCEPT ![k] = [Idle EXCEPT !.running = TRUE]]
    /\ UNCHANGED <<main, flight, cut, backend, health>>

\* The backend answers a check, or breaks it off; the answer is on its way.
BackendAnswers(k) ==
    /\ Alive
    /\ check[k].running /\ check[k].seen = "nothing"
    /\ check' = [check EXCEPT ![k].seen = IF up THEN "up" ELSE "error"]
    /\ UNCHANGED <<main, flight, cut, backend, health>>

\* The error message, the clock time and the count of failures of HealthState
\* are only shown; they are left out.
SetUnhealthy == [healthy |-> FALSE, old |-> 0]

SetHealthy == [healthy |-> TRUE, old |-> silent]

\* Manager.HealthCheck returns: with the backend's answer, or with an error
\* when its time is over.  Checks overlap and end in any order.
EndCheck(k) ==
    /\ Alive
    /\ check[k].running
    /\ \/ check[k].seen = "up" /\ health' = SetHealthy
       \/ check[k].seen = "error" /\ health' = SetUnhealthy
       \/ check[k].age = CheckTime /\ health' = SetUnhealthy
    /\ check' = [check EXCEPT ![k] = Idle]
    /\ UNCHANGED <<main, flight, cut, backend>>

-----------------------------------------------------------------------------
(* The goroutine of a server and main().                                   *)

\* ListenAndServe returns an error that is not ErrServerClosed: the address
\* is taken, or Accept fails.  Open connections are still served.
ListenFails(s) ==
    /\ Alive
    /\ listening[s] = "serving" /\ s \in open
    /\ listening' = [listening EXCEPT ![s] = "failed"]
    /\ UNCHANGED <<phase, open, servers, errors, signalled, turn, left,
                   flight, cut, backend, check, health>>

\* The goroutine takes the server out of the map, under serversMu, which
\* main() holds from the beginning of the shutdown to its end.
Forget(s) ==
    /\ phase \in {"launching", "waiting"}
    /\ listening[s] = "failed"
    /\ listening' = [listening EXCEPT ![s] = "forgotten"]
    /\ servers' = servers \ {s}
    /\ UNCHANGED <<phase, open, errors, signalled, turn, left,
                   flight, cut, backend, check, health>>

Report(s) ==
    /\ Alive
    /\ listening[s] = "forgotten"
    /\ listening' = [listening EXCEPT ![s] = "reported"]
    /\ errors' = errors + 1
    /\ UNCHANGED <<phase, open, servers, signalled, turn, left,
                   flight, cut, backend, check, health>>

\* signal.Notify is called after both servers were started.
CatchSignals ==
    /\ phase = "launching"
    /\ phase' = "waiting"
    /\ UNCHANGED <<listening, open, servers, errors, signalled, turn, left,
                   flight, cut, backend, check, health>>

\* What an exit of the process leaves of the requests in flight.
Exits ==
    /\ phase' = "exited"
    /\ cut' = cut \cup AllInFlight
    /\ flight' = {}
    /\ check' = [k \in Checks |-> Idle]
    /\ UNCHANGED <<listening, open, servers, errors, turn, left,
                   backend, health>>

\* SIGINT or SIGTERM: fatal before Notify, noted once after it.
Signal ==
    \/ /\ phase = "launching"
       /\ signalled' = TRUE
       /\ Exits
    \/ /\ phase = "waiting"
       /\ signalled' = TRUE
       /\ UNCHANGED <<phase, listening, open, servers, errors, turn, left,
                      flight, cut, backend, check, health>>

\* The select of main() takes an error: os.Exit(1).
FatalExit ==
    /\ phase = "waiting"
    /\ errors > 0
    /\ Exits
    /\ UNCHANGED signalled

\* The select takes the signal.
Drain ==
    /\ phase = "waiting"
    /\ signalled
    /\ phase' = "draining"
    /\ UNCHANGED <<listening, open, servers, errors, signalled, turn, left,
                   flight, cut, backend, check, health>>

\* The next server of the map: from here on it accepts nothing.
BeginShutdown(s) ==
    /\ phase = "draining"
    /\ turn = NoServer
    /\ s \in servers \cap open
    /\ turn' = s
    /\ open' = open \ {s}
    /\ UNCHANGED <<phase, listening, servers, errors, signalled, left,
                   flight, cut, backend, check, health>>

\* Mutant: the servers are closed without a drain.
EndShutdownAtOnce(s) ==
    /\ turn = s
    /\ turn' = NoServer
    /\ cut' = cut \cup InFlight(s)
    /\ UNCHANGED <<phase, listening, open, servers, errors, signalled, left,
                   flight, backend, check, health>>

\* Mutant: the context of the shutdown has no deadline.
EndShutdownNoDeadline(s) ==
    /\ turn = s
    /\ InFlight(s) = {}
    /\ turn' = NoServer
    /\ UNCHANGED <<phase, listening, open, servers, errors, signalled, left,
                   flight, cut, backend, check, health>>

\* Shutdown returns: nothing is in flight any more, or the context is over
\* and Close cuts what is.  The handlers of what it cuts go on.
EndShutdown(s) ==
    /\ turn = s
    /\ phase = "draining"
    /\ \/ InFlight(s) = {} /\ UNCHANGED cut
       \/ left = 0 /\ cut' = cut \cup InFlight(s)
    /\ turn' = NoServer
    /\ UNCHANGED <<phase, listening, open, servers, errors, signalled, left,
                   flight, backend, check, health>>

\* Mutant: main() does not wait for the Shutdown it began.
ReturnUnwaited ==
    /\ phase = "draining"
    /\ servers \cap open = {}
    /\ Exits
    /\ UNCHANGED signalled

\* main() returns when every server of the map has been shut down.
Return ==
    /\ phase = "draining"
    /\ turn = NoServer
    /\ servers \cap open = {}
    /\ Exits
    /\ UNCHANGED signalled

-----------------------------------------------------------------------------
\* Mutant: a health check has no time limit of its own.
TickNoCheckLimit ==
    /\ Alive
    /\ left' = IF phase = "draining" /\ left > 0 THEN left - 1 ELSE left
    /\ silent' = IF up THEN 0 ELSE IF silent = Horizon THEN silent ELSE silent + 1
    /\ UNCHANGED <<phase, listening, open, servers, errors, signalled, turn,
                   flight, cut, up, check, health>>

\* Time passes.  A check ends when its time is over, and so does a Shutdown
\* whose context is.
Tick ==
    /\ Alive
    /\ \A k \in Checks : check[k].running => check[k].age < CheckTime
    /\ ~(turn # NoServer /\ left = 0)
    /\ left' = IF phase = "draining" /\ left > 0 THEN left - 1 ELSE left
    /\ silent' = IF up THEN 0 ELSE IF silent = Horizon THEN silent ELSE silent + 1
    /\ check' = [k \in Checks |->
                   IF check[k].running THEN [check[k] EXCEPT !.age = @ + 1]
                   ELSE check[k]]
    /\ UNCHANGED <<phase, listening, open, servers, errors, signalled, turn,
                   flight, cut, up, health>>

Next ==
    \/ \E r \in Requests : Accept(r) \/ Finish(r)
    \/ \E k \in Checks : BeginCheck(k) \/ BackendAnswers(k) \/ EndCheck(k)
    \/ \E s \in Servers :
          ListenFails(s) \/ Forget(s) \/ Report(s)
            \/ BeginShutdown(s) \/ EndShutdown(s)
    \/ BackendTurns \/ CatchSignals \/ Signal \/ FatalExit \/ Drain \/ Return
    \/ Tick

Spec == Init /\ [][Next]_vars

\* Time passes, contexts end what they limit, and the goroutines of main()
\* are scheduled.  No request and no backend owes an answer.
Fairness ==
    /\ WF_vars(Tick)
    /\ \A k \in Checks : WF_vars(EndCheck(k) /\ check[k].age = CheckTime)
    /\ \A s \in Servers : /\ WF_vars(Forget(s))
                          /\ WF_vars(Report(s))
                          /\ WF_vars(EndShutdown(s))
    /\ WF_vars(\E s \in Servers : BeginShutdown(s))
    /\ WF_vars(CatchSignals)
    /\ WF_vars(FatalExit \/ Drain)
    /\ WF_vars(Return)

FairSpec == Spec /\ Fairness

-----------------------------------------------------------------------------
(* Properties.                                                             *)

\* Every variable stays in its range, and main() is inside a Shutdown only
\* while it drains.
TypeOK ==
    /\ phase \in {"launching", "waiting", "draining", "exited"}
    /\ listening \in
         [Servers -> {"serving", "failed", "forgotten", "reported"}]
    /\ open \subseteq Servers
    /\ servers \subseteq Servers
    /\ errors \in Nat
    /\ signalled \in BOOLEAN
    /\ turn \in Servers \cup {NoServer}
    /\ turn # NoServer => phase = "draining"
    /\ left \in 0..Grace
    /\ flight \subseteq Requests
    /\ cut \subseteq Requests \cup Checks
    /\ up \in BOOLEAN
    /\ silent \in 0..Horizon
    /\ check \in [Checks -> [running : BOOLEAN, age : 0..CheckTime,
                             seen : {"nothing", "up", "error"}]]
    /\ health \in [healthy : BOOLEAN, old : 0..Horizon]

\* GET /readyz calls a backend ready only on evidence that was at most one
\* check's time limit old when it was recorded, however many checks of it
\* overlap and in whatever order they end.
ReadyOnFreshEvidence == health.healthy => health.old <= CheckTime

\* A request is cut off before the grace period is over only when a server
\* has failed or when the signal came before main() had asked for signals.
NobodyCutEarly ==
    [][cut' # cut =>
         \/ left = 0
         \/ phase = "launching"
         \/ \E s \in Servers : listening[s] # "serving"]_vars

\* After a signal, or once a server can no longer listen, the process ends,
\* whatever its requests and backends do.
Ends ==
    (signalled \/ \E s \in Servers : listening[s] # "serving")
        ~> (phase = "exited")
============================================================================

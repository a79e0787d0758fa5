------------------------------ MODULE Backend ------------------------------
(***************************************************************************)
(* One backend of the router as its request goroutines see it: the calls   *)
(* of S3Operations, each wrapped in the circuit breaker                    *)
(* (CircuitBreakerS3Operations), retried by the SDK's retryer and bounded  *)
(* by the backend's HTTP timeout, with the breaker's settings and the      *)
(* classification of errors taken from the code.  The breaker itself is    *)
(* github.com/sony/gobreaker v1.0.0, a dependency outside the repository.  *)
(*                                                                         *)
(* Time advances in ticks.  gobreaker compares a generation number stored  *)
(* with each call to its own; only equality matters, so the calls admitted *)
(* in the present generation are kept as the set cb.fresh and a new        *)
(* generation empties it.                                                  *)
(***************************************************************************)
EXTENDS Naturals, FiniteSets

CONSTANTS
    Calls,           \* the goroutines that call this backend
    MaxRequests,     \* Settings.MaxRequests: calls let through when half-open
    Interval,        \* Settings.Interval in ticks: the closed state's window
    Timeout,         \* Settings.Timeout in ticks: how long open lasts
    RequestTimeout,  \* the backend's HTTP client timeout in ticks
    MaxAttempts,     \* retry.StandardOptions.MaxAttempts
    MaxPerWindow     \* bound of the model: calls admitted in one generation

ASSUME BackendAssumption ==
    /\ IsFiniteSet(Calls)
    /\ MaxRequests \in Nat \ {0}
    /\ Interval \in Nat \ {0}
    /\ Timeout \in Nat \ {0}
    /\ RequestTimeout \in Nat \ {0}
    /\ MaxAttempts \in Nat \ {0}
    /\ MaxPerWindow \in Nat

VARIABLES
    cb,       \* the gobreaker.CircuitBreaker
    attempt,  \* attempt[c]: 0 when c is idle, else the number of its attempt
    age,      \* age[c]: ticks since that attempt was sent
    reply     \* what the last step gave back to the executor, if anything

vars == <<cb, attempt, age, reply>>

-----------------------------------------------------------------------------
(* What an attempt can end in: S3 error codes by name, and errors that are *)
(* not API errors: a broken connection, the client timeout, and a context  *)
(* cancelled because the router's own client went away.                    *)

Answers == {"ok", "NoSuchKey", "AccessDenied", "InvalidRequest",
            "PreconditionFailed", "InternalError",
            "connection", "timeout", "canceled"}

Transient == {"InternalError", "connection", "timeout"}

IsNonFatalS3Error(a) ==
    a \in {"ok", "NoSuchKey", "AccessDenied", "InvalidRequest"}

-----------------------------------------------------------------------------
(* The breaker.                                                            *)

\* Mutant: the timeout of the open state is given without its unit.
ExpiryNoUnit(s) == IF s = "closed" THEN Interval ELSE 0

Expiry(s) == CASE s = "closed"   -> Interval
               [] s = "open"     -> Timeout
               [] s = "halfOpen" -> 0        \* no expiry: left is not read

NewGeneration(s) ==
    [state |-> s, requests |-> 0, totalFailures |-> 0,
     consecutiveSuccesses |-> 0, fresh |-> {}, left |-> Expiry(s)]

\* The breaker notices that a window or the open period is over only here.
CurrentState ==
    IF cb.left = 0 /\ cb.state = "closed" THEN NewGeneration("closed")
    ELSE IF cb.left = 0 /\ cb.state = "open" THEN NewGeneration("halfOpen")
    ELSE cb

ReadyToTrip(requests, failures) ==
    requests >= 3 /\ 10 * failures >= 6 * requests

OnRequest(b, c) ==
    [b EXCEPT !.requests = @ + 1, !.fresh = @ \cup {c}]

\* Mutant: one success more than the trials that can run.
OnSuccessOneMore(b, c) ==
    IF b.state = "halfOpen" /\ b.consecutiveSuccesses + 1 > MaxRequests
    THEN NewGeneration("closed")
    ELSE [b EXCEPT !.consecutiveSuccesses = @ + 1, !.fresh = @ \ {c}]

OnSuccess(b, c) ==
    IF b.state = "halfOpen" /\ b.consecutiveSuccesses + 1 >= MaxRequests
    THEN NewGeneration("closed")
    ELSE [b EXCEPT !.consecutiveSuccesses = @ + 1, !.fresh = @ \ {c}]

OnFailure(b, c) ==
    IF \/ b.state = "halfOpen"
       \/ ReadyToTrip(b.requests, b.totalFailures + 1)
    THEN NewGeneration("open")
    ELSE [b EXCEPT !.totalFailures = @ + 1, !.consecutiveSuccesses = 0,
                   !.fresh = @ \ {c}]

\* afterRequest: an answer of an older generation is dropped.
AfterRequest(b, c, success) ==
    IF c \notin b.fresh THEN b
    ELSE IF success THEN OnSuccess(b, c) ELSE OnFailure(b, c)

Admits(b) ==
    /\ b.state # "open"
    /\ b.state = "halfOpen" => b.requests < MaxRequests

-----------------------------------------------------------------------------
Init ==
    /\ cb = NewGeneration("closed")
    /\ attempt = [c \in Calls |-> 0]
    /\ age = [c \in Calls |-> 0]
    /\ reply = "none"

\* An operation of CircuitBreakerS3Operations is let through and sends its
\* first attempt.
Admit(c) ==
    /\ attempt[c] = 0
    /\ Admits(CurrentState)
    /\ CurrentState.requests < MaxPerWindow
    /\ cb' = OnRequest(CurrentState, c)
    /\ attempt' = [attempt EXCEPT ![c] = 1]
    /\ age' = [age EXCEPT ![c] = 0]
    /\ reply' = "none"

\* Mutant: the breaker's refusal is taken for a failed attempt and retried.
RejectRetried(c) ==
    /\ attempt[c] = 0
    /\ ~Admits(CurrentState)
    /\ cb' = CurrentState
    /\ attempt' = [attempt EXCEPT ![c] = 1]
    /\ age' = [age EXCEPT ![c] = 0]
    /\ reply' = "none"

\* ErrOpenState or ErrTooManyRequests: no attempt is made.
Reject(c) ==
    /\ attempt[c] = 0
    /\ ~Admits(CurrentState)
    /\ cb' = CurrentState
    /\ reply' = "rejected"
    /\ UNCHANGED <<attempt, age>>

\* An attempt can end in a only while it runs; the client timeout fires when
\* its time is up.
Ends(c, a) ==
    /\ attempt[c] > 0
    /\ a = "timeout" => age[c] = RequestTimeout

\* The retryer sends another attempt; the breaker does not see the first.
Retry(c) ==
    /\ \E a \in Transient : Ends(c, a)
    /\ attempt[c] < MaxAttempts
    /\ attempt' = [attempt EXCEPT ![c] = @ + 1]
    /\ age' = [age EXCEPT ![c] = 0]
    /\ reply' = "none"
    /\ UNCHANGED cb

\* Mutant: a cancelled call leaves without telling the breaker.
ReturnUnreported(c, a) ==
    /\ Ends(c, a)
    /\ cb' = IF a = "canceled" THEN cb
             ELSE AfterRequest(CurrentState, c, IsNonFatalS3Error(a))
    /\ attempt' = [attempt EXCEPT ![c] = 0]
    /\ age' = [age EXCEPT ![c] = 0]
    /\ reply' = a

\* The operation returns a to the executor.  A transient answer comes back
\* when the attempts, or the retryer's quota, are used up.
Return(c, a) ==
    /\ Ends(c, a)
    /\ cb' = AfterRequest(CurrentState, c, IsNonFatalS3Error(a))
    /\ attempt' = [attempt EXCEPT ![c] = 0]
    /\ age' = [age EXCEPT ![c] = 0]
    /\ reply' = a

\* Mutant: the timeout is armed for the first attempt only.
TickFirstAttemptOnly ==
    /\ \A c \in Calls : attempt[c] = 1 => age[c] < RequestTimeout
    /\ cb' = [cb EXCEPT !.left = IF @ > 0 THEN @ - 1 ELSE 0]
    /\ age' = [c \in Calls |-> IF attempt[c] > 0 THEN age[c] + 1 ELSE 0]
    /\ reply' = "none"
    /\ UNCHANGED attempt

\* Mutant: the HTTP client is built without a timeout.
TickNoTimeout ==
    /\ cb' = [cb EXCEPT !.left = IF @ > 0 THEN @ - 1 ELSE 0]
    /\ reply' = "none"
    /\ UNCHANGED <<attempt, age>>

\* No attempt outlives the client timeout.
Tick ==
    /\ \A c \in Calls : attempt[c] > 0 => age[c] < RequestTimeout
    /\ cb' = [cb EXCEPT !.left = IF @ > 0 THEN @ - 1 ELSE 0]
    /\ age' = [c \in Calls |-> IF attempt[c] > 0 THEN age[c] + 1 ELSE 0]
    /\ reply' = "none"
    /\ UNCHANGED attempt

Next ==
    \/ \E c \in Calls : Admit(c) \/ Reject(c) \/ Retry(c)
    \/ \E c \in Calls, a \in Answers : Return(c, a)
    \/ Tick

Spec == Init /\ [][Next]_vars

\* The client timeout ends the attempt.
TimesOut(c) == age[c] = RequestTimeout /\ (Retry(c) \/ Return(c, "timeout"))

\* Time passes and the client timeout fires when it is due; the backend itself
\* owes no answer.  Demand is the clients': a goroutine that can get a call
\* through, and goes on being able to, eventually makes one.
Fairness ==
    /\ WF_vars(Tick)
    /\ \A c \in Calls : WF_vars(TimesOut(c)) /\ WF_vars(Admit(c))

FairSpec == Spec /\ Fairness
-----------------------------------------------------------------------------
(* Properties.                                                             *)

Breakers ==
    [state : {"closed", "open", "halfOpen"}, requests : Nat,
     totalFailures : Nat, consecutiveSuccesses : Nat,
     fresh : SUBSET Calls, left : Nat]

\* Every variable stays in its range; no attempt is older than the timeout.
TypeOK ==
    /\ cb \in Breakers
    /\ attempt \in [Calls -> 0..MaxAttempts]
    /\ age \in [Calls -> 0..RequestTimeout]
    /\ reply \in Answers \cup {"none", "rejected"}

\* The counters of a breaker against the calls it still has to hear from.
Accounts(b) ==
    /\ b.state = "closed" =>
         b.totalFailures + Cardinality(b.fresh) <= b.requests
    /\ b.state = "open" =>
         b.requests = 0 /\ b.fresh = {} /\ b.left <= Timeout
    /\ b.state = "halfOpen" =>
         /\ b.consecutiveSuccesses + Cardinality(b.fresh) = b.requests
         /\ b.requests <= MaxRequests
         /\ b.consecutiveSuccesses < MaxRequests

\* The breaker's counters account for the calls it let through in this
\* generation: an answer is counted once, by the generation that admitted
\* the call, and a half-open breaker has no more trials out than it allows.
CountsConserved ==
    /\ \A c \in cb.fresh : attempt[c] > 0
    /\ Accounts(cb)

\* While the breaker is open and its period is not over, no idle goroutine
\* gets a call through to the backend; only calls admitted earlier go on.
NoNewCallWhileOpen ==
    [][cb.state = "open" /\ cb.left > 0 =>
         \A c \in Calls : attempt[c] = 0 => attempt'[c] = 0]_vars

\* The breaker with its counters, windows and late answers implements the
\* promise of module Isolation.
Promise == INSTANCE Isolation WITH
    mode    <- cb.state,
    cooling <- IF cb.state = "open" THEN cb.left ELSE 0,
    started <- IF cb.state = "halfOpen" THEN cb.requests ELSE 0,
    running <- IF cb.state = "halfOpen" THEN cb.fresh ELSE {},
    passed  <- IF cb.state = "halfOpen" THEN cb.consecutiveSuccesses ELSE 0

Isolates == Promise!IsolationSpec

\* Every call through the breaker is answered, whatever the backend does.
CallsReturn == \A c \in Calls : attempt[c] > 0 ~> attempt[c] = 0

\* README "Auto-heals": when from some point on every answer is non-fatal and
\* clients keep calling, the breaker ends up closed for good.
Heals ==
    <>[](reply \in Answers => IsNonFatalS3Error(reply)) => <>[](cb.state = "closed")
============================================================================

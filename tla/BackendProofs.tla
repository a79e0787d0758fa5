--------------------------- MODULE BackendProofs ---------------------------
(***************************************************************************)
(* The safety of the breaker for every number of callers and every setting *)
(* of the windows, timeouts, trials and attempts.                          *)
(***************************************************************************)
EXTENDS Backend, FiniteSetTheorems, TLAPS

\* A breaker value whose fields have their types and whose counters add up.
Sound(b) == b \in Breakers /\ Accounts(b)

\* A generation starts with empty tables.
LEMMA NewGenerationSound ==
    ASSUME NEW s \in {"closed", "open", "halfOpen"}
    PROVE  Sound(NewGeneration(s)) /\ NewGeneration(s).fresh = {}
  BY BackendAssumption, FS_EmptySet
  DEF Sound, NewGeneration, Breakers, Accounts, Expiry

\* Noticing that a period is over keeps the breaker sound and only forgets.
LEMMA CurrentStateSound ==
    ASSUME Sound(cb)
    PROVE  Sound(CurrentState) /\ CurrentState.fresh \subseteq cb.fresh
  BY NewGenerationSound DEF CurrentState, Sound, Breakers

\* Letting a call through is accounted for.
LEMMA OnRequestSound ==
    ASSUME NEW b, Sound(b), Admits(b), NEW c \in Calls, c \notin b.fresh
    PROVE  /\ Sound(OnRequest(b, c))
           /\ OnRequest(b, c).fresh = b.fresh \cup {c}
  <1>1. b.fresh \subseteq Calls /\ IsFiniteSet(b.fresh)
    BY BackendAssumption, FS_Subset DEF Sound, Breakers
  <1>2. /\ Cardinality(b.fresh) \in Nat
        /\ Cardinality(b.fresh \cup {c}) = Cardinality(b.fresh) + 1
    BY <1>1, FS_CardinalityType, FS_AddElement
  <1>3. OnRequest(b, c) \in Breakers
    <2>1. b \in Breakers /\ b.requests + 1 \in Nat /\ b.fresh \cup {c} \in SUBSET Calls
      BY <1>1 DEF Sound, Breakers
    <2> QED BY <2>1 DEF OnRequest, Breakers
  <1>4. /\ OnRequest(b, c).fresh = b.fresh \cup {c}
        /\ OnRequest(b, c).state = b.state
        /\ OnRequest(b, c).requests = b.requests + 1
        /\ OnRequest(b, c).totalFailures = b.totalFailures
        /\ OnRequest(b, c).consecutiveSuccesses = b.consecutiveSuccesses
    BY DEF OnRequest, Sound, Breakers
  <1>5. Accounts(OnRequest(b, c))
    BY <1>2, <1>4, BackendAssumption DEF Accounts, Admits, Sound, Breakers
  <1> QED BY <1>3, <1>4, <1>5 DEF Sound

\* An answer is counted at most once, and its call is no longer awaited.
LEMMA AfterRequestSound ==
    ASSUME NEW b, Sound(b), NEW c \in Calls, NEW success \in BOOLEAN
    PROVE  /\ Sound(AfterRequest(b, c, success))
           /\ AfterRequest(b, c, success).fresh \subseteq b.fresh \ {c}
  <1> DEFINE n == AfterRequest(b, c, success)
  <1>1. CASE c \notin b.fresh
    BY <1>1 DEF AfterRequest
  <1>2. CASE c \in b.fresh
    <2>1. b.fresh \subseteq Calls /\ IsFiniteSet(b.fresh)
      BY BackendAssumption, FS_Subset DEF Sound, Breakers
    <2>2. /\ Cardinality(b.fresh) \in Nat
          /\ Cardinality(b.fresh \ {c}) = Cardinality(b.fresh) - 1
          /\ Cardinality(b.fresh) # 0
      BY <1>2, <2>1, FS_CardinalityType, FS_RemoveElement, FS_EmptySet
    <2>3. CASE success
      <3>1. CASE b.state = "halfOpen" /\ b.consecutiveSuccesses + 1 >= MaxRequests
        BY <1>2, <2>3, <3>1, NewGenerationSound DEF AfterRequest, OnSuccess
      <3>2. CASE ~(b.state = "halfOpen" /\ b.consecutiveSuccesses + 1 >= MaxRequests)
        <4>1. n = [b EXCEPT !.consecutiveSuccesses = @ + 1, !.fresh = @ \ {c}]
          BY <1>2, <2>3, <3>2 DEF AfterRequest, OnSuccess
        <4>2. n \in Breakers /\ n.fresh = b.fresh \ {c}
          <5>1. /\ b \in Breakers /\ b.consecutiveSuccesses + 1 \in Nat
                /\ b.fresh \ {c} \in SUBSET Calls
            BY <2>1 DEF Sound, Breakers
          <5> QED BY <4>1, <5>1 DEF Breakers
        <4>3. /\ n.state = b.state /\ n.requests = b.requests /\ n.left = b.left
              /\ n.totalFailures = b.totalFailures
              /\ n.consecutiveSuccesses = b.consecutiveSuccesses + 1
          BY <4>1 DEF Sound, Breakers
        <4>4. Accounts(n)
          BY <1>2, <2>2, <3>2, <4>2, <4>3, BackendAssumption
          DEF Accounts, Sound, Breakers
        <4> QED BY <4>2, <4>4 DEF Sound
      <3> QED BY <3>1, <3>2
    <2>4. CASE ~success
      <3>1. CASE \/ b.state = "halfOpen"
                 \/ ReadyToTrip(b.requests, b.totalFailures + 1)
        BY <1>2, <2>4, <3>1, NewGenerationSound DEF AfterRequest, OnFailure
      <3>2. CASE ~(\/ b.state = "halfOpen"
                   \/ ReadyToTrip(b.requests, b.totalFailures + 1))
        <4>1. n = [b EXCEPT !.totalFailures = @ + 1, !.consecutiveSuccesses = 0,
                            !.fresh = @ \ {c}]
          BY <1>2, <2>4, <3>2 DEF AfterRequest, OnFailure
        <4>2. n \in Breakers /\ n.fresh = b.fresh \ {c}
          <5>1. /\ b \in Breakers /\ b.totalFailures + 1 \in Nat
                /\ b.fresh \ {c} \in SUBSET Calls
            BY <2>1 DEF Sound, Breakers
          <5>2. n = [state |-> b.state, requests |-> b.requests,
                     totalFailures |-> b.totalFailures + 1,
                     consecutiveSuccesses |-> 0,
                     fresh |-> b.fresh \ {c}, left |-> b.left]
            BY <4>1, <5>1 DEF Breakers
          <5> QED BY <5>1, <5>2 DEF Breakers
        <4>3. /\ n.state = b.state /\ n.requests = b.requests /\ n.left = b.left
              /\ n.totalFailures = b.totalFailures + 1
          BY <4>1 DEF Sound, Breakers
        <4>4. Accounts(n)
          BY <1>2, <2>2, <3>2, <4>2, <4>3 DEF Accounts, Sound, Breakers
        <4> QED BY <4>2, <4>4 DEF Sound
      <3> QED BY <3>1, <3>2
    <2> QED BY <2>3, <2>4
  <1> QED BY <1>1, <1>2

-----------------------------------------------------------------------------
IInv == TypeOK /\ CountsConserved

LEMMA InitIInv == Init => IInv
  BY NewGenerationSound, BackendAssumption
  DEF Init, IInv, TypeOK, CountsConserved, Sound

\* Every step keeps the invariant, one step of the proof per action.
LEMMA NextIInv == IInv /\ [Next]_vars => IInv'
  <1> SUFFICES ASSUME IInv, [Next]_vars PROVE IInv'
    OBVIOUS
  <1>1. /\ Sound(cb) /\ Sound(CurrentState)
        /\ CurrentState.fresh \subseteq cb.fresh
        /\ \A c \in cb.fresh : c \in Calls /\ attempt[c] > 0
    BY CurrentStateSound DEF IInv, TypeOK, CountsConserved, Sound, Breakers
  <1>2. /\ attempt \in [Calls -> 0..MaxAttempts]
        /\ age \in [Calls -> 0..RequestTimeout]
    BY DEF IInv, TypeOK
  <1>3. ASSUME NEW c \in Calls, Admit(c) PROVE IInv'
    <2>1. c \notin CurrentState.fresh
      BY <1>1, <1>3 DEF Admit
    <2>2. Sound(cb') /\ cb'.fresh = CurrentState.fresh \cup {c}
      BY <1>1, <1>3, <2>1, OnRequestSound DEF Admit
    <2>3. /\ attempt' \in [Calls -> 0..MaxAttempts]
          /\ age' \in [Calls -> 0..RequestTimeout]
          /\ \A d \in Calls : d = c \/ attempt[d] > 0 => attempt'[d] > 0
      BY <1>2, <1>3, BackendAssumption DEF Admit
    <2>4. reply' = "none"
      BY <1>3 DEF Admit
    <2> QED BY <1>1, <2>2, <2>3, <2>4 DEF IInv, TypeOK, CountsConserved, Sound
  <1>4. ASSUME NEW c \in Calls, Reject(c) PROVE IInv'
    BY <1>1, <1>2, <1>4 DEF Reject, IInv, TypeOK, CountsConserved, Sound
  <1>5. ASSUME NEW c \in Calls, Retry(c) PROVE IInv'
    <2>1. /\ attempt' \in [Calls -> 0..MaxAttempts]
          /\ age' \in [Calls -> 0..RequestTimeout]
          /\ \A d \in Calls : attempt[d] > 0 => attempt'[d] > 0
      BY <1>2, <1>5, BackendAssumption DEF Retry
    <2>2. cb' = cb /\ reply' = "none"
      BY <1>5 DEF Retry
    <2> QED BY <1>1, <2>1, <2>2 DEF IInv, TypeOK, CountsConserved, Sound
  <1>6. ASSUME NEW c \in Calls, NEW a \in Answers, Return(c, a) PROVE IInv'
    <2>1. IsNonFatalS3Error(a) \in BOOLEAN
      BY DEF IsNonFatalS3Error
    <2>2. Sound(cb') /\ cb'.fresh \subseteq CurrentState.fresh \ {c}
      BY <1>1, <1>6, <2>1, AfterRequestSound DEF Return
    <2>3. /\ attempt' \in [Calls -> 0..MaxAttempts]
          /\ age' \in [Calls -> 0..RequestTimeout]
          /\ \A d \in Calls \ {c} : attempt'[d] = attempt[d]
      BY <1>2, <1>6, BackendAssumption DEF Return
    <2>4. reply' \in Answers
      BY <1>6 DEF Return
    <2> QED BY <1>1, <2>2, <2>3, <2>4 DEF IInv, TypeOK, CountsConserved, Sound
  <1>7. CASE Tick
    <2>1. /\ Sound(cb') /\ cb'.fresh = cb.fresh
      <3>1. cb \in Breakers /\ (IF cb.left > 0 THEN cb.left - 1 ELSE 0) \in Nat
        BY <1>1 DEF Sound, Breakers
      <3>2. cb' = [cb EXCEPT !.left = IF cb.left > 0 THEN cb.left - 1 ELSE 0]
        BY <1>7 DEF Tick
      <3>3. cb' \in Breakers
        BY <3>1, <3>2 DEF Breakers
      <3>4. /\ cb'.state = cb.state /\ cb'.requests = cb.requests
            /\ cb'.totalFailures = cb.totalFailures /\ cb'.fresh = cb.fresh
            /\ cb'.consecutiveSuccesses = cb.consecutiveSuccesses
            /\ cb'.left <= cb.left
        BY <3>1, <3>2 DEF Breakers
      <3>5. Accounts(cb')
        BY <1>1, <3>3, <3>4, BackendAssumption DEF Accounts, Sound, Breakers
      <3> QED BY <3>3, <3>4, <3>5 DEF Sound
    <2>2. age' \in [Calls -> 0..RequestTimeout]
      BY <1>2, <1>7, BackendAssumption DEF Tick
    <2>3. attempt' = attempt /\ reply' = "none"
      BY <1>7 DEF Tick
    <2> QED BY <1>1, <1>2, <2>1, <2>2, <2>3 DEF IInv, TypeOK, CountsConserved, Sound
  <1>8. CASE UNCHANGED vars
    BY <1>8 DEF vars, IInv, TypeOK, CountsConserved
  <1> QED BY <1>3, <1>4, <1>5, <1>6, <1>7, <1>8 DEF Next

\* Type correctness of the breaker, its calls and what they are answered.
THEOREM TypeCorrect == Spec => []TypeOK
  <1>1. IInv => TypeOK BY DEF IInv
  <1> QED BY <1>1, InitIInv, NextIInv, PTL DEF Spec

\* The counters always account for the calls the breaker let through: answers
\* that come late, after a window, a trip or a recovery, are never counted.
THEOREM CountsAreConserved == Spec => []CountsConserved
  <1>1. IInv => CountsConserved BY DEF IInv
  <1> QED BY <1>1, InitIInv, NextIInv, PTL DEF Spec

\* During the whole open period no new call reaches the backend.
THEOREM OpenShields == Spec => NoNewCallWhileOpen
  <1>1. IInv /\ [Next]_vars =>
          [cb.state = "open" /\ cb.left > 0 =>
             \A c \in Calls : attempt[c] = 0 => attempt'[c] = 0]_vars
    <2> SUFFICES ASSUME IInv, Next, cb.state = "open", cb.left > 0,
                        NEW c \in Calls, attempt[c] = 0
                 PROVE  attempt'[c] = 0
      OBVIOUS
    <2>1. CurrentState = cb /\ ~Admits(CurrentState)
      BY DEF CurrentState, Admits, IInv, TypeOK, Breakers
    <2>2. attempt \in [Calls -> 0..MaxAttempts]
      BY DEF IInv, TypeOK
    <2>3. ASSUME NEW d \in Calls, Retry(d) PROVE attempt'[c] = 0
      BY <2>2, <2>3 DEF Retry, Ends
    <2> QED BY <2>1, <2>2, <2>3 DEF Next, Admit, Reject, Return, Tick
  <1> QED BY <1>1, InitIInv, NextIInv, PTL DEF Spec, NoNewCallWhileOpen

-----------------------------------------------------------------------------
(* The breaker implements Isolation.                                       *)

\* The refinement mapping, state by state of the breaker.
LEMMA AbstractNext ==
    ASSUME NEW c \in Calls,
           \/ Promise!Trip \/ Promise!Cool \/ Promise!Probation
           \/ Promise!StartTrial(c) \/ Promise!PassTrial(c)
           \/ Promise!Restore(c) \/ Promise!FailTrial(c)
    PROVE  Promise!IsolationNext
  BY DEF Promise!IsolationNext

\* A call let through starts a trial, ends the isolation, or goes unnoticed.
LEMMA AdmitImplements ==
    ASSUME IInv, NEW c \in Calls, Admit(c)
    PROVE  [Promise!IsolationNext]_(Promise!ivars)
  <1>1. /\ cb \in Breakers /\ Accounts(cb)
        /\ c \notin cb.fresh /\ Admits(CurrentState)
        /\ cb' = OnRequest(CurrentState, c)
    BY DEF IInv, TypeOK, CountsConserved, Admit
  <1>2. CASE cb.state = "closed"
    <2>1. CurrentState.state = "closed" /\ CurrentState \in Breakers
      BY <1>1, <1>2, NewGenerationSound DEF CurrentState, NewGeneration, Sound
    <2>2. cb'.state = "closed"
      BY <1>1, <2>1 DEF OnRequest, Breakers
    <2> QED BY <1>2, <2>2 DEF Promise!ivars
  <1>3. CASE cb.state = "open"
    <2>1. cb.left = 0 /\ CurrentState = NewGeneration("halfOpen")
      BY <1>1, <1>3 DEF CurrentState, Admits
    <2>2. /\ cb'.state = "halfOpen" /\ cb'.fresh = {c}
          /\ cb'.requests = 1 /\ cb'.consecutiveSuccesses = 0
      BY <1>1, <2>1 DEF OnRequest, NewGeneration
    <2>3. Promise!Probation
      BY <1>3, <2>1, <2>2 DEF Promise!Probation
    <2> QED BY <2>3, AbstractNext
  <1>4. CASE cb.state = "halfOpen"
    <2>1. CurrentState = cb
      BY <1>4 DEF CurrentState
    <2>2. /\ cb'.state = "halfOpen" /\ cb'.fresh = cb.fresh \cup {c}
          /\ cb'.requests = cb.requests + 1
          /\ cb'.consecutiveSuccesses = cb.consecutiveSuccesses
      BY <1>1, <1>4, <2>1 DEF OnRequest, Breakers
    <2>3. cb.requests < MaxRequests
      BY <1>1, <1>4, <2>1 DEF Admits
    <2>4. Promise!StartTrial(c)
      BY <1>1, <1>4, <2>2, <2>3 DEF Promise!StartTrial
    <2> QED BY <2>4, AbstractNext
  <1> QED BY <1>1, <1>2, <1>3, <1>4 DEF Breakers

\* An answer ends a trial, trips the breaker, ends the isolation, or is late.
LEMMA ReturnImplements ==
    ASSUME IInv, NEW c \in Calls, NEW a \in Answers, Return(c, a)
    PROVE  [Promise!IsolationNext]_(Promise!ivars)
  <1> DEFINE ok == IsNonFatalS3Error(a)
  <1>1. /\ cb \in Breakers /\ Accounts(cb)
        /\ cb' = AfterRequest(CurrentState, c, ok)
    BY DEF IInv, TypeOK, CountsConserved, Return
  <1>2. CASE cb.left = 0 /\ cb.state = "open"
    <2>1. CurrentState = NewGeneration("halfOpen")
      BY <1>2 DEF CurrentState
    <2>2. /\ cb'.state = "halfOpen" /\ cb'.fresh = {}
          /\ cb'.requests = 0 /\ cb'.consecutiveSuccesses = 0
      BY <1>1, <2>1 DEF AfterRequest, NewGeneration
    <2>3. Promise!Probation
      BY <1>2, <2>2 DEF Promise!Probation
    <2> QED BY <2>3, AbstractNext
  <1>3. CASE cb.left = 0 /\ cb.state = "closed"
    <2>1. cb' = NewGeneration("closed")
      BY <1>1, <1>3 DEF CurrentState, AfterRequest, NewGeneration
    <2> QED BY <1>3, <2>1 DEF Promise!ivars, NewGeneration
  <1>4. CASE ~(cb.left = 0 /\ cb.state \in {"open", "closed"})
    <2>1. CurrentState = cb
      BY <1>4 DEF CurrentState
    <2>2. CASE c \notin cb.fresh
      <3>1. cb' = cb
        BY <1>1, <2>1, <2>2 DEF AfterRequest
      <3> QED BY <3>1 DEF Promise!ivars
    <2>3. CASE c \in cb.fresh /\ cb.state = "closed"
      <3>1. CASE cb'.state = "closed"
        BY <2>3, <3>1 DEF Promise!ivars
      <3>2. CASE cb' = NewGeneration("open")
        <4>1. Promise!Trip
          BY <2>3, <3>2
          DEF Promise!Trip, Promise!Isolate, Promise!NoTrials, NewGeneration, Expiry
        <4> QED BY <4>1, AbstractNext
      <3>3. cb'.state = "closed" \/ cb' = NewGeneration("open")
        BY <1>1, <2>1, <2>3 DEF AfterRequest, OnSuccess, OnFailure, Breakers
      <3> QED BY <3>1, <3>2, <3>3
    <2>4. CASE c \in cb.fresh /\ cb.state = "halfOpen"
      <3>1. CASE ~ok
        <4>1. cb' = NewGeneration("open")
          BY <1>1, <2>1, <2>4, <3>1 DEF AfterRequest, OnFailure
        <4>2. Promise!FailTrial(c)
          BY <2>4, <4>1
          DEF Promise!FailTrial, Promise!Isolate, Promise!NoTrials, NewGeneration, Expiry
        <4> QED BY <4>2, AbstractNext
      <3>2. CASE ok /\ cb.consecutiveSuccesses + 1 < MaxRequests
        <4>1. cb' = [cb EXCEPT !.consecutiveSuccesses = @ + 1, !.fresh = @ \ {c}]
          BY <1>1, <2>1, <2>4, <3>2, BackendAssumption
          DEF AfterRequest, OnSuccess, Breakers
        <4>2. /\ cb'.state = "halfOpen" /\ cb'.fresh = cb.fresh \ {c}
              /\ cb'.requests = cb.requests
              /\ cb'.consecutiveSuccesses = cb.consecutiveSuccesses + 1
          BY <1>1, <2>4, <4>1 DEF Breakers
        <4>3. Promise!PassTrial(c)
          BY <2>4, <3>2, <4>2 DEF Promise!PassTrial
        <4> QED BY <4>3, AbstractNext
      <3>3. CASE ok /\ ~(cb.consecutiveSuccesses + 1 < MaxRequests)
        <4>1. cb' = NewGeneration("closed")
          BY <1>1, <2>1, <2>4, <3>3, BackendAssumption
          DEF AfterRequest, OnSuccess, Breakers
        <4>2. IsFiniteSet(cb.fresh) /\ Cardinality(cb.fresh) \in Nat
          BY <1>1, BackendAssumption, FS_Subset, FS_CardinalityType DEF Breakers
        <4>3. cb.consecutiveSuccesses + 1 = MaxRequests /\ Cardinality(cb.fresh) <= 1
          BY <1>1, <2>4, <3>3, <4>2, BackendAssumption DEF Accounts, Breakers
        <4>4. cb.fresh = {c}
          <5>1. Cardinality(cb.fresh) = 1
            BY <2>4, <4>2, <4>3, FS_EmptySet
          <5>2. PICK x : cb.fresh = {x}
            BY <4>2, <5>1, FS_Singleton
          <5> QED BY <2>4, <5>2
        <4>5. Promise!Restore(c)
          BY <2>4, <4>1, <4>3, <4>4 DEF Promise!Restore, Promise!NoTrials, NewGeneration
        <4> QED BY <4>5, AbstractNext
      <3> QED BY <3>1, <3>2, <3>3
    <2>5. cb.state = "open" => c \notin cb.fresh
      BY <1>1 DEF Accounts
    <2> QED BY <1>1, <2>2, <2>3, <2>4, <2>5 DEF Breakers
  <1> QED BY <1>2, <1>3, <1>4

\* Time only cools an open breaker down.
LEMMA TickImplements ==
    ASSUME IInv, Tick
    PROVE  [Promise!IsolationNext]_(Promise!ivars)
  <1>1. cb \in Breakers
    BY DEF IInv, TypeOK
  <1>2. /\ cb'.state = cb.state /\ cb'.fresh = cb.fresh
        /\ cb'.requests = cb.requests
        /\ cb'.consecutiveSuccesses = cb.consecutiveSuccesses
        /\ cb'.left = IF cb.left > 0 THEN cb.left - 1 ELSE 0
    BY <1>1 DEF Tick, Breakers
  <1>3. CASE cb.state = "open" /\ cb.left > 0
    <2>1. Promise!Cool
      BY <1>2, <1>3 DEF Promise!Cool
    <2> QED BY <2>1 DEF Promise!IsolationNext
  <1>4. CASE ~(cb.state = "open" /\ cb.left > 0)
    BY <1>1, <1>2, <1>4 DEF Promise!ivars, Breakers
  <1> QED BY <1>3, <1>4

\* The breaker as the router configures it isolates a failing backend for a
\* whole period and trusts it again only after MaxRequests good trials.
THEOREM BreakerIsolates == Spec => Isolates
  <1>1. Init => Promise!IsolationInit
    BY DEF Init, NewGeneration, Promise!IsolationInit, Promise!NoTrials
  <1>2. IInv /\ [Next]_vars => [Promise!IsolationNext]_(Promise!ivars)
    <2> SUFFICES ASSUME IInv, [Next]_vars
                 PROVE  [Promise!IsolationNext]_(Promise!ivars)
      OBVIOUS
    <2>1. ASSUME NEW c \in Calls, Reject(c) PROVE UNCHANGED cb
      <3>1. /\ Admits(NewGeneration("closed")) /\ Admits(NewGeneration("halfOpen"))
        BY BackendAssumption DEF Admits, NewGeneration
      <3> QED BY <2>1, <3>1 DEF Reject, CurrentState
    <2>2. ASSUME NEW c \in Calls, Retry(c) PROVE UNCHANGED cb
      BY <2>2 DEF Retry
    <2>3. CASE UNCHANGED cb
      BY <2>3 DEF Promise!ivars
    <2>4. UNCHANGED vars => UNCHANGED cb
      BY DEF vars
    <2> QED BY <2>1, <2>2, <2>3, <2>4, AdmitImplements, ReturnImplements,
               TickImplements DEF Next
  <1> QED BY <1>1, <1>2, InitIInv, NextIInv, PTL
          DEF Spec, Isolates, Promise!IsolationSpec
============================================================================

--------------------------- MODULE ProcessProofs ---------------------------
(***************************************************************************)
(* Proofs about module Process, for any number of requests and health      *)
(* checks and any grace period and time limit.                             *)
(***************************************************************************)
EXTENDS Process, TLAPS

\* An answer "up" that is on its way was true no longer ago than its check
\* has been running.
EvidenceIsFresh ==
    \A k \in Checks :
       check[k].running /\ check[k].seen = "up" => silent <= check[k].age

\* A backend that is up is not silent.
UpIsHeard == up => silent = 0

\* A server told to shut down, and no longer waited for, has nothing in flight
\* but what was cut.
DrainedOrCut ==
    \A s \in Servers : s \notin open /\ s # turn => InFlight(s) \subseteq cut

\* The map lacks only servers that failed, and errors come from them.
MapIsTrue ==
    /\ \A s \in Servers : listening[s] = "serving" => s \in servers
    /\ errors > 0 => \E s \in Servers : listening[s] = "reported"

IInv ==
    /\ TypeOK
    /\ ReadyOnFreshEvidence
    /\ EvidenceIsFresh
    /\ UpIsHeard
    /\ DrainedOrCut
    /\ MapIsTrue

\* The inductive invariant holds at first.
LEMMA InitIInv == Init => IInv
<1> SUFFICES ASSUME Init PROVE IInv
  OBVIOUS
<1> USE ProcessAssumption DEF Init, Servers, NoServer, Horizon, Idle
<1>1. TypeOK
  <2>1. check \in [Checks -> [running : BOOLEAN, age : 0..CheckTime,
                             seen : {"nothing", "up", "error"}]]
    OBVIOUS
  <2>2. health \in [healthy : BOOLEAN, old : 0..Horizon]
    OBVIOUS
  <2>3. listening \in
          [Servers -> {"serving", "failed", "forgotten", "reported"}]
    OBVIOUS
  <2>4. left \in 0..Grace /\ silent \in 0..Horizon /\ errors \in Nat
    OBVIOUS
  <2> QED  BY <2>1, <2>2, <2>3, <2>4 DEF TypeOK
<1>2. ReadyOnFreshEvidence /\ EvidenceIsFresh /\ UpIsHeard
  BY DEF ReadyOnFreshEvidence, EvidenceIsFresh, UpIsHeard
<1>3. DrainedOrCut /\ MapIsTrue
  BY DEF DrainedOrCut, MapIsTrue
<1> QED  BY <1>1, <1>2, <1>3 DEF IInv

\* The records of the health checks.
CheckRecords == [running : BOOLEAN, age : 0..CheckTime,
                 seen : {"nothing", "up", "error"}]

\* A check that is started, answered or grows older is a check.
LEMMA CheckStep ==
    ASSUME NEW c \in CheckRecords
    PROVE  /\ Idle \in CheckRecords
           /\ [c EXCEPT !.running = TRUE] \in CheckRecords
           /\ \A a \in {"up", "error"} : [c EXCEPT !.seen = a] \in CheckRecords
           /\ c.age < CheckTime => [c EXCEPT !.age = @ + 1] \in CheckRecords
<1> USE ProcessAssumption DEF CheckRecords
<1>1. Idle \in CheckRecords
  BY DEF Idle
<1>2. [c EXCEPT !.running = TRUE] \in CheckRecords
  OBVIOUS
<1>3. \A a \in {"up", "error"} : [c EXCEPT !.seen = a] \in CheckRecords
  OBVIOUS
<1>4. c.age < CheckTime => [c EXCEPT !.age = @ + 1] \in CheckRecords
  OBVIOUS
<1> QED  BY <1>1, <1>2, <1>3, <1>4

\* Every step keeps every variable in its range.
LEMMA TypeStep == TypeOK /\ [Next]_vars => TypeOK'
<1> SUFFICES ASSUME TypeOK, [Next]_vars PROVE TypeOK'
  OBVIOUS
<1> USE ProcessAssumption DEF TypeOK, Servers, NoServer, Horizon, main, backend
<1>1. ASSUME NEW r \in Requests, Accept(r) \/ Finish(r) PROVE TypeOK'
  BY <1>1 DEF Accept, Finish
<1>2. ASSUME NEW k \in Checks,
             BeginCheck(k) \/ BackendAnswers(k) \/ EndCheck(k)
      PROVE TypeOK'
  <2>0. check \in [Checks -> CheckRecords]
    BY DEF CheckRecords
  <2>1. CASE BeginCheck(k)
    <3>0. Idle \in CheckRecords
      BY <2>0, CheckStep
    <3>1. [Idle EXCEPT !.running = TRUE] \in CheckRecords
      BY <3>0, CheckStep
    <3>2. check' \in [Checks -> CheckRecords]
      BY <2>0, <2>1, <3>1 DEF BeginCheck
    <3> QED  BY <2>1, <3>2 DEF BeginCheck, CheckRecords
  <2>2. CASE BackendAnswers(k)
    <3>1. [check[k] EXCEPT !.seen = IF up THEN "up" ELSE "error"]
             \in CheckRecords
      BY <2>0, CheckStep
    <3>2. check' \in [Checks -> CheckRecords]
      BY <2>0, <2>2, <3>1 DEF BackendAnswers
    <3> QED  BY <2>2, <3>2 DEF BackendAnswers, CheckRecords
  <2>3. CASE EndCheck(k)
    <3>1. Idle \in CheckRecords
      BY <2>0, CheckStep
    <3>2. check' \in [Checks -> CheckRecords]
      BY <2>0, <2>3, <3>1 DEF EndCheck
    <3>3. SetHealthy \in [healthy : BOOLEAN, old : 0..Horizon]
      BY DEF SetHealthy
    <3>4. SetUnhealthy \in [healthy : BOOLEAN, old : 0..Horizon]
      BY DEF SetUnhealthy
    <3>5. health' = SetHealthy \/ health' = SetUnhealthy
      BY <2>3 DEF EndCheck
    <3>6. health' \in [healthy : BOOLEAN, old : 0..Horizon]
      BY <3>3, <3>4, <3>5
    <3> QED  BY <2>3, <3>2, <3>6 DEF EndCheck, CheckRecords
  <2> QED  BY <1>2, <2>1, <2>2, <2>3
<1>3. ASSUME NEW s \in Servers,
             \/ ListenFails(s) \/ Forget(s) \/ Report(s)
             \/ BeginShutdown(s) \/ EndShutdown(s)
      PROVE TypeOK'
  <2>1. CASE ListenFails(s)
    BY <2>1 DEF ListenFails
  <2>2. CASE Forget(s)
    BY <2>2 DEF Forget
  <2>3. CASE Report(s)
    BY <2>3 DEF Report
  <2>4. CASE BeginShutdown(s)
    BY <2>4 DEF BeginShutdown
  <2>5. CASE EndShutdown(s)
    <3>1. InFlight(s) \subseteq Requests \cup Checks
      BY DEF InFlight
    <3> QED  BY <2>5, <3>1 DEF EndShutdown
  <2> QED  BY <1>3, <2>1, <2>2, <2>3, <2>4, <2>5
<1>4. CASE BackendTurns
  BY <1>4 DEF BackendTurns
<1>5. CASE CatchSignals \/ Drain
  BY <1>5 DEF CatchSignals, Drain
<1>6. AllInFlight \subseteq Requests \cup Checks
  BY DEF AllInFlight, InFlight
<1>7. ASSUME Exits, signalled' \in BOOLEAN, turn = NoServer PROVE TypeOK'
  BY <1>6, <1>7 DEF Exits, Idle
<1>8. CASE Signal \/ FatalExit \/ Return
  BY <1>7, <1>8 DEF Signal, FatalExit, Return
<1>9. CASE Tick
  <2>1. check \in [Checks -> CheckRecords]
    BY DEF CheckRecords
  <2>2. ASSUME NEW k \in Checks, check[k].running
        PROVE  [check[k] EXCEPT !.age = @ + 1] \in CheckRecords
    <3>1. check[k] \in CheckRecords /\ check[k].age \in 0..CheckTime
      BY <2>1
    <3>2. check[k].age < CheckTime
      BY <1>9, <2>2 DEF Tick
    <3> QED  BY <3>1, <3>2, CheckStep
  <2>3. check' \in [Checks -> CheckRecords]
    BY <1>9, <2>1, <2>2 DEF Tick
  <2>4. left' \in 0..Grace
    <3>1. left' = IF phase = "draining" /\ left > 0 THEN left - 1 ELSE left
      BY <1>9 DEF Tick
    <3>2. left \in 0..Grace
      BY DEF TypeOK
    <3> QED  BY <3>1, <3>2
  <2>5. silent' \in 0..Horizon
    <3>1. silent' = IF up THEN 0
                    ELSE IF silent = Horizon THEN silent ELSE silent + 1
      BY <1>9 DEF Tick
    <3>2. silent \in 0..Horizon
      BY DEF TypeOK
    <3> QED  BY <3>1, <3>2
  <2> QED  BY <1>9, <2>3, <2>4, <2>5 DEF Tick, CheckRecords
<1>10. CASE UNCHANGED vars
  BY <1>10 DEF vars
<1> QED
  BY <1>1, <1>2, <1>3, <1>4, <1>5, <1>8, <1>9, <1>10 DEF Next

\* Every step keeps the evidence of readiness fresh.
LEMMA EvidenceStep ==
    TypeOK /\ ReadyOnFreshEvidence /\ EvidenceIsFresh /\ UpIsHeard /\ [Next]_vars
      => ReadyOnFreshEvidence' /\ EvidenceIsFresh' /\ UpIsHeard'
<1> SUFFICES ASSUME TypeOK, ReadyOnFreshEvidence, EvidenceIsFresh, UpIsHeard,
                    [Next]_vars
             PROVE  ReadyOnFreshEvidence' /\ EvidenceIsFresh' /\ UpIsHeard'
  OBVIOUS
<1> USE ProcessAssumption DEF TypeOK, ReadyOnFreshEvidence, EvidenceIsFresh, UpIsHeard,
        Horizon, Idle, main, backend
<1>1. ASSUME NEW k \in Checks,
             BeginCheck(k) \/ BackendAnswers(k) \/ EndCheck(k)
      PROVE  ReadyOnFreshEvidence' /\ EvidenceIsFresh' /\ UpIsHeard'
  <2>1. CASE BeginCheck(k)
    BY <2>1 DEF BeginCheck
  <2>2. CASE BackendAnswers(k)
    <3>1. check[k].age \in Nat
      OBVIOUS
    <3>2. check'[k].seen = "up" => silent <= check'[k].age
      BY <2>2, <3>1 DEF BackendAnswers
    <3>3. \A j \in Checks \ {k} : check'[j] = check[j]
      BY <2>2 DEF BackendAnswers
    <3> QED  BY <2>2, <3>2, <3>3 DEF BackendAnswers
  <2>3. CASE EndCheck(k)
    BY <2>3 DEF EndCheck, SetHealthy, SetUnhealthy
  <2> QED  BY <1>1, <2>1, <2>2, <2>3
<1>2. CASE BackendTurns
  BY <1>2 DEF BackendTurns
<1>3. CASE Tick
  BY <1>3 DEF Tick
<1>4. ASSUME Exits PROVE ReadyOnFreshEvidence' /\ EvidenceIsFresh' /\ UpIsHeard'
  BY <1>4 DEF Exits
<1>5. CASE UNCHANGED <<up, silent, check, health>>
  BY <1>5
<1>6. ASSUME Next
      PROVE  \/ \E k \in Checks :
                  BeginCheck(k) \/ BackendAnswers(k) \/ EndCheck(k)
             \/ BackendTurns \/ Tick \/ Exits
             \/ UNCHANGED <<up, silent, check, health>>
  BY <1>6 DEF Next, Accept, Finish, ListenFails, Forget, Report, BeginShutdown,
     EndShutdown, CatchSignals, Signal, FatalExit, Drain, Return
<1> QED  BY <1>1, <1>2, <1>3, <1>4, <1>5, <1>6 DEF vars

\* Only servers that failed leave the map.
LEMMA MapStep == TypeOK /\ MapIsTrue /\ [Next]_vars => MapIsTrue'
<1> SUFFICES ASSUME TypeOK, MapIsTrue, [Next]_vars PROVE MapIsTrue'
  OBVIOUS
<1> USE DEF TypeOK, MapIsTrue, main, Servers
<1>1. ASSUME NEW s \in Servers, ListenFails(s) \/ Forget(s) \/ Report(s)
      PROVE  MapIsTrue'
  BY <1>1 DEF ListenFails, Forget, Report
<1>2. CASE UNCHANGED <<listening, servers, errors>>
  BY <1>2
<1>3. ASSUME Next
      PROVE  \/ \E s \in Servers : ListenFails(s) \/ Forget(s) \/ Report(s)
             \/ UNCHANGED <<listening, servers, errors>>
  BY <1>3 DEF Next, Accept, Finish, BeginCheck, BackendAnswers, EndCheck,
     BeginShutdown, EndShutdown, BackendTurns, CatchSignals, Signal, FatalExit,
     Drain, Return, Tick, Exits
<1> QED  BY <1>1, <1>2, <1>3 DEF vars

\* A server that was shut down has nothing in flight but what was cut.
LEMMA DrainStep == TypeOK /\ DrainedOrCut /\ [Next]_vars => DrainedOrCut'
<1> SUFFICES ASSUME TypeOK, DrainedOrCut, [Next]_vars,
                    NEW s \in Servers, s \notin open', s # turn'
             PROVE  InFlight(s)' \subseteq cut'
  BY DEF DrainedOrCut
<1> USE DEF TypeOK, DrainedOrCut, main, InFlight, Servers, NoServer, Idle
<1>1. ASSUME NEW r \in Requests, Accept(r) \/ Finish(r)
      PROVE  InFlight(s)' \subseteq cut'
  BY <1>1 DEF Accept, Finish
<1>2. ASSUME NEW k \in Checks,
             BeginCheck(k) \/ BackendAnswers(k) \/ EndCheck(k)
      PROVE  InFlight(s)' \subseteq cut'
  <2>1. s # "main" => InFlight(s)' \subseteq InFlight(s) \/ "admin" \in open
    BY <1>2 DEF BeginCheck, BackendAnswers, EndCheck
  <2>2. UNCHANGED <<flight, cut, open, turn>>
    BY <1>2 DEF BeginCheck, BackendAnswers, EndCheck
  <2> QED  BY <2>1, <2>2
<1>3. ASSUME NEW t \in Servers, BeginShutdown(t)
      PROVE  InFlight(s)' \subseteq cut'
  BY <1>3 DEF BeginShutdown
<1>4. ASSUME NEW t \in Servers, EndShutdown(t)
      PROVE  InFlight(s)' \subseteq cut'
  BY <1>4 DEF EndShutdown
<1>5. CASE Exits
  BY <1>5 DEF Exits
<1>6. CASE Tick
  <2>1. \A k \in Checks : check'[k].running = check[k].running
    BY <1>6 DEF Tick
  <2> QED  BY <1>6, <2>1 DEF Tick
<1>7. CASE UNCHANGED <<open, turn, flight, cut, check>>
  BY <1>7
<1>8. ASSUME Next
      PROVE  \/ \E r \in Requests : Accept(r) \/ Finish(r)
             \/ \E k \in Checks :
                  BeginCheck(k) \/ BackendAnswers(k) \/ EndCheck(k)
             \/ \E t \in Servers : BeginShutdown(t) \/ EndShutdown(t)
             \/ Exits \/ Tick
             \/ UNCHANGED <<open, turn, flight, cut, check>>
  BY <1>8 DEF Next, ListenFails, Forget, Report, BackendTurns, CatchSignals,
     Signal, FatalExit, Drain, Return
<1> QED  BY <1>1, <1>2, <1>3, <1>4, <1>5, <1>6, <1>7, <1>8 DEF vars

\* The inductive invariant holds in every state.
THEOREM Invariant == Spec => []IInv
<1>1. IInv /\ [Next]_vars => IInv'
  BY TypeStep, EvidenceStep, MapStep, DrainStep DEF IInv
<1> QED  BY InitIInv, <1>1, PTL DEF Spec

\* Every variable stays in its range: Process.TypeOK.
THEOREM TypeCorrect == Spec => []TypeOK
<1>1. IInv => TypeOK
  BY DEF IInv
<1> QED  BY Invariant, <1>1, PTL

\* Readiness rests on evidence no older than a check's time limit.
THEOREM FreshReadiness == Spec => []ReadyOnFreshEvidence
<1>1. IInv => ReadyOnFreshEvidence
  BY DEF IInv
<1> QED  BY Invariant, <1>1, PTL

\* What a step may cut while the grace period lasts and no server has failed.
LEMMA CutStep ==
    IInv /\ [Next]_vars =>
      [cut' # cut => \/ left = 0
                     \/ phase = "launching"
                     \/ \E s \in Servers : listening[s] # "serving"]_vars
<1> SUFFICES ASSUME IInv, Next, cut' # cut, left # 0, phase # "launching",
                    \A s \in Servers : listening[s] = "serving"
             PROVE  FALSE
  OBVIOUS
<1>1. servers = Servers /\ errors = 0
  <2>1. servers \subseteq Servers /\ errors \in Nat
    BY DEF IInv, TypeOK
  <2>2. \A s \in Servers : s \in servers
    BY DEF IInv, MapIsTrue
  <2>3. ~ (errors > 0)
    BY DEF IInv, MapIsTrue
  <2> QED  BY <2>1, <2>2, <2>3
<1>2. \/ \E s \in Servers : EndShutdown(s)
      \/ Signal \/ FatalExit \/ Return
  BY DEF Next, Accept, Finish, BeginCheck, BackendAnswers, EndCheck, ListenFails,
     Forget, Report, BeginShutdown, BackendTurns, CatchSignals, Drain, Tick
<1>3. ~ \E s \in Servers : EndShutdown(s)
  BY DEF EndShutdown
<1>4. ~ FatalExit /\ ~ Signal
  BY <1>1 DEF FatalExit, Signal
<1>5. CASE Return
  <2>1. \A s \in Servers : s \notin open /\ s # turn
    BY <1>1, <1>5 DEF Return, Servers, NoServer
  <2>2. AllInFlight \subseteq cut
    BY <2>1 DEF IInv, DrainedOrCut, AllInFlight, Servers
  <2> QED  BY <1>5, <2>2 DEF Return, Exits
<1> QED  BY <1>2, <1>3, <1>4, <1>5

\* A request is cut off early only by the failure of a server or by a signal
\* that comes before main() has asked for signals.
THEOREM GracefulShutdown == Spec => NobodyCutEarly
<1> QED  BY Invariant, CutStep, PTL DEF Spec, NobodyCutEarly
============================================================================

---------------------------- MODULE ServerProofs ----------------------------
(***************************************************************************)
(* Theorems about one request, for every set of requests and every limit.  *)
(***************************************************************************)
EXTENDS Server, TLAPS

-----------------------------------------------------------------------------
(* Type correctness.                                                       *)

LEMMA DispatchType ==
    ASSUME NEW r PROVE Dispatch(r) \in Operations \cup {"unsupported"}
  <1>1. DetectMultipartOperation(r) \in Operations
    BY DEF DetectMultipartOperation, Operations
  <1> QED BY <1>1 DEF Dispatch, Operations

LEMMA LengthsAreInts ==
    ASSUME TypeOK
    PROVE  response.status \in Nat /\ response.length \in Int /\ response.size \in Nat
  <1>1. CASE response \in Streams
    BY <1>1, ServerAssumption DEF Streams, Unknown
  <1>2. CASE response \in Heads
    BY <1>2, ServerAssumption DEF Heads, Unknown
  <1>3. CASE response \in Relayed
    BY <1>3 DEF Relayed, Unknown
  <1>4. CASE response \in {NoResponse} \cup ErrorDocuments \cup Documents
    BY <1>4 DEF NoResponse, ErrorDocuments, Documents, Unknown
  <1> QED BY <1>1, <1>2, <1>3, <1>4 DEF TypeOK

Answers == [status : Nat, announced : Int, object : Nat, text : Nat]

LEMMA AuthStatuses == ASSUME NEW code PROVE AuthStatus(code) \in {400, 401, 403}
  BY DEF AuthStatus

LEMMA InitType == Init => TypeOK
  BY DEF Init, TypeOK, Answers, Operations, Stages, NothingSent, Begin, Unknown

LEMMA NextType == TypeOK /\ [Next]_vars => TypeOK'
  <1> SUFFICES ASSUME TypeOK, [Next]_vars PROVE TypeOK'
    OBVIOUS
  <1> USE DEF TypeOK, Answers, Operations, Stages, NothingSent, Begin, Unknown, Opaque
  <1>1. CASE Receive
    BY <1>1 DEF Receive
  <1>2. CASE Classify
    BY <1>2 DEF Classify, Reply
  <1>3. CASE BucketOperation
    BY <1>3, AuthStatuses DEF BucketOperation, Verified, Reply, Fail
  <1>4. CASE ListObjects
    BY <1>4, AuthStatuses DEF ListObjects, Verified, Reply, Fail
  <1>5. CASE Route
    BY <1>5, AuthStatuses DEF Route, Verified, Fail
  <1>6. CASE Execute
    BY <1>6, DispatchType DEF Execute, Fail, Responses
  <1>7. CASE Refuse
    BY <1>7 DEF Refuse, Fail
  <1>8. CASE SendHeaders
    <2>1. response.status \in Nat /\ response.length \in Int
      BY LengthsAreInts
    <2> QED BY <1>8, <2>1 DEF SendHeaders
  <1>9. CASE Copy
    BY <1>9 DEF Copy
  <1>10. CASE CopyEnds
    BY <1>10 DEF CopyEnds, Fail
  <1>11. CASE ReportError
    BY <1>11, ServerAssumption DEF ReportError
  <1>12. CASE ClientLeaves
    BY <1>12 DEF ClientLeaves
  <1>13. CASE UNCHANGED vars
    BY <1>13 DEF vars
  <1> QED BY <1>1, <1>2, <1>3, <1>4, <1>5, <1>6, <1>7, <1>8, <1>9, <1>10, <1>11,
             <1>12, <1>13 DEF Next

\* Every variable of a handler stays in its range.
THEOREM TypeCorrect == Spec => []TypeOK
  BY InitType, NextType, PTL DEF Spec

-----------------------------------------------------------------------------
(* The inductive invariant: what holds of a request at each stage.         *)

Early == {"parse", "control", "listing", "object", "execute"}

\* What has been decided by the time the executor runs stays true.
Progress ==
    /\ at \in Early => asked = "none" /\ sent = NothingSent
    /\ at = "respond" => sent = NothingSent
    /\ asked # "none" => asked = Dispatch(request)
    /\ at \in {"object", "execute", "respond", "copy"} \/ asked # "none" =>
         DetectBucketOperation(request) = "none" /\ ~DetectListing(request)
    /\ \/ at \in {"execute", "respond", "copy"}
       \/ asked # "none" \/ sent.status \in 200..299
       => VerifyRequest(request) = "none"

\* The error writer has something to report, and it is never a success.
Errors ==
    /\ err \in {0, 400, 401, 403, 404, 500, 502}
    /\ at = "failed" => err # 0

Bodies ==
    /\ at \in Early => body = "none"
    /\ at \in {"failed", "done"} => body # "open"

\* What a client has been sent of an object, against what the backend gave.
Delivery ==
    /\ at = "respond" /\ asked = "GetObject" => response \in Streams \cup ErrorDocuments
    /\ ObjectAnswer =>
         /\ sent.announced = response.length
         /\ response.length \in {Unknown, response.size}
         /\ sent.object <= response.size
         /\ sent.text \in {0, TextLength}
         /\ at # "done" => sent.text = 0

IInv == TypeOK /\ Progress /\ Errors /\ Bodies /\ WithinLimit /\ Delivery

\* Everything the invariant relates, one action at a time.
LEMMA ProgressStep ==
    ASSUME TypeOK, Progress, Errors, [Next]_vars PROVE Progress'
  <1> USE DEF Progress, Early, Begin, NothingSent, TypeOK, Stages
  <1>1. CASE Receive
    BY <1>1 DEF Receive
  <1>2. CASE Classify
    BY <1>2 DEF Classify, Reply
  <1>3. CASE BucketOperation
    BY <1>3, AuthStatuses DEF BucketOperation, Verified, Reply, Fail
  <1>4. CASE ListObjects
    BY <1>4, AuthStatuses DEF ListObjects, Verified, Reply, Fail
  <1>5. CASE Route
    BY <1>5, AuthStatuses DEF Route, Verified, Fail
  <1>6. CASE Execute
    BY <1>6 DEF Execute, Fail
  <1>7. CASE Refuse
    BY <1>7 DEF Refuse, Fail
  <1>8. CASE SendHeaders
    BY <1>8 DEF SendHeaders
  <1>9. CASE Copy
    BY <1>9 DEF Copy
  <1>10. CASE CopyEnds
    BY <1>10 DEF CopyEnds, Fail
  <1>11. CASE ReportError
    BY <1>11 DEF ReportError, Errors
  <1>12. CASE ClientLeaves
    BY <1>12 DEF ClientLeaves
  <1>13. CASE UNCHANGED vars
    BY <1>13 DEF vars
  <1> QED BY <1>1, <1>2, <1>3, <1>4, <1>5, <1>6, <1>7, <1>8, <1>9, <1>10, <1>11,
             <1>12, <1>13 DEF Next

LEMMA ErrorsStep == ASSUME TypeOK, Errors, [Next]_vars PROVE Errors'
  <1> USE DEF Errors
  <1>1. CASE Receive \/ Classify \/ SendHeaders \/ Copy \/ ReportError \/ ClientLeaves
    BY <1>1 DEF Receive, Classify, Reply, SendHeaders, Copy, ReportError, ClientLeaves
  <1>2. CASE BucketOperation \/ ListObjects \/ Route
    BY <1>2, AuthStatuses DEF BucketOperation, ListObjects, Route, Verified, Reply, Fail
  <1>3. CASE Execute \/ Refuse \/ CopyEnds
    BY <1>3 DEF Execute, Refuse, CopyEnds, Fail, Opaque
  <1>4. CASE UNCHANGED vars
    BY <1>4 DEF vars
  <1> QED BY <1>1, <1>2, <1>3, <1>4 DEF Next

LEMMA BodiesStep == ASSUME TypeOK, Bodies, [Next]_vars PROVE Bodies'
  <1> USE DEF Bodies, Early
  <1>1. CASE Receive \/ Classify \/ SendHeaders \/ Copy \/ ReportError \/ ClientLeaves
    BY <1>1 DEF Receive, Classify, Reply, SendHeaders, Copy, ReportError, ClientLeaves
  <1>2. CASE BucketOperation \/ ListObjects \/ Route
    BY <1>2 DEF BucketOperation, ListObjects, Route, Verified, Reply, Fail
  <1>3. CASE Execute \/ Refuse \/ CopyEnds
    BY <1>3 DEF Execute, Refuse, CopyEnds, Fail
  <1>4. CASE UNCHANGED vars
    BY <1>4 DEF vars
  <1> QED BY <1>1, <1>2, <1>3, <1>4 DEF Next

LEMMA LimitStep ==
    ASSUME TypeOK, Progress, Errors, WithinLimit, [Next]_vars PROVE WithinLimit'
  <1> USE ServerAssumption DEF WithinLimit, TypeOK, Begin, NothingSent, Unknown
  <1>1. CASE Receive \/ Classify
    BY <1>1 DEF Receive, Classify, Reply
  <1>2. CASE BucketOperation \/ ListObjects \/ Route
    BY <1>2 DEF BucketOperation, ListObjects, Route, Verified, Reply, Fail
  <1>3. CASE Execute \/ Refuse \/ CopyEnds \/ ClientLeaves
    BY <1>3 DEF Execute, Refuse, CopyEnds, ClientLeaves
  <1>4. CASE SendHeaders
    <2>1. response.length \in Int
      BY LengthsAreInts
    <2> QED BY <1>4, <2>1 DEF SendHeaders, TooLarge
  <1>5. CASE Copy
    <2>1. /\ sent.object < MaxBodySize + 1
          /\ sent' = [sent EXCEPT !.object = @ + 1]
      BY <1>5 DEF Copy, Unread
    <2>2. /\ sent'.object = sent.object + 1
          /\ sent'.status = sent.status /\ sent'.announced = sent.announced
      BY <2>1
    <2> QED BY <2>1, <2>2
  <1>6. CASE ReportError
    <2>1. at = "failed" /\ err # 0 /\ err # 200
      BY <1>6 DEF ReportError, Errors
    <2>2. CASE sent' = [status |-> err, announced |-> -1, object |-> 0, text |-> 1]
      BY <2>1, <2>2
    <2>3. CASE sent' = [sent EXCEPT !.text = @ + TextLength] \/ UNCHANGED sent
      BY <2>3
    <2> QED BY <1>6, <2>2, <2>3 DEF ReportError
  <1>7. CASE UNCHANGED vars
    BY <1>7 DEF vars
  <1> QED BY <1>1, <1>2, <1>3, <1>4, <1>5, <1>6, <1>7 DEF Next

LEMMA DeliveryStep ==
    ASSUME IInv, [Next]_vars PROVE Delivery'
  <1> USE DEF IInv, Delivery, ObjectAnswer
  <1>1. CASE Receive
    BY <1>1 DEF Receive, Begin, NothingSent
  <1>2. CASE Classify \/ BucketOperation \/ ListObjects \/ Route
    <2>1. asked' = "none" /\ at' # "respond"
      BY <1>2 DEF Classify, BucketOperation, ListObjects, Route, Verified, Reply, Fail,
                  Progress, Early
    <2> QED BY <2>1
  <1>3. CASE Execute
    <2>1. sent'.status = 0
      BY <1>3 DEF Execute, Progress, Early, Begin, NothingSent
    <2>2. at' = "respond" /\ asked' = "GetObject" =>
            response' \in Streams \cup ErrorDocuments
      BY <1>3 DEF Execute, Fail, Responses
    <2> QED BY <2>1, <2>2
  <1>4. CASE Refuse
    BY <1>4 DEF Refuse, Fail, Begin
  <1>5. CASE SendHeaders
    <2>1. /\ sent' = Begin(response.status, response.length, 0)
          /\ at' = "copy" /\ UNCHANGED <<request, asked, response>>
      BY <1>5 DEF SendHeaders
    <2>2. asked = "GetObject" => response \in Streams \cup ErrorDocuments
      BY <1>5 DEF SendHeaders
    <2>3. asked = "GetObject" /\ response.status \in {200, 206} =>
            response.length \in {Unknown, response.size}
      BY <2>2 DEF Streams, ErrorDocuments
    <2>4. 0 <= response.size
      BY LengthsAreInts
    <2> QED BY <2>1, <2>3, <2>4 DEF Begin
  <1>6. CASE Copy
    <2>1. sent' = [sent EXCEPT !.object = @ + 1] /\ sent.object < response.size
      BY <1>6 DEF Copy, Unread
    <2>2. at' = at /\ at # "respond" /\ UNCHANGED <<request, asked, response>>
      BY <1>6 DEF Copy
    <2>3. sent \in Answers /\ response.size \in Nat
      BY LengthsAreInts DEF TypeOK, Answers
    <2> QED BY <2>1, <2>2, <2>3 DEF Answers
  <1>7. CASE CopyEnds
    <2>1. at = "copy" /\ at' # "respond" /\ UNCHANGED <<request, asked, response, sent>>
      BY <1>7 DEF CopyEnds, Fail
    <2> QED BY <2>1
  <1>8. CASE ReportError
    <2>1. at = "failed" /\ at' = "done" /\ UNCHANGED <<request, asked, response>>
      BY <1>8 DEF ReportError
    <2>2. CASE sent.status = 0 /\ sent' = Begin(err, Unknown, 1)
      BY <2>1, <2>2 DEF Begin, Errors
    <2>3. CASE sent' = [sent EXCEPT !.text = @ + TextLength]
      <3>1. sent \in Answers
        BY DEF TypeOK, Answers
      <3> QED BY <2>1, <2>3, <3>1, ServerAssumption DEF Answers
    <2>4. CASE UNCHANGED sent
      BY <2>1, <2>4
    <2> QED BY <1>8, <2>2, <2>3, <2>4 DEF ReportError
  <1>9. CASE ClientLeaves
    BY <1>9 DEF ClientLeaves
  <1>10. CASE UNCHANGED vars
    BY <1>10 DEF vars
  <1> QED BY <1>1, <1>2, <1>3, <1>4, <1>5, <1>6, <1>7, <1>8, <1>9, <1>10 DEF Next

LEMMA InitIInv == Init => IInv
  <1> SUFFICES ASSUME Init PROVE IInv
    OBVIOUS
  <1>1. TypeOK
    BY InitType
  <1>2. Progress /\ Errors /\ Bodies
    BY DEF Init, Progress, Early, Errors, Bodies, Begin, NothingSent
  <1>3. WithinLimit /\ Delivery
    BY ServerAssumption
       DEF Init, WithinLimit, Delivery, ObjectAnswer, Begin, NothingSent, Unknown
  <1> QED BY <1>1, <1>2, <1>3 DEF IInv

LEMMA NextIInv == IInv /\ [Next]_vars => IInv'
  BY NextType, ProgressStep, ErrorsStep, BodiesStep, LimitStep, DeliveryStep DEF IInv

LEMMA Invariant == Spec => []IInv
  BY InitIInv, NextIInv, PTL DEF Spec

-----------------------------------------------------------------------------
\* A request the verifier lets through is genuine: none of its early returns
\* is missing.
LEMMA VerifierSound ==
    ASSUME NEW r \in Requests, VerifyRequest(r) = "none"
    PROVE  Genuine(r)
  BY ServerAssumption DEF VerifyRequest, Genuine

\* No backend is asked and no success is answered for a request that is not
\* genuine, through whichever of the four handlers it goes.
THEOREM GenuineOnly == Spec => []OnlyGenuineServed
  <1>1. IInv => OnlyGenuineServed
    BY VerifierSound DEF IInv, TypeOK, Progress, OnlyGenuineServed
  <1> QED BY <1>1, Invariant, PTL

\* The executor runs what the server detected, for every method and every set
\* of parameters.
LEMMA DispatchAgrees ==
    ASSUME NEW r, Dispatch(r) # "unsupported"
    PROVE  DetectMultipartOperation(r) \in {"none", Dispatch(r)}
  BY DEF Dispatch, DetectMultipartOperation

\* The operation a backend is asked for is the detected one, and what reaches
\* it by GET, PUT or DELETE names an object.
THEOREM OperationsAreRight == Spec => []RightOperation
  <1>1. IInv => RightOperation
    <2> SUFFICES ASSUME IInv, asked # "none" PROVE RightOperation
      BY DEF RightOperation
    <2>1. asked = Dispatch(request) /\ asked # "unsupported"
      BY DEF IInv, Progress, TypeOK, Operations
    <2>2. DetectMultipartOperation(request) \in {"none", asked}
      BY <2>1, DispatchAgrees
    <2>3. DetectBucketOperation(request) = "none" /\ ~DetectListing(request)
      BY DEF IInv, Progress
    <2>4. request.method \in {"GET", "PUT", "DELETE"} => Key(request) # << >>
      <3> DEFINE k == Key(request)
      <3>1. request.method = "GET" => k # << >>
        BY <2>3 DEF DetectListing
      <3>2. request.method = "PUT" /\ k = << >> => DetectBucketOperation(request) # "none"
        BY DEF DetectBucketOperation
      <3>3. request.method = "DELETE" /\ k = << >> => DetectBucketOperation(request) # "none"
        BY DEF DetectBucketOperation
      <3> QED BY <2>3, <3>1, <3>2, <3>3
    <2> QED BY <2>2, <2>4 DEF RightOperation
  <1> QED BY <1>1, Invariant, PTL

\* Every backend body is closed by the end of the request.
THEOREM BodiesAreClosed == Spec => []BodyClosed
  <1>1. IInv => BodyClosed
    BY DEF IInv, Bodies, BodyClosed
  <1> QED BY <1>1, Invariant, PTL

\* max_body_size bounds what is sent of an object.
THEOREM LimitHolds == Spec => []WithinLimit
  <1>1. IInv => WithinLimit
    BY DEF IInv
  <1> QED BY <1>1, Invariant, PTL

\* An answer that announced its length is cut short in the client's sight,
\* but for one length of the missing part.
THEOREM TruncationIsSeen == Spec => []TruncationShows
  <1>1. IInv => TruncationShows
    <2> SUFFICES ASSUME IInv, Accepted, ObjectAnswer, response.length # Unknown
                 PROVE  response.size \in {sent.object, sent.object + TextLength}
      BY DEF TruncationShows
    <2>1. sent.announced = sent.object + sent.text
      BY DEF IInv, Delivery, Accepted
    <2>2. response.size = sent.object + sent.text /\ sent.text \in {0, TextLength}
      BY <2>1 DEF IInv, Delivery
    <2>3. sent.object \in Nat
      BY DEF IInv, TypeOK
    <2> QED BY <2>2, <2>3
  <1> QED BY <1>1, Invariant, PTL
=============================================================================

--------------------------- MODULE ExecutorProofs ---------------------------
(***************************************************************************)
(* Proofs about module Executor: its types, and that it implements         *)
(* VirtualBucket, for any clients, requests, keys, routes, escapes and     *)
(* backends, any number of attempts and any of late effects.               *)
(***************************************************************************)
EXTENDS Executor, TLAPS

UploadParts == UNION {[S -> Bodies] : S \in SUBSET Numbers}

UploadRecords ==
    [state : {"unused", "open", "gone"}, at : Range(Address) \cup {Absent},
     parts : UploadParts]

\* What TypeOK says of the two variables the backends own.
StoreOK ==
    /\ objects \in [Addresses -> Contents]
    /\ uploads \in [Uploads -> UploadRecords]
    /\ \A u \in Uploads :
         uploads[u].state = "open" => uploads[u].at \in Range(Address)

\* Addresses are those of keys, and lead back to them.
LEMMA AddressFacts ==
    /\ \A k \in Routable :
         /\ Address[k] \in Range(Address)
         /\ Address[k] \in Addresses
         /\ CopyAddress[k] \in Addresses
         /\ KeyAt[Address[k]] = k
    /\ \A j, k \in Routable : Address[j] = Address[k] => j = k
    /\ \A a \in Range(Address) :
         a # Absent /\ KeyAt[a] \in Routable /\ Address[KeyAt[a]] = a
<1>0. DOMAIN Address = Routable /\ DOMAIN CopyAddress = Routable
  BY DEF Address, CopyAddress
<1>1. \A k \in Routable : /\ Address[k] \in Range(Address)
                          /\ Address[k] \in Addresses
                          /\ CopyAddress[k] \in Addresses
  BY <1>0 DEF Range, Addresses
<1>2. \A j, k \in Routable : Address[j] = Address[k] => j = k
  BY ExecutorAssumption
<1>3. \A a \in Range(Address) : \E k \in Routable : Address[k] = a
  BY <1>0 DEF Range
<1>4. \A a \in Range(Address) :
         KeyAt[a] \in Routable /\ Address[KeyAt[a]] = a
  BY <1>3 DEF KeyAt
<1>5. \A a \in Range(Address) : a # Absent
  BY ExecutorAssumption DEF Addresses
<1> QED  BY <1>1, <1>2, <1>4, <1>5

\* What a request may write is content.
LEMMA ContentFacts ==
    /\ Absent \in Contents /\ Stray \subseteq Contents
    /\ \A r \in Requests :
         /\ r.op \in {"put", "part"} => r.body \in Bodies /\ <<r.body>> \in Contents
         /\ r.op = "part" => r.number \in Numbers
         /\ r.op = "complete" =>
              [i \in DOMAIN r.list |-> r.list[i].body] \in Contents
<1>1. \A r \in Requests : r.op \in {"put", "part"} =>
         r.body \in Bodies /\ <<r.body>> \in Contents
  BY DEF Bodies, Contents
<1>2. \A r \in Requests : r.op = "part" => r.number \in Numbers
  BY DEF Numbers
<1>3. \A r \in Requests : r.op = "complete" =>
         [i \in DOMAIN r.list |-> r.list[i].body] \in Contents
  BY DEF Contents
<1>4. Absent \in Contents /\ Stray \subseteq Contents
  BY DEF Contents
<1> QED  BY <1>1, <1>2, <1>3, <1>4

\* An upload that has no parts, or one part more, is an upload.
LEMMA PartFacts ==
    /\ << >> \in UploadParts
    /\ \A f \in UploadParts, n \in Numbers, b \in Bodies :
         Store!With(f, n, b) \in UploadParts
<1>1. << >> \in UploadParts
  <2>1. << >> \in [{} -> Bodies]
    OBVIOUS
  <2>2. {} \in SUBSET Numbers
    OBVIOUS
  <2> QED  BY <2>1, <2>2 DEF UploadParts
<1>2. ASSUME NEW f \in UploadParts, NEW n \in Numbers, NEW b \in Bodies
      PROVE  Store!With(f, n, b) \in UploadParts
  <2>1. PICK S \in SUBSET Numbers : f \in [S -> Bodies]
    BY DEF UploadParts
  <2>2. Store!With(f, n, b) \in [S \cup {n} -> Bodies]
    BY <2>1 DEF Store!With
  <2>3. S \cup {n} \in SUBSET Numbers
    OBVIOUS
  <2> QED  BY <2>2, <2>3 DEF UploadParts
<1> QED  BY <1>1, <1>2

\* What a backend does to an object keeps objects and uploads in their ranges.
LEMMA PutType ==
    ASSUME StoreOK, NEW a \in Addresses, NEW v \in Contents, NEW result,
           Store!Put(a, v, result)
    PROVE  StoreOK'
<1> USE DEF StoreOK, UploadRecords
<1>1. objects' \in [Addresses -> Contents]
  BY DEF Store!Put
<1> QED  BY <1>1 DEF Store!Put

\* The same for the operations on uploads.
LEMMA UploadType ==
    ASSUME StoreOK, NEW u \in Uploads, NEW x \in UploadRecords,
           x.state = "open" => x.at \in Range(Address),
           uploads' = [uploads EXCEPT ![u] = x],
           objects' \in [Addresses -> Contents]
    PROVE  StoreOK'
  BY DEF StoreOK

\* Every operation of a backend keeps them so.
LEMMA StoreStep ==
    ASSUME StoreOK, NEW r \in Requests, r.key \in Routable, NEW result,
           Performs(r, result)
    PROVE  StoreOK'
<1> DEFINE a == Address[r.key]
<1>0. a \in Range(Address) /\ a \in Addresses /\ CopyAddress[r.key] \in Addresses
  BY AddressFacts
<1>1. ASSUME UNCHANGED <<objects, uploads>> PROVE StoreOK'
  BY <1>1 DEF StoreOK, UploadRecords
<1>2. CASE r.op = "get"
  BY <1>1, <1>2 DEF Performs, GetObject, Store!Get
<1>3. CASE r.op = "put"
  <2>1. Store!Put(a, <<r.body>>, result)
    BY <1>3 DEF Performs, PutObject
  <2> QED  BY <1>0, <1>3, <2>1, ContentFacts, PutType
<1>4. CASE r.op = "delete"
  <2>1. Store!Put(a, Absent, result)
    BY <1>4 DEF Performs, DeleteObject
  <2> QED  BY <1>0, <2>1, ContentFacts, PutType
<1>5. CASE r.op = "copy"
  <2>1. PICK found \in Source(r) : Store!Copy(found, CopyAddress[r.key], result)
    BY <1>5 DEF Performs, CopyObject
  <2>2. found \in Contents
    BY AddressFacts, ContentFacts DEF Source, StoreOK
  <2>3. CASE found = Absent
    BY <1>1, <2>1, <2>3 DEF Store!Copy
  <2>4. CASE found # Absent
    <3>1. Store!Put(CopyAddress[r.key], found, result)
      BY <2>1, <2>4 DEF Store!Copy
    <3> QED  BY <1>0, <2>2, <3>1, PutType
  <2> QED  BY <2>3, <2>4
<1>6. CASE r.op = "create"
  <2>1. Store!Create(a, result)
    BY <1>6 DEF Performs, CreateMultipartUpload
  <2>2. PICK u \in Uploads :
          /\ uploads' = [uploads EXCEPT
                           ![u] = [state |-> "open", at |-> a, parts |-> << >>]]
          /\ UNCHANGED objects
    BY <2>1 DEF Store!Create
  <2>3. [state |-> "open", at |-> a, parts |-> << >>] \in UploadRecords
    BY <1>0, PartFacts DEF UploadRecords
  <2> QED  BY <1>0, <2>2, <2>3, UploadType DEF StoreOK
<1>7. ASSUME NEW u, Store!NoSuchUpload(u, a, result) PROVE StoreOK'
  BY <1>1, <1>7 DEF Store!NoSuchUpload
<1>8. CASE r.op = "part"
  <2>1. Store!Part(a, r.upload, r.number, r.body, result)
    BY <1>8 DEF Performs, UploadPart
  <2>2. CASE ~ Store!NoSuchUpload(r.upload, a, result)
    <3>1. /\ Store!IsOpen(r.upload, a)
          /\ uploads' = [uploads EXCEPT
                           ![r.upload].parts = Store!With(@, r.number, r.body)]
          /\ UNCHANGED objects
      BY <2>1, <2>2 DEF Store!Part
    <3>2. r.upload \in Uploads /\ uploads[r.upload] \in UploadRecords
      BY <1>8, ExecutorAssumption DEF StoreOK
    <3>3. Store!With(uploads[r.upload].parts, r.number, r.body) \in UploadParts
      BY <1>8, <3>2, PartFacts, ContentFacts DEF UploadRecords
    <3> DEFINE x == [uploads[r.upload] EXCEPT
                       !.parts = Store!With(@, r.number, r.body)]
    <3>4. x \in UploadRecords /\ x.at = uploads[r.upload].at
      BY <3>2, <3>3 DEF UploadRecords
    <3>5. x.at \in Range(Address)
      BY <1>0, <3>1, <3>4 DEF Store!IsOpen
    <3>6. uploads' = [uploads EXCEPT ![r.upload] = x]
      BY <3>1
    <3> QED  BY <3>1, <3>2, <3>4, <3>5, <3>6, UploadType DEF StoreOK
  <2> QED  BY <1>7, <2>2
<1>9. Store!Gone \in UploadRecords /\ Store!Gone.state = "gone"
  BY PartFacts DEF Store!Gone, Store!Unused, UploadRecords
<1>10. CASE r.op = "complete"
  <2>1. Store!Complete(a, r.upload, r.list, result)
    BY <1>10 DEF Performs, CompleteMultipartUpload
  <2>2. CASE UNCHANGED <<objects, uploads>>
    BY <1>1, <2>2
  <2>3. CASE ~ UNCHANGED <<objects, uploads>>
    <3>1. /\ objects' = [objects EXCEPT
                           ![a] = [i \in DOMAIN r.list |-> r.list[i].body]]
          /\ uploads' = [uploads EXCEPT ![r.upload] = Store!Gone]
      BY <2>1, <2>3 DEF Store!Complete, Store!NoSuchUpload
    <3>2. objects' \in [Addresses -> Contents]
      BY <1>0, <1>10, <3>1, ContentFacts DEF StoreOK
    <3>3. r.upload \in Uploads
      BY <1>10, ExecutorAssumption
    <3> QED  BY <1>9, <3>1, <3>2, <3>3, UploadType
  <2> QED  BY <2>2, <2>3
<1>11. CASE r.op = "abort"
  <2>1. Store!Abort(a, r.upload, result)
    BY <1>11 DEF Performs, AbortMultipartUpload
  <2>2. CASE ~ Store!NoSuchUpload(r.upload, a, result)
    <3>1. UNCHANGED objects /\ uploads' = [uploads EXCEPT ![r.upload] = Store!Gone]
      BY <2>1, <2>2 DEF Store!Abort
    <3>2. r.upload \in Uploads
      BY <1>11, ExecutorAssumption
    <3> QED  BY <1>9, <3>1, <3>2, UploadType DEF StoreOK
  <2> QED  BY <1>7, <2>2
<1> QED  BY <1>2, <1>3, <1>4, <1>5, <1>6, <1>8, <1>10, <1>11,
            ExecutorAssumption DEF Operations

Calls ==
    [request : Requests \cup {NoRequest}, attempt : 0..MaxAttempts,
     result  : {Nothing} \cup [code : Codes, read : Contents \cup Uploads]]

\* What TypeOK says of the calls.
CallsOK ==
    /\ pending \in [Clients -> Calls]
    /\ \A c \in Clients : pending[c].request = NoRequest => pending[c] = Idle
    /\ late \subseteq {r \in Requests : CanBeSent(r)}

\* TypeOK is what is said of the backends and what is said of the calls.
LEMMA TypeOKParts == TypeOK <=> StoreOK /\ CallsOK
  BY DEF TypeOK, StoreOK, CallsOK, UploadRecords, UploadParts, Calls

\* A call may be replaced by another, and one may be added to the late ones.
LEMMA CallsType ==
    ASSUME CallsOK, NEW c \in Clients, NEW x \in Calls,
           x.request = NoRequest => x = Idle,
           pending' = [pending EXCEPT ![c] = x],
           late' \subseteq {r \in Requests : CanBeSent(r)}
    PROVE  CallsOK'
<1>1. Idle' = Idle /\ \A r \in Requests : CanBeSent(r)' <=> CanBeSent(r)
  BY DEF Idle, CanBeSent
<1> QED  BY <1>1 DEF CallsOK

\* A client without a request is a call that has not begun.
LEMMA IdleType == Idle \in Calls
  BY ExecutorAssumption DEF Idle, Calls

\* TypeOK holds at first.
LEMMA InitType == Init => TypeOK
<1> SUFFICES ASSUME Init PROVE StoreOK /\ CallsOK
  BY TypeOKParts
<1>1. Store!Unused \in UploadRecords /\ Store!Unused.state = "unused"
  BY PartFacts DEF Store!Unused, UploadRecords
<1>2. StoreOK
  BY <1>1, ContentFacts DEF Init, StoreOK
<1>3. CallsOK
  BY IdleType DEF Init, CallsOK
<1> QED  BY <1>2, <1>3

\* Every step of the executor and the backends keeps the types.
LEMMA TypeStep == TypeOK /\ [Next]_vars => TypeOK'
<1> SUFFICES ASSUME StoreOK, CallsOK, [Next]_vars PROVE StoreOK' /\ CallsOK'
  BY TypeOKParts, PTL
<1>1. ASSUME UNCHANGED <<objects, uploads>> PROVE StoreOK'
  BY <1>1 DEF StoreOK, UploadRecords
<1>2. ASSUME NEW c \in Clients, pending[c] # Idle
      PROVE  /\ pending[c] \in Calls /\ pending[c].request \in Requests
             /\ pending[c].request # NoRequest
  BY <1>2, ExecutorAssumption DEF CallsOK, Calls
<1>3. ASSUME NEW c \in Clients, NEW answer, Reply(c, answer),
             late' \subseteq {r \in Requests : CanBeSent(r)}
      PROVE  CallsOK'
  BY <1>3, IdleType, CallsType DEF Reply
<1>4. ASSUME NEW c \in Clients, NEW r \in Requests, Ask(c, r)
      PROVE  StoreOK' /\ CallsOK'
  <2>1. [request |-> r, attempt |-> 1, result |-> Nothing] \in Calls
    BY IdleType, ExecutorAssumption DEF Calls
  <2>2. r # NoRequest
    BY ExecutorAssumption
  <2> QED  BY <1>1, <1>4, <2>1, <2>2, CallsType DEF Ask, CallsOK
<1>5. ASSUME NEW c \in Clients, Refuse(c) PROVE StoreOK' /\ CallsOK'
  BY <1>1, <1>3, <1>5 DEF Refuse, CallsOK
<1>6. ASSUME NEW c \in Clients, Perform(c) PROVE StoreOK' /\ CallsOK'
  <2>1. PICK result \in Results(pending[c].request) :
          /\ Performs(pending[c].request, result)
          /\ pending' = [pending EXCEPT ![c].result = result]
    BY <1>6 DEF Perform
  <2>2. pending[c].request \in Requests /\ pending[c].request.key \in Routable
    BY <1>2, <1>6 DEF Perform, CanBeSent
  <2>3. StoreOK'
    BY <2>1, <2>2, StoreStep
  <2>4. result \in [code : Codes, read : Contents \cup Uploads]
    BY <2>2, AddressFacts, ContentFacts DEF Results, StoreOK, Codes
  <2> DEFINE x == [pending[c] EXCEPT !.result = result]
  <2>5. x \in Calls /\ x.request # NoRequest
    BY <1>2, <1>6, <2>4 DEF Calls, Perform
  <2>6. CallsOK'
    BY <1>6, <2>1, <2>5, CallsType DEF Perform, CallsOK
  <2> QED  BY <2>3, <2>6
<1>7. ASSUME NEW c \in Clients, Deliver(c) PROVE StoreOK' /\ CallsOK'
  BY <1>1, <1>3, <1>7 DEF Deliver, CallsOK
<1>8. ASSUME NEW c \in Clients, GivesUp(c)
      PROVE  late' \subseteq {r \in Requests : CanBeSent(r)}
  BY <1>2, <1>8 DEF GivesUp, CallsOK
<1>9. ASSUME NEW c \in Clients, Retry(c) PROVE StoreOK' /\ CallsOK'
  <2> DEFINE x == [pending[c] EXCEPT !.attempt = @ + 1, !.result = Nothing]
  <2>1. pending[c] \in Calls /\ pending[c].request # NoRequest
    BY <1>2, <1>9 DEF Retry, GivesUp
  <2>2. pending[c].attempt + 1 \in 0..MaxAttempts
    BY <1>9, <2>1, ExecutorAssumption DEF Retry, Calls
  <2>3. x \in Calls /\ x.request # NoRequest
    BY <2>1, <2>2, IdleType DEF Calls
  <2>4. pending' = [pending EXCEPT ![c] = x]
    BY <1>9 DEF Retry, CallsOK
  <2> QED  BY <1>1, <1>8, <1>9, <2>3, <2>4, CallsType DEF Retry
<1>10. ASSUME NEW c \in Clients, Fail(c) PROVE StoreOK' /\ CallsOK'
  BY <1>1, <1>3, <1>8, <1>10 DEF Fail
<1>11. ASSUME NEW r \in late, PerformLate(r) PROVE StoreOK' /\ CallsOK'
  <2>1. r \in Requests /\ r.key \in Routable
    BY DEF CallsOK, CanBeSent
  <2> QED  BY <1>11, <2>1, StoreStep DEF PerformLate, CallsOK
<1>12. CASE UNCHANGED vars
  BY <1>1, <1>12 DEF vars, CallsOK
<1> QED  BY <1>4, <1>5, <1>6, <1>7, <1>9, <1>10, <1>11, <1>12 DEF Next

\* Every variable stays in its range: Executor.TypeOK.
THEOREM TypeCorrect == Spec => []TypeOK
  BY InitType, TypeStep, PTL DEF Spec

-----------------------------------------------------------------------------
(* Executor implements VirtualBucket.                                      *)

\* executeCopyObject does not unescape the key it copies to: keys copied to
\* must have no escapes for the promise to hold.
CopiesLand ==
    \A r \in Requests :
       r.op = "copy" /\ r.key \in Routable => CopyAddress[r.key] = Address[r.key]

\* An upload as clients see it.
Seen(x) ==
    [state |-> x.state, at |-> IF x.at = Absent THEN Absent ELSE KeyAt[x.at],
     parts |-> x.parts]

\* What a backend does at the address of a key, the promise does to the key.
LEMMA PutMaps ==
    ASSUME StoreOK, NEW k \in Routable, NEW v, NEW result,
           Store!Put(Address[k], v, result)
    PROVE  Promise!Virtual!Put(k, v, result)
<1>1. content' = [content EXCEPT ![k] = v]
  BY AddressFacts DEF Store!Put, content, StoreOK
<1>2. virtualUploads' = virtualUploads
  BY DEF Store!Put, virtualUploads
<1> QED
  BY <1>1, <1>2 DEF Store!Put, Promise!Virtual!Put, Store!Ok, Promise!Virtual!Ok

\* Nothing changes for clients when nothing changes at the backends.
LEMMA SameMaps ==
    ASSUME UNCHANGED <<objects, uploads>>
    PROVE  UNCHANGED <<content, virtualUploads>>
  BY DEF content, virtualUploads

\* A change of one upload is seen as a change of that upload.
LEMMA UploadMaps ==
    ASSUME StoreOK, NEW u \in Uploads, NEW x, uploads' = [uploads EXCEPT ![u] = x]
    PROVE  virtualUploads' = [virtualUploads EXCEPT ![u] = Seen(x)]
  BY DEF StoreOK, virtualUploads, Seen

\* An upload is open for a key when it is open at the key's address.
LEMMA OpenMaps ==
    ASSUME StoreOK, NEW u \in Uploads, NEW k \in Routable
    PROVE  /\ Promise!Virtual!IsOpen(u, k) <=> Store!IsOpen(u, Address[k])
           /\ virtualUploads[u] = Seen(uploads[u])
<1>1. virtualUploads[u] = Seen(uploads[u])
  BY DEF virtualUploads, Seen
<1>2. CASE uploads[u].state = "open"
  <2>1. uploads[u].at \in Range(Address)
    BY <1>2 DEF StoreOK
  <2>2. virtualUploads[u].state = "open" /\ virtualUploads[u].at = KeyAt[uploads[u].at]
    BY <1>1, <1>2, <2>1, AddressFacts DEF Seen
  <2>3. KeyAt[uploads[u].at] = k <=> uploads[u].at = Address[k]
    BY <2>1, AddressFacts
  <2> QED  BY <1>1, <1>2, <2>2, <2>3 DEF Store!IsOpen, Promise!Virtual!IsOpen
<1>3. CASE uploads[u].state # "open"
  BY <1>1, <1>3 DEF Store!IsOpen, Promise!Virtual!IsOpen, Seen
<1> QED  BY <1>1, <1>2, <1>3

\* What a request does at its backend is what the promise lets it do.
LEMMA EffectMaps ==
    ASSUME CopiesLand, StoreOK, NEW r \in Requests, r.key \in Routable,
           NEW result, Performs(r, result)
    PROVE  Promise!Effect(r, result)
<1> DEFINE k == r.key  a == Address[r.key]
<1>1. CASE r.op = "get"
  <2>1. Store!Get(a, result)
    BY <1>1 DEF Performs, GetObject
  <2>2. content[k] = objects[a]
    BY DEF content
  <2>3. Promise!Virtual!Get(k, result)
    BY <2>1, <2>2, SameMaps DEF Store!Get, Promise!Virtual!Get, Store!Ok,
       Store!Fault, Promise!Virtual!Ok, Promise!Virtual!Fault
  <2> QED  BY <1>1, <2>3 DEF Promise!Effect
<1>2. CASE r.op = "put"
  <2>1. Store!Put(a, <<r.body>>, result)
    BY <1>2 DEF Performs, PutObject
  <2> QED  BY <1>2, <2>1, PutMaps DEF Promise!Effect
<1>3. CASE r.op = "delete"
  <2>1. Store!Put(a, Absent, result)
    BY <1>3 DEF Performs, DeleteObject
  <2> QED  BY <1>3, <2>1, PutMaps DEF Promise!Effect
<1>4. CASE r.op = "copy"
  <2>1. PICK found \in Source(r) : Store!Copy(found, a, result)
    BY <1>4 DEF Performs, CopyObject, CopiesLand
  <2>2. found \in IF r.source \in Routable THEN {content[r.source]}
                  ELSE Stray \cup {Absent}
    BY <2>1 DEF Source, content
  <2>3. Promise!Virtual!Copy(found, k, result)
    <3>1. CASE found = Absent
      BY <2>1, <3>1, SameMaps DEF Store!Copy, Promise!Virtual!Copy, Store!Fault,
         Promise!Virtual!Fault
    <3>2. CASE found # Absent
      BY <2>1, <3>2, PutMaps DEF Store!Copy, Promise!Virtual!Copy
    <3> QED  BY <3>1, <3>2
  <2> QED  BY <1>4, <2>2, <2>3 DEF Promise!Effect
<1>5. CASE r.op = "create"
  <2>1. Store!Create(a, result)
    BY <1>5 DEF Performs, CreateMultipartUpload
  <2> DEFINE x == [state |-> "open", at |-> a, parts |-> << >>]
  <2>2. PICK u \in Uploads : /\ uploads[u].state = "unused"
                             /\ uploads' = [uploads EXCEPT ![u] = x]
                             /\ result = Store!Ok(u)
                             /\ UNCHANGED objects
    BY <2>1 DEF Store!Create
  <2>3. Seen(x) = [state |-> "open", at |-> k, parts |-> << >>]
    BY AddressFacts DEF Seen
  <2>4. virtualUploads[u].state = "unused"
    BY <2>2 DEF virtualUploads
  <2>5. virtualUploads' = [virtualUploads EXCEPT
                             ![u] = [state |-> "open", at |-> k, parts |-> << >>]]
    BY <2>2, <2>3, UploadMaps
  <2>6. UNCHANGED content
    BY <2>2 DEF content
  <2>7. Promise!Virtual!Create(k, result)
    BY <2>2, <2>4, <2>5, <2>6
       DEF Promise!Virtual!Create, Store!Ok, Promise!Virtual!Ok
  <2> QED  BY <1>5, <2>7 DEF Promise!Effect
<1>6. ASSUME NEW u \in Uploads, Store!NoSuchUpload(u, a, result)
      PROVE  Promise!Virtual!NoSuchUpload(u, k, result)
  BY <1>6, OpenMaps, SameMaps DEF Store!NoSuchUpload, Promise!Virtual!NoSuchUpload,
     Store!Fault, Promise!Virtual!Fault
<1>7. Seen(Store!Gone) = Promise!Virtual!Gone
  BY DEF Seen, Store!Gone, Store!Unused, Promise!Virtual!Gone, Promise!Virtual!Unused
<1>8. CASE r.op = "part"
  <2>1. Store!Part(a, r.upload, r.number, r.body, result) /\ r.upload \in Uploads
    BY <1>8, ExecutorAssumption DEF Performs, UploadPart
  <2>2. CASE Store!NoSuchUpload(r.upload, a, result)
    BY <1>6, <1>8, <2>1, <2>2 DEF Promise!Effect, Promise!Virtual!Part
  <2>3. CASE ~ Store!NoSuchUpload(r.upload, a, result)
    <3> DEFINE x == [uploads[r.upload] EXCEPT
                       !.parts = Store!With(@, r.number, r.body)]
               v == virtualUploads[r.upload]
    <3>1. /\ Store!IsOpen(r.upload, a)
          /\ uploads' = [uploads EXCEPT ![r.upload] = x]
          /\ result = Store!Ok(Absent)
          /\ UNCHANGED objects
      BY <2>1, <2>3 DEF Store!Part
    <3>2. uploads[r.upload] \in UploadRecords
      BY <2>1 DEF StoreOK
    <3>3. /\ x.state = uploads[r.upload].state /\ x.at = uploads[r.upload].at
          /\ x.parts = Store!With(uploads[r.upload].parts, r.number, r.body)
      BY <3>2 DEF UploadRecords
    <3>4. v = Seen(uploads[r.upload])
      BY <2>1, OpenMaps
    <3>5. v.parts = uploads[r.upload].parts
      BY <3>4 DEF Seen
    <3>6. Seen(x) = [v EXCEPT !.parts = Store!With(@, r.number, r.body)]
      BY <3>3, <3>4 DEF Seen
    <3>7. Store!With(v.parts, r.number, r.body)
             = Promise!Virtual!With(v.parts, r.number, r.body)
      BY DEF Store!With, Promise!Virtual!With
    <3>8. virtualUploads' = [virtualUploads EXCEPT
              ![r.upload].parts = Promise!Virtual!With(@, r.number, r.body)]
      BY <2>1, <3>1, <3>6, <3>7, UploadMaps
    <3>9. UNCHANGED content
      BY <3>1 DEF content
    <3>10. Promise!Virtual!IsOpen(r.upload, k)
      BY <2>1, <3>1, OpenMaps
    <3>11. Promise!Virtual!Part(k, r.upload, r.number, r.body, result)
      BY <3>1, <3>8, <3>9, <3>10
         DEF Promise!Virtual!Part, Store!Ok, Promise!Virtual!Ok
    <3> QED  BY <1>8, <3>11 DEF Promise!Effect
  <2> QED  BY <2>2, <2>3
<1>9. CASE r.op = "complete"
  <2> DEFINE u == r.upload
             list == r.list
             Holds(part) == /\ part.number \in DOMAIN uploads[u].parts
                            /\ uploads[u].parts[part.number] = part.body
  <2>1. Store!Complete(a, u, list, result) /\ u \in Uploads
    BY <1>9, ExecutorAssumption DEF Performs, CompleteMultipartUpload
  <2>2. virtualUploads[u].parts = uploads[u].parts
    BY <2>1 DEF virtualUploads
  <2>3. CASE Store!NoSuchUpload(u, a, result)
    BY <1>6, <1>9, <2>1, <2>3 DEF Promise!Effect, Promise!Virtual!Complete
  <2>4. CASE /\ Store!IsOpen(u, a)
             /\ \E i \in DOMAIN list : ~Holds(list[i])
             /\ result = Store!Fault("InvalidPart")
             /\ UNCHANGED <<objects, uploads>>
    <3>1. Promise!Virtual!Complete(k, u, list, result)
      BY <2>1, <2>2, <2>4, OpenMaps, SameMaps
         DEF Promise!Virtual!Complete, Store!Fault, Promise!Virtual!Fault
    <3> QED  BY <1>9, <3>1 DEF Promise!Effect
  <2>5. CASE /\ Store!IsOpen(u, a)
             /\ \A i \in DOMAIN list : Holds(list[i])
             /\ objects' = [objects EXCEPT
                              ![a] = [i \in DOMAIN list |-> list[i].body]]
             /\ uploads' = [uploads EXCEPT ![u] = Store!Gone]
             /\ result = Store!Ok(Absent)
    <3>1. content' = [content EXCEPT ![k] = [i \in DOMAIN list |-> list[i].body]]
      <4>1. \A j \in Routable : Address[j] \in Addresses
        BY AddressFacts
      <4>2. \A j \in Routable : Address[j] = a <=> j = k
        BY AddressFacts
      <4>3. objects \in [Addresses -> Contents]
        BY DEF StoreOK
      <4> QED  BY <2>5, <4>1, <4>2, <4>3 DEF content
    <3>2. virtualUploads' = [virtualUploads EXCEPT ![u] = Promise!Virtual!Gone]
      BY <1>7, <2>1, <2>5, UploadMaps
    <3>3. Promise!Virtual!IsOpen(u, k)
      BY <2>1, <2>5, OpenMaps
    <3>4. Promise!Virtual!Complete(k, u, list, result)
      BY <2>2, <2>5, <3>1, <3>2, <3>3
         DEF Promise!Virtual!Complete, Store!Ok, Promise!Virtual!Ok
    <3> QED  BY <1>9, <3>4 DEF Promise!Effect
  <2> QED  BY <2>1, <2>3, <2>4, <2>5 DEF Store!Complete
<1>10. CASE r.op = "abort"
  <2>1. Store!Abort(a, r.upload, result) /\ r.upload \in Uploads
    BY <1>10, ExecutorAssumption DEF Performs, AbortMultipartUpload
  <2>2. CASE Store!NoSuchUpload(r.upload, a, result)
    BY <1>6, <1>10, <2>1, <2>2 DEF Promise!Effect, Promise!Virtual!Abort
  <2>3. CASE ~ Store!NoSuchUpload(r.upload, a, result)
    <3>1. /\ Store!IsOpen(r.upload, a)
          /\ uploads' = [uploads EXCEPT ![r.upload] = Store!Gone]
          /\ result = Store!Ok(Absent)
          /\ UNCHANGED objects
      BY <2>1, <2>3 DEF Store!Abort
    <3>2. virtualUploads' = [virtualUploads EXCEPT ![r.upload] = Promise!Virtual!Gone]
      BY <1>7, <2>1, <3>1, UploadMaps
    <3>3. Promise!Virtual!IsOpen(r.upload, k) /\ UNCHANGED content
      BY <2>1, <3>1, OpenMaps DEF content
    <3>4. Promise!Virtual!Abort(k, r.upload, result)
      BY <3>1, <3>2, <3>3
         DEF Promise!Virtual!Abort, Store!Ok, Promise!Virtual!Ok
    <3> QED  BY <1>10, <3>4 DEF Promise!Effect
  <2> QED  BY <2>2, <2>3
<1> QED  BY <1>1, <1>2, <1>3, <1>4, <1>5, <1>8, <1>9, <1>10,
            ExecutorAssumption DEF Operations

\* The executor begins where the promise does.
LEMMA InitMaps == Init => Promise!Init
<1> SUFFICES ASSUME Init PROVE Promise!Init
  OBVIOUS
<1>1. content = [k \in Routable |-> Absent]
  BY AddressFacts DEF Init, content
<1>2. virtualUploads = [u \in Uploads |-> Promise!Virtual!Unused]
  BY DEF Init, virtualUploads, Store!Unused, Promise!Virtual!Unused
<1>3. asked = [c \in Clients |-> Promise!Idle]
  BY DEF Init, asked, Idle, Promise!Idle, Nothing, Promise!Nothing
<1>4. late = {} /\ reply = Promise!Nothing
  BY DEF Init, Nothing, Promise!Nothing
<1> QED  BY <1>1, <1>2, <1>3, <1>4 DEF Promise!Init

\* Every step of the executor and the backends is a step of the promise, or
\* changes nothing that clients can tell.
LEMMA StepMaps ==
    ASSUME CopiesLand, TypeOK, [Next]_vars
    PROVE  [Promise!Next]_(Promise!vars)
<1> USE TypeOKParts
<1>1. Promise!Nothing = Nothing /\ StoreOK /\ CallsOK
  BY DEF Nothing, Promise!Nothing
<1>2. ASSUME NEW c \in Clients
      PROVE  /\ asked[c].request = pending[c].request
             /\ asked[c].result = pending[c].result
             /\ \A v : [asked[c] EXCEPT !.result = v] =
                         [request |-> pending[c].request, result |-> v]
             /\ pending[c] = Idle => asked[c] = Promise!Idle
             /\ pending[c] # Idle => /\ asked[c] # Promise!Idle
                                     /\ pending[c].request \in Requests
  <2>1. asked[c] = [request |-> pending[c].request, result |-> pending[c].result]
    BY DEF asked
  <2>2. /\ asked[c].request = pending[c].request
        /\ asked[c].result = pending[c].result
    BY <2>1
  <2>3. \A v : [asked[c] EXCEPT !.result = v] =
                 [request |-> pending[c].request, result |-> v]
    BY <2>1
  <2>4. pending[c] = Idle => asked[c] = Promise!Idle
    BY <2>1 DEF Idle, Promise!Idle, Nothing, Promise!Nothing
  <2>5. pending[c] # Idle => pending[c].request # NoRequest
    BY <1>1 DEF CallsOK
  <2>6. pending[c].request \in Requests \cup {NoRequest}
    BY <1>1 DEF CallsOK, Calls
  <2>7. asked[c].request # NoRequest => asked[c] # Promise!Idle
    BY DEF Promise!Idle
  <2> QED  BY <2>2, <2>3, <2>4, <2>5, <2>6, <2>7
<1>3. ASSUME NEW c \in Clients, NEW x, pending' = [pending EXCEPT ![c] = x]
      PROVE  asked' = [asked EXCEPT ![c] = [request |-> x.request,
                                            result  |-> x.result]]
  <2>1. DOMAIN pending = Clients
    BY <1>1 DEF CallsOK
  <2>2. \A d \in Clients : pending'[d] = IF d = c THEN x ELSE pending[d]
    BY <1>3, <2>1
  <2>3. asked' = [d \in Clients |-> [request |-> pending'[d].request,
                                    result  |-> pending'[d].result]]
    BY DEF asked
  <2> QED  BY <2>2, <2>3 DEF asked
<1>4. ASSUME NEW c \in Clients, NEW ans, Reply(c, ans)
      PROVE  asked' = [asked EXCEPT ![c] = Promise!Idle] /\ reply' = ans
  <2>1. Promise!Idle = [request |-> Idle.request, result |-> Idle.result]
    BY <1>1 DEF Idle, Promise!Idle
  <2> QED  BY <1>3, <1>4, <2>1 DEF Reply
<1>5. ASSUME NEW c \in Clients, NEW r \in Requests, Ask(c, r)
      PROVE  Promise!Ask(c, r)
  <2>1. asked[c] = Promise!Idle
    BY <1>2, <1>5 DEF Ask
  <2>2. asked' = [asked EXCEPT ![c] = [request |-> r, result |-> Nothing]]
    BY <1>3, <1>5 DEF Ask
  <2> QED  BY <1>1, <1>5, <2>1, <2>2, SameMaps DEF Ask, Promise!Ask
<1>6. ASSUME NEW c \in Clients, Refuse(c) PROVE Promise!Answer(c)
  <2> DEFINE code == IF pending[c].request.key \in Routable THEN "failed"
                     ELSE "notFound"
  <2>1. /\ asked' = [asked EXCEPT ![c] = Promise!Idle]
        /\ reply' = [Nothing EXCEPT !.code = code]
    BY <1>4, <1>6 DEF Refuse
  <2>2. asked[c] # Promise!Idle /\ asked[c].request = pending[c].request
    BY <1>2, <1>6 DEF Refuse
  <2>3. UNCHANGED <<content, virtualUploads, late>>
    BY <1>6, SameMaps DEF Refuse
  <2>4. Promise!AnswerFailed(c) \/ Promise!AnswerNotFound(c)
    BY <1>1, <2>1, <2>2, <2>3 DEF Promise!AnswerFailed, Promise!AnswerNotFound
  <2> QED  BY <2>1, <2>2, <2>3, <2>4 DEF Promise!Answer
<1>7. ASSUME NEW c \in Clients, Perform(c) PROVE Promise!TakesEffect(c)
  <2>1. PICK result \in Results(pending[c].request) :
          /\ Performs(pending[c].request, result)
          /\ pending' = [pending EXCEPT ![c].result = result]
    BY <1>7 DEF Perform
  <2>2. /\ asked[c] # Promise!Idle /\ asked[c].result = Nothing
        /\ asked[c].request = pending[c].request
        /\ pending[c].request \in Requests
        /\ pending[c].request.key \in Routable
    BY <1>2, <1>7 DEF Perform, CanBeSent
  <2>3. Promise!Effect(asked[c].request, result)
    BY <1>1, <2>1, <2>2, EffectMaps
  <2>4. result \in Promise!Results(asked[c].request.key)
    BY <2>2 DEF Results, Promise!Results, content
  <2> DEFINE x == [pending[c] EXCEPT !.result = result]
  <2>5. pending[c] \in Calls
    BY <1>1 DEF CallsOK
  <2>6. x.request = pending[c].request /\ x.result = result
    BY <2>5 DEF Calls
  <2>7. pending' = [pending EXCEPT ![c] = x]
    BY <2>1
  <2>8. asked' = [asked EXCEPT ![c] = [request |-> pending[c].request,
                                       result  |-> result]]
    BY <1>3, <2>6, <2>7
  <2>9. asked' = [asked EXCEPT ![c] = [@ EXCEPT !.result = result]]
    BY <1>2, <2>8
  <2> QED  BY <1>1, <1>7, <2>2, <2>3, <2>4, <2>9 DEF Perform, Promise!TakesEffect
<1>8. ASSUME NEW c \in Clients, Deliver(c) PROVE Promise!Answer(c)
  <2> DEFINE result == pending[c].result
  <2>1. /\ asked' = [asked EXCEPT ![c] = Promise!Idle]
        /\ reply' = AnswerOf(result)
    BY <1>4, <1>8 DEF Deliver
  <2>2. asked[c] # Promise!Idle /\ asked[c].result = result
    BY <1>2, <1>8 DEF Deliver
  <2>3. UNCHANGED <<content, virtualUploads, late>>
    BY <1>8, SameMaps DEF Deliver
  <2>4. result.code \in Codes
    BY <1>1, <1>8 DEF CallsOK, Calls, Deliver
  <2>7. CASE result.code = "ok"
    BY <2>1, <2>2, <2>3, <2>7 DEF AnswerOf, Promise!Answer, Promise!AnswerOk
  <2>8. CASE result.code \in {"NoSuchKey", "NoSuchUpload"}
    BY <1>1, <2>1, <2>2, <2>3, <2>8
       DEF AnswerOf, Promise!Answer, Promise!AnswerNotFound
  <2>9. CASE result.code = "InvalidPart"
    BY <1>1, <2>1, <2>2, <2>3, <2>9
       DEF AnswerOf, Promise!Answer, Promise!AnswerFailed
  <2> QED  BY <2>4, <2>7, <2>8, <2>9 DEF Codes
<1>9. ASSUME NEW c \in Clients, Retry(c) PROVE Promise!Again(c)
  <2> DEFINE x == [pending[c] EXCEPT !.attempt = @ + 1, !.result = Nothing]
  <2>1. pending[c] # Idle /\ pending' = [pending EXCEPT ![c] = x]
    BY <1>9 DEF Retry, GivesUp
  <2>2. pending[c] \in Calls
    BY <1>1 DEF CallsOK
  <2>3. x.request = pending[c].request /\ x.result = Nothing
    BY <2>2 DEF Calls
  <2>4. asked' = [asked EXCEPT ![c] = [request |-> pending[c].request,
                                       result  |-> Nothing]]
    BY <1>3, <2>1, <2>3
  <2>5. asked' = [asked EXCEPT ![c] = [@ EXCEPT !.result = Nothing]]
    BY <1>2, <2>4
  <2>6. late' \in {late, late \cup {asked[c].request}}
    BY <1>2, <1>9 DEF Retry, GivesUp
  <2>7. UNCHANGED <<content, virtualUploads>> /\ reply' = Nothing
    BY <1>9, SameMaps DEF Retry
  <2> QED  BY <1>1, <1>2, <2>1, <2>5, <2>6, <2>7 DEF Promise!Again
<1>10. ASSUME NEW c \in Clients, Fail(c) PROVE Promise!Answer(c)
  <2>1. /\ asked' = [asked EXCEPT ![c] = Promise!Idle]
        /\ reply' = [Nothing EXCEPT !.code = "failed"]
    BY <1>4, <1>10 DEF Fail
  <2>2. asked[c] # Promise!Idle /\ asked[c].request = pending[c].request
    BY <1>2, <1>10 DEF Fail, GivesUp
  <2>3. UNCHANGED <<content, virtualUploads>>
    BY <1>10, SameMaps DEF Fail
  <2>4. late' \in {late, late \cup {asked[c].request}}
    BY <1>10, <2>2 DEF Fail, GivesUp
  <2> QED  BY <1>1, <2>1, <2>2, <2>3, <2>4 DEF Promise!Answer, Promise!AnswerFailed
<1>11. ASSUME NEW r \in late, PerformLate(r) PROVE Promise!TakesEffectLate(r)
  <2>1. r \in Requests /\ r.key \in Routable
    BY <1>1 DEF CallsOK, CanBeSent
  <2>2. PICK result \in Results(r) : Performs(r, result)
    BY <1>11 DEF PerformLate
  <2>3. Promise!Effect(r, result)
    BY <1>1, <2>1, <2>2, EffectMaps
  <2>4. result \in Promise!Results(r.key)
    BY <2>1 DEF Results, Promise!Results, content
  <2>5. UNCHANGED asked
    BY <1>11 DEF PerformLate, asked
  <2> QED
    BY <1>1, <1>11, <2>3, <2>4, <2>5 DEF PerformLate, Promise!TakesEffectLate
<1>12. CASE UNCHANGED vars
  BY <1>12, SameMaps DEF vars, Promise!vars, asked
<1> QED
  BY <1>5, <1>6, <1>7, <1>8, <1>9, <1>10, <1>11, <1>12 DEF Next, Promise!Next

\* Executor.KeepsPromise, for every value of the constants: through backends,
\* prefixes, rewriting, escapes, retries and late effects, clients see the
\* virtual bucket that VirtualBucket promises.
THEOREM ImplementsVirtualBucket ==
    ASSUME CopiesLand
    PROVE  Spec => KeepsPromise
<1>1. TypeOK /\ [Next]_vars => [Promise!Next]_(Promise!vars)
  BY StepMaps
<1> QED
  BY InitMaps, TypeCorrect, <1>1, PTL DEF Spec, KeepsPromise, Promise!VirtualBucketSpec
=============================================================================

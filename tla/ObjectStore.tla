---------------------------- MODULE ObjectStore ----------------------------
(***************************************************************************)
(* What the router relies on of an S3 store: objects at addresses and      *)
(* multipart uploads, and what each call does to them and answers.  The    *)
(* store is outside the repository; the calls are those of S3Operations    *)
(* and of the streaming uploads.  The executor uses it with the addresses  *)
(* at the backends, its promise with the keys of the virtual bucket.       *)
(*                                                                         *)
(* The content of an object is the sequence of the bodies it was made of.  *)
(* A part is known by its body, as an ETag knows it.                       *)
(***************************************************************************)
EXTENDS Naturals, Sequences

CONSTANTS
    Uploads,  \* bound of the model: the upload ids there are
    Absent    \* the content where there is no object

VARIABLES objects, uploads

Unused == [state |-> "unused", at |-> Absent, parts |-> << >>]
Gone == [Unused EXCEPT !.state = "gone"]

Ok(read) == [code |-> "ok", read |-> read]
Fault(code) == [code |-> code, read |-> Absent]

Put(a, content, result) ==
    /\ objects' = [objects EXCEPT ![a] = content]
    /\ result = Ok(Absent)
    /\ UNCHANGED uploads

Get(a, result) ==
    /\ result = IF objects[a] = Absent THEN Fault("NoSuchKey")
                ELSE Ok(objects[a])
    /\ UNCHANGED <<objects, uploads>>

\* A copy of what was found at its source.
Copy(content, a, result) ==
    IF content = Absent
    THEN result = Fault("NoSuchKey") /\ UNCHANGED <<objects, uploads>>
    ELSE Put(a, content, result)

Create(a, result) ==
    \E u \in Uploads :
       /\ uploads[u].state = "unused"
       /\ uploads' = [uploads EXCEPT
                        ![u] = [state |-> "open", at |-> a, parts |-> << >>]]
       /\ result = Ok(u)
       /\ UNCHANGED objects

IsOpen(u, a) == uploads[u].state = "open" /\ uploads[u].at = a

NoSuchUpload(u, a, result) ==
    /\ ~IsOpen(u, a)
    /\ result = Fault("NoSuchUpload")
    /\ UNCHANGED <<objects, uploads>>

With(parts, n, body) ==
    [i \in DOMAIN parts \cup {n} |-> IF i = n THEN body ELSE parts[i]]

Part(a, u, n, body, result) ==
    \/ NoSuchUpload(u, a, result)
    \/ /\ IsOpen(u, a)
       /\ uploads' = [uploads EXCEPT ![u].parts = With(@, n, body)]
       /\ result = Ok(Absent)
       /\ UNCHANGED objects

\* list[i] is a part's number and the body its ETag stands for.
Complete(a, u, list, result) ==
    LET Holds(part) == /\ part.number \in DOMAIN uploads[u].parts
                       /\ uploads[u].parts[part.number] = part.body
    IN \/ NoSuchUpload(u, a, result)
       \/ /\ IsOpen(u, a)
          /\ \E i \in DOMAIN list : ~Holds(list[i])
          /\ result = Fault("InvalidPart")
          /\ UNCHANGED <<objects, uploads>>
       \/ /\ IsOpen(u, a)
          /\ \A i \in DOMAIN list : Holds(list[i])
          /\ objects' = [objects EXCEPT
                           ![a] = [i \in DOMAIN list |-> list[i].body]]
          /\ uploads' = [uploads EXCEPT ![u] = Gone]
          /\ result = Ok(Absent)

Abort(a, u, result) ==
    \/ NoSuchUpload(u, a, result)
    \/ /\ IsOpen(u, a)
       /\ uploads' = [uploads EXCEPT ![u] = Gone]
       /\ result = Ok(Absent)
       /\ UNCHANGED objects
============================================================================

--------------------------- MODULE VirtualBucket ---------------------------
(***************************************************************************)
(* What the router promises its clients about the objects of a virtual     *)
(* bucket, without backends, addresses or attempts.                        *)
(*                                                                         *)
(* A request answered ok has taken effect on the very key it names, after  *)
(* it was asked and before it was answered.  One answered that there is no *)
(* such thing found none, or has no route and never takes effect.  One     *)
(* answered that it failed may have taken effect, or still do so later;    *)
(* so may one that the router has sent twice.  Nothing else changes.       *)
(***************************************************************************)
EXTENDS Naturals, Sequences

CONSTANTS
    Clients,
    Keys,      \* the keys of the virtual bucket that a route matches
    Requests,
    Uploads,
    Absent,
    Stray,     \* contents a copy from an unrouted key may find
    NoRequest

VARIABLES
    content,   \* content[k] of the object clients know as k
    uploads,   \* the multipart uploads, each at a key
    asked,     \* asked[c]: the request of client c, and what came of it
    ghosts,    \* requests nobody waits for that may still take effect
    answer     \* what the last step answered, if it did

vars == <<content, uploads, asked, ghosts, answer>>

Virtual == INSTANCE ObjectStore WITH objects <- content

Nothing == [code |-> "none", read |-> Absent]

Idle == [request |-> NoRequest, result |-> Nothing]

Results(k) ==
    [code : {"ok", "NoSuchKey", "NoSuchUpload", "InvalidPart"},
     read : {content[k], Absent} \cup Uploads]

\* What r does to the key it names, and its result.
Effect(r, result) ==
    CASE r.op = "get"      -> Virtual!Get(r.key, result)
      [] r.op = "put"      -> Virtual!Put(r.key, <<r.body>>, result)
      [] r.op = "delete"   -> Virtual!Put(r.key, Absent, result)
      [] r.op = "copy"     ->
           \E found \in IF r.source \in Keys THEN {content[r.source]}
                        ELSE Stray \cup {Absent} :
              Virtual!Copy(found, r.key, result)
      [] r.op = "create"   -> Virtual!Create(r.key, result)
      [] r.op = "part"     ->
           Virtual!Part(r.key, r.upload, r.number, r.body, result)
      [] r.op = "complete" ->
           Virtual!Complete(r.key, r.upload, r.list, result)
      [] r.op = "abort"    -> Virtual!Abort(r.key, r.upload, result)

-----------------------------------------------------------------------------
Init ==
    /\ content = [k \in Keys |-> Absent]
    /\ uploads = [u \in Uploads |-> Virtual!Unused]
    /\ asked = [c \in Clients |-> Idle]
    /\ ghosts = {}
    /\ answer = Nothing

Ask(c, r) ==
    /\ asked[c] = Idle
    /\ asked' = [asked EXCEPT ![c] = [request |-> r, result |-> Nothing]]
    /\ answer' = Nothing
    /\ UNCHANGED <<content, uploads, ghosts>>

TakesEffect(c) ==
    /\ asked[c] # Idle
    /\ asked[c].request.key \in Keys
    /\ asked[c].result = Nothing
    /\ \E result \in Results(asked[c].request.key) :
          /\ Effect(asked[c].request, result)
          /\ asked' = [asked EXCEPT ![c].result = result]
    /\ answer' = Nothing
    /\ UNCHANGED ghosts

\* The router tries again; what it sent before may still arrive.
Again(c) ==
    /\ asked[c] # Idle
    /\ asked' = [asked EXCEPT ![c].result = Nothing]
    /\ ghosts' \in {ghosts, ghosts \cup {asked[c].request}}
    /\ answer' = Nothing
    /\ UNCHANGED <<content, uploads>>

TakesEffectLate(r) ==
    /\ r \in ghosts
    /\ \E result \in Results(r.key) :
          Effect(r, result)
    /\ ghosts' \in {ghosts, ghosts \ {r}}
    /\ answer' = Nothing
    /\ UNCHANGED asked

AnswerOk(c) ==
    /\ asked[c].result.code = "ok"
    /\ answer' = asked[c].result
    /\ UNCHANGED ghosts

AnswerNotFound(c) ==
    /\ \/ asked[c].result.code \in {"NoSuchKey", "NoSuchUpload"}
       \/ asked[c].request.key \notin Keys
    /\ answer' = [Nothing EXCEPT !.code = "notFound"]
    /\ UNCHANGED ghosts

AnswerFailed(c) ==
    /\ answer' = [Nothing EXCEPT !.code = "failed"]
    /\ ghosts' \in {ghosts, ghosts \cup {asked[c].request}}

Answer(c) ==
    /\ asked[c] # Idle
    /\ AnswerOk(c) \/ AnswerNotFound(c) \/ AnswerFailed(c)
    /\ asked' = [asked EXCEPT ![c] = Idle]
    /\ UNCHANGED <<content, uploads>>

\* A ghost that has taken effect twice, or never will, is gone.
GhostsVanish ==
    /\ ghosts' \in SUBSET ghosts
    /\ answer' = Nothing
    /\ UNCHANGED <<content, uploads, asked>>

Next ==
    \/ \E c \in Clients :
          \/ \E r \in Requests : Ask(c, r)
          \/ TakesEffect(c) \/ Again(c) \/ Answer(c)
    \/ \E r \in ghosts : TakesEffectLate(r)
    \/ GhostsVanish

VirtualBucketSpec == Init /\ [][Next]_vars
============================================================================

----------------------------- MODULE FirstMatch -----------------------------
(***************************************************************************)
(* What routing promises (README: "first route that matches wins"): each   *)
(* question is answered from the bucket's route list alone, by the first   *)
(* route whose path matches.  There is no cache here, and no scan.         *)
(***************************************************************************)
EXTENDS Naturals, Sequences

CONSTANTS
    Callers,        \* the goroutines that ask
    Questions,      \* what they can ask: records with a bucket and a key
    Routes,         \* the route list of each configured bucket
    Matches(_, _),  \* Matches(route, key)
    Outcome(_, _)   \* Outcome(route, key): what the route makes of the key

VARIABLES question, answer

Pending == [kind |-> "pending"]

Wins(rs, i, k) == Matches(rs[i], k) /\ \A j \in 1..(i - 1) : ~Matches(rs[j], k)

Right(q, a) ==
    IF q.bucket \notin DOMAIN Routes THEN a = [kind |-> "no bucket"]
    ELSE LET rs == Routes[q.bucket]
         IN \/ \E i \in 1..Len(rs) :
                  Wins(rs, i, q.key) /\ a = Outcome(rs[i], q.key)
            \/ /\ \A i \in 1..Len(rs) : ~Matches(rs[i], q.key)
               /\ a = [kind |-> "no route"]

FirstMatchInit ==
    /\ question \in [Callers -> Questions]
    /\ answer = [g \in Callers |-> [kind |-> "idle"]]

Pose(g) ==
    /\ answer[g] # Pending
    /\ \E q \in Questions : question' = [question EXCEPT ![g] = q]
    /\ answer' = [answer EXCEPT ![g] = Pending]

Reply(g) ==
    /\ answer[g] = Pending
    /\ answer'[g] # Pending /\ Right(question[g], answer'[g])
    /\ answer' = [answer EXCEPT ![g] = answer'[g]]
    /\ UNCHANGED question

FirstMatchNext == \E g \in Callers : Pose(g) \/ Reply(g)

FirstMatchSpec == FirstMatchInit /\ [][FirstMatchNext]_<<question, answer>>
=============================================================================

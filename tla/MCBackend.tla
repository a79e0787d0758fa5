----------------------------- MODULE MCBackend -----------------------------
(***************************************************************************)
(* Backend on a small instance, and a claim of the code's own comment that *)
(* the instance refutes.                                                   *)
(***************************************************************************)
EXTENDS Backend

\* s3ops.go: "Fatal errors that should trip the breaker: ... Timeouts".  If
\* calls keep ending and all of them by the client timeout, the breaker
\* eventually opens.
TimeoutsTrip ==
    /\ []<>(reply = "timeout")
    /\ [](reply \in {"timeout", "none", "rejected"})
    => <>(cb.state = "open")
============================================================================

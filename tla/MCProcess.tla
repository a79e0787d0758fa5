----------------------------- MODULE MCProcess -----------------------------
(***************************************************************************)
(* Process on a small instance: a request to the main server and two       *)
(* health checks, so that checks overlap and each server has to drain.     *)
(***************************************************************************)
EXTENDS Process
============================================================================

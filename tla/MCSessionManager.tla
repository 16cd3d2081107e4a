-------------------------- MODULE MCSessionManager --------------------------
(***************************************************************************)
(* SessionManager alone, with timer events that come on time or late.      *)
(***************************************************************************)
EXTENDS CleanupDelay
=============================================================================

------------------------------ MODULE MCRoutes ------------------------------
(***************************************************************************)
(* Routes alone: three sessions compete for four strategies.               *)
(***************************************************************************)
EXTENDS RouteCalls
=============================================================================

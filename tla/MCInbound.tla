----------------------------- MODULE MCInbound ------------------------------
(***************************************************************************)
(* Inbound with three messages of every length that fits, in pieces of     *)
(* every size.                                                             *)
(***************************************************************************)
EXTENDS Inbound
=============================================================================

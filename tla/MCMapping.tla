----------------------------- MODULE MCMapping ------------------------------
(***************************************************************************)
(* Mapping with every configuration of two target expressions over three   *)
(* symbols and two keys, and every order of arrival.                       *)
(***************************************************************************)
EXTENDS Mapping, TLC

MappingSymmetry == Permutations(Symbols) \cup Permutations(Keys)
=============================================================================

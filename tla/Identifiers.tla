---------------------------- MODULE Identifiers ----------------------------
(***************************************************************************)
(* The identifiers the components of the FIX bridge share.                 *)
(*                                                                         *)
(* Session ids are issued by SessionManager as ++next_session_id_ from 0,  *)
(* so 0 names no session; MaxSessions bounds how many connections a        *)
(* behaviour accepts.  Strategy ids are what a client registers a route    *)
(* for; NoStrategy stands for a message that is about none.                *)
(***************************************************************************)
EXTENDS Integers

CONSTANTS
  MaxSessions,   \* bound: connections accepted during one behaviour
  StrategyIds,   \* the strategy ids clients register
  NoStrategy

ASSUME MaxSessionsAssumption == MaxSessions \in Nat
ASSUME NoStrategyAssumption == NoStrategy \notin StrategyIds

NoSession == 0
SessionIds == 1 .. MaxSessions
=============================================================================

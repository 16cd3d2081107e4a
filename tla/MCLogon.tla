------------------------------ MODULE MCLogon -------------------------------
(***************************************************************************)
(* Logon with a millisecond of three nanoseconds, and clocks of clients    *)
(* within the tolerance, at its limits and beyond them.                    *)
(***************************************************************************)
EXTENDS Logon, TLC

CONSTANTS alice, bob, trade, quote, own, other

MCUsers == alice :> [component |-> trade, password |-> own, strategy_id |-> 7]
MCUsernames == {alice, bob}
MCComponents == {trade, quote}
MCSecrets == {own, other}
MCSkews == {-6, -3, 0, 4, 5, 8}
=============================================================================

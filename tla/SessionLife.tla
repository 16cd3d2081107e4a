---------------------------- MODULE SessionLife -----------------------------
(***************************************************************************)
(* What the session manager promises about the life of a session: ids are  *)
(* handed out in order and never again, a session that dies stays dead,    *)
(* and everything dead is reaped together, later, at a clean-up.           *)
(***************************************************************************)
EXTENDS Identifiers

VARIABLE phase

Phases == {"unborn", "live", "zombie", "gone"}

InPhase(p) == {session_id \in SessionIds : phase[session_id] = p}

LifeInit == phase = [session_id \in SessionIds |-> "unborn"]

Connect(session_id) ==
  /\ phase[session_id] = "unborn"
  /\ \A earlier \in 1 .. session_id - 1 : phase[earlier] # "unborn"
  /\ phase' = [phase EXCEPT ![session_id] = "live"]

Die(session_id) ==
  /\ phase[session_id] = "live"
  /\ phase' = [phase EXCEPT ![session_id] = "zombie"]

Reap ==
  /\ InPhase("zombie") # {}
  /\ phase' = [session_id \in SessionIds |->
                 IF phase[session_id] = "zombie" THEN "gone" ELSE phase[session_id]]

LifeNext ==
  \/ \E session_id \in SessionIds : Connect(session_id) \/ Die(session_id)
  \/ Reap

(***************************************************************************)
(* LifeSafety is what is proved of the code; LifeSpec adds that the dead   *)
(* are reaped in the end.                                                  *)
(***************************************************************************)
LifeSafety == LifeInit /\ [][LifeNext]_phase
LifeSpec == LifeSafety /\ WF_phase(Reap)
=============================================================================

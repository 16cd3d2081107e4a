---------------------------- MODULE CleanupDelay ----------------------------
(***************************************************************************)
(* SessionManager with a history variable: for how many ticks each session *)
(* has been a zombie, as the timer events count them.  The variable is not *)
(* in the code and no step of SessionManager depends on it.                *)
(***************************************************************************)
EXTENDS SessionManager

VARIABLE waited

delayVars == << managerVars, waited >>

DelayInit == ManagerInit /\ waited = [session_id \in SessionIds |-> 0]

Wait(elapsed) ==
  waited' = [session_id \in SessionIds |->
               waited[session_id] + IF session_id \in zombies THEN elapsed ELSE 0]

DelayNext ==
  \/ AddSession /\ UNCHANGED waited
  \/ \E session_id \in sessions : EnterZombie(session_id) /\ UNCHANGED waited
  \/ \E elapsed \in Elapsed : TimerEvent(elapsed) /\ Wait(elapsed)

DelaySafety == DelayInit /\ [][DelayNext]_delayVars

(***************************************************************************)
(* The timer is periodic and drain() serves it on every pass.              *)
(***************************************************************************)
DelaySpec ==
  DelaySafety /\ WF_delayVars(\E elapsed \in Elapsed : TimerEvent(elapsed) /\ Wait(elapsed))

(***************************************************************************)
(* A closed session keeps its memory and its connection until the clean-up *)
(* that is due CLEANUP_FREQUENCY after the one before: by the clock of the *)
(* timer it waits that long at most and is destroyed by the next event.    *)
(* Neither new zombies nor events before the deadline put it off.          *)
(***************************************************************************)
ClosedSoonDestroyed ==
  /\ waited \in [SessionIds -> 0 .. CleanupFrequency + MaxElapsed]
  /\ \A session_id \in sessions : waited[session_id] <= CleanupFrequency
=============================================================================

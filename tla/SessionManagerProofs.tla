------------------------ MODULE SessionManagerProofs ------------------------
(***************************************************************************)
(* Proofs about SessionManager: zombies_ is exactly the set of sessions    *)
(* waiting to be destroyed, and sessions live the life of SessionLife.     *)
(***************************************************************************)
EXTENDS SessionManager, TLAPS

ManagerInv == ManagerTypeOK /\ ZombiesTracked /\ OnlyZombiesLeave

LEMMA ManagerInitInv == ManagerInit => ManagerInv
BY MaxSessionsAssumption, CleanupAssumption
   DEF ManagerInit, ManagerInv, ManagerTypeOK, ZombiesTracked, OnlyZombiesLeave,
       IsZombie, SessionIds, States

LEMMA AddSessionInv == ManagerInv /\ AddSession => ManagerInv'
BY MaxSessionsAssumption, CleanupAssumption
   DEF ManagerInv, ManagerTypeOK, ZombiesTracked, OnlyZombiesLeave, AddSession,
       IsZombie, SessionIds, States

LEMMA EnterZombieInv ==
  ASSUME ManagerInv, NEW session_id \in sessions, EnterZombie(session_id)
  PROVE  ManagerInv'
<1>1. CASE IsZombie(session_id)
  BY <1>1 DEF EnterZombie, managerVars, ManagerInv, ManagerTypeOK, ZombiesTracked,
              OnlyZombiesLeave, IsZombie
<1>2. CASE ~ IsZombie(session_id)
  <2>1. ManagerTypeOK'
    BY <1>2 DEF EnterZombie, ManagerInv, ManagerTypeOK, States
  <2>2. \A other \in SessionIds :
          IsZombie(other)' <=> other = session_id \/ IsZombie(other)
    BY <1>2 DEF EnterZombie, ManagerInv, ManagerTypeOK, IsZombie
  <2>3. sessions \subseteq SessionIds /\ zombies' = zombies \cup {session_id}
        /\ sessions' = sessions /\ next_session_id' = next_session_id
    BY <1>2 DEF EnterZombie, ManagerInv, ManagerTypeOK
  <2>4. \A other : other \in zombies' <=> other \in sessions' /\ IsZombie(other)'
    BY <2>2, <2>3 DEF ManagerInv, ZombiesTracked
  <2>5. ZombiesTracked'
    BY <2>4 DEF ZombiesTracked
  <2>6. OnlyZombiesLeave'
    BY <2>2, <2>3 DEF ManagerInv, OnlyZombiesLeave
  <2> QED BY <2>1, <2>5, <2>6 DEF ManagerInv
<1> QED BY <1>1, <1>2

LEMMA RemoveZombiesInv ==
  ASSUME ManagerInv, RemoveZombies, UNCHANGED << next_session_id, state >>,
         next_cleanup' \in 0 .. CleanupFrequency
  PROVE  ManagerInv'
<1>1. ManagerTypeOK'
  BY DEF ManagerInv, ManagerTypeOK, RemoveZombies
<1>2. \A session_id \in SessionIds : IsZombie(session_id)' <=> IsZombie(session_id)
  BY DEF IsZombie
<1>3. \A session_id \in SessionIds :
        session_id \in sessions' <=> session_id \in sessions /\ ~ IsZombie(session_id)
  BY DEF RemoveZombies, ManagerInv, ManagerTypeOK, ZombiesTracked
<1>4. ZombiesTracked'
  <2>1. \A session_id \in sessions' : ~ IsZombie(session_id)'
    BY <1>1, <1>2, <1>3 DEF ManagerTypeOK
  <2> QED BY <2>1 DEF RemoveZombies, ZombiesTracked
<1>5. sessions' \subseteq 1 .. next_session_id'
  BY DEF ManagerInv, OnlyZombiesLeave, RemoveZombies
<1>6. \A session_id \in SessionIds \ sessions' :
        IsZombie(session_id)' <=> session_id <= next_session_id'
  BY <1>2, <1>3 DEF ManagerInv, ManagerTypeOK, OnlyZombiesLeave, SessionIds
<1> QED BY <1>1, <1>4, <1>5, <1>6 DEF ManagerInv, OnlyZombiesLeave

LEMMA TimerEventInv ==
  ASSUME ManagerInv, NEW elapsed \in Elapsed, TimerEvent(elapsed)
  PROVE  ManagerInv'
<1>1. next_cleanup' \in 0 .. CleanupFrequency
  BY CleanupAssumption DEF ManagerInv, ManagerTypeOK, TimerEvent, Elapsed
<1>2. CASE next_cleanup < elapsed
  BY <1>1, <1>2, RemoveZombiesInv DEF TimerEvent
<1>3. CASE ~ next_cleanup < elapsed
  BY <1>1, <1>3
     DEF TimerEvent, ManagerInv, ManagerTypeOK, ZombiesTracked, OnlyZombiesLeave, IsZombie
<1> QED BY <1>2, <1>3

LEMMA ManagerStepInv ==
  ManagerInv /\ [ManagerNext]_managerVars => ManagerInv'
<1> SUFFICES ASSUME ManagerInv, [ManagerNext]_managerVars
             PROVE  ManagerInv'
  OBVIOUS
<1>1. CASE ManagerNext
  BY <1>1, AddSessionInv, EnterZombieInv, TimerEventInv DEF ManagerNext
<1>2. CASE UNCHANGED managerVars
  BY <1>2 DEF ManagerInv, ManagerTypeOK, ZombiesTracked, OnlyZombiesLeave, IsZombie,
              managerVars
<1> QED BY <1>1, <1>2

(***************************************************************************)
(* For any number of connections: zombies_ holds exactly the sessions that *)
(* reached ZOMBIE and still exist, and only those ever leave sessions_.    *)
(***************************************************************************)
THEOREM ManagerInvariant ==
  ManagerSafety => [](ManagerTypeOK /\ ZombiesTracked /\ OnlyZombiesLeave)
<1>1. ManagerSafety => []ManagerInv
  BY ManagerInitInv, ManagerStepInv, PTL DEF ManagerSafety
<1> QED BY <1>1, PTL DEF ManagerInv

(***************************************************************************)
(* The session table, the zombie set and the clean-up deadline are typed.  *)
(***************************************************************************)
THEOREM ManagerTypeCorrect == ManagerSafety => []ManagerTypeOK
BY ManagerInvariant, PTL

(***************************************************************************)
(* A session that is gone died first, and no id is given out twice.        *)
(***************************************************************************)
THEOREM OnlyZombiesEverLeave == ManagerSafety => []OnlyZombiesLeave
BY ManagerInvariant, PTL

-----------------------------------------------------------------------------
Phase == [session_id \in SessionIds |-> PhaseOf(session_id)]

LEMMA AddSessionRefines ==
  ASSUME ManagerInv, AddSession
  PROVE  Life!Connect(next_session_id + 1) /\ next_session_id + 1 \in SessionIds
<1> DEFINE born == next_session_id + 1
<1>1. born \in SessionIds /\ born \notin sessions /\ ~ IsZombie(born)
  BY MaxSessionsAssumption
     DEF ManagerInv, ManagerTypeOK, ZombiesTracked, OnlyZombiesLeave, AddSession, SessionIds
<1>2. Phase[born] = "unborn"
  BY <1>1 DEF Phase, PhaseOf, ManagerInv, ManagerTypeOK
<1>3. \A earlier \in 1 .. born - 1 : Phase[earlier] # "unborn"
  BY <1>1, MaxSessionsAssumption DEF Phase, PhaseOf, ManagerInv, ManagerTypeOK, SessionIds
<1>4. ASSUME NEW session_id \in SessionIds
      PROVE  PhaseOf(session_id)' =
               IF session_id = born THEN "live" ELSE PhaseOf(session_id)
  BY <1>1 DEF PhaseOf, AddSession, IsZombie, ManagerInv, ManagerTypeOK, SessionIds
<1>5. Phase' = [Phase EXCEPT ![born] = "live"]
  BY <1>1, <1>4 DEF Phase
<1> QED BY <1>1, <1>2, <1>3, <1>5 DEF Life!Connect, Phase

LEMMA EnterZombieRefines ==
  ASSUME ManagerInv, NEW session_id \in sessions, EnterZombie(session_id)
  PROVE  Life!Die(session_id) \/ UNCHANGED Phase
<1>1. CASE IsZombie(session_id)
  BY <1>1 DEF EnterZombie, managerVars, Phase, PhaseOf, IsZombie
<1>2. CASE ~ IsZombie(session_id)
  <2>1. session_id \in SessionIds /\ session_id <= next_session_id
    BY DEF ManagerInv, ManagerTypeOK, OnlyZombiesLeave
  <2>2. Phase[session_id] = "live"
    BY <1>2, <2>1 DEF Phase, PhaseOf, ManagerInv, ManagerTypeOK, SessionIds
  <2>3. ASSUME NEW other \in SessionIds
        PROVE  PhaseOf(other)' =
                 IF other = session_id THEN "zombie" ELSE PhaseOf(other)
    <3>1. IsZombie(other)' <=> other = session_id \/ IsZombie(other)
      BY <1>2 DEF EnterZombie, ManagerInv, ManagerTypeOK, IsZombie
    <3> QED BY <1>2, <2>1, <3>1
            DEF PhaseOf, EnterZombie, ManagerInv, ManagerTypeOK, SessionIds
  <2>4. Phase' = [Phase EXCEPT ![session_id] = "zombie"]
    BY <2>1, <2>3 DEF Phase
  <2> QED BY <2>2, <2>4 DEF Life!Die, Phase
<1> QED BY <1>1, <1>2

LEMMA TimerEventRefines ==
  ASSUME ManagerInv, NEW elapsed \in Elapsed, TimerEvent(elapsed)
  PROVE  Life!Reap \/ UNCHANGED Phase
<1>1. CASE RemoveZombies /\ zombies # {}
  <2>1. Life!InPhase("zombie") # {}
    <3>1. PICK session_id \in zombies : TRUE
      BY <1>1
    <3>2. session_id \in SessionIds /\ PhaseOf(session_id) = "zombie"
      BY <3>1 DEF PhaseOf, ManagerInv, ManagerTypeOK, ZombiesTracked, OnlyZombiesLeave
    <3> QED BY <3>2 DEF Life!InPhase, Life!SessionIds, SessionIds
  <2>2. ASSUME NEW session_id \in SessionIds
        PROVE  PhaseOf(session_id)' =
                 IF PhaseOf(session_id) = "zombie" THEN "gone" ELSE PhaseOf(session_id)
    BY <1>1 DEF PhaseOf, TimerEvent, RemoveZombies, IsZombie, ManagerInv, ZombiesTracked
  <2>3. Phase' = [session_id \in SessionIds |->
                    IF Phase[session_id] = "zombie" THEN "gone" ELSE Phase[session_id]]
    BY <2>2 DEF Phase
  <2> QED BY <2>1, <2>3 DEF Life!Reap, Life!SessionIds, SessionIds, Phase
<1>2. CASE ~ (RemoveZombies /\ zombies # {})
  BY <1>2 DEF TimerEvent, RemoveZombies, Phase, PhaseOf, IsZombie
<1> QED BY <1>1, <1>2

LEMMA ManagerStepRefines ==
  ManagerInv /\ [ManagerNext]_managerVars => [Life!LifeNext]_Phase
<1> SUFFICES ASSUME ManagerInv, [ManagerNext]_managerVars
             PROVE  [Life!LifeNext]_Phase
  OBVIOUS
<1>1. CASE AddSession
  BY <1>1, AddSessionRefines DEF Life!LifeNext, Life!SessionIds, SessionIds
<1>2. CASE \E session_id \in sessions : EnterZombie(session_id)
  BY <1>2, EnterZombieRefines
     DEF Life!LifeNext, Life!SessionIds, SessionIds, ManagerInv, ManagerTypeOK
<1>3. CASE \E elapsed \in Elapsed : TimerEvent(elapsed)
  BY <1>3, TimerEventRefines DEF Life!LifeNext
<1>4. CASE UNCHANGED managerVars
  BY <1>4 DEF managerVars, Phase, PhaseOf, IsZombie
<1> QED BY <1>1, <1>2, <1>3, <1>4 DEF ManagerNext

(***************************************************************************)
(* Accepting, closing and cleaning up implement the safety of SessionLife: *)
(* ids in order and never again, dead stays dead, the dead leave together. *)
(***************************************************************************)
THEOREM ManagerImplementsLife == ManagerSafety => ImplementsSessionSafety
<1>1. ManagerInit => Life!LifeInit
  BY DEF ManagerInit, Life!LifeInit, Life!SessionIds, SessionIds, PhaseOf
<1>2. ManagerInv /\ [ManagerNext]_managerVars
        => [Life!LifeNext]_[session_id \in SessionIds |-> PhaseOf(session_id)]
  BY ManagerStepRefines DEF Phase
<1> QED
  BY <1>1, <1>2, ManagerInitInv, ManagerStepInv, PTL
     DEF ManagerSafety, ImplementsSessionSafety, Life!LifeSafety
=============================================================================

--------------------------- MODULE HistoryProofs ----------------------------
(***************************************************************************)
(* Proofs about the two components with a history variable.  CleanupDelay: *)
(* how long a closed session is kept, for any clean-up frequency, any      *)
(* lateness of the timer and any number of connections.  RouteCalls: that  *)
(* the routing table serves its callers as RouteOwnership promises, for    *)
(* any number of sessions and strategies.                                  *)
(***************************************************************************)
EXTENDS CleanupDelay, RouteCalls, SessionManagerProofs, RoutesProofs

(***************************************************************************)
(* What a zombie has waited and what is left of the clean-up period do not *)
(* exceed the period together; only zombies, and what was one, have waited.*)
(***************************************************************************)
DelayInv ==
  /\ waited \in [SessionIds -> 0 .. CleanupFrequency + MaxElapsed]
  /\ \A session_id \in zombies : waited[session_id] + next_cleanup <= CleanupFrequency
  /\ \A session_id \in SessionIds : ~ IsZombie(session_id) => waited[session_id] = 0

LEMMA DelayInitInv == DelayInit => ManagerInv /\ DelayInv
<1> SUFFICES ASSUME DelayInit PROVE ManagerInv /\ DelayInv
  OBVIOUS
<1>1. ManagerInv
  BY ManagerInitInv DEF DelayInit
<1>2. DelayInv
  BY CleanupAssumption DEF DelayInit, ManagerInit, DelayInv
<1> QED
  BY <1>1, <1>2

LEMMA EnterZombieDelay ==
  ASSUME ManagerInv, DelayInv, NEW session_id \in sessions, EnterZombie(session_id),
         UNCHANGED waited
  PROVE  DelayInv'
<1>1. CASE IsZombie(session_id)
  BY <1>1 DEF EnterZombie, managerVars, DelayInv, IsZombie
<1>2. CASE ~ IsZombie(session_id)
  <2>1. /\ session_id \in SessionIds /\ waited[session_id] = 0
        /\ next_cleanup \in 0 .. CleanupFrequency
    BY <1>2 DEF DelayInv, ManagerInv, ManagerTypeOK
  <2>2. /\ zombies' = zombies \cup {session_id} /\ next_cleanup' = next_cleanup
        /\ \A other \in SessionIds : IsZombie(other) => IsZombie(other)'
    BY <1>2, <2>1 DEF EnterZombie, IsZombie, ManagerInv, ManagerTypeOK
  <2> QED BY <2>1, <2>2, CleanupAssumption DEF DelayInv
<1> QED BY <1>1, <1>2

LEMMA TimerEventDelay ==
  ASSUME ManagerInv, DelayInv, NEW elapsed \in Elapsed, TimerEvent(elapsed), Wait(elapsed)
  PROVE  DelayInv'
<1>1. /\ elapsed \in 1 .. MaxElapsed /\ next_cleanup \in 0 .. CleanupFrequency
      /\ CleanupFrequency \in Nat /\ MaxElapsed \in Nat
      /\ zombies \subseteq SessionIds
  BY CleanupAssumption DEF Elapsed, ManagerInv, ManagerTypeOK
<1>2. /\ \A session_id \in SessionIds :
           waited'[session_id] = waited[session_id] + IF session_id \in zombies THEN elapsed ELSE 0
      /\ \A session_id \in SessionIds : waited[session_id] \in 0 .. CleanupFrequency + MaxElapsed
  BY DEF Wait, DelayInv
<1>3. waited' \in [SessionIds -> 0 .. CleanupFrequency + MaxElapsed]
  <2>1. ASSUME NEW session_id \in SessionIds
        PROVE  waited'[session_id] \in 0 .. CleanupFrequency + MaxElapsed
    BY <1>1, <1>2 DEF DelayInv
  <2> QED BY <2>1 DEF Wait
<1>4. \A session_id \in SessionIds : ~ IsZombie(session_id)' => waited'[session_id] = 0
  BY <1>1, <1>2 DEF DelayInv, ManagerInv, ZombiesTracked, TimerEvent, IsZombie
<1>5. \A session_id \in zombies' : waited'[session_id] + next_cleanup' <= CleanupFrequency
  <2>1. CASE next_cleanup < elapsed
    BY <2>1 DEF TimerEvent, RemoveZombies
  <2>2. CASE ~ next_cleanup < elapsed
    BY <1>1, <1>2, <2>2 DEF TimerEvent, DelayInv
  <2> QED BY <2>1, <2>2
<1> QED
  BY <1>3, <1>4, <1>5 DEF DelayInv

LEMMA DelayStepInv == ManagerInv /\ DelayInv /\ [DelayNext]_delayVars => ManagerInv' /\ DelayInv'
<1> SUFFICES ASSUME ManagerInv, DelayInv, [DelayNext]_delayVars PROVE ManagerInv' /\ DelayInv'
  OBVIOUS
<1>1. ManagerInv'
  BY ManagerStepInv DEF DelayNext, ManagerNext, delayVars
<1>2. CASE AddSession /\ UNCHANGED waited
  BY <1>1, <1>2 DEF AddSession, DelayInv, IsZombie
<1>3. CASE \E session_id \in sessions : EnterZombie(session_id) /\ UNCHANGED waited
  BY <1>1, <1>3, EnterZombieDelay
<1>4. CASE \E elapsed \in Elapsed : TimerEvent(elapsed) /\ Wait(elapsed)
  BY <1>1, <1>4, TimerEventDelay
<1>5. CASE UNCHANGED delayVars
  BY <1>1, <1>5 DEF delayVars, managerVars, DelayInv, IsZombie
<1> QED
  BY <1>2, <1>3, <1>4, <1>5 DEF DelayNext

(***************************************************************************)
(* No closed session outlives the clean-up period by more than one event   *)
(* of the timer.                                                           *)
(***************************************************************************)
THEOREM ClosedAlwaysSoonDestroyed == DelaySafety => []ClosedSoonDestroyed
<1>1. ManagerInv /\ DelayInv => ClosedSoonDestroyed
  <2> SUFFICES ASSUME ManagerInv, DelayInv, NEW session_id \in sessions
               PROVE  waited[session_id] <= CleanupFrequency
    BY DEF ClosedSoonDestroyed, DelayInv
  <2>1. /\ session_id \in SessionIds /\ next_cleanup \in 0 .. CleanupFrequency
        /\ waited[session_id] \in 0 .. CleanupFrequency + MaxElapsed
        /\ CleanupFrequency \in Nat /\ MaxElapsed \in Nat
    BY CleanupAssumption DEF ManagerInv, ManagerTypeOK, DelayInv
  <2>2. CASE IsZombie(session_id)
    BY <2>1, <2>2 DEF DelayInv, ManagerInv, ZombiesTracked
  <2>3. CASE ~ IsZombie(session_id)
    BY <2>1, <2>3 DEF DelayInv
  <2> QED BY <2>2, <2>3
<1> QED
  BY <1>1, DelayInitInv, DelayStepInv, PTL DEF DelaySafety

(***************************************************************************)
(* The history variable only watches: without it, a behaviour is one of    *)
(* SessionManager.                                                         *)
(***************************************************************************)
THEOREM WaitingOnlyWatches == DelaySafety => ManagerSafety
<1>1. [DelayNext]_delayVars => [ManagerNext]_managerVars
  BY DEF DelayNext, ManagerNext, delayVars
<1> QED
  BY <1>1, PTL DEF DelaySafety, DelayInit, ManagerSafety

-----------------------------------------------------------------------------
(* The calls of the routing table. *)

(***************************************************************************)
(* The history variable only watches: without it, a behaviour is one of    *)
(* Routes.                                                                 *)
(***************************************************************************)
THEOREM CallsOnlyWatch == CallsSpec => RoutesSpec
<1>1. [CallsNext]_callVars => [RoutesNext]_routeVars
  BY DEF CallsNext, RoutesNext, callVars
<1> QED
  BY <1>1, PTL DEF CallsSpec, CallsInit, RoutesSpec

LEMMA CallRefines ==
  ASSUME RoutesInv, [CallsNext]_callVars
  PROVE  [Ownership!OwnershipNext]_<< strategy_id_to_session_id, call >>
<1>1. ASSUME NEW session_id \in SessionIds, NEW strategy_id \in StrategyIds,
             AddRoute(session_id, strategy_id),
             Called(session_id, "add_route", strategy_id, AddRouteSucceeds(strategy_id))
      PROVE  Ownership!Add(session_id, strategy_id)
  <2>1. CASE AddRouteSucceeds(strategy_id)
    BY <1>1, <2>1 DEF AddRoute, AddRouteSucceeds, Called, Ownership!Add, Ownership!Answered,
                      Ownership!NoSession, NoSession
  <2>2. CASE ~ AddRouteSucceeds(strategy_id)
    BY <1>1, <2>2 DEF AddRoute, AddRouteSucceeds, Called, Ownership!Add, Ownership!Answered,
                      Ownership!NoSession, NoSession, routeVars
  <2> QED BY <2>1, <2>2
<1>2. ASSUME NEW session_id \in SessionIds, NEW strategy_id \in StrategyIds,
             RemoveRoute(session_id, strategy_id),
             Called(session_id, "remove_route", strategy_id,
                    RemoveRouteSucceeds(session_id, strategy_id))
      PROVE  Ownership!Remove(session_id, strategy_id)
  <2>1. CASE RemoveRouteSucceeds(session_id, strategy_id)
    BY <1>2, <2>1 DEF RemoveRoute, RemoveRouteSucceeds, Called, Ownership!Remove,
                      Ownership!Answered, Ownership!NoSession, NoSession
  <2>2. CASE ~ RemoveRouteSucceeds(session_id, strategy_id)
    BY <1>2, <2>2 DEF RemoveRoute, RemoveRouteSucceeds, Called, Ownership!Remove,
                      Ownership!Answered, routeVars
  <2> QED BY <2>1, <2>2
<1>3. ASSUME NEW session_id \in SessionIds, RemoveAllRoutes(session_id),
             Called(session_id, "remove_all_routes", NoStrategy, TRUE)
      PROVE  Ownership!RemoveAll(session_id)
  BY <1>3 DEF RoutesInv, MapsAgree, RemoveAllRoutes, Called, Ownership!RemoveAll,
              Ownership!Answered, Ownership!NoSession, NoSession
<1>4. CASE CallsNext
  BY <1>4, <1>1, <1>2, <1>3
     DEF CallsNext, Ownership!OwnershipNext, Ownership!SessionIds, SessionIds
<1>5. CASE UNCHANGED callVars
  BY <1>5 DEF callVars, routeVars
<1> QED BY <1>4, <1>5

(***************************************************************************)
(* The routing table keeps its promise to each caller: a session gets what *)
(* is free, gives up what is its own, and moves nothing of another, and    *)
(* the booleans add_route and remove_route return say which it was.        *)
(* remove_all_routes erases by the other map, so this needs MapsAgree.     *)
(***************************************************************************)
THEOREM CallsImplementOwnership == CallsSpec => ImplementsOwnership
<1>1. CallsInit => Ownership!OwnershipInit
  BY DEF CallsInit, RoutesInit, Ownership!OwnershipInit, Ownership!NoCall, Ownership!NoSession,
         NoSession
<1>2. CallsSpec => []RoutesInv
  BY CallsOnlyWatch, RoutesInvariant, PTL DEF RoutesInv
<1> QED
  BY <1>1, <1>2, CallRefines, PTL
     DEF CallsSpec, ImplementsOwnership, Ownership!OwnershipSpec
=============================================================================

---------------------------- MODULE RoutesProofs ----------------------------
(***************************************************************************)
(* Proofs about Routes: its two maps stay typed and inverse to each other. *)
(***************************************************************************)
EXTENDS Routes, TLAPS

RoutesInv == RoutesTypeOK /\ MapsAgree

LEMMA SessionIdsArePositive ==
  \A session_id \in SessionIds : session_id \in Nat /\ session_id # NoSession
BY MaxSessionsAssumption DEF SessionIds, NoSession

LEMMA RoutesInitInv == RoutesInit => RoutesInv
BY SessionIdsArePositive DEF RoutesInit, RoutesInv, RoutesTypeOK, MapsAgree

LEMMA AddRouteInv ==
  ASSUME RoutesInv, NEW session_id \in SessionIds, NEW strategy_id \in StrategyIds,
         AddRoute(session_id, strategy_id)
  PROVE  RoutesInv'
<1>1. RoutesTypeOK'
  BY DEF RoutesInv, RoutesTypeOK, AddRoute, routeVars
<1>2. MapsAgree'
  <2>1. CASE AddRouteSucceeds(strategy_id)
    BY <2>1, SessionIdsArePositive
       DEF RoutesInv, RoutesTypeOK, MapsAgree, AddRoute, AddRouteSucceeds
  <2>2. CASE ~ AddRouteSucceeds(strategy_id)
    BY <2>2 DEF RoutesInv, MapsAgree, AddRoute, routeVars
  <2> QED BY <2>1, <2>2
<1> QED BY <1>1, <1>2 DEF RoutesInv

LEMMA RemoveRouteInv ==
  ASSUME RoutesInv, NEW session_id \in SessionIds, NEW strategy_id \in StrategyIds,
         RemoveRoute(session_id, strategy_id)
  PROVE  RoutesInv'
<1>1. RoutesTypeOK'
  BY DEF RoutesInv, RoutesTypeOK, RemoveRoute, routeVars
<1>2. MapsAgree'
  <2>1. CASE RemoveRouteSucceeds(session_id, strategy_id)
    BY <2>1, SessionIdsArePositive
       DEF RoutesInv, RoutesTypeOK, MapsAgree, RemoveRoute, RemoveRouteSucceeds
  <2>2. CASE ~ RemoveRouteSucceeds(session_id, strategy_id)
    BY <2>2 DEF RoutesInv, MapsAgree, RemoveRoute, routeVars
  <2> QED BY <2>1, <2>2
<1> QED BY <1>1, <1>2 DEF RoutesInv

LEMMA RemoveAllRoutesInv ==
  ASSUME RoutesInv, NEW session_id \in SessionIds, RemoveAllRoutes(session_id)
  PROVE  RoutesInv'
BY SessionIdsArePositive DEF RoutesInv, RoutesTypeOK, MapsAgree, RemoveAllRoutes

LEMMA RoutesStepInv ==
  RoutesInv /\ [RoutesNext]_routeVars => RoutesInv'
<1> SUFFICES ASSUME RoutesInv, [RoutesNext]_routeVars
             PROVE  RoutesInv'
  OBVIOUS
<1>1. CASE RoutesNext
  BY <1>1, AddRouteInv, RemoveRouteInv, RemoveAllRoutesInv DEF RoutesNext
<1>2. CASE UNCHANGED routeVars
  BY <1>2 DEF RoutesInv, RoutesTypeOK, MapsAgree, routeVars
<1> QED BY <1>1, <1>2

(***************************************************************************)
(* The two maps of Shared are typed and inverse to each other after any    *)
(* sequence of add_route, remove_route and remove_all_routes calls.        *)
(***************************************************************************)
THEOREM RoutesInvariant == RoutesSpec => [](RoutesTypeOK /\ MapsAgree)
<1>1. RoutesSpec => []RoutesInv
  BY RoutesInitInv, RoutesStepInv, PTL DEF RoutesSpec
<1> QED BY <1>1, PTL DEF RoutesInv

(***************************************************************************)
(* Neither map ever holds an id or a strategy it should not.               *)
(***************************************************************************)
THEOREM RoutesTypeCorrect == RoutesSpec => []RoutesTypeOK
BY RoutesInvariant, PTL
=============================================================================

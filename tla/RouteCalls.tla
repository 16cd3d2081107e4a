----------------------------- MODULE RouteCalls -----------------------------
(***************************************************************************)
(* Routes with a history variable: the last call of Shared, with the       *)
(* session that made it and the boolean that it returned.  The variable is *)
(* not in the code and no step of Routes depends on it.                    *)
(***************************************************************************)
EXTENDS Routes

VARIABLE call

callVars == << routeVars, call >>

Called(session_id, what, strategy_id, success) ==
  call' = [by |-> session_id, what |-> what, strategy_id |-> strategy_id, success |-> success]

CallsInit ==
  /\ RoutesInit
  /\ call = [by |-> NoSession, what |-> "none", strategy_id |-> NoStrategy, success |-> FALSE]

CallsNext ==
  \E session_id \in SessionIds :
    \/ \E strategy_id \in StrategyIds :
         \/ /\ AddRoute(session_id, strategy_id)
            /\ Called(session_id, "add_route", strategy_id, AddRouteSucceeds(strategy_id))
         \/ /\ RemoveRoute(session_id, strategy_id)
            /\ Called(session_id, "remove_route", strategy_id,
                      RemoveRouteSucceeds(session_id, strategy_id))
    \/ /\ RemoveAllRoutes(session_id)
       /\ Called(session_id, "remove_all_routes", NoStrategy, TRUE)

CallsSpec == CallsInit /\ [][CallsNext]_callVars

(***************************************************************************)
(* The two maps and their answers are those of the one table of            *)
(* RouteOwnership: no sequence of add_route, remove_route and              *)
(* remove_all_routes calls by several sessions lets one of them take or    *)
(* erase the route of another, and none is told so falsely.                *)
(***************************************************************************)
Ownership == INSTANCE RouteOwnership WITH owner <- strategy_id_to_session_id
ImplementsOwnership == Ownership!OwnershipSpec
=============================================================================

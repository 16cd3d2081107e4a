------------------------------- MODULE Routes -------------------------------
(***************************************************************************)
(* "Routing v2" of Shared: which session receives the updates of which     *)
(* strategy.  The table is kept twice, by strategy and by session, and     *)
(* every operation has to change both maps.                                *)
(*                                                                         *)
(* A missing key of strategy_id_to_session_id_ is the value NoSession.  A  *)
(* missing key of session_id_to_strategy_id_ is the empty set: the code    *)
(* never tells an absent entry from an empty one.                          *)
(***************************************************************************)
EXTENDS Identifiers

VARIABLES
  strategy_id_to_session_id,
  session_id_to_strategy_id

routeVars == << strategy_id_to_session_id, session_id_to_strategy_id >>

RoutesTypeOK ==
  /\ strategy_id_to_session_id \in [StrategyIds -> SessionIds \cup {NoSession}]
  /\ session_id_to_strategy_id \in [SessionIds -> SUBSET StrategyIds]

RoutesInit ==
  /\ strategy_id_to_session_id = [strategy_id \in StrategyIds |-> NoSession]
  /\ session_id_to_strategy_id = [session_id \in SessionIds |-> {}]

(***************************************************************************)
(* The boolean add_route and remove_route return.                          *)
(***************************************************************************)
AddRouteSucceeds(strategy_id) ==
  strategy_id_to_session_id[strategy_id] = NoSession

\* Mutant: any session removes any route.
RemoveRouteSucceedsForAnyone(session_id, strategy_id) ==
  strategy_id_to_session_id[strategy_id] # NoSession

RemoveRouteSucceeds(session_id, strategy_id) ==
  strategy_id_to_session_id[strategy_id] = session_id

\* Mutant: the two integers swapped in the reverse map.
AddRouteSwapped(session_id, strategy_id) ==
  /\ strategy_id_to_session_id' =
       [strategy_id_to_session_id EXCEPT ![strategy_id] = session_id]
  /\ session_id_to_strategy_id' =
       [session_id_to_strategy_id EXCEPT ![session_id] = @ \cup {session_id}]

AddRoute(session_id, strategy_id) ==
  IF AddRouteSucceeds(strategy_id)
    THEN /\ strategy_id_to_session_id' =
              [strategy_id_to_session_id EXCEPT ![strategy_id] = session_id]
         /\ session_id_to_strategy_id' =
              [session_id_to_strategy_id EXCEPT ![session_id] = @ \cup {strategy_id}]
    ELSE UNCHANGED routeVars

\* Mutant: forgets the reverse map.
RemoveRouteKeepsReverse(session_id, strategy_id) ==
  /\ strategy_id_to_session_id' =
       [strategy_id_to_session_id EXCEPT ![strategy_id] =
          IF RemoveRouteSucceeds(session_id, strategy_id) THEN NoSession ELSE @]
  /\ UNCHANGED session_id_to_strategy_id

RemoveRoute(session_id, strategy_id) ==
  IF RemoveRouteSucceeds(session_id, strategy_id)
    THEN /\ strategy_id_to_session_id' =
              [strategy_id_to_session_id EXCEPT ![strategy_id] = NoSession]
         /\ session_id_to_strategy_id' =
              [session_id_to_strategy_id EXCEPT ![session_id] = @ \ {strategy_id}]
    ELSE UNCHANGED routeVars

(***************************************************************************)
(* Walks the session's own set and erases those strategies from the other  *)
(* map, without looking at whose they are there.                           *)
(***************************************************************************)
RemoveAllRoutes(session_id) ==
  /\ strategy_id_to_session_id' =
       [strategy_id \in StrategyIds |->
          IF strategy_id \in session_id_to_strategy_id[session_id]
            THEN NoSession ELSE strategy_id_to_session_id[strategy_id]]
  /\ session_id_to_strategy_id' =
       [session_id_to_strategy_id EXCEPT ![session_id] = {}]

RoutesNext ==
  \E session_id \in SessionIds :
    \/ \E strategy_id \in StrategyIds : AddRoute(session_id, strategy_id)
    \/ \E strategy_id \in StrategyIds : RemoveRoute(session_id, strategy_id)
    \/ RemoveAllRoutes(session_id)

RoutesSpec == RoutesInit /\ [][RoutesNext]_routeVars

-----------------------------------------------------------------------------
(***************************************************************************)
(* The two maps Shared keeps are inverses of one another: a strategy is in *)
(* a session's set exactly when the other map sends it to that session.    *)
(***************************************************************************)
MapsAgree ==
  \A session_id \in SessionIds, strategy_id \in StrategyIds :
    strategy_id \in session_id_to_strategy_id[session_id]
      <=> strategy_id_to_session_id[strategy_id] = session_id
=============================================================================

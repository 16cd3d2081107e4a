--------------------------- MODULE RouteOwnership ---------------------------
(***************************************************************************)
(* What the routing table promises to its callers.  Each strategy has at   *)
(* most one owning session.  A session that asks for a free strategy gets  *)
(* it; asking for one that is owned changes nothing and is refused.  Only  *)
(* a call by the owner ends its ownership, and every call is answered by   *)
(* whether it succeeded.                                                   *)
(***************************************************************************)
EXTENDS Identifiers

VARIABLES
  owner,   \* the session of each strategy
  call     \* the last call: by whom, what for, and the answer

NoCall == [by |-> NoSession, what |-> "none", strategy_id |-> NoStrategy, success |-> FALSE]

OwnershipInit ==
  /\ owner = [strategy_id \in StrategyIds |-> NoSession]
  /\ call = NoCall

Answered(session_id, what, strategy_id, success) ==
  call' = [by |-> session_id, what |-> what, strategy_id |-> strategy_id, success |-> success]

Add(session_id, strategy_id) ==
  \/ /\ owner[strategy_id] = NoSession
     /\ owner' = [owner EXCEPT ![strategy_id] = session_id]
     /\ Answered(session_id, "add_route", strategy_id, TRUE)
  \/ /\ owner[strategy_id] # NoSession
     /\ UNCHANGED owner
     /\ Answered(session_id, "add_route", strategy_id, FALSE)

Remove(session_id, strategy_id) ==
  \/ /\ owner[strategy_id] = session_id
     /\ owner' = [owner EXCEPT ![strategy_id] = NoSession]
     /\ Answered(session_id, "remove_route", strategy_id, TRUE)
  \/ /\ owner[strategy_id] # session_id
     /\ UNCHANGED owner
     /\ Answered(session_id, "remove_route", strategy_id, FALSE)

RemoveAll(session_id) ==
  /\ owner' = [strategy_id \in StrategyIds |->
                 IF owner[strategy_id] = session_id
                   THEN NoSession ELSE owner[strategy_id]]
  /\ Answered(session_id, "remove_all_routes", NoStrategy, TRUE)

OwnershipNext ==
  \E session_id \in SessionIds :
    \/ \E strategy_id \in StrategyIds :
         Add(session_id, strategy_id) \/ Remove(session_id, strategy_id)
    \/ RemoveAll(session_id)

OwnershipSpec == OwnershipInit /\ [][OwnershipNext]_<< owner, call >>
=============================================================================

----------------------------- MODULE FixBridge ------------------------------
(***************************************************************************)
(* The server side of the bridge: Controller, SessionManager, Shared and   *)
(* the Sessions, around the FIX engine (fix::bridge::Manager), a library   *)
(* that is not part of the repository.                                     *)
(*                                                                         *)
(* Everything runs on one thread.  The event loop (pc = "idle") calls a    *)
(* handler; the handler calls the engine (pc = "bridge"), and the engine,  *)
(* before it returns, may call any session back through the Controller,    *)
(* also the one whose handler is still on the stack.  An action is the     *)
(* code between two such calls.                                            *)
(*                                                                         *)
(*   idle      the event loop                                              *)
(*   parse     Session::operator()(Read), before its next message          *)
(*   bridge    inside the engine                                           *)
(*   broadcast Controller::operator()(Trace<ExecutionReport>), no session  *)
(*   user      Session::operator()(Trace<UserRequest>), engine returned    *)
(*   catch     Session::operator()(Read), an exception on its way          *)
(***************************************************************************)
EXTENDS Routes, SessionManager, Session

CONSTANT MaxBatch   \* bound: complete messages in one Read

ASSUME MaxBatchAssumption == MaxBatch \in Nat \ {0}

VARIABLES
  pc,
  reader,    \* the session whose Read is on the stack
  pending,   \* the messages of that Read not yet dispatched
  request,   \* the UserRequest the engine is looking at
  report,    \* the strategy of the ExecutionReport being broadcast
  known      \* the sessions the engine believes to be connected

frameVars == << pc, reader, pending, request, report >>
vars == << routeVars, managerVars, sessionVars, frameVars, known >>

(***************************************************************************)
(* UNDEFINED and UNKNOWN take the branch of LOG_ON_USER.                   *)
(***************************************************************************)
RequestTypes == {"LOG_ON_USER", "LOG_OFF_USER", "CHANGE_PASSWORD_FOR_USER"}
UserRequests == [type : RequestTypes, strategy_id : StrategyIds]
NoRequest == [type |-> "none", strategy_id |-> NoStrategy]

FrameTypeOK ==
  /\ pc \in {"idle", "parse", "bridge", "broadcast", "user", "catch"}
  /\ reader \in SessionIds \cup {NoSession}
  /\ pending \in 0 .. MaxBatch
  /\ request \in UserRequests \cup {NoRequest}
  /\ report \in StrategyIds \cup {NoStrategy}
  /\ known \subseteq SessionIds

TypeOK == RoutesTypeOK /\ ManagerTypeOK /\ SessionTypeOK /\ FrameTypeOK

Init ==
  /\ RoutesInit /\ ManagerInit /\ SessionInit
  /\ pc = "idle" /\ reader = NoSession /\ pending = 0
  /\ request = NoRequest /\ report = NoStrategy /\ known = {}

-----------------------------------------------------------------------------
(* Closing a session. *)

Zombies == {session_id \in sessions : IsZombie(session_id)}

(***************************************************************************)
(* make_zombie().  unsubscribe_all() is empty, and cancel_all_orders()     *)
(* returns at once because account_ is never assigned.                     *)
(***************************************************************************)
MakeZombie(session_id) ==
  /\ IF state[session_id] = "READY"
       THEN RemoveAllRoutes(session_id)
       ELSE UNCHANGED routeVars
  /\ EnterZombie(session_id)

Close(session_id) ==
  IF IsZombie(session_id)
    THEN UNCHANGED << routeVars, managerVars >>
    ELSE MakeZombie(session_id)

(***************************************************************************)
(* A connection refuses messages once it is closed, and may refuse them    *)
(* before that.                                                            *)
(***************************************************************************)
Deliver(recipients) ==
  \E delivered \in SUBSET (recipients \ Zombies) : SendHelper(recipients, delivered)

-----------------------------------------------------------------------------
(* The event loop. *)

EnterBridge == pc' = "bridge" /\ UNCHANGED << reader, pending, request, report >>

Accept ==
  /\ pc = "idle"
  /\ AddSession
  /\ known' = known \cup {next_session_id'}
  /\ EnterBridge
  /\ UNCHANGED << routeVars, sessionVars >>

(***************************************************************************)
(* A gateway event, or the engine's own timer: the Controller passes both  *)
(* to the engine.                                                          *)
(***************************************************************************)
BridgeEvent ==
  /\ pc = "idle"
  /\ EnterBridge
  /\ UNCHANGED << routeVars, managerVars, sessionVars, known >>

\* Mutant: tells the engine and forgets the session's own state.
DisconnectedTellsOnly(session_id) ==
  /\ pc = "idle"
  /\ session_id \in sessions \cap known
  /\ known' = known \ {session_id}
  /\ EnterBridge
  /\ UNCHANGED << routeVars, managerVars, sessionVars >>

(***************************************************************************)
(* The connection reports once that the peer is gone.                      *)
(***************************************************************************)
Disconnected(session_id) ==
  /\ pc = "idle"
  /\ session_id \in sessions \cap known
  /\ MakeZombie(session_id)
  /\ known' = known \ {session_id}
  /\ EnterBridge
  /\ UNCHANGED sessionVars

Timer(elapsed) ==
  /\ pc = "idle"
  /\ TimerEvent(elapsed)
  /\ UNCHANGED << routeVars, sessionVars, frameVars, known >>

(***************************************************************************)
(* Read, on a connection that may already be closed: a zombie returns.     *)
(***************************************************************************)
Read(session_id, messages) ==
  /\ pc = "idle"
  /\ session_id \in sessions
  /\ ~ IsZombie(session_id)
  /\ pc' = "parse" /\ reader' = session_id /\ pending' = messages
  /\ UNCHANGED << request, report, known, routeVars, managerVars, sessionVars >>

-----------------------------------------------------------------------------
(* Inside a Read: the loop over the messages in the buffer. *)

ReadReturns ==
  /\ pc' = "idle" /\ reader' = NoSession /\ pending' = 0 /\ request' = NoRequest

\* Mutant: the loop goes on after the session was closed.
NextMessageAnyway(left) ==
  IF left = 0
    THEN ReadReturns
    ELSE /\ pc' = "parse" /\ pending' = left /\ request' = NoRequest
         /\ UNCHANGED reader

\* Mutant: a message that was handled is not drained from the buffer.
NextMessageUndrained(left) ==
  IF IsZombie(reader)
    THEN ReadReturns
    ELSE /\ pc' = "parse" /\ pending' = (IF left = 0 THEN 1 ELSE left) /\ request' = NoRequest
         /\ UNCHANGED reader

(***************************************************************************)
(* A message is done: the loop ends with the buffer, or when the message   *)
(* closed the session.                                                     *)
(***************************************************************************)
NextMessage(left) ==
  IF left = 0 \/ IsZombie(reader)
    THEN ReadReturns
    ELSE /\ pc' = "parse" /\ pending' = left /\ request' = NoRequest
         /\ UNCHANGED reader

(***************************************************************************)
(* An exception leaves all handlers down to the Read.  What they changed   *)
(* before it stays changed.                                                *)
(***************************************************************************)
Unwinds ==
  /\ pc' = "catch" /\ pending' = 0 /\ request' = NoRequest /\ report' = NoStrategy
  /\ UNCHANGED reader

(***************************************************************************)
(* The catch clauses of Read.                                              *)
(***************************************************************************)
ReadCatches ==
  /\ pc = "catch"
  /\ Close(reader)
  /\ ReadReturns
  /\ UNCHANGED << report, known, sessionVars >>

(***************************************************************************)
(* Every message type but one goes to the engine and nowhere else.         *)
(***************************************************************************)
DispatchMessage(sender) ==
  /\ pc = "parse"
  /\ Check(reader, sender)
  /\ pc' = "bridge" /\ pending' = pending - 1
  /\ UNCHANGED << reader, request, report, known >>
  /\ UNCHANGED << routeVars, managerVars, outbound, seen, gap, told >>

(***************************************************************************)
(* A UserRequest goes to the engine first and is answered afterwards.      *)
(***************************************************************************)
DispatchUserRequest(sender, user_request) ==
  /\ pc = "parse"
  /\ HasRoom(reader)
  /\ Check(reader, sender)
  /\ pc' = "bridge" /\ pending' = pending - 1 /\ request' = user_request
  /\ UNCHANGED << reader, report, known >>
  /\ UNCHANGED << routeVars, managerVars, outbound, seen, gap, told >>

RejectUnexpected(sender) ==
  /\ pc = "parse"
  /\ HasRoom(reader)
  /\ Check(reader, sender)
  /\ Deliver({reader})
  /\ Unwinds \/ (NextMessage(pending - 1) /\ UNCHANGED report)
  /\ UNCHANGED << known, routeVars, managerVars, told >>

(***************************************************************************)
(* The reader or a codec throws, before or after check().                  *)
(***************************************************************************)
ParseThrows(sender) ==
  /\ pc = "parse"
  /\ UNCHANGED comp_id \/ Check(reader, sender)
  /\ Unwinds
  /\ UNCHANGED << known, routeVars, managerVars, outbound, seen, gap, told >>

-----------------------------------------------------------------------------
(* Session::operator()(Trace<UserRequest>) once the engine has returned.   *)
(* The session may be a zombie by now: routes change all the same.         *)

Learns(routes, status, strategy_id) ==
  CASE status = "LOGGED_IN" -> routes \cup {strategy_id}
    [] status = "NOT_LOGGED_IN" -> routes \ {strategy_id}
    [] OTHER -> routes

SendUserResponse(status) ==
  \E delivered \in SUBSET ({reader} \ Zombies) :
    /\ SendHelper({reader}, delivered)
    /\ told' = IF delivered = {} THEN told
                 ELSE [told EXCEPT ![reader] = Learns(@, status, request.strategy_id)]

\* Sending the answer may throw: the route has changed and the number is used up by then.
UserRequestDone ==
  /\ Unwinds \/ (NextMessage(pending) /\ UNCHANGED report)
  /\ UNCHANGED << known, managerVars, comp_id >>

LogOnUser ==
  /\ pc = "user" /\ request.type = "LOG_ON_USER"
  /\ AddRoute(reader, request.strategy_id)
  /\ SendUserResponse(IF AddRouteSucceeds(request.strategy_id)
                        THEN "LOGGED_IN" ELSE "OTHER")
  /\ UserRequestDone

LogOffUser ==
  /\ pc = "user" /\ request.type = "LOG_OFF_USER"
  /\ RemoveRoute(reader, request.strategy_id)
  /\ SendUserResponse(IF RemoveRouteSucceeds(reader, request.strategy_id)
                        THEN "NOT_LOGGED_IN" ELSE "OTHER")
  /\ UserRequestDone

UnsupportedUserRequest ==
  /\ pc = "user" /\ request.type = "CHANGE_PASSWORD_FOR_USER"
  /\ SendUserResponse("OTHER")
  /\ UserRequestDone
  /\ UNCHANGED routeVars

-----------------------------------------------------------------------------
(* The engine: what it may do between being called and returning.  It     *)
(* addresses sessions that are connected as far as it knows and have       *)
(* spoken; the Controller drops what is for a session that is gone.  It is *)
(* assumed to send no UserResponse of its own: UserRequests are answered   *)
(* by the session ("NOT migrated to roq-fix").                             *)

Reachable(session_id) == session_id \in sessions \cap known

\* The answer to a UserRequest is still to come (bound on sequence numbers).
MaySend(session_id) ==
  IF request # NoRequest /\ session_id = reader
    THEN outbound[session_id] + 1 < MaxSeqNum
    ELSE HasRoom(session_id)

ToSession(session_id) ==
  /\ pc = "bridge"
  /\ Reachable(session_id) /\ comp_id[session_id] # NoCompId
  /\ MaySend(session_id)
  /\ Deliver({session_id})
  /\ UNCHANGED << frameVars, known, routeVars, managerVars, comp_id, told >>

DisconnectSession(session_id) ==
  /\ pc = "bridge"
  /\ Reachable(session_id)
  /\ Close(session_id)
  /\ UNCHANGED << frameVars, known, sessionVars >>

\* An ExecutionReport the engine has no session for.
BroadcastReport(strategy_id) ==
  /\ pc = "bridge"
  /\ \A session_id \in sessions : MaySend(session_id)
  /\ pc' = "broadcast" /\ report' = strategy_id
  /\ UNCHANGED << reader, pending, request, known, routeVars, managerVars, sessionVars >>

\* Sent to all sessions; routing by strategy is a FIXME in the code.
SendToAllSessions ==
  /\ pc = "broadcast"
  /\ Deliver(sessions)
  /\ pc' = "bridge" /\ report' = NoStrategy
  /\ UNCHANGED << reader, pending, request, known, routeVars, managerVars, comp_id, told >>

\* Sending to one of them throws: some were reached before it, in the order of the table.
BroadcastThrows ==
  /\ pc = "broadcast" /\ reader # NoSession
  /\ \E reached \in SUBSET sessions : Deliver(reached)
  /\ Unwinds
  /\ UNCHANGED << known, routeVars, managerVars, comp_id, told >>

BridgeReturns ==
  /\ pc = "bridge"
  /\ IF reader = NoSession THEN ReadReturns
       ELSE IF request # NoRequest
         THEN pc' = "user" /\ UNCHANGED << reader, pending, request >>
         ELSE NextMessage(pending)
  /\ UNCHANGED << report, known, routeVars, managerVars, sessionVars >>

(***************************************************************************)
(* An exception out of the engine, out of a gateway the engine sends an    *)
(* order to, or out of reading the strategy id in a UserRequest.  One out  *)
(* of sending to a session on the engine's behalf is ToSession, refused,   *)
(* and then this.                                                          *)
(***************************************************************************)
HandlerThrows ==
  /\ pc \in {"bridge", "user"} /\ reader # NoSession
  /\ Unwinds
  /\ UNCHANGED << known, routeVars, managerVars, sessionVars >>

-----------------------------------------------------------------------------
EventLoop ==
  \/ Accept
  \/ BridgeEvent
  \/ \E session_id \in SessionIds :
       \/ Disconnected(session_id)
       \/ \E messages \in 1 .. MaxBatch : Read(session_id, messages)

TimerFires == \E elapsed \in Elapsed : Timer(elapsed)

Parse ==
  \E sender \in CompIds :
    \/ DispatchMessage(sender)
    \/ \E user_request \in UserRequests : DispatchUserRequest(sender, user_request)
    \/ RejectUnexpected(sender)
    \/ ParseThrows(sender)

AnswerUserRequest == LogOnUser \/ LogOffUser \/ UnsupportedUserRequest

Engine ==
  \/ \E session_id \in SessionIds : ToSession(session_id) \/ DisconnectSession(session_id)
  \/ \E strategy_id \in StrategyIds : BroadcastReport(strategy_id)
  \/ HandlerThrows

Next ==
  \/ EventLoop \/ TimerFires \/ Parse \/ AnswerUserRequest
  \/ Engine \/ SendToAllSessions \/ BroadcastThrows \/ BridgeReturns \/ ReadCatches

Spec == Init /\ [][Next]_vars

(***************************************************************************)
(* A handler that has started goes on; every call into the engine returns, *)
(* however often it calls back first; and the timer is periodic, so it     *)
(* fires between handlers however busy the connections are.                *)
(***************************************************************************)
FairSpec ==
  /\ Spec
  /\ WF_vars(Parse) /\ WF_vars(AnswerUserRequest) /\ WF_vars(SendToAllSessions)
  /\ WF_vars(ReadCatches)
  /\ SF_vars(BridgeReturns) /\ SF_vars(TimerFires)

-----------------------------------------------------------------------------
(***************************************************************************)
(* The session whose Read is on the stack is never destroyed under it,     *)
(* whatever the engine does to it meanwhile: zombies are destroyed by the  *)
(* timer, and the timer does not fire inside a handler.                    *)
(***************************************************************************)
FrameAlive ==
  /\ reader # NoSession => reader \in sessions
  /\ pc \in {"parse", "user", "catch"} => reader # NoSession

(***************************************************************************)
(* No message of a closed session reaches the engine, even when several    *)
(* were in the buffer and an earlier one got the session closed.           *)
(***************************************************************************)
DispatchOnlyLive == pc = "parse" => ~ IsZombie(reader)

(***************************************************************************)
(* A session that can still read is one the engine knows as connected:     *)
(* Connected is reported before the first message, Disconnected only for a *)
(* session that will read no more.                                         *)
(***************************************************************************)
LiveSessionsKnown ==
  \A session_id \in sessions : ~ IsZombie(session_id) => session_id \in known

(***************************************************************************)
(* A client that has every sequence number up to the last one sent knows   *)
(* its routes exactly: what the UserResponses said is what the table says. *)
(***************************************************************************)
ClientViewSound ==
  \A session_id \in sessions :
    ~ IsZombie(session_id) /\ ~ gap[session_id] /\ seen[session_id] = outbound[session_id]
      => told[session_id] = session_id_to_strategy_id[session_id]

(***************************************************************************)
(* A route begins and ends by a UserRequest of the session it belongs to,  *)
(* or ends when that session is closed: no other session's request, and no *)
(* other event, moves or removes it.                                       *)
(***************************************************************************)
MovedByOwner(strategy_id) ==
  LET before == strategy_id_to_session_id[strategy_id]
      after == strategy_id_to_session_id'[strategy_id]
  IN  \/ before = after
      \/ pc = "user" /\ before = NoSession /\ after = reader
      \/ pc = "user" /\ before = reader /\ after = NoSession
      \/ after = NoSession /\ ~ IsZombie(before) /\ state'[before] = "ZOMBIE"

RoutesMoveByOwner ==
  [][\A strategy_id \in StrategyIds : MovedByOwner(strategy_id)]_vars

(***************************************************************************)
(* A session may be closed while the engine looks at its UserRequest; the  *)
(* request is carried out all the same, and the zombie gets its route.     *)
(* That is the last one: its Read ends with this step, whatever is left in *)
(* the buffer, and no route of a closed session moves in any other step.   *)
(***************************************************************************)
LateRequestIsLast ==
  [][\A session_id \in SessionIds :
       /\ session_id \in sessions => IsZombie(session_id)
       /\ session_id_to_strategy_id'[session_id] # session_id_to_strategy_id[session_id]
       => pc = "user" /\ reader = session_id /\ pc' \in {"idle", "catch"}]_vars

(***************************************************************************)
(* A new session starts with nothing of an earlier one: no routes, no comp *)
(* id, no sequence numbers, though the routes of dead sessions stay in the *)
(* table.                                                                  *)
(***************************************************************************)
StartsClean(session_id) ==
  /\ session_id_to_strategy_id[session_id] = {}
  /\ \A strategy_id \in StrategyIds : strategy_id_to_session_id[strategy_id] # session_id
  /\ comp_id[session_id] = NoCompId
  /\ outbound[session_id] = 0

NewSessionsStartClean ==
  [][\A session_id \in sessions' \ sessions : StartsClean(session_id)]_vars

(***************************************************************************)
(* Nothing happens in the name of a session that was destroyed, though     *)
(* handlers of it may have been on the stack when it was closed: no        *)
(* message, no answer, no route added.  What it left behind, a route in    *)
(* Shared or its entry in the engine, stays there for ever.                *)
(***************************************************************************)
TraceOf(session_id) ==
  << session_id_to_strategy_id[session_id],
     {strategy_id \in StrategyIds : strategy_id_to_session_id[strategy_id] = session_id},
     comp_id[session_id], outbound[session_id], seen[session_id], gap[session_id],
     told[session_id], session_id \in known >>

DestroyedChangeNothing ==
  [][\A session_id \in (1 .. next_session_id) \ sessions : UNCHANGED TraceOf(session_id)]_vars

(***************************************************************************)
(* The event loop gets control back from every handler.                    *)
(***************************************************************************)
HandlersReturn == pc # "idle" ~> pc = "idle"

-----------------------------------------------------------------------------
(* What the documentation and an assertion say, and the code does not do.  *)

(***************************************************************************)
(* index.rst: "The route is automatically removed upon seeing the client   *)
(* disconnecting."  The engine has been told that the session is gone.     *)
(***************************************************************************)
DisconnectedHoldsNoRoute ==
  \A session_id \in 1 .. next_session_id :
    session_id \notin known /\ pc = "idle" => session_id_to_strategy_id[session_id] = {}

(***************************************************************************)
(* index.rst: "All order updates will be routed based on the strategy."    *)
(***************************************************************************)
OrderUpdatesRouted ==
  [][\A session_id \in SessionIds :
       pc = "broadcast" /\ outbound'[session_id] # outbound[session_id]
         => strategy_id_to_session_id[report] = session_id]_vars

(***************************************************************************)
(* assert(!std::empty(comp_id_)) of send_helper: a message that is sent    *)
(* names the client it is for.                                             *)
(***************************************************************************)
SendsNameTheTarget ==
  [][\A session_id \in SessionIds :
       outbound'[session_id] # outbound[session_id] => comp_id'[session_id] # NoCompId]_vars
=============================================================================

-------------------------- MODULE FixBridgeProofs ---------------------------
(***************************************************************************)
(* Proofs about FixBridge.  The invariant joins those of Routes and of     *)
(* SessionManager, which every step of the whole system preserves because  *)
(* it is a step of each of them or leaves it alone, with what the handlers *)
(* keep: who is on the stack, which numbers are still to be used, and what *)
(* ids that were not issued yet look like.                                 *)
(***************************************************************************)
EXTENDS FixBridge, RoutesProofs, SessionManagerProofs

SessionInv ==
  /\ SessionTypeOK
  /\ \A session_id \in SessionIds : seen[session_id] <= outbound[session_id]

(***************************************************************************)
(* The control state: a Read is on the stack from "parse" on, and a        *)
(* UserRequest under way has its answer's sequence number in reserve.      *)
(***************************************************************************)
FrameInv ==
  /\ FrameTypeOK
  /\ FrameAlive
  /\ pc = "idle" => reader = NoSession
  /\ pc = "parse" => pending > 0 /\ request = NoRequest
  /\ pc = "user" => request \in UserRequests
  /\ request # NoRequest => reader # NoSession /\ HasRoom(reader)
  /\ pc = "broadcast" => \A session_id \in sessions : MaySend(session_id)

(***************************************************************************)
(* An id that was not issued yet has left no trace anywhere.               *)
(***************************************************************************)
Untouched(session_id) ==
  /\ StartsClean(session_id)
  /\ seen[session_id] = 0 /\ gap[session_id] = FALSE /\ told[session_id] = {}

UnissuedUntouched ==
  \A session_id \in SessionIds : session_id > next_session_id => Untouched(session_id)

Inv ==
  /\ RoutesInv /\ ManagerInv /\ SessionInv /\ FrameInv
  /\ LiveSessionsKnown /\ DispatchOnlyLive
  /\ UnissuedUntouched /\ ClientViewSound

-----------------------------------------------------------------------------
(* Every step is a step of Routes and of SessionManager, or none of theirs. *)

LEMMA CloseSteps ==
  ASSUME NEW session_id \in sessions, sessions \subseteq SessionIds,
         Close(session_id) \/ MakeZombie(session_id)
  PROVE  /\ [RoutesNext]_routeVars
         /\ EnterZombie(session_id)
<1>1. CASE MakeZombie(session_id)
  BY <1>1 DEF MakeZombie, RoutesNext
<1>2. CASE Close(session_id) /\ IsZombie(session_id)
  BY <1>2 DEF Close, EnterZombie
<1>3. CASE Close(session_id) /\ ~ IsZombie(session_id)
  BY <1>3 DEF Close, MakeZombie, RoutesNext
<1> QED BY <1>1, <1>2, <1>3

LEMMA ReaderIsSession ==
  ASSUME ManagerInv, FrameInv, reader # NoSession
  PROVE  reader \in sessions /\ reader \in SessionIds /\ reader \in 1 .. next_session_id
BY DEF ManagerInv, ManagerTypeOK, OnlyZombiesLeave, FrameInv, FrameAlive

LEMMA StepOfRoutes ==
  ASSUME ManagerInv, FrameInv, [Next]_vars
  PROVE  [RoutesNext]_routeVars
<1>1. CASE EventLoop
  <2>1. CASE Accept \/ BridgeEvent
    BY <2>1 DEF Accept, BridgeEvent
  <2>2. ASSUME NEW session_id \in SessionIds, Disconnected(session_id)
        PROVE  [RoutesNext]_routeVars
    BY <2>2, CloseSteps DEF Disconnected, ManagerInv, ManagerTypeOK
  <2>3. ASSUME NEW session_id \in SessionIds, NEW messages \in 1 .. MaxBatch,
               Read(session_id, messages)
        PROVE  [RoutesNext]_routeVars
    BY <2>3 DEF Read
  <2> QED BY <1>1, <2>1, <2>2, <2>3 DEF EventLoop
<1>2. CASE TimerFires
  BY <1>2 DEF TimerFires, Timer
<1>3. CASE Parse
  BY <1>3 DEF Parse, DispatchMessage, DispatchUserRequest, RejectUnexpected, ParseThrows
<1>4. CASE AnswerUserRequest
  <2>1. reader \in SessionIds /\ request.strategy_id \in StrategyIds
    BY <1>4, ReaderIsSession
       DEF AnswerUserRequest, LogOnUser, LogOffUser, UnsupportedUserRequest,
           FrameInv, FrameAlive, UserRequests
  <2> QED
    BY <1>4, <2>1
       DEF AnswerUserRequest, LogOnUser, LogOffUser, UnsupportedUserRequest, RoutesNext
<1>5. CASE Engine
  BY <1>5, CloseSteps
     DEF Engine, ToSession, DisconnectSession, BroadcastReport, HandlerThrows, Reachable,
         ManagerInv, ManagerTypeOK
<1>6. CASE ReadCatches
  BY <1>6, ReaderIsSession, CloseSteps
     DEF ReadCatches, FrameInv, FrameAlive, ManagerInv, ManagerTypeOK, RoutesNext
<1>7. CASE SendToAllSessions \/ BroadcastThrows \/ BridgeReturns \/ UNCHANGED vars
  BY <1>7 DEF SendToAllSessions, BroadcastThrows, BridgeReturns, vars
<1> QED BY <1>1, <1>2, <1>3, <1>4, <1>5, <1>6, <1>7 DEF Next

LEMMA StepOfManager ==
  ASSUME ManagerInv, FrameInv, [Next]_vars
  PROVE  [ManagerNext]_managerVars
<1>1. CASE EventLoop
  <2>1. CASE Accept \/ BridgeEvent
    BY <2>1 DEF Accept, BridgeEvent, ManagerNext
  <2>2. ASSUME NEW session_id \in SessionIds, Disconnected(session_id)
        PROVE  [ManagerNext]_managerVars
    BY <2>2, CloseSteps DEF Disconnected, ManagerInv, ManagerTypeOK, ManagerNext
  <2>3. ASSUME NEW session_id \in SessionIds, NEW messages \in 1 .. MaxBatch,
               Read(session_id, messages)
        PROVE  [ManagerNext]_managerVars
    BY <2>3 DEF Read
  <2> QED BY <1>1, <2>1, <2>2, <2>3 DEF EventLoop
<1>2. CASE TimerFires
  BY <1>2 DEF TimerFires, Timer, ManagerNext
<1>3. CASE Parse
  BY <1>3 DEF Parse, DispatchMessage, DispatchUserRequest, RejectUnexpected, ParseThrows
<1>4. CASE AnswerUserRequest
  BY <1>4 DEF AnswerUserRequest, LogOnUser, LogOffUser, UnsupportedUserRequest,
              UserRequestDone
<1>5. CASE Engine
  BY <1>5, CloseSteps
     DEF Engine, ToSession, DisconnectSession, BroadcastReport, HandlerThrows, Reachable,
         ManagerInv, ManagerTypeOK, ManagerNext
<1>6. CASE ReadCatches
  BY <1>6, ReaderIsSession, CloseSteps
     DEF ReadCatches, FrameInv, FrameAlive, ManagerInv, ManagerTypeOK, ManagerNext
<1>7. CASE SendToAllSessions \/ BroadcastThrows \/ BridgeReturns \/ UNCHANGED vars
  BY <1>7 DEF SendToAllSessions, BroadcastThrows, BridgeReturns, vars
<1> QED BY <1>1, <1>2, <1>3, <1>4, <1>5, <1>6, <1>7 DEF Next

-----------------------------------------------------------------------------
(* Sending: sequence numbers stay in range, and what was incomplete before *)
(* does not look complete afterwards.                                      *)

SendFacts(recipients) ==
  /\ outbound' \in [SessionIds -> 0 .. MaxSeqNum]
  /\ seen' \in [SessionIds -> 0 .. MaxSeqNum]
  /\ gap' \in [SessionIds -> BOOLEAN]
  /\ \A session_id \in SessionIds :
       /\ seen'[session_id] <= outbound'[session_id]
       /\ session_id \notin recipients =>
            /\ outbound'[session_id] = outbound[session_id]
            /\ seen'[session_id] = seen[session_id]
            /\ gap'[session_id] = gap[session_id]
       /\ session_id \in recipients => outbound'[session_id] = outbound[session_id] + 1

Complete(session_id) == ~ gap[session_id] /\ seen[session_id] = outbound[session_id]

LEMMA SendHelperFacts ==
  ASSUME SessionInv, NEW recipients \in SUBSET SessionIds,
         NEW delivered \in SUBSET recipients,
         \A session_id \in recipients : HasRoom(session_id),
         SendHelper(recipients, delivered)
  PROVE  /\ SendFacts(recipients)
         /\ \A session_id \in SessionIds :
              Complete(session_id)' =>
                /\ Complete(session_id)
                /\ session_id \in recipients => session_id \in delivered
<1>1. \A session_id \in SessionIds :
        outbound[session_id] \in 0 .. MaxSeqNum /\ seen[session_id] \in 0 .. MaxSeqNum
        /\ gap[session_id] \in BOOLEAN /\ seen[session_id] <= outbound[session_id]
  BY DEF SessionInv, SessionTypeOK
<1>2. \A session_id \in SessionIds :
        /\ outbound'[session_id] = outbound[session_id]
                                     + (IF session_id \in recipients THEN 1 ELSE 0)
        /\ seen'[session_id] = IF session_id \in delivered
                                 THEN outbound[session_id] + 1 ELSE seen[session_id]
        /\ gap'[session_id] <=>
             \/ gap[session_id]
             \/ session_id \in delivered /\ outbound[session_id] # seen[session_id]
        /\ gap'[session_id] \in BOOLEAN
  BY <1>1 DEF SendHelper
<1>3. outbound' \in [SessionIds -> 0 .. MaxSeqNum]
  BY <1>1, MaxSeqNumAssumption DEF SendHelper, HasRoom
<1>4. seen' \in [SessionIds -> 0 .. MaxSeqNum]
  BY <1>1, MaxSeqNumAssumption DEF SendHelper, HasRoom
<1>5. gap' \in [SessionIds -> BOOLEAN]
  BY <1>1 DEF SendHelper
<1>6. \A session_id \in SessionIds \ delivered :
        session_id \in recipients => seen'[session_id] < outbound'[session_id]
  BY <1>1, <1>2, MaxSeqNumAssumption
<1>7. SendFacts(recipients)
  <2> SUFFICES ASSUME NEW session_id \in SessionIds
               PROVE  /\ seen'[session_id] <= outbound'[session_id]
                      /\ session_id \notin recipients =>
                           /\ outbound'[session_id] = outbound[session_id]
                           /\ seen'[session_id] = seen[session_id]
                           /\ gap'[session_id] = gap[session_id]
                      /\ session_id \in recipients =>
                           outbound'[session_id] = outbound[session_id] + 1
    BY <1>3, <1>4, <1>5 DEF SendFacts
  <2>1. CASE session_id \in recipients
    BY <1>1, <1>2, <2>1, MaxSeqNumAssumption
  <2>2. CASE session_id \notin recipients
    <3>1. outbound'[session_id] = outbound[session_id] /\ seen'[session_id] = seen[session_id]
      BY <1>1, <1>2, <2>2, MaxSeqNumAssumption
    <3>2. gap'[session_id] = gap[session_id]
      BY <2>2 DEF SendHelper, SessionInv, SessionTypeOK
    <3> QED BY <1>1, <2>2, <3>1, <3>2
  <2> QED BY <2>1, <2>2
<1>8. ASSUME NEW session_id \in SessionIds, Complete(session_id)'
      PROVE  /\ Complete(session_id)
             /\ session_id \in recipients => session_id \in delivered
  <2>1. ~ gap[session_id]
    BY <1>2, <1>8 DEF Complete
  <2>2. session_id \in recipients => session_id \in delivered
    BY <1>3, <1>4, <1>6, <1>8 DEF Complete
  <2>3. CASE session_id \in delivered
    BY <1>2, <1>8, <2>1, <2>2, <2>3 DEF Complete
  <2>4. CASE session_id \notin delivered
    BY <1>1, <1>2, <1>8, <2>1, <2>2, <2>4 DEF Complete
  <2> QED BY <2>2, <2>3, <2>4
<1> QED BY <1>7, <1>8

LEMMA DeliverFacts ==
  ASSUME SessionInv, NEW recipients \in SUBSET SessionIds,
         \A session_id \in recipients : HasRoom(session_id),
         Deliver(recipients)
  PROVE  /\ SendFacts(recipients)
         /\ \A session_id \in SessionIds : Complete(session_id)' => Complete(session_id)
BY SendHelperFacts DEF Deliver

LEMMA CheckTypes ==
  ASSUME SessionTypeOK, NEW sender \in CompIds, Check(reader, sender)
  PROVE  comp_id' \in [SessionIds -> CompIds \cup {NoCompId}]
BY DEF SessionTypeOK, Check

LEMMA UserResponseFacts ==
  ASSUME SessionInv, NEW status, reader \in SessionIds, HasRoom(reader),
         request.strategy_id \in StrategyIds, SendUserResponse(status)
  PROVE  /\ SendFacts({reader})
         /\ told' \in [SessionIds -> SUBSET StrategyIds]
         /\ \A session_id \in SessionIds :
              /\ session_id # reader => told'[session_id] = told[session_id]
              /\ Complete(session_id)' => Complete(session_id)
              /\ Complete(session_id)' /\ session_id = reader =>
                   told'[session_id] = Learns(told[session_id], status, request.strategy_id)
<1>1. PICK delivered \in SUBSET ({reader} \ Zombies) :
        /\ SendHelper({reader}, delivered)
        /\ told' = IF delivered = {} THEN told
                     ELSE [told EXCEPT ![reader] = Learns(@, status, request.strategy_id)]
  BY DEF SendUserResponse
<1>2. /\ SendFacts({reader})
      /\ \A session_id \in SessionIds :
           Complete(session_id)' =>
             /\ Complete(session_id)
             /\ session_id \in {reader} => session_id \in delivered
  <2>1. {reader} \in SUBSET SessionIds /\ delivered \in SUBSET {reader}
    BY <1>1
  <2> QED BY <1>1, <2>1, SendHelperFacts
<1>3. told \in [SessionIds -> SUBSET StrategyIds]
  BY DEF SessionInv, SessionTypeOK
<1>4. Learns(told[reader], status, request.strategy_id) \in SUBSET StrategyIds
  BY <1>3 DEF Learns
<1>5. told' \in [SessionIds -> SUBSET StrategyIds]
  BY <1>1, <1>3, <1>4
<1>6. \A session_id \in SessionIds : session_id # reader => told'[session_id] = told[session_id]
  BY <1>1, <1>3
<1>7. \A session_id \in SessionIds :
        Complete(session_id)' /\ session_id = reader =>
          told'[session_id] = Learns(told[session_id], status, request.strategy_id)
  BY <1>1, <1>2, <1>3
<1> QED BY <1>2, <1>5, <1>6, <1>7

-----------------------------------------------------------------------------
(* What a step does to the sessions, whichever step it is. *)

SessionEffect(recipients) ==
  /\ SendFacts(recipients)
  /\ comp_id' \in [SessionIds -> CompIds \cup {NoCompId}]
  /\ told' \in [SessionIds -> SUBSET StrategyIds]
  /\ \A session_id \in SessionIds \ sessions :
       comp_id'[session_id] = comp_id[session_id] /\ told'[session_id] = told[session_id]
  /\ \A session_id \in SessionIds : Complete(session_id)' => Complete(session_id)

LEMMA NoSendFacts ==
  ASSUME SessionInv, UNCHANGED << outbound, seen, gap >>
  PROVE  /\ SendFacts({})
         /\ \A session_id \in SessionIds : Complete(session_id)' => Complete(session_id)
BY DEF SessionInv, SessionTypeOK, SendFacts, Complete

LEMMA ParseHasReader ==
  ASSUME ManagerInv, FrameInv, pc \in {"parse", "user", "catch"}
  PROVE  reader \in sessions /\ reader \in SessionIds /\ reader # NoSession
BY ReaderIsSession DEF FrameInv, FrameAlive

LEMMA StepEffect ==
  ASSUME ManagerInv, SessionInv, FrameInv, [Next]_vars
  PROVE  \E recipients \in SUBSET sessions : SessionEffect(recipients)
<1> SessionTypeOK /\ sessions \in SUBSET SessionIds
  BY DEF SessionInv, ManagerInv, ManagerTypeOK
<1>1. CASE UNCHANGED sessionVars
  <2>1. SessionEffect({})
    BY <1>1, NoSendFacts DEF sessionVars, SessionEffect, SessionTypeOK
  <2> QED BY <2>1
<1>2. ASSUME NEW sender \in CompIds, reader \in sessions,
             Check(reader, sender) \/ UNCHANGED comp_id,
             UNCHANGED << outbound, seen, gap, told >>
      PROVE  SessionEffect({})
  <2>1. comp_id' \in [SessionIds -> CompIds \cup {NoCompId}]
    BY <1>2, CheckTypes DEF SessionTypeOK
  <2>2. \A session_id \in SessionIds \ sessions : comp_id'[session_id] = comp_id[session_id]
    BY <1>2 DEF Check, SessionTypeOK
  <2> QED BY <1>2, <2>1, <2>2, NoSendFacts DEF SessionEffect, SessionTypeOK
<1>3. ASSUME NEW recipients \in SUBSET sessions, Deliver(recipients),
             \A session_id \in recipients : HasRoom(session_id), UNCHANGED told,
             \/ UNCHANGED comp_id
             \/ reader \in sessions /\ \E sender \in CompIds : Check(reader, sender)
      PROVE  SessionEffect(recipients)
  <2>1. /\ SendFacts(recipients)
        /\ \A session_id \in SessionIds : Complete(session_id)' => Complete(session_id)
    <3>1. recipients \in SUBSET SessionIds
      OBVIOUS
    <3> QED BY <1>3, <3>1, DeliverFacts
  <2>2. comp_id' \in [SessionIds -> CompIds \cup {NoCompId}]
    BY <1>3, CheckTypes DEF SessionTypeOK
  <2>3. \A session_id \in SessionIds \ sessions : comp_id'[session_id] = comp_id[session_id]
    BY <1>3 DEF Check, SessionTypeOK
  <2> QED BY <1>3, <2>1, <2>2, <2>3 DEF SessionEffect, SessionTypeOK
<1>4. CASE EventLoop \/ TimerFires
  BY <1>1, <1>4
     DEF EventLoop, TimerFires, Accept, BridgeEvent, Disconnected, Read, Timer
<1>5. CASE Parse
  <2>1. reader \in sessions
    BY <1>5, ParseHasReader
       DEF Parse, DispatchMessage, DispatchUserRequest, RejectUnexpected, ParseThrows
  <2>2. PICK sender \in CompIds :
          \/ DispatchMessage(sender)
          \/ \E user_request \in UserRequests : DispatchUserRequest(sender, user_request)
          \/ RejectUnexpected(sender)
          \/ ParseThrows(sender)
    BY <1>5 DEF Parse
  <2>3. CASE RejectUnexpected(sender)
    <3>1. {reader} \in SUBSET sessions
      BY <2>1
    <3> QED BY <1>3, <2>1, <2>3, <3>1 DEF RejectUnexpected
  <2>4. CASE ~ RejectUnexpected(sender)
    <3>1. SessionEffect({})
      BY <1>2, <2>1, <2>2, <2>4 DEF DispatchMessage, DispatchUserRequest, ParseThrows
    <3> QED BY <3>1
  <2> QED BY <2>3, <2>4
<1>6. CASE AnswerUserRequest
  <2>1. /\ reader \in sessions /\ reader \in SessionIds
        /\ request \in UserRequests /\ request.strategy_id \in StrategyIds
        /\ HasRoom(reader)
    BY <1>6, ParseHasReader
       DEF AnswerUserRequest, LogOnUser, LogOffUser, UnsupportedUserRequest, FrameInv,
           UserRequests, NoRequest, RequestTypes
  <2>2. PICK status : SendUserResponse(status)
    BY <1>6 DEF AnswerUserRequest, LogOnUser, LogOffUser, UnsupportedUserRequest
  <2>3. UNCHANGED comp_id
    BY <1>6 DEF AnswerUserRequest, LogOnUser, LogOffUser, UnsupportedUserRequest,
                UserRequestDone
  <2>4. SessionEffect({reader})
    BY <2>1, <2>2, <2>3, UserResponseFacts DEF SessionEffect, SessionTypeOK
  <2> QED BY <2>1, <2>4
<1>7. CASE Engine
  <2>1. ASSUME NEW session_id \in SessionIds, ToSession(session_id)
        PROVE  SessionEffect({session_id}) /\ session_id \in sessions
    <3>1. session_id \in sessions /\ HasRoom(session_id)
      BY <2>1, MaxSeqNumAssumption
         DEF ToSession, Reachable, MaySend, HasRoom, SessionTypeOK
    <3>2. {session_id} \in SUBSET sessions
      BY <3>1
    <3> QED BY <1>3, <2>1, <3>1, <3>2 DEF ToSession
  <2>2. CASE ~ \E session_id \in SessionIds : ToSession(session_id)
    BY <1>1, <1>7, <2>2 DEF Engine, DisconnectSession, BroadcastReport, HandlerThrows
  <2> QED BY <2>1, <2>2
<1>8. CASE SendToAllSessions \/ BroadcastThrows
  <2>1. \A session_id \in sessions : HasRoom(session_id)
    BY <1>8, MaxSeqNumAssumption
       DEF SendToAllSessions, BroadcastThrows, FrameInv, MaySend, HasRoom, SessionTypeOK
  <2>2. PICK reached \in SUBSET sessions : Deliver(reached)
    BY <1>8 DEF SendToAllSessions, BroadcastThrows
  <2> QED BY <1>3, <1>8, <2>1, <2>2 DEF SendToAllSessions, BroadcastThrows
<1>9. CASE ReadCatches \/ BridgeReturns \/ UNCHANGED vars
  BY <1>1, <1>9 DEF ReadCatches, BridgeReturns, vars
<1> QED BY <1>4, <1>5, <1>6, <1>7, <1>8, <1>9 DEF Next

LEMMA SessionStepInv ==
  ASSUME SessionInv, NEW recipients \in SUBSET sessions, SessionEffect(recipients)
  PROVE  SessionInv'
BY DEF SessionInv, SessionTypeOK, SessionEffect, SendFacts

-----------------------------------------------------------------------------
(* The control state. *)

FrameSafe == FrameInv /\ DispatchOnlyLive

LEMMA ReadReturnsFrame ==
  ASSUME FrameInv, ReadReturns, UNCHANGED << report, known >>
  PROVE  FrameSafe'
BY MaxBatchAssumption
   DEF ReadReturns, FrameSafe, FrameInv, FrameTypeOK, FrameAlive, DispatchOnlyLive

LEMMA NextMessageFrame ==
  ASSUME FrameInv, reader \in sessions, reader # NoSession, NEW left \in 0 .. MaxBatch, NextMessage(left),
         UNCHANGED << report, known, managerVars >>
  PROVE  FrameSafe'
<1>1. CASE ReadReturns
  BY <1>1, ReadReturnsFrame
<1>2. CASE ~ ReadReturns
  <2>1. /\ left # 0 /\ ~ IsZombie(reader)
        /\ pc' = "parse" /\ pending' = left /\ request' = NoRequest /\ reader' = reader
    BY <1>2 DEF NextMessage
  <2>2. DispatchOnlyLive'
    BY <2>1 DEF DispatchOnlyLive, IsZombie, managerVars
  <2> QED
    BY <2>1, <2>2, MaxBatchAssumption
       DEF FrameSafe, FrameInv, FrameTypeOK, FrameAlive, managerVars
<1> QED BY <1>1, <1>2

LEMMA UnwindsFrame ==
  ASSUME FrameInv, reader # NoSession, Unwinds, UNCHANGED << sessions, known >>
  PROVE  FrameSafe'
BY MaxBatchAssumption
   DEF Unwinds, FrameSafe, FrameInv, FrameTypeOK, FrameAlive, DispatchOnlyLive

LEMMA ReadCatchesFrame ==
  ASSUME FrameInv, ReadCatches
  PROVE  FrameSafe'
BY ReadReturnsFrame DEF ReadCatches

LEMMA EnterBridgeFrame ==
  ASSUME FrameInv, pc = "idle", EnterBridge, known' \subseteq SessionIds,
         UNCHANGED outbound
  PROVE  FrameSafe'
BY DEF EnterBridge, FrameSafe, FrameInv, FrameTypeOK, FrameAlive, DispatchOnlyLive,
       HasRoom, MaySend

LEMMA EventLoopFrame ==
  ASSUME ManagerInv, FrameInv, EventLoop
  PROVE  FrameSafe'
<1>1. CASE Accept
  <2>1. next_session_id' \in SessionIds
    BY <1>1, MaxSessionsAssumption
       DEF Accept, AddSession, ManagerInv, ManagerTypeOK, SessionIds
  <2> QED BY <1>1, <2>1, EnterBridgeFrame
          DEF Accept, FrameInv, FrameTypeOK, sessionVars
<1>2. CASE BridgeEvent
  BY <1>2, EnterBridgeFrame DEF BridgeEvent, FrameInv, FrameTypeOK, sessionVars
<1>3. ASSUME NEW session_id \in SessionIds, Disconnected(session_id)
      PROVE  FrameSafe'
  BY <1>3, EnterBridgeFrame DEF Disconnected, FrameInv, FrameTypeOK, sessionVars
<1>4. ASSUME NEW session_id \in SessionIds, NEW messages \in 1 .. MaxBatch,
             Read(session_id, messages)
      PROVE  FrameSafe'
  BY <1>4, MaxBatchAssumption, SessionIdsArePositive
     DEF Read, FrameSafe, FrameInv, FrameTypeOK, FrameAlive, DispatchOnlyLive, IsZombie,
         managerVars, sessionVars
<1> QED BY <1>1, <1>2, <1>3, <1>4 DEF EventLoop

LEMMA TimerFrame ==
  ASSUME FrameInv, TimerFires
  PROVE  FrameSafe'
BY DEF TimerFires, Timer, FrameSafe, FrameInv, FrameTypeOK, FrameAlive, DispatchOnlyLive,
       frameVars, sessionVars, HasRoom

LEMMA ParseFrame ==
  ASSUME ManagerInv, FrameInv, Parse
  PROVE  FrameSafe'
<1>1. /\ pc = "parse" /\ reader \in sessions /\ reader # NoSession /\ pending - 1 \in 0 .. MaxBatch
      /\ request = NoRequest
  <2>1. pc = "parse"
    BY DEF Parse, DispatchMessage, DispatchUserRequest, RejectUnexpected, ParseThrows
  <2> QED BY <2>1, ParseHasReader, MaxBatchAssumption DEF FrameInv, FrameTypeOK
<1>2. ASSUME NEW sender \in CompIds, DispatchMessage(sender)
      PROVE  FrameSafe'
  BY <1>1, <1>2
     DEF DispatchMessage, FrameSafe, FrameInv, FrameTypeOK, FrameAlive, DispatchOnlyLive,
         managerVars
<1>3. ASSUME NEW sender \in CompIds, NEW user_request \in UserRequests,
             DispatchUserRequest(sender, user_request)
      PROVE  FrameSafe'
  BY <1>1, <1>3
     DEF DispatchUserRequest, FrameSafe, FrameInv, FrameTypeOK, FrameAlive,
         DispatchOnlyLive, managerVars, HasRoom
<1>4. ASSUME NEW sender \in CompIds, RejectUnexpected(sender)
      PROVE  FrameSafe'
  BY <1>1, <1>4, NextMessageFrame, UnwindsFrame DEF RejectUnexpected, managerVars
<1>5. ASSUME NEW sender \in CompIds, ParseThrows(sender)
      PROVE  FrameSafe'
  BY <1>1, <1>5, UnwindsFrame DEF ParseThrows, managerVars
<1> QED BY <1>2, <1>3, <1>4, <1>5 DEF Parse

LEMMA AnswerFrame ==
  ASSUME ManagerInv, FrameInv, AnswerUserRequest
  PROVE  FrameSafe'
<1>1. pc = "user" /\ UserRequestDone
  BY DEF AnswerUserRequest, LogOnUser, LogOffUser, UnsupportedUserRequest
<1> QED
  BY <1>1, ParseHasReader, NextMessageFrame, UnwindsFrame
     DEF UserRequestDone, FrameInv, FrameTypeOK, managerVars

LEMMA EngineFrame ==
  ASSUME ManagerInv, SessionInv, FrameInv, Engine
  PROVE  FrameSafe'
<1>1. ASSUME NEW session_id \in SessionIds, ToSession(session_id)
      PROVE  FrameSafe'
  <2>1. HasRoom(session_id)
    BY <1>1, MaxSeqNumAssumption
       DEF ToSession, MaySend, HasRoom, SessionInv, SessionTypeOK
  <2>2. SendFacts({session_id})
    <3>1. {session_id} \in SUBSET SessionIds
      OBVIOUS
    <3> QED BY <1>1, <2>1, <3>1, DeliverFacts DEF ToSession
  <2>3. request # NoRequest => reader # NoSession /\ outbound'[reader] < MaxSeqNum
    <3>1. CASE reader = session_id
      BY <1>1, <2>2, <3>1 DEF ToSession, MaySend, SendFacts, FrameInv
    <3>2. CASE reader # session_id
      BY <1>1, <2>2, <3>2, ReaderIsSession DEF SendFacts, FrameInv, HasRoom
    <3> QED BY <3>1, <3>2
  <2> QED
    BY <1>1, <2>3
       DEF ToSession, FrameSafe, FrameInv, FrameTypeOK, FrameAlive, DispatchOnlyLive,
           frameVars, managerVars, HasRoom
<1>2. ASSUME NEW session_id \in SessionIds, DisconnectSession(session_id)
      PROVE  FrameSafe'
  <2>1. UNCHANGED sessions
    BY <1>2 DEF DisconnectSession, Close, MakeZombie, EnterZombie, managerVars
  <2> QED
    BY <1>2, <2>1
       DEF DisconnectSession, FrameSafe, FrameInv, FrameTypeOK, FrameAlive,
           DispatchOnlyLive, frameVars, sessionVars, HasRoom
<1>3. ASSUME NEW strategy_id \in StrategyIds, BroadcastReport(strategy_id)
      PROVE  FrameSafe'
  BY <1>3
     DEF BroadcastReport, FrameSafe, FrameInv, FrameTypeOK, FrameAlive, DispatchOnlyLive,
         managerVars, sessionVars, HasRoom, MaySend
<1>4. CASE HandlerThrows
  BY <1>4, UnwindsFrame DEF HandlerThrows, managerVars
<1> QED BY <1>1, <1>2, <1>3, <1>4 DEF Engine

LEMMA SendToAllFrame ==
  ASSUME ManagerInv, SessionInv, FrameInv, SendToAllSessions
  PROVE  FrameSafe'
<1>1. SendFacts(sessions)
  <2>1. \A session_id \in sessions : HasRoom(session_id)
    BY MaxSeqNumAssumption
       DEF SendToAllSessions, FrameInv, MaySend, HasRoom, SessionInv, SessionTypeOK,
           ManagerInv, ManagerTypeOK
  <2>2. sessions \in SUBSET SessionIds
    BY DEF ManagerInv, ManagerTypeOK
  <2> QED BY <2>1, <2>2, DeliverFacts DEF SendToAllSessions
<1>2. request # NoRequest => reader # NoSession /\ outbound'[reader] < MaxSeqNum
  BY <1>1, ReaderIsSession DEF SendToAllSessions, FrameInv, MaySend, SendFacts
<1> QED
  BY <1>2 DEF SendToAllSessions, FrameSafe, FrameInv, FrameTypeOK, FrameAlive,
              DispatchOnlyLive, managerVars, HasRoom

LEMMA BroadcastThrowsFrame ==
  ASSUME FrameInv, BroadcastThrows
  PROVE  FrameSafe'
BY UnwindsFrame DEF BroadcastThrows, managerVars

LEMMA BridgeReturnsFrame ==
  ASSUME ManagerInv, FrameInv, BridgeReturns
  PROVE  FrameSafe'
<1>1. CASE reader = NoSession
  BY <1>1, ReadReturnsFrame DEF BridgeReturns
<1>2. CASE reader # NoSession /\ request # NoRequest
  BY <1>2
     DEF BridgeReturns, FrameSafe, FrameInv, FrameTypeOK, FrameAlive, DispatchOnlyLive,
         managerVars, sessionVars, HasRoom
<1>3. CASE reader # NoSession /\ request = NoRequest
  BY <1>3, ReaderIsSession, NextMessageFrame DEF BridgeReturns, FrameInv, FrameTypeOK
<1> QED BY <1>1, <1>2, <1>3

LEMMA StutterFrame ==
  ASSUME FrameInv, DispatchOnlyLive, UNCHANGED vars
  PROVE  FrameSafe'
BY DEF vars, frameVars, managerVars, sessionVars, FrameSafe, FrameInv, FrameTypeOK,
       FrameAlive, DispatchOnlyLive, IsZombie, HasRoom, MaySend

LEMMA FrameStepInv ==
  ASSUME ManagerInv, SessionInv, FrameInv, DispatchOnlyLive, [Next]_vars
  PROVE  FrameInv' /\ DispatchOnlyLive'
<1>1. FrameSafe'
  BY EventLoopFrame, TimerFrame, ParseFrame, AnswerFrame, EngineFrame, SendToAllFrame,
     BroadcastThrowsFrame, BridgeReturnsFrame, ReadCatchesFrame, StutterFrame DEF Next
<1> QED BY <1>1 DEF FrameSafe

-----------------------------------------------------------------------------
(* Who changes routes, and what clients were told. *)

LEMMA ManagerStepFacts ==
  ASSUME ManagerInv, [ManagerNext]_managerVars
  PROVE  /\ next_session_id' \in Nat /\ next_session_id <= next_session_id'
         /\ \A session_id \in SessionIds : IsZombie(session_id) => IsZombie(session_id)'
         /\ \A session_id \in sessions' \ sessions : session_id > next_session_id
<1>1. CASE AddSession
  BY <1>1 DEF AddSession, ManagerInv, ManagerTypeOK, IsZombie
<1>2. ASSUME NEW session_id \in sessions, EnterZombie(session_id)
      PROVE  /\ UNCHANGED << next_session_id, sessions >>
             /\ \A other \in SessionIds : IsZombie(other) => IsZombie(other)'
  BY <1>2 DEF EnterZombie, ManagerInv, ManagerTypeOK, IsZombie, managerVars
<1>3. ASSUME NEW elapsed \in Elapsed, TimerEvent(elapsed)
      PROVE  /\ UNCHANGED << next_session_id, state >> /\ sessions' \subseteq sessions
  BY <1>3 DEF TimerEvent, RemoveZombies
<1>4. CASE UNCHANGED managerVars
  BY <1>4 DEF managerVars, ManagerInv, ManagerTypeOK, IsZombie
<1> QED
  BY <1>1, <1>2, <1>3, <1>4 DEF ManagerNext, ManagerInv, ManagerTypeOK, IsZombie

(***************************************************************************)
(* Outside UserRequests only the closing of a session changes routes, and  *)
(* only those of the session being closed.                                 *)
(***************************************************************************)
OnlyClosedLoseRoutes ==
  /\ \A session_id \in SessionIds :
       \/ session_id_to_strategy_id'[session_id] = session_id_to_strategy_id[session_id]
       \/ session_id \in sessions /\ ~ IsZombie(session_id) /\ IsZombie(session_id)'
  /\ \A strategy_id \in StrategyIds :
       LET before == strategy_id_to_session_id[strategy_id]
           after == strategy_id_to_session_id'[strategy_id]
       IN  \/ before = after
           \/ after = NoSession /\ ~ IsZombie(before) /\ state'[before] = "ZOMBIE"

LEMMA CloseRoutes ==
  ASSUME ManagerInv, RoutesInv, NEW session_id \in sessions,
         \/ Close(session_id)
         \/ MakeZombie(session_id)
  PROVE  OnlyClosedLoseRoutes
<1>1. CASE UNCHANGED routeVars
  BY <1>1 DEF OnlyClosedLoseRoutes, routeVars
<1>2. CASE ~ UNCHANGED routeVars
  <2>1. /\ RemoveAllRoutes(session_id) /\ EnterZombie(session_id)
        /\ ~ IsZombie(session_id) /\ session_id \in SessionIds
    BY <1>2 DEF Close, MakeZombie, IsZombie, ManagerInv, ManagerTypeOK
  <2>2. state' = [state EXCEPT ![session_id] = "ZOMBIE"]
    BY <2>1 DEF EnterZombie
  <2>3. IsZombie(session_id)'
    BY <2>1, <2>2 DEF IsZombie, ManagerInv, ManagerTypeOK
  <2>4. \A other \in SessionIds :
          \/ session_id_to_strategy_id'[other] = session_id_to_strategy_id[other]
          \/ other \in sessions /\ ~ IsZombie(other) /\ IsZombie(other)'
    BY <2>1, <2>3 DEF RemoveAllRoutes, RoutesInv, RoutesTypeOK
  <2>5. ASSUME NEW strategy_id \in StrategyIds,
               strategy_id_to_session_id'[strategy_id] # strategy_id_to_session_id[strategy_id]
        PROVE  /\ strategy_id_to_session_id'[strategy_id] = NoSession
               /\ strategy_id_to_session_id[strategy_id] = session_id
    BY <2>1, <2>5 DEF RemoveAllRoutes, RoutesInv, RoutesTypeOK, MapsAgree
  <2> QED
    BY <2>1, <2>3, <2>4, <2>5 DEF OnlyClosedLoseRoutes, IsZombie
<1> QED BY <1>1, <1>2

LEMMA OtherStepsRoutes ==
  ASSUME ManagerInv, RoutesInv, FrameInv, [Next]_vars, ~ AnswerUserRequest
  PROVE  OnlyClosedLoseRoutes /\ UNCHANGED told
<1>1. CASE UNCHANGED routeVars
  <2>1. OnlyClosedLoseRoutes
    BY <1>1 DEF OnlyClosedLoseRoutes, routeVars
  <2>2. UNCHANGED told
    BY DEF Next, EventLoop, TimerFires, Parse, Engine, SendToAllSessions, BroadcastThrows,
           BridgeReturns, ReadCatches, Accept, BridgeEvent, Disconnected, Read, Timer,
           DispatchMessage, DispatchUserRequest, RejectUnexpected, ParseThrows, ToSession,
           DisconnectSession, BroadcastReport, HandlerThrows, vars, sessionVars
  <2> QED BY <2>1, <2>2
<1>2. ASSUME NEW session_id \in SessionIds, Disconnected(session_id)
      PROVE  OnlyClosedLoseRoutes /\ UNCHANGED told
  BY <1>2, CloseRoutes DEF Disconnected, sessionVars
<1>3. CASE ReadCatches
  BY <1>3, ParseHasReader, CloseRoutes DEF ReadCatches, sessionVars
<1>4. ASSUME NEW session_id \in SessionIds, DisconnectSession(session_id)
      PROVE  OnlyClosedLoseRoutes /\ UNCHANGED told
  BY <1>4, CloseRoutes DEF DisconnectSession, Reachable, sessionVars
<1>5. CASE ~ UNCHANGED routeVars
  BY <1>2, <1>3, <1>4, <1>5
     DEF Next, EventLoop, TimerFires, Parse, Engine, SendToAllSessions, BroadcastThrows,
         BridgeReturns, Accept, BridgeEvent, Read, Timer, DispatchMessage,
         DispatchUserRequest, RejectUnexpected, ParseThrows, ToSession, BroadcastReport,
         HandlerThrows, vars
<1> QED BY <1>1, <1>5

LEMMA AnswerContext ==
  ASSUME ManagerInv, FrameInv, AnswerUserRequest
  PROVE  /\ pc = "user" /\ reader \in sessions /\ reader \in SessionIds
         /\ request.strategy_id \in StrategyIds /\ HasRoom(reader)
         /\ UNCHANGED managerVars
<1>1. pc = "user" /\ UNCHANGED managerVars
  BY DEF AnswerUserRequest, LogOnUser, LogOffUser, UnsupportedUserRequest, UserRequestDone
<1> QED
  BY <1>1, ParseHasReader DEF FrameInv, UserRequests, NoRequest, RequestTypes

(***************************************************************************)
(* A UserRequest changes the routes of the reader only, in both maps, and  *)
(* a client whose view is complete afterwards was told what happened.      *)
(***************************************************************************)
LEMMA AnswerRoutes ==
  ASSUME ManagerInv, RoutesInv, SessionInv, FrameInv, AnswerUserRequest
  PROVE  /\ \A strategy_id \in StrategyIds : MovedByOwner(strategy_id)
         /\ \A session_id \in SessionIds : session_id # reader =>
              /\ session_id_to_strategy_id'[session_id] = session_id_to_strategy_id[session_id]
              /\ told'[session_id] = told[session_id]
         /\ \A session_id \in SessionIds :
              /\ Complete(session_id)' /\ session_id = reader
              /\ told[session_id] = session_id_to_strategy_id[session_id]
              => told'[session_id] = session_id_to_strategy_id'[session_id]
<1> DEFINE requested == request.strategy_id
<1>1. /\ pc = "user" /\ reader \in SessionIds /\ requested \in StrategyIds
      /\ HasRoom(reader)
  BY AnswerContext
<1>2. /\ strategy_id_to_session_id \in [StrategyIds -> SessionIds \cup {NoSession}]
      /\ session_id_to_strategy_id \in [SessionIds -> SUBSET StrategyIds]
      /\ MapsAgree
  BY DEF RoutesInv, RoutesTypeOK
<1>3. ASSUME NEW status, SendUserResponse(status)
      PROVE  \A session_id \in SessionIds :
               /\ session_id # reader => told'[session_id] = told[session_id]
               /\ Complete(session_id)' /\ session_id = reader =>
                    told'[session_id] = Learns(told[session_id], status, requested)
  BY <1>1, <1>3, UserResponseFacts
<1>4. CASE LogOnUser /\ AddRouteSucceeds(requested)
  <2>1. /\ SendUserResponse("LOGGED_IN")
        /\ strategy_id_to_session_id' =
             [strategy_id_to_session_id EXCEPT ![requested] = reader]
        /\ session_id_to_strategy_id' =
             [session_id_to_strategy_id EXCEPT ![reader] = @ \cup {requested}]
    BY <1>4 DEF LogOnUser, AddRoute
  <2>2. \A strategy_id \in StrategyIds : MovedByOwner(strategy_id)
    BY <1>1, <1>2, <1>4, <2>1 DEF MovedByOwner, AddRouteSucceeds
  <2>3. \A session_id \in SessionIds : session_id # reader =>
          session_id_to_strategy_id'[session_id] = session_id_to_strategy_id[session_id]
    BY <1>1, <1>2, <2>1
  <2>4. session_id_to_strategy_id'[reader] = session_id_to_strategy_id[reader] \cup {requested}
    BY <1>1, <1>2, <2>1
  <2>5. \A session_id \in SessionIds :
          /\ session_id # reader => told'[session_id] = told[session_id]
          /\ Complete(session_id)' /\ session_id = reader =>
               told'[session_id] = told[session_id] \cup {requested}
    BY <1>3, <2>1 DEF Learns
  <2> QED BY <2>2, <2>3, <2>4, <2>5
<1>5. CASE LogOffUser /\ RemoveRouteSucceeds(reader, requested)
  <2>1. /\ SendUserResponse("NOT_LOGGED_IN")
        /\ strategy_id_to_session_id' =
             [strategy_id_to_session_id EXCEPT ![requested] = NoSession]
        /\ session_id_to_strategy_id' =
             [session_id_to_strategy_id EXCEPT ![reader] = @ \ {requested}]
    BY <1>5 DEF LogOffUser, RemoveRoute
  <2>2. \A strategy_id \in StrategyIds : MovedByOwner(strategy_id)
    BY <1>1, <1>2, <1>5, <2>1 DEF MovedByOwner, RemoveRouteSucceeds
  <2>3. \A session_id \in SessionIds : session_id # reader =>
          session_id_to_strategy_id'[session_id] = session_id_to_strategy_id[session_id]
    BY <1>1, <1>2, <2>1
  <2>4. session_id_to_strategy_id'[reader] = session_id_to_strategy_id[reader] \ {requested}
    BY <1>1, <1>2, <2>1
  <2>5. \A session_id \in SessionIds :
          /\ session_id # reader => told'[session_id] = told[session_id]
          /\ Complete(session_id)' /\ session_id = reader =>
               told'[session_id] = told[session_id] \ {requested}
    BY <1>3, <2>1 DEF Learns
  <2> QED BY <2>2, <2>3, <2>4, <2>5
<1>6. CASE /\ ~ (LogOnUser /\ AddRouteSucceeds(requested))
           /\ ~ (LogOffUser /\ RemoveRouteSucceeds(reader, requested))
  <2>1. SendUserResponse("OTHER") /\ UNCHANGED routeVars
    BY <1>6 DEF AnswerUserRequest, LogOnUser, LogOffUser, UnsupportedUserRequest,
                AddRoute, RemoveRoute
  <2>2. \A strategy_id \in StrategyIds : MovedByOwner(strategy_id)
    BY <2>1 DEF MovedByOwner, routeVars
  <2>3. \A session_id \in SessionIds :
          /\ session_id # reader => told'[session_id] = told[session_id]
          /\ Complete(session_id)' /\ session_id = reader =>
               told'[session_id] = told[session_id]
    <3>1. \A routes : Learns(routes, "OTHER", requested) = routes
      BY DEF Learns
    <3> HIDE DEF requested
    <3> QED BY <1>3, <2>1, <3>1
  <2> QED BY <2>1, <2>2, <2>3 DEF routeVars
<1> QED BY <1>4, <1>5, <1>6

-----------------------------------------------------------------------------
LEMMA LiveKnownStep ==
  ASSUME ManagerInv, FrameInv, LiveSessionsKnown, [Next]_vars
  PROVE  LiveSessionsKnown'
<1>1. CASE Accept
  BY <1>1 DEF Accept, AddSession, LiveSessionsKnown, IsZombie
<1>2. ASSUME NEW session_id \in SessionIds, Disconnected(session_id)
      PROVE  LiveSessionsKnown'
  <2>1. /\ sessions' = sessions /\ known' = known \ {session_id}
        /\ IsZombie(session_id)'
        /\ \A other \in SessionIds : IsZombie(other) => IsZombie(other)'
    BY <1>2 DEF Disconnected, MakeZombie, EnterZombie, IsZombie, ManagerInv,
                ManagerTypeOK, managerVars
  <2> QED BY <2>1 DEF LiveSessionsKnown, ManagerInv, ManagerTypeOK
<1>3. CASE /\ ~ Accept
           /\ ~ \E session_id \in SessionIds : Disconnected(session_id)
  <2>1. UNCHANGED known
    BY <1>3 DEF Next, EventLoop, TimerFires, Parse, AnswerUserRequest, Engine,
                SendToAllSessions, BroadcastThrows, BridgeReturns, ReadCatches,
                BridgeEvent, Read, Timer,
                DispatchMessage, DispatchUserRequest, RejectUnexpected, ParseThrows,
                LogOnUser, LogOffUser, UnsupportedUserRequest, UserRequestDone,
                ToSession, DisconnectSession, BroadcastReport, HandlerThrows, vars
  <2>2. sessions' \subseteq sessions
    <3>1. ASSUME NEW session_id, Close(session_id)
          PROVE  UNCHANGED sessions
      BY <3>1 DEF Close, MakeZombie, EnterZombie, managerVars
    <3>2. CASE TimerFires
      BY <3>2 DEF TimerFires, Timer, TimerEvent, RemoveZombies
    <3>3. CASE ~ TimerFires
      BY <1>3, <3>1, <3>3
         DEF Next, EventLoop, Parse, AnswerUserRequest, Engine, SendToAllSessions,
             BroadcastThrows, BridgeReturns, ReadCatches, BridgeEvent, Read, DispatchMessage, DispatchUserRequest,
             RejectUnexpected, ParseThrows, LogOnUser, LogOffUser,
             UnsupportedUserRequest, UserRequestDone, ToSession, DisconnectSession,
             BroadcastReport, HandlerThrows, vars, managerVars
    <3> QED BY <3>2, <3>3
  <2>3. \A session_id \in SessionIds : IsZombie(session_id) => IsZombie(session_id)'
    BY StepOfManager, ManagerStepFacts
  <2> QED BY <2>1, <2>2, <2>3 DEF LiveSessionsKnown, ManagerInv, ManagerTypeOK
<1> QED BY <1>1, <1>2, <1>3

(***************************************************************************)
(* A session outside sessions, not issued yet or destroyed, is out of      *)
(* reach of every step; only accepting it makes the engine know it.        *)
(***************************************************************************)
LEMMA AbsentKnown ==
  ASSUME ManagerInv, FrameInv, [Next]_vars, NEW session_id \in 1 .. next_session_id,
         session_id \notin sessions
  PROVE  (session_id \in known)' = (session_id \in known)
<1>1. CASE Accept
  BY <1>1 DEF Accept, AddSession, ManagerInv, ManagerTypeOK
<1>2. ASSUME NEW other \in SessionIds, Disconnected(other)
      PROVE  known' = known \ {other} /\ other # session_id
  BY <1>2 DEF Disconnected
<1>3. CASE /\ ~ Accept
           /\ ~ \E other \in SessionIds : Disconnected(other)
  BY <1>3 DEF Next, EventLoop, TimerFires, Parse, AnswerUserRequest, Engine,
              SendToAllSessions, BroadcastThrows, BridgeReturns, ReadCatches,
              BridgeEvent, Read, Timer, DispatchMessage, DispatchUserRequest, RejectUnexpected, ParseThrows,
              LogOnUser, LogOffUser, UnsupportedUserRequest, UserRequestDone,
              ToSession, DisconnectSession, BroadcastReport, HandlerThrows, vars
<1> QED BY <1>1, <1>2, <1>3

LEMMA AbsentUnchanged ==
  ASSUME ManagerInv, RoutesInv, SessionInv, FrameInv, [Next]_vars,
         NEW session_id \in SessionIds \ sessions
  PROVE  /\ session_id_to_strategy_id'[session_id] = session_id_to_strategy_id[session_id]
         /\ \A strategy_id \in StrategyIds :
              strategy_id_to_session_id'[strategy_id] = session_id
                <=> strategy_id_to_session_id[strategy_id] = session_id
         /\ comp_id'[session_id] = comp_id[session_id]
         /\ outbound'[session_id] = outbound[session_id]
         /\ seen'[session_id] = seen[session_id]
         /\ gap'[session_id] = gap[session_id]
         /\ told'[session_id] = told[session_id]
<1>1. PICK recipients \in SUBSET sessions : SessionEffect(recipients)
  BY StepEffect
<1>2. /\ outbound'[session_id] = outbound[session_id] /\ seen'[session_id] = seen[session_id]
      /\ gap'[session_id] = gap[session_id] /\ comp_id'[session_id] = comp_id[session_id]
      /\ told'[session_id] = told[session_id]
  BY <1>1 DEF SessionEffect, SendFacts
<1>3. session_id_to_strategy_id'[session_id] = session_id_to_strategy_id[session_id]
  <2>1. CASE AnswerUserRequest
    BY <2>1, AnswerRoutes, AnswerContext
  <2>2. CASE ~ AnswerUserRequest
    BY <2>2, OtherStepsRoutes DEF OnlyClosedLoseRoutes
  <2> QED BY <2>1, <2>2
<1>4. \A strategy_id \in StrategyIds :
        strategy_id_to_session_id'[strategy_id] = session_id
          <=> strategy_id_to_session_id[strategy_id] = session_id
  <2>1. MapsAgree /\ MapsAgree'
    BY StepOfRoutes, RoutesStepInv DEF RoutesInv
  <2> QED BY <1>3, <2>1 DEF MapsAgree
<1> QED BY <1>2, <1>3, <1>4

LEMMA AbsentUntouched ==
  ASSUME ManagerInv, RoutesInv, SessionInv, FrameInv, [Next]_vars,
         NEW session_id \in SessionIds \ sessions, Untouched(session_id)
  PROVE  Untouched(session_id)'
BY AbsentUnchanged DEF Untouched, StartsClean

LEMMA UnissuedStep ==
  ASSUME ManagerInv, RoutesInv, SessionInv, FrameInv, UnissuedUntouched, [Next]_vars
  PROVE  UnissuedUntouched'
<1> SUFFICES ASSUME NEW session_id \in SessionIds, session_id > next_session_id'
             PROVE  Untouched(session_id)'
  BY DEF UnissuedUntouched
<1>1. session_id > next_session_id
  BY StepOfManager, ManagerStepFacts DEF ManagerInv, ManagerTypeOK, SessionIds
<1>2. session_id \notin sessions
  BY <1>1 DEF ManagerInv, ManagerTypeOK, OnlyZombiesLeave
<1> QED BY <1>1, <1>2, AbsentUntouched DEF UnissuedUntouched

LEMMA ClientViewStep ==
  ASSUME Inv, [Next]_vars
  PROVE  ClientViewSound'
<1> USE DEF Inv
<1> SUFFICES ASSUME NEW session_id \in sessions', ~ IsZombie(session_id)',
                    Complete(session_id)'
             PROVE  told'[session_id] = session_id_to_strategy_id'[session_id]
  BY DEF ClientViewSound, Complete
<1>1. [ManagerNext]_managerVars /\ ManagerInv'
  BY StepOfManager, ManagerStepInv
<1>2. session_id \in SessionIds
  BY <1>1 DEF ManagerInv, ManagerTypeOK
<1>3. CASE session_id \notin sessions
  <2>1. Untouched(session_id)
    BY <1>1, <1>2, <1>3, ManagerStepFacts DEF UnissuedUntouched
  <2>2. Untouched(session_id)'
    BY <1>2, <1>3, <2>1, AbsentUntouched
  <2> QED BY <2>2 DEF Untouched, StartsClean
<1>4. CASE session_id \in sessions
  <2>1. ~ IsZombie(session_id)
    BY <1>1, <1>2, ManagerStepFacts
  <2>2. Complete(session_id)
    BY <1>2, StepEffect DEF SessionEffect
  <2>3. told[session_id] = session_id_to_strategy_id[session_id]
    BY <1>4, <2>1, <2>2 DEF ClientViewSound, Complete
  <2>4. CASE AnswerUserRequest
    BY <1>2, <2>3, <2>4, AnswerRoutes
  <2>5. CASE ~ AnswerUserRequest
    BY <1>2, <2>3, <2>5, OtherStepsRoutes DEF OnlyClosedLoseRoutes
  <2> QED BY <2>4, <2>5
<1> QED BY <1>3, <1>4

-----------------------------------------------------------------------------
LEMMA InitInv == Init => Inv
<1> SUFFICES ASSUME Init
             PROVE  Inv
  OBVIOUS
<1>1. RoutesInv /\ ManagerInv
  BY RoutesInitInv, ManagerInitInv DEF Init
<1>2. SessionInv
  BY MaxSeqNumAssumption, CompIdAssumption DEF Init, SessionInit, SessionInv, SessionTypeOK
<1>3. FrameInv /\ DispatchOnlyLive
  BY MaxBatchAssumption DEF Init, FrameInv, FrameTypeOK, FrameAlive, DispatchOnlyLive
<1>4. LiveSessionsKnown /\ ClientViewSound
  BY DEF Init, ManagerInit, LiveSessionsKnown, ClientViewSound
<1>5. UnissuedUntouched
  BY SessionIdsArePositive
     DEF Init, SessionInit, RoutesInit, UnissuedUntouched, Untouched, StartsClean
<1> QED BY <1>1, <1>2, <1>3, <1>4, <1>5 DEF Inv

LEMMA StepInv == Inv /\ [Next]_vars => Inv'
<1> SUFFICES ASSUME Inv, [Next]_vars
             PROVE  Inv'
  OBVIOUS
<1>1. RoutesInv /\ ManagerInv /\ SessionInv /\ FrameInv /\ LiveSessionsKnown
      /\ DispatchOnlyLive /\ UnissuedUntouched
  BY DEF Inv
<1>2. RoutesInv'
  BY <1>1, StepOfRoutes, RoutesStepInv
<1>3. ManagerInv'
  BY <1>1, StepOfManager, ManagerStepInv
<1>4. SessionInv'
  BY <1>1, StepEffect, SessionStepInv
<1>5. FrameInv' /\ DispatchOnlyLive'
  BY <1>1, FrameStepInv
<1>6. LiveSessionsKnown'
  BY <1>1, LiveKnownStep
<1>7. UnissuedUntouched'
  BY <1>1, UnissuedStep
<1>8. ClientViewSound'
  BY ClientViewStep
<1> QED BY <1>2, <1>3, <1>4, <1>5, <1>6, <1>7, <1>8 DEF Inv

LEMMA Invariance == Spec => []Inv
BY InitInv, StepInv, PTL DEF Spec

(***************************************************************************)
(* Every variable of the bridge keeps its type.                            *)
(***************************************************************************)
THEOREM TypeCorrect == Spec => []TypeOK
<1>1. Inv => TypeOK
  BY DEF Inv, RoutesInv, ManagerInv, SessionInv, FrameInv, TypeOK
<1> QED BY <1>1, Invariance, PTL

(***************************************************************************)
(* The session whose callback is running is not destroyed under it.        *)
(***************************************************************************)
THEOREM ReaderSurvives == Spec => []FrameAlive
<1>1. Inv => FrameAlive
  BY DEF Inv, FrameInv
<1> QED BY <1>1, Invariance, PTL

(***************************************************************************)
(* Only sessions that are alive, and that the engine knows, dispatch.      *)
(***************************************************************************)
THEOREM OnlyLiveDispatch == Spec => [](DispatchOnlyLive /\ LiveSessionsKnown)
<1>1. Inv => DispatchOnlyLive /\ LiveSessionsKnown
  BY DEF Inv
<1> QED BY <1>1, Invariance, PTL

(***************************************************************************)
(* The engine knows every session that is alive.                           *)
(***************************************************************************)
THEOREM LiveAlwaysKnown == Spec => []LiveSessionsKnown
BY OnlyLiveDispatch, PTL

(***************************************************************************)
(* A client that received every number knows its routes exactly.           *)
(***************************************************************************)
THEOREM ClientsKnowTheirRoutes == Spec => []ClientViewSound
<1>1. Inv => ClientViewSound
  BY DEF Inv
<1> QED BY <1>1, Invariance, PTL

(***************************************************************************)
(* Routes are moved by their owners only.                                  *)
(***************************************************************************)
THEOREM OwnersMoveRoutes == Spec => RoutesMoveByOwner
<1>1. Inv /\ [Next]_vars => [\A strategy_id \in StrategyIds : MovedByOwner(strategy_id)]_vars
  BY AnswerRoutes, OtherStepsRoutes DEF Inv, OnlyClosedLoseRoutes, MovedByOwner
<1> QED BY <1>1, Invariance, PTL DEF Spec, RoutesMoveByOwner

(***************************************************************************)
(* A closed session finishes the UserRequest it was closed in, and its     *)
(* routes never move again while it waits or after it is gone.             *)
(***************************************************************************)
THEOREM LateRequestsAreLast == Spec => LateRequestIsLast
<1> DEFINE Late(session_id) ==
      /\ session_id \in sessions => IsZombie(session_id)
      /\ session_id_to_strategy_id'[session_id] # session_id_to_strategy_id[session_id]
      => pc = "user" /\ reader = session_id /\ pc' \in {"idle", "catch"}
<1>1. Inv /\ [Next]_vars => [\A session_id \in SessionIds : Late(session_id)]_vars
  <2> SUFFICES ASSUME Inv, [Next]_vars, NEW session_id \in SessionIds,
                      session_id \in sessions => IsZombie(session_id),
                      session_id_to_strategy_id'[session_id]
                        # session_id_to_strategy_id[session_id]
               PROVE  pc = "user" /\ reader = session_id /\ pc' \in {"idle", "catch"}
    OBVIOUS
  <2>1. AnswerUserRequest
    BY OtherStepsRoutes DEF Inv, OnlyClosedLoseRoutes
  <2>2. pc = "user" /\ reader \in sessions /\ UserRequestDone
    BY <2>1, AnswerContext
       DEF Inv, AnswerUserRequest, LogOnUser, LogOffUser, UnsupportedUserRequest
  <2>3. reader = session_id
    BY <2>1, AnswerRoutes DEF Inv
  <2> QED BY <2>2, <2>3 DEF UserRequestDone, NextMessage, ReadReturns, Unwinds
<1> QED BY <1>1, Invariance, PTL DEF Spec, LateRequestIsLast

(***************************************************************************)
(* A new session inherits nothing.                                         *)
(***************************************************************************)
THEOREM NewSessionsInheritNothing == Spec => NewSessionsStartClean
<1>1. Inv /\ [Next]_vars =>
        [\A session_id \in sessions' \ sessions : StartsClean(session_id)]_vars
  <2> SUFFICES ASSUME Inv, [Next]_vars, NEW session_id \in sessions' \ sessions
               PROVE  StartsClean(session_id)
    OBVIOUS
  <2>1. ManagerInv /\ FrameInv /\ [ManagerNext]_managerVars /\ ManagerInv'
    BY StepOfManager, ManagerStepInv DEF Inv
  <2>2. session_id \in SessionIds /\ session_id > next_session_id
    BY <2>1, ManagerStepFacts DEF ManagerInv, ManagerTypeOK
  <2> QED BY <2>2 DEF Inv, UnissuedUntouched, Untouched
<1> QED BY <1>1, Invariance, PTL DEF Spec, NewSessionsStartClean

(***************************************************************************)
(* What is left of a destroyed session is never touched again.             *)
(***************************************************************************)
THEOREM DestroyedStayUntouched == Spec => DestroyedChangeNothing
<1>1. Inv /\ [Next]_vars =>
        [\A session_id \in (1 .. next_session_id) \ sessions : UNCHANGED TraceOf(session_id)]_vars
  <2> SUFFICES ASSUME Inv, [Next]_vars, NEW session_id \in (1 .. next_session_id) \ sessions
               PROVE  TraceOf(session_id)' = TraceOf(session_id)
    OBVIOUS
  <2>1. session_id \in SessionIds \ sessions
    BY MaxSessionsAssumption DEF Inv, ManagerInv, ManagerTypeOK, SessionIds
  <2>2. {strategy_id \in StrategyIds : strategy_id_to_session_id'[strategy_id] = session_id}
          = {strategy_id \in StrategyIds : strategy_id_to_session_id[strategy_id] = session_id}
    BY <2>1, AbsentUnchanged DEF Inv
  <2>3. (session_id \in known)' = (session_id \in known)
    BY AbsentKnown DEF Inv
  <2>4. /\ session_id_to_strategy_id'[session_id] = session_id_to_strategy_id[session_id]
        /\ comp_id'[session_id] = comp_id[session_id]
        /\ outbound'[session_id] = outbound[session_id]
        /\ seen'[session_id] = seen[session_id] /\ gap'[session_id] = gap[session_id]
        /\ told'[session_id] = told[session_id]
    BY <2>1, AbsentUnchanged DEF Inv
  <2> QED BY <2>2, <2>3, <2>4 DEF TraceOf
<1> QED BY <1>1, Invariance, PTL DEF Spec, DestroyedChangeNothing

(***************************************************************************)
(* A route whose session was destroyed before it was removed keeps its     *)
(* strategy for ever: no other client gets it, whatever is requested.      *)
(***************************************************************************)
LeakedStays(strategy_id) ==
  LET owner == strategy_id_to_session_id[strategy_id]
  IN  owner \in (1 .. next_session_id) \ sessions =>
        /\ strategy_id_to_session_id'[strategy_id] = owner
        /\ owner \in (1 .. next_session_id') \ sessions'

(***************************************************************************)
(* So a client that comes back cannot have the strategy it had             *)
(* (session.cpp:657).                                                      *)
(***************************************************************************)
THEOREM LeakedRoutesStay ==
  Spec => [][\A strategy_id \in StrategyIds : LeakedStays(strategy_id)]_vars
<1>1. Inv /\ [Next]_vars => [\A strategy_id \in StrategyIds : LeakedStays(strategy_id)]_vars
  <2> SUFFICES ASSUME Inv, [Next]_vars, NEW strategy_id \in StrategyIds,
                      NEW owner, owner = strategy_id_to_session_id[strategy_id],
                      owner \in (1 .. next_session_id) \ sessions
               PROVE  /\ strategy_id_to_session_id'[strategy_id] = owner
                      /\ owner \in (1 .. next_session_id') \ sessions'
    BY DEF LeakedStays
  <2>1. owner \in SessionIds \ sessions
    BY MaxSessionsAssumption DEF Inv, ManagerInv, ManagerTypeOK, SessionIds
  <2>2. strategy_id_to_session_id'[strategy_id] = owner
    BY <2>1, AbsentUnchanged DEF Inv
  <2>3. owner \notin sessions' /\ next_session_id <= next_session_id' /\ next_session_id' \in Nat
    BY <2>1, StepOfManager, ManagerStepFacts DEF Inv, ManagerInv, ManagerTypeOK, SessionIds
  <2> QED BY <2>1, <2>2, <2>3 DEF SessionIds, Inv, ManagerInv, ManagerTypeOK
<1> QED BY <1>1, Invariance, PTL DEF Spec

(***************************************************************************)
(* The assertion that a message names its target can fail for the          *)
(* broadcast of an ExecutionReport only: all else is sent to sessions that *)
(* have spoken, the answer to a UserRequest too.                           *)
(***************************************************************************)
ReaderNamed == request # NoRequest => comp_id[reader] # NoCompId

NamedUnlessBroadcast ==
  \A session_id \in SessionIds :
    outbound'[session_id] # outbound[session_id] /\ comp_id'[session_id] = NoCompId
      => pc = "broadcast"

LEMMA ChecksName ==
  ASSUME SessionTypeOK, NEW sender \in CompIds, reader \in SessionIds, Check(reader, sender)
  PROVE  comp_id'[reader] # NoCompId
BY CompIdAssumption DEF SessionTypeOK, Check

LEMMA ReaderNamedStep ==
  ASSUME Inv, ReaderNamed, [Next]_vars
  PROVE  ReaderNamed'
<1>1. ManagerInv /\ FrameInv /\ SessionTypeOK
  BY DEF Inv, SessionInv
<1>2. CASE Parse
  <2>1. PICK sender \in CompIds :
          \/ DispatchMessage(sender)
          \/ \E user_request \in UserRequests : DispatchUserRequest(sender, user_request)
          \/ RejectUnexpected(sender)
          \/ ParseThrows(sender)
    BY <1>2 DEF Parse
  <2>2. pc = "parse" /\ reader \in SessionIds /\ request = NoRequest
    <3>1. pc = "parse"
      BY <2>1 DEF DispatchMessage, DispatchUserRequest, RejectUnexpected, ParseThrows
    <3> QED BY <1>1, <3>1, ParseHasReader DEF FrameInv
  <2>3. CASE request' = NoRequest
    BY <2>3 DEF ReaderNamed, NoRequest
  <2>4. CASE \E user_request \in UserRequests : DispatchUserRequest(sender, user_request)
    <3>1. Check(reader, sender) /\ reader' = reader
      BY <2>4 DEF DispatchUserRequest
    <3> QED BY <1>1, <2>2, <3>1, ChecksName DEF ReaderNamed
  <2>5. CASE DispatchMessage(sender) \/ RejectUnexpected(sender) \/ ParseThrows(sender)
    BY <2>2, <2>3, <2>5 DEF DispatchMessage, RejectUnexpected, ParseThrows, NextMessage, ReadReturns,
                                Unwinds
  <2> QED BY <2>1, <2>4, <2>5
<1>3. CASE ~ Parse
  <2>1. UNCHANGED comp_id
    BY <1>3 DEF Next, EventLoop, TimerFires, AnswerUserRequest, Engine, SendToAllSessions,
                BroadcastThrows, BridgeReturns, ReadCatches, Accept, BridgeEvent, Disconnected, Read, Timer, LogOnUser,
                LogOffUser, UnsupportedUserRequest, UserRequestDone, ToSession,
                DisconnectSession, BroadcastReport, HandlerThrows, vars, sessionVars
  <2>2. request' = NoRequest \/ UNCHANGED << request, reader >>
           \/ (request' = request /\ request = NoRequest)
    BY <1>1, <1>3 DEF Next, EventLoop, TimerFires, AnswerUserRequest, Engine, SendToAllSessions,
                BroadcastThrows, BridgeReturns, ReadCatches, Unwinds, Accept, BridgeEvent, Disconnected, Read, Timer, LogOnUser,
                LogOffUser, UnsupportedUserRequest, UserRequestDone, ToSession,
                DisconnectSession, BroadcastReport, HandlerThrows, EnterBridge, NextMessage,
                ReadReturns, FrameInv, vars, frameVars
  <2> QED BY <2>1, <2>2 DEF ReaderNamed, NoRequest
<1> QED BY <1>2, <1>3

(***************************************************************************)
(* So the assertion of send_helper holds for every message but the         *)
(* broadcast.                                                              *)
(***************************************************************************)
THEOREM OnlyBroadcastsUnnamed == Spec => [][NamedUnlessBroadcast]_vars
<1>1. Init => ReaderNamed
  BY DEF Init, ReaderNamed
<1>2. Inv /\ ReaderNamed /\ [Next]_vars => [NamedUnlessBroadcast]_vars
  <2> SUFFICES ASSUME Inv, ReaderNamed, Next, NEW session_id \in SessionIds,
                      outbound'[session_id] # outbound[session_id],
                      comp_id'[session_id] = NoCompId
               PROVE  pc = "broadcast"
    BY DEF NamedUnlessBroadcast
  <2>1. ManagerInv /\ FrameInv /\ SessionInv /\ SessionTypeOK
    BY DEF Inv, SessionInv
  <2>2. ASSUME NEW recipient \in SessionIds, Deliver({recipient}), HasRoom(recipient)
        PROVE  session_id = recipient
    <3>1. SendFacts({recipient})
      BY <2>1, <2>2, DeliverFacts
    <3> QED BY <3>1 DEF SendFacts
  <2>3. ASSUME NEW sender \in CompIds, RejectUnexpected(sender)
        PROVE  FALSE
    <3>1. reader \in SessionIds /\ HasRoom(reader) /\ Deliver({reader}) /\ Check(reader, sender)
      BY <2>1, <2>3, ParseHasReader DEF RejectUnexpected
    <3> QED BY <2>1, <2>2, <3>1, ChecksName
  <2>4. ASSUME NEW recipient \in SessionIds, ToSession(recipient)
        PROVE  FALSE
    <3>1. /\ Deliver({recipient}) /\ UNCHANGED comp_id /\ comp_id[recipient] # NoCompId
          /\ MaySend(recipient)
      BY <2>4 DEF ToSession
    <3>2. HasRoom(recipient)
      BY <2>1, <3>1, MaxSeqNumAssumption DEF MaySend, HasRoom, SessionTypeOK
    <3> QED BY <2>2, <3>1, <3>2
  <2>5. CASE AnswerUserRequest
    <3>1. /\ reader \in SessionIds /\ HasRoom(reader) /\ request.strategy_id \in StrategyIds
          /\ request # NoRequest /\ UNCHANGED comp_id
      BY <2>1, <2>5, AnswerContext
         DEF AnswerUserRequest, LogOnUser, LogOffUser, UnsupportedUserRequest, UserRequestDone,
             NoRequest
    <3>2. PICK status : SendUserResponse(status)
      BY <2>5 DEF AnswerUserRequest, LogOnUser, LogOffUser, UnsupportedUserRequest
    <3>3. SendFacts({reader})
      BY <2>1, <3>1, <3>2, UserResponseFacts
    <3>4. session_id = reader
      BY <3>3 DEF SendFacts
    <3> QED BY <3>1, <3>4 DEF ReaderNamed
  <2> QED
    BY <2>3, <2>4, <2>5
       DEF Next, EventLoop, TimerFires, Parse, Engine, SendToAllSessions, BroadcastThrows,
           BridgeReturns, ReadCatches, Accept, BridgeEvent, Disconnected, Read, Timer,
           DispatchMessage, DispatchUserRequest, ParseThrows, DisconnectSession,
           BroadcastReport, HandlerThrows, sessionVars
<1> QED BY <1>1, <1>2, ReaderNamedStep, Invariance, PTL DEF Spec

(***************************************************************************)
(* The steps a handler has before it are numbered: every step of the       *)
(* bridge's own code brings the end of the handler closer, and what the    *)
(* engine does before it returns never takes it further away.  A handler   *)
(* goes on for ever only if the engine never returns.                      *)
(***************************************************************************)
Work ==
  CASE pc = "idle" -> 0
    [] pc = "catch" -> 1
    [] pc = "parse" -> 4 * pending
    [] pc = "user" -> 4 * pending + 2
    [] pc \in {"bridge", "broadcast"} -> 4 * pending + 3

Shrinks ==
  pc # "idle" =>
    \/ Work' < Work
    \/ Work' = Work /\ {pc, pc'} \subseteq {"bridge", "broadcast"}

(***************************************************************************)
(* Each step of a running handler leaves it less to do, or is one of the   *)
(* engine's, which returns sooner or later.                                *)
(***************************************************************************)
THEOREM HandlersShrink == Spec => [][Shrinks]_vars
<1>1. Inv /\ [Next]_vars => [Shrinks]_vars
  <2> SUFFICES ASSUME Inv, Next, pc # "idle" PROVE Shrinks
    BY DEF Shrinks
  <2>1. pending \in Nat /\ (pc = "parse" => pending > 0)
    BY DEF Inv, FrameInv, FrameTypeOK
  <2>2. ASSUME NEW left \in Nat, NextMessage(left)
        PROVE  Work' \in 0 .. 4 * left
    BY <2>2 DEF NextMessage, ReadReturns, Work
  <2>3. /\ ReadReturns => Work' = 0
        /\ Unwinds => Work' = 1
    BY DEF ReadReturns, Unwinds, Work
  <2>4. CASE Parse
    <3>1. ASSUME NEW sender \in CompIds, RejectUnexpected(sender)
          PROVE  pc = "parse" /\ (Work' = 1 \/ Work' \in 0 .. 4 * (pending - 1))
      <4>1. pc = "parse" /\ pending - 1 \in Nat /\ (Unwinds \/ NextMessage(pending - 1))
        BY <2>1, <3>1 DEF RejectUnexpected
      <4> QED BY <2>2, <2>3, <4>1
    <3>2. ASSUME NEW sender \in CompIds,
                 \/ DispatchMessage(sender)
                 \/ \E user_request \in UserRequests : DispatchUserRequest(sender, user_request)
          PROVE  pc = "parse" /\ Work' = 4 * (pending - 1) + 3
      BY <3>2 DEF DispatchMessage, DispatchUserRequest, Work
    <3>3. ASSUME NEW sender \in CompIds, ParseThrows(sender)
          PROVE  pc = "parse" /\ Work' = 1
      BY <2>3, <3>3 DEF ParseThrows
    <3>4. pc = "parse" /\ Work' \in Int /\ Work' < 4 * pending
      <4>1. pc = "parse" => 4 * (pending - 1) + 3 < 4 * pending /\ 1 < 4 * pending
        BY <2>1
      <4> QED BY <2>1, <2>4, <3>1, <3>2, <3>3, <4>1 DEF Parse
    <3>5. Work = 4 * pending
      BY <3>4 DEF Work
    <3> QED BY <3>4, <3>5 DEF Shrinks
  <2>5. CASE AnswerUserRequest
    <3>1. pc = "user" /\ (Unwinds \/ NextMessage(pending))
      BY <2>5 DEF AnswerUserRequest, LogOnUser, LogOffUser, UnsupportedUserRequest, UserRequestDone
    <3>2. Work = 4 * pending + 2
      BY <3>1 DEF Work
    <3>3. Work' = 1 \/ Work' \in 0 .. 4 * pending
      BY <2>1, <2>2, <2>3, <3>1
    <3> QED BY <2>1, <3>2, <3>3 DEF Shrinks
  <2>6. CASE HandlerThrows \/ BroadcastThrows
    <3>1. pc \in {"bridge", "broadcast", "user"} /\ Work' = 1
      BY <2>3, <2>6 DEF HandlerThrows, BroadcastThrows
    <3>2. Work > 1
      BY <2>1, <3>1 DEF Work
    <3> QED BY <3>1, <3>2 DEF Shrinks
  <2>7. CASE BridgeReturns
    <3>1. pc = "bridge" /\ Work = 4 * pending + 3
      BY <2>7 DEF BridgeReturns, Work
    <3>2. CASE pc' = "user" /\ pending' = pending
      BY <2>1, <3>1, <3>2 DEF Work, Shrinks
    <3>3. CASE ReadReturns \/ NextMessage(pending)
      BY <2>1, <2>2, <2>3, <3>1, <3>3 DEF Shrinks
    <3> QED BY <2>7, <3>2, <3>3 DEF BridgeReturns
  <2>8. CASE ReadCatches
    <3>1. Work = 1 /\ Work' = 0
      BY <2>3, <2>8 DEF ReadCatches, Work
    <3> QED BY <3>1 DEF Shrinks
  <2>9. CASE /\ ~ Parse /\ ~ AnswerUserRequest /\ ~ HandlerThrows /\ ~ BroadcastThrows
             /\ ~ BridgeReturns /\ ~ ReadCatches
    <3>1. pending' = pending /\ pc \in {"bridge", "broadcast"} /\ pc' \in {"bridge", "broadcast"}
      BY <2>9 DEF Next, Engine, EventLoop, TimerFires, Accept, BridgeEvent, Disconnected, Timer,
                  Read, ToSession, DisconnectSession, BroadcastReport, SendToAllSessions, frameVars
    <3> QED BY <3>1 DEF Shrinks, Work
  <2> QED BY <2>4, <2>5, <2>6, <2>7, <2>8, <2>9
<1> QED BY <1>1, Invariance, PTL DEF Spec

(***************************************************************************)
(* Every session of the bridge goes through the life cycle of SessionLife, *)
(* because the session manager alone was shown to keep to it.              *)
(***************************************************************************)
THEOREM BridgeImplementsLife == Spec => ImplementsSessionSafety
<1>1. Inv /\ [Next]_vars => [ManagerNext]_managerVars
  BY StepOfManager DEF Inv
<1>2. Init => ManagerInit
  BY DEF Init
<1>3. Spec => ManagerSafety
  BY <1>1, <1>2, Invariance, PTL DEF Spec, ManagerSafety
<1> QED BY <1>3, ManagerImplementsLife
=============================================================================

------------------------------ MODULE Session -------------------------------
(***************************************************************************)
(* The outbound half of every Session: comp_id_, the outbound sequence     *)
(* number, and what of it reaches the client.                              *)
(*                                                                         *)
(* The inbound sequence number is in Inbound: check() logs a gap or a      *)
(* replay and goes on with whatever number came, so nothing here depends   *)
(* on it.  A message on the wire is its sequence number and what the       *)
(* client learns from it about its routes.                                 *)
(***************************************************************************)
EXTENDS Identifiers

CONSTANTS
  CompIds,     \* the sender_comp_id of clients
  NoCompId,    \* the empty string
  MaxSeqNum    \* bound: messages a session sends

ASSUME CompIdAssumption == CompIds # {} /\ NoCompId \notin CompIds
ASSUME MaxSeqNumAssumption == MaxSeqNum \in Nat

VARIABLES
  comp_id,     \* Session::comp_id_
  outbound,    \* Session::outbound_.msg_seq_num
  seen,        \* the sequence number of the last message the client received
  gap,         \* whether the client has received a number out of turn
  told         \* the strategies UserResponses told the client it is logged in to

sessionVars == << comp_id, outbound, seen, gap, told >>

SessionTypeOK ==
  /\ comp_id \in [SessionIds -> CompIds \cup {NoCompId}]
  /\ outbound \in [SessionIds -> 0 .. MaxSeqNum]
  /\ seen \in [SessionIds -> 0 .. MaxSeqNum]
  /\ gap \in [SessionIds -> BOOLEAN]
  /\ told \in [SessionIds -> SUBSET StrategyIds]

SessionInit ==
  /\ comp_id = [session_id \in SessionIds |-> NoCompId]
  /\ outbound = [session_id \in SessionIds |-> 0]
  /\ seen = [session_id \in SessionIds |-> 0]
  /\ gap = [session_id \in SessionIds |-> FALSE]
  /\ told = [session_id \in SessionIds |-> {}]

(***************************************************************************)
(* check(): the first message names the client.  That later ones repeat    *)
(* the name is an assertion, not a condition.                              *)
(***************************************************************************)
Check(session_id, sender) ==
  comp_id' = [comp_id EXCEPT ![session_id] = IF @ = NoCompId THEN sender ELSE @]

HasRoom(session_id) == outbound[session_id] < MaxSeqNum

\* Mutant: the number is used up only when the message went out.
SendHelperCountsDelivered(recipients, delivered) ==
  /\ outbound' = [session_id \in SessionIds |->
                    outbound[session_id] + (IF session_id \in delivered THEN 1 ELSE 0)]
  /\ seen' = [session_id \in SessionIds |->
                IF session_id \in delivered
                  THEN outbound[session_id] + 1 ELSE seen[session_id]]
  /\ UNCHANGED gap

(***************************************************************************)
(* send_helper() on each recipient: the number is used up whether or not   *)
(* the connection takes the message, and a refusal is only logged.  The    *)
(* connections of `delivered' took it.                                     *)
(***************************************************************************)
SendHelper(recipients, delivered) ==
  /\ outbound' = [session_id \in SessionIds |->
                    outbound[session_id] + (IF session_id \in recipients THEN 1 ELSE 0)]
  /\ seen' = [session_id \in SessionIds |->
                IF session_id \in delivered
                  THEN outbound[session_id] + 1 ELSE seen[session_id]]
  /\ gap' = [session_id \in SessionIds |->
               \/ gap[session_id]
               \/ session_id \in delivered /\ outbound[session_id] # seen[session_id]]
=============================================================================

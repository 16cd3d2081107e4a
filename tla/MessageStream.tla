--------------------------- MODULE MessageStream ----------------------------
(***************************************************************************)
(* What a session promises about the messages of its client: they are      *)
(* handled in the order they were sent, each once, none is passed over,    *)
(* none after the session was closed, and none that arrived waits for ever.*)
(***************************************************************************)
EXTENDS Integers

CONSTANT MaxMessages   \* bound: messages of one client

VARIABLES
  available,   \* the messages that have arrived completely
  handled,     \* the number of the last message handled
  closed

streamVars == << available, handled, closed >>

StreamInit == available = {} /\ handled = 0 /\ closed = FALSE

Arrive ==
  /\ available' \in SUBSET (1 .. MaxMessages) /\ available \subseteq available'
  /\ UNCHANGED << handled, closed >>

\* A message may get the session closed.
Handle ==
  /\ ~ closed /\ handled + 1 \in available
  /\ handled' = handled + 1 /\ closed' \in BOOLEAN
  /\ UNCHANGED available

Shut == closed' = TRUE /\ UNCHANGED << available, handled >>

StreamNext == Arrive \/ Handle \/ Shut

StreamSafety == StreamInit /\ [][StreamNext]_streamVars
StreamSpec == StreamSafety /\ WF_streamVars(Handle)
=============================================================================

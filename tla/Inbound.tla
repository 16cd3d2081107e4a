------------------------------ MODULE Inbound -------------------------------
(***************************************************************************)
(* The receive buffer of a Session: bytes arrive in pieces of any size,    *)
(* and Read cuts the complete messages out of them.  FixBridge starts from *)
(* the batches this produces.                                              *)
(*                                                                         *)
(* A byte is its position in the stream.  Message i takes the bytes from   *)
(* ends[i - 1] to ends[i]; buffer_ holds those from drained to appended,   *)
(* and the span `buffer' begins total_bytes further.                       *)
(*                                                                         *)
(* The client chooses the sequence numbers of its messages; check() looks  *)
(* at them and logs what is out of turn, and the message is handled all    *)
(* the same.                                                               *)
(***************************************************************************)
EXTENDS Integers

CONSTANTS
  MaxMessages,   \* bound: messages of the client
  MaxBytes,      \* bound: bytes of all its messages
  MaxSeqNum      \* bound: sequence numbers

ASSUME MaxMessagesAssumption == MaxMessages \in Nat
ASSUME MaxBytesAssumption == MaxBytes \in Nat
ASSUME MaxSeqNumAssumption == MaxSeqNum \in Nat

VARIABLES
  ends,
  arrived,       \* bytes the connection has received
  appended,      \* bytes that went into buffer_
  drained,       \* bytes that were drained from buffer_
  reading,       \* a Read is on the stack
  total_bytes,
  handled,       \* the message dispatched last
  closed,        \* state_ == ZOMBIE
  numbers,       \* the sequence numbers of the messages
  msg_seq_num,   \* inbound_.msg_seq_num
  warned         \* check() has logged a gap or a replay

numberVars == << numbers, msg_seq_num, warned >>
vars == << ends, arrived, appended, drained, reading, total_bytes, handled, closed, numberVars >>

Messages == 1 .. MaxMessages

Streams ==
  {stream \in [0 .. MaxMessages -> 0 .. MaxBytes] :
     /\ stream[0] = 0
     /\ \A i, j \in 0 .. MaxMessages : i < j => stream[i] < stream[j]}

Start == drained + total_bytes

(***************************************************************************)
(* What Reader::dispatch finds at the beginning of the span: a complete    *)
(* message, when the span begins where a message does.                     *)
(***************************************************************************)
Complete(i) == ends[i] <= appended
IsNext(i) == ends[i - 1] = Start /\ Complete(i)

(***************************************************************************)
(* The span and what is drained stay within the buffer: the assertion of   *)
(* the loop, bytes <= std::size(buffer).                                   *)
(***************************************************************************)
BufferTypeOK ==
  /\ ends \in Streams
  /\ arrived \in 0 .. ends[MaxMessages]
  /\ appended \in 0 .. arrived
  /\ drained \in 0 .. appended
  /\ total_bytes \in 0 .. appended - drained
  /\ handled \in 0 .. MaxMessages
  /\ reading \in BOOLEAN /\ closed \in BOOLEAN

InboundTypeOK ==
  /\ BufferTypeOK
  /\ numbers \in [Messages -> 0 .. MaxSeqNum]
  /\ msg_seq_num \in 0 .. MaxSeqNum
  /\ warned \in BOOLEAN

Init ==
  /\ ends \in Streams
  /\ arrived = 0 /\ appended = 0 /\ drained = 0
  /\ reading = FALSE /\ total_bytes = 0
  /\ handled = 0 /\ closed = FALSE
  /\ numbers \in [Messages -> 0 .. MaxSeqNum] /\ msg_seq_num = 0 /\ warned = FALSE

BytesArrive ==
  /\ arrived' \in arrived + 1 .. ends[MaxMessages]
  /\ UNCHANGED << ends, appended, drained, reading, total_bytes, handled, closed, numberVars >>

(***************************************************************************)
(* Read, up to the loop.  A closed session returns.                        *)
(***************************************************************************)
Read ==
  /\ ~ reading /\ ~ closed
  /\ appended' \in appended + 1 .. arrived
  /\ reading' = TRUE
  /\ UNCHANGED << ends, arrived, drained, total_bytes, handled, closed, numberVars >>

\* Mutant: only a number out of turn is remembered.
CheckKeepsPrevious(i) ==
  /\ msg_seq_num' = IF numbers[i] = msg_seq_num + 1 THEN msg_seq_num ELSE numbers[i]
  /\ warned' = (warned \/ numbers[i] # msg_seq_num + 1)
  /\ UNCHANGED numbers

(***************************************************************************)
(* check(), what it does about the number.                                 *)
(***************************************************************************)
Check(i) ==
  /\ msg_seq_num' = numbers[i]
  /\ warned' = (warned \/ numbers[i] # msg_seq_num + 1)
  /\ UNCHANGED numbers

(***************************************************************************)
(* The loop dispatches a message, during which the session may be closed.  *)
(***************************************************************************)
Dispatch(i) ==
  /\ reading /\ ~ closed
  /\ IsNext(i)
  /\ handled' = i /\ Check(i)
  /\ total_bytes' = total_bytes + ends[i] - ends[i - 1]
  /\ closed' \in BOOLEAN
  /\ UNCHANGED << ends, arrived, appended, drained, reading >>

\* Mutant: handles one message for each Read.
LoopEndsAfterOne == closed \/ total_bytes > 0 \/ ~ \E i \in Messages : IsNext(i)

LoopEnds == closed \/ ~ \E i \in Messages : IsNext(i)

\* Mutant: total_bytes outlives the Read.
ReadReturnsKeepsTotal ==
  /\ reading /\ LoopEnds
  /\ drained' = drained + total_bytes
  /\ reading' = FALSE
  /\ UNCHANGED << ends, arrived, appended, total_bytes, handled, closed, numberVars >>

ReadReturns ==
  /\ reading /\ LoopEnds
  /\ drained' = drained + total_bytes
  /\ reading' = FALSE /\ total_bytes' = 0
  /\ UNCHANGED << ends, arrived, appended, handled, closed, numberVars >>

\* Mutant: the catch clauses log the exception and keep the session.
ReadThrowsStaysOpen ==
  /\ reading /\ ~ closed /\ Start < appended
  /\ \/ UNCHANGED << handled, numberVars >>
     \/ \E i \in Messages : IsNext(i) /\ handled' = i /\ Check(i)
  /\ reading' = FALSE /\ total_bytes' = 0
  /\ UNCHANGED << ends, arrived, appended, drained, closed >>

(***************************************************************************)
(* The reader throws, or the handler of the next message does: the buffer  *)
(* is not drained, and the session is closed.                              *)
(***************************************************************************)
ReadThrows ==
  /\ reading /\ ~ closed /\ Start < appended
  /\ \/ UNCHANGED << handled, numberVars >>
     \/ \E i \in Messages : IsNext(i) /\ handled' = i /\ Check(i)
  /\ closed' = TRUE
  /\ reading' = FALSE /\ total_bytes' = 0
  /\ UNCHANGED << ends, arrived, appended, drained >>

\* The session is closed between two Reads.
CloseSession ==
  /\ ~ reading /\ ~ closed
  /\ closed' = TRUE
  /\ UNCHANGED << ends, arrived, appended, drained, reading, total_bytes, handled, numberVars >>

DispatchNext == \E i \in Messages : Dispatch(i)

Next == BytesArrive \/ Read \/ DispatchNext \/ ReadReturns \/ ReadThrows \/ CloseSession

(***************************************************************************)
(* The event loop calls Read while there are bytes to read, and a Read     *)
(* goes on.                                                                *)
(***************************************************************************)
Spec ==
  /\ Init /\ [][Next]_vars
  /\ WF_vars(Read) /\ WF_vars(DispatchNext) /\ WF_vars(ReadReturns)

-----------------------------------------------------------------------------
(***************************************************************************)
(* Between two Reads of an open session no complete message is left in the *)
(* buffer: one that was would wait for bytes of a later message.           *)
(***************************************************************************)
NothingWithheld ==
  ~ reading /\ ~ closed => \A i \in Messages : Complete(i) => i <= handled

(***************************************************************************)
(* check() is silent exactly as long as the messages handled are numbered  *)
(* from 1 without a gap: a message that was lost or sent again cannot pass *)
(* unnoticed, nor a warning be a false alarm, however the reads fall.      *)
(***************************************************************************)
NoticesGaps == ~ warned <=> \A i \in 1 .. handled : numbers[i] = i

(***************************************************************************)
(* Read and its buffer implement MessageStream, however the bytes of the   *)
(* messages are cut into pieces.  The first form is the safety part.       *)
(***************************************************************************)
Arrived == {i \in Messages : ends[i] <= arrived}

Stream == INSTANCE MessageStream WITH available <- Arrived
ImplementsStreamSafety == Stream!StreamSafety
ImplementsStream == Stream!StreamSpec
=============================================================================

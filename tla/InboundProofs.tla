--------------------------- MODULE InboundProofs ----------------------------
(***************************************************************************)
(* Proofs about Inbound, for streams of any length.  While a session is    *)
(* open, the span begins exactly where the last message handled ends; that *)
(* is what makes the next message the next one of the stream, and what the *)
(* missing drain after an exception would break if the session stayed open.*)
(***************************************************************************)
EXTENDS Inbound, TLAPS

AtBoundary ==
  /\ ~ closed => Start = ends[handled]
  /\ ends[handled] <= appended
  /\ ~ reading => total_bytes = 0

Inv == BufferTypeOK /\ AtBoundary /\ NothingWithheld

USE MaxMessagesAssumption, MaxBytesAssumption

LEMMA StreamFacts ==
  ASSUME ends \in Streams
  PROVE  /\ \A i \in 0 .. MaxMessages : ends[i] \in 0 .. MaxBytes
         /\ \A i, j \in 0 .. MaxMessages : i < j => ends[i] < ends[j]
         /\ \A i, j \in 0 .. MaxMessages : ends[i] = ends[j] => i = j
         /\ ends[0] = 0
<1>1. /\ \A i \in 0 .. MaxMessages : ends[i] \in 0 .. MaxBytes
      /\ \A i, j \in 0 .. MaxMessages : i < j => ends[i] < ends[j]
      /\ ends[0] = 0
  BY DEF Streams
<1>2. ASSUME NEW i \in 0 .. MaxMessages, NEW j \in 0 .. MaxMessages, ends[i] = ends[j]
      PROVE  i = j
  <2>1. ends[i] \in 0 .. MaxBytes /\ ends[j] \in 0 .. MaxBytes
    BY <1>1
  <2>2. ~ i < j /\ ~ j < i
    BY <1>1, <1>2, <2>1
  <2> QED BY <2>2
<1> QED BY <1>1, <1>2

(***************************************************************************)
(* The message at the beginning of the span is the one after the last.     *)
(***************************************************************************)
LEMMA NextIsNext ==
  ASSUME Inv, ~ closed, NEW i \in Messages, IsNext(i)
  PROVE  /\ i = handled + 1
         /\ ends[i] - ends[i - 1] \in Nat /\ ends[i - 1] = ends[handled]
         /\ ends[i] \in Nat /\ ends[i] <= appended
<1>1. ends \in Streams /\ handled \in 0 .. MaxMessages
  BY DEF Inv, BufferTypeOK
<1>2. i \in 0 .. MaxMessages /\ i - 1 \in 0 .. MaxMessages
  BY DEF Messages
<1>3. ends[i - 1] = ends[handled] /\ ends[i] <= appended
  BY DEF Inv, AtBoundary, IsNext, Complete
<1>4. i - 1 = handled
  BY <1>1, <1>2, <1>3, StreamFacts
<1>5. ends[i - 1] \in Nat /\ ends[i] \in Nat /\ ends[i - 1] < ends[i]
  BY <1>1, <1>2, StreamFacts
<1> QED BY <1>2, <1>3, <1>4, <1>5 DEF Messages

(***************************************************************************)
(* When there is no next message, none that is complete is left over.      *)
(***************************************************************************)
LEMMA NoneLeft ==
  ASSUME Inv, ~ closed, \A i \in Messages : ~ IsNext(i)
  PROVE  \A i \in Messages : Complete(i) => i <= handled
<1> SUFFICES ASSUME NEW i \in Messages, Complete(i), ~ i <= handled
             PROVE  FALSE
  OBVIOUS
<1>1. ends \in Streams /\ handled \in 0 .. MaxMessages /\ appended \in Int
  BY DEF Inv, BufferTypeOK
<1>2. /\ i \in 0 .. MaxMessages /\ handled + 1 \in Messages
      /\ handled + 1 \in 0 .. MaxMessages /\ handled + 1 <= i
  BY <1>1 DEF Messages
<1>3. ends[handled + 1] <= ends[i] /\ ends[handled + 1] \in Int /\ ends[i] \in Int
  BY <1>1, <1>2, StreamFacts
<1>4. Complete(handled + 1)
  BY <1>1, <1>3 DEF Complete
<1>5. ends[(handled + 1) - 1] = Start
  BY <1>1 DEF Inv, AtBoundary
<1> QED BY <1>2, <1>4, <1>5 DEF IsNext

-----------------------------------------------------------------------------
LEMMA InitInv == Init => Inv
<1> SUFFICES ASSUME Init
             PROVE  Inv
  OBVIOUS
<1>1. /\ \A i \in 0 .. MaxMessages : ends[i] \in 0 .. MaxBytes
      /\ \A i \in Messages : 0 < ends[i]
      /\ ends[0] = 0 /\ ends[MaxMessages] \in Nat
  BY StreamFacts DEF Init, Messages
<1>2. BufferTypeOK
  <2>1. arrived \in 0 .. ends[MaxMessages] /\ handled \in 0 .. MaxMessages
    BY <1>1 DEF Init
  <2>2. appended \in 0 .. arrived /\ drained \in 0 .. appended
    BY DEF Init
  <2>3. total_bytes \in 0 .. appended - drained
    BY DEF Init
  <2> QED BY <2>1, <2>2, <2>3 DEF Init, BufferTypeOK
<1>3. AtBoundary /\ NothingWithheld
  BY <1>1 DEF Init, AtBoundary, NothingWithheld, Start, Complete, Messages
<1> QED BY <1>2, <1>3 DEF Inv

LEMMA EndsAreInts ==
  ASSUME Inv
  PROVE  /\ ends[MaxMessages] \in Nat /\ ends[handled] \in Nat
         /\ \A i \in Messages : ends[i] \in Nat
BY StreamFacts DEF Inv, BufferTypeOK, Messages

LEMMA BufferFacts ==
  ASSUME BufferTypeOK, ends[MaxMessages] \in Nat
  PROVE  /\ arrived \in Nat /\ appended \in Nat /\ drained \in Nat /\ total_bytes \in Nat
         /\ arrived <= ends[MaxMessages] /\ appended <= arrived
         /\ drained + total_bytes <= appended
<1>1. arrived \in Nat /\ arrived <= ends[MaxMessages]
  BY DEF BufferTypeOK
<1>2. appended \in Nat /\ appended <= arrived
  BY <1>1 DEF BufferTypeOK
<1>3. drained \in Nat /\ drained <= appended
  BY <1>2 DEF BufferTypeOK
<1>4. total_bytes \in Nat /\ total_bytes <= appended - drained
  BY <1>2, <1>3 DEF BufferTypeOK
<1> QED BY <1>1, <1>2, <1>3, <1>4

LEMMA DispatchInv ==
  ASSUME Inv, NEW i \in Messages, Dispatch(i)
  PROVE  Inv'
<1>1. ~ closed /\ IsNext(i) /\ reading
  BY DEF Dispatch
<1>2. /\ ends[i] - ends[i - 1] \in Nat /\ ends[i] \in Nat /\ ends[i] <= appended
      /\ ends[i - 1] = ends[handled]
  BY <1>1, NextIsNext
<1>3. /\ Start = ends[handled] /\ ends[handled] \in Nat /\ drained \in Nat
      /\ total_bytes \in Nat /\ appended \in Nat
  BY <1>1, EndsAreInts DEF Inv, AtBoundary, BufferTypeOK
<1>4. /\ total_bytes' = total_bytes + (ends[i] - ends[i - 1]) /\ handled' = i
      /\ drained' = drained /\ appended' = appended /\ ends' = ends /\ reading'
  BY <1>1, <1>2, <1>3, EndsAreInts DEF Dispatch
<1>5. drained + total_bytes' = ends[i]
  BY <1>2, <1>3, <1>4 DEF Start
<1>6. total_bytes' \in 0 .. appended - drained
  BY <1>2, <1>3, <1>4, <1>5
<1>7. BufferTypeOK'
  BY <1>4, <1>6 DEF Dispatch, Inv, BufferTypeOK, Messages
<1>8. AtBoundary'
  BY <1>2, <1>4, <1>5 DEF AtBoundary, Start
<1>9. NothingWithheld'
  BY <1>4 DEF NothingWithheld
<1> QED BY <1>7, <1>8, <1>9 DEF Inv

LEMMA ReadReturnsInv ==
  ASSUME Inv, ReadReturns
  PROVE  Inv'
<1>1. /\ drained' = drained + total_bytes /\ total_bytes' = 0 /\ reading' = FALSE
      /\ UNCHANGED << ends, arrived, appended, handled, closed >>
  BY DEF ReadReturns
<1>2. /\ drained \in Nat /\ total_bytes \in Nat /\ appended \in Nat
      /\ total_bytes <= appended - drained
  BY EndsAreInts, BufferFacts DEF Inv
<1>3. BufferTypeOK'
  <2>1. drained' \in 0 .. appended'
    BY <1>1, <1>2
  <2>2. total_bytes' \in 0 .. appended' - drained'
    BY <1>1, <1>2
  <2>3. /\ ends' \in Streams /\ arrived' \in 0 .. ends'[MaxMessages]
        /\ appended' \in 0 .. arrived' /\ handled' \in 0 .. MaxMessages /\ closed' \in BOOLEAN
    BY <1>1 DEF Inv, BufferTypeOK
  <2> QED BY <1>1, <2>1, <2>2, <2>3 DEF BufferTypeOK
<1>4. AtBoundary'
  BY <1>1, <1>2 DEF Inv, AtBoundary, Start
<1>5. NothingWithheld'
  BY <1>1, NoneLeft DEF ReadReturns, LoopEnds, NothingWithheld, Complete
<1> QED BY <1>3, <1>4, <1>5 DEF Inv

LEMMA ReadThrowsInv ==
  ASSUME Inv, ReadThrows
  PROVE  Inv'
<1>1. /\ ~ closed /\ closed' = TRUE /\ reading' = FALSE /\ total_bytes' = 0
      /\ UNCHANGED << ends, arrived, appended, drained >>
  BY DEF ReadThrows
<1>2. handled' \in 0 .. MaxMessages /\ ends[handled'] <= appended
  <2>1. CASE handled' = handled
    BY <2>1 DEF Inv, AtBoundary, BufferTypeOK
  <2>2. ASSUME NEW i \in Messages, IsNext(i), handled' = i
        PROVE  handled' \in 0 .. MaxMessages /\ ends[handled'] <= appended
    BY <2>2 DEF IsNext, Complete, Messages
  <2> QED BY <2>1, <2>2 DEF ReadThrows
<1>3. BufferTypeOK'
  <2>1. total_bytes' \in 0 .. appended' - drained'
    BY <1>1, EndsAreInts, BufferFacts DEF Inv
  <2>2. /\ ends' \in Streams /\ arrived' \in 0 .. ends'[MaxMessages]
        /\ appended' \in 0 .. arrived' /\ drained' \in 0 .. appended'
    BY <1>1 DEF Inv, BufferTypeOK
  <2> QED BY <1>1, <1>2, <2>1, <2>2 DEF BufferTypeOK
<1> QED BY <1>1, <1>2, <1>3 DEF Inv, AtBoundary, NothingWithheld

LEMMA OtherStepsInv ==
  ASSUME Inv, BytesArrive \/ Read \/ CloseSession \/ UNCHANGED vars
  PROVE  Inv'
<1> ends[MaxMessages] \in Nat /\ ends[handled] \in Nat
  BY EndsAreInts
<1>1. CASE BytesArrive
  <2>1. arrived' \in 0 .. ends[MaxMessages] /\ appended \in 0 .. arrived'
    BY <1>1 DEF BytesArrive, Inv, BufferTypeOK
  <2>2. BufferTypeOK'
    BY <1>1, <2>1 DEF BytesArrive, Inv, BufferTypeOK
  <2>3. AtBoundary' /\ NothingWithheld'
    BY <1>1 DEF BytesArrive, Inv, AtBoundary, NothingWithheld, Start, Complete
  <2> QED BY <2>2, <2>3 DEF Inv
<1>2. CASE Read
  <2>1. appended' \in 0 .. arrived /\ appended' >= appended
    BY <1>2 DEF Read, Inv, BufferTypeOK
  <2>4. drained \in 0 .. appended' /\ total_bytes \in 0 .. appended' - drained
    BY <2>1, EndsAreInts, BufferFacts DEF Inv
  <2>5. BufferTypeOK'
    <3>1. /\ ends' \in Streams /\ arrived' \in 0 .. ends'[MaxMessages]
          /\ handled' \in 0 .. MaxMessages /\ closed' \in BOOLEAN
      BY <1>2 DEF Read, Inv, BufferTypeOK
    <3>2. /\ appended' \in 0 .. arrived' /\ drained' \in 0 .. appended' /\ reading' = TRUE
          /\ total_bytes' \in 0 .. appended' - drained'
      BY <1>2, <2>1, <2>4 DEF Read
    <3> QED BY <3>1, <3>2 DEF BufferTypeOK
  <2>2. AtBoundary'
    BY <1>2 DEF Read, Inv, BufferTypeOK, AtBoundary, Start
  <2>3. NothingWithheld'
    BY <1>2 DEF Read, NothingWithheld
  <2> QED BY <2>2, <2>3, <2>5 DEF Inv
<1>3. CASE CloseSession
  BY <1>3 DEF CloseSession, Inv, BufferTypeOK, AtBoundary, NothingWithheld
<1>4. CASE UNCHANGED vars
  BY <1>4 DEF vars, Inv, BufferTypeOK, AtBoundary, NothingWithheld, Start, Complete
<1> QED BY <1>1, <1>2, <1>3, <1>4

LEMMA Invariance == Spec => []Inv
<1>1. Inv /\ [Next]_vars => Inv'
  BY DispatchInv, ReadReturnsInv, ReadThrowsInv, OtherStepsInv DEF Next, DispatchNext
<1> QED BY <1>1, InitInv, PTL DEF Spec

-----------------------------------------------------------------------------
(***************************************************************************)
(* What check() remembers is the number of the message handled last: the   *)
(* messages come in order, so one comparison each is enough.               *)
(***************************************************************************)
NumbersInv ==
  /\ numbers \in [Messages -> 0 .. MaxSeqNum] /\ warned \in BOOLEAN
  /\ handled \in 0 .. MaxMessages
  /\ handled = 0 => msg_seq_num = 0
  /\ handled > 0 => msg_seq_num = numbers[handled]
  /\ warned = FALSE <=> \A i \in 1 .. handled : numbers[i] = i

LEMMA CheckInv ==
  ASSUME NumbersInv, handled' = handled + 1, handled + 1 \in Messages, Check(handled + 1)
  PROVE  NumbersInv'
<1>1. /\ handled \in Nat /\ handled' \in 1 .. MaxMessages
      /\ numbers' = numbers /\ msg_seq_num' = numbers[handled']
      /\ 1 .. handled' = (1 .. handled) \cup {handled'}
  BY DEF NumbersInv, Messages, Check
<1>2. \A i \in Messages : numbers[i] \in Nat
  BY MaxSeqNumAssumption DEF NumbersInv
<1>3. warned' \in BOOLEAN /\ (warned' = FALSE <=> warned = FALSE /\ numbers[handled'] = msg_seq_num + 1)
  BY DEF NumbersInv, Check
<1>4. ASSUME \A i \in 1 .. handled : numbers[i] = i
      PROVE  msg_seq_num + 1 = handled'
  BY <1>1, <1>4 DEF NumbersInv
<1>5. warned' = FALSE <=> \A i \in 1 .. handled' : numbers[i] = i
  BY <1>1, <1>3, <1>4 DEF NumbersInv
<1> QED
  BY <1>1, <1>3, <1>5 DEF NumbersInv, Messages

LEMMA NumbersStep == Inv /\ NumbersInv /\ [Next]_vars => NumbersInv'
<1> SUFFICES ASSUME Inv, NumbersInv, [Next]_vars PROVE NumbersInv'
  OBVIOUS
<1>1. CASE UNCHANGED << handled, numberVars >>
  BY <1>1 DEF NumbersInv, numberVars
<1>2. ASSUME NEW i \in Messages, ~ closed, IsNext(i), handled' = i, Check(i)
      PROVE  NumbersInv'
  <2>1. i = handled + 1
    BY <1>2, NextIsNext
  <2> QED BY <1>2, <2>1, CheckInv
<1>3. CASE DispatchNext \/ ReadThrows
  BY <1>1, <1>2, <1>3 DEF DispatchNext, Dispatch, ReadThrows
<1>4. CASE ~ (DispatchNext \/ ReadThrows)
  BY <1>1, <1>4 DEF Next, BytesArrive, Read, ReadReturns, CloseSession, vars
<1> QED BY <1>3, <1>4

LEMMA NumbersInvariance == Spec => []NumbersInv
<1>1. Init => NumbersInv
  <2> SUFFICES ASSUME Init PROVE NumbersInv
    OBVIOUS
  <2>1. handled = 0 /\ msg_seq_num = 0 /\ warned = FALSE /\ numbers \in [Messages -> 0 .. MaxSeqNum]
    BY DEF Init
  <2>2. 1 .. handled = {} /\ handled \in 0 .. MaxMessages
    BY <2>1
  <2>3. \A i \in 1 .. handled : numbers[i] = i
    BY <2>2
  <2>4. warned \in BOOLEAN
    BY <2>1
  <2>5. ~ handled > 0
    BY <2>1
  <2> QED BY <2>1, <2>2, <2>3, <2>4, <2>5 DEF NumbersInv
<1>2. Inv /\ NumbersInv /\ [Next]_vars => NumbersInv'
  BY NumbersStep
<1> QED BY <1>1, <1>2, Invariance, PTL DEF Spec

-----------------------------------------------------------------------------
(***************************************************************************)
(* The types, among them that the span stays within the buffer.            *)
(***************************************************************************)
THEOREM BufferBounds == Spec => []InboundTypeOK
<1>1. Inv /\ NumbersInv => InboundTypeOK
  BY MaxSeqNumAssumption DEF Inv, NumbersInv, InboundTypeOK, Messages
<1> QED BY <1>1, Invariance, NumbersInvariance, PTL

(***************************************************************************)
(* A message lost or sent again is noticed, and nothing else is.           *)
(***************************************************************************)
THEOREM GapsAreNoticed == Spec => []NoticesGaps
<1>1. NumbersInv => NoticesGaps
  BY DEF NumbersInv, NoticesGaps
<1> QED BY <1>1, NumbersInvariance, PTL

(***************************************************************************)
(* A Read of an open session leaves no complete message in the buffer.     *)
(***************************************************************************)
THEOREM ReadIsThorough == Spec => []NothingWithheld
<1>1. Inv => NothingWithheld
  BY DEF Inv
<1> QED BY <1>1, Invariance, PTL

(***************************************************************************)
(* Messages are handled in order, once each, and only while the session is *)
(* open, however their bytes are cut.                                      *)
(***************************************************************************)
THEOREM InboundImplementsStream == Spec => ImplementsStreamSafety
<1>1. Init => Stream!StreamInit
  <2> SUFFICES ASSUME Init
               PROVE  Stream!StreamInit
    OBVIOUS
  <2>1. \A i \in Messages : ~ ends[i] <= 0
    BY StreamFacts DEF Init, Messages
  <2> QED BY <2>1 DEF Init, Arrived, Stream!StreamInit
<1>2. Inv /\ [Next]_vars => [Stream!StreamNext]_(Stream!streamVars)
  <2> SUFFICES ASSUME Inv, [Next]_vars
               PROVE  [Stream!StreamNext]_(Stream!streamVars)
    OBVIOUS
  <2> USE DEF Stream!streamVars, Stream!StreamNext
  <2>1. CASE BytesArrive
    <3>1. Arrived' \in SUBSET (1 .. MaxMessages)
      BY DEF Arrived, Messages
    <3>2. Arrived \subseteq Arrived'
      BY <2>1, EndsAreInts DEF BytesArrive, Arrived, Inv, BufferTypeOK
    <3> QED BY <2>1, <3>1, <3>2 DEF BytesArrive, Stream!Arrive
  <2>2. CASE UNCHANGED << ends, arrived >>
    <3> DEFINE Handles(i) == i \in Messages /\ IsNext(i) /\ ~ closed /\ handled' = i
    <3>1. Arrived' = Arrived
      BY <2>2 DEF Arrived
    <3>2. ASSUME NEW i, Handles(i), closed' \in BOOLEAN
          PROVE  Stream!Handle
      <4>1. i = handled + 1 /\ ends[i] <= appended /\ ends[i] \in Nat
        BY <3>2, NextIsNext
      <4>2. i \in Arrived
        BY <3>2, <4>1 DEF Arrived, Inv, BufferTypeOK
      <4> QED BY <3>1, <3>2, <4>1, <4>2 DEF Stream!Handle
    <3>3. CASE DispatchNext
      <4>1. PICK i \in Messages : Dispatch(i)
        BY <3>3 DEF DispatchNext
      <4>2. Handles(i) /\ closed' \in BOOLEAN
        BY <4>1 DEF Dispatch
      <4> QED BY <3>2, <4>2
    <3>4. CASE ReadThrows
      <4>1. ~ closed /\ closed' = TRUE
        BY <3>4 DEF ReadThrows
      <4>2. CASE handled' = handled
        BY <3>1, <4>1, <4>2 DEF Stream!Shut
      <4>3. CASE handled' # handled
        <5>1. \E i : Handles(i)
          BY <3>4, <4>1, <4>3 DEF ReadThrows
        <5> QED BY <3>2, <4>1, <5>1
      <4> QED BY <4>2, <4>3
    <3>5. CASE CloseSession
      BY <3>1, <3>5 DEF CloseSession, Stream!Shut
    <3>6. CASE Read \/ ReadReturns \/ UNCHANGED vars
      BY <3>1, <3>6 DEF Read, ReadReturns, vars
    <3>7. CASE BytesArrive
      BY <2>1, <3>7
    <3> QED BY <3>3, <3>4, <3>5, <3>6, <3>7 DEF Next
  <2>3. CASE ~ UNCHANGED << ends, arrived >>
    BY <2>1, <2>3 DEF Next, Read, DispatchNext, Dispatch, ReadReturns, ReadThrows,
                      CloseSession, vars
  <2> QED BY <2>2, <2>3
<1> QED BY <1>1, <1>2, Invariance, PTL DEF Spec, ImplementsStreamSafety, Stream!StreamSafety

(***************************************************************************)
(* The loop of Read ends: as long as it stays on the stack, every step of  *)
(* it leaves fewer bytes of the buffer to look at, and bytes that arrive   *)
(* meanwhile stay in the connection until the next Read.                   *)
(***************************************************************************)
Remaining == appended - Start

ReadAdvances ==
  reading /\ reading' =>
    /\ Remaining' \in Nat
    /\ \/ Remaining' < Remaining
       \/ BytesArrive /\ Remaining' = Remaining

(***************************************************************************)
(* Each step of the loop makes the rest of the buffer smaller.             *)
(***************************************************************************)
THEOREM ReadLoopAdvances == Spec => [][ReadAdvances]_vars
<1>1. Inv /\ [Next]_vars => [ReadAdvances]_vars
  <2> SUFFICES ASSUME Inv, Next, reading, reading' PROVE ReadAdvances
    BY DEF ReadAdvances
  <2>1. /\ appended \in Int /\ drained \in Int /\ total_bytes \in Int
        /\ Start \in Int /\ Start <= appended
    BY EndsAreInts, BufferFacts DEF Inv, Start
  <2>2. CASE BytesArrive
    BY <2>1, <2>2 DEF BytesArrive, ReadAdvances, Remaining, Start
  <2>3. CASE DispatchNext
    <3>1. PICK i \in Messages : Dispatch(i)
      BY <2>3 DEF DispatchNext
    <3>2. /\ UNCHANGED << appended, drained >>
          /\ total_bytes' = total_bytes + ends[i] - ends[i - 1]
          /\ ~ closed /\ IsNext(i)
      BY <3>1 DEF Dispatch
    <3>3. /\ ends[i] \in Int /\ ends[i - 1] \in Int
          /\ ends[i - 1] < ends[i] /\ ends[i] <= appended /\ ends[i - 1] = Start
      <4>1. i \in 0 .. MaxMessages /\ i - 1 \in 0 .. MaxMessages
        BY DEF Messages
      <4>2. ends[i - 1] < ends[i] /\ ends[i - 1] \in Int /\ ends[i] \in Int
        BY <4>1, StreamFacts DEF Inv, BufferTypeOK
      <4> QED BY <3>2, <4>2 DEF IsNext, Complete
    <3>4. Start' = ends[i]
      BY <2>1, <3>2, <3>3 DEF Start
    <3> QED BY <2>1, <3>2, <3>3, <3>4 DEF ReadAdvances, Remaining
  <2> QED BY <2>2, <2>3 DEF Next, Read, ReadReturns, ReadThrows, CloseSession
<1> QED BY <1>1, Invariance, PTL DEF Spec
=============================================================================

----------------------------- MODULE LogonProofs ----------------------------
(***************************************************************************)
(* The properties of Logon for any users, clocks and tolerance.            *)
(***************************************************************************)
EXTENDS Logon, TLAPS

(***************************************************************************)
(* What a client put into its Logon, and that an answer is that of its     *)
(* time: the method never changes.                                         *)
(***************************************************************************)
Signed(request) ==
  /\ request.password = Sign(request.secret, request.raw_data)
  /\ Nanos(request.raw_data.millis) <= request.clock
  /\ request.clock <= Nanos(request.raw_data.millis) + (NanosPerMilli - 1)

LogonInv ==
  /\ LogonTypeOK
  /\ \A request \in sent : Signed(request)
  /\ \A answer \in answers : answer.error = Error(answer.request, answer.time)

LEMMA MillisOfClock ==
  ASSUME NEW clock \in Nat
  PROVE  /\ clock \div NanosPerMilli \in Nat
         /\ (clock \div NanosPerMilli) * NanosPerMilli <= clock
         /\ clock <= (clock \div NanosPerMilli) * NanosPerMilli + (NanosPerMilli - 1)
  BY ClockAssumption

LEMMA NoErrorMeans ==
  ASSUME NEW request, NEW time
  PROVE  Error(request, time) = NoError <=>
           /\ Known(request) /\ ComponentMatches(request) /\ ~ ValidateThrows(request)
           /\ Validate(request, Users[request.username].password, time)
<1>1. CASE ~ Known(request) \/ ~ ComponentMatches(request)
  BY <1>1 DEF Error, NoError
<1>2. CASE Known(request) /\ ComponentMatches(request) /\ ValidateThrows(request)
  BY <1>2 DEF Error, NoError, Exception
<1>3. CASE Known(request) /\ ComponentMatches(request) /\ ~ ValidateThrows(request)
  BY <1>3 DEF Error, NoError
<1> QED
  BY <1>1, <1>2, <1>3

LEMMA ErrorIsTyped ==
  ASSUME NEW request, NEW time
  PROVE  Error(request, time) \in Errors \cup {NoError, Exception}
  BY DEF Error, Errors

LEMMA InitHolds == Init => LogonInv
  BY BoundAssumption DEF Init, LogonInv, LogonTypeOK

LEMMA StepKeeps == LogonInv /\ [Next]_vars => LogonInv'
<1> SUFFICES ASSUME LogonInv, [Next]_vars PROVE LogonInv'
  OBVIOUS
<1> USE DEF LogonInv, LogonTypeOK
<1>1. /\ method' = method
      /\ \A request, secret, time : Validate(request, secret, time)' = Validate(request, secret, time)
      /\ \A request, time : Error(request, time)' = Error(request, time)
  <2>1. method' = method
    BY DEF Next, vars, Tick, LogOn, Arrive
  <2>2. \A request : Signed(request)' = Signed(request)
    BY <2>1 DEF Signed, Sign
  <2> QED BY <2>1, <2>2 DEF Validate, ValidateThrows, Error
<1>2. \A request : Signed(request)' = Signed(request)
  BY <1>1 DEF Signed, Sign
<1>3. CASE Tick
  BY <1>1, <1>2, <1>3, BoundAssumption DEF Tick
<1>4. ASSUME NEW username \in Usernames, NEW component \in Components, NEW secret \in Secrets,
             NEW skew \in Skews, NEW stamp \in Stamps,
             LogOn(username, component, secret, skew, stamp)
      PROVE  LogonInv'
  <2> DEFINE clock == now + skew
             raw_data == [stamp |-> stamp, millis |-> clock \div NanosPerMilli]
             request == [username |-> username, component |-> component,
                         password |-> Sign(secret, raw_data), raw_data |-> raw_data,
                         secret |-> secret, clock |-> clock]
  <2>1. clock \in Nat
    BY <1>4, ClockAssumption, BoundAssumption DEF LogOn
  <2>2. sent' = sent \cup {request} /\ UNCHANGED << method, now, answers >>
    BY <1>4 DEF LogOn
  <2> HIDE DEF clock
  <2>3. RequestOK(request)
    BY <2>1, MillisOfClock DEF RequestOK, RawData
  <2>4. Signed(request)
    BY <2>1, MillisOfClock DEF Signed, Nanos
  <2> HIDE DEF request
  <2> QED BY <1>1, <1>2, <2>2, <2>3, <2>4
<1>5. ASSUME NEW request \in sent, Arrive(request) PROVE LogonInv'
  <2> DEFINE error == Error(request, now)
             answer == [request |-> request, time |-> now, error |-> error,
                        strategy_id |-> Strategy(request, error)]
  <2>1. answers' = answers \cup {answer} /\ UNCHANGED << method, now, sent >>
    BY <1>5 DEF Arrive
  <2>2. \/ answer.error = NoError /\ answer.strategy_id \in Nat
        \/ answer.error \in Errors \cup {Exception} /\ answer.strategy_id = 0
    <3>1. CASE error = NoError
      BY <3>1, NoErrorMeans, UsersAssumption DEF Strategy, Known
    <3>2. CASE error # NoError
      BY <3>2, ErrorIsTyped DEF Strategy
    <3> QED BY <3>1, <3>2
  <2>3. /\ answer.request = request /\ answer.time = now
        /\ answer.error = Error(answer.request, answer.time)
    OBVIOUS
  <2>4. now \in 0 .. now
    BY BoundAssumption
  <2> HIDE DEF answer
  <2> QED BY <1>1, <1>2, <2>1, <2>2, <2>3, <2>4
<1>6. CASE UNCHANGED vars
  BY <1>1, <1>2, <1>6 DEF vars
<1> QED
  BY <1>3, <1>4, <1>5, <1>6 DEF Next

LEMMA AlwaysLogonInv == Spec => []LogonInv
BY InitHolds, StepKeeps, PTL DEF Spec

(***************************************************************************)
(* For a genuine client what is left of Validate is its stamp: that it is  *)
(* one, and its age.                                                       *)
(***************************************************************************)
LEMMA AcceptedMeans ==
  ASSUME LogonInv, NEW answer \in answers
  PROVE  Accepted(answer) <=>
           /\ Genuine(answer.request)
           /\ method = "HMAC_SHA256_TS" =>
                answer.request.raw_data.stamp = "millis" /\ Timely(answer.request.raw_data, answer.time)
<1> DEFINE request == answer.request
<1>1. /\ method \in Methods /\ request.password = Sign(request.secret, request.raw_data)
      /\ answer.error = Error(request, answer.time)
  BY DEF LogonInv, LogonTypeOK, Signed
<1> HIDE DEF request
<1>2. \A secret : Mac(request.secret, request.raw_data) = Mac(secret, request.raw_data)
                    <=> request.secret = secret
  BY DEF Mac
<1>3. request.raw_data.stamp \in Stamps
  BY DEF LogonInv, LogonTypeOK, RequestOK, RawData, request
<1>4. \A secret, time :
        ~ ValidateThrows(request) /\ Validate(request, secret, time) <=>
          /\ request.secret = secret
          /\ method = "HMAC_SHA256_TS" =>
               request.raw_data.stamp = "millis" /\ Timely(request.raw_data, time)
  BY <1>1, <1>2, <1>3 DEF Validate, ValidateThrows, Sign, Methods, Stamps
<1>5. Accepted(answer) <=> /\ Known(request) /\ ComponentMatches(request)
                           /\ ~ ValidateThrows(request)
                           /\ Validate(request, Users[request.username].password, answer.time)
  BY <1>1, NoErrorMeans DEF Accepted
<1>6. Accepted(answer) <=>
        /\ Genuine(request)
        /\ method = "HMAC_SHA256_TS" =>
             request.raw_data.stamp = "millis" /\ Timely(request.raw_data, answer.time)
  BY <1>4, <1>5 DEF Genuine
<1> QED
  BY <1>6 DEF request

LEMMA StampOfRequest ==
  ASSUME LogonInv, NEW answer \in answers
  PROVE  /\ answer.time \in Nat /\ answer.request.clock \in Nat
         /\ Nanos(answer.request.raw_data.millis) \in Nat
         /\ Nanos(answer.request.raw_data.millis) <= answer.request.clock
         /\ answer.request.clock <= Nanos(answer.request.raw_data.millis) + (NanosPerMilli - 1)
<1>1. answer.request \in sent /\ answer.time \in Nat
  BY BoundAssumption DEF LogonInv, LogonTypeOK
<1>2. answer.request.raw_data.millis \in Nat /\ answer.request.clock \in Nat
  BY <1>1 DEF LogonInv, LogonTypeOK, RequestOK, RawData
<1>3. Nanos(answer.request.raw_data.millis) \in Nat
  BY <1>2, ClockAssumption DEF Nanos
<1> QED
  BY <1>1, <1>2, <1>3 DEF LogonInv, Signed

-----------------------------------------------------------------------------
(***************************************************************************)
(* Every answer is an error without a strategy, or none and a strategy.    *)
(***************************************************************************)
THEOREM LogonTypeCorrect == Spec => []LogonTypeOK
<1>1. LogonInv => LogonTypeOK
  BY DEF LogonInv
<1> QED
  BY <1>1, AlwaysLogonInv, PTL

(***************************************************************************)
(* Genuine clients whose Logons are not late get in.                       *)
(***************************************************************************)
THEOREM GenuineAlwaysGetIn == Spec => []GenuineGetIn
<1>1. LogonInv => GenuineGetIn
  <2> SUFFICES ASSUME LogonInv, NEW answer \in answers, Genuine(answer.request),
                      method = "HMAC_SHA256_TS" =>
                        /\ answer.request.raw_data.stamp = "millis"
                        /\ answer.time - answer.request.clock <= Tolerance - (NanosPerMilli - 1)
                        /\ answer.request.clock - answer.time <= Tolerance
               PROVE  Accepted(answer)
    BY DEF GenuineGetIn
  <2>1. method = "HMAC_SHA256_TS" => Timely(answer.request.raw_data, answer.time)
    BY StampOfRequest, ClockAssumption DEF Timely, Diff
  <2> QED BY <2>1, AcceptedMeans
<1> QED
  BY <1>1, AlwaysLogonInv, PTL

(***************************************************************************)
(* Nobody else gets in, and no one late.                                   *)
(***************************************************************************)
THEOREM OnlyTimelyEverGetIn == Spec => []OnlyTimelyGetIn
<1>1. LogonInv => OnlyTimelyGetIn
  <2> SUFFICES ASSUME LogonInv, NEW answer \in answers, Accepted(answer)
               PROVE  /\ Genuine(answer.request)
                      /\ method = "HMAC_SHA256_TS" =>
                           /\ answer.time - answer.request.clock <= Tolerance
                           /\ answer.request.clock - answer.time <= Tolerance + (NanosPerMilli - 1)
    BY DEF OnlyTimelyGetIn
  <2>1. Genuine(answer.request)
    BY AcceptedMeans
  <2>2. ASSUME method = "HMAC_SHA256_TS"
        PROVE  /\ answer.time - answer.request.clock <= Tolerance
               /\ answer.request.clock - answer.time <= Tolerance + (NanosPerMilli - 1)
    <3>1. Timely(answer.request.raw_data, answer.time)
      BY <2>2, AcceptedMeans
    <3> QED BY <3>1, StampOfRequest, ClockAssumption DEF Timely, Diff
  <2> QED BY <2>1, <2>2
<1> QED
  BY <1>1, AlwaysLogonInv, PTL

(***************************************************************************)
(* The times at which a Logon is accepted are one interval.                *)
(***************************************************************************)
THEOREM RetriesAlwaysAgree == Spec => []RetriesAgree
<1>1. LogonInv => RetriesAgree
  <2> SUFFICES ASSUME LogonInv, NEW earlier \in answers, NEW later \in answers,
                      earlier.request = later.request, earlier.time <= later.time,
                      Accepted(later)
               PROVE  /\ earlier.request.clock <= earlier.time => Accepted(earlier)
                      /\ Accepted(earlier) =>
                           \A between \in answers :
                             /\ between.request = later.request
                             /\ earlier.time <= between.time /\ between.time <= later.time
                             => Accepted(between)
    BY DEF RetriesAgree
  <2>1. ASSUME earlier.request.clock <= earlier.time PROVE Accepted(earlier)
    <3>1. method = "HMAC_SHA256_TS" => Timely(later.request.raw_data, later.time)
      BY AcceptedMeans
    <3>2. method = "HMAC_SHA256_TS" => Timely(earlier.request.raw_data, earlier.time)
      BY <2>1, <3>1, StampOfRequest, ClockAssumption DEF Timely, Diff
    <3> QED BY <3>2, AcceptedMeans
  <2>2. ASSUME Accepted(earlier), NEW between \in answers, between.request = later.request,
               earlier.time <= between.time, between.time <= later.time
        PROVE  Accepted(between)
    <3>1. method = "HMAC_SHA256_TS" =>
            Timely(later.request.raw_data, later.time) /\ Timely(earlier.request.raw_data, earlier.time)
      BY <2>2, AcceptedMeans
    <3>2. method = "HMAC_SHA256_TS" => Timely(between.request.raw_data, between.time)
      BY <2>2, <3>1, StampOfRequest, ClockAssumption DEF Timely, Diff
    <3> QED BY <2>2, <3>2, AcceptedMeans
  <2> QED BY <2>1, <2>2
<1> QED
  BY <1>1, AlwaysLogonInv, PTL
=============================================================================

------------------------------- MODULE Logon --------------------------------
(***************************************************************************)
(* Who may log on: the engine asks the Controller about the credentials of *)
(* a Logon, and the Controller asks Crypto about the password.             *)
(*                                                                         *)
(* A client signs its Logon with a secret and, when the method asks for    *)
(* it, with the milliseconds of its own clock.  The Logon takes time to    *)
(* arrive, and the client may send it again when no answer comes.          *)
(*                                                                         *)
(* Of raw_data it matters whether it holds a period, whether a number      *)
(* stands before it and, if so, which; numbers outside the range of a      *)
(* clock are left out.                                                     *)
(***************************************************************************)
EXTENDS Integers, FiniteSets

CONSTANTS
  Users,           \* username_to_user_, from names to records
  Usernames, Components, Secrets,
  NanosPerMilli,
  Tolerance,       \* Settings::fix::fix_auth_timestamp_tolerance
  Skews,           \* how far the clocks of clients are ahead
  MaxTime,         \* bound: the clock of the bridge
  MaxRequests,     \* bound: different Logons
  MaxAnswers       \* bound: Logons that arrive

ASSUME UsersAssumption ==
  /\ DOMAIN Users \subseteq Usernames
  /\ Users \in [DOMAIN Users -> [component : Components, password : Secrets, strategy_id : Nat]]
ASSUME ClockAssumption ==
  /\ NanosPerMilli \in Nat \ {0} /\ Tolerance \in Nat /\ Skews \subseteq Int
ASSUME BoundAssumption == MaxTime \in Nat /\ MaxRequests \in Nat /\ MaxAnswers \in Nat

VARIABLES
  method,     \* Crypto::method_
  now,        \* clock::get_realtime
  sent,       \* the Logons of clients
  answers     \* what became of the Logons that arrived, and when

vars == << method, now, sent, answers >>

Methods == {"UNDEFINED", "HMAC_SHA256", "HMAC_SHA256_TS"}
Stamps == {"millis", "no period", "no number"}
RawData == [stamp : Stamps, millis : Nat]

\* HMAC and base64: different for different secrets and different texts.
Mac(secret, raw_data) == << secret, raw_data >>
Passwords == Secrets \cup {Mac(secret, raw_data) : secret \in Secrets, raw_data \in RawData}

(***************************************************************************)
(* The secret and the clock of a client are not part of its Logon.         *)
(***************************************************************************)
RequestOK(request) ==
  /\ request.username \in Usernames /\ request.component \in Components
  /\ request.secret \in Secrets /\ request.clock \in Nat
  /\ request.raw_data \in RawData

Errors == {"INVALID_USERNAME", "INVALID_COMPONENT", "INVALID_PASSWORD"}
NoError == "UNDEFINED"

\* The engine gets no answer: the Read that holds the Logon ends, and its session is closed.
Exception == "exception"

LogonTypeOK ==
  /\ method \in Methods
  /\ now \in 0 .. MaxTime
  /\ \A request \in sent : RequestOK(request)
  /\ \A answer \in answers :
       /\ answer.request \in sent /\ answer.time \in 0 .. now
       /\ \/ answer.error = NoError /\ answer.strategy_id \in Nat
          \/ answer.error \in Errors \cup {Exception} /\ answer.strategy_id = 0

Init == method \in Methods /\ now = 0 /\ sent = {} /\ answers = {}

-----------------------------------------------------------------------------
(* Clients. *)

Sign(secret, raw_data) == IF method = "UNDEFINED" THEN secret ELSE Mac(secret, raw_data)

LogOn(username, component, secret, skew, stamp) ==
  LET clock == now + skew
      raw_data == [stamp |-> stamp, millis |-> clock \div NanosPerMilli]
  IN  /\ Cardinality(sent) < MaxRequests
      /\ clock >= 0
      /\ sent' = sent \cup {[username |-> username, component |-> component,
                             password |-> Sign(secret, raw_data), raw_data |-> raw_data,
                             secret |-> secret, clock |-> clock]}
      /\ UNCHANGED << method, now, answers >>

Tick ==
  /\ now < MaxTime
  /\ now' = now + 1
  /\ UNCHANGED << method, sent, answers >>

-----------------------------------------------------------------------------
(* Crypto::validate. *)

\* Mutant: milliseconds taken for nanoseconds.
NanosUnscaled(millis) == millis

Nanos(millis) == millis * NanosPerMilli

\* Mutant: a client is never ahead of the bridge.
DiffOneSided(sending_time, time) == time - sending_time

Diff(sending_time, time) ==
  IF sending_time < time THEN time - sending_time ELSE sending_time - time

\* Mutant: the comparison the other way.
TimelyInverted(raw_data, time) == Diff(Nanos(raw_data.millis), time) > Tolerance

Timely(raw_data, time) == Diff(Nanos(raw_data.millis), time) <= Tolerance

\* Reading the number of the stamp throws.
ValidateThrows(request) == method = "HMAC_SHA256_TS" /\ request.raw_data.stamp = "no number"

Validate(request, secret, time) ==
  \/ method = "UNDEFINED" /\ request.password = secret
  \/ method = "HMAC_SHA256" /\ request.password = Mac(secret, request.raw_data)
  \/ /\ method = "HMAC_SHA256_TS"
     /\ request.raw_data.stamp # "no period" /\ Timely(request.raw_data, time)
     /\ request.password = Mac(secret, request.raw_data)

-----------------------------------------------------------------------------
(* Controller::operator()(Credentials). *)

Known(request) == request.username \in DOMAIN Users
ComponentMatches(request) == request.component = Users[request.username].component

\* Mutant: the user's strategy whatever the outcome.
StrategyOfUser(request, error) == IF Known(request) THEN Users[request.username].strategy_id ELSE 0

Strategy(request, error) == IF error = NoError THEN Users[request.username].strategy_id ELSE 0

Error(request, time) ==
  CASE ~ Known(request) -> "INVALID_USERNAME"
    [] Known(request) /\ ~ ComponentMatches(request) -> "INVALID_COMPONENT"
    [] Known(request) /\ ComponentMatches(request) /\ ValidateThrows(request) -> Exception
    [] OTHER -> IF Validate(request, Users[request.username].password, time)
                  THEN NoError ELSE "INVALID_PASSWORD"

Arrive(request) ==
  /\ Cardinality(answers) < MaxAnswers
  /\ LET error == Error(request, now)
     IN  answers' = answers \cup {[request |-> request, time |-> now, error |-> error,
                                   strategy_id |-> Strategy(request, error)]}
  /\ UNCHANGED << method, now, sent >>

Next ==
  \/ Tick
  \/ \E username \in Usernames, component \in Components, secret \in Secrets, skew \in Skews,
        stamp \in Stamps : LogOn(username, component, secret, skew, stamp)
  \/ \E request \in sent : Arrive(request)

Spec == Init /\ [][Next]_vars

-----------------------------------------------------------------------------
Accepted(answer) == answer.error = NoError

Genuine(request) ==
  /\ Known(request) /\ ComponentMatches(request)
  /\ request.secret = Users[request.username].password

(***************************************************************************)
(* A genuine client gets in if its Logon arrives while its clock and the   *)
(* bridge's differ by no more than the tolerance, less the millisecond     *)
(* that cutting off its stamp may cost it, and without stamps always.      *)
(***************************************************************************)
GenuineGetIn ==
  \A answer \in answers :
    LET request == answer.request
    IN  /\ Genuine(request)
        /\ method = "HMAC_SHA256_TS" =>
             /\ request.raw_data.stamp = "millis"
             /\ answer.time - request.clock <= Tolerance - (NanosPerMilli - 1)
             /\ request.clock - answer.time <= Tolerance
        => Accepted(answer)

(***************************************************************************)
(* Who gets in knew the secret and, with stamps, signed no longer ago than *)
(* the tolerance, by the client's own clock; and no further ahead than the *)
(* tolerance and the part of a millisecond that was cut off.               *)
(***************************************************************************)
OnlyTimelyGetIn ==
  \A answer \in answers :
    LET request == answer.request
    IN  Accepted(answer) =>
          /\ Genuine(request)
          /\ method = "HMAC_SHA256_TS" =>
               /\ answer.time - request.clock <= Tolerance
               /\ request.clock - answer.time <= Tolerance + (NanosPerMilli - 1)

(***************************************************************************)
(* Sending the same Logon again does not help: refused at a time not       *)
(* before its stamp, it is refused ever after; and it is accepted at all   *)
(* times between two at which it is.                                       *)
(***************************************************************************)
RetriesAgree ==
  \A earlier, later \in answers :
    earlier.request = later.request /\ earlier.time <= later.time =>
      /\ ~ Accepted(earlier) /\ earlier.request.clock <= earlier.time => ~ Accepted(later)
      /\ Accepted(earlier) /\ Accepted(later) =>
           \A between \in answers :
             /\ between.request = later.request
             /\ earlier.time <= between.time /\ between.time <= later.time
             => Accepted(between)
=============================================================================

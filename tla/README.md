# Verification of the roq FIX bridge

TLA+ models, TLC runs and TLAPS proofs for the bridge in `src/src/roq/fix_bridge`: a server
that lets FIX 4.4 clients trade through roq gateways. Source references below are relative to
that directory.

## 1. The system

| Component | State it keeps | Operations | What makes it hard |
|---|---|---|---|
| `Controller` (`controller.cpp`) | configured users | passes gateway and timer events to the engine; passes the engine's messages to one session or to all; sends orders to gateways; checks credentials | calls run in both directions on one stack |
| engine `fix::bridge::Manager` (external library) | sessions, logons, subscriptions, orders | called with every event and every FIX message; calls the Controller back before it returns | re-entrance: it may send to or close any session, also the one whose handler is running |
| `SessionManager` (`session_manager.cpp`) | sessions, next id, zombie set, clean-up deadline | accept, look-up, `Disconnect`, timer | a session must outlive its own callbacks, and be destroyed in the end |
| `Session` (`session.cpp`) | state, name of the client (`comp_id_`), inbound and outbound sequence numbers, receive buffer | `Read`, `Disconnected`, dispatch of each message type, `UserRequest`, send, close | batches of messages; closing in the middle of a batch; exceptions; sends that fail |
| `Shared`, routing v2 (`shared.cpp:218-250`) | which session has which strategy, in two maps | `add_route`, `remove_route`, `remove_all_routes` | the maps must agree; sessions compete for strategies |
| `Shared`, sources (`shared.cpp:156-204`) | gateways, order management status per account | `add_source`, `remove_source`, `StreamStatus` | nothing calls them any more |
| `tools::Mapping` | source and target symbols by key, the broadcast table | `add`, `dispatch` | symbols are discovered in any order; ambiguous expressions |
| `Config`, `User`, `Broadcast` | users, symbols, mappings | read and validate the TOML file at start; `Shared` and `Controller` then build a table of users each | uniqueness checked three times, in loops over unordered maps; unknown keys are found by erasing known ones |
| credentials: `Controller`, `tools::Crypto` | users, method and tolerance | the engine's question about a Logon; `validate` | two clocks, two units; Logons that are late or sent again |
| settings, `FIXLog`, `Application` | - | start up, output | - |

Everything runs on one thread. `Controller::operator()(Event<Timer>)` calls the engine and then
`io::Context::drain`, which serves, as separate callbacks, the clean-up timer, new connections,
`Read` and `Disconnected`. There is no parallelism: all interleaving comes from the order of
callbacks and from the engine calling back while a callback is on the stack.

What makes each component correct:

- routing: one owner per strategy; only the owner's requests, or its closing, end a route; both
  maps say the same; a client that received everything knows which routes it has;
- sessions: nothing is dispatched for a closed session; a session is not destroyed under its own
  callback; every closed session is destroyed, once, and within the clean-up period; nothing happens to it
  afterwards; new sessions inherit nothing;
- inbound messages: handled in order and once, however the bytes are cut; a gap or a replay of
  sequence numbers is noticed, and nothing else is taken for one;
- engine interface: every live session is known to the engine;
- start-up: what `Config` accepts, `Shared` and `Controller` accept too; the bridge serves exactly
  the users of the file, each with an id of its own; two users share an account only if their
  expressions for it differ; it starts exactly if the file is valid, whatever the order of
  the loops, and no key of the file is ignored;
- credentials: a genuine client on time gets in; nobody else does, and not later;
- event loop: every handler returns;
- mapping: the broadcast table does not depend on the order of discovery; the process is stopped
  exactly by ambiguous configurations.

`PROJECT.json` lists the hazards line by line with the property that covers each.

## 2. Modules

| Module | Models | Notes |
|---|---|---|
| `Identifiers` | session and strategy ids | constants shared by all |
| `RouteOwnership` | abstract: one owner per strategy | every action names its caller and the answer: a free strategy can be taken, only its owner drops it |
| `Routes` | routing v2 of `Shared` | two maps |
| `RouteCalls` | `Routes` and a record of the calls | the history variable `call`: who called what, and what was returned; refines `RouteOwnership` |
| `SessionLife` | abstract: unborn, live, zombie, gone | `LifeSafety` and, with fairness, `LifeSpec` |
| `SessionManager` | `SessionManager` and `Session::state_` | refines `SessionLife` |
| `CleanupDelay` | `SessionManager` and a clock | the history variable `waited`: how long each session has been a zombie |
| `Session` | the outbound half of a session | names, sequence numbers, what reaches the client |
| `FixBridge` | composition of the above with `Controller`, the Read loop and the engine | one action per stretch of code between two calls that can re-enter |
| `MessageStream` | abstract: messages handled in order, once, none kept back | with and without fairness |
| `Inbound` | the receive buffer of a session, byte by byte, and the inbound sequence numbers | refines `MessageStream`; produces the batches `FixBridge` starts from |
| `Mapping` | `tools::Mapping` | independent of the others |
| `Configuration` | start-up: `Config`, the tables of users of `Shared` and `Controller` | before all others: ends in serving or failed |
| `Logon` | credentials in `Controller`, `Crypto::validate` | reads the users; the time of clients and bridge |
| `MC*` | small instances for TLC | |
| `*Proofs` | TLAPS proofs | |

### How Inbound corresponds to the code

A byte is its position in the stream, so `buffer_` is the interval from `drained` to `appended`.
`Read` is the handler up to the loop, `Dispatch` one turn of the loop, `ReadReturns` the end of the
loop with `buffer_.drain(total_bytes)`, `ReadThrows` the catch clauses, which close the session and
leave the buffer as it was. `fix::Reader` is taken to return the size of a complete message, or 0
when there is none yet; `total_bytes` is 0 outside the handler, where the code has no such variable.

`numbers` are the sequence numbers the client gave its messages, any there are; message 1 numbered 1,
message 2 numbered 2 and so on is a stream without loss. `Check` is `Session::check`: it compares
a number with `msg_seq_num`, remembers that it warned (`warned`, the log line), and keeps the
number either way. A message that throws may do so before or after `check`.

### How FixBridge corresponds to the code

`pc` is where the thread is; `reader`, `pending` and `request` are the stack frame of a `Read`.

| Action | Code |
|---|---|
| `Accept` | the listener callback, `helper`, `add_session`, then `Connected` to the engine |
| `BridgeEvent` | any gateway event or the engine's timer (`controller.cpp:105-116`, `155-221`) |
| `Timer` | the clean-up timer of `SessionManager` |
| `Disconnected` | `Session::operator()(Connection::Disconnected)`: `make_zombie`, then the engine |
| `Read` | entry of the Read handler, with 1 to `MaxBatch` complete messages in the buffer |
| `DispatchMessage`, `DispatchUserRequest` | `check`, `parse_helper` and the call into the engine |
| `RejectUnexpected` | the default branch of `parse_helper` |
| `ParseThrows`, `HandlerThrows`, `BroadcastThrows`, and `Unwinds` in the actions that send | an exception on its way to the Read handler, with what was changed before it |
| `ReadCatches` | the catch clauses of the Read handler |
| `LogOnUser`, `LogOffUser`, `UnsupportedUserRequest` | the second half of the `UserRequest` handler, after the engine returned |
| `ToSession`, `DisconnectSession` | the engine calling one session through `Controller::dispatch` |
| `BroadcastReport`, `SendToAllSessions` | `Controller::operator()(Trace<ExecutionReport>)` without a session |
| `BridgeReturns` | the engine returns to the handler that called it |

Abstractions, all named in the modules:

- A FIX message is its sequence number and, for a `UserResponse`, what it tells the client about
  its routes. A send may be refused by an open connection (the code logs it) and is always
  refused by a closed one.
- All message types without an effect of their own in the session are `DispatchMessage`.
- An exception leaves behind what was done before it: `Unwinds` is a second outcome of the actions that
  send an answer (the number is used up, the route has changed) and of a broadcast (some sessions
  were reached), and changes none of it. Only `ReadCatches` closes the session. The `append` to the buffer
  (`session.cpp:82`) stands before the `try`; what it throws passes all code of this repository and is not
  modelled.
- Inbound sequence numbers are left to `Inbound`: they decide what is logged and nothing else.
- `assert` is not control flow: the models describe the build without assertions, in which a
  message with another client name or a send without one goes on. Where an assertion could be
  false it is stated as a property (`SendsNameTheTarget`, `InsertsAreNew`); that `remove_session`
  erases something is part of `ZombiesTracked`.
- `cancel_all_orders` and `unsubscribe_all` do nothing in this code: `account_` is never assigned
  and the body of the other is commented out.
- `make_zombie`'s branch for `READY` is modelled as written. No code sets `READY`, so no behaviour
  takes it; the proofs cover it all the same, since they hold for every value of `state`.
- Two flags are left open: `oms_route_by_strategy` is not tested by the code that handles routes
  (only FIXMEs), `cancel_on_disconnect` guards the call that never acts.

`CleanupDelay` is used for the session manager alone. Its variable `waited` adds up the ticks between the
timer events a zombie has seen. It is not in the code, and by `WaitingOnlyWatches` it restricts
nothing: its behaviours are behaviours of `SessionManager`. `RouteCalls` is used for the routing table
alone, and its variable `call` restricts nothing either (`CallsOnlyWatch`). It is what lets
`RouteOwnership` tell the owner's call from another session's; a table without callers would allow
anyone's `remove_route`. Within the bridge `RoutesMoveByOwner` says whose step moved a route, and
`LateRequestIsLast` covers the case the owner has been closed meanwhile.

### How Configuration corresponds to the code

A file is a function from paths to values: `<<"users", "OM1", "account">>` to a text, a list or
something else. `phase` is the loop the start-up is in, `todo` the users it has not reached; as the maps
are unordered, a loop takes its users in any order. A `log::fatal` or an exception leads to
`failed`, the end of the last loop to `serving`.

| Action | Code |
|---|---|
| `ReadSymbols` | `parse_symbols` |
| `ReadUser`, `UsersRead` | a turn of the loop of `parse_users`, with `check_empty`, and its end |
| `ReadSections` | `parse_statistics`, `parse_broadcast`, `parse_cxl_rej_reason`, `check_empty` of the file |
| `CheckUsername`, `UsernamesChecked` | `check_unique_usernames` |
| `CheckAccount`, `AccountsChecked` | `check_unique_accounts`, only without routing by strategy |
| `ExtractUser`, `UsersExtracted` | the table of `Shared` |
| `CreateUser`, `UsersCreated` | the table of `Controller` |

`ValidFile` is what the code accepts, written as a schema: which sections, entries and items there may be, of
what type, which are required, and that users differ in name and account. It mentions no loop, no
phase and no erasing, so `StartsIffValid` compares the code with an independent description. Of the
table of a gateway the schema says what its `regex` must be and nothing of other keys, as the code does
not look at them (finding 4).

What a user calls its `account` is subscribed to as a regular expression (`config.cpp:504-506`). `Matches` is
any relation of expressions to the accounts there are; in the instance two of the expressions
overlap, like `A1` and `A.*`. The three checks compare texts, so an account may have two users: what the
checks do ensure, and `SharedOnlyByOverlap` states, is that the two have different expressions that both
match it, and that an account is subscribed to exactly if some user trades it. (With routing by
strategy there are no accounts.) `index.rst:473` speaks of clients mapped 1:1 with accounts: nothing in the
code excludes an overlap.

Left out are files on which the code has undefined behaviour: something else than a table for
`users`, `statistics`, `broadcast`, `errors` or one of their entries, and a default value that is
not a number. The names of errors are taken to be known to the client library, and a list of
accounts or of symbols matters only by being empty, texts only, or mixed. User ids have 16 bits
(`IdModulus`); that there are fewer users is an assumption (`IdAssumption`), which the code does not check.
So `UsersIdentified` says nothing of the wrap-around, which would need 65,535 users.

### How Logon corresponds to the code

`LogOn` is a client that signs with a secret and with the milliseconds of its own clock, `Arrive` the engine
asking `Controller::operator()(Credentials)`, at any later time and any number of times for one
Logon. `Error` is the order of the checks there, `Validate` is `Crypto::validate` for its three
methods, `Nanos` and `Diff` the conversion and the comparison of `std::chrono`. HMAC and base64 are
libraries: `Mac` is taken to be injective. Clocks go forward. Under `HMAC_SHA256_TS` a Logon without a
period is refused, and one whose stamp is no number throws (`crypto.cpp:72`): the engine gets no answer, and
the exception ends in the `Read` that holds the Logon, which closes the session (`ReadCatches` of
`FixBridge`). Stamps that overflow 64 bits of nanoseconds, which is undefined behaviour, are left out.

`GenuineGetIn` and `OnlyTimelyGetIn` do not mention the stamp: they bound the delay by the client's
own clock, in nanoseconds. The difference between their bounds is the price of cutting the stamp
off to milliseconds: up to one of them, always to the client's disadvantage when it is late.

### Assumptions about what is not in the repository

- the engine, between being called and returning, sends addressed messages only to sessions it
  was told of, was not told the end of, and that have spoken; it may close any session it was
  told of; it may broadcast an ExecutionReport; it may throw;
- the engine sends no `UserResponse` of its own, though the Controller and the session would pass one on
  (`controller.cpp:299-301`, `session.cpp:499-501`): the session answers each `UserRequest` itself, under a comment
  that this part is not migrated to the library (`session.cpp:371`). `ClientViewSound` rests on it;
- an exception that leaves the engine while no `Read` is on the stack goes back to the client
  library, past all code of this repository, and is not modelled;
- the network library reports `Disconnected` at most once for a connection, and may still report
  `Read` or `Disconnected` after the bridge has closed it.

## 3. Runs

| Run | Instance | Shows |
|---|---|---|
| `routes` | 3 sessions, 4 strategies (6,400 states) | maps agree, one owner per strategy, who alone drops it, and true answers |
| `session_manager` | 3 sessions, deadline of 3 ticks, timer events 1 or 2 ticks apart (2,900 states) | zombie set exact, life cycle, destruction within the clean-up period |
| `fix_bridge` | 2 sessions, 2 strategies, batches of 2, 3 messages sent per session (2,200,000 states) | all safety of the composition, after the end of a session too |
| `fix_bridge_fair` | 2 sessions, 1 strategy, batches of 2, 2 messages sent per session (153,000 states) | handlers return, closed sessions are destroyed |
| `inbound` | 3 messages in up to 6 bytes, cut in every way, numbered in every way from 0 to 3 (223,000 states) | order, no repetition, nothing kept back, gaps noticed |
| `mapping` | 3 symbols, 2 keys, 2 target expressions, all 19,683 configurations up to symmetry | order of arrival, ambiguity, assertions |
| `configuration` | files of 3 users, changed in one item anywhere or in two names or accounts, all flags, all orders (76,000 states) | the later checks pass, users are distinct and share accounts by overlap only, exactly the valid files start the bridge |
| `logon` | 2 names, 2 components, 2 secrets, 6 clocks, a Logon that arrives up to 3 times, 3 methods, with and without a stamp (337,000 states) | who gets in, and when |
| `disconnect_keeps_routes` | as `fix_bridge` | finding 1 |
| `reports_not_routed` | as `fix_bridge` | finding 2 |
| `report_before_first_message` | as `fix_bridge` | finding 3 |
| `unknown_keys` | as `configuration` | finding 4 |

Bounds. `MaxSessions` is the number of connections in a behaviour. Two are enough for competition
over a route, for a callback into a session other than the reader, and for a new session after a
dead one; `Routes` alone has three. `MaxBatch = 2` has a message before and after the one that
closes the session. `MaxSeqNum = 3` has a lost message, a later one that reveals it, and one more;
a UserRequest always has the number of its answer in reserve, so the bound never drops an answer.
`MaxSeqNum` bounds sending only: without room an addressed message or a broadcast is not sent.
`CleanupFrequency` is in ticks, `MaxElapsed` how late a timer event may be. The safety proofs hold
for all values of these constants. For `Mapping`, three symbols give two rival sources and a
target, or one source and two targets. Its run does not check for deadlock: after a fatal error
the process has ended. Nor does the run of `Inbound`: a client that has sent everything may stop.
Six bytes for three messages give messages of one byte and messages cut into several pieces, in a
buffer that holds the end of one, a whole one and the beginning of another. Its `MaxSeqNum = 3` has
the right number for each message, every gap, every replay, and 0.

For `Configuration`, two of the three users can clash while one does not, and two changes are what
a clash of names or accounts takes, or of two pairs; a change gives an item a value of each other
type, leaves it out, or adds one under an unknown key. `IdModulus = 4` just has room for three users and
nobody. For `Logon`, a millisecond has three nanoseconds and the tolerance, 4, is no multiple of it, so
that cutting off matters; clocks of clients are behind and ahead by less than the tolerance, by the
tolerance, just over it and far over it, and the bridge's clock runs to 9, past twice the
tolerance. One Logon suffices, since the answer to one does not depend on others; three arrivals give an
answer between two others. Neither run checks for deadlock: the start-up ends in serving or
failed, and the clock at its bound.

Symmetry is used for strategies, symbols and keys in safety runs only: no module orders or
chooses among them.

Fairness (`FairSpec`, `DelaySpec`). Weak fairness of the steps of a running handler: the thread
executes code it has started. Strong fairness of `BridgeReturns`: the engine may call back many
times but each call into it returns. Strong fairness of the clean-up timer: `drain` serves the
periodic timer on every pass, whatever the connections do, but it cannot fire inside a handler.
In `Inbound`, weak fairness of `Read`, since the event loop reports bytes that can be read, and of
the steps of the running handler.
No fairness is assumed of clients, connections or gateways.

## 4. Findings

1. **A disconnected client keeps its routes** (`session.cpp:657`, code bug). `make_zombie` calls
   `remove_all_routes` only if `state_ == State::READY`, and nothing sets `READY` since logon moved
   into the engine. `index.rst:479` says the route is removed automatically. As ids are not reused
   and `add_route` refuses a strategy that has an owner, the client cannot register it again after
   reconnecting: `add_route` fails until the bridge is restarted. `LeakedRoutesStay`
   proves that it is for ever, whatever clients, engine and timer do.
2. **Order updates are not routed by strategy** (`controller.cpp:373`). An ExecutionReport without a
   session is sent to every session; `index.rst:480` promises routing by strategy. The code has a
   FIXME at the place.
3. **An ExecutionReport may be sent to a connection without a name** (`session.cpp:624`). The
   broadcast includes sessions that have not sent a message; the assertion on `comp_id_` fails, and
   without assertions a report with an empty target takes the first sequence number. That nothing but the broadcast is sent without a name is proved
   (`OnlyBroadcastsUnnamed`).
4. **Unknown keys beside the regex of a gateway are ignored** (`config.cpp:129`). `parse_symbols` looks
   for `regex` in the table `symbols.<gateway>` and then erases all of `symbols`, without the
   `check_empty` every other table gets. `CHANGELOG.md:164` says "Fail on unknown config (toml)
   keys". That this is the only exception is proved
   (`NothingEverIgnored`).

`cancel_on_disconnect` has no effect for the reason of finding 1.

## 5. Proofs

| Module | Theorems |
|---|---|
| `RoutesProofs` | `RoutesInvariant`, `RoutesTypeCorrect` |
| `SessionManagerProofs` | `ManagerInvariant`, `ManagerTypeCorrect`, `OnlyZombiesEverLeave`, `ManagerImplementsLife` |
| `HistoryProofs` (of `RouteCalls` and `CleanupDelay`) | `CallsImplementOwnership`, `CallsOnlyWatch`, `ClosedAlwaysSoonDestroyed`, `WaitingOnlyWatches` |
| `FixBridgeProofs` | `TypeCorrect`, `ReaderSurvives`, `OnlyLiveDispatch`, `LiveAlwaysKnown`, `ClientsKnowTheirRoutes`, `OwnersMoveRoutes`, `LateRequestsAreLast`, `NewSessionsInheritNothing`, `DestroyedStayUntouched`, `LeakedRoutesStay`, `OnlyBroadcastsUnnamed`, `HandlersShrink`, `BridgeImplementsLife` |
| `InboundProofs` | `BufferBounds`, `GapsAreNoticed`, `ReadIsThorough`, `InboundImplementsStream`, `ReadLoopAdvances` |
| `MappingProofs` | `MappingTypeCorrect`, `OrderDoesNotMatter`, `StopsIffAmbiguous`, `AssertionsHold` |
| `ConfigurationProofs` | `ConfigTypeCorrect`, `LaterChecksAlwaysPass`, `UsersAlwaysIdentified`, `AccountsSharedByOverlap`, `NothingEverIgnored`, `AlwaysStartsIffValid`, `StartUpAdvances` |
| `LogonProofs` | `LogonTypeCorrect`, `GenuineAlwaysGetIn`, `OnlyTimelyEverGetIn`, `RetriesAlwaysAgree` |

Every invariant and every safety property of the passing runs is stated by one of these theorems.
The others state what no run needs to repeat: bounds that make loops end, and how far a finding reaches.

The assumptions are the ones on constants in the modules (`Identifiers`, `SessionManager`,
`Session`, `FixBridge`, `Inbound`, `Mapping`, `Configuration`, `Logon`): bounds are natural numbers,
the null values are outside their sets, an item of a file lies in tables of the file, there are fewer users than ids, expressions match accounts.

- *Routes.* The types and `MapsAgree` are inductive together. `MapsAgree` is what makes
  `remove_all_routes` safe: it erases by strategy without looking at the owner.
- *RouteCalls.* With both maps agreeing, what each call does to the map by strategy, and the boolean it
  returns, is a step of `RouteOwnership` for the same caller; `remove_all_routes` needs `MapsAgree` for that.
- *SessionManager.* The inductive invariant is the types, `ZombiesTracked` and `OnlyZombiesLeave`.
  The refinement needs both: the clean-up may take the step "zombie to gone" only because the set
  holds zombies.
- *CleanupDelay.* The invariant that carries the bound is not about zombies only: for each of them,
  the time waited and the time left to the deadline add up to the period at most. A session becomes
  a zombie with nothing waited and a deadline no further than a period; an event before the deadline moves as much
  from one to the other as it moves from the deadline; an event at the deadline removes the zombie.
- *FixBridge.* Every step is a step of `Routes` and of `SessionManager` or leaves their variables
  alone (`StepOfRoutes`, `StepOfManager`), so their invariants carry over, and so does the
  refinement of `SessionLife`. On top come `FrameInv` (who is on the stack, and that an answer still owed has a
  sequence number in reserve), `SessionInv` (`seen` never passes `outbound`, the reason why a
  client that misses a message can tell), `UnissuedUntouched` (ids not issued yet have left no
  trace, needed for new sessions and for `ClientViewSound` at birth) and `LiveSessionsKnown`.
  `ClientViewSound` is proved by showing that no step makes a client's view complete that was
  not complete before, and that a step that changes a live session's routes either answers it or
  closes it. That destroyed sessions change no more (`AbsentUnchanged`) goes by action: a step that writes to
  a session needs it in the table, or on the stack, where `FrameInv` puts it in the table. With ids
  issued in order this is also why leaked routes stay. `LateRequestsAreLast` follows from who changes
  routes at all: outside answers to UserRequests a step takes them only from a session that it closes, and
  after an answer to a zombie `NextMessage` ends the Read. `HandlersShrink` gives each place of the stack a
  number: four for each message still pending, up to three for the message in hand, and one for an
  exception on its way.
- *Inbound.* While a session is open, `drained + total_bytes` is exactly where the last message
  handled ends (`AtBoundary`). Messages have different ends, so the message found there is the next
  one. After an exception the equation is lost, because the drain was skipped; the invariant
  survives only because the session is closed by the same step. For the numbers, `NumbersInv` says that
  `msg_seq_num` is the number of the last message handled, or 0: without a warning so far it equals
  how many were handled. The loop ends because a message is never empty: its turn moves `Start`, and
  bytes that arrive meanwhile are not in the buffer.
- *Mapping.* In the middle of an `add` each table is described by the pairs of symbol and
  expression matched so far; the broadcast table is the join of the other two at every step.
- *Configuration.* `ConfigInv` describes each loop by the users it has done: the ids of users read are
  1 to their number, `names` and `accounts` are those of the users checked, and once a phase is past,
  its check holds of all users (`NamesSoFar`, `AccountsSoFar`). With the records distinct, the tables
  of `Shared` and `Controller` hold exactly the users their loop has done (`TablesSoFar`), hence no clash. An accepted
  account is compared only without routing by strategy; with it `parse_users` leaves none.
  `StartsIffValid` has two directions. To serve, every loop has accepted every part (`AcceptedSoFar`), and those
  parts make a valid file. To fail, a part was refused; a valid file passes each check
  (`ValidFileIsAccepted`), a name or account found taken is another user's (`TakenNameIsInvalid`,
  `TakenAccountIsInvalid`), and in `Shared` and `Controller` nothing is refused any more.
- *Logon.* `Signed` is the link between what a Logon carries and what its client knew: the stamp is the
  client's clock cut to milliseconds. The two bounds then follow from `n - (NanosPerMilli - 1) <=
  Nanos(n \div NanosPerMilli) <= n`, and `RetriesAgree` from the times within the tolerance of one
  stamp being an interval.

Left to TLC, since the prover does not handle fairness: the liveness properties `HandlersReturn` and
`ImplementsSessionLife`, and that a message that arrived is handled in the end (the fairness in
`ImplementsStream`). Their safety halves are proved, for all values of the constants, and are what fairness has to
be added to: a handler has less to do after each step of its own (`HandlersShrink`), the Read loop
has fewer bytes (`ReadLoopAdvances`), a zombie less time to wait (`ClosedAlwaysSoonDestroyed`), and the
messages are those of the stream (`ImplementsStreamSafety`).

## 6. Not modelled

- *Gateway readiness* and *the older credentials*: `Shared::add_source`, `remove_source`, its handlers of
  `Disconnected`, `StreamStatus` and `GatewaySettings`, `session_logon` and `session_logout` have no caller in the
  repository at this commit. Their tables stay as they were constructed in every state the
  program can reach; a model would have to invent the calls.
- The same holds of `Shared::update_broadcast_table` and `broadcast`: `Mapping` models a component that its
  unit test exercises and the running bridge builds but does not feed. `dispatch` of a mapping
  ignores the exchange it is given (`mapping.hpp:29`), so a symbol of another exchange with the name of a
  source would be broadcast too; with no caller there is no behaviour to check.
- The *`Control` event* forwards one update to the client library and changes no state here.
- *Batches of `FixBridge` as a refinement of the buffer of `Inbound`*: a Read that throws on a message
  whose size is not known yet is one step of `Inbound` and, in `FixBridge`, a Read of one message followed by
  `ParseThrows`, so the two do not map step to step. Their common ground, messages in order and
  once, is `MessageStream`.
- *The bridge with finding 1 repaired*: that code does not exist.
- *Symbols, statistics, the expressions of broadcasts and error numbers* after they were checked: they are handed on to the
  engine unchanged.
- *Settings, `FIXLog`, `Application`* (start up and output), the contents and encoding of FIX messages
  (libraries), and metrics.

Three hazards have no property: whether the engine learns of a connection closed from this side
(`session.cpp:651`; the network library decides), stamps that overflow (`crypto.cpp:75`) and values
that are no tables (`config.cpp:275`), both undefined behaviour of which nothing in the repository says
what should happen.

--------------------------- MODULE SessionManager ---------------------------
(***************************************************************************)
(* SessionManager, with the State member of every Session: connections are *)
(* accepted, sessions become zombies, and a timer destroys the zombies.    *)
(*                                                                         *)
(* A zombie is not destroyed where it is made: make_zombie runs inside the *)
(* session's own callbacks, so the object has to outlive them.             *)
(*                                                                         *)
(* next_cleanup is next_cleanup_ minus the `now' of the last timer event,  *)
(* in ticks: the code compares and stores differences only, and the clock  *)
(* itself would be an unbounded counter.                                   *)
(***************************************************************************)
EXTENDS Identifiers

CONSTANTS
  CleanupFrequency,   \* CLEANUP_FREQUENCY, in ticks of the timer
  MaxElapsed          \* bound: ticks between two timer events

ASSUME CleanupAssumption ==
  CleanupFrequency \in Nat /\ MaxElapsed \in Nat \ {0}

VARIABLES
  next_session_id,
  sessions,       \* the keys of sessions_
  state,          \* Session::state_, kept for ids not in sessions too
  zombies,
  next_cleanup

managerVars == << next_session_id, sessions, state, zombies, next_cleanup >>

States == {"WAITING_LOGON", "READY", "ZOMBIE"}
Elapsed == 1 .. MaxElapsed

ManagerTypeOK ==
  /\ next_session_id \in 0 .. MaxSessions
  /\ sessions \subseteq SessionIds
  /\ state \in [SessionIds -> States]
  /\ zombies \subseteq SessionIds
  /\ next_cleanup \in 0 .. CleanupFrequency

ManagerInit ==
  /\ next_session_id = 0
  /\ sessions = {}
  /\ state = [session_id \in SessionIds |-> "WAITING_LOGON"]
  /\ zombies = {}
  /\ next_cleanup = 0

IsZombie(session_id) == state[session_id] = "ZOMBIE"

\* Mutant: gives the id of a destroyed session to the next connection.
AddSessionReusesId ==
  /\ SessionIds \ sessions # {}
  /\ LET session_id == CHOOSE n \in SessionIds \ sessions :
                         \A m \in SessionIds \ sessions : n <= m
     IN  /\ next_session_id' = IF session_id > next_session_id
                                 THEN session_id ELSE next_session_id
         /\ sessions' = sessions \cup {session_id}
         /\ state' = [state EXCEPT ![session_id] = "WAITING_LOGON"]
  /\ UNCHANGED << zombies, next_cleanup >>

(***************************************************************************)
(* Listener callback: ++next_session_id_ and a new Session under that id.  *)
(***************************************************************************)
AddSession ==
  /\ next_session_id < MaxSessions
  /\ next_session_id' = next_session_id + 1
  /\ sessions' = sessions \cup {next_session_id + 1}
  /\ UNCHANGED << state, zombies, next_cleanup >>

\* Mutant: the Disconnect handler destroys the session on the spot.
EnterZombieDestroys(session_id) ==
  /\ state' = [state EXCEPT ![session_id] = "ZOMBIE"]
  /\ sessions' = sessions \ {session_id}
  /\ UNCHANGED << next_session_id, zombies, next_cleanup >>

\* Mutant: the handler is told, the state is not updated.
EnterZombieKeepsState(session_id) ==
  /\ zombies' = zombies \cup {session_id}
  /\ UNCHANGED << next_session_id, sessions, state, next_cleanup >>

(***************************************************************************)
(* utils::update(state_, ZOMBIE) and, when it changed something, the       *)
(* manager's Disconnect handler.                                           *)
(***************************************************************************)
EnterZombie(session_id) ==
  IF IsZombie(session_id)
    THEN UNCHANGED managerVars
    ELSE /\ state' = [state EXCEPT ![session_id] = "ZOMBIE"]
         /\ zombies' = zombies \cup {session_id}
         /\ UNCHANGED << next_session_id, sessions, next_cleanup >>

\* Mutant: destroys the sessions and keeps their ids in zombies_.
RemoveZombiesKeepsIds ==
  /\ sessions' = sessions \ zombies
  /\ UNCHANGED zombies

RemoveZombies ==
  /\ sessions' = sessions \ zombies
  /\ zombies' = {}

\* Mutant: every timer event pushes the clean-up further away.
TimerEventPostpones(elapsed) ==
  /\ IF next_cleanup < elapsed
       THEN RemoveZombies
       ELSE UNCHANGED << sessions, zombies >>
  /\ next_cleanup' = CleanupFrequency
  /\ UNCHANGED << next_session_id, state >>

\* Mutant: tests the deadline the wrong way round.
TimerEventInverted(elapsed) ==
  /\ IF elapsed < next_cleanup
       THEN /\ next_cleanup' = CleanupFrequency
            /\ RemoveZombies
       ELSE /\ next_cleanup' = next_cleanup - elapsed
            /\ UNCHANGED << sessions, zombies >>
  /\ UNCHANGED << next_session_id, state >>

(***************************************************************************)
(* Timer callback, `elapsed' ticks after the one before.                   *)
(***************************************************************************)
TimerEvent(elapsed) ==
  /\ IF next_cleanup < elapsed
       THEN /\ next_cleanup' = CleanupFrequency
            /\ RemoveZombies
       ELSE /\ next_cleanup' = next_cleanup - elapsed
            /\ UNCHANGED << sessions, zombies >>
  /\ UNCHANGED << next_session_id, state >>

ManagerNext ==
  \/ AddSession
  \/ \E session_id \in sessions : EnterZombie(session_id)
  \/ \E elapsed \in Elapsed : TimerEvent(elapsed)

ManagerSafety == ManagerInit /\ [][ManagerNext]_managerVars

-----------------------------------------------------------------------------
(***************************************************************************)
(* zombies_ holds exactly the sessions waiting to be destroyed: a session  *)
(* that reached ZOMBIE and is not in the set would stay in sessions_ for   *)
(* ever, and an id in the set with no session behind it makes              *)
(* remove_session erase nothing (its assert).                              *)
(***************************************************************************)
ZombiesTracked ==
  zombies = {session_id \in sessions : IsZombie(session_id)}

(***************************************************************************)
(* Ids that were never issued have no session and no history; every issued *)
(* id that is not a session any more died as a zombie first.               *)
(***************************************************************************)
OnlyZombiesLeave ==
  /\ sessions \subseteq 1 .. next_session_id
  /\ \A session_id \in SessionIds \ sessions :
       IsZombie(session_id) <=> session_id <= next_session_id

(***************************************************************************)
(* The accepting, closing and cleaning code together gives sessions the    *)
(* life cycle of SessionLife.  The second form includes that the clean-up  *)
(* timer destroys every dead session in the end.                           *)
(***************************************************************************)
PhaseOf(session_id) ==
  IF session_id > next_session_id THEN "unborn"
    ELSE IF session_id \notin sessions THEN "gone"
      ELSE IF IsZombie(session_id) THEN "zombie" ELSE "live"

Life == INSTANCE SessionLife
          WITH phase <- [session_id \in SessionIds |-> PhaseOf(session_id)]
ImplementsSessionSafety == Life!LifeSafety
ImplementsSessionLife == Life!LifeSpec
=============================================================================

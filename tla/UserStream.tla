----------------------------- MODULE UserStream -----------------------------
(***************************************************************************)
(* The user data stream that feeds order events to the database: one       *)
(* WebSocketManager with its ConnectionManager (src/websocket/core), from  *)
(* start() to stop().  Three tasks may open the "user_data" connection:    *)
(* start() itself, the heartbeat and the reconnection a failed socket      *)
(* starts.  An action is the code between two awaits of the network, a     *)
(* timer or a cancelled task.                                              *)
(*                                                                         *)
(* A socket fails when its reader notices.  Sockets that are no longer the *)
(* registered one are only counted: nobody can tell them apart.            *)
(***************************************************************************)
EXTENDS Naturals

CONSTANTS
  MaxAttempts,  \* MAX_RECONNECT_ATTEMPTS
  MaxOrphans    \* the count of orphans saturates here: "this many or more"

ASSUME BoundsAssumption == MaxAttempts \in Nat /\ MaxOrphans \in Nat \ {0}

VARIABLES
  running,  \* running of both managers: they change together
  pc,       \* where start(), and later stop(), waits
  hb,       \* where the heartbeat waits
  st,       \* connection_states["user_data"]
  cur,      \* connections["user_data"], the registered socket
  rt,       \* reconnect_tasks["user_data"]
  orphans   \* live sockets with a reader that are not registered any more

vars == <<running, pc, hb, st, cur, rt, orphans>>

\* "ended": the server closed it with 1000 or 1001.  "failed": its reader
\* called _handle_connection_closed.
SocketStates == {"none", "open", "ended", "failed", "closing"}
EstablishLabels == {"key", "connecting"}

\* stale: the task works on a state record that has been replaced since, and
\* attempts is the counter of that old record.
NoReconnect == [pc |-> "none", stale |-> FALSE, attempts |-> 0]
NewReconnect == [pc |-> "created", stale |-> FALSE, attempts |-> 0]

Trying(stale, attempts) ==
  [pc |-> "trying", stale |-> stale, attempts |-> attempts]

States == [connected : BOOLEAN, attempts : 0..MaxAttempts]
Reconnects == [pc : {"none", "created", "trying"}, stale : BOOLEAN,
               attempts : 0..MaxAttempts]

TypeOK ==
  /\ running \in BOOLEAN
  /\ pc \in {"idle", "up", "cancelling", "closing", "stopped"} \cup EstablishLabels
  /\ hb \in {"off", "sleeping"} \cup EstablishLabels
  /\ st \in States
  /\ cur \in SocketStates
  /\ rt \in Reconnects
  /\ orphans \in 0..MaxOrphans

Init ==
  /\ running = FALSE
  /\ pc = "idle"
  /\ hb = "off"
  /\ st = [connected |-> FALSE, attempts |-> 0]
  /\ cur = "none"
  /\ rt = NoReconnect
  /\ orphans = 0

IsConnected == cur # "none" /\ st.connected
-----------------------------------------------------------------------------
(* Shared steps *)

\* create_connection replaces the state record before it awaits connect; a
\* reconnection that runs keeps the record it read.
NewStateRecord ==
  /\ st' = [connected |-> FALSE, attempts |-> 0]
  /\ rt' = IF rt.pc = "trying" /\ ~rt.stale
           THEN Trying(TRUE, st.attempts)
           ELSE rt

\* connections["user_data"] = websocket: an open socket found there goes on
\* being read but is not registered any more.
Register ==
  /\ cur' = "open"
  /\ orphans' = IF cur = "open" /\ orphans < MaxOrphans
                THEN orphans + 1 ELSE orphans

Created ==
  /\ Register
  /\ st' = [connected |-> TRUE, attempts |-> 0]

\* Faulty variant: the state record goes on saying connected.
ConnectionClosedUnnoticed ==
  /\ st' = st
  /\ rt' = IF rt.pc = "none" THEN NewReconnect ELSE rt

\* _handle_connection_closed
ConnectionClosed ==
  /\ st' = [st EXCEPT !.connected = FALSE]
  /\ rt' = IF rt.pc = "none" THEN NewReconnect ELSE rt
-----------------------------------------------------------------------------
(* start() *)

Start ==
  /\ pc = "idle"
  /\ running' = TRUE
  /\ hb' = "sleeping"
  /\ pc' = "key"
  /\ UNCHANGED <<st, cur, rt, orphans>>

StartGetsKey ==
  /\ pc = "key"
  /\ pc' = "connecting"
  /\ NewStateRecord
  /\ UNCHANGED <<running, hb, cur, orphans>>

StartConnects ==
  /\ pc = "connecting"
  /\ pc' = "up"
  /\ Created
  /\ UNCHANGED <<running, hb, rt>>

\* No listen key or no connection: start() calls stop().
StartFails ==
  /\ pc \in EstablishLabels
  /\ running' = FALSE
  /\ pc' = "cancelling"
  /\ UNCHANGED <<hb, st, cur, rt, orphans>>
-----------------------------------------------------------------------------
(* _heartbeat_monitor *)

HeartbeatChecks ==
  /\ hb = "sleeping"
  /\ \/ running /\ ~IsConnected /\ hb' = "key"
     \/ ~running /\ hb' = "off"
  /\ UNCHANGED <<running, pc, st, cur, rt, orphans>>

HeartbeatGetsKey ==
  /\ hb = "key"
  /\ hb' = "connecting"
  /\ NewStateRecord
  /\ UNCHANGED <<running, pc, cur, orphans>>

HeartbeatConnects ==
  /\ hb = "connecting"
  /\ hb' = "sleeping"
  /\ Created
  /\ UNCHANGED <<running, pc, rt>>

\* Faulty variant: the exception ends the heartbeat task.
HeartbeatFailsForGood ==
  /\ hb \in EstablishLabels
  /\ hb' = "off"
  /\ UNCHANGED <<running, pc, st, cur, rt, orphans>>

HeartbeatFails ==
  /\ hb \in EstablishLabels
  /\ hb' = "sleeping"
  /\ UNCHANGED <<running, pc, st, cur, rt, orphans>>
-----------------------------------------------------------------------------
(* _reconnect_connection *)

Attempts == IF rt.stale THEN rt.attempts ELSE st.attempts

\* Faulty variant: one attempt more than the limit.
TryAgainOffByOne ==
  IF Attempts <= MaxAttempts /\ running
  THEN IF rt.stale
       THEN rt' = Trying(TRUE, rt.attempts + 1) /\ st' = st
       ELSE rt' = Trying(FALSE, 0) /\ st' = [st EXCEPT !.attempts = @ + 1]
  ELSE rt' = NoReconnect /\ st' = st

\* The head of the loop, up to the connect that follows the sleep.
TryAgain ==
  IF Attempts < MaxAttempts /\ running
  THEN IF rt.stale
       THEN rt' = Trying(TRUE, rt.attempts + 1) /\ st' = st
       ELSE rt' = Trying(FALSE, 0) /\ st' = [st EXCEPT !.attempts = @ + 1]
  ELSE rt' = NoReconnect /\ st' = st

ReconnectBegins ==
  /\ rt.pc = "created"
  /\ TryAgain
  /\ UNCHANGED <<running, pc, hb, cur, orphans>>

ReconnectFails ==
  /\ rt.pc = "trying"
  /\ TryAgain
  /\ UNCHANGED <<running, pc, hb, cur, orphans>>

\* The record the task holds is told, which is the visible one unless stale.
ReconnectConnects ==
  /\ rt.pc = "trying"
  /\ Register
  /\ st' = IF rt.stale THEN st ELSE [connected |-> TRUE, attempts |-> 0]
  /\ rt' = NoReconnect
  /\ UNCHANGED <<running, pc, hb>>
-----------------------------------------------------------------------------
(* Sockets and their readers (_handle_messages) *)

SocketFails ==
  /\ cur \in {"open", "closing"}
  /\ cur' = "failed"
  /\ ConnectionClosed
  /\ UNCHANGED <<running, pc, hb, orphans>>

\* A close with 1000 or 1001 ends the iteration over messages without an
\* exception: nothing is called.
SocketEnds ==
  /\ cur = "open"
  /\ cur' = "ended"
  /\ UNCHANGED <<running, pc, hb, st, rt, orphans>>

FewerOrphans ==
  /\ orphans > 0
  /\ orphans' \in {orphans - 1} \cup (IF orphans = MaxOrphans THEN {orphans} ELSE {})

\* The reader of an orphan calls _handle_connection_closed for "user_data".
OrphanFails ==
  /\ FewerOrphans
  /\ ConnectionClosed
  /\ UNCHANGED <<running, pc, hb, cur>>

OrphanEnds ==
  /\ FewerOrphans
  /\ UNCHANGED <<running, pc, hb, st, cur, rt>>
-----------------------------------------------------------------------------
(* stop() *)

Stop ==
  /\ pc = "up"
  /\ running' = FALSE
  /\ pc' = "cancelling"
  /\ UNCHANGED <<hb, st, cur, rt, orphans>>

\* The tasks are cancelled one after the other, each one awaited; then the
\* registered socket, if there is one, is being closed.
TasksCancelled ==
  /\ pc = "cancelling"
  /\ hb' = "off"
  /\ IF cur = "none"
     THEN pc' = "stopped" /\ UNCHANGED cur
     ELSE pc' = "closing" /\ cur' = IF cur = "open" THEN "closing" ELSE cur
  /\ UNCHANGED <<running, st, rt, orphans>>

\* Faulty variant: the reconnection task is not cancelled.
CloseConnectionOnly ==
  /\ pc = "closing"
  /\ pc' = "stopped"
  /\ cur' = "none"
  /\ orphans' = IF cur = "open" /\ orphans < MaxOrphans
                THEN orphans + 1 ELSE orphans
  /\ st' = [st EXCEPT !.connected = FALSE]
  /\ UNCHANGED <<running, hb, rt>>

\* close_connection after its await: whatever is registered by then is
\* deleted, and the reconnection is cancelled.
CloseConnection ==
  /\ pc = "closing"
  /\ pc' = "stopped"
  /\ cur' = "none"
  /\ orphans' = IF cur = "open" /\ orphans < MaxOrphans
                THEN orphans + 1 ELSE orphans
  /\ st' = [st EXCEPT !.connected = FALSE]
  /\ rt' = NoReconnect
  /\ UNCHANGED <<running, hb>>
-----------------------------------------------------------------------------

Starting == Start \/ StartGetsKey \/ StartConnects \/ StartFails
Heartbeat == HeartbeatChecks \/ HeartbeatGetsKey \/ HeartbeatConnects \/ HeartbeatFails
Reconnecting == ReconnectBegins \/ ReconnectFails \/ ReconnectConnects
Sockets == SocketFails \/ SocketEnds \/ OrphanFails \/ OrphanEnds
Stopping == Stop \/ TasksCancelled \/ CloseConnection

Next == Starting \/ Heartbeat \/ Reconnecting \/ Sockets \/ Stopping

Spec == Init /\ [][Next]_vars

\* asyncio runs the heartbeat; the exchange does not refuse it for ever.
FairSpec ==
  /\ Spec
  /\ WF_vars(Heartbeat)
  /\ SF_vars(HeartbeatGetsKey)
  /\ SF_vars(HeartbeatConnects)
-----------------------------------------------------------------------------
(* Properties *)

\* is_connected never counts on a socket whose reader has given up on it,
\* whichever of the three tasks registered it and whichever state record it
\* told.
ConnectedHasReader == IsConnected => cur \in {"open", "ended", "closing"}

\* Once stop() has returned nothing opens a socket, although a reconnection
\* that was under way does not look at running after its sleep.
NoSocketAfterStop ==
  [][pc = "stopped" => cur' = "none" /\ orphans' <= orphans]_vars

\* A connection that is known to be lost is established again, even after
\* the reconnection task has used up its attempts.
LossIsRepaired == (pc = "up" /\ ~IsConnected) ~> (IsConnected \/ ~running)
=============================================================================

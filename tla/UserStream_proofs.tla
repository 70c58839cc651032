-------------------------- MODULE UserStream_proofs --------------------------
(***************************************************************************)
(* What holds of the user data stream for every MaxAttempts and MaxOrphans.*)
(***************************************************************************)
EXTENDS UserStream, TLAPS

\* running is true from start() to stop(), and the heartbeat is off by the
\* time the registered socket is being closed.
Phases ==
  /\ running <=> pc \in {"up"} \cup EstablishLabels
  /\ pc \in {"closing", "stopped"} => hb = "off"

\* Before the first socket there is nothing to reconnect.
NothingBeforeFirst ==
  pc # "stopped" /\ cur = "none" => orphans = 0 /\ rt.pc = "none"

\* After stop() a reconnection may be created, but not get as far as connect.
Quiet == pc = "stopped" => cur = "none" /\ rt.pc # "trying"

IInv == TypeOK /\ ConnectedHasReader /\ Phases /\ NothingBeforeFirst /\ Quiet

\* The records the reconnection task goes through have their type.
LEMMA ReconnectTyped ==
  /\ NoReconnect \in Reconnects /\ NoReconnect.pc = "none"
  /\ NewReconnect \in Reconnects /\ NewReconnect.pc = "created"
  /\ \A stale \in BOOLEAN, n \in 0..MaxAttempts :
       Trying(stale, n) \in Reconnects /\ Trying(stale, n).pc = "trying"
<1>1. 0 \in 0..MaxAttempts
  BY BoundsAssumption
<1>2. NoReconnect \in Reconnects /\ NoReconnect.pc = "none"
  BY <1>1 DEF NoReconnect, Reconnects
<1>3. NewReconnect \in Reconnects /\ NewReconnect.pc = "created"
  BY <1>1 DEF NewReconnect, Reconnects
<1>4. ASSUME NEW stale \in BOOLEAN, NEW n \in 0..MaxAttempts
      PROVE  Trying(stale, n) \in Reconnects /\ Trying(stale, n).pc = "trying"
  BY <1>4 DEF Trying, Reconnects
<1>5. QED
  BY <1>2, <1>3, <1>4

\* The records create_connection and its success store have their type.
LEMMA StateTyped ==
  ASSUME NEW b \in BOOLEAN, NEW n \in 0..MaxAttempts
  PROVE  /\ [connected |-> b, attempts |-> n] \in States
         /\ [connected |-> b, attempts |-> n].connected = b
BY DEF States

\* Updates of one field of the state record keep its type.
LEMMA StateUpdated ==
  ASSUME st \in States
  PROVE  /\ st.connected \in BOOLEAN /\ st.attempts \in 0..MaxAttempts
         /\ [st EXCEPT !.connected = FALSE] \in States
         /\ [st EXCEPT !.connected = FALSE].connected = FALSE
         /\ \A n \in 0..MaxAttempts :
              /\ [st EXCEPT !.attempts = n] \in States
              /\ [st EXCEPT !.attempts = n].connected = st.connected
BY DEF States

\* One attempt of the reconnection loop keeps every counter within bounds,
\* and goes on only while running.
LEMMA TryAgainBounded ==
  ASSUME TypeOK, TryAgain
  PROVE  /\ st' \in States /\ st'.connected = st.connected
         /\ rt' \in Reconnects
         /\ rt'.pc \in {"none", "trying"} /\ (rt'.pc = "trying" => running)
<1>1. st \in States /\ rt \in Reconnects
  BY DEF TypeOK
<1>2. rt.stale \in BOOLEAN /\ rt.attempts \in 0..MaxAttempts
  BY <1>1 DEF Reconnects
<1>3. CASE Attempts < MaxAttempts /\ running /\ rt.stale
  <2>1. rt' = Trying(TRUE, rt.attempts + 1) /\ st' = st
    BY <1>3 DEF TryAgain
  <2>2. rt.attempts + 1 \in 0..MaxAttempts
    BY <1>2, <1>3, BoundsAssumption DEF Attempts
  <2>3. QED
    BY <1>1, <1>3, <2>1, <2>2, ReconnectTyped
<1>4. CASE Attempts < MaxAttempts /\ running /\ ~rt.stale
  <2>1. rt' = Trying(FALSE, 0) /\ st' = [st EXCEPT !.attempts = st.attempts + 1]
    BY <1>4 DEF TryAgain
  <2>2. st.attempts + 1 \in 0..MaxAttempts /\ 0 \in 0..MaxAttempts
    BY <1>1, <1>4, StateUpdated, BoundsAssumption DEF Attempts
  <2>3. QED
    BY <1>1, <1>4, <2>1, <2>2, ReconnectTyped, StateUpdated
<1>5. CASE ~(Attempts < MaxAttempts /\ running)
  <2>1. rt' = NoReconnect /\ st' = st
    BY <1>5 DEF TryAgain
  <2>2. QED
    BY <1>1, <2>1, ReconnectTyped
<1>6. QED
  BY <1>3, <1>4, <1>5

\* create_connection's new record and what the running task keeps.
LEMMA NewStateTyped ==
  ASSUME TypeOK, NewStateRecord
  PROVE  /\ st' \in States /\ st'.connected = FALSE
         /\ rt' \in Reconnects /\ rt'.pc = rt.pc
<1>1. st.attempts \in 0..MaxAttempts /\ 0 \in 0..MaxAttempts
  BY BoundsAssumption DEF TypeOK, States
<1>2. st' = [connected |-> FALSE, attempts |-> 0]
  BY DEF NewStateRecord
<1>3. rt \in Reconnects
  BY DEF TypeOK
<1>4. (rt.pc = "trying" /\ rt' = Trying(TRUE, st.attempts)) \/ rt' = rt
  BY DEF NewStateRecord
<1>5. QED
  BY <1>1, <1>2, <1>3, <1>4, StateTyped, ReconnectTyped

\* _handle_connection_closed takes the flag back and makes a task at most.
LEMMA ClosedTyped ==
  ASSUME TypeOK, ConnectionClosed
  PROVE  /\ st' \in States /\ st'.connected = FALSE
         /\ rt' \in Reconnects
         /\ rt'.pc = "trying" => rt.pc = "trying"
BY StateUpdated, ReconnectTyped DEF TypeOK, ConnectionClosed

\* The registered socket is open after Register, whatever was there before.
LEMMA RegisterTyped ==
  ASSUME TypeOK, Register
  PROVE  cur' = "open" /\ orphans' \in 0..MaxOrphans
BY BoundsAssumption DEF TypeOK, Register

\* What create_connection leaves behind when connect succeeds.
LEMMA CreatedTyped ==
  ASSUME TypeOK, Created
  PROVE  st' \in States /\ cur' = "open" /\ orphans' \in 0..MaxOrphans
<1>1. 0 \in 0..MaxAttempts
  BY BoundsAssumption
<1>2. QED
  BY <1>1, RegisterTyped, StateTyped DEF Created

\* The initial state satisfies the invariant.
LEMMA InitInvariant == Init => IInv
<1> SUFFICES ASSUME Init PROVE IInv
  OBVIOUS
<1>1. 0 \in 0..MaxAttempts /\ 0 \in 0..MaxOrphans
  BY BoundsAssumption
<1>2. st \in States /\ rt \in Reconnects /\ rt.pc = "none"
  BY <1>1, StateTyped, ReconnectTyped DEF Init
<1>3. QED
  BY <1>1, <1>2 DEF Init, IInv, TypeOK, ConnectedHasReader, IsConnected, Phases,
                    NothingBeforeFirst, Quiet, EstablishLabels, SocketStates

\* Every step of every task keeps the invariant.
LEMMA NextInvariant == IInv /\ [Next]_vars => IInv'
<1> SUFFICES ASSUME IInv, [Next]_vars PROVE IInv'
  OBVIOUS
<1> USE BoundsAssumption DEF IInv, TypeOK, ConnectedHasReader, IsConnected,
        Phases, NothingBeforeFirst, Quiet, EstablishLabels, SocketStates
<1>1. CASE Starting
  <2>1. CASE Start
    BY <2>1 DEF Start
  <2>2. CASE StartGetsKey
    BY <2>2, NewStateTyped DEF StartGetsKey
  <2>3. CASE StartConnects
    BY <2>3, CreatedTyped DEF StartConnects
  <2>4. CASE StartFails
    BY <2>4 DEF StartFails
  <2>5. QED
    BY <1>1, <2>1, <2>2, <2>3, <2>4 DEF Starting
<1>2. CASE Heartbeat
  <2>1. CASE HeartbeatChecks
    BY <2>1 DEF HeartbeatChecks
  <2>2. CASE HeartbeatGetsKey
    BY <2>2, NewStateTyped DEF HeartbeatGetsKey
  <2>3. CASE HeartbeatConnects
    BY <2>3, CreatedTyped DEF HeartbeatConnects
  <2>4. CASE HeartbeatFails
    BY <2>4 DEF HeartbeatFails
  <2>5. QED
    BY <1>2, <2>1, <2>2, <2>3, <2>4 DEF Heartbeat
<1>3. CASE Reconnecting
  <2>1. CASE ReconnectBegins
    <3>1. TryAgain
      BY <2>1 DEF ReconnectBegins
    <3>2. QED
      BY <2>1, <3>1, TryAgainBounded DEF ReconnectBegins
  <2>2. CASE ReconnectFails
    <3>1. TryAgain
      BY <2>2 DEF ReconnectFails
    <3>2. QED
      BY <2>2, <3>1, TryAgainBounded DEF ReconnectFails
  <2>3. CASE ReconnectConnects
    <3>1. st' \in States
      <4>1. 0 \in 0..MaxAttempts
        OBVIOUS
      <4>2. QED
        BY <2>3, <4>1, StateTyped DEF ReconnectConnects
    <3>2. cur' = "open" /\ orphans' \in 0..MaxOrphans
      BY <2>3, RegisterTyped DEF ReconnectConnects
    <3>3. rt' \in Reconnects /\ rt'.pc = "none"
      BY <2>3, ReconnectTyped DEF ReconnectConnects
    <3>4. pc \notin {"stopped"} /\ UNCHANGED <<running, pc, hb>>
      BY <2>3 DEF ReconnectConnects
    <3>5. QED
      BY <3>1, <3>2, <3>3, <3>4
  <2>4. QED
    BY <1>3, <2>1, <2>2, <2>3 DEF Reconnecting
<1>4. CASE Sockets
  <2>1. CASE SocketFails
    BY <2>1, ClosedTyped DEF SocketFails
  <2>2. CASE SocketEnds
    BY <2>2 DEF SocketEnds
  <2>3. CASE OrphanFails
    <3>1. /\ st' \in States /\ st'.connected = FALSE /\ rt' \in Reconnects
          /\ rt'.pc = "trying" => rt.pc = "trying"
      BY <2>3, ClosedTyped DEF OrphanFails
    <3>2. orphans > 0 /\ orphans' \in 0..MaxOrphans
      BY <2>3 DEF OrphanFails, FewerOrphans
    <3>3. UNCHANGED <<running, pc, hb, cur>>
      BY <2>3 DEF OrphanFails
    <3>4. QED
      BY <3>1, <3>2, <3>3
  <2>4. CASE OrphanEnds
    BY <2>4 DEF OrphanEnds, FewerOrphans
  <2>5. QED
    BY <1>4, <2>1, <2>2, <2>3, <2>4 DEF Sockets
<1>5. CASE Stopping
  <2>1. CASE Stop
    BY <2>1 DEF Stop
  <2>2. CASE TasksCancelled
    BY <2>2 DEF TasksCancelled
  <2>3. CASE CloseConnection
    BY <2>3, StateUpdated, ReconnectTyped DEF CloseConnection
  <2>4. QED
    BY <1>5, <2>1, <2>2, <2>3 DEF Stopping
<1>6. CASE UNCHANGED vars
  BY <1>6 DEF vars
<1>7. QED
  BY <1>1, <1>2, <1>3, <1>4, <1>5, <1>6 DEF Next

\* The invariant holds in every reachable state.
THEOREM Invariant == Spec => []IInv
BY InitInvariant, NextInvariant, PTL DEF Spec

\* Every variable keeps its type: the counters of the reconnection never
\* pass MaxAttempts, in the visible state record and in a replaced one.
THEOREM TypeCorrect == Spec => []TypeOK
BY Invariant, PTL DEF IInv

\* is_connected never counts on a socket whose reader has given up on it.
THEOREM ConnectedIsRead == Spec => []ConnectedHasReader
BY Invariant, PTL DEF IInv

\* Once stop() has returned, no step opens or registers a socket.
LEMMA StoppedStep ==
  IInv /\ [Next]_vars => (pc = "stopped" => cur' = "none" /\ orphans' <= orphans)
<1> SUFFICES ASSUME IInv, [Next]_vars, pc = "stopped"
             PROVE  cur' = "none" /\ orphans' <= orphans
  OBVIOUS
<1> USE BoundsAssumption DEF IInv, TypeOK, Phases, Quiet, EstablishLabels
<1>1. orphans \in Nat /\ cur = "none" /\ hb = "off" /\ rt.pc # "trying"
  OBVIOUS
<1>2. CASE Starting
  BY <1>2 DEF Starting, Start, StartGetsKey, StartConnects, StartFails
<1>3. CASE Heartbeat
  BY <1>1, <1>3 DEF Heartbeat, HeartbeatChecks, HeartbeatGetsKey,
                    HeartbeatConnects, HeartbeatFails
<1>4. CASE Reconnecting
  BY <1>1, <1>4 DEF Reconnecting, ReconnectBegins, ReconnectFails, ReconnectConnects
<1>5. CASE Sockets
  BY <1>1, <1>5 DEF Sockets, SocketFails, SocketEnds, OrphanFails, OrphanEnds,
                    FewerOrphans
<1>6. CASE Stopping
  BY <1>6 DEF Stopping, Stop, TasksCancelled, CloseConnection
<1>7. CASE UNCHANGED vars
  BY <1>1, <1>7 DEF vars
<1>8. QED
  BY <1>2, <1>3, <1>4, <1>5, <1>6, <1>7 DEF Next

\* Nothing opens a socket after stop(), although a reconnection under way
\* does not look at running after its sleep: stop() cancels it in time.
THEOREM StoppedStaysQuiet == Spec => NoSocketAfterStop
<1>1. IInv /\ [Next]_vars =>
        [pc = "stopped" => cur' = "none" /\ orphans' <= orphans]_vars
  BY StoppedStep
<1>2. QED
  BY <1>1, Invariant, PTL DEF Spec, NoSocketAfterStop
=============================================================================

--------------------------- MODULE BackupLoopProofs ---------------------------
(***************************************************************************)
(* A backup is never misled by a routine of the Scheduler that it has      *)
(* given up, never starts an election while heartbeats come, and handles   *)
(* the messages in their order, for any interval of the heartbeats below   *)
(* the timeout, any number of messages and any limit of descriptors.       *)
(***************************************************************************)
EXTENDS BackupLoop, FiniteSetTheorems, TLAPS

Calling == pc \in {"wait", "finish", "answer"}

\* The flag of a call is set by the last step of its thread.
FlagOK == Calling /\ timeoutRoutine => thread = "ended"

Connected(m) == m \in 1 .. Messages /\ link[m] # "none"

\* Once accept has come back, connection_socket is one of the connections or -1.
SocketOK ==
  /\ \A k \in DOMAIN queue : Connected(queue[k])
  /\ routine = "read" => Connected(connection_socket) /\ open >= 1
  /\ routine = "accept" /\ Calling /\ (thread = "returned" \/ timeoutRoutine)
     => connection_socket = -1 \/ (Connected(connection_socket) /\ open >= 1)

\* The rounds of this call, up to the one that comes next, fill the timeout.
Filled == (missed + 1) * HeartbeatS >= TimeoutS

\* While the primary lives a call that waits with nothing to accept has lasted no
\* longer than the rounds that left the backup out and the time since the last one.
TimeOK ==
  alive => /\ elapsed <= (missed + 1) * HeartbeatS
           /\ pc = "wait" /\ routine = "accept" /\ thread \in {"created", "inside"} /\ queue = << >>
              => elapsed <= missed * HeartbeatS + sinceRound
           /\ pc \in {"finish", "answer"} => timeoutRoutine \/ Filled
           /\ pc = "election" => Filled

IInv == TypeOK /\ FlagOK /\ SocketOK /\ TimeOK

-----------------------------------------------------------------------------
LEMMA Bounds ==
  /\ Messages \in Nat /\ Messages >= 1
  /\ FdLimit \in Nat /\ FdLimit >= 1
  /\ HeartbeatS \in Nat /\ TimeoutS \in Nat /\ HeartbeatS < TimeoutS
  /\ Backlog \in Nat /\ Ahead \in Nat
  BY LoopAssumption

LEMMA SentBound == Sent \in Nat
<1>1. IsFiniteSet(1 .. Messages)
  BY FS_Interval, Bounds
<1>2. IsFiniteSet({m \in 1 .. Messages : link[m] # "none"})
  BY <1>1, FS_Subset
<1> QED
  BY <1>2, FS_CardinalityType DEF Sent

\* What a queue gives, and what is put into it.
LEMMA QueueHead ==
  ASSUME NEW S, NEW q \in Seq(S), q # << >>
  PROVE  Head(q) \in S /\ Tail(q) \in Seq(S) /\ Len(Tail(q)) = Len(q) - 1 /\ Head(q) = q[1]
         /\ \A k \in DOMAIN Tail(q) : k + 1 \in DOMAIN q /\ Tail(q)[k] = q[k + 1]
  OBVIOUS

LEMMA AppendTypes ==
  ASSUME NEW S, NEW q \in Seq(S), NEW x \in S
  PROVE  /\ Append(q, x) \in Seq(S) /\ Len(Append(q, x)) = Len(q) + 1 /\ Append(q, x) # << >>
         /\ \A k \in DOMAIN Append(q, x) : IF k \in DOMAIN q THEN Append(q, x)[k] = q[k]
                                                            ELSE Append(q, x)[k] = x
  OBVIOUS

-----------------------------------------------------------------------------
(***************************************************************************)
(* What the primary's steps do, as far as this backup can see.             *)
(***************************************************************************)
Connects == Connect /\ UNCHANGED << alive, callVars, backupVars >>
Others   == UNCHANGED << alive, link, queue, elapsed, backupVars >>

LEMMA PrimarySteps == Primary => Connects \/ Others \/ PrimaryWrite \/ PrimaryEnd
  BY Zenon DEF Primary, Round, Notify, BackupEnds, Heartbeat, HeartbeatRefused, HeartbeatNoSocket,
     Connects, Others, callVars

LEMMA RoundStep ==
  ASSUME IInv, [Next]_vars
  PROVE  /\ sinceRound' \in 0 .. HeartbeatS
         /\ ahead' \in 0 .. Ahead /\ gone' \in 0 .. Ahead - ahead'
         /\ missed' \in Nat
<1> USE Bounds DEF roundVars, primaryVars, callVars
<1>t. /\ sinceRound \in 0 .. HeartbeatS
      /\ ahead \in 0 .. Ahead /\ gone \in 0 .. Ahead - ahead
      /\ missed \in Nat
  BY DEF IInv, TypeOK
<1>1. CASE Primary
  <2>1. CASE BackupEnds
    BY <1>t, <2>1 DEF BackupEnds
  <2>2. CASE Round
    BY <1>t, <2>2 DEF Round, StartRound, Heartbeat, HeartbeatRefused, HeartbeatNoSocket
  <2>3. CASE Notify \/ PrimaryWrite \/ PrimaryEnd
    BY <1>t, <2>3 DEF Notify, PrimaryWrite, PrimaryEnd
  <2> QED
    BY <1>1, <2>1, <2>2, <2>3 DEF Primary
<1>2. CASE Tick
  BY <1>t, <1>2 DEF Tick
<1>3. CASE RunRoutine
  BY <1>t, <1>3 DEF RunRoutine
<1>4. CASE UNCHANGED << roundVars, missed >>
  BY <1>t, <1>4
<1>5. Control \/ WaitRoutine \/ FinishRoutine \/ Answer \/ Handle \/ UNCHANGED vars
      => UNCHANGED << roundVars, missed >>
  BY Zenon DEF Control, Begin, AcceptConnection, AcceptFails, Read, SetFlag, WaitRoutine,
     FinishRoutine, Answer, Handle, vars
<1> QED
  BY <1>1, <1>2, <1>3, <1>4, <1>5 DEF Next, Main

-----------------------------------------------------------------------------
THEOREM InitOK == Init => IInv
<1> SUFFICES ASSUME Init PROVE IInv
  OBVIOUS
<1>1. TypeOK
  <2>1. queue \in Seq(1 .. Messages) /\ Len(queue) <= Backlog /\ applied \in Seq(1 .. Messages)
    BY Bounds DEF Init
  <2>2. link \in [1 .. Messages -> {"none", "open", "written", "ended"}]
    BY DEF Init
  <2>3. /\ sinceRound \in 0 .. HeartbeatS /\ ahead \in 0 .. Ahead /\ gone \in 0 .. Ahead - ahead
        /\ missed \in Nat /\ elapsed \in 0 .. TimeoutS /\ open \in 0 .. FdLimit
        /\ connection_socket \in -1 .. Messages /\ readBytes \in -1 .. 1 /\ buffer \in 0 .. Messages
    BY Bounds DEF Init
  <2>4. /\ alive \in BOOLEAN /\ timeoutRoutine \in BOOLEAN
        /\ pc \in {"run", "wait", "finish", "answer", "handle", "election"}
        /\ routine \in {"accept", "read"}
        /\ thread \in {"created", "inside", "returned", "ended", "cancelled"}
    BY Zenon DEF Init
  <2> QED
    BY <2>1, <2>2, <2>3, <2>4 DEF TypeOK
<1>2. FlagOK /\ SocketOK /\ TimeOK
  BY Bounds DEF Init, FlagOK, SocketOK, TimeOK, Calling, Connected
<1> QED
  BY <1>1, <1>2 DEF IInv

-----------------------------------------------------------------------------
(***************************************************************************)
(* The types are kept by every step; a connection that is closed was open. *)
(***************************************************************************)
LEMMA TypeStep == IInv /\ [Next]_vars => TypeOK'
<1> SUFFICES ASSUME IInv, [Next]_vars PROVE TypeOK'
  OBVIOUS
<1>r. /\ sinceRound' \in 0 .. HeartbeatS
      /\ ahead' \in 0 .. Ahead /\ gone' \in 0 .. Ahead - ahead'
      /\ missed' \in Nat
  BY RoundStep
<1> USE Bounds, <1>r DEF TypeOK, primaryVars, callVars, backupVars, resultVars
<1>t. TypeOK
  BY DEF IInv
<1>1. CASE Connects
  <2>1. Sent + 1 \in 1 .. Messages
    BY <1>1, SentBound DEF Connects, Connect
  <2>2. queue' \in Seq(1 .. Messages) /\ Len(queue') <= Backlog
    BY <1>t, <1>1, <2>1, AppendTypes DEF Connects, Connect
  <2>3. link' \in [1 .. Messages -> {"none", "open", "written", "ended"}]
    BY <1>t, <1>1 DEF Connects, Connect
  <2> QED
    BY <1>t, <1>1, <2>2, <2>3 DEF Connects
<1>0. CASE Others
  BY <1>t, <1>0 DEF Others
<1>2. CASE PrimaryWrite
  BY <1>t, <1>2 DEF PrimaryWrite
<1>3. CASE PrimaryEnd
  BY <1>t, <1>3 DEF PrimaryEnd
<1>4. CASE Begin
  BY <1>t, <1>4 DEF Begin
<1>5. CASE AcceptConnection
  <2>1. Head(queue) \in 1 .. Messages /\ Tail(queue) \in Seq(1 .. Messages)
        /\ Len(Tail(queue)) <= Backlog
    BY <1>t, <1>5, QueueHead DEF AcceptConnection
  <2>2. connection_socket' \in -1 .. Messages /\ open' \in 0 .. FdLimit
    BY <1>t, <1>5, <2>1 DEF AcceptConnection
  <2> QED
    BY <1>t, <1>5, <2>1, <2>2 DEF AcceptConnection
<1>6. CASE AcceptFails
  <2>1. connection_socket' \in -1 .. Messages
    BY <1>6 DEF AcceptFails
  <2> QED
    BY <1>t, <1>6, <2>1 DEF AcceptFails
<1>7. CASE Read
  <2>1. connection_socket \in 0 .. Messages
    BY <1>7, SMT DEF Read, IInv, SocketOK, Connected
  <2>2. readBytes' \in -1 .. 1 /\ buffer' \in 0 .. Messages
    BY <1>t, <1>7, <2>1 DEF Read
  <2> QED
    BY <1>t, <1>7, <2>2 DEF Read
<1>8. CASE SetFlag
  BY <1>t, <1>8 DEF SetFlag
<1>9. CASE RunRoutine
  <2>1. timeoutRoutine' \in BOOLEAN
    BY <1>9, Zenon DEF RunRoutine
  <2>2. elapsed' \in 0 .. TimeoutS
    BY <1>9 DEF RunRoutine
  <2> QED
    BY <1>t, <1>9, <2>1, <2>2 DEF RunRoutine
<1>10. CASE WaitRoutine
  BY <1>t, <1>10 DEF WaitRoutine
<1>11. CASE FinishRoutine
  BY <1>t, <1>11 DEF FinishRoutine
<1>12. CASE Answer
  <2>1. open' \in 0 .. FdLimit
    BY <1>t, <1>12 DEF Answer, IInv, SocketOK
  <2>2. /\ pc' \in {"run", "wait", "finish", "answer", "handle", "election"}
        /\ routine' \in {"accept", "read"}
    BY <1>t, <1>12 DEF Answer
  <2> QED
    BY <1>t, <1>12, <2>1, <2>2 DEF Answer
<1>13. CASE Handle
  <2>1. applied' \in Seq(1 .. Messages)
    <3>1. CASE buffer = 0
      BY <1>t, <1>13, <3>1 DEF Handle
    <3>2. CASE buffer # 0
      <4>1. applied' = Append(applied, buffer)
        BY <1>13, <3>2 DEF Handle
      <4>2. buffer \in 1 .. Messages /\ applied \in Seq(1 .. Messages)
        BY <1>t, <3>2
      <4> QED
        BY <4>1, <4>2, AppendTypes
    <3> QED
      BY <3>1, <3>2
  <2> QED
    BY <1>t, <1>13, <2>1 DEF Handle
<1>14. CASE Tick
  <2>1. elapsed' \in 0 .. TimeoutS
    BY <1>t, <1>14 DEF Tick
  <2> QED
    BY <1>t, <1>14, <2>1 DEF Tick
<1>15. CASE UNCHANGED vars
  BY <1>t, <1>15 DEF vars
<1> QED
  BY <1>0, <1>1, <1>2, <1>3, <1>4, <1>5, <1>6, <1>7, <1>8, <1>9, <1>10, <1>11, <1>12, <1>13, <1>14,
     <1>15, PrimarySteps, Zenon DEF Next, Control, Main

-----------------------------------------------------------------------------
(***************************************************************************)
(* A thread that is given up never sets the flag of a later call.          *)
(***************************************************************************)
LEMMA FlagStep == IInv /\ [Next]_vars => FlagOK'
<1> SUFFICES ASSUME IInv, [Next]_vars PROVE FlagOK'
  OBVIOUS
<1>1. CASE UNCHANGED << pc, timeoutRoutine, thread >>
  BY <1>1, Zenon DEF IInv, FlagOK, Calling
<1>2. CASE Control \/ Main
  BY <1>2, Zenon DEF IInv, FlagOK, Calling, Control, Main, Begin, AcceptConnection, AcceptFails,
     Read, SetFlag, RunRoutine, WaitRoutine, FinishRoutine, Answer, Handle
<1>3. Primary \/ Tick \/ UNCHANGED vars => UNCHANGED << pc, timeoutRoutine, thread >>
  BY PrimarySteps, Zenon DEF Connects, Others, PrimaryWrite, PrimaryEnd, Tick, vars, backupVars
<1> QED
  BY <1>1, <1>2, <1>3, Zenon DEF Next

(***************************************************************************)
(* A connection that has been made stays one.                              *)
(***************************************************************************)
ConnectedNext(m) == m \in 1 .. Messages /\ link'[m] # "none"

LEMMA StaysConnected ==
  ASSUME IInv, [Next]_vars, NEW m, Connected(m)
  PROVE  ConnectedNext(m)
<1> USE DEF Connected, ConnectedNext, primaryVars
<1>t. link \in [1 .. Messages -> {"none", "open", "written", "ended"}]
  BY DEF IInv, TypeOK
<1>0. CASE Others
  BY <1>0 DEF Others
<1>1. CASE Connects
  BY <1>t, <1>1 DEF Connects, Connect
<1>2. CASE PrimaryWrite
  BY <1>t, <1>2 DEF PrimaryWrite
<1>3. CASE PrimaryEnd
  BY <1>t, <1>3 DEF PrimaryEnd
<1>4. CASE ~ Primary
  BY <1>4 DEF Next, Primary, Control, Main, vars, Begin, AcceptConnection, AcceptFails, Read, SetFlag,
     RunRoutine, WaitRoutine, FinishRoutine, Answer, Handle, Tick
<1> QED
  BY <1>0, <1>1, <1>2, <1>3, <1>4, PrimarySteps

LEMMA SocketStep == IInv /\ [Next]_vars => SocketOK'
<1> SUFFICES ASSUME IInv, [Next]_vars PROVE SocketOK'
  OBVIOUS
<1> USE DEF primaryVars, backupVars, resultVars, Calling
<1>t. TypeOK /\ SocketOK
  BY DEF IInv
<1>q. \A k \in DOMAIN queue' : ConnectedNext(queue'[k])
  <2>1. CASE Connects
    <3>1. Sent + 1 \in 1 .. Messages /\ queue \in Seq(1 .. Messages)
      BY <1>t, <2>1, SentBound, Bounds DEF Connects, Connect, TypeOK
    <3>2. ConnectedNext(Sent + 1)
      BY <1>t, <2>1, <3>1 DEF Connects, Connect, TypeOK, ConnectedNext
    <3>3. \A k \in DOMAIN queue : ConnectedNext(queue[k])
      BY <1>t, StaysConnected DEF SocketOK
    <3> QED
      BY <2>1, <3>1, <3>2, <3>3, AppendTypes DEF Connects, Connect
  <2>2. CASE AcceptConnection
    <3>1. \A k \in DOMAIN Tail(queue) : k + 1 \in DOMAIN queue /\ Tail(queue)[k] = queue[k + 1]
      BY <1>t, <2>2, QueueHead DEF AcceptConnection, TypeOK
    <3>2. \A k \in DOMAIN queue : ConnectedNext(queue[k])
      BY <1>t, StaysConnected DEF SocketOK
    <3> QED
      BY <2>2, <3>1, <3>2 DEF AcceptConnection
  <2>3. CASE UNCHANGED queue
    BY <1>t, <2>3, StaysConnected DEF SocketOK
  <2> QED
    BY <2>1, <2>2, <2>3, PrimarySteps DEF Next, Control, Main, vars, Others, PrimaryWrite, PrimaryEnd,
       Begin, AcceptFails, Read, SetFlag, RunRoutine, WaitRoutine, FinishRoutine, Answer, Handle, Tick
<1>1. CASE AcceptConnection
  <2>1. Head(queue) = queue[1] /\ 1 \in DOMAIN queue
    BY <1>t, <1>1 DEF AcceptConnection, TypeOK
  <2>2. ConnectedNext(connection_socket')
    BY <1>t, <1>1, <2>1, StaysConnected DEF AcceptConnection, SocketOK
  <2>3. open' >= 1
    BY <1>t, <1>1, Bounds DEF AcceptConnection, TypeOK
  <2> QED
    BY <1>1, <1>q, <2>2, <2>3 DEF AcceptConnection, SocketOK, Connected, ConnectedNext
<1>2. CASE AcceptFails
  BY <1>2, <1>q DEF AcceptFails, SocketOK, Connected, ConnectedNext
<1>3. CASE RunRoutine
  <2>1. routine = "read" => ConnectedNext(connection_socket) /\ open >= 1
    BY <1>t, StaysConnected DEF SocketOK
  <2> QED
    BY <1>3, <1>q, <2>1 DEF RunRoutine, SocketOK, Connected, ConnectedNext
<1>4. CASE Answer
  <2>1. Connected(connection_socket) => ConnectedNext(connection_socket)
    BY StaysConnected
  <2>2. routine' = "accept" => pc' \in {"run", "handle", "election"}
    BY <1>4 DEF Answer
  <2>3. routine' = "read" => ConnectedNext(connection_socket) /\ open' >= 1
    BY <1>t, <1>4, <2>1 DEF Answer, SocketOK
  <2> QED
    BY <1>4, <1>q, <2>2, <2>3 DEF SocketOK, Answer, Connected, ConnectedNext
<1>5. CASE /\ UNCHANGED << routine, connection_socket, open >>
           /\ routine' = "accept" /\ Calling' /\ (thread' = "returned" \/ timeoutRoutine')
              => Calling /\ (thread = "returned" \/ timeoutRoutine)
  <2>1. Connected(connection_socket) => ConnectedNext(connection_socket)
    BY StaysConnected
  <2> QED
    BY <1>t, <1>5, <1>q, <2>1 DEF SocketOK, Connected, ConnectedNext
<1> QED
  <2>1. CASE Primary \/ Tick \/ UNCHANGED vars
    BY <2>1, <1>5, PrimarySteps DEF Connects, Others, PrimaryWrite, PrimaryEnd, Tick, vars
  <2>2. CASE Begin \/ SetFlag \/ Read
    BY <2>2, <1>5 DEF Begin, SetFlag, Read
  <2>3. CASE WaitRoutine \/ FinishRoutine \/ Handle
    BY <2>3, <1>5 DEF WaitRoutine, FinishRoutine, Handle
  <2> QED
    BY <1>1, <1>2, <1>3, <1>4, <2>1, <2>2, <2>3 DEF Next, Control, Main

-----------------------------------------------------------------------------
(***************************************************************************)
(* While the primary lives, each second that passes brings the next round  *)
(* nearer; a round that leaves the backup out starts to count anew, and a  *)
(* message that has come ends the call.                                    *)
(***************************************************************************)
LEMMA NextRound ==
  ASSUME NEW n \in Nat
  PROVE  /\ n * HeartbeatS \in Nat
         /\ (n + 1) * HeartbeatS = n * HeartbeatS + HeartbeatS
  BY Bounds

LEMMA TimeStep == IInv /\ [Next]_vars => TimeOK'
<1> SUFFICES ASSUME IInv, [Next]_vars, alive' PROVE TimeOK'
  BY DEF TimeOK
<1> USE DEF primaryVars, callVars, backupVars, resultVars
<1>t. TypeOK /\ SocketOK /\ TimeOK
  BY DEF IInv
<1>a. alive
  BY PrimarySteps, Zenon DEF Next, Control, Main, vars, Connects, Others, PrimaryWrite, PrimaryEnd,
     Begin, AcceptConnection, AcceptFails, Read, SetFlag, RunRoutine, WaitRoutine, FinishRoutine,
     Answer, Handle, Tick
<1>n. /\ missed * HeartbeatS \in Nat
      /\ (missed + 1) * HeartbeatS = missed * HeartbeatS + HeartbeatS
      /\ (missed + 1 + 1) * HeartbeatS = missed * HeartbeatS + HeartbeatS + HeartbeatS
  <2>1. missed \in Nat /\ missed + 1 \in Nat
    BY <1>t DEF TypeOK
  <2> QED
    BY <2>1, NextRound, Bounds
<1>0. CASE HeartbeatRefused \/ HeartbeatNoSocket
  <2>1. /\ missed' = missed + 1 /\ sinceRound = HeartbeatS /\ sinceRound' = 0
        /\ UNCHANGED << elapsed, queue, backupVars >>
    BY <1>0 DEF HeartbeatRefused, HeartbeatNoSocket, StartRound
  <2>2. /\ missed' * HeartbeatS = missed * HeartbeatS + HeartbeatS
        /\ (missed' + 1) * HeartbeatS = missed * HeartbeatS + HeartbeatS + HeartbeatS
    BY <2>1, <1>n
  <2>3. elapsed' <= (missed' + 1) * HeartbeatS /\ (Filled => Filled')
    BY <1>t, <1>a, <1>n, <2>1, <2>2, Bounds DEF TimeOK, TypeOK, Filled
  <2>4. pc' = "wait" /\ routine' = "accept" /\ thread' \in {"created", "inside"} /\ queue' = << >>
        => elapsed' <= missed' * HeartbeatS + sinceRound'
    BY <1>t, <1>a, <1>n, <2>1, <2>2, Bounds DEF TimeOK, TypeOK
  <2> QED
    BY <1>t, <1>a, <2>1, <2>3, <2>4 DEF TimeOK
<1>1. CASE Connects
  <2>1. Sent + 1 \in 1 .. Messages /\ queue \in Seq(1 .. Messages)
    BY <1>t, <1>1, SentBound, Bounds DEF Connects, Connect, TypeOK
  <2>2. queue' # << >>
    BY <1>1, <2>1, AppendTypes DEF Connects, Connect
  <2> QED
    BY <1>t, <1>a, <1>1, <2>2 DEF Connects, TimeOK, Filled
<1>2. CASE PrimaryEnd
  BY <1>2 DEF PrimaryEnd
<1>3. CASE /\ UNCHANGED << missed, elapsed, sinceRound >>
           /\ pc' \in {"wait", "finish", "answer"} => pc' = pc /\ UNCHANGED timeoutRoutine
           /\ pc' = "election" => pc = "election"
           /\ pc' = "wait" /\ routine' = "accept" /\ thread' \in {"created", "inside"} /\ queue' = << >>
              => pc = "wait" /\ routine = "accept" /\ thread \in {"created", "inside"} /\ queue = << >>
  BY <1>t, <1>a, <1>3 DEF TimeOK, Filled
<1>4. CASE BackupEnds \/ PrimaryWrite \/ UNCHANGED vars
  BY <1>3, <1>4 DEF BackupEnds, PrimaryWrite, vars, roundVars
<1>5. CASE Begin \/ AcceptConnection \/ AcceptFails \/ Read \/ Handle
  BY <1>3, <1>5 DEF Begin, AcceptConnection, AcceptFails, Read, Handle, roundVars
<1>6. CASE SetFlag
  BY <1>t, <1>a, <1>6 DEF SetFlag, TimeOK, Filled, roundVars
<1>7. CASE RunRoutine
  <2>1. elapsed' = 0 /\ missed' = 0 /\ pc' = "wait" /\ sinceRound' = sinceRound
    BY <1>7 DEF RunRoutine, roundVars
  <2>2. sinceRound \in Nat
    BY <1>t DEF TypeOK
  <2> QED
    BY <2>1, <2>2, Bounds DEF TimeOK
<1>8. CASE WaitRoutine
  <2>1. timeoutRoutine \/ Filled
    <3>1. elapsed >= TimeoutS => Filled
      BY <1>t, <1>a, <1>n, Bounds DEF TimeOK, TypeOK, Filled
    <3> QED
      BY <1>8, <3>1 DEF WaitRoutine
  <2> QED
    BY <1>t, <1>a, <1>8, <2>1 DEF WaitRoutine, TimeOK, Filled
<1>9. CASE FinishRoutine
  BY <1>t, <1>a, <1>9 DEF FinishRoutine, TimeOK, Filled
<1>10. CASE Answer
  BY <1>t, <1>a, <1>10 DEF Answer, TimeOK, Filled
<1>11. CASE Tick
  <2>1. \A m \in 1 .. Messages : link[m] # "open"
    BY <1>a, <1>11 DEF Tick
  <2>2. routine = "accept" /\ queue = << >>
    <3>1. routine = "accept"
      <4>1. SUFFICES ASSUME routine = "read" PROVE FALSE
        BY <1>t, <4>1 DEF TypeOK
      <4>2. Connected(connection_socket)
        BY <1>t, <4>1 DEF SocketOK
      <4>3. link[connection_socket] \in {"written", "ended"}
        BY <1>t, <2>1, <4>2 DEF Connected, TypeOK
      <4> QED
        BY <1>11, <4>1, <4>3 DEF Tick, CanReturn
    <3> QED
      BY <1>11, <3>1 DEF Tick, CanReturn
  <2>3. elapsed <= missed * HeartbeatS + sinceRound
    BY <1>t, <1>a, <1>11, <2>2 DEF Tick, TimeOK
  <2>4. /\ elapsed' = elapsed + 1 /\ sinceRound' = sinceRound + 1 /\ sinceRound < HeartbeatS
        /\ missed' = missed /\ pc' = "wait"
    BY <1>a, <1>11 DEF Tick
  <2>5. elapsed' <= (missed' + 1) * HeartbeatS /\ elapsed' <= missed' * HeartbeatS + sinceRound'
    BY <1>t, <1>n, <2>3, <2>4, Bounds DEF TypeOK
  <2> QED
    BY <2>4, <2>5 DEF TimeOK
<1> QED
  BY <1>0, <1>1, <1>2, <1>4, <1>5, <1>6, <1>7, <1>8, <1>9, <1>10, <1>11, Zenon
     DEF Next, Primary, Round, Notify, Heartbeat, Connects, Control, Main

THEOREM StepOK == IInv /\ [Next]_vars => IInv'
  BY TypeStep, FlagStep, SocketStep, TimeStep DEF IInv

LEMMA Invariance == Spec => []IInv
  BY InitOK, StepOK, PTL DEF Spec

-----------------------------------------------------------------------------
(***************************************************************************)
(* The order of the messages.  Connections are made and accepted one       *)
(* after the other; Taken is the last one accepted, and Last the last one  *)
(* handled.                                                                *)
(***************************************************************************)
Taken == Sent - Len(queue)
Last  == IF applied = << >> THEN 0 ELSE applied[Len(applied)]

\* The primary did not live to write any of the connections from a + 1 to b.
Passed(a, b) == \A m \in a + 1 .. b : m \in 1 .. Messages => link[m] = "ended"

\* The routine of this call has come back.
Back == Calling /\ (thread = "returned" \/ timeoutRoutine)

\* A connection has been accepted, and not read; one has been read, and not handled.
Accepted ==
  \/ routine = "accept" /\ Back /\ connection_socket # -1
  \/ routine = "read" /\ ~ Back
Unhandled ==
  \/ routine = "read" /\ Back
  \/ pc = "handle"

\* Between two calls no thread runs, and what is handled has been read.
ThreadOK ==
  /\ pc \in {"run", "handle"} => thread = "ended"
  /\ pc = "handle" => routine = "accept"

LinksOK ==
  /\ Sent \in 0 .. Messages
  /\ \A m \in 1 .. Messages : link[m] # "none" <=> m <= Sent
  /\ Len(queue) <= Sent
  /\ \A k \in DOMAIN queue : queue[k] = Taken + k
  /\ connection_socket \in {-1, Taken}

\* At most the connection accepted last is between the one handled last and the queue.
OrderOK ==
  pc # "election" =>
    /\ Last <= Taken
    /\ Passed(Last, Taken - 1)
    /\ Accepted => connection_socket = Taken /\ Last < Taken /\ buffer = Last
    /\ Unhandled => /\ connection_socket = Taken /\ Last < Taken
                    /\ readBytes = 1 => buffer = Taken
                    /\ readBytes # 1 => buffer = Last /\ link[Taken] = "ended"
    /\ ~ Accepted /\ ~ Unhandled => buffer = Last /\ Passed(Last, Taken)

OrderInv == IInv /\ ThreadOK /\ LinksOK /\ OrderOK /\ HandledInOrder

\* As many connections are made as the number of the last one.
LEMMA CountTo ==
  ASSUME NEW l \in [1 .. Messages -> {"none", "open", "written", "ended"}],
         NEW n \in 0 .. Messages, \A m \in 1 .. Messages : l[m] # "none" <=> m <= n
  PROVE  Cardinality({m \in 1 .. Messages : l[m] # "none"}) = n
<1>1. {m \in 1 .. Messages : l[m] # "none"} = 1 .. n
  BY Bounds
<1>2. Cardinality(1 .. n) = n
  BY FS_Interval, Bounds
<1> QED
  BY <1>1, <1>2

LEMMA LastElement ==
  ASSUME NEW S, NEW q \in Seq(S), q # << >>
  PROVE  q[Len(q)] \in S
  OBVIOUS

LEMMA LastOf ==
  /\ applied = << >> => Last = 0
  /\ applied \in Seq(1 .. Messages) => Last \in 0 .. Messages
  /\ UNCHANGED applied => Last' = Last
<1>1. ASSUME applied \in Seq(1 .. Messages), applied # << >>
      PROVE  applied[Len(applied)] \in 1 .. Messages
  BY <1>1, LastElement
<1>2. applied \in Seq(1 .. Messages) => Last \in 0 .. Messages
  BY <1>1, Bounds DEF Last
<1> QED
  BY <1>2 DEF Last

LEMMA OrderInitOK == Init => ThreadOK /\ LinksOK /\ OrderOK /\ HandledInOrder
<1> SUFFICES ASSUME Init PROVE ThreadOK /\ LinksOK /\ OrderOK /\ HandledInOrder
  OBVIOUS
<1>1. /\ link = [m \in 1 .. Messages |-> "none"] /\ queue = << >> /\ applied = << >>
      /\ connection_socket = 0 /\ buffer = 0
      /\ pc = "run" /\ routine = "accept" /\ thread = "ended"
  BY Zenon DEF Init
<1>2. Sent = 0
  <2>1. link \in [1 .. Messages -> {"none", "open", "written", "ended"}]
    BY <1>1
  <2>2. \A m \in 1 .. Messages : link[m] # "none" <=> m <= 0
    BY <1>1, Bounds
  <2>3. 0 \in 0 .. Messages
    BY Bounds
  <2> QED
    BY <2>1, <2>2, <2>3, CountTo DEF Sent
<1>3. Len(queue) = 0 /\ DOMAIN queue = {} /\ DOMAIN applied = {}
  BY <1>1
<1>4. Taken = 0 /\ Last = 0
  <2>1. Taken = 0
    BY <1>2, <1>3 DEF Taken
  <2>2. Last = 0
    BY <1>1 DEF Last
  <2> QED
    BY <2>1, <2>2
<1>5. LinksOK
  BY <1>1, <1>2, <1>3, <1>4, Bounds DEF LinksOK
<1>6. OrderOK
  BY <1>1, <1>4 DEF OrderOK, Accepted, Unhandled, Back, Calling, Passed
<1> QED
  BY <1>1, <1>3, <1>5, <1>6 DEF HandledInOrder, ThreadOK

\* What no step undoes.
LEMMA EndedStays ==
  ASSUME IInv, LinksOK, [Next]_vars, NEW m \in 1 .. Messages, link[m] = "ended"
  PROVE  link'[m] = "ended"
<1>t. link \in [1 .. Messages -> {"none", "open", "written", "ended"}]
  BY DEF IInv, TypeOK
<1> USE DEF primaryVars
<1>0. CASE Others
  BY <1>0 DEF Others
<1>1. CASE Connects
  <2>1. Sent + 1 # m
    BY DEF LinksOK
  <2> QED
    BY <1>t, <1>1, <2>1 DEF Connects, Connect
<1>2. CASE PrimaryWrite
  BY <1>t, <1>2 DEF PrimaryWrite
<1>3. CASE PrimaryEnd
  BY <1>t, <1>3 DEF PrimaryEnd
<1>4. CASE ~ Primary
  BY <1>4 DEF Next, Primary, Control, Main, vars, Begin, AcceptConnection, AcceptFails, Read, SetFlag,
     RunRoutine, WaitRoutine, FinishRoutine, Answer, Handle, Tick
<1> QED
  BY <1>0, <1>1, <1>2, <1>3, <1>4, PrimarySteps

LEMMA TakenStays ==
  /\ Sent \in 0 .. Messages /\ Len(queue) \in Nat
  /\ Sent' = Sent + 1 /\ Len(queue') = Len(queue) + 1
  => Taken' = Taken
  BY Bounds DEF Taken

-----------------------------------------------------------------------------
(***************************************************************************)
(* Connections are numbered as they are made, and accepted in that order.  *)
(***************************************************************************)
LEMMA LinksTypes ==
  ASSUME IInv, LinksOK, [Next]_vars
  PROVE  /\ link \in [1 .. Messages -> {"none", "open", "written", "ended"}]
         /\ link' \in [1 .. Messages -> {"none", "open", "written", "ended"}]
         /\ queue \in Seq(1 .. Messages) /\ connection_socket \in -1 .. Messages
         /\ Sent \in 0 .. Messages /\ Len(queue) \in Nat
<1>1. TypeOK'
  BY TypeStep
<1>2. queue \in Seq(1 .. Messages) /\ Len(queue) \in Nat
  BY DEF IInv, TypeOK
<1>3. /\ link \in [1 .. Messages -> {"none", "open", "written", "ended"}]
      /\ connection_socket \in -1 .. Messages
  BY DEF IInv, TypeOK
<1>4. link' \in [1 .. Messages -> {"none", "open", "written", "ended"}]
  BY <1>1 DEF TypeOK
<1> QED
  BY <1>2, <1>3, <1>4 DEF LinksOK

LEMMA SentNext ==
  ASSUME IInv, LinksOK, [Next]_vars, NEW n \in 0 .. Messages,
         \A m \in 1 .. Messages : link'[m] # "none" <=> m <= n
  PROVE  Sent' = n
  BY LinksTypes, CountTo DEF Sent

LEMMA ConnectCounts ==
  ASSUME IInv, LinksOK, [Next]_vars, Connects
  PROVE  /\ Sent' = Sent + 1 /\ Taken' = Taken /\ Sent' \in 0 .. Messages
         /\ \A m \in 1 .. Messages : link'[m] # "none" <=> m <= Sent'
         /\ Len(queue') = Len(queue) + 1
         /\ \A k \in DOMAIN queue' : IF k \in DOMAIN queue THEN queue'[k] = queue[k]
                                                           ELSE k = Len(queue) + 1 /\ queue'[k] = Sent'
<1>t. /\ link \in [1 .. Messages -> {"none", "open", "written", "ended"}]
      /\ queue \in Seq(1 .. Messages) /\ Sent \in 0 .. Messages /\ Len(queue) \in Nat
  BY LinksTypes
<1>1. Sent + 1 \in 0 .. Messages /\ Sent + 1 \in 1 .. Messages
  BY <1>t, Bounds DEF Connects, Connect
<1>2. \A m \in 1 .. Messages : link'[m] # "none" <=> m <= Sent + 1
  BY <1>t, <1>1 DEF Connects, Connect, LinksOK, primaryVars
<1>3. Sent' = Sent + 1
  BY <1>1, <1>2, SentNext
<1>4. queue' = Append(queue, Sent + 1)
  BY DEF Connects, Connect
<1>5. Len(queue') = Len(queue) + 1
  BY <1>t, <1>1, <1>4, AppendTypes
<1>6. ASSUME NEW k \in DOMAIN queue'
      PROVE  IF k \in DOMAIN queue THEN queue'[k] = queue[k]
                                   ELSE k = Len(queue) + 1 /\ queue'[k] = Sent'
  BY <1>t, <1>1, <1>3, <1>4, AppendTypes
<1>7. Taken' = Taken
  BY <1>t, <1>3, <1>5, TakenStays
<1> QED
  BY <1>1, <1>2, <1>3, <1>5, <1>6, <1>7

LEMMA WriteCounts ==
  ASSUME IInv, LinksOK, [Next]_vars, PrimaryWrite \/ PrimaryEnd
  PROVE  Sent' = Sent /\ \A m \in 1 .. Messages : link'[m] # "none" <=> m <= Sent
<1>1. \A m \in 1 .. Messages : link'[m] # "none" <=> link[m] # "none"
  BY LinksTypes DEF PrimaryWrite, PrimaryEnd
<1>2. \A m \in 1 .. Messages : link'[m] # "none" <=> m <= Sent
  BY <1>1 DEF LinksOK
<1> QED
  BY <1>2, SentNext, LinksTypes

LEMMA AcceptCounts ==
  ASSUME IInv, LinksOK, [Next]_vars, AcceptConnection
  PROVE  /\ Sent' = Sent /\ Taken' = Taken + 1 /\ connection_socket' = Taken'
         /\ Len(queue') <= Len(queue)
         /\ \A k \in DOMAIN queue' : queue'[k] = Taken' + k
<1>1. Sent' = Sent /\ queue # << >>
  BY Zenon DEF AcceptConnection, Sent
<1>2. /\ Len(queue') = Len(queue) - 1 /\ Len(queue) \in Nat /\ Len(queue) >= 1
      /\ \A k \in DOMAIN queue' : k + 1 \in DOMAIN queue /\ queue'[k] = queue[k + 1]
      /\ connection_socket' = queue[1] /\ 1 \in DOMAIN queue
      /\ DOMAIN queue' \subseteq Nat
  BY <1>1, LinksTypes, QueueHead DEF AcceptConnection
<1>3. Taken' = Taken + 1 /\ Taken \in Int
  BY <1>1, <1>2, LinksTypes DEF Taken
<1>4. connection_socket' = Taken'
  BY <1>2, <1>3 DEF LinksOK
<1>5. \A k \in DOMAIN queue' : queue'[k] = Taken' + k
  BY <1>2, <1>3 DEF LinksOK
<1> QED
  BY <1>1, <1>2, <1>3, <1>4, <1>5

LEMMA LinksStep == IInv /\ LinksOK /\ [Next]_vars => LinksOK'
<1> SUFFICES ASSUME IInv, LinksOK, [Next]_vars PROVE LinksOK'
  OBVIOUS
<1> USE DEF primaryVars, backupVars, resultVars
<1>1. CASE Connects
  <2>1. ASSUME NEW k \in DOMAIN queue' PROVE queue'[k] = Taken' + k
    <3>1. CASE k \in DOMAIN queue
      BY <1>1, <3>1, ConnectCounts DEF LinksOK
    <3>2. CASE k \notin DOMAIN queue
      <4>1. k = Len(queue) + 1 /\ queue'[k] = Sent + 1 /\ Taken' = Taken
        BY <1>1, <3>2, ConnectCounts
      <4>2. Taken + (Len(queue) + 1) = Sent + 1
        BY LinksTypes DEF Taken
      <4> QED
        BY <4>1, <4>2
    <3> QED
      BY <3>1, <3>2
  <2>2. connection_socket' = connection_socket
    BY <1>1 DEF Connects, backupVars
  <2>3. Len(queue') <= Sent'
    BY <1>1, ConnectCounts, LinksTypes, Bounds DEF LinksOK
  <2> QED
    BY <1>1, <2>1, <2>2, <2>3, ConnectCounts DEF LinksOK
<1>2. CASE AcceptConnection
  <2>1. link' = link
    BY <1>2 DEF AcceptConnection
  <2>2. Len(queue') <= Sent'
    <3>1. queue' \in Seq(1 .. Messages)
      BY TypeStep DEF TypeOK
    <3>2. Len(queue') \in Nat
      BY <3>1
    <3> QED
      BY <1>2, <3>2, AcceptCounts, LinksTypes, Bounds DEF LinksOK
  <2> QED
    BY <1>2, <2>1, <2>2, AcceptCounts DEF LinksOK
<1>3. CASE PrimaryWrite \/ PrimaryEnd
  <2>1. queue' = queue /\ connection_socket' = connection_socket
    BY <1>3 DEF PrimaryWrite, PrimaryEnd
  <2> QED
    BY <1>3, <2>1, WriteCounts DEF LinksOK, Taken
<1>4. CASE UNCHANGED << link, queue >> /\ connection_socket' \in {connection_socket, -1}
  BY <1>4 DEF LinksOK, Taken, Sent
<1> QED
  <2>0. CASE Others
    BY <1>4, <2>0 DEF Others
  <2>1. CASE Begin \/ AcceptFails \/ Read \/ SetFlag
    BY <1>4, <2>1 DEF Begin, AcceptFails, Read, SetFlag
  <2>2. CASE RunRoutine \/ WaitRoutine \/ FinishRoutine
    BY <1>4, <2>2 DEF RunRoutine, WaitRoutine, FinishRoutine
  <2>3. CASE Answer \/ Handle \/ Tick \/ UNCHANGED vars
    BY <1>4, <2>3 DEF Answer, Handle, Tick, vars
  <2> QED
    BY <1>1, <1>2, <1>3, PrimarySteps, <2>0, <2>1, <2>2, <2>3 DEF Next, Control, Main

LEMMA ThreadStep == IInv /\ ThreadOK /\ [Next]_vars => ThreadOK'
<1> SUFFICES ASSUME IInv, ThreadOK, [Next]_vars PROVE ThreadOK'
  OBVIOUS
<1>1. CASE UNCHANGED << pc, routine, thread >>
  BY <1>1, Zenon DEF ThreadOK
<1>2. CASE Control \/ Main
  BY <1>2, Zenon DEF IInv, FlagOK, Calling, ThreadOK, Control, Main, Begin, AcceptConnection,
     AcceptFails, Read, SetFlag, RunRoutine, WaitRoutine, FinishRoutine, Answer, Handle
<1>3. Primary \/ Tick \/ UNCHANGED vars => UNCHANGED << pc, routine, thread >>
  BY PrimarySteps, Zenon DEF Connects, Others, PrimaryWrite, PrimaryEnd, Tick, vars, backupVars
<1> QED
  BY <1>1, <1>2, <1>3, Zenon DEF Next

-----------------------------------------------------------------------------
(***************************************************************************)
(* Where the connection accepted last is, step by step.                    *)
(***************************************************************************)
LEMMA OrderNumbers == IInv /\ LinksOK => Last \in 0 .. Messages /\ Taken \in 0 .. Messages
<1> SUFFICES ASSUME IInv, LinksOK PROVE Last \in 0 .. Messages /\ Taken \in 0 .. Messages
  OBVIOUS
<1>1. applied \in Seq(1 .. Messages) /\ queue \in Seq(1 .. Messages)
  BY DEF IInv, TypeOK
<1>2. Last \in 0 .. Messages
  BY <1>1, LastOf
<1>3. Taken \in 0 .. Messages
  BY <1>1, Bounds DEF Taken, LinksOK
<1> QED
  BY <1>2, <1>3

\* A step that leaves the messages alone, and changes the place of the call only.
SamePlace == \/ pc' = "election"
             \/ /\ pc # "election"
                /\ Accepted' <=> Accepted
                /\ Unhandled' <=> Unhandled

LEMMA OrderKept ==
  ASSUME IInv, LinksOK, OrderOK, [Next]_vars, SamePlace,
         Last' = Last, Taken' = Taken, UNCHANGED << connection_socket, readBytes, buffer >>
  PROVE  OrderOK'
<1>1. SUFFICES ASSUME pc' # "election" PROVE OrderOK'
  BY DEF OrderOK
<1>2. pc # "election" /\ (Accepted' <=> Accepted) /\ (Unhandled' <=> Unhandled)
  BY <1>1, Zenon DEF SamePlace
<1>3. Last \in 0 .. Messages /\ Taken \in 0 .. Messages
  BY OrderNumbers
<1>4. ASSUME NEW a, NEW b, Passed(a, b)
      PROVE  \A m \in a + 1 .. b : m \in 1 .. Messages => link'[m] = "ended"
  BY <1>4, EndedStays DEF Passed
<1>5. Passed(Last, Taken - 1)'
  BY <1>1, <1>2, <1>4, Zenon DEF OrderOK, Passed
<1>6. Passed(Last, Taken) => Passed(Last, Taken)'
  BY <1>4, Zenon DEF Passed
<1>7. Taken \in 1 .. Messages /\ link[Taken] = "ended" => link'[Taken] = "ended"
  BY EndedStays
<1>8. Last < Taken => Taken \in 1 .. Messages
  BY <1>3, Bounds
<1>9. Last' <= Taken'
  BY <1>2 DEF OrderOK
<1>10. Accepted' => connection_socket' = Taken' /\ Last' < Taken' /\ buffer' = Last'
  BY <1>2 DEF OrderOK
<1>11. Unhandled' => /\ connection_socket' = Taken' /\ Last' < Taken'
                     /\ readBytes' = 1 => buffer' = Taken'
                     /\ readBytes' # 1 => buffer' = Last' /\ link'[Taken'] = "ended"
  BY <1>2, <1>7, <1>8 DEF OrderOK
<1>12. ~ Accepted' /\ ~ Unhandled' => buffer' = Last' /\ Passed(Last, Taken)'
  BY <1>2, <1>6 DEF OrderOK
<1> QED
  BY <1>5, <1>9, <1>10, <1>11, <1>12, Zenon DEF OrderOK

\* What is handled becomes the last; a buffer of zeros is no message.
LEMMA HandleLast ==
  ASSUME IInv, Handle, buffer = Last \/ buffer # 0
  PROVE  Last' = buffer
<1>1. applied \in Seq(1 .. Messages) /\ buffer \in 0 .. Messages
  BY DEF IInv, TypeOK
<1>2. CASE buffer = 0
  BY <1>2, LastOf DEF Handle
<1>3. CASE buffer # 0
  <2>1. applied' = Append(applied, buffer) /\ buffer \in 1 .. Messages
    BY <1>1, <1>3, Bounds DEF Handle
  <2>2. Len(applied') = Len(applied) + 1 /\ applied'[Len(applied) + 1] = buffer /\ applied' # << >>
    BY <1>1, <2>1
  <2> QED
    BY <2>2 DEF Last
<1> QED
  BY <1>2, <1>3

LEMMA OrderStep == IInv /\ ThreadOK /\ LinksOK /\ OrderOK /\ [Next]_vars => OrderOK'
<1> SUFFICES ASSUME IInv, ThreadOK, LinksOK, OrderOK, [Next]_vars, pc' # "election"
             PROVE  OrderOK'
  BY DEF OrderOK
<1> USE DEF primaryVars, backupVars, resultVars
<1>e. pc # "election"
  BY PrimarySteps, Zenon DEF Next, Control, Main, vars, Connects, Others, PrimaryWrite, PrimaryEnd,
     Begin, AcceptConnection, AcceptFails, Read, SetFlag,
     RunRoutine, WaitRoutine, FinishRoutine, Answer, Handle, Tick
<1>n. Last \in 0 .. Messages /\ Taken \in 0 .. Messages
  BY OrderNumbers
<1>l. LinksOK'
  BY LinksStep
<1>k. CASE /\ SamePlace
           /\ UNCHANGED << queue, applied, connection_socket, readBytes, buffer >>
           /\ Sent' = Sent
  <2>1. Last' = Last
    BY <1>k, LastOf
  <2>2. Taken' = Taken
    BY <1>k DEF Taken
  <2> QED
    BY <1>k, <2>1, <2>2, OrderKept
<1>s. UNCHANGED link => Sent' = Sent
  BY DEF Sent
<1>p. UNCHANGED << pc, routine, thread, timeoutRoutine, connection_socket >> => SamePlace
  BY <1>e DEF SamePlace, Accepted, Unhandled, Back, Calling
<1>1. CASE Connects
  <2>1. Last' = Last
    BY <1>1, LastOf DEF Connects
  <2>2. Taken' = Taken
    BY <1>1, ConnectCounts
  <2>3. SamePlace /\ UNCHANGED << connection_socket, readBytes, buffer >>
    BY <1>1, <1>p DEF Connects
  <2> QED
    BY <2>1, <2>2, <2>3, OrderKept
<1>2. CASE PrimaryWrite \/ PrimaryEnd
  <2>1. Sent' = Sent
    BY <1>2, WriteCounts
  <2>2. UNCHANGED << queue, applied, connection_socket, readBytes, buffer, pc, routine, thread,
                     timeoutRoutine >>
    BY <1>2 DEF PrimaryWrite, PrimaryEnd
  <2> QED
    BY <1>k, <1>p, <2>1, <2>2
<1>3. CASE AcceptConnection
  <2>1. Last' = Last
    BY <1>3, LastOf DEF AcceptConnection
  <2>2. Taken' = Taken + 1 /\ connection_socket' = Taken'
    BY <1>3, AcceptCounts
  <2>3. Calling /\ ~ Back /\ routine = "accept"
    BY <1>3, <1>e DEF AcceptConnection, ThreadOK, IInv, TypeOK, FlagOK, Back, Calling
  <2>4. ~ Accepted /\ ~ Unhandled
    BY <2>3, <1>3 DEF Accepted, Unhandled, Calling
  <2>5. ~ Unhandled'
    BY <1>3, <2>3 DEF AcceptConnection, Unhandled, Calling
  <2>6. Accepted'
    <3>1. connection_socket' # -1
      BY <2>2, <1>n
    <3> QED
      BY <1>3, <2>3, <3>1 DEF AcceptConnection, Accepted, Back, Calling
  <2>7. buffer' = Last' /\ Last' < Taken'
    BY <1>3, <1>e, <1>n, <2>1, <2>2, <2>4 DEF AcceptConnection, OrderOK
  <2>8. Passed(Last, Taken - 1)'
    <3>1. Passed(Last, Taken)
      BY <1>e, <2>4 DEF OrderOK
    <3>2. Taken' - 1 = Taken
      BY <2>2, <1>n
    <3>3. link' = link
      BY <1>3 DEF AcceptConnection
    <3> QED
      BY <2>1, <3>1, <3>2, <3>3, Zenon DEF Passed
  <2> QED
    BY <1>n, <2>1, <2>2, <2>5, <2>6, <2>7, <2>8 DEF OrderOK
<1>4. CASE AcceptFails
  <2>1. Last' = Last
    BY <1>4, LastOf DEF AcceptFails
  <2>2. Taken' = Taken
    BY <1>4, <1>s DEF AcceptFails, Taken
  <2>3. ~ Accepted /\ ~ Unhandled
    BY <1>4, <1>e DEF AcceptFails, ThreadOK, IInv, TypeOK, FlagOK, Back, Calling, Accepted, Unhandled
  <2>4. ~ Accepted' /\ ~ Unhandled'
    BY <1>4, <1>e, <2>3 DEF AcceptFails, Back, Calling, Accepted, Unhandled
  <2>5. Passed(Last, Taken - 1)' /\ Passed(Last, Taken)' /\ buffer' = Last' /\ Last' <= Taken'
    BY <1>4, <1>e, <2>1, <2>2, <2>3 DEF AcceptFails, OrderOK, Passed
  <2> QED
    BY <2>4, <2>5, Zenon DEF OrderOK
<1>5. CASE Read
  <2>1. Last' = Last
    BY <1>5, LastOf DEF Read
  <2>2. Taken' = Taken
    BY <1>5, <1>s DEF Read, Taken
  <2>3. Accepted
    BY <1>5, <1>e DEF Read, ThreadOK, IInv, TypeOK, FlagOK, Back, Calling, Accepted
  <2>4. connection_socket = Taken /\ Last < Taken /\ buffer = Last /\ Passed(Last, Taken - 1)
    BY <1>e, <2>3 DEF OrderOK
  <2>5. Unhandled' /\ ~ Accepted'
    BY <1>5, <1>e DEF Read, ThreadOK, IInv, TypeOK, FlagOK, Back, Calling, Accepted, Unhandled
  <2>6. /\ readBytes' = 1 => buffer' = Taken
        /\ readBytes' # 1 => buffer' = Last /\ link'[Taken] = "ended"
    BY <1>5, <2>4 DEF Read
  <2>7. connection_socket' = connection_socket /\ link' = link
    BY <1>5 DEF Read
  <2>8. Passed(Last, Taken - 1)'
    BY <2>1, <2>2, <2>4, <2>7, Zenon DEF Passed
  <2> QED
    BY <1>n, <2>1, <2>2, <2>4, <2>5, <2>6, <2>7, <2>8 DEF OrderOK
<1>6. CASE Handle
  <2>1. /\ connection_socket = Taken /\ Last < Taken /\ Passed(Last, Taken - 1)
        /\ readBytes = 1 => buffer = Taken
        /\ readBytes # 1 => buffer = Last /\ link[Taken] = "ended"
    BY <1>6, <1>e DEF Handle, OrderOK, Unhandled
  <2>2. Last' = buffer
    BY <1>6, <1>n, <2>1, HandleLast
  <2>3. Taken' = Taken /\ link' = link
    BY <1>6, <1>s DEF Handle, Taken
  <2>4. ~ Accepted' /\ ~ Unhandled'
    BY <1>6 DEF Handle, ThreadOK, Accepted, Unhandled, Back, Calling
  <2>5. Passed(Last, Taken)' /\ Passed(Last, Taken - 1)' /\ Last' <= Taken'
    <3>1. CASE readBytes = 1
      BY <1>n, <2>1, <2>2, <2>3, <3>1 DEF Passed
    <3>2. CASE readBytes # 1
      <4>1. Last' = Last /\ \A m \in Last + 1 .. Taken : m \in Last + 1 .. Taken - 1 \/ m = Taken
        BY <1>n, <2>1, <2>2, <3>2
      <4>2. \A m \in Last + 1 .. Taken : m \in 1 .. Messages => link'[m] = "ended"
        BY <2>1, <2>3, <3>2, <4>1, Zenon DEF Passed
      <4>3. \A m \in Last + 1 .. Taken - 1 : m \in 1 .. Messages => link'[m] = "ended"
        BY <2>1, <2>3, Zenon DEF Passed
      <4> QED
        BY <1>n, <2>1, <2>3, <4>1, <4>2, <4>3 DEF Passed
    <3> QED
      BY <3>1, <3>2
  <2>6. buffer' = Last'
    BY <1>6, <2>2 DEF Handle
  <2> QED
    BY <2>4, <2>5, <2>6, Zenon DEF OrderOK
<1>7. CASE Answer
  <2>1. timeoutRoutine /\ UNCHANGED << queue, applied, connection_socket, readBytes, buffer, link >>
        /\ thread' = thread /\ timeoutRoutine' = timeoutRoutine /\ pc = "answer"
    BY <1>7 DEF Answer
  <2>2. Back /\ thread = "ended"
    BY <2>1 DEF Back, Calling, IInv, FlagOK
  <2>3. CASE ~ (routine = "read" /\ readBytes < 0)
    <3>1. SamePlace
      BY <1>7, <1>e, <2>1, <2>2, <2>3 DEF Answer, SamePlace, Accepted, Unhandled, Back, Calling, IInv, TypeOK
    <3> QED
      BY <1>k, <1>s, <2>1, <3>1
  <2>4. CASE routine = "read" /\ readBytes < 0
    <3>1. Unhandled
      BY <2>2, <2>4 DEF Unhandled
    <3>2. /\ Last < Taken /\ Passed(Last, Taken - 1)
          /\ buffer = Last /\ link[Taken] = "ended"
      BY <1>e, <2>4, <3>1 DEF OrderOK
    <3>3. Last' = Last /\ Taken' = Taken
      BY <1>s, <2>1, LastOf DEF Taken
    <3>4. ~ Accepted' /\ ~ Unhandled'
      BY <1>7, <2>1, <2>4 DEF Answer, Accepted, Unhandled, Back, Calling
    <3>5. \A m \in Last + 1 .. Taken : m \in Last + 1 .. Taken - 1 \/ m = Taken
      BY <1>n, <3>2
    <3>6. Passed(Last, Taken)' /\ Passed(Last, Taken - 1)'
      BY <2>1, <3>2, <3>3, <3>5, Zenon DEF Passed
    <3>7. buffer' = Last' /\ Last' <= Taken'
      BY <1>n, <2>1, <3>2, <3>3
    <3> QED
      BY <3>4, <3>6, <3>7, Zenon DEF OrderOK
  <2> QED
    BY <2>3, <2>4
<1>8. CASE Begin \/ SetFlag \/ RunRoutine \/ WaitRoutine \/ FinishRoutine
  <2>1. UNCHANGED << queue, applied, connection_socket, readBytes, buffer, link >>
    BY <1>8 DEF Begin, SetFlag, RunRoutine, WaitRoutine, FinishRoutine
  <2>2. SamePlace
    BY <1>8, <1>e DEF Begin, SetFlag, RunRoutine, WaitRoutine, FinishRoutine, SamePlace, Accepted,
       Unhandled, Back, Calling
  <2> QED
    BY <1>k, <1>s, <2>1, <2>2
<1>9. CASE Others \/ Tick \/ UNCHANGED vars
  BY <1>9, <1>k, <1>s, <1>p DEF Others, Tick, vars
<1> QED
  BY <1>1, <1>2, <1>3, <1>4, <1>5, <1>6, <1>7, <1>8, <1>9, PrimarySteps DEF Next, Control, Main

-----------------------------------------------------------------------------
(***************************************************************************)
(* What is handled when, and that it stays as it was.                      *)
(***************************************************************************)
\* What one place of applied has to do with the place before it.
InPlace(before, now, l) ==
  IF now = before
  THEN \E m \in before + 1 .. Messages : l[m] = "ended"
  ELSE /\ before < now
       /\ \A m \in before + 1 .. now - 1 : l[m] = "ended"

LEMMA HandledByPlace ==
  HandledInOrder <=>
    \A i \in DOMAIN applied : InPlace(IF i = 1 THEN 0 ELSE applied[i - 1], applied[i], link)
  BY Zenon DEF HandledInOrder, InPlace

LEMMA InPlaceStays ==
  ASSUME IInv, LinksOK, [Next]_vars,
         NEW before \in 0 .. Messages, NEW now \in 1 .. Messages, InPlace(before, now, link)
  PROVE  InPlace(before, now, link')
<1>1. \A m \in 1 .. Messages : link[m] = "ended" => link'[m] = "ended"
  BY EndedStays
<1>2. before + 1 .. Messages \subseteq 1 .. Messages /\ before + 1 .. now - 1 \subseteq 1 .. Messages
  BY Bounds
<1> QED
  BY <1>1, <1>2 DEF InPlace

LEMMA HandledStep ==
  IInv /\ LinksOK /\ OrderOK /\ HandledInOrder /\ [Next]_vars => HandledInOrder'
<1> SUFFICES ASSUME IInv, LinksOK, OrderOK, HandledInOrder, [Next]_vars PROVE HandledInOrder'
  OBVIOUS
<1>a. applied \in Seq(1 .. Messages)
  BY DEF IInv, TypeOK
<1>b. ASSUME NEW i \in DOMAIN applied
      PROVE  InPlace(IF i = 1 THEN 0 ELSE applied[i - 1], applied[i], link')
  <2>1. InPlace(IF i = 1 THEN 0 ELSE applied[i - 1], applied[i], link)
    BY HandledByPlace
  <2>2. applied[i] \in 1 .. Messages /\ (IF i = 1 THEN 0 ELSE applied[i - 1]) \in 0 .. Messages
    BY <1>a, Bounds
  <2> QED
    BY <2>1, <2>2, InPlaceStays
<1>1. CASE applied' = applied
  BY <1>1, <1>b DEF HandledInOrder, InPlace
<1>2. CASE Handle /\ buffer # 0
  <2>1. applied' = Append(applied, buffer) /\ link' = link
    BY <1>2 DEF Handle, primaryVars
  <2>2. buffer \in 1 .. Messages
    BY <1>2, Bounds DEF IInv, TypeOK
  <2>3. Last \in 0 .. Messages /\ Taken \in 0 .. Messages
    BY OrderNumbers
  <2>4. Last = IF Len(applied) + 1 = 1 THEN 0 ELSE applied[Len(applied)]
    BY <1>a DEF Last
  <2>5. InPlace(Last, buffer, link)
    <3>1. /\ Last < Taken /\ Passed(Last, Taken - 1)
          /\ readBytes = 1 => buffer = Taken
          /\ readBytes # 1 => buffer = Last /\ link[Taken] = "ended"
      BY <1>2 DEF Handle, OrderOK, Unhandled
    <3>2. CASE readBytes = 1
      <4>1. \A m \in Last + 1 .. buffer - 1 : m \in 1 .. Messages
        BY <2>2, <2>3, Bounds
      <4> QED
        BY <2>3, <3>1, <3>2, <4>1 DEF InPlace, Passed
    <3>3. CASE readBytes # 1
      <4>1. Taken \in Last + 1 .. Messages
        BY <2>3, <3>1, Bounds
      <4> QED
        BY <3>1, <3>3, <4>1, Zenon DEF InPlace
    <3> QED
      BY <3>2, <3>3
  <2>6. DOMAIN applied' = 1 .. Len(applied) + 1 /\ Len(applied) \in Nat /\ DOMAIN applied = 1 .. Len(applied)
    BY <1>a, <2>1, <2>2
  <2>7. \A i \in DOMAIN applied : applied'[i] = applied[i] /\ (i # 1 => applied'[i - 1] = applied[i - 1])
    BY <1>a, <2>1, <2>2
  <2>8. applied'[Len(applied) + 1] = buffer
        /\ (Len(applied) + 1 # 1 => applied'[Len(applied)] = applied[Len(applied)])
    BY <1>a, <2>1, <2>2
  <2>9. ASSUME NEW i \in DOMAIN applied'
        PROVE  InPlace(IF i = 1 THEN 0 ELSE applied'[i - 1], applied'[i], link')
    <3>1. CASE i \in DOMAIN applied
      <4>1. /\ applied'[i] = applied[i]
            /\ (IF i = 1 THEN 0 ELSE applied'[i - 1]) = (IF i = 1 THEN 0 ELSE applied[i - 1])
        BY <2>7, <3>1
      <4> QED
        BY <1>b, <3>1, <4>1, Zenon
    <3>2. CASE i \notin DOMAIN applied
      <4>1. i = Len(applied) + 1
        BY <2>6, <3>2
      <4>2. i - 1 = Len(applied)
        BY <2>6, <4>1
      <4>3. (IF i = 1 THEN 0 ELSE applied'[i - 1]) = Last
        BY <2>4, <2>8, <4>1, <4>2
      <4> QED
        BY <2>1, <2>5, <2>8, <4>1, <4>3
    <3> QED
      BY <3>1, <3>2
  <2> QED
    BY <2>9 DEF HandledInOrder, InPlace
<1>3. applied' = applied \/ (Handle /\ buffer # 0)
  BY PrimarySteps, Zenon DEF Next, Control, Main, vars, backupVars, Connects, Others, PrimaryWrite,
     PrimaryEnd, Begin, AcceptConnection, AcceptFails, Read, SetFlag, RunRoutine, WaitRoutine,
     FinishRoutine, Answer, Handle, Tick
<1> QED
  BY <1>1, <1>2, <1>3

LEMMA OrderInvariance == Spec => []OrderInv
<1>1. Init => OrderInv
  BY InitOK, OrderInitOK DEF OrderInv
<1>2. OrderInv /\ [Next]_vars => OrderInv'
  BY StepOK, ThreadStep, LinksStep, OrderStep, HandledStep DEF OrderInv
<1> QED
  BY <1>1, <1>2, PTL DEF Spec

-----------------------------------------------------------------------------
(***************************************************************************)
(* The variables of the loop keep their types.                             *)
(***************************************************************************)
THEOREM TypeCorrect == Spec => []TypeOK
<1>1. IInv => TypeOK
  BY DEF IInv
<1> QED
  BY <1>1, Invariance, PTL

(***************************************************************************)
(* For any intervals, and any backups listed before this one, a primary    *)
(* that lives is replaced by this one only if rounds of its heartbeats     *)
(* have left it out that, with the next one, fill the timeout.             *)
(***************************************************************************)
THEOREM NoFalseElectionHolds == Spec => []NoFalseElection
<1>1. IInv => NoFalseElection
  BY DEF IInv, TimeOK, Filled, NoFalseElection
<1> QED
  BY <1>1, Invariance, PTL

(***************************************************************************)
(* Messages are handled in the order in which the primary connected, none  *)
(* is skipped but those it did not live to write, and one is handled again *)
(* only where a read of no bytes is taken for a message.                   *)
(***************************************************************************)
THEOREM HandledInOrderHolds == Spec => []HandledInOrder
<1>1. OrderInv => HandledInOrder
  BY DEF OrderInv
<1> QED
  BY <1>1, OrderInvariance, PTL

=============================================================================

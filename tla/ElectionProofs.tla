---------------------------- MODULE ElectionProofs ----------------------------
(***************************************************************************)
(* The election, for any pids below 2^15: first between two backups, then  *)
(* between any number of them.                                             *)
(*                                                                         *)
(* A message is known by its content, so the pair's invariant follows the  *)
(* two pids: low never hears or sends anything but its own pid and high's, *)
(* and once it has heard high's it never proposes itself again.  When high *)
(* hears its own pid, it has therefore overtaken all that low proposed.    *)
(*                                                                         *)
(* With more backups only two are ever called: a server that hears its own *)
(* pid has it from the other of the two, which forwards no lower one.      *)
(***************************************************************************)
EXTENDS RingLeaderElection, TLAPS

\* The pids below 2^15: all there are unless kernel.pid_max has been raised.
LowPids == 0 .. 32767

(***************************************************************************)
(* Every pid below 2^15 arrives as it was sent: only its lowest byte may   *)
(* be negative as a char, and that one lands below all others.             *)
(***************************************************************************)
THEOREM LowPidArrives ==
  ASSUME NEW pid \in LowPids
  PROVE  DecodePid(EncodePid(pid)) = pid
<1> DEFINE m == EncodePid(pid)
           low == pid % 256
           high == (pid \div 256) % 256
<1>1. /\ low \in 0 .. 255
      /\ high \in 0 .. 127
      /\ pid = low + 256 * high
      /\ (pid \div 65536) % 256 = 0
      /\ (pid \div 16777216) % 256 = 0
  <2> DEFINE q == pid \div 256
  <2>1. pid \in Int /\ 0 <= pid /\ pid <= 32767
    BY DEF LowPids
  <2>2. q \in Int /\ low \in 0 .. 255 /\ pid = 256 * q + low
    BY <2>1
  <2>3. q \in 0 .. 127
    <3> HIDE DEF q, low
    <3> QED BY <2>1, <2>2
  <2>4. high = q
    <3>1. ASSUME NEW x \in Int, 0 <= x, x <= 127
          PROVE  x % 256 = x
      BY <3>1
    <3> QED BY <3>1, <2>3
  <2>5. pid \div 65536 = 0 /\ pid \div 16777216 = 0
    BY <2>1, SMTT(30)
  <2> QED
    BY <2>1, <2>2, <2>3, <2>4, <2>5
<1>2. m = << low, high, 0, 0 >>
  BY <1>1 DEF EncodePid
<1>3. \A i \in 1 .. 4 : ReceivedByte(m, i) = m[i]
  BY <1>1, <1>2 DEF ReceivedByte
<1>4. /\ ReceivedByte(m, 1) = low /\ ReceivedByte(m, 2) = high
      /\ ReceivedByte(m, 3) = 0 /\ ReceivedByte(m, 4) = 0
  <2>1. m[1] = low /\ m[2] = high /\ m[3] = 0 /\ m[4] = 0
    BY <1>2
  <2>2. /\ ReceivedByte(m, 1) = m[1] /\ ReceivedByte(m, 2) = m[2]
        /\ ReceivedByte(m, 3) = m[3] /\ ReceivedByte(m, 4) = m[4]
    BY <1>3
  <2> QED
    BY <2>1, <2>2
<1>5. DecodePid(m) = low + 256 * high
  <2>1. low \in Int /\ high \in Int
    BY <1>1
  <2> HIDE DEF m, low, high
  <2> QED
    BY <1>4, <2>1 DEF DecodePid
<1> QED
  BY <1>1, <1>5

-----------------------------------------------------------------------------

\* Two backups that know of each other, of which high has the higher pid.
Pair(high, low) ==
  /\ Servers = {high, low}
  /\ Pid[low] < Pid[high]
  /\ {Pid[low], Pid[high]} \subseteq LowPids
  /\ Peers(high) = << low >> /\ Peers(low) = << high >>

Proposal(pid) == [type |-> ELECTION, pid |-> EncodePid(pid)]
Declared(pid) == [type |-> ELECTED, pid |-> EncodePid(pid)]

Statements == {"start", "bound", "loop", "look", "reset", "compare", "propose", "forward",
               "read_again", "mine", "connect", "second_round", "leader", "backup", "dead"}

Sent(high, low) == {Proposal(Pid[high]), Proposal(Pid[low]), Declared(Pid[high])}

Types(high, low) ==
  /\ pc \in [Servers -> Statements]
  /\ receiver \in [Servers -> {"none", "bind", "check", "accept", "closed"}]
  /\ candidate_pid \in [Servers -> {0, Pid[low], Pid[high]}]
  /\ leader_elected \in [Servers -> BOOLEAN]
  /\ leader_pid \in [Servers -> {-1, 0, Pid[low], Pid[high]}]
  /\ participant \in [Servers -> BOOLEAN]
  /\ sending \in [Servers -> Sent(high, low) \cup {Nothing}]
  /\ \A s \in Servers : pc[s] = "connect" => sending[s] # Nothing
  /\ socket \in [Servers -> Seq(Sent(high, low))]
  /\ \A s \in Servers : Len(socket[s]) <= Backlog
  /\ overwritten \subseteq Servers

\* low hears and sends no other pid than high's, but for its own proposals.
LowOK(high, low) ==
  /\ candidate_pid[low] # Pid[low]
  /\ leader_pid[low] # Pid[low]
  /\ pc[low] # "leader"
  /\ pc[low] \in {"forward", "read_again", "mine"} => candidate_pid[low] = Pid[high]
  /\ sending[low] # Declared(Pid[high])
  /\ \A k \in 1 .. Len(socket[low]) : socket[low][k] # Proposal(Pid[low])
  /\ \A k \in 1 .. Len(socket[low]) :
        socket[low][k] = Declared(Pid[high]) => leader_elected[high]
  /\ leader_elected[low] => leader_elected[high]
  /\ pc[low] \in {"second_round", "backup"} => leader_elected[low]

\* high hears no declaration: it is elected by its own.
HighOK(high, low) ==
  /\ pc[high] # "backup"
  /\ pc[high] \in {"forward", "read_again", "mine"} => candidate_pid[high] = Pid[high]
  /\ sending[high] # Proposal(Pid[low])
  /\ \A k \in 1 .. Len(socket[high]) : socket[high][k] # Declared(Pid[high])
  /\ leader_elected[high] => /\ leader_pid[high] = Pid[high]
                             /\ pc[high] \in {"loop", "second_round", "leader", "dead"}
  /\ pc[high] = "second_round" => leader_elected[high]

\* low has heard high's pid for good.
Settled(high, low) ==
  /\ candidate_pid[low] = Pid[high]
  /\ pc[low] \notin {"reset", "propose"}
  /\ sending[low] # Proposal(Pid[low])

EchoOK(high, low) ==
  /\ sending[low] = Proposal(Pid[high]) => Settled(high, low)
  /\ candidate_pid[high] = Pid[high] =>
       /\ Settled(high, low)
       /\ \A k \in 1 .. Len(socket[high]) : socket[high][k] = Proposal(Pid[high])
  /\ \A k \in 1 .. Len(socket[high]) : socket[high][k] = Proposal(Pid[high]) =>
       /\ Settled(high, low)
       /\ \A j \in k .. Len(socket[high]) : socket[high][j] = Proposal(Pid[high])

PairInv(high, low) ==
  Types(high, low) /\ LowOK(high, low) /\ HighOK(high, low) /\ EchoOK(high, low)

-----------------------------------------------------------------------------
LEMMA PairFacts ==
  ASSUME NEW high, NEW low, Pair(high, low)
  PROVE  /\ high \in Servers /\ low \in Servers /\ high # low
         /\ \A s \in Servers : s = high \/ s = low
         /\ Pid[high] \in Int /\ Pid[low] \in Int
         /\ 0 < Pid[low] /\ Pid[low] < Pid[high]
         /\ Neighbour(high) = low /\ Neighbour(low) = high
         /\ Peers(high) # << >> /\ Peers(low) # << >>
<1>1. /\ high \in Servers /\ low \in Servers /\ high # low
      /\ \A s \in Servers : s = high \/ s = low
      /\ Pid[low] < Pid[high]
      /\ {Pid[low], Pid[high]} \subseteq LowPids
  <2>1. high \in Servers /\ low \in Servers /\ \A s \in Servers : s = high \/ s = low
    BY DEF Pair
  <2>2. Pid[high] \in Int /\ Pid[low] \in Int
    BY <2>1, ElectionAssumption DEF Pids
  <2> QED
    BY <2>1, <2>2 DEF Pair
<1>2. Pid[high] \in Int /\ Pid[low] \in Int /\ 0 < Pid[low]
  BY <1>1, ElectionAssumption DEF Pids
<1>3. << low >>[1] = low /\ << high >>[1] = high /\ << low >> # << >> /\ << high >> # << >>
  OBVIOUS
<1>4. Neighbour(high) = low /\ Neighbour(low) = high
      /\ Peers(high) # << >> /\ Peers(low) # << >>
  BY <1>3 DEF Pair, Neighbour
<1> QED
  BY <1>1, <1>2, <1>4

LEMMA PairWire ==
  ASSUME NEW high, NEW low, Pair(high, low)
  PROVE  /\ DecodePid(EncodePid(Pid[high])) = Pid[high]
         /\ DecodePid(EncodePid(Pid[low])) = Pid[low]
         /\ Proposal(Pid[high]) # Proposal(Pid[low])
         /\ Proposal(Pid[high]) # Declared(Pid[high])
         /\ Proposal(Pid[low]) # Declared(Pid[high])
         /\ Nothing \notin Sent(high, low)
<1>1. Pid[high] \in LowPids /\ Pid[low] \in LowPids
  BY DEF Pair
<1>2. /\ DecodePid(EncodePid(Pid[high])) = Pid[high]
      /\ DecodePid(EncodePid(Pid[low])) = Pid[low]
  BY <1>1, LowPidArrives, Zenon
<1>3. EncodePid(Pid[high]) # EncodePid(Pid[low])
  <2>1. Pid[high] # Pid[low]
    BY PairFacts
  <2> QED
    BY <1>2, <2>1
<1>4. /\ Proposal(Pid[high]).pid = EncodePid(Pid[high])
      /\ Proposal(Pid[low]).pid = EncodePid(Pid[low])
      /\ \A x : Proposal(x).type = "MSG_ELECTION" /\ Declared(x).type = "MSG_ELECTED"
      /\ Nothing.type = "none"
  BY DEF Proposal, Declared, Nothing, ELECTION, ELECTED
<1> QED
  BY <1>2, <1>3, <1>4 DEF Sent

\* What a message is, by the server it is queued at or sent from.
LEMMA MessageType ==
  ASSUME NEW high, NEW low
  PROVE  /\ \A m \in Sent(high, low) : m.type \in {ELECTION, ELECTED}
         /\ \A m \in Sent(high, low) : m.type = ELECTED <=> m = Declared(Pid[high])
         /\ \A m \in Sent(high, low) : m.type = ELECTION =>
              \/ m = Proposal(Pid[high]) /\ DecodePid(m.pid) = DecodePid(EncodePid(Pid[high]))
              \/ m = Proposal(Pid[low]) /\ DecodePid(m.pid) = DecodePid(EncodePid(Pid[low]))
<1>1. ELECTION # ELECTED
  BY DEF ELECTION, ELECTED
<1>2. \A x : /\ Proposal(x).type = ELECTION /\ Declared(x).type = ELECTED
             /\ Proposal(x).pid = EncodePid(x)
  BY DEF Proposal, Declared
<1> QED
  BY <1>1, <1>2 DEF Sent

-----------------------------------------------------------------------------
(***************************************************************************)
(* The steps of a server, of which both threads leave the rest alone.      *)
(***************************************************************************)
Walk(s) == Start(s) \/ AwaitBound(s) \/ Loop(s) \/ Look(s) \/ Compare(s) \/ SecondRound(s)

Ends(s) == Refused(s) \/ Crash(s)

LEMMA TypesStep ==
  ASSUME NEW high, NEW low, Pair(high, low), PairInv(high, low),
         NEW s \in Servers, MainThread(s) \/ ReceiverThread(s) \/ Crash(s)
  PROVE  Types(high, low)'
<1>t. Types(high, low)
  BY DEF PairInv
<1>p. Pid[high] \in Int /\ Pid[low] \in Int /\ 0 < Pid[low] /\ Pid[low] < Pid[high]
      /\ s \in {high, low} /\ high \in Servers /\ low \in Servers
  BY PairFacts
<1>w. /\ DecodePid(EncodePid(Pid[high])) = Pid[high]
      /\ DecodePid(EncodePid(Pid[low])) = Pid[low]
      /\ Nothing \notin Sent(high, low)
  BY PairWire
<1>e. << >> \in Seq(Sent(high, low)) /\ Len(<< >>) <= Backlog
  <2>1. Backlog \in Nat
    BY ElectionAssumption
  <2> QED
    BY <2>1
<1> USE DEF Types, Goto, At
<1>1. CASE Walk(s)
  BY <1>t, <1>1, ZenonT(30) DEF Walk, Start, AwaitBound, Loop, Look, Compare, SecondRound,
     Statements, sharedVars, mainVars
<1>2. CASE Reset(s)
  BY <1>t, <1>2 DEF Reset, Statements, mainVars
<1>3. CASE Propose(s)
  <2>1. Proposal(Pid[s]) \in Sent(high, low)
    BY <1>p DEF Sent
  <2> QED
    BY <1>t, <1>w, <1>3, <2>1 DEF Propose, Send, Statements, Proposal, sharedVars
<1>4. CASE Forward(s)
  BY <1>t, <1>4 DEF Forward, Statements, sharedVars
<1>5. CASE ReadAgain(s)
  <2>1. candidate_pid[s] = Pid[high]
    BY <1>p, <1>5 DEF ReadAgain, PairInv, LowOK, HighOK
  <2>2. Proposal(candidate_pid[s]) \in Sent(high, low)
    BY <2>1 DEF Sent
  <2> QED
    BY <1>t, <1>w, <1>5, <2>2 DEF ReadAgain, Send, Statements, Proposal, sharedVars
<1>6. CASE Mine(s)
  <2>1. candidate_pid[s] = Pid[s] => Declared(Pid[s]) \in Sent(high, low)
    BY <1>p, <1>6 DEF Mine, PairInv, LowOK, HighOK, Sent
  <2> QED
    BY <1>t, <1>w, <1>6, <2>1 DEF Mine, Send, Statements, Declared, sharedVars
<1>7. CASE Connect(s)
  <2>1. sending[s] \in Sent(high, low) /\ Neighbour(s) \in Servers
    BY <1>t, <1>p, <1>7, PairFacts DEF Connect
  <2>2. socket' \in [Servers -> Seq(Sent(high, low))]
    <3>1. Append(socket[Neighbour(s)], sending[s]) \in Seq(Sent(high, low))
      BY <1>t, <2>1
    <3>2. \/ socket' = [socket EXCEPT ![Neighbour(s)] = Append(socket[Neighbour(s)], sending[s])]
          \/ UNCHANGED socket
      BY <1>7 DEF Connect
    <3> QED
      BY <1>t, <3>1, <3>2
  <2>3. \A u \in Servers : Len(socket'[u]) <= Backlog
    <3>1. CASE socket' = [socket EXCEPT ![Neighbour(s)] = Append(@, sending[s])]
               /\ Len(socket[Neighbour(s)]) < Backlog
      <4>1. Len(socket'[Neighbour(s)]) = Len(socket[Neighbour(s)]) + 1
        BY <1>t, <2>1, <3>1
      <4>2. Len(socket[Neighbour(s)]) \in Nat /\ Backlog \in Nat
        BY <1>t, <2>1, ElectionAssumption
      <4> QED
        BY <1>t, <2>1, <3>1, <4>1, <4>2
    <3>2. CASE UNCHANGED socket
      BY <1>t, <3>2
    <3> QED
      BY <1>7, <3>1, <3>2 DEF Connect
  <2>4. /\ leader_elected' \in [Servers -> BOOLEAN]
        /\ leader_pid' \in [Servers -> {-1, 0, Pid[low], Pid[high]}]
    <3>1. Pid[s] \in {Pid[low], Pid[high]}
      BY <1>p
    <3> QED
      BY <1>t, <1>7, <3>1 DEF Connect, AfterSend
  <2>5. /\ pc' = [pc EXCEPT ![s] = "loop"]
        /\ sending' = [sending EXCEPT ![s] = Nothing]
        /\ UNCHANGED << receiver, candidate_pid, participant, overwritten >>
    BY <1>7 DEF Connect
  <2> QED
    BY <1>t, <2>2, <2>3, <2>4, <2>5 DEF Statements
<1>8. CASE Ends(s)
  <2>1. socket' = [socket EXCEPT ![s] = << >>]
    BY <1>8 DEF Ends, Refused, Crash, Stop
  <2>2. /\ socket' \in [Servers -> Seq(Sent(high, low))]
        /\ \A u \in Servers : Len(socket'[u]) <= Backlog
    BY <1>t, <1>e, <2>1
  <2> QED
    BY <1>t, <1>8, <2>1, <2>2 DEF Ends, Refused, Crash, Stop, Statements, sharedVars, mainVars
<1>9. CASE Bind(s)
  BY <1>t, <1>9 DEF Bind, sharedVars, mainVars
<1>10. CASE CheckElected(s)
  <2>1. socket' = [socket EXCEPT ![s] = << >>] \/ UNCHANGED socket
    BY <1>10 DEF CheckElected
  <2>2. /\ socket' \in [Servers -> Seq(Sent(high, low))]
        /\ \A u \in Servers : Len(socket'[u]) <= Backlog
    BY <1>t, <1>e, <2>1
  <2> QED
    BY <1>t, <1>10, <2>1, <2>2 DEF CheckElected, sharedVars, mainVars
<1>11. CASE Accept(s)
  <2>1. socket[s] \in Seq(Sent(high, low)) /\ socket[s] # << >>
    BY <1>t, <1>11 DEF Accept
  <2>2. /\ Head(socket[s]) \in Sent(high, low)
        /\ Tail(socket[s]) \in Seq(Sent(high, low))
        /\ Len(Tail(socket[s])) <= Len(socket[s])
    BY <2>1
  <2>3. Head(socket[s]).type = ELECTION =>
          DecodePid(Head(socket[s]).pid) \in {Pid[low], Pid[high]}
    BY <1>w, <2>2, MessageType
  <2>4. socket' = [socket EXCEPT ![s] = Tail(socket[s])]
    BY <1>11 DEF Accept
  <2>5. \A u \in Servers : Len(socket'[u]) <= Backlog
    <3>1. Len(socket[s]) \in Nat /\ Len(Tail(socket[s])) \in Nat /\ Backlog \in Nat
      BY <2>1, <2>2, ElectionAssumption
    <3> QED
      BY <1>t, <2>2, <2>4, <3>1
  <2>6. socket' \in [Servers -> Seq(Sent(high, low))]
    BY <1>t, <2>2, <2>4
  <2> QED
    BY <1>t, <1>11, <2>3, <2>5, <2>6 DEF Accept, mainVars
<1> QED
  BY <1>1, <1>2, <1>3, <1>4, <1>5, <1>6, <1>7, <1>8, <1>9, <1>10, <1>11
     DEF MainThread, ReceiverThread, Walk, Ends

-----------------------------------------------------------------------------
(***************************************************************************)
(* A step of s changes nothing of another server but what it queues at it, *)
(* and a queue is left alone, emptied, read or appended to.                *)
(***************************************************************************)
Shape(M) ==
  /\ pc \in [Servers -> Statements]
  /\ candidate_pid \in [Servers -> Int]
  /\ leader_elected \in [Servers -> BOOLEAN]
  /\ leader_pid \in [Servers -> Int]
  /\ sending \in [Servers -> M \cup {Nothing}]
  /\ \A s \in Servers : pc[s] = "connect" => sending[s] # Nothing
  /\ socket \in [Servers -> Seq(M)]

LEMMA StepElsewhere ==
  ASSUME NEW M, Shape(M),
         NEW s \in Servers, MainThread(s) \/ ReceiverThread(s) \/ Crash(s),
         NEW u \in Servers, u # s
  PROVE  /\ pc'[u] = pc[u] /\ candidate_pid'[u] = candidate_pid[u]
         /\ leader_elected'[u] = leader_elected[u] /\ leader_pid'[u] = leader_pid[u]
         /\ sending'[u] = sending[u]
<1> USE DEF Shape, Goto, At
<1>2. CASE Walk(s)
  BY <1>2 DEF Walk, Start, AwaitBound, Loop, Look, Compare, SecondRound, sharedVars, mainVars
<1>3. CASE Reset(s) \/ Propose(s) \/ Forward(s) \/ ReadAgain(s) \/ Mine(s)
  BY <1>3 DEF Reset, Propose, Forward, ReadAgain, Mine, Send, sharedVars, mainVars
<1>4. CASE Connect(s)
  BY <1>4 DEF Connect, AfterSend
<1>5. CASE Ends(s)
  BY <1>5 DEF Ends, Refused, Crash, Stop, sharedVars, mainVars
<1>6. CASE ReceiverThread(s)
  BY <1>6 DEF ReceiverThread, Bind, CheckElected, Accept, sharedVars, mainVars
<1> QED
  BY <1>2, <1>3, <1>4, <1>5, <1>6 DEF MainThread, Walk, Ends

LEMMA Queues ==
  ASSUME NEW s \in Servers, MainThread(s) \/ ReceiverThread(s) \/ Crash(s)
  PROVE  \/ UNCHANGED socket
         \/ socket' = [socket EXCEPT ![s] = << >>]
         \/ Accept(s) /\ socket' = [socket EXCEPT ![s] = Tail(socket[s])]
         \/ /\ Connect(s)
            /\ socket' = [socket EXCEPT ![Neighbour(s)] =
                            Append(socket[Neighbour(s)], sending[s])]
<1>1. CASE Walk(s)
  BY <1>1 DEF Walk, Start, AwaitBound, Loop, Look, Compare, SecondRound
<1>2. CASE Reset(s) \/ Propose(s) \/ Forward(s) \/ ReadAgain(s) \/ Mine(s)
  BY <1>2 DEF Reset, Propose, Forward, ReadAgain, Mine
<1>3. CASE Connect(s)
  BY <1>3 DEF Connect
<1>4. CASE Ends(s)
  BY <1>4 DEF Ends, Refused, Crash, Stop
<1>5. CASE ReceiverThread(s)
  BY <1>5 DEF ReceiverThread, Bind, CheckElected, Accept
<1> QED
  BY <1>1, <1>2, <1>3, <1>4, <1>5 DEF MainThread, Walk, Ends

\* Whatever is queued was queued before, or has just been sent.
LEMMA StepQueued ==
  ASSUME NEW M, Shape(M),
         NEW s \in Servers, Neighbour(s) \in Servers, MainThread(s) \/ ReceiverThread(s) \/ Crash(s),
         NEW u \in Servers, NEW k \in 1 .. Len(socket'[u])
  PROVE  \/ \E j \in 1 .. Len(socket[u]) : socket'[u][k] = socket[u][j]
         \/ Connect(s) /\ u = Neighbour(s) /\ socket'[u][k] = sending[s]
<1>1. /\ socket \in [Servers -> Seq(M)]
      /\ Connect(s) => sending[s] \in M
  BY DEF Shape, Connect, At
<1>2. CASE UNCHANGED socket
  BY <1>2
<1>3. CASE socket' = [socket EXCEPT ![s] = << >>]
  <2>1. CASE u = s
    <3>1. socket'[u] = << >>
      BY <1>1, <1>3, <2>1
    <3>2. k \in 1 .. 0
      BY <3>1
    <3> QED
      BY <3>2
  <2>2. CASE u # s
    BY <1>1, <1>3, <2>2
  <2> QED
    BY <2>1, <2>2
<1>4. CASE Accept(s) /\ socket' = [socket EXCEPT ![s] = Tail(socket[s])]
  <2>1. CASE u = s
    <3>1. socket[s] # << >> /\ socket[s] \in Seq(M)
      BY <1>1, <1>4 DEF Accept
    <3>2. socket'[u] = Tail(socket[s])
      BY <1>1, <1>4, <2>1
    <3>3. k + 1 \in 1 .. Len(socket[s]) /\ Tail(socket[s])[k] = socket[s][k + 1]
      BY <3>1, <3>2
    <3> QED
      BY <2>1, <3>2, <3>3
  <2>2. CASE u # s
    BY <1>1, <1>4, <2>2
  <2> QED
    BY <2>1, <2>2
<1>5. CASE /\ Connect(s)
           /\ socket' = [socket EXCEPT ![Neighbour(s)] =
                           Append(socket[Neighbour(s)], sending[s])]
  <2>1. CASE u = Neighbour(s)
    <3>1. socket'[u] = Append(socket[u], sending[s]) /\ socket[u] \in Seq(M)
      BY <1>1, <1>5, <2>1
    <3>2. \/ k \in 1 .. Len(socket[u]) /\ socket'[u][k] = socket[u][k]
          \/ socket'[u][k] = sending[s]
      BY <3>1
    <3> QED
      BY <1>5, <2>1, <3>2
  <2>2. CASE u # Neighbour(s)
    BY <1>1, <1>5, <2>2
  <2> QED
    BY <2>1, <2>2
<1> QED
  BY <1>2, <1>3, <1>4, <1>5, Queues

LEMMA PairShape ==
  ASSUME NEW high, NEW low, Pair(high, low), PairInv(high, low)
  PROVE  Shape(Sent(high, low))
<1>1. Types(high, low)
  BY DEF PairInv
<1>2. Pid[high] \in Int /\ Pid[low] \in Int
  BY PairFacts
<1> QED
  BY <1>1, <1>2 DEF Types, Shape

LEMMA Elsewhere ==
  ASSUME NEW high, NEW low, Pair(high, low), PairInv(high, low),
         NEW s \in Servers, MainThread(s) \/ ReceiverThread(s) \/ Crash(s),
         NEW u \in Servers, u # s
  PROVE  /\ pc'[u] = pc[u] /\ candidate_pid'[u] = candidate_pid[u]
         /\ leader_elected'[u] = leader_elected[u] /\ leader_pid'[u] = leader_pid[u]
         /\ sending'[u] = sending[u]
BY PairShape, StepElsewhere

LEMMA Queued ==
  ASSUME NEW high, NEW low, Pair(high, low), PairInv(high, low),
         NEW s \in Servers, MainThread(s) \/ ReceiverThread(s) \/ Crash(s),
         NEW u \in Servers, NEW k \in 1 .. Len(socket'[u])
  PROVE  \/ \E j \in 1 .. Len(socket[u]) : socket'[u][k] = socket[u][j]
         \/ Connect(s) /\ u = Neighbour(s) /\ socket'[u][k] = sending[s]
<1>1. Neighbour(s) \in Servers
  BY PairFacts
<1> QED
  BY <1>1, PairShape, StepQueued

LEMMA LowStep ==
  ASSUME NEW high, NEW low, Pair(high, low), PairInv(high, low),
         NEW s \in Servers, MainThread(s) \/ ReceiverThread(s) \/ Crash(s)
  PROVE  LowOK(high, low)'
<1>1. Types(high, low) /\ LowOK(high, low) /\ HighOK(high, low)
  BY DEF PairInv
<1>2. /\ high \in Servers /\ low \in Servers /\ high # low /\ (s = high \/ s = low)
      /\ Pid[high] \in Int /\ Pid[low] \in Int /\ 0 < Pid[low] /\ Pid[low] < Pid[high]
      /\ Neighbour(high) = low /\ Neighbour(low) = high
      /\ Peers(low) # << >>
  BY PairFacts
<1>3. /\ DecodePid(EncodePid(Pid[high])) = Pid[high]
      /\ Proposal(Pid[high]) # Proposal(Pid[low])
      /\ Proposal(Pid[high]) # Declared(Pid[high])
      /\ Proposal(Pid[low]) # Declared(Pid[high])
      /\ Nothing \notin Sent(high, low)
  BY PairWire
\* Only a declaration of its own makes a server forget that nobody is elected.
<1>4. leader_elected[high] => leader_elected'[high]
  <2>1. CASE s = low
    BY <1>2, <2>1, Elsewhere
  <2>2. CASE s = high
    BY <1>1, <2>2 DEF MainThread, ReceiverThread, Start, AwaitBound, Loop, Look, Reset, Compare,
       Propose, Forward, ReadAgain, Mine, Connect, AfterSend, Refused, Crash, Stop, SecondRound,
       Bind, CheckElected, Accept, sharedVars, Types
  <2> QED
    BY <1>2, <2>1, <2>2
<1>5. \A k \in 1 .. Len(socket'[low]) :
        /\ socket'[low][k] # Proposal(Pid[low])
        /\ socket'[low][k] = Declared(Pid[high]) => leader_elected'[high]
  <2> TAKE k \in 1 .. Len(socket'[low])
  <2>q. \/ \E j \in 1 .. Len(socket[low]) : socket'[low][k] = socket[low][j]
        \/ Connect(s) /\ low = Neighbour(s) /\ socket'[low][k] = sending[s]
    BY <1>2, Queued
  <2>1. CASE \E j \in 1 .. Len(socket[low]) : socket'[low][k] = socket[low][j]
    BY <1>1, <1>4, <2>1 DEF LowOK
  <2>2. CASE Connect(s) /\ low = Neighbour(s) /\ socket'[low][k] = sending[s]
    <3>1. s = high
      BY <1>2, <2>2
    <3>2. sending[high] # Proposal(Pid[low])
      BY <1>1 DEF HighOK
    <3>3. sending[high] = Declared(Pid[high]) => leader_elected'[high]
      BY <1>1, <1>2, <2>2, <3>1 DEF Connect, AfterSend, Declared, Types
    <3> QED
      BY <2>2, <3>1, <3>2, <3>3
  <2> QED
    BY <2>q, <2>1, <2>2
<1>6. CASE s = high
  <2>1. /\ pc'[low] = pc[low] /\ candidate_pid'[low] = candidate_pid[low]
        /\ leader_elected'[low] = leader_elected[low] /\ leader_pid'[low] = leader_pid[low]
        /\ sending'[low] = sending[low]
    BY <1>2, <1>6, Elsewhere
  <2> QED
    BY <1>1, <1>4, <1>5, <2>1 DEF LowOK
<1>7. CASE s = low
  <2> USE <1>7
  <2>1. candidate_pid[low] \in {0, Pid[high]}
    BY <1>1, <1>2 DEF Types, LowOK
  <2>2. /\ candidate_pid'[low] # Pid[low]
        /\ leader_pid'[low] # Pid[low]
        /\ pc'[low] # "leader"
        /\ pc'[low] \in {"forward", "read_again", "mine"} => candidate_pid'[low] = Pid[high]
        /\ sending'[low] # Declared(Pid[high])
        /\ leader_elected'[low] => leader_elected[low] \/ Accept(s)
        /\ pc'[low] \in {"second_round", "backup"} => leader_elected'[low]
    <3> USE DEF Types, LowOK, Goto, At
    <3>1. CASE Walk(s)
      BY <1>1, <1>2, <2>1, <3>1 DEF Walk, Start, AwaitBound, Loop, Look, Compare, SecondRound,
         sharedVars, mainVars
    <3>2. CASE Reset(s)
      BY <1>1, <1>2, <2>1, <3>2 DEF Reset, mainVars
    <3>3. CASE Propose(s)
      BY <1>1, <1>2, <1>3, <2>1, <3>3 DEF Propose, Send, Proposal, sharedVars
    <3>4. CASE Forward(s)
      BY <1>1, <1>2, <2>1, <3>4 DEF Forward, sharedVars
    <3>5. CASE ReadAgain(s)
      BY <1>1, <1>2, <1>3, <2>1, <3>5 DEF ReadAgain, Send, Proposal, sharedVars
    <3>6. CASE Mine(s)
      BY <1>1, <1>2, <2>1, <3>6 DEF Mine, sharedVars
    <3>7. CASE Connect(s)
      <4>1. sending[low].type # ELECTED
        <5>1. sending[low] \in Sent(high, low)
          BY <1>1, <1>2, <3>7 DEF Connect
        <5> QED
          BY <1>1, <5>1, MessageType
      <4>2. Nothing # Declared(Pid[high])
        BY <1>3 DEF Sent
      <4> QED
        BY <1>1, <1>2, <4>1, <4>2, <3>7 DEF Connect, AfterSend
    <3>8. CASE Ends(s)
      BY <1>1, <1>2, <3>8 DEF Ends, Refused, Crash, Stop, sharedVars, mainVars
    <3>9. CASE Bind(s) \/ CheckElected(s)
      BY <1>1, <1>2, <3>9 DEF Bind, CheckElected, sharedVars, mainVars
    <3>10. CASE Accept(s)
      <4>1. socket[low] \in Seq(Sent(high, low)) /\ socket[low] # << >>
        BY <1>1, <1>2, <3>10 DEF Accept
      <4>2. /\ 1 \in 1 .. Len(socket[low]) /\ Head(socket[low]) = socket[low][1]
            /\ Head(socket[low]) \in Sent(high, low)
        BY <4>1
      <4>3. Head(socket[low]).type = ELECTION => DecodePid(Head(socket[low]).pid) = Pid[high]
        BY <1>1, <1>3, <4>2, MessageType
      <4> QED
        BY <1>1, <1>2, <4>3, <3>10 DEF Accept, mainVars
    <3> QED
      BY <3>1, <3>2, <3>3, <3>4, <3>5, <3>6, <3>7, <3>8, <3>9, <3>10
         DEF MainThread, ReceiverThread, Walk, Ends
  <2>3. leader_elected'[low] => leader_elected'[high]
    <3>1. CASE leader_elected[low]
      BY <1>1, <1>4, <3>1 DEF LowOK
    <3>2. CASE ~ leader_elected[low] /\ Accept(s)
      <4>1. socket[low] \in Seq(Sent(high, low)) /\ socket[low] # << >>
        BY <1>1, <1>2, <3>2 DEF Accept, Types
      <4>2. /\ 1 \in 1 .. Len(socket[low]) /\ Head(socket[low]) = socket[low][1]
            /\ Head(socket[low]) \in Sent(high, low)
        BY <4>1
      <4>3. leader_elected'[low] => Head(socket[low]).type # ELECTION
        BY <1>1, <1>2, <3>2 DEF Accept, Types
      <4>4. leader_elected'[low] => Head(socket[low]) = Declared(Pid[high])
        BY <4>2, <4>3, MessageType
      <4> QED
        BY <1>1, <1>4, <4>2, <4>4 DEF LowOK
    <3> QED
      BY <2>2, <3>1, <3>2
  <2> QED
    BY <1>5, <2>2, <2>3 DEF LowOK
<1> QED
  BY <1>2, <1>6, <1>7

LEMMA HighStep ==
  ASSUME NEW high, NEW low, Pair(high, low), PairInv(high, low),
         NEW s \in Servers, MainThread(s) \/ ReceiverThread(s) \/ Crash(s)
  PROVE  HighOK(high, low)'
<1>1. Types(high, low) /\ LowOK(high, low) /\ HighOK(high, low) /\ EchoOK(high, low)
  BY DEF PairInv
<1>2. /\ high \in Servers /\ low \in Servers /\ high # low /\ (s = high \/ s = low)
      /\ Pid[high] \in Int /\ Pid[low] \in Int /\ 0 < Pid[low] /\ Pid[low] < Pid[high]
      /\ Neighbour(high) = low /\ Neighbour(low) = high
      /\ Peers(high) # << >>
  BY PairFacts
<1>3. /\ DecodePid(EncodePid(Pid[high])) = Pid[high]
      /\ Proposal(Pid[high]) # Proposal(Pid[low])
      /\ Proposal(Pid[low]) # Declared(Pid[high])
      /\ Nothing # Proposal(Pid[low])
  BY PairWire DEF Sent
<1>4. \A k \in 1 .. Len(socket'[high]) : socket'[high][k] # Declared(Pid[high])
  <2> TAKE k \in 1 .. Len(socket'[high])
  <2>q. \/ \E j \in 1 .. Len(socket[high]) : socket'[high][k] = socket[high][j]
        \/ Connect(s) /\ high = Neighbour(s) /\ socket'[high][k] = sending[s]
    BY <1>2, Queued
  <2>1. CASE \E j \in 1 .. Len(socket[high]) : socket'[high][k] = socket[high][j]
    BY <1>1, <2>1 DEF HighOK
  <2>2. CASE Connect(s) /\ high = Neighbour(s) /\ socket'[high][k] = sending[s]
    BY <1>1, <1>2, <2>2 DEF LowOK
  <2> QED
    BY <2>q, <2>1, <2>2
<1>5. CASE s = low
  <2>1. /\ pc'[high] = pc[high] /\ candidate_pid'[high] = candidate_pid[high]
        /\ leader_elected'[high] = leader_elected[high] /\ leader_pid'[high] = leader_pid[high]
        /\ sending'[high] = sending[high]
    BY <1>2, <1>5, Elsewhere
  <2> QED
    BY <1>1, <1>4, <2>1 DEF HighOK
<1>6. CASE s = high
  <2> USE <1>6
  <2>1. candidate_pid[high] \in {0, Pid[low], Pid[high]}
    BY <1>1, <1>2 DEF Types
  <2>2. /\ pc'[high] # "backup"
        /\ pc'[high] \in {"forward", "read_again", "mine"} => candidate_pid'[high] = Pid[high]
        /\ sending'[high] # Proposal(Pid[low])
        /\ leader_elected'[high] => /\ leader_pid'[high] = Pid[high]
                                    /\ pc'[high] \in {"loop", "second_round", "leader", "dead"}
        /\ pc'[high] = "second_round" => leader_elected'[high]
    <3> USE DEF Types, HighOK, Goto, At
    <3>1. CASE Walk(s)
      BY <1>1, <1>2, <2>1, <3>1 DEF Walk, Start, AwaitBound, Loop, Look, Compare, SecondRound,
         sharedVars, mainVars
    <3>2. CASE Reset(s)
      BY <1>1, <1>2, <2>1, <3>2 DEF Reset, mainVars
    <3>3. CASE Propose(s)
      BY <1>1, <1>2, <1>3, <2>1, <3>3 DEF Propose, Send, Proposal, sharedVars
    <3>4. CASE Forward(s)
      BY <1>1, <1>2, <2>1, <3>4 DEF Forward, sharedVars
    <3>5. CASE ReadAgain(s)
      BY <1>1, <1>2, <1>3, <2>1, <3>5 DEF ReadAgain, Send, Proposal, sharedVars
    <3>6. CASE Mine(s)
      <4>1. ELECTED # ELECTION
        BY DEF ELECTION, ELECTED
      <4> QED
        BY <1>1, <1>2, <2>1, <3>6, <4>1 DEF Mine, Send, Proposal, sharedVars
    <3>7. CASE Connect(s)
      BY <1>1, <1>2, <1>3, <3>7 DEF Connect, AfterSend
    <3>8. CASE Ends(s)
      BY <1>1, <1>2, <3>8 DEF Ends, Refused, Crash, Stop, sharedVars, mainVars
    <3>9. CASE Bind(s) \/ CheckElected(s)
      BY <1>1, <1>2, <3>9 DEF Bind, CheckElected, sharedVars, mainVars
    <3>10. CASE Accept(s)
      <4>1. socket[high] \in Seq(Sent(high, low)) /\ socket[high] # << >>
        BY <1>1, <1>2, <3>10 DEF Accept
      <4>2. /\ 1 \in 1 .. Len(socket[high]) /\ Head(socket[high]) = socket[high][1]
            /\ Head(socket[high]) \in Sent(high, low)
        BY <4>1
      <4>3. Head(socket[high]).type = ELECTION
        <5>1. Head(socket[high]) # Declared(Pid[high])
          BY <1>1, <4>2
        <5>2. Head(socket[high]).type \in {ELECTION, ELECTED}
              /\ (Head(socket[high]).type = ELECTED =>
                    Head(socket[high]) = Declared(Pid[high]))
          BY <4>2, MessageType
        <5> QED
          BY <5>1, <5>2
      <4>4. candidate_pid[high] = Pid[high] => DecodePid(Head(socket[high]).pid) = Pid[high]
        <5>1. candidate_pid[high] = Pid[high] => Head(socket[high]) = Proposal(Pid[high])
          BY <1>1, <4>2 DEF EchoOK
        <5>2. Proposal(Pid[high]).pid = EncodePid(Pid[high])
          BY DEF Proposal
        <5> QED
          BY <1>3, <5>1, <5>2
      <4> QED
        BY <1>1, <1>2, <4>3, <4>4, <3>10 DEF Accept, mainVars
    <3> QED
      BY <3>1, <3>2, <3>3, <3>4, <3>5, <3>6, <3>7, <3>8, <3>9, <3>10
         DEF MainThread, ReceiverThread, Walk, Ends
  <2> QED
    BY <1>4, <2>2 DEF HighOK
<1> QED
  BY <1>2, <1>5, <1>6

-----------------------------------------------------------------------------
LEMMA SettledStays ==
  ASSUME NEW high, NEW low, Pair(high, low), PairInv(high, low),
         NEW s \in Servers, MainThread(s) \/ ReceiverThread(s) \/ Crash(s),
         \/ Settled(high, low)
         \/ /\ sending[low] # Proposal(Pid[high])
            /\ sending'[low] = Proposal(Pid[high])
  PROVE  Settled(high, low)'
<1>1. Types(high, low) /\ LowOK(high, low)
  BY DEF PairInv
<1>2. /\ high \in Servers /\ low \in Servers /\ high # low /\ (s = high \/ s = low)
      /\ Pid[high] \in Int /\ Pid[low] \in Int /\ 0 < Pid[low] /\ Pid[low] < Pid[high]
  BY PairFacts
<1>3. /\ DecodePid(EncodePid(Pid[high])) = Pid[high]
      /\ Proposal(Pid[high]) # Proposal(Pid[low])
      /\ Nothing # Proposal(Pid[low]) /\ Nothing # Proposal(Pid[high])
  BY PairWire DEF Sent
<1>4. CASE s = high
  BY <1>2, <1>4, Elsewhere DEF Settled
<1>5. CASE s = low
  <2> USE <1>5 DEF Types, Goto, At
  <2>1. CASE Walk(s)
    BY <1>1, <1>2, <2>1 DEF Walk, Start, AwaitBound, Loop, Look, Compare, SecondRound,
       sharedVars, mainVars, Settled
  <2>2. CASE Reset(s)
    BY <1>1, <1>2, <2>2 DEF Reset, mainVars, Settled
  <2>3. CASE Propose(s)
    BY <1>1, <1>2, <1>3, <2>3 DEF Propose, Send, Proposal, sharedVars, Settled
  <2>4. CASE Forward(s)
    BY <1>1, <1>2, <2>4 DEF Forward, sharedVars, Settled
  <2>5. CASE ReadAgain(s)
    <3>1. candidate_pid[low] = Pid[high]
      BY <1>1, <2>5 DEF ReadAgain, LowOK
    <3> QED
      BY <1>1, <1>2, <1>3, <3>1, <2>5 DEF ReadAgain, Send, Proposal, sharedVars, Settled
  <2>6. CASE Mine(s)
    BY <1>1, <1>2, <2>6 DEF Mine, sharedVars, Settled, LowOK
  <2>7. CASE Connect(s)
    BY <1>1, <1>2, <1>3, <2>7 DEF Connect, AfterSend, Settled
  <2>8. CASE Ends(s)
    BY <1>1, <1>2, <2>8 DEF Ends, Refused, Crash, Stop, sharedVars, mainVars, Settled
  <2>9. CASE Bind(s) \/ CheckElected(s)
    BY <1>1, <1>2, <2>9 DEF Bind, CheckElected, sharedVars, mainVars, Settled
  <2>10. CASE Accept(s)
    <3>1. socket[low] \in Seq(Sent(high, low)) /\ socket[low] # << >>
      BY <1>1, <1>2, <2>10 DEF Accept
    <3>2. /\ 1 \in 1 .. Len(socket[low]) /\ Head(socket[low]) = socket[low][1]
          /\ Head(socket[low]) \in Sent(high, low)
      BY <3>1
    <3>3. Head(socket[low]).type = ELECTION => DecodePid(Head(socket[low]).pid) = Pid[high]
      BY <1>1, <1>3, <3>2, MessageType DEF LowOK
    <3> QED
      BY <1>1, <1>2, <3>3, <2>10 DEF Accept, mainVars, Settled
  <2> QED
    BY <2>1, <2>2, <2>3, <2>4, <2>5, <2>6, <2>7, <2>8, <2>9, <2>10
       DEF MainThread, ReceiverThread, Walk, Ends
<1> QED
  BY <1>2, <1>4, <1>5

LEMMA EchoStep ==
  ASSUME NEW high, NEW low, Pair(high, low), PairInv(high, low),
         NEW s \in Servers, MainThread(s) \/ ReceiverThread(s) \/ Crash(s)
  PROVE  EchoOK(high, low)'
<1>1. Types(high, low) /\ LowOK(high, low) /\ HighOK(high, low) /\ EchoOK(high, low)
  BY DEF PairInv
<1>2. /\ high \in Servers /\ low \in Servers /\ high # low /\ (s = high \/ s = low)
      /\ Pid[high] \in Int /\ Pid[low] \in Int /\ 0 < Pid[low] /\ Pid[low] < Pid[high]
      /\ Neighbour(high) = low /\ Neighbour(low) = high
  BY PairFacts
<1>3. /\ DecodePid(EncodePid(Pid[high])) = Pid[high]
      /\ DecodePid(EncodePid(Pid[low])) = Pid[low]
      /\ Nothing \notin Sent(high, low)
  BY PairWire
<1>4. socket[high] \in Seq(Sent(high, low))
  BY <1>1, <1>2 DEF Types
<1>5. Settled(high, low) => Settled(high, low)'
  BY SettledStays
\* What low sends once it is settled can only be high's own pid.
<1>6. ASSUME Settled(high, low), Connect(low)
      PROVE  sending[low] = Proposal(Pid[high])
  <2>1. sending[low] \in Sent(high, low)
    BY <1>1, <1>2, <1>3, <1>6 DEF Connect, At, Types
  <2> QED
    BY <1>1, <1>6, <2>1 DEF Sent, Settled, LowOK
<1>7. sending'[low] = Proposal(Pid[high]) => Settled(high, low)'
  BY <1>1, SettledStays DEF EchoOK
<1>8. candidate_pid'[high] = Pid[high] =>
        /\ Settled(high, low)'
        /\ \A k \in 1 .. Len(socket'[high]) : socket'[high][k] = Proposal(Pid[high])
  <2>1. ASSUME candidate_pid'[high] = Pid[high]
        PROVE  /\ Settled(high, low)
               /\ \A k \in 1 .. Len(socket[high]) : socket[high][k] = Proposal(Pid[high])
    <3>1. CASE candidate_pid[high] = Pid[high]
      BY <1>1, <3>1 DEF EchoOK
    <3>2. CASE candidate_pid[high] # Pid[high]
      <4>1. Accept(s) /\ s = high
        <5>1. s = high
          BY <1>2, <2>1, <3>2, Elsewhere
        <5>2. CASE Walk(s) \/ Propose(s) \/ Forward(s) \/ ReadAgain(s) \/ Mine(s) \/ Connect(s)
                   \/ Ends(s) \/ Bind(s) \/ CheckElected(s)
          BY <2>1, <3>2, <5>2 DEF Walk, Start, AwaitBound, Loop, Look, Compare, SecondRound,
             Propose, Forward, ReadAgain, Mine, Connect, Ends, Refused, Crash, Stop, Bind,
             CheckElected, sharedVars
        <5>3. CASE Reset(s)
          BY <1>1, <1>2, <2>1, <5>1, <5>3 DEF Reset, Types
        <5> QED
          BY <5>1, <5>2, <5>3 DEF MainThread, ReceiverThread, Walk, Ends
      <4>2. socket[high] # << >>
        BY <4>1 DEF Accept
      <4>3. /\ 1 \in 1 .. Len(socket[high]) /\ Head(socket[high]) = socket[high][1]
            /\ Head(socket[high]) \in Sent(high, low)
        BY <1>4, <4>2
      <4>4. /\ Head(socket[high]).type = ELECTION
            /\ DecodePid(Head(socket[high]).pid) = Pid[high]
        BY <1>1, <1>2, <2>1, <3>2, <4>1 DEF Accept, Types
      <4>5. Head(socket[high]) = Proposal(Pid[high])
        BY <1>2, <1>3, <4>3, <4>4, MessageType
      <4> QED
        BY <1>1, <4>3, <4>5 DEF EchoOK
    <3> QED
      BY <3>1, <3>2
  <2>2. ASSUME Settled(high, low),
               \A k \in 1 .. Len(socket[high]) : socket[high][k] = Proposal(Pid[high]),
               NEW k \in 1 .. Len(socket'[high])
        PROVE  socket'[high][k] = Proposal(Pid[high])
    <3>q. \/ \E j \in 1 .. Len(socket[high]) : socket'[high][k] = socket[high][j]
          \/ Connect(s) /\ high = Neighbour(s) /\ socket'[high][k] = sending[s]
      BY <1>2, <2>2, Queued
    <3>1. CASE \E j \in 1 .. Len(socket[high]) : socket'[high][k] = socket[high][j]
      BY <2>2, <3>1
    <3>2. CASE Connect(s) /\ high = Neighbour(s) /\ socket'[high][k] = sending[s]
      <4>1. s = low
        BY <1>2, <3>2
      <4> QED
        BY <1>6, <2>2, <3>2, <4>1
    <3> QED
      BY <3>q, <3>1, <3>2
  <2> QED
    BY <1>5, <2>1, <2>2
<1>9. ASSUME NEW k \in 1 .. Len(socket'[high]), socket'[high][k] = Proposal(Pid[high])
      PROVE  /\ Settled(high, low)'
             /\ \A j \in k .. Len(socket'[high]) : socket'[high][j] = Proposal(Pid[high])
  <2>1. CASE socket'[high] = socket[high]
    BY <1>1, <1>5, <1>9, <2>1 DEF EchoOK
  <2>2. CASE socket'[high] = << >>
    <3>1. k \in 1 .. 0
      BY <2>2, <1>9
    <3> QED
      BY <3>1
  <2>3. CASE socket[high] # << >> /\ socket'[high] = Tail(socket[high])
    <3>1. Len(socket'[high]) = Len(socket[high]) - 1 /\ Len(socket[high]) \in Nat
      BY <1>4, <2>3
    <3>2. \A j \in 1 .. Len(socket'[high]) :
            /\ j + 1 \in 1 .. Len(socket[high])
            /\ socket'[high][j] = socket[high][j + 1]
      BY <1>4, <2>3, <3>1
    <3>3. /\ Settled(high, low)
          /\ \A j \in k + 1 .. Len(socket[high]) : socket[high][j] = Proposal(Pid[high])
      BY <1>1, <1>9, <3>2 DEF EchoOK
    <3>4. \A j \in k .. Len(socket'[high]) :
            j \in 1 .. Len(socket'[high]) /\ j + 1 \in k + 1 .. Len(socket[high])
      BY <3>1
    <3> QED
      BY <1>5, <3>2, <3>3, <3>4
  <2>4. CASE Connect(low) /\ socket'[high] = Append(socket[high], sending[low])
    <3>1. Len(socket'[high]) = Len(socket[high]) + 1 /\ Len(socket[high]) \in Nat
      BY <1>4, <2>4
    <3>2. /\ \A j \in 1 .. Len(socket[high]) : socket'[high][j] = socket[high][j]
          /\ socket'[high][Len(socket[high]) + 1] = sending[low]
      BY <1>4, <2>4
    <3>3. Settled(high, low) /\ \A j \in k .. Len(socket[high]) :
                                   socket[high][j] = Proposal(Pid[high])
      <4>1. CASE k \in 1 .. Len(socket[high])
        BY <1>1, <1>9, <3>2, <4>1 DEF EchoOK
      <4>2. CASE k = Len(socket[high]) + 1
        <5>1. sending[low] = Proposal(Pid[high])
          BY <1>9, <3>2, <4>2
        <5>2. k .. Len(socket[high]) = {}
          BY <3>1, <4>2
        <5> QED
          BY <1>1, <5>1, <5>2 DEF EchoOK
      <4> QED
        BY <3>1, <4>1, <4>2
    <3>4. sending[low] = Proposal(Pid[high])
      BY <1>6, <2>4, <3>3
    <3>5. \A j \in k .. Len(socket'[high]) :
            \/ j \in 1 .. Len(socket[high]) /\ j \in k .. Len(socket[high])
            \/ j = Len(socket[high]) + 1
      BY <3>1
    <3> QED
      BY <1>5, <3>2, <3>3, <3>4, <3>5
  <2> QED
    <3>1. /\ socket \in [Servers -> Seq(Sent(high, low))]
          /\ Accept(s) => socket[s] # << >>
      BY <1>1 DEF Types, Accept
    <3>2. CASE s = high
      BY <1>2, <2>1, <2>2, <2>3, <3>1, <3>2, Queues
    <3>3. CASE s = low
      BY <1>2, <2>1, <2>4, <3>1, <3>3, Queues
    <3> QED
      BY <1>2, <3>2, <3>3
<1> QED
  BY <1>7, <1>8, <1>9 DEF EchoOK

-----------------------------------------------------------------------------
LEMMA InitPairInv ==
  ASSUME NEW high, NEW low, Pair(high, low), Init
  PROVE  PairInv(high, low)
<1>1. /\ high \in Servers /\ low \in Servers /\ high # low
      /\ Pid[high] \in Int /\ Pid[low] \in Int /\ 0 < Pid[low] /\ Pid[low] < Pid[high]
  BY PairFacts
<1>2. /\ Nothing \notin Sent(high, low)
      /\ Proposal(Pid[high]) \in Sent(high, low) /\ Proposal(Pid[low]) \in Sent(high, low)
      /\ Declared(Pid[high]) \in Sent(high, low)
  BY PairWire DEF Sent
<1>3. /\ << >> \in Seq(Sent(high, low)) /\ Len(<< >>) = 0 /\ Backlog \in Nat
      /\ 1 .. 0 = {}
  BY ElectionAssumption
<1>4. Types(high, low)
  BY <1>1, <1>3 DEF Init, Types, Statements
<1>5. LowOK(high, low) /\ HighOK(high, low) /\ EchoOK(high, low)
  BY <1>1, <1>2, <1>3 DEF Init, LowOK, HighOK, EchoOK
<1> QED
  BY <1>4, <1>5 DEF PairInv

LEMMA PairStep ==
  ASSUME NEW high, NEW low, Pair(high, low), PairInv(high, low), [Next]_vars
  PROVE  PairInv(high, low)'
<1>1. CASE \E s \in Servers : MainThread(s) \/ ReceiverThread(s) \/ Crash(s)
  <2>1. PICK s \in Servers : MainThread(s) \/ ReceiverThread(s) \/ Crash(s)
    BY <1>1
  <2> QED
    BY <2>1, TypesStep, LowStep, HighStep, EchoStep DEF PairInv
<1>2. CASE UNCHANGED vars
  BY <1>2 DEF vars, sharedVars, mainVars, PairInv, Types, LowOK, HighOK, EchoOK, Settled
<1> QED
  BY <1>1, <1>2 DEF Next, Over

LEMMA PairHolds ==
  ASSUME NEW high, NEW low, Pair(high, low)
  PROVE  Spec => []PairInv(high, low)
<1>1. Init => PairInv(high, low)
  BY InitPairInv
<1>2. PairInv(high, low) /\ [Next]_vars => PairInv(high, low)'
  BY PairStep
<1> QED
  BY <1>1, <1>2, PTL DEF Spec

(***************************************************************************)
(* The invariant is stronger than the model's own: what is sent and heard  *)
(* is a message, and what is kept of it a pid.                             *)
(***************************************************************************)
THEOREM PairTypeCorrect ==
  ASSUME NEW high, NEW low, Pair(high, low)
  PROVE  Spec => []TypeOK
<1>1. Pid[high] \in Pids /\ Pid[low] \in Pids /\ 0 \in Pids
  <2>1. high \in Servers /\ low \in Servers
    BY PairFacts
  <2>2. MaxPid \in Nat
    BY DEF MaxPid
  <2>3. 0 \in Pids
    BY <2>2 DEF Pids
  <2> QED
    BY <2>1, <2>3, ElectionAssumption
<1>2. Sent(high, low) \subseteq Message
  <2>1. \A pid \in Pids : EncodePid(pid) \in Seq(0 .. 255)
    BY DEF EncodePid, Pids
  <2> QED
    BY <1>1, <2>1 DEF Sent, Proposal, Declared, Message
<1>3. \A p \in Pids : p \in -1 .. MaxPid
  BY DEF Pids
<1>4. -1 \in -1 .. MaxPid
  <2>1. MaxPid \in Nat
    BY DEF MaxPid
  <2> QED
    BY <2>1
<1>5. Seq(Sent(high, low)) \subseteq Seq(Message)
  BY <1>2
<1>6. Types(high, low) => TypeOK
  <2>1. SUFFICES ASSUME Types(high, low)
                 PROVE  TypeOK
    OBVIOUS
  <2>2. /\ pc \in [Servers -> Statements]
        /\ receiver \in [Servers -> {"none", "bind", "check", "accept", "closed"}]
        /\ leader_elected \in [Servers -> BOOLEAN]
        /\ participant \in [Servers -> BOOLEAN]
        /\ \A s \in Servers : Len(socket[s]) <= Backlog
        /\ overwritten \subseteq Servers
    BY <2>1 DEF Types
  <2>3. candidate_pid \in [Servers -> Pids]
    BY <1>1, <2>1 DEF Types
  <2>4. leader_pid \in [Servers -> -1 .. MaxPid]
    BY <1>1, <1>3, <1>4, <2>1 DEF Types
  <2>5. sending \in [Servers -> Message \cup {Nothing}]
    BY <1>2, <2>1 DEF Types
  <2>6. socket \in [Servers -> Seq(Message)]
    BY <1>5, <2>1 DEF Types
  <2> QED
    BY <2>2, <2>3, <2>4, <2>5, <2>6 DEF TypeOK, Statements
<1> QED
  BY <1>6, PairHolds, PTL DEF PairInv

(***************************************************************************)
(* Of two backups that elect, one at most promotes itself, whatever their  *)
(* pids below 2^15 and the sizes of their queues.                          *)
(***************************************************************************)
THEOREM PairHasOneLeader ==
  ASSUME NEW high, NEW low, Pair(high, low)
  PROVE  Spec => []AtMostOneLeader
<1>1. PairInv(high, low) => AtMostOneLeader
  BY PairFacts DEF PairInv, LowOK, AtMostOneLeader, At
<1> QED
  BY <1>1, PairHolds, PTL

(***************************************************************************)
(* Of two backups, the one that goes back to being a backup is the one of  *)
(* the lower pid, and the other has declared itself.                       *)
(***************************************************************************)
THEOREM PairLosersDefer ==
  ASSUME NEW high, NEW low, Pair(high, low)
  PROVE  Spec => []LosersDefer
<1>1. PairInv(high, low) => LosersDefer
  <2>1. SUFFICES ASSUME PairInv(high, low), NEW s \in Servers, pc[s] = "backup"
                 PROVE  \E t \in Servers : Pid[t] > Pid[s] /\ leader_elected[t]
    BY DEF LosersDefer, At
  <2>2. s = low /\ high \in Servers /\ Pid[high] > Pid[low]
    BY <2>1, PairFacts DEF PairInv, HighOK
  <2>3. leader_elected[high]
    BY <2>1, <2>2 DEF PairInv, LowOK
  <2> QED
    BY <2>2, <2>3
<1> QED
  BY <1>1, PairHolds, PTL

-----------------------------------------------------------------------------
(***************************************************************************)
(* Any number of backups of one list, whose ports are different: all but   *)
(* the head of the list call the head, and the head calls the second.      *)
(***************************************************************************)
Star(head, second) ==
  /\ head \in Servers /\ second \in Servers /\ head # second
  /\ \A s \in Servers : /\ Peers(s) # << >>
                        /\ Neighbour(s) = IF s = head THEN second ELSE head
                        /\ Pid[s] \in LowPids
  /\ \A s, t \in Servers : Pid[s] = Pid[t] => s = t

(***************************************************************************)
(* A forwarding server reads candidate_pid after it has compared it, and   *)
(* may find the pid of a third: no step forwards a pid below its own.      *)
(***************************************************************************)
ForwardsHigher ==
  \A s \in Servers : ReadAgain(s) => Pid[s] <= candidate_pid[s]

StarPids == {Pid[s] : s \in Servers}

StarSent == {Proposal(p) : p \in StarPids} \cup {Declared(p) : p \in StarPids}

\* Head and second hear the others; the higher of the two may win.
Wins(s, head, second) ==
  \/ s = head /\ Pid[second] < Pid[head]
  \/ s = second /\ Pid[head] < Pid[second]

Beaten(s) == \E t \in Servers : leader_elected[t] /\ Pid[s] < Pid[t]

StarTypes ==
  /\ pc \in [Servers -> Statements]
  /\ candidate_pid \in [Servers -> {0} \cup StarPids]
  /\ leader_elected \in [Servers -> BOOLEAN]
  /\ leader_pid \in [Servers -> {-1, 0} \cup StarPids]
  /\ sending \in [Servers -> StarSent \cup {Nothing}]
  /\ \A s \in Servers : pc[s] = "connect" => sending[s] # Nothing
  /\ socket \in [Servers -> Seq(StarSent)]

\* Nobody calls the others, so they have no pid to forward.
Unheard(head, second) ==
  \A s \in Servers \ {head, second} : candidate_pid[s] = 0 /\ socket[s] = << >>

\* Whatever s has from its own pid, it has because it wins.
MainOK(s, head, second) ==
  /\ pc[s] \in {"forward", "read_again", "mine"} => candidate_pid[s] # 0
  /\ candidate_pid[s] = Pid[s] => Wins(s, head, second)
  /\ leader_pid[s] = Pid[s] => Wins(s, head, second)
  /\ sending[s].type = ELECTED => Wins(s, head, second)
  /\ sending[s].type = ELECTION =>
       \/ sending[s] = Proposal(Pid[s])
       \/ /\ s \in {head, second}
          /\ \E p \in StarPids : Pid[s] < p /\ sending[s] = Proposal(p)
  /\ leader_elected[s] =>
       \/ leader_pid[s] = Pid[s] /\ pc[s] \in {"loop", "second_round", "leader", "dead"}
       \/ Beaten(s)
  /\ pc[s] \in {"second_round", "backup"} => leader_elected[s]
  /\ pc[s] = "leader" => leader_pid[s] = Pid[s]

SocketOK(s, head, second) ==
  \A k \in 1 .. Len(socket[s]) :
    /\ socket[s][k] = Proposal(Pid[s]) => Wins(s, head, second)
    /\ socket[s][k].type = ELECTED => Beaten(s)

StarInv(head, second) ==
  /\ StarTypes
  /\ Unheard(head, second)
  /\ \A s \in Servers : MainOK(s, head, second) /\ SocketOK(s, head, second)

LEMMA StarFacts ==
  ASSUME NEW head, NEW second, Star(head, second)
  PROVE  /\ head \in Servers /\ second \in Servers /\ head # second
         /\ \A s \in Servers : /\ Pid[s] \in Int /\ 0 < Pid[s] /\ Pid[s] \in StarPids
                               /\ Neighbour(s) = (IF s = head THEN second ELSE head)
                               /\ Neighbour(s) \in Servers /\ Neighbour(s) # s
                               /\ Peers(s) # << >>
         /\ \A s, t \in Servers : Pid[s] = Pid[t] => s = t
         /\ \A p \in StarPids : p \in Int /\ 0 < p
<1>1. \A s \in Servers : Pid[s] \in Int /\ 0 < Pid[s] /\ Pid[s] \in StarPids
  BY ElectionAssumption DEF Pids, StarPids
<1> QED
  BY <1>1 DEF Star, StarPids

\* Different pids are different proposals, and arrive as they were sent.
LEMMA StarWire ==
  ASSUME NEW head, NEW second, Star(head, second)
  PROVE  /\ \A p \in StarPids : DecodePid(EncodePid(p)) = p
         /\ \A p, q \in StarPids : Proposal(p) = Proposal(q) => p = q
         /\ \A p : /\ Proposal(p).type = ELECTION /\ Declared(p).type = ELECTED
                   /\ Proposal(p).pid = EncodePid(p)
         /\ \A m \in StarSent : \/ m.type = ELECTED
                                \/ m.type = ELECTION /\ \E p \in StarPids : m = Proposal(p)
         /\ ELECTION # ELECTED
         /\ Nothing.type \notin {ELECTION, ELECTED}
         /\ Nothing \notin StarSent
<1>1. \A p \in StarPids : DecodePid(EncodePid(p)) = p
  <2>1. StarPids \subseteq LowPids
    BY DEF Star, StarPids
  <2> QED
    BY <2>1, LowPidArrives
<1>2. \A p : /\ Proposal(p).type = ELECTION /\ Declared(p).type = ELECTED
             /\ Proposal(p).pid = EncodePid(p)
  BY DEF Proposal, Declared
<1>3. \A p, q \in StarPids : Proposal(p) = Proposal(q) => p = q
  BY <1>1, <1>2
<1>4. ELECTION # ELECTED /\ Nothing.type \notin {ELECTION, ELECTED}
  BY DEF ELECTION, ELECTED, Nothing
<1>5. \A m \in StarSent : \/ m.type = ELECTED
                          \/ m.type = ELECTION /\ \E p \in StarPids : m = Proposal(p)
  BY <1>2 DEF StarSent
<1> QED
  BY <1>1, <1>2, <1>3, <1>4, <1>5

LEMMA StarShape ==
  ASSUME NEW head, NEW second, Star(head, second), StarTypes
  PROVE  Shape(StarSent)
<1>1. \A p \in {-1, 0} \cup StarPids : p \in Int
  <2>1. \A p \in StarPids : p \in Int
    BY StarFacts
  <2> QED
    BY <2>1
<1> QED
  BY <1>1 DEF StarTypes, Shape

LEMMA StarTypesStep ==
  ASSUME NEW head, NEW second, Star(head, second), StarInv(head, second),
         NEW s \in Servers, MainThread(s) \/ ReceiverThread(s) \/ Crash(s)
  PROVE  StarTypes'
<1>t. StarTypes
  BY DEF StarInv
<1>p. Pid[s] \in StarPids /\ Neighbour(s) \in Servers
  BY StarFacts
<1>w. /\ \A p \in StarPids : /\ Proposal(p) \in StarSent /\ Declared(p) \in StarSent
                             /\ Proposal(p) # Nothing /\ Declared(p) # Nothing
      /\ \A p \in StarPids : DecodePid(EncodePid(p)) = p
  BY StarWire DEF StarSent
<1> USE DEF StarTypes, Goto, At
<1>1. CASE Walk(s)
  BY <1>t, <1>1, ZenonT(30) DEF Walk, Start, AwaitBound, Loop, Look, Compare, SecondRound,
     Statements, sharedVars, mainVars
<1>2. CASE Reset(s)
  BY <1>t, <1>2 DEF Reset, Statements, mainVars
<1>3. CASE Propose(s)
  BY <1>t, <1>p, <1>w, <1>3 DEF Propose, Send, Statements, Proposal, sharedVars
<1>4. CASE Forward(s)
  BY <1>t, <1>4 DEF Forward, Statements, sharedVars
<1>5. CASE ReadAgain(s)
  <2>1. candidate_pid[s] \in StarPids
    BY <1>t, <1>5 DEF ReadAgain, StarInv, MainOK
  <2> QED
    BY <1>t, <1>w, <1>5, <2>1 DEF ReadAgain, Send, Statements, Proposal, sharedVars
<1>6. CASE Mine(s)
  BY <1>t, <1>p, <1>w, <1>6 DEF Mine, Send, Statements, Declared, sharedVars
<1>7. CASE Connect(s)
  <2>1. sending[s] \in StarSent
    BY <1>t, <1>7 DEF Connect
  <2>2. Append(socket[Neighbour(s)], sending[s]) \in Seq(StarSent)
    BY <1>t, <1>p, <2>1
  <2>3. socket' \in [Servers -> Seq(StarSent)]
    BY <1>t, <1>7, <2>2 DEF Connect
  <2>4. /\ leader_elected' \in [Servers -> BOOLEAN]
        /\ leader_pid' \in [Servers -> {-1, 0} \cup StarPids]
    BY <1>t, <1>p, <1>7 DEF Connect, AfterSend
  <2>5. /\ pc' = [pc EXCEPT ![s] = "loop"]
        /\ sending' = [sending EXCEPT ![s] = Nothing]
        /\ UNCHANGED candidate_pid
    BY <1>7 DEF Connect
  <2> QED
    BY <1>t, <2>3, <2>4, <2>5 DEF Statements
<1>8. CASE Ends(s)
  <2>1. << >> \in Seq(StarSent)
    OBVIOUS
  <2> QED
    BY <1>t, <1>8, <2>1 DEF Ends, Refused, Crash, Stop, Statements, sharedVars, mainVars
<1>9. CASE Bind(s)
  BY <1>t, <1>9 DEF Bind, sharedVars, mainVars
<1>10. CASE CheckElected(s)
  <2>1. << >> \in Seq(StarSent)
    OBVIOUS
  <2> QED
    BY <1>t, <1>10, <2>1 DEF CheckElected, sharedVars, mainVars
<1>11. CASE Accept(s)
  <2>1. socket[s] \in Seq(StarSent) /\ socket[s] # << >>
    BY <1>t, <1>11 DEF Accept
  <2>2. Head(socket[s]) \in StarSent /\ Tail(socket[s]) \in Seq(StarSent)
    BY <2>1
  <2>3. Head(socket[s]).type = ELECTION => DecodePid(Head(socket[s]).pid) \in StarPids
    BY <2>2, StarWire
  <2> QED
    BY <1>t, <1>11, <2>2, <2>3 DEF Accept, mainVars
<1> QED
  BY <1>1, <1>2, <1>3, <1>4, <1>5, <1>6, <1>7, <1>8, <1>9, <1>10, <1>11
     DEF MainThread, ReceiverThread, Walk, Ends

\* An election that is over for one server stays over.
LEMMA ElectedStays ==
  ASSUME StarTypes, NEW s \in Servers, MainThread(s) \/ ReceiverThread(s) \/ Crash(s)
  PROVE  /\ \A t \in Servers : leader_elected[t] => leader_elected'[t]
         /\ \A t \in Servers : Beaten(t) => Beaten(t)'
<1>1. \A t \in Servers : leader_elected[t] => leader_elected'[t]
  <2> USE DEF StarTypes
  <2>1. CASE Connect(s)
    BY <2>1 DEF Connect, AfterSend
  <2>2. CASE Accept(s)
    BY <2>2 DEF Accept
  <2>3. CASE ~ Connect(s) /\ ~ Accept(s)
    BY <2>3 DEF MainThread, ReceiverThread, Start, AwaitBound, Loop, Look, Compare, SecondRound,
       Reset, Propose, Forward, ReadAgain, Mine, Refused, Crash, Stop, Bind, CheckElected,
       sharedVars
  <2> QED
    BY <2>1, <2>2, <2>3
<1> QED
  BY <1>1 DEF Beaten

\* Another server's message is its own pid, or a higher one that it forwards.
LEMMA SocketStep ==
  ASSUME NEW head, NEW second, Star(head, second), StarInv(head, second),
         NEW s \in Servers, MainThread(s) \/ ReceiverThread(s) \/ Crash(s),
         NEW t \in Servers
  PROVE  SocketOK(t, head, second)'
<1>1. StarTypes /\ MainOK(s, head, second) /\ SocketOK(t, head, second)
  BY DEF StarInv
<1>2. SUFFICES ASSUME NEW k \in 1 .. Len(socket'[t])
               PROVE  /\ socket'[t][k] = Proposal(Pid[t]) => Wins(t, head, second)
                      /\ socket'[t][k].type = ELECTED => Beaten(t)'
  BY DEF SocketOK, Wins
<1>3. \/ \E j \in 1 .. Len(socket[t]) : socket'[t][k] = socket[t][j]
      \/ Connect(s) /\ t = Neighbour(s) /\ socket'[t][k] = sending[s]
  BY <1>1, StarFacts, StarShape, StepQueued
<1>4. CASE \E j \in 1 .. Len(socket[t]) : socket'[t][k] = socket[t][j]
  BY <1>1, <1>4, ElectedStays DEF SocketOK
<1>5. CASE Connect(s) /\ t = Neighbour(s) /\ socket'[t][k] = sending[s]
  <2>1. /\ t # s /\ Pid[t] # Pid[s] /\ Pid[t] \in StarPids /\ Pid[s] \in StarPids
        /\ Pid[s] \in Int /\ Pid[t] \in Int
        /\ t = IF s = head THEN second ELSE head
    BY <1>5, StarFacts
  <2>2. ASSUME sending[s] = Proposal(Pid[t])
        PROVE  Wins(t, head, second)
    <3>1. s \in {head, second} /\ \E p \in StarPids : Pid[s] < p /\ sending[s] = Proposal(p)
      BY <1>1, <2>1, <2>2, StarWire DEF MainOK
    <3>2. Pid[s] < Pid[t]
      BY <2>1, <2>2, <3>1, StarWire
    <3> QED
      BY <2>1, <3>1, <3>2 DEF Wins
  <2>3. ASSUME sending[s].type = ELECTED
        PROVE  Beaten(t)'
    <3>1. Pid[t] < Pid[s]
      BY <1>1, <2>1, <2>3, StarFacts DEF MainOK, Wins
    <3>2. leader_elected'[s]
      BY <1>1, <1>5, <2>3 DEF Connect, AfterSend, StarTypes
    <3> QED
      BY <3>1, <3>2 DEF Beaten
  <2> QED
    BY <1>5, <2>2, <2>3
<1> QED
  BY <1>3, <1>4, <1>5

LEMMA UnheardStep ==
  ASSUME NEW head, NEW second, Star(head, second), StarInv(head, second),
         NEW s \in Servers, MainThread(s) \/ ReceiverThread(s) \/ Crash(s)
  PROVE  Unheard(head, second)'
<1>1. StarTypes /\ Unheard(head, second)
  BY DEF StarInv
<1>2. SUFFICES ASSUME NEW t \in Servers \ {head, second}
               PROVE  candidate_pid'[t] = 0 /\ socket'[t] = << >>
  BY DEF Unheard
<1>3. candidate_pid[t] = 0 /\ socket[t] = << >>
  BY <1>1 DEF Unheard
<1>4. socket'[t] = << >>
  <2>1. Neighbour(s) # t
    BY StarFacts
  <2>2. ~ (Accept(s) /\ s = t)
    BY <1>3 DEF Accept
  <2> QED
    BY <1>1, <1>3, <2>1, <2>2, Queues DEF StarTypes
<1>5. candidate_pid'[t] = 0
  <2>1. CASE s # t
    BY <1>1, <1>3, <2>1, StarShape, StepElsewhere
  <2>2. CASE s = t
    <3>1. ~ Accept(s)
      BY <1>3, <2>2 DEF Accept
    <3>2. CASE Reset(s)
      BY <1>1, <1>3, <2>2, <3>2 DEF Reset, StarTypes
    <3>3. CASE ~ Reset(s)
      BY <1>3, <3>1, <3>3 DEF MainThread, ReceiverThread, Start, AwaitBound, Loop, Look,
         Compare, SecondRound, Propose, Forward, ReadAgain, Mine, Connect, Refused, Crash, Stop,
         Bind, CheckElected, sharedVars
    <3> QED
      BY <3>2, <3>3
  <2> QED
    BY <2>1, <2>2
<1> QED
  BY <1>4, <1>5

\* The step of another server: what s has is left alone.
LEMMA MainElsewhere ==
  ASSUME NEW head, NEW second, Star(head, second), StarInv(head, second),
         NEW s \in Servers, MainThread(s) \/ ReceiverThread(s) \/ Crash(s),
         NEW t \in Servers, t # s
  PROVE  MainOK(t, head, second)'
<1>1. StarTypes /\ MainOK(t, head, second)
  BY DEF StarInv
<1>2. /\ pc'[t] = pc[t] /\ candidate_pid'[t] = candidate_pid[t]
      /\ leader_elected'[t] = leader_elected[t] /\ leader_pid'[t] = leader_pid[t]
      /\ sending'[t] = sending[t]
  BY <1>1, StarShape, StepElsewhere
<1>3. Beaten(t) => Beaten(t)'
  BY <1>1, ElectedStays
<1> QED
  BY <1>1, <1>2, <1>3 DEF MainOK, Wins

LEMMA MainStep ==
  ASSUME NEW head, NEW second, Star(head, second), StarInv(head, second), ForwardsHigher,
         NEW s \in Servers, MainThread(s) \/ ReceiverThread(s) \/ Crash(s)
  PROVE  MainOK(s, head, second)'
<1>1. StarTypes /\ MainOK(s, head, second) /\ SocketOK(s, head, second)
  BY DEF StarInv
<1>2. /\ Pid[s] \in Int /\ 0 < Pid[s] /\ Pid[s] \in StarPids /\ Peers(s) # << >>
      /\ candidate_pid[s] \in {0} \cup StarPids
      /\ \A p \in StarPids : p \in Int /\ 0 < p
  BY <1>1, StarFacts DEF StarTypes
<1>3. Beaten(s) => Beaten(s)'
  BY <1>1, ElectedStays
<1>4. /\ ELECTION # ELECTED /\ Nothing.type \notin {ELECTION, ELECTED}
      /\ \A p : Proposal(p).type = ELECTION /\ Declared(p).type = ELECTED
  BY StarWire
<1>5. candidate_pid[s] # 0 => s \in {head, second}
  BY DEF StarInv, Unheard
<1> USE DEF StarTypes, MainOK, Wins, Goto, At
<1>a. CASE Start(s)
  BY <1>1, <1>2, <1>3, <1>a DEF Start, sharedVars, mainVars
<1>b. CASE AwaitBound(s) \/ Loop(s) \/ Look(s)
  BY <1>1, <1>2, <1>3, <1>b DEF AwaitBound, Loop, Look, sharedVars, mainVars
<1>c. CASE Compare(s)
  BY <1>1, <1>2, <1>3, <1>c DEF Compare, sharedVars, mainVars
<1>d. CASE SecondRound(s)
  BY <1>1, <1>2, <1>3, <1>d DEF SecondRound, sharedVars, mainVars
<1>e. CASE Reset(s)
  BY <1>1, <1>2, <1>3, <1>e DEF Reset, mainVars
<1>f. CASE Propose(s)
  BY <1>1, <1>2, <1>3, <1>4, <1>f DEF Propose, Send, Proposal, sharedVars
<1>g. CASE Forward(s)
  BY <1>1, <1>2, <1>3, <1>g DEF Forward, sharedVars
<1>h. CASE ReadAgain(s)
  <2>1. candidate_pid[s] \in StarPids /\ s \in {head, second} /\ Pid[s] <= candidate_pid[s]
    BY <1>1, <1>2, <1>5, <1>h DEF ReadAgain, ForwardsHigher
  <2>2. sending'[s] = Proposal(candidate_pid[s])
    BY <1>1, <1>h DEF ReadAgain, Send, Proposal
  <2>3. \/ sending'[s] = Proposal(Pid[s])
        \/ \E p \in StarPids : Pid[s] < p /\ sending'[s] = Proposal(p)
    <3>1. CASE candidate_pid[s] = Pid[s]
      BY <2>2, <3>1
    <3>2. CASE candidate_pid[s] # Pid[s]
      <4>1. candidate_pid[s] \in Int
        BY <1>2, <2>1
      <4>2. Pid[s] < candidate_pid[s]
        BY <1>2, <2>1, <3>2, <4>1
      <4> QED
        BY <2>1, <2>2, <4>2
    <3> QED
      BY <3>1, <3>2
  <2> QED
    BY <1>1, <1>2, <1>3, <1>4, <1>h, <2>1, <2>2, <2>3 DEF ReadAgain, sharedVars
<1>i. CASE Mine(s)
  <2>1. CASE candidate_pid[s] = Pid[s]
    <3>1. sending'[s] = Declared(Pid[s])
      BY <1>1, <1>i, <2>1 DEF Mine, Send, Declared
    <3> QED
      BY <1>1, <1>2, <1>3, <1>4, <1>i, <2>1, <3>1 DEF Mine, sharedVars
  <2>2. CASE candidate_pid[s] # Pid[s]
    BY <1>1, <1>2, <1>3, <1>i, <2>2 DEF Mine, sharedVars
  <2> QED
    BY <2>1, <2>2
<1>j. CASE Connect(s)
  BY <1>1, <1>2, <1>3, <1>4, <1>j DEF Connect, AfterSend
<1>k. CASE Ends(s)
  BY <1>1, <1>2, <1>3, <1>k DEF Ends, Refused, Crash, Stop, sharedVars, mainVars
<1>l. CASE Bind(s) \/ CheckElected(s)
  BY <1>1, <1>2, <1>3, <1>l DEF Bind, CheckElected, sharedVars, mainVars
<1>m. CASE Accept(s)
  <2>1. socket[s] \in Seq(StarSent) /\ socket[s] # << >>
    BY <1>1, <1>m DEF Accept
  <2>2. /\ Head(socket[s]) \in StarSent /\ Head(socket[s]) = socket[s][1]
        /\ 1 \in 1 .. Len(socket[s])
    BY <2>1
  <2>3. CASE Head(socket[s]).type = ELECTION
    <3>1. PICK p \in StarPids : Head(socket[s]) = Proposal(p)
      BY <1>4, <2>2, <2>3, StarWire
    <3>2. DecodePid(Head(socket[s]).pid) = p
      BY <3>1, StarWire
    <3>3. candidate_pid'[s] = p /\ leader_elected' = leader_elected
      BY <1>1, <1>m, <2>3, <3>2 DEF Accept
    <3>4. p = Pid[s] => Wins(s, head, second)
      BY <1>1, <2>2, <3>1 DEF SocketOK
    <3> QED
      BY <1>1, <1>2, <1>3, <1>m, <3>3, <3>4 DEF Accept, mainVars
  <2>4. CASE Head(socket[s]).type # ELECTION
    <3>1. Beaten(s)
      BY <1>1, <2>2, <2>4, StarWire DEF SocketOK
    <3>2. leader_elected'[s] /\ candidate_pid' = candidate_pid
      BY <1>1, <1>m, <2>4 DEF Accept
    <3> QED
      BY <1>1, <1>2, <1>3, <1>m, <3>1, <3>2 DEF Accept, mainVars
  <2> QED
    BY <2>3, <2>4
<1> QED
  BY <1>a, <1>b, <1>c, <1>d, <1>e, <1>f, <1>g, <1>h, <1>i, <1>j, <1>k, <1>l, <1>m
     DEF MainThread, ReceiverThread, Ends

LEMMA StarHolds ==
  ASSUME NEW head, NEW second, Star(head, second)
  PROVE  Spec /\ [][ForwardsHigher]_vars => []StarInv(head, second)
<1>1. Init => StarInv(head, second)
  <2>1. \A s \in Servers : 0 # Pid[s] /\ -1 # Pid[s]
    BY StarFacts
  <2>2. Nothing.type \notin {ELECTION, ELECTED} /\ 1 .. Len(<< >>) = {}
    BY StarWire
  <2>3. << >> \in Seq(StarSent)
    OBVIOUS
  <2> QED
    BY <2>1, <2>2, <2>3 DEF Init, StarInv, StarTypes, Statements, Unheard, MainOK, SocketOK
<1>2. ASSUME StarInv(head, second), [Next]_vars, [ForwardsHigher]_vars
      PROVE  StarInv(head, second)'
  <2>1. CASE UNCHANGED vars
    BY <1>2, <2>1 DEF vars, sharedVars, mainVars, StarInv, StarTypes, Unheard, MainOK, SocketOK,
       Wins, Beaten
  <2>2. ASSUME vars' # vars
        PROVE  StarInv(head, second)'
    <3>1. PICK s \in Servers : MainThread(s) \/ ReceiverThread(s) \/ Crash(s)
      BY <1>2, <2>2 DEF Next, Over
    <3>2. ForwardsHigher
      BY <1>2, <2>2
    <3>3. StarTypes' /\ Unheard(head, second)'
      BY <1>2, <3>1, StarTypesStep, UnheardStep
    <3>4. \A t \in Servers : SocketOK(t, head, second)'
      BY <1>2, <3>1, SocketStep
    <3>5. \A t \in Servers : MainOK(t, head, second)'
      BY <1>2, <3>1, <3>2, MainStep, MainElsewhere
    <3> QED
      BY <3>3, <3>4, <3>5 DEF StarInv
  <2> QED
    BY <2>1, <2>2
<1> QED
  BY <1>1, <1>2, PTL DEF Spec

(***************************************************************************)
(* However many backups elect, with different pids below 2^15 and          *)
(* different ports, one at most promotes itself, as long as no server that *)
(* reads candidate_pid again forwards a pid below its own.  Nothing else   *)
(* that the threads interleave, and no crash, makes a second leader.       *)
(***************************************************************************)
THEOREM StarHasOneLeader ==
  ASSUME NEW head, NEW second, Star(head, second)
  PROVE  Spec /\ [][ForwardsHigher]_vars => []AtMostOneLeader
<1>1. StarInv(head, second) => AtMostOneLeader
  <2>1. SUFFICES ASSUME StarInv(head, second), NEW s \in Servers, NEW t \in Servers,
                        pc[s] = "leader", pc[t] = "leader"
                 PROVE  s = t
    BY DEF AtMostOneLeader, At
  <2>2. Wins(s, head, second) /\ Wins(t, head, second)
    BY <2>1 DEF StarInv, MainOK
  <2>3. ~ (Pid[head] < Pid[second] /\ Pid[second] < Pid[head])
    BY StarFacts
  <2> QED
    BY <2>2, <2>3 DEF Wins
<1> QED
  BY <1>1, StarHolds, PTL

(***************************************************************************)
(* However many backups elect, under the same condition, the one that goes *)
(* back to being a backup has lost to a server of a higher pid that        *)
(* declared itself or heard the declaration.                               *)
(***************************************************************************)
THEOREM StarLosersDefer ==
  ASSUME NEW head, NEW second, Star(head, second)
  PROVE  Spec /\ [][ForwardsHigher]_vars => []LosersDefer
<1>1. StarInv(head, second) => LosersDefer
  <2>1. SUFFICES ASSUME StarInv(head, second), NEW s \in Servers, pc[s] = "backup"
                 PROVE  \E t \in Servers : Pid[t] > Pid[s] /\ leader_elected[t]
    BY DEF LosersDefer, At
  <2>2. Beaten(s)
    BY <2>1 DEF StarInv, MainOK
  <2> QED
    BY <2>2, StarFacts DEF Beaten
<1> QED
  BY <1>1, StarHolds, PTL

(***************************************************************************)
(* Of two backups neither ever forwards a pid below its own: a pid the     *)
(* second reading can find is the one that was compared.                   *)
(***************************************************************************)
THEOREM PairForwardsHigher ==
  ASSUME NEW high, NEW low, Pair(high, low)
  PROVE  Spec => [][ForwardsHigher]_vars
<1>1. PairInv(high, low) => ForwardsHigher
  <2>1. SUFFICES ASSUME PairInv(high, low), NEW s \in Servers, ReadAgain(s)
                 PROVE  Pid[s] <= candidate_pid[s]
    BY DEF ForwardsHigher
  <2>2. pc[s] = "read_again"
    BY <2>1 DEF ReadAgain, At
  <2>3. candidate_pid[s] = Pid[high]
    BY <2>1, <2>2, PairFacts DEF PairInv, LowOK, HighOK
  <2>4. /\ s = high \/ s = low
        /\ Pid[high] \in Int /\ Pid[low] \in Int /\ Pid[low] < Pid[high]
    BY PairFacts
  <2> QED
    BY <2>3, <2>4
<1> QED
  BY <1>1, PairHolds, PTL

=============================================================================

-------------------------- MODULE RingLeaderElection --------------------------
(***************************************************************************)
(* The election the backups hold when the primary falls silent.  On each   *)
(* backup the main thread runs start_election_leader while a second thread *)
(* runs receive_election_leader on the same object: they share             *)
(* candidate_pid and leader_elected without a lock.  The build is not      *)
(* optimised, so each mention of candidate_pid reads it again: every read  *)
(* that can see another value is a step of its own.                        *)
(*                                                                         *)
(* A message is one TCP connection: it reaches the queue of the receiver's *)
(* listening socket, or it is refused and the sender's process exits.      *)
(***************************************************************************)
EXTENDS WirePid, SequencesExt

CONSTANTS
  Servers,      \* the backups that are alive when the election starts
  List,         \* the list of backups, in the order the primary sent it
  Pid, Port,    \* per server, its process id and its port
  Backlog       \* the connections a listening socket queues: listen(., 3)

ASSUME ElectionAssumption ==
  /\ List \in Seq(Servers)
  /\ Pid  \in [Servers -> Pids]
  /\ \A s \in Servers : Pid[s] > 0
  /\ Port \in [Servers -> Nat]
  /\ Backlog \in Nat \ {0}

VARIABLES
  pc,              \* per server, the statement of its main thread
  receiver,        \* per server, where its receiver thread is
  candidate_pid, leader_elected,   \* the members the two threads share
  leader_pid, participant,         \* locals of start_election_leader
  sending,         \* per server, the message its main thread is sending
  socket,          \* per server, the messages queued at its socket
  overwritten      \* history: the servers that reset a pid they had received

mainVars   == << leader_pid, participant, sending >>
sharedVars == << candidate_pid, leader_elected >>
vars == << pc, receiver, sharedVars, mainVars, socket, overwritten >>

ELECTION == "MSG_ELECTION"
ELECTED  == "MSG_ELECTED"
Nothing  == [type |-> "none"]

-----------------------------------------------------------------------------
(***************************************************************************)
(* A backup drops from the primary's list the servers that have its own    *)
(* port, itself among them.  get_index_of therefore never finds the        *)
(* starter and returns -1, and the neighbour is the entry at index 0.      *)
(***************************************************************************)
Peers(s) == SelectSeq(List, LAMBDA t : Port[t] # Port[s])

Neighbour(s) == Peers(s)[1]

Listening(s) == receiver[s] \in {"check", "accept"}

\* Back in init_server_as_backup: it reads and ignores election messages.
Ignoring(s) == pc[s] = "backup"

Running(s) == pc[s] \notin {"leader", "backup", "dead"}

At(s, label) == pc[s] = label
Goto(s, label) == pc' = [pc EXCEPT ![s] = label]

-----------------------------------------------------------------------------
Init ==
  /\ pc       = [s \in Servers |-> "start"]
  /\ receiver = [s \in Servers |-> "none"]
  /\ candidate_pid  = [s \in Servers |-> 0]
  /\ leader_elected = [s \in Servers |-> FALSE]
  /\ leader_pid  = [s \in Servers |-> -1]
  /\ participant = [s \in Servers |-> FALSE]
  /\ sending = [s \in Servers |-> Nothing]
  /\ socket  = [s \in Servers |-> << >>]
  /\ overwritten = {}

\* A server that knows of no other is the leader; any other starts a receiver.
Start(s) ==
  /\ At(s, "start")
  /\ IF Peers(s) = << >>
     THEN Goto(s, "leader") /\ UNCHANGED receiver
     ELSE Goto(s, "bound") /\ receiver' = [receiver EXCEPT ![s] = "bind"]
  /\ UNCHANGED << sharedVars, mainVars, socket, overwritten >>

\* The receiver frees address_already_in_use when it has bound its port.
AwaitBound(s) ==
  /\ At(s, "bound")
  /\ receiver[s] # "bind"
  /\ Goto(s, "loop")
  /\ UNCHANGED << receiver, sharedVars, mainVars, socket, overwritten >>

Loop(s) ==
  /\ At(s, "loop")
  /\ Goto(s, IF leader_elected[s] THEN "second_round" ELSE "look")
  /\ UNCHANGED << receiver, sharedVars, mainVars, socket, overwritten >>

\* did_neighbor_send_something
Look(s) ==
  /\ At(s, "look")
  /\ Goto(s, IF candidate_pid[s] > 0 THEN "compare" ELSE "reset")
  /\ UNCHANGED << receiver, sharedVars, mainVars, socket, overwritten >>

Reset(s) ==
  /\ At(s, "reset")
  /\ candidate_pid' = [candidate_pid EXCEPT ![s] = 0]
  /\ overwritten' = IF candidate_pid[s] = 0 THEN overwritten ELSE overwritten \cup {s}
  /\ Goto(s, "compare")
  /\ UNCHANGED << receiver, leader_elected, mainVars, socket >>

\* Mutant of Compare: the lower pid wins.
CompareReversed(s) ==
  /\ At(s, "compare")
  /\ Goto(s, IF candidate_pid[s] = 0 \/ candidate_pid[s] > Pid[s]
             THEN "propose" ELSE "forward")
  /\ UNCHANGED << receiver, sharedVars, mainVars, socket, overwritten >>

Compare(s) ==
  /\ At(s, "compare")
  /\ Goto(s, IF candidate_pid[s] < Pid[s] THEN "propose" ELSE "forward")
  /\ UNCHANGED << receiver, sharedVars, mainVars, socket, overwritten >>

Send(s, type, pid) == sending' = [sending EXCEPT ![s] = [type |-> type, pid |-> EncodePid(pid)]]

\* Mutant of Propose: the server takes itself for the leader when it proposes itself.
ProposeAsLeader(s) ==
  /\ At(s, "propose")
  /\ leader_pid' = [leader_pid EXCEPT ![s] = Pid[s]]
  /\ Send(s, ELECTION, Pid[s])
  /\ Goto(s, "connect")
  /\ UNCHANGED << receiver, sharedVars, participant, socket, overwritten >>

Propose(s) ==
  /\ At(s, "propose")
  /\ leader_pid' = [leader_pid EXCEPT ![s] = candidate_pid[s]]
  /\ Send(s, ELECTION, Pid[s])
  /\ Goto(s, "connect")
  /\ UNCHANGED << receiver, sharedVars, participant, socket, overwritten >>

\* Mutant of ReadAgain: the server forwards its own pid.
ForwardOwnPid(s) ==
  /\ At(s, "read_again")
  /\ Send(s, ELECTION, Pid[s])
  /\ Goto(s, "connect")
  /\ UNCHANGED << receiver, sharedVars, leader_pid, participant, socket, overwritten >>

\* The pid forwarded is read again, after the comparison.
Forward(s) ==
  /\ At(s, "forward")
  /\ IF ~ participant[s] /\ candidate_pid[s] # Pid[s]
     THEN participant' = [participant EXCEPT ![s] = TRUE] /\ Goto(s, "read_again")
     ELSE Goto(s, "mine") /\ UNCHANGED participant
  /\ UNCHANGED << receiver, sharedVars, leader_pid, sending, socket, overwritten >>

ReadAgain(s) ==
  /\ At(s, "read_again")
  /\ Send(s, ELECTION, candidate_pid[s])
  /\ Goto(s, "connect")
  /\ UNCHANGED << receiver, sharedVars, leader_pid, participant, socket, overwritten >>

Mine(s) ==
  /\ At(s, "mine")
  /\ IF candidate_pid[s] = Pid[s]
     THEN Send(s, ELECTED, Pid[s]) /\ Goto(s, "connect")
     ELSE Goto(s, "loop") /\ UNCHANGED sending
  /\ UNCHANGED << receiver, sharedVars, leader_pid, participant, socket, overwritten >>

-----------------------------------------------------------------------------
(***************************************************************************)
(* send_election_leader, after its sleep: the message is queued, or read   *)
(* and ignored by a server that is a backup again, or the connection is    *)
(* refused and the process exits.  connect waits while the queue is full.  *)
(***************************************************************************)
AfterSend(s) ==
  IF sending[s].type = ELECTED
  THEN /\ leader_elected' = [leader_elected EXCEPT ![s] = TRUE]
       /\ leader_pid' = [leader_pid EXCEPT ![s] = Pid[s]]
  ELSE UNCHANGED << leader_elected, leader_pid >>

\* Mutant of Connect: the queue of the receiver has no limit.
ConnectUnbounded(s) ==
  LET t == Neighbour(s)
  IN  /\ At(s, "connect")
      /\ \/ /\ Listening(t)
            /\ socket' = [socket EXCEPT ![t] = Append(@, sending[s])]
         \/ /\ Ignoring(t)
            /\ UNCHANGED socket
      /\ sending' = [sending EXCEPT ![s] = Nothing]
      /\ AfterSend(s)
      /\ Goto(s, "loop")
      /\ UNCHANGED << receiver, candidate_pid, participant, overwritten >>

Connect(s) ==
  LET t == Neighbour(s)
  IN  /\ At(s, "connect")
      /\ \/ /\ Listening(t)
            /\ Len(socket[t]) < Backlog
            /\ socket' = [socket EXCEPT ![t] = Append(@, sending[s])]
         \/ /\ Ignoring(t)
            /\ UNCHANGED socket
      /\ sending' = [sending EXCEPT ![s] = Nothing]
      /\ AfterSend(s)
      /\ Goto(s, "loop")
      /\ UNCHANGED << receiver, candidate_pid, participant, overwritten >>

Stop(s) ==
  /\ Goto(s, "dead")
  /\ receiver' = [receiver EXCEPT ![s] = "closed"]
  /\ socket' = [socket EXCEPT ![s] = << >>]
  /\ UNCHANGED << sharedVars, mainVars, overwritten >>

Refused(s) ==
  /\ At(s, "connect")
  /\ ~ Listening(Neighbour(s)) /\ ~ Ignoring(Neighbour(s))
  /\ Stop(s)

\* Any server, at any moment.
Crash(s) ==
  /\ Running(s)
  /\ Stop(s)

\* After the sleep of the second round.
SecondRound(s) ==
  /\ At(s, "second_round")
  /\ Goto(s, IF leader_pid[s] = Pid[s] THEN "leader" ELSE "backup")
  /\ UNCHANGED << receiver, sharedVars, mainVars, socket, overwritten >>

-----------------------------------------------------------------------------
(***************************************************************************)
(* receive_election_leader                                                 *)
(***************************************************************************)
Bind(s) ==
  /\ receiver[s] = "bind"
  /\ receiver' = [receiver EXCEPT ![s] = "check"]
  /\ UNCHANGED << pc, sharedVars, mainVars, socket, overwritten >>

CheckElected(s) ==
  /\ receiver[s] = "check"
  /\ IF leader_elected[s]
     THEN /\ receiver' = [receiver EXCEPT ![s] = "closed"]
          /\ socket' = [socket EXCEPT ![s] = << >>]
     ELSE receiver' = [receiver EXCEPT ![s] = "accept"] /\ UNCHANGED socket
  /\ UNCHANGED << pc, sharedVars, mainVars, overwritten >>

Accept(s) ==
  LET message == Head(socket[s])
  IN  /\ receiver[s] = "accept"
      /\ socket[s] # << >>
      /\ socket' = [socket EXCEPT ![s] = Tail(@)]
      /\ IF message.type = ELECTION
         THEN /\ candidate_pid' = [candidate_pid EXCEPT ![s] = DecodePid(message.pid)]
              /\ UNCHANGED leader_elected
         ELSE /\ leader_elected' = [leader_elected EXCEPT ![s] = TRUE]
              /\ UNCHANGED candidate_pid
      /\ receiver' = [receiver EXCEPT ![s] = "check"]
      /\ UNCHANGED << pc, mainVars, overwritten >>

-----------------------------------------------------------------------------
MainThread(s) ==
  \/ Start(s) \/ AwaitBound(s) \/ Loop(s) \/ Look(s) \/ Reset(s) \/ Compare(s)
  \/ Propose(s) \/ Forward(s) \/ ReadAgain(s) \/ Mine(s) \/ Connect(s) \/ Refused(s)
  \/ SecondRound(s)

ReceiverThread(s) == Bind(s) \/ CheckElected(s) \/ Accept(s)

\* Nobody runs the election any more.
Over == (\A s \in Servers : ~ Running(s)) /\ UNCHANGED vars

Next == (\E s \in Servers : MainThread(s) \/ ReceiverThread(s) \/ Crash(s)) \/ Over

Spec == Init /\ [][Next]_vars

(***************************************************************************)
(* Both threads of a server that has not stopped keep running.             *)
(***************************************************************************)
FairSpec ==
  Spec /\ \A s \in Servers : WF_vars(MainThread(s)) /\ WF_vars(ReceiverThread(s))

-----------------------------------------------------------------------------
Message == [type : {ELECTION, ELECTED}, pid : Seq(0 .. 255)]

TypeOK ==
  /\ pc \in [Servers -> {"start", "bound", "loop", "look", "reset", "compare", "propose",
                         "forward", "read_again", "mine", "connect", "second_round",
                         "leader", "backup", "dead"}]
  /\ receiver \in [Servers -> {"none", "bind", "check", "accept", "closed"}]
  /\ candidate_pid  \in [Servers -> Pids]
  /\ leader_elected \in [Servers -> BOOLEAN]
  /\ leader_pid  \in [Servers -> -1 .. MaxPid]
  /\ participant \in [Servers -> BOOLEAN]
  /\ sending \in [Servers -> Message \cup {Nothing}]
  /\ socket  \in [Servers -> Seq(Message)]
  /\ \A s \in Servers : Len(socket[s]) <= Backlog
  /\ overwritten \subseteq Servers

(***************************************************************************)
(* No two backups promote themselves: start_election_leader returns true   *)
(* to one of them at most, whatever the threads interleave and whoever     *)
(* crashes.                                                                *)
(***************************************************************************)
AtMostOneLeader ==
  \A s, t \in Servers : At(s, "leader") /\ At(t, "leader") => s = t

(***************************************************************************)
(* The highest pid wins: a server goes back to being a backup only for a   *)
(* leader of a higher pid that has declared itself.                        *)
(***************************************************************************)
LosersDefer ==
  \A s \in Servers : At(s, "backup") =>
    \E t \in Servers : /\ Pid[t] > Pid[s]
                       /\ leader_elected[t] \/ At(t, "dead")

(***************************************************************************)
(* The election ends: a leader is found, unless a server exits or the race *)
(* between lines 54 and 56 throws a received pid away.                     *)
(***************************************************************************)
ElectionEnds ==
  <>( \/ \E s \in Servers : At(s, "leader") \/ At(s, "dead")
      \/ overwritten # {} )

=============================================================================

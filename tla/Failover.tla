------------------------------ MODULE Failover ------------------------------
(***************************************************************************)
(* Who is the primary: the role a server takes when it starts, how it      *)
(* joins as a backup, and how a backup takes over (ReplicManager::run to   *)
(* init_server_as_backup).                                                 *)
(*                                                                         *)
(* A server is a process; one that is started again is another server of   *)
(* the same host.  The clock is not modelled: a guard says which timers    *)
(* run before which (6 s of silence before an election, a heartbeat every  *)
(* 3 s, 7 s before a leader speaks, 5 s before a loser listens again), and *)
(* the steps in which that order fails are actions of their own, recorded  *)
(* in faults.                                                              *)
(*                                                                         *)
(* A message to a backup is connection, write and read in one step         *)
(* (Replication has them apart), and the exchange of pids between two      *)
(* neighbours is Defer and Declare (RingLeaderElection has it in full).    *)
(* A list is as long as it is: a message of the code holds 46 entries.     *)
(***************************************************************************)
EXTENDS WireField, FiniteSets, SequencesExt

CONSTANTS
  Servers,      \* the processes that are started
  Host, Pid,    \* of each server
  MaxPid,       \* the highest of them
  Ports,        \* BACKUP_PORT_START .. BACKUP_PORT_END, and NoneFree
  MaxCrashes,   \* bound: servers that crash
  OnTime        \* bound: servers that no heartbeat comes late to

Hosts == {Host[s] : s \in Servers}

\* What get_available_port_in_range returns, as a uint16_t, when no port is free.
NoneFree == 65535

\* The ports are those that arrive as they are.
ASSUME FailoverAssumption ==
  /\ Ports \subseteq Fields \ {0} /\ NoneFree \in Ports
  /\ \A p \in Ports : p < 32768 \/ p = NoneFree
  /\ MaxCrashes \in Nat

\* Servers compare the pids they receive, and none above 32767 surely arrives as
\* it is: WirePid has what becomes of the others.
ASSUME PidAssumption == MaxPid \in 0 .. 32767 /\ Pid \in [Servers -> 0 .. MaxPid]

VARIABLES
  phase,       \* per server, what its main thread is doing
  port,        \* per server, the port it has chosen as a backup (0: none)
  primaryIp,   \* per server, a host, Nowhere, or Garbled
  rm,          \* per server, its list of the other servers
  telling,     \* per server, the thread that sends the list because of it
  crashes,     \* bound: how many servers have crashed
  faults,      \* history: what has gone wrong in the timing or the deployment
  toldBy       \* history: whose list each server has; Nowhere, if it missed
               \* a later one of the same server

vars == << phase, port, primaryIp, rm, telling, crashes, faults, toldBy >>

Nowhere == "nowhere"
Garbled == "garbled"
Silent  == [by |-> Nowhere, at |-> 0]

ASSUME NowhereAssumption == Nowhere \notin Servers

Init ==
  /\ phase     = [s \in Servers |-> "off"]
  /\ port      = [s \in Servers |-> 0]
  /\ primaryIp = [s \in Servers |-> Nowhere]
  /\ rm        = [s \in Servers |-> << >>]
  /\ telling   = [s \in Servers |-> Silent]
  /\ crashes = 0
  /\ faults  = {}
  /\ toldBy  = [s \in Servers |-> Nowhere]

-----------------------------------------------------------------------------
Goto(s, label) == phase' = [phase EXCEPT ![s] = label]
In(s, labels)  == phase[s] \in labels

Running   == {s \in Servers : ~ In(s, {"off", "dead"})}
Primaries == {s \in Servers : phase[s] = "primary"}

\* Its receiver thread is accepting the messages of the election.
Voting(s) == In(s, {"voting", "ignored", "deferring"})

\* Somebody accepts connections at its port.
Bound(s) == phase[s] = "backup" \/ Voting(s)

\* Mutant of InUse: a backup still listens at its port while it binds it again.
InUseKept(h, p) ==
  \E s \in Servers : /\ Host[s] = h /\ port[s] = p
                     /\ Bound(s) \/ phase[s] = "electing"

InUse(h, p) == \E s \in Servers : Host[s] = h /\ port[s] = p /\ Bound(s)

\* The receiver of a leader accepts one more connection before it closes the port;
\* a leader whose list was empty has none.  So the port may be bound, or not.
MayBeHeld(h, p) ==
  \E s \in Servers : /\ Host[s] = h /\ port[s] = p
                     /\ In(s, {"leader", "telling", "primary"})

Entry(s) == [host |-> Host[s], port |-> port[s]]

\* The server that accepts a connection to an entry of a list.
At(e) == {t \in Servers : Bound(t) /\ Entry(t) = e}

Lists(t, s) == \E i \in DOMAIN rm[t] : rm[t][i] = Entry(s)

Decoded(e) == [e EXCEPT !.port = DecodeField(EncodeField(@))]

\* The entries of a list at some of its places, in their order.
Keep(list, places) ==
  [j \in 1 .. Cardinality(places) |->
     list[CHOOSE i \in places : Cardinality({k \in places : k < i}) = j - 1]]

\* The list as backup t keeps it: it knows itself by its port.
Received(list, t) ==
  LET decoded == [i \in DOMAIN list |-> Decoded(list[i])]
  IN  Keep(decoded, {i \in DOMAIN list : decoded[i].port # port[t]})

\* The first entry of a list; the election has no other use for it.
Calls(s, t) == rm[s] # << >> /\ Entry(t) = Head(rm[s])

Neighbours(s) == {t \in Servers : Calls(s, t) /\ Bound(t)}

Fault(f) == faults' = faults \cup {f}

-----------------------------------------------------------------------------
(***************************************************************************)
(* Starting.  run() waits five seconds for the primary's multicast.        *)
(***************************************************************************)
Start(s) ==
  /\ phase[s] = "off"
  /\ Goto(s, "starting")
  /\ UNCHANGED << port, primaryIp, rm, telling, crashes, faults, toldBy >>

HearPrimary(s) ==
  /\ phase[s] = "starting"
  /\ \E p \in Primaries : primaryIp' = [primaryIp EXCEPT ![s] = Host[p]]
  /\ Goto(s, "configuring")
  /\ UNCHANGED << port, rm, telling, crashes, faults, toldBy >>

\* The heartbeat receiver and the new backup service bind fixed ports, and
\* the process exits where another primary of the host holds them.
BecomePrimary(s) ==
  /\ primaryIp' = [primaryIp EXCEPT ![s] = Host[s]]
  /\ Goto(s, IF \E p \in Primaries : Host[p] = Host[s] THEN "dead" ELSE "primary")

\* Five seconds without a datagram: nobody sends one, or it was lost.
HearNone(s) ==
  /\ phase[s] = "starting"
  /\ BecomePrimary(s)
  /\ IF Running = {s} THEN UNCHANGED faults ELSE Fault("unheard")
  /\ UNCHANGED << port, rm, telling, crashes, toldBy >>

\* The timed-out read leaves readBytesFromSocket as it was, uninitialised: if
\* it is positive the server takes what is in its buffer for the primary's
\* address, and exits when it cannot connect.
HearGarbage(s) ==
  /\ phase[s] = "starting"
  /\ Goto(s, "dead")
  /\ UNCHANGED << port, primaryIp, rm, telling, crashes, faults, toldBy >>

-----------------------------------------------------------------------------
(***************************************************************************)
(* Joining.  The port is tried, released, announced, and bound again.  It  *)
(* is the first free one of the range: other programs may hold any.  Where *)
(* none is free the server goes on with NoneFree, which nobody has tried.  *)
(***************************************************************************)
\* Another server has chosen this entry, or one has it in its list.
Known(e) == \E t \in Running : Entry(t) = e \/ e \in ToSet(rm[t])

ChoosePort(s) ==
  /\ phase[s] = "configuring"
  /\ \E p \in Ports :
       /\ p = NoneFree \/ ~ InUse(Host[s], p)
       /\ port' = [port EXCEPT ![s] = p]
       /\ IF Known([host |-> Host[s], port |-> p]) THEN Fault("reused") ELSE UNCHANGED faults
  /\ Goto(s, "announcing")
  /\ UNCHANGED << primaryIp, rm, telling, crashes, toldBy >>

\* Mutant of Announce: only the new backup is sent the list.
AnnounceToNewOnly(s) ==
  /\ phase[s] = "announcing"
  /\ IF \E p \in Primaries : Host[p] = primaryIp[s]
     THEN \E p \in Primaries :
            /\ Host[p] = primaryIp[s]
            /\ rm' = [rm EXCEPT ![p] = Append(@, Entry(s))]
            /\ telling' = [telling EXCEPT ![s] = [by |-> p, at |-> Len(rm[p]) + 1]]
            /\ Goto(s, "joined")
     ELSE Goto(s, "dead") /\ UNCHANGED << rm, telling >>
  /\ UNCHANGED << port, primaryIp, crashes, faults, toldBy >>

\* The primary starts a thread that appends the server and sends the list.
Announce(s) ==
  /\ phase[s] = "announcing"
  /\ IF \E p \in Primaries : Host[p] = primaryIp[s]
     THEN \E p \in Primaries :
            /\ Host[p] = primaryIp[s]
            /\ rm' = [rm EXCEPT ![p] = Append(@, Entry(s))]
            /\ telling' = [telling EXCEPT ![s] = [by |-> p, at |-> 1]]
            /\ Goto(s, "joined")
     ELSE Goto(s, "dead") /\ UNCHANGED << rm, telling >>
  /\ UNCHANGED << port, primaryIp, crashes, faults, toldBy >>

\* A backup binds its port when it has joined and after an election it lost.
Listen(s) ==
  /\ In(s, {"joined", "resting"})
  /\ \/ ~ InUse(Host[s], port[s]) /\ Goto(s, "backup")
     \/ /\ InUse(Host[s], port[s]) \/ MayBeHeld(Host[s], port[s])
        /\ Goto(s, "dead")
  /\ UNCHANGED << port, primaryIp, rm, telling, crashes, faults, toldBy >>

(***************************************************************************)
(* notify_list_backups, one entry per step: the list as it is now goes to  *)
(* a backup; a server in an election ignores it, and one that does not     *)
(* listen is skipped.                                                      *)
(***************************************************************************)
Missed(p, t) == IF toldBy[t] = p THEN Nowhere ELSE toldBy[t]

Reach(p, e) ==
  LET told == {t \in At(e) : phase[t] = "backup"}
  IN  /\ rm' = [t \in Servers |-> IF t \in told THEN Received(rm[p], t) ELSE rm[t]]
      /\ toldBy' = [t \in Servers |-> IF t \in told THEN p
                                      ELSE IF Entry(t) = e THEN Missed(p, t)
                                      ELSE toldBy[t]]

Tell(s) ==
  LET p == telling[s].by
      i == telling[s].at
  IN  /\ p # Nowhere
      /\ IF i <= Len(rm[p])
         THEN /\ telling' = [telling EXCEPT ![s].at = i + 1]
              /\ Reach(p, rm[p][i])
         ELSE /\ telling' = [telling EXCEPT ![s] = Silent]
              /\ UNCHANGED << rm, toldBy >>
      /\ UNCHANGED << phase, port, primaryIp, crashes, faults >>

\* A thread that is past the erased entry finds the list moved under it: it
\* skips the entry it would have come to.
Skipped(p, i) ==
  {t \in Servers : \E s \in Servers :
     /\ telling[s].by = p
     /\ i < telling[s].at
     /\ telling[s].at \in DOMAIN rm[p] /\ rm[p][telling[s].at] = Entry(t)}

\* The heartbeat's loop erases the first backup that refuses, and tells nobody.
HeartbeatErase(p) ==
  /\ phase[p] = "primary"
  /\ \E i \in DOMAIN rm[p] :
       /\ At(rm[p][i]) = {}
       /\ \A j \in 1 .. i - 1 : At(rm[p][j]) # {}
       /\ rm' = [rm EXCEPT ![p] = RemoveAt(@, i)]
       /\ toldBy' = [t \in Servers |-> IF t \in Skipped(p, i) THEN Missed(p, t)
                                                              ELSE toldBy[t]]
       /\ IF \E t \in Running : Entry(t) = rm[p][i] THEN Fault("erased")
                                                     ELSE UNCHANGED faults
  /\ UNCHANGED << phase, port, primaryIp, telling, crashes >>

-----------------------------------------------------------------------------
(***************************************************************************)
(* Silence.  A backup that accepts nothing for six seconds closes its      *)
(* socket and starts an election; a server whose list is empty wins it at  *)
(* once.  Heartbeats come from a primary that lists the backup, the lists  *)
(* of a leader in time, and every message of a neighbour that is already   *)
(* in an election starts the six seconds again.                            *)
(***************************************************************************)
\* Mutant of Speaks: the heartbeat's interval is longer than the six seconds.
SpeaksTooLate(t, s) == phase[t] = "ignored" /\ s \in Neighbours(t)

Speaks(t, s) ==
  \/ In(t, {"primary", "leader", "telling"}) /\ Lists(t, s)
  \/ phase[t] = "ignored" /\ s \in Neighbours(t)


StartElection(s) ==
  /\ phase[s] = "backup"
  /\ Goto(s, IF rm[s] = << >> THEN "leader" ELSE "electing")

Timeout(s) ==
  /\ StartElection(s)
  /\ \A t \in Servers : ~ Speaks(t, s)
  /\ IF rm[s] = << >> /\ \E t \in Running \ {s} : port[t] # 0
     THEN Fault("unlisted") ELSE UNCHANGED faults
  /\ UNCHANGED << port, primaryIp, rm, telling, crashes, toldBy >>

\* The heartbeats come late: they are held up by a backup that does not answer, or
\* a round ends early, at one that refuses, or leaves out one (BackupLoop).
TimeoutLate(s) ==
  /\ s \notin OnTime
  /\ StartElection(s)
  /\ \E t \in Servers : Speaks(t, s)
  /\ Fault("late")
  /\ UNCHANGED << port, primaryIp, rm, telling, crashes, toldBy >>

\* The receiver tries until the port is free; a former leader may hold it for long.
Bind(s) ==
  /\ phase[s] = "electing"
  /\ ~ InUse(Host[s], port[s])
  /\ Goto(s, "voting")
  /\ UNCHANGED << port, primaryIp, rm, telling, crashes, faults, toldBy >>

\* send_election_leader to a neighbour that still waits for the old primary.
CallIgnored(s) ==
  /\ phase[s] = "voting"
  /\ \E t \in Neighbours(s) : phase[t] = "backup"
  /\ Goto(s, "ignored")
  /\ Fault("skew")
  /\ UNCHANGED << port, primaryIp, rm, telling, crashes, toldBy >>

\* send_election_leader to a neighbour that does not listen: the process exits.
CallRefused(s) ==
  /\ In(s, {"voting", "ignored"})
  /\ Neighbours(s) = {}
  /\ Goto(s, "dead")
  /\ IF \E t \in Running : phase[t] = "electing" /\ Calls(s, t)
     THEN Fault("skew") ELSE UNCHANGED faults
  /\ UNCHANGED << port, primaryIp, rm, telling, crashes, toldBy >>

\* The pids that reach s: those of its callers, and those that they forward.
Heard(s) ==
  {Pid[u] : u \in {v \in Servers :
     /\ Voting(v)
     /\ \/ s \in Neighbours(v)
        \/ \E w \in Neighbours(v) : phase[w] = "deferring" /\ s \in Neighbours(w)}}

HearsHigher(s) == Neighbours(s) # {} /\ \E pid \in Heard(s) : Pid[s] < pid

\* It forwards a higher pid, once.
Defer(s) ==
  /\ In(s, {"voting", "ignored"})
  /\ HearsHigher(s)
  /\ Goto(s, "deferring")
  /\ UNCHANGED << port, primaryIp, rm, telling, crashes, faults, toldBy >>

\* Its neighbour calls it back, and has forwarded its pid.
Returned(s, t) ==
  /\ Voting(s) /\ t \in Neighbours(s)
  /\ phase[t] = "deferring" /\ s \in Neighbours(t)
  /\ Pid[t] < Pid[s]

\* Its own pid comes back: it tells its neighbour, and is the leader.
Declare(s) ==
  /\ \E t \in Servers :
       /\ Returned(s, t)
       /\ phase' = [phase EXCEPT ![s] = "leader", ![t] = "resting"]
  /\ UNCHANGED << port, primaryIp, rm, telling, crashes, faults, toldBy >>

\* Who calls s has its pid: it is on another host.
Twin(s) == \E u \in Servers : Voting(u) /\ s \in Neighbours(u) /\ Pid[u] = Pid[s]

\* A third server calls one of two that call each other.
Crossed(s, t) ==
  /\ s \in Neighbours(t)
  /\ \E u \in Servers \ {s, t} : Voting(u) /\ Neighbours(u) \cap {s, t} # {}

\* The pid of a third can come between the two readings of candidate_pid, so
\* that a server forwards a lower pid, or its neighbour does: either may see
\* its own come back, or both, and so it is with equal pids.
DeclareDisputed(s) ==
  /\ Voting(s)
  /\ \E t \in Neighbours(s), other \in {"leader", "resting"} :
       /\ Voting(t)
       /\ Twin(s) \/ Crossed(s, t)
       /\ phase' = [phase EXCEPT ![s] = "leader", ![t] = other]
       /\ faults' = faults \cup (IF Twin(s) THEN {"twins"}
                                 ELSE IF other = "leader" THEN {"crossed"} ELSE {})
  /\ UNCHANGED << port, primaryIp, rm, telling, crashes, toldBy >>

-----------------------------------------------------------------------------
(***************************************************************************)
(* Taking over.  The leader first sends "its" address: primaryIp, still    *)
(* the old primary's, which each backup that hears it turns into a string  *)
(* of one character.  An address that is no address ends the process       *)
(* unless the name service answers whatever the stack held.                *)
(***************************************************************************)
TellAddress(s) ==
  /\ phase[s] = "leader"
  /\ telling[s] = Silent
  /\ \A t \in Servers : phase[t] = "resting" => ~ Lists(s, t)
  /\ primaryIp' = [t \in Servers |-> IF phase[t] = "backup" /\ Lists(s, t)
                                     THEN Garbled ELSE primaryIp[t]]
  /\ telling' = [telling EXCEPT ![s] = [by |-> s, at |-> 1]]
  /\ Goto(s, "telling")
  /\ UNCHANGED << port, rm, crashes, faults, toldBy >>

TellNoAddress(s) ==
  /\ phase[s] = "leader"
  /\ primaryIp[s] = Garbled
  /\ Goto(s, "dead")
  /\ UNCHANGED << port, primaryIp, rm, telling, crashes, faults, toldBy >>

\* The lists are sent: init_server_as_primary.
TakeOver(s) ==
  /\ phase[s] = "telling"
  /\ telling[s] = Silent
  /\ BecomePrimary(s)
  /\ UNCHANGED << port, rm, telling, crashes, faults, toldBy >>

Crash(s) ==
  /\ s \in Running
  /\ crashes < MaxCrashes
  /\ crashes' = crashes + 1
  /\ Goto(s, "dead")
  /\ telling' = [t \in Servers |-> IF telling[t].by = s THEN Silent ELSE telling[t]]
  /\ UNCHANGED << port, primaryIp, rm, faults, toldBy >>

-----------------------------------------------------------------------------
MainThread(s) ==
  \/ HearPrimary(s) \/ HearNone(s) \/ HearGarbage(s)
  \/ ChoosePort(s) \/ Announce(s) \/ Listen(s)
  \/ Timeout(s) \/ Bind(s) \/ CallIgnored(s) \/ CallRefused(s) \/ Defer(s) \/ Declare(s)
  \/ DeclareDisputed(s)
  \/ TellAddress(s) \/ TellNoAddress(s) \/ TakeOver(s)

Step(s) == MainThread(s) \/ Tell(s) \/ HeartbeatErase(s)

Next == \E s \in Servers : Step(s) \/ Start(s) \/ TimeoutLate(s) \/ Crash(s)

Spec == Init /\ [][Next]_vars

(***************************************************************************)
(* Servers that run do not all stop: timers expire, and connections are    *)
(* answered or refused.  Starts, crashes and late heartbeats need not      *)
(* happen.                                                                 *)
(***************************************************************************)
FairSpec == Spec /\ WF_vars(\E s \in Servers : Step(s))

-----------------------------------------------------------------------------
Entries == [host : Hosts, port : Ports]

TypeOK ==
  /\ phase \in [Servers -> {"off", "starting", "configuring", "announcing", "joined",
                            "backup", "electing", "voting", "ignored", "deferring",
                            "resting", "leader", "telling", "primary", "dead"}]
  /\ port \in [Servers -> Ports \cup {0}]
  /\ primaryIp \in [Servers -> Hosts \cup {Nowhere, Garbled}]
  /\ rm \in [Servers -> Seq(Entries)]
  /\ telling \in [Servers -> [by : Servers \cup {Nowhere}, at : Nat]]
  /\ crashes \in 0 .. MaxCrashes
  /\ faults \subseteq {"unheard", "reused", "erased", "unlisted", "late", "skew", "twins",
                "crossed"}
  /\ toldBy \in [Servers -> Servers \cup {Nowhere}]

(***************************************************************************)
(* A second primary needs a cause: a server that heard nothing of the      *)
(* others when it started, a port that somebody still lists for another, a *)
(* backup that was erased before it listened, one whose list lacks         *)
(* another, heartbeats that come late, equal pids, or a third server that  *)
(* calls two while they elect.  A crash makes one through these causes     *)
(* only, as when a backup's end makes the heartbeats of others late.       *)
(***************************************************************************)
OnePrimary ==
  Cardinality(Primaries) > 1 =>
    faults \cap {"unheard", "reused", "erased", "unlisted", "late", "twins", "crossed"} # {}

(***************************************************************************)
(* When a primary has told its backups, a backup that listens, has its     *)
(* list from this primary and has not missed a later one knows every other *)
(* backup the primary knows.                                               *)
(***************************************************************************)
ListsComplete ==
  \A p \in Primaries :
    (\A s \in Servers : telling[s].by # p) =>
      \A t \in Servers :
        (phase[t] = "backup" /\ Lists(p, t) /\ toldBy[t] = p) =>
           ToSet(Received(rm[p], t)) \subseteq ToSet(rm[t])

(***************************************************************************)
(* Two backups that know exactly each other survive the primary: one of    *)
(* them takes over, unless another server crashes first, or one of them starts  *)
(* its election so early that it calls while the other still waits.        *)
(***************************************************************************)
Orphaned ==
  /\ Cardinality(Running) \in {1, 2}
  /\ \A s \in Running :
       /\ phase[s] = "backup"
       /\ primaryIp[s] # Garbled
       /\ Len(rm[s]) = Cardinality(Running) - 1
       /\ \A t \in Running \ {s} : Lists(s, t)


(***************************************************************************)
(* If servers survive and can do nothing, and none is the primary, one of  *)
(* them calls for ever at a neighbour that it keeps from timing out, or    *)
(* has deferred to a leader that is gone or never comes.                   *)
(***************************************************************************)
Stranded(s) ==
  \/ phase[s] = "ignored" /\ \E t \in Neighbours(s) : phase[t] = "backup"
  \/ phase[s] = "deferring"

\* Server s, or a thread that sends a list because of it, can go on: the guards of
\* Step(s), which no ENABLED has to be proved about.
CanStep(s) ==
  \/ In(s, {"starting", "configuring", "announcing", "joined", "resting"})
  \/ phase[s] = "backup" /\ \A t \in Servers : ~ Speaks(t, s)
  \/ phase[s] = "electing" /\ ~ InUse(Host[s], port[s])
  \/ phase[s] = "voting" /\ \E t \in Neighbours(s) : phase[t] = "backup"
  \/ In(s, {"voting", "ignored"}) /\ (Neighbours(s) = {} \/ HearsHigher(s))
  \/ \E t \in Servers : Returned(s, t)
  \/ Voting(s) /\ \E t \in Neighbours(s) : Voting(t) /\ (Twin(s) \/ Crossed(s, t))
  \/ phase[s] = "leader" /\ primaryIp[s] = Garbled
  \/ /\ phase[s] = "leader" /\ telling[s] = Silent
     /\ \A t \in Servers : phase[t] = "resting" => ~ Lists(s, t)
  \/ phase[s] = "telling" /\ telling[s] = Silent
  \/ telling[s].by # Nowhere

TakesOver ==
  (Running # {} /\ Primaries = {} /\ \A s \in Servers : ~ CanStep(s))
    => \E s \in Servers : Stranded(s)

=============================================================================

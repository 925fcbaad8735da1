---------------------------- MODULE PrimaryChange ----------------------------
(***************************************************************************)
(* The clients at a change of primary.                                     *)
(*                                                                         *)
(* A client asks by broadcast for the primary, logs in, and then starts a  *)
(* thread for every command.  These threads read the address of the        *)
(* primary, which a thread of its own changes when a new primary says so.  *)
(* A new primary tells the clients whose address the old one had           *)
(* replicated to it.                                                       *)
(*                                                                         *)
(* Promote stands for the election and what precedes it, of which one      *)
(* server at most comes out as primary, and Replicate for Replication's    *)
(* events.  The backups have all joined.  What a command does is in        *)
(* ServerRequests: here it is answered with 0 or with an error.  No        *)
(* address leaves a table: a logout erases that of the empty cookie        *)
(* (ServerRequests' Unregister).                                           *)
(***************************************************************************)
EXTENDS Integers, Sequences

CONSTANTS
  Clients,
  Servers,
  First,       \* the server that is primary at the start
  Address,     \* per server, its ip and its SELECTED_SERVER_PORT
  MaxCommands  \* bound: the commands a client's user types

ASSUME PrimaryChangeAssumption ==
  /\ First \in Servers
  /\ Address \in [Servers -> [ip : STRING, port : Nat \ {0}]]
  /\ \A s, t \in Servers : Address[s] = Address[t] => s = t
  /\ MaxCommands \in Nat

VARIABLES
  role,             \* per server: "backup", "primary" or "dead"
  client_sessions,  \* per server, the clients whose address it has stored
  events,           \* the NEW_SESSION << client, backup >> on their way
  informing,        \* << thread, client >>: whom the new primary has yet to tell
  frontend,         \* per client, primaryServerIP and primaryServerPort
  inbox,            \* per client, the connections to its notification socket
  listener,         \* per client, thread_listen_notif: idle, or the port it is to store
  thread,           \* per client and number, the thread of a request; 0 is the login
  gone              \* the clients whose process has ended

serverVars == << role, client_sessions, events >>
clientVars == << frontend, inbox, listener >>
vars == << serverVars, informing, clientVars, thread, gone >>

Requests == 0 .. MaxCommands
NoServer == "no server"
NoPort   == 0
NotExecuted == -1
Unused   == [pc |-> "unused", ip |-> NoServer, server |-> NoServer, result |-> NotExecuted, code |-> 0]

Alive(s) == role[s] # "dead"
Goto(c, k, label) == thread' = [thread EXCEPT ![c][k].pc = label]

-----------------------------------------------------------------------------
Init ==
  /\ role = [s \in Servers |-> IF s = First THEN "primary" ELSE "backup"]
  /\ client_sessions = [s \in Servers |-> {}]
  /\ events = {}
  /\ informing = {}
  /\ frontend = [c \in Clients |-> [ip |-> NoServer, port |-> NoPort]]
  /\ inbox = [c \in Clients |-> << >>]
  /\ listener = [c \in Clients |-> NoPort]
  /\ thread = [c \in Clients |-> [k \in Requests |-> IF k = 0 THEN [Unused EXCEPT !.pc = "discover"]
                                                              ELSE Unused]]
  /\ gone = {}

(***************************************************************************)
(* discoverPrimaryServer broadcasts until it is answered, by a server that *)
(* is primary.  The notification thread is started next.                   *)
(***************************************************************************)
Discover(c) ==
  /\ thread[c][0].pc = "discover"
  /\ \E s \in Servers : role[s] = "primary" /\ frontend' = [frontend EXCEPT ![c] = Address[s]]
  /\ Goto(c, 0, "host")
  /\ UNCHANGED << serverVars, informing, inbox, listener, gone >>

\* do_command, once the login has returned 0: each command has a thread of its own.
Type(c, k) ==
  /\ thread[c][0].pc = "done" /\ thread[c][0].code = 0
  /\ thread[c][k].pc = "unused"
  /\ \A j \in 1 .. k - 1 : thread[c][j].pc # "unused"
  /\ Goto(c, k, "host")
  /\ UNCHANGED << serverVars, informing, clientVars, gone >>

-----------------------------------------------------------------------------
(***************************************************************************)
(* sendPacket.  It reads the ip and then the port.  A failed connect is    *)
(* only logged: the write that follows raises SIGPIPE, which ends the      *)
(* client.  A failed read leaves a buffer of zeros, whose type is 0.       *)
(***************************************************************************)
ReadHost(c, k) ==
  /\ thread[c][k].pc = "host"
  /\ thread' = [thread EXCEPT ![c][k].ip = frontend[c].ip, ![c][k].pc = "connect"]
  /\ UNCHANGED << serverVars, informing, clientVars, gone >>

Connect(c, k) ==
  LET address   == [ip |-> thread[c][k].ip, port |-> frontend[c].port]
      listening == { s \in Servers : Alive(s) /\ Address[s] = address }
  IN  /\ thread[c][k].pc = "connect"
      /\ IF listening = {}
         THEN gone' = gone \cup {c} /\ UNCHANGED thread
         ELSE /\ \E s \in listening :
                   thread' = [thread EXCEPT ![c][k].server = s, ![c][k].pc = "sent"]
              /\ UNCHANGED gone
      /\ UNCHANGED << serverVars, informing, clientVars >>

\* The address of a login is stored whatever its code is.
Register(c, s) ==
  /\ client_sessions' = [client_sessions EXCEPT ![s] = @ \cup {c}]
  /\ events' = events \cup { << c, t >> : t \in { t \in Servers \ {s} : role[t] = "backup" } }
  /\ UNCHANGED role

Execute(c, k) ==
  /\ thread[c][k].pc = "sent" /\ Alive(thread[c][k].server)
  /\ \E result \in {0, 1} :
       thread' = [thread EXCEPT ![c][k].result = result, ![c][k].pc = "executed"]
  /\ IF k = 0 THEN Register(c, thread[c][k].server) ELSE UNCHANGED serverVars
  /\ UNCHANGED << informing, clientVars, gone >>

\* CLIAuthenticator.login throws when the code is not 0.
Return(c, k, code) ==
  /\ thread' = [thread EXCEPT ![c][k].code = code, ![c][k].pc = "done"]
  /\ gone' = IF k = 0 /\ code # 0 THEN gone \cup {c} ELSE gone
  /\ UNCHANGED << serverVars, informing, clientVars >>

\* Mutant of Answer: the packet is answered with the type 0 it was built with.
AnswerZero(c, k) ==
  /\ thread[c][k].pc = "executed" /\ Alive(thread[c][k].server)
  /\ Return(c, k, 0)

Answer(c, k) ==
  /\ thread[c][k].pc = "executed" /\ Alive(thread[c][k].server)
  /\ Return(c, k, thread[c][k].result)

\* Mutant of NoAnswer: sendPacket returns what read returned.
NoAnswerMinusOne(c, k) ==
  /\ thread[c][k].pc \in {"sent", "executed"} /\ ~ Alive(thread[c][k].server)
  /\ Return(c, k, -1)

NoAnswer(c, k) ==
  /\ thread[c][k].pc \in {"sent", "executed"} /\ ~ Alive(thread[c][k].server)
  /\ Return(c, k, 0)

-----------------------------------------------------------------------------
(***************************************************************************)
(* thread_listen_notif.  A connection that the old primary has not written *)
(* to before it ended reads as zeros: fields[0] of an empty vector ends    *)
(* the client.  updatePrimaryServer stores the ip and then the port.       *)
(***************************************************************************)
\* Mutant of Hear: updatePrimaryServer returns after the first assignment.
HearIp(c) ==
  /\ inbox[c] # << >> /\ Head(inbox[c]).written /\ listener[c] = NoPort
  /\ frontend' = [frontend EXCEPT ![c].ip = Address[Head(inbox[c]).from].ip]
  /\ inbox' = [inbox EXCEPT ![c] = Tail(@)]
  /\ UNCHANGED << serverVars, informing, listener, thread, gone >>

Hear(c) ==
  LET address == Address[Head(inbox[c]).from]
  IN  /\ inbox[c] # << >> /\ Head(inbox[c]).written /\ listener[c] = NoPort
      /\ frontend' = [frontend EXCEPT ![c].ip = address.ip]
      /\ listener' = [listener EXCEPT ![c] = address.port]
      /\ inbox' = [inbox EXCEPT ![c] = Tail(@)]
      /\ UNCHANGED << serverVars, informing, thread, gone >>

StorePort(c) ==
  /\ listener[c] # NoPort
  /\ frontend' = [frontend EXCEPT ![c].port = listener[c]]
  /\ listener' = [listener EXCEPT ![c] = NoPort]
  /\ UNCHANGED << serverVars, informing, inbox, thread, gone >>

HearNothing(c) ==
  /\ inbox[c] # << >> /\ listener[c] = NoPort
  /\ ~ Head(inbox[c]).written /\ ~ Alive(Head(inbox[c]).from)
  /\ gone' = gone \cup {c}
  /\ UNCHANGED << serverVars, informing, clientVars, thread >>

-----------------------------------------------------------------------------
(***************************************************************************)
(* The servers.  A primary that ends takes with it the events it has not   *)
(* sent and the connections it has not written to.                         *)
(***************************************************************************)
Replicate ==
  /\ \E e \in events : /\ client_sessions' = [client_sessions EXCEPT ![e[2]] = @ \cup {e[1]}]
                       /\ events' = events \ {e}
  /\ UNCHANGED << role, informing, clientVars, thread, gone >>

Crash(s) ==
  /\ role[s] = "primary"
  /\ role' = [role EXCEPT ![s] = "dead"]
  /\ events' = {}
  /\ informing' = {}
  /\ UNCHANGED << client_sessions, clientVars, thread, gone >>

\* Mutant of Promote: the observers are told before is_primary is set.
PromoteSilently(s) ==
  /\ role[s] = "backup"
  /\ \A t \in Servers : role[t] # "primary"
  /\ role' = [role EXCEPT ![s] = "primary"]
  /\ UNCHANGED << client_sessions, events, informing, clientVars, thread, gone >>

\* init_server_as_backup and init_server_as_primary both tell the observers, which
\* starts updateClientsWithNewPrimaryServer twice.
Promote(s) ==
  /\ role[s] = "backup"
  /\ \A t \in Servers : role[t] # "primary"
  /\ role' = [role EXCEPT ![s] = "primary"]
  /\ informing' = {"elected", "primary"} \X client_sessions[s]
  /\ UNCHANGED << client_sessions, events, clientVars, thread, gone >>

Unwritten(s, by, c) ==
  \E k \in DOMAIN inbox[c] : inbox[c][k] = [from |-> s, by |-> by, written |-> FALSE]

\* connect, one client after the other; one that is gone refuses, and the write is lost.
InformConnect(s) ==
  /\ role[s] = "primary"
  /\ \E x \in informing :
       /\ \A c \in Clients : ~ Unwritten(s, x[1], c)
       /\ informing' = informing \ {x}
       /\ inbox' = IF x[2] \in gone THEN inbox
                   ELSE [inbox EXCEPT ![x[2]] =
                           Append(@, [from |-> s, by |-> x[1], written |-> FALSE])]
  /\ UNCHANGED << serverVars, frontend, listener, thread, gone >>

InformWrite(s) ==
  /\ role[s] = "primary"
  /\ \E c \in Clients : \E k \in DOMAIN inbox[c] :
       /\ inbox[c][k].from = s /\ ~ inbox[c][k].written
       /\ inbox' = [inbox EXCEPT ![c][k].written = TRUE]
  /\ UNCHANGED << serverVars, informing, frontend, listener, thread, gone >>

-----------------------------------------------------------------------------
Request(c, k) == \/ Type(c, k) \/ ReadHost(c, k) \/ Connect(c, k)
                 \/ Execute(c, k) \/ Answer(c, k) \/ NoAnswer(c, k)

Listener(c) == Hear(c) \/ StorePort(c) \/ HearNothing(c)

Client(c) == c \notin gone /\ (Discover(c) \/ Listener(c) \/ \E k \in Requests : Request(c, k))

Inform(s) == InformConnect(s) \/ InformWrite(s)

\* No server is left.
Over == (\A s \in Servers : ~ Alive(s)) /\ UNCHANGED vars

Next == \/ \E c \in Clients : Client(c)
        \/ \E s \in Servers : Inform(s) \/ Crash(s) \/ Promote(s)
        \/ Replicate
        \/ Over

Spec == Init /\ [][Next]_vars

(***************************************************************************)
(* The thread that listens at a client, and those of a primary that tell   *)
(* the clients, keep running.                                              *)
(***************************************************************************)
FairSpec ==
  /\ Spec
  /\ \A c \in Clients : WF_vars(c \notin gone /\ Listener(c))
  /\ \A s \in Servers : WF_vars(InformConnect(s)) /\ WF_vars(InformWrite(s))

-----------------------------------------------------------------------------
Places == {NoServer} \cup { Address[s].ip : s \in Servers }
Ports  == {NoPort} \cup { Address[s].port : s \in Servers }

TypeOK ==
  /\ role \in [Servers -> {"backup", "primary", "dead"}]
  /\ client_sessions \in [Servers -> SUBSET Clients]
  /\ events \subseteq Clients \X Servers
  /\ informing \subseteq {"elected", "primary"} \X Clients
  /\ frontend \in [Clients -> [ip : Places, port : Ports]]
  /\ \A c \in Clients : \A k \in DOMAIN inbox[c] :
        inbox[c][k] \in [from : Servers, by : {"elected", "primary"}, written : BOOLEAN]
  /\ listener \in [Clients -> Ports]
  /\ thread \in [Clients -> [Requests ->
        [pc : {"unused", "discover", "host", "connect", "sent", "executed", "done"},
         ip : Places, server : Servers \cup {NoServer}, result : {NotExecuted, 0, 1}, code : {0, 1}]]]
  /\ gone \subseteq Clients

(***************************************************************************)
(* A client that the primary knows, and has been told all it is due, has   *)
(* the primary's address: neither the word of an earlier primary, nor one  *)
(* half stored, is the last to reach it.                                   *)
(***************************************************************************)
InformedClients ==
  \A s \in Servers : role[s] = "primary" =>
    \A c \in client_sessions[s] \ gone :
      (\A by \in {"elected", "primary"} : << by, c >> \notin informing)
        /\ inbox[c] = << >> /\ listener[c] = NoPort
      => frontend[c] = Address[s]

(***************************************************************************)
(* A client that a new primary knows is told: it has its address at last,  *)
(* unless one of the two ends before.                                      *)
(***************************************************************************)
ClientsFollow ==
  \A s \in Servers, c \in Clients :
    (role[s] = "primary" /\ c \in client_sessions[s])
      ~> (frontend[c] = Address[s] \/ ~ Alive(s) \/ c \in gone)

(***************************************************************************)
(* A client takes a request for carried out that was not only if the       *)
(* server it had sent it to has ended: a running server's answer is        *)
(* neither lost nor taken for another's.                                   *)
(***************************************************************************)
UnansweredServerEnded ==
  \A c \in Clients : \A k \in Requests :
    LET t == thread[c][k]
    IN  t.pc = "done" /\ t.code = 0 /\ t.result # 0 => ~ Alive(t.server)

=============================================================================

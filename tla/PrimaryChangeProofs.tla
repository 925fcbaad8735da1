------------------------- MODULE PrimaryChangeProofs -------------------------
(***************************************************************************)
(* A client that has been told all it is due has the address of the        *)
(* primary, and takes no request for carried out that a running server     *)
(* refused: for any number of servers, clients and commands, and any       *)
(* addresses, as long as no two servers share one.                         *)
(***************************************************************************)
EXTENDS PrimaryChange, TLAPS

Threads  == {"elected", "primary"}
Messages == [from : Servers, by : Threads, written : BOOLEAN]

InboxOK == inbox \in [Clients -> Seq(Messages)]

\* A request that has been sent has a server, and one executed has a result.
ThreadOK ==
  \A c \in Clients : \A k \in Requests :
    /\ thread[c][k].pc \in {"sent", "executed", "done"} => thread[c][k].server \in Servers
    /\ thread[c][k].pc = "executed" => thread[c][k].result \in {0, 1}

\* What a server has started as primary goes with it.
PrimaryOK ==
  /\ \A s, t \in Servers : role[s] = "primary" /\ role[t] = "primary" => s = t
  /\ \A e \in events : role[e[2]] = "backup" /\ \E s \in Servers : role[s] = "primary"
  /\ \A x \in informing : \E s \in Servers : role[s] = "primary" /\ x[2] \in client_sessions[s]

\* No server knows a client that is logging in, and it has the address it discovered.
Unknown(c) ==
  /\ \A s \in Servers : c \notin client_sessions[s]
  /\ \A e \in events : e[1] # c
  /\ inbox[c] = << >> /\ listener[c] = NoPort

Discovered(c, d) ==
  /\ role[d] # "backup"
  /\ frontend[c] = Address[d]
  /\ thread[c][0].pc = "connect" => thread[c][0].ip = Address[d].ip
  /\ thread[c][0].pc = "sent" => thread[c][0].server = d

LoggingIn(c) == thread[c][0].pc \in {"discover", "host", "connect", "sent"}

LoginOK ==
  \A c \in Clients :
    LoggingIn(c) =>
      /\ Unknown(c)
      /\ thread[c][0].pc # "discover" => \E d \in Servers : Discovered(c, d)

\* The last a client has heard is the word of s: it waits, or is half stored, or is stored.
Told(s, c) ==
  IF inbox[c] # << >> THEN inbox[c][Len(inbox[c])].from = s
  ELSE IF listener[c] # NoPort
       THEN frontend[c].ip = Address[s].ip /\ listener[c] = Address[s].port
       ELSE frontend[c] = Address[s]

Due(c) == \E by \in Threads : << by, c >> \in informing

ToldOK ==
  \A s \in Servers : role[s] = "primary" =>
    \A c \in client_sessions[s] \ gone : Due(c) \/ Told(s, c)

IInv == /\ TypeOK /\ InboxOK /\ ThreadOK /\ PrimaryOK /\ LoginOK /\ ToldOK
        /\ UnansweredServerEnded

-----------------------------------------------------------------------------
Pcs     == {"unused", "discover", "host", "connect", "sent", "executed", "done"}
Records == [pc : Pcs, ip : Places, server : Servers \cup {NoServer},
            result : {NotExecuted, 0, 1}, code : {0, 1}]

LEMMA Zero == 0 \in Requests /\ Requests \subseteq Nat
  BY PrimaryChangeAssumption DEF Requests

LEMMA LastOne ==
  ASSUME NEW S, NEW q \in Seq(S), q # << >>, Tail(q) = << >>
  PROVE  Head(q) = q[Len(q)]
<1>1. Len(Tail(q)) = Len(q) - 1
  OBVIOUS
<1>2. Len(<< >>) = 0
  OBVIOUS
<1>3. Len(Tail(q)) = 0
  BY <1>2, Zenon
<1>4. Len(q) = 1
  BY <1>1, <1>3
<1> QED
  BY <1>4

LEMMA Addresses ==
  /\ \A s \in Servers : Address[s] \in [ip : Places, port : Ports]
  /\ \A s \in Servers : Address[s].port # NoPort
  /\ \A s, t \in Servers : Address[s] = Address[t] => s = t
<1>1. Address \in [Servers -> [ip : STRING, port : Nat \ {0}]]
  BY PrimaryChangeAssumption
<1>2. ASSUME NEW s \in Servers
      PROVE  Address[s] \in [ip : Places, port : Ports] /\ Address[s].port # NoPort
  BY <1>1 DEF Places, Ports, NoPort
<1> QED
  BY <1>2, PrimaryChangeAssumption

\* What each variable's type says, with names for the sets of TypeOK.
LEMMA Types ==
  ASSUME TypeOK
  PROVE  /\ role \in [Servers -> {"backup", "primary", "dead"}]
         /\ client_sessions \in [Servers -> SUBSET Clients]
         /\ events \subseteq Clients \X Servers
         /\ informing \subseteq Threads \X Clients
         /\ frontend \in [Clients -> [ip : Places, port : Ports]]
         /\ listener \in [Clients -> Ports]
         /\ thread \in [Clients -> [Requests -> Records]]
         /\ gone \subseteq Clients
  BY DEF TypeOK, Threads, Records, Pcs

LEMMA NextTypes ==
  ASSUME role' \in [Servers -> {"backup", "primary", "dead"}],
         client_sessions' \in [Servers -> SUBSET Clients],
         events' \subseteq Clients \X Servers,
         informing' \subseteq Threads \X Clients,
         frontend' \in [Clients -> [ip : Places, port : Ports]],
         listener' \in [Clients -> Ports],
         thread' \in [Clients -> [Requests -> Records]],
         gone' \subseteq Clients,
         InboxOK'
  PROVE  TypeOK'
<1>1. \A c \in Clients : \A k \in DOMAIN inbox'[c] : inbox'[c][k] \in Messages
  BY DEF InboxOK
<1> QED
  BY <1>1 DEF TypeOK, Threads, Records, Pcs, Messages

LEMMA InitIInv == Init => IInv
<1> SUFFICES ASSUME Init PROVE IInv
  OBVIOUS
<1> USE Zero
<1>1. InboxOK
  BY DEF Init, InboxOK
<1>2. \A c \in Clients : \A k \in Requests :
        /\ thread[c][k] \in Records
        /\ thread[c][k].pc \in {"unused", "discover"}
        /\ k = 0 => thread[c][k].pc = "discover"
  BY DEF Init, Unused, Records, Pcs, Places, NoServer, NotExecuted
<1>3. TypeOK
  <2>1. thread \in [Clients -> [Requests -> Records]]
    BY <1>2 DEF Init
  <2>2. frontend \in [Clients -> [ip : Places, port : Ports]] /\ listener \in [Clients -> Ports]
    BY DEF Init, Places, Ports
  <2>3. /\ role \in [Servers -> {"backup", "primary", "dead"}]
        /\ client_sessions \in [Servers -> SUBSET Clients]
        /\ events \subseteq Clients \X Servers
        /\ informing \subseteq Threads \X Clients
        /\ gone \subseteq Clients
    BY DEF Init
  <2>4. \A c \in Clients : \A k \in DOMAIN inbox[c] : inbox[c][k] \in Messages
    BY <1>1 DEF InboxOK
  <2> QED
    BY <2>1, <2>2, <2>3, <2>4 DEF TypeOK, Threads, Records, Pcs, Messages
<1>4. ThreadOK /\ UnansweredServerEnded
  BY <1>2 DEF ThreadOK, UnansweredServerEnded
<1>5. PrimaryOK
  BY PrimaryChangeAssumption DEF Init, PrimaryOK
<1>6. LoginOK
  BY <1>2 DEF LoginOK, LoggingIn, Init, Unknown
<1>7. ToldOK
  BY DEF ToldOK, Init
<1> QED
  BY <1>1, <1>3, <1>4, <1>5, <1>6, <1>7 DEF IInv

-----------------------------------------------------------------------------
(***************************************************************************)
(* How a step changes the thread of a request.                             *)
(***************************************************************************)
\* The steps of the requests, and what one does to its own thread.
Moves(c, k) ==
  /\ thread' \in [Clients -> [Requests -> Records]]
  /\ \A d \in Clients : \A j \in Requests :
       d # c \/ j # k => thread'[d][j] = thread[d][j]

LEMMA DiscoverMoves ==
  ASSUME TypeOK, NEW c \in Clients, Discover(c)
  PROVE  Moves(c, 0) /\ thread'[c][0] = [thread[c][0] EXCEPT !.pc = "host"]
<1>1. thread[c][0] \in Records
  BY Types, Zero
<1>2. [thread[c][0] EXCEPT !.pc = "host"] \in Records
  BY <1>1 DEF Records, Pcs
<1> QED
  BY <1>2, Types, Zero DEF Discover, Goto, Moves

LEMMA TypeMoves ==
  ASSUME TypeOK, NEW c \in Clients, NEW k \in Requests, Type(c, k)
  PROVE  Moves(c, k) /\ thread'[c][k] = [thread[c][k] EXCEPT !.pc = "host"]
<1>1. thread[c][k] \in Records
  BY Types
<1>2. [thread[c][k] EXCEPT !.pc = "host"] \in Records
  BY <1>1 DEF Records, Pcs
<1> QED
  BY <1>2, Types DEF Type, Goto, Moves

LEMMA ReadHostMoves ==
  ASSUME TypeOK, NEW c \in Clients, NEW k \in Requests, ReadHost(c, k)
  PROVE  /\ Moves(c, k)
         /\ thread'[c][k] = [thread[c][k] EXCEPT !.ip = frontend[c].ip, !.pc = "connect"]
<1>1. thread[c][k] \in Records /\ frontend[c].ip \in Places
  BY Types
<1>2. [thread[c][k] EXCEPT !.ip = frontend[c].ip, !.pc = "connect"] \in Records
  BY <1>1 DEF Records, Pcs
<1> QED
  BY <1>2, Types DEF ReadHost, Moves

\* A connect that fails ends the client and leaves the thread as it is.
LEMMA ConnectMoves ==
  ASSUME TypeOK, NEW c \in Clients, NEW k \in Requests, Connect(c, k)
  PROVE  /\ Moves(c, k)
         /\ \/ c \in gone' /\ thread' = thread
            \/ \E s \in Servers :
                 /\ Alive(s)
                 /\ Address[s] = [ip |-> thread[c][k].ip, port |-> frontend[c].port]
                 /\ thread'[c][k].server = s /\ thread'[c][k].pc = "sent"
<1>1. thread[c][k] \in Records
  BY Types
<1>2. ASSUME NEW s \in Servers
      PROVE  [thread[c][k] EXCEPT !.server = s, !.pc = "sent"] \in Records
  BY <1>1 DEF Records, Pcs
<1>3. CASE c \in gone' /\ thread' = thread
  BY <1>3, Types DEF Moves
<1>4. ASSUME NEW s \in Servers, Alive(s),
             Address[s] = [ip |-> thread[c][k].ip, port |-> frontend[c].port],
             thread' = [thread EXCEPT ![c][k].server = s, ![c][k].pc = "sent"]
      PROVE  /\ Moves(c, k)
             /\ thread'[c][k].server = s /\ thread'[c][k].pc = "sent"
  <2>1. thread'[c][k] = [thread[c][k] EXCEPT !.server = s, !.pc = "sent"]
    BY <1>4, Types
  <2>2. Moves(c, k)
    BY <1>2, <1>4, Types DEF Moves
  <2> QED
    BY <1>1, <2>1, <2>2 DEF Records
<1>5. \/ c \in gone' /\ thread' = thread
      \/ \E s \in Servers :
           /\ Alive(s)
           /\ Address[s] = [ip |-> thread[c][k].ip, port |-> frontend[c].port]
           /\ thread' = [thread EXCEPT ![c][k].server = s, ![c][k].pc = "sent"]
  BY DEF Connect
<1> QED
  BY <1>3, <1>4, <1>5

LEMMA ExecuteMoves ==
  ASSUME TypeOK, NEW c \in Clients, NEW k \in Requests, Execute(c, k)
  PROVE  /\ Moves(c, k)
         /\ \E result \in {0, 1} :
              thread'[c][k] = [thread[c][k] EXCEPT !.result = result, !.pc = "executed"]
<1>1. thread[c][k] \in Records
  BY Types
<1>2. ASSUME NEW result \in {0, 1}
      PROVE  [thread[c][k] EXCEPT !.result = result, !.pc = "executed"] \in Records
  BY <1>1 DEF Records, Pcs
<1>3. PICK result \in {0, 1} :
        thread' = [thread EXCEPT ![c][k].result = result, ![c][k].pc = "executed"]
  BY DEF Execute
<1>4. thread'[c][k] = [thread[c][k] EXCEPT !.result = result, !.pc = "executed"]
  BY <1>3, Types
<1>5. Moves(c, k)
  BY <1>2, <1>3, Types DEF Moves
<1> QED
  BY <1>4, <1>5

LEMMA ReturnMoves ==
  ASSUME TypeOK, NEW c \in Clients, NEW k \in Requests, NEW code \in {0, 1}, Return(c, k, code)
  PROVE  /\ Moves(c, k)
         /\ thread'[c][k].pc = "done" /\ thread'[c][k].code = code
         /\ thread'[c][k].server = thread[c][k].server
         /\ thread'[c][k].result = thread[c][k].result
<1>1. thread[c][k] \in Records
  BY Types
<1>2. [thread[c][k] EXCEPT !.code = code, !.pc = "done"] \in Records
  BY <1>1 DEF Records, Pcs
<1>3. thread'[c][k] = [thread[c][k] EXCEPT !.code = code, !.pc = "done"]
  BY Types DEF Return
<1>4. Moves(c, k)
  BY <1>2, Types DEF Return, Moves
<1> QED
  BY <1>1, <1>3, <1>4 DEF Records

\* A request returns 0 or what its server found, and 0 for an error only if that has ended.
LEMMA Returns ==
  ASSUME ThreadOK, NEW c \in Clients, NEW k \in Requests, Answer(c, k) \/ NoAnswer(c, k)
  PROVE  /\ thread[c][k].pc \in {"sent", "executed"}
         /\ \E code \in {0, 1} :
              /\ Return(c, k, code)
              /\ code = 0 => thread[c][k].result = 0 \/ ~ Alive(thread[c][k].server)
  BY DEF ThreadOK, Answer, NoAnswer

LEMMA RequestMoves ==
  ASSUME TypeOK, ThreadOK, NEW c \in Clients, NEW k \in Requests, Request(c, k)
  PROVE  Moves(c, k)
<1>1. CASE Answer(c, k) \/ NoAnswer(c, k)
  <2>1. PICK code \in {0, 1} : Return(c, k, code)
    BY <1>1, Returns
  <2> QED
    BY <2>1, ReturnMoves
<1>2. CASE Type(c, k)
  BY <1>2, TypeMoves
<1>3. CASE ReadHost(c, k)
  BY <1>3, ReadHostMoves
<1>4. CASE Connect(c, k)
  BY <1>4, ConnectMoves
<1>5. CASE Execute(c, k)
  BY <1>5, ExecuteMoves
<1> QED
  BY <1>1, <1>2, <1>3, <1>4, <1>5 DEF Request

-----------------------------------------------------------------------------
LEMMA TypeStep == IInv /\ [Next]_vars => TypeOK' /\ InboxOK'
<1> SUFFICES ASSUME IInv, [Next]_vars PROVE TypeOK' /\ InboxOK'
  OBVIOUS
<1>0. /\ role \in [Servers -> {"backup", "primary", "dead"}]
      /\ client_sessions \in [Servers -> SUBSET Clients]
      /\ events \subseteq Clients \X Servers
      /\ informing \subseteq Threads \X Clients
      /\ frontend \in [Clients -> [ip : Places, port : Ports]]
      /\ listener \in [Clients -> Ports]
      /\ thread \in [Clients -> [Requests -> Records]]
      /\ gone \subseteq Clients
      /\ inbox \in [Clients -> Seq(Messages)]
  BY Types DEF IInv, InboxOK
<1> USE NextTypes DEF serverVars, clientVars, InboxOK
<1>1. ASSUME NEW c \in Clients, Discover(c)
      PROVE  TypeOK' /\ InboxOK'
  BY <1>0, <1>1, DiscoverMoves, Addresses DEF IInv, Discover, Moves
<1>2. ASSUME NEW c \in Clients, NEW k \in Requests, Request(c, k)
      PROVE  TypeOK' /\ InboxOK'
  <2>1. thread' \in [Clients -> [Requests -> Records]]
    BY <1>2, RequestMoves DEF IInv, Moves
  <2>2. CASE Execute(c, k)
    <3>1. thread[c][k].server \in Servers
      BY <2>2 DEF Execute, IInv, ThreadOK
    <3>2. /\ client_sessions' \in [Servers -> SUBSET Clients]
          /\ events' \subseteq Clients \X Servers
          /\ role' = role
      BY <1>0, <2>2, <3>1 DEF Execute, Register
    <3> QED
      BY <1>0, <2>1, <2>2, <3>2 DEF Execute
  <2>3. CASE Type(c, k) \/ ReadHost(c, k)
    BY <1>0, <2>1, <2>3 DEF Type, ReadHost
  <2>4. CASE Connect(c, k)
    BY <1>0, <2>1, <2>4 DEF Connect
  <2>5. CASE Answer(c, k) \/ NoAnswer(c, k)
    BY <1>0, <2>1, <2>5 DEF Answer, NoAnswer, Return
  <2> QED
    BY <1>2, <2>2, <2>3, <2>4, <2>5 DEF Request
<1>3. ASSUME NEW c \in Clients, Listener(c)
      PROVE  TypeOK' /\ InboxOK'
  <2>1. CASE Hear(c)
    <3>1. /\ inbox[c] \in Seq(Messages) /\ inbox[c] # << >>
          /\ Head(inbox[c]) \in Messages /\ Tail(inbox[c]) \in Seq(Messages)
      BY <1>0, <2>1 DEF Hear
    <3>2. Address[Head(inbox[c]).from] \in [ip : Places, port : Ports]
      BY <3>1, Addresses DEF Messages
    <3>3. InboxOK'
      BY <1>0, <2>1, <3>1 DEF Hear
    <3>4. /\ frontend' \in [Clients -> [ip : Places, port : Ports]]
          /\ listener' \in [Clients -> Ports]
      BY <1>0, <2>1, <3>2 DEF Hear
    <3> QED
      BY <1>0, <2>1, <3>3, <3>4 DEF Hear
  <2>2. CASE StorePort(c)
    BY <1>0, <2>2 DEF StorePort, Ports
  <2>3. CASE HearNothing(c)
    BY <1>0, <2>3 DEF HearNothing
  <2> QED
    BY <1>3, <2>1, <2>2, <2>3 DEF Listener
<1>4. ASSUME NEW s \in Servers, InformConnect(s)
      PROVE  TypeOK' /\ InboxOK'
  <2>1. PICK x \in informing :
          /\ informing' = informing \ {x}
          /\ inbox' = IF x[2] \in gone THEN inbox
                       ELSE [inbox EXCEPT ![x[2]] =
                               Append(@, [from |-> s, by |-> x[1], written |-> FALSE])]
    BY <1>4 DEF InformConnect
  <2>2. x[1] \in Threads /\ x[2] \in Clients
    BY <1>0
  <2>3. [from |-> s, by |-> x[1], written |-> FALSE] \in Messages
    BY <2>2 DEF Messages
  <2>4. Append(inbox[x[2]], [from |-> s, by |-> x[1], written |-> FALSE]) \in Seq(Messages)
    BY <1>0, <2>2, <2>3
  <2>5. InboxOK'
    BY <1>0, <2>1, <2>2, <2>4
  <2> QED
    BY <1>0, <1>4, <2>1, <2>5 DEF InformConnect
<1>5. ASSUME NEW s \in Servers, InformWrite(s)
      PROVE  TypeOK' /\ InboxOK'
  <2>a. PICK c \in Clients : \E k \in DOMAIN inbox[c] :
          inbox' = [inbox EXCEPT ![c][k].written = TRUE]
    BY <1>5 DEF InformWrite
  <2>1. PICK k \in DOMAIN inbox[c] : inbox' = [inbox EXCEPT ![c][k].written = TRUE]
    BY <2>a
  <2>2. inbox[c] \in Seq(Messages) /\ inbox[c][k] \in Messages
    BY <1>0
  <2>3. [inbox[c][k] EXCEPT !.written = TRUE] \in Messages
    BY <2>2 DEF Messages
  <2>4. [inbox[c] EXCEPT ![k] = [@ EXCEPT !.written = TRUE]] \in Seq(Messages)
    BY <2>2, <2>3
  <2>5. InboxOK'
    BY <1>0, <2>1, <2>4
  <2> QED
    BY <1>0, <1>5, <2>5 DEF InformWrite
<1>6. ASSUME NEW s \in Servers, Crash(s) \/ Promote(s)
      PROVE  TypeOK' /\ InboxOK'
  BY <1>0, <1>6 DEF Crash, Promote, Threads
<1>7. CASE Replicate
  BY <1>0, <1>7 DEF Replicate
<1>8. CASE UNCHANGED vars
  BY <1>0, <1>8 DEF vars
<1> QED
  BY <1>1, <1>2, <1>3, <1>4, <1>5, <1>6, <1>7, <1>8 DEF Next, Client, Inform, Over

\* What a running server has answered it has carried out.
LEMMA ThreadStep == IInv /\ [Next]_vars => ThreadOK' /\ UnansweredServerEnded'
<1> SUFFICES ASSUME IInv, [Next]_vars PROVE ThreadOK' /\ UnansweredServerEnded'
  OBVIOUS
<1> DEFINE Good(t, r) == /\ t.pc \in {"sent", "executed", "done"} => t.server \in Servers
                         /\ t.pc = "executed" => t.result \in {0, 1}
                         /\ t.pc = "done" /\ t.code = 0 /\ t.result # 0 => r[t.server] = "dead"
<1>0. /\ \A c \in Clients : \A k \in Requests : Good(thread[c][k], role)
      /\ \A c \in Clients : \A k \in Requests : thread[c][k] \in Records
      /\ role \in [Servers -> {"backup", "primary", "dead"}]
  BY Types DEF IInv, ThreadOK, UnansweredServerEnded, Alive
<1>1. SUFFICES \A c \in Clients : \A k \in Requests : Good(thread'[c][k], role')
  BY DEF ThreadOK, UnansweredServerEnded, Alive
<1>2. ASSUME thread' = thread, \A s \in Servers : role[s] = "dead" => role'[s] = "dead"
      PROVE  \A c \in Clients : \A k \in Requests : Good(thread'[c][k], role')
  BY <1>0, <1>2
<1>3. ASSUME NEW c \in Clients, NEW k \in Requests, Moves(c, k), role' = role,
             Good(thread'[c][k], role)
      PROVE  \A d \in Clients : \A j \in Requests : Good(thread'[d][j], role')
  BY <1>0, <1>3 DEF Moves
<1>4. ASSUME NEW c \in Clients, Discover(c)
      PROVE  \A d \in Clients : \A j \in Requests : Good(thread'[d][j], role')
  <2>1. Moves(c, 0) /\ thread'[c][0] = [thread[c][0] EXCEPT !.pc = "host"]
    BY <1>4, DiscoverMoves DEF IInv
  <2>2. Good(thread'[c][0], role)
    BY <1>0, <2>1, Zero DEF Records
  <2>3. role' = role
    BY <1>4 DEF Discover, serverVars
  <2> QED
    BY <1>3, <2>1, <2>2, <2>3, Zero
<1>5. ASSUME NEW c \in Clients, NEW k \in Requests, Request(c, k)
      PROVE  \A d \in Clients : \A j \in Requests : Good(thread'[d][j], role')
  <2>0. thread[c][k] \in Records /\ Good(thread[c][k], role)
    BY <1>0
  <2>1. CASE Type(c, k) \/ ReadHost(c, k)
    <3>1. \/ thread'[c][k] = [thread[c][k] EXCEPT !.pc = "host"]
          \/ thread'[c][k] = [thread[c][k] EXCEPT !.ip = frontend[c].ip, !.pc = "connect"]
      BY <2>1, TypeMoves, ReadHostMoves DEF IInv
    <3>2. Good(thread'[c][k], role)
      BY <2>0, <3>1 DEF Records
    <3>3. Moves(c, k)
      BY <1>5, RequestMoves DEF IInv
    <3>4. role' = role
      BY <2>1 DEF Type, ReadHost, serverVars
    <3> QED
      BY <1>3, <3>2, <3>3, <3>4
  <2>2. CASE Connect(c, k)
    <3>1. \/ thread' = thread
          \/ \E s \in Servers : thread'[c][k].server = s /\ thread'[c][k].pc = "sent"
      <4>1. TypeOK
        BY DEF IInv
      <4> QED
        BY <2>2, <4>1, ConnectMoves
    <3>2. Good(thread'[c][k], role)
      BY <2>0, <3>1 DEF Records
    <3>3. Moves(c, k)
      BY <1>5, RequestMoves DEF IInv
    <3>4. role' = role
      BY <2>2 DEF Connect, serverVars
    <3> QED
      BY <1>3, <3>2, <3>3, <3>4
  <2>3. CASE Execute(c, k)
    <3>1. PICK result \in {0, 1} :
            thread'[c][k] = [thread[c][k] EXCEPT !.result = result, !.pc = "executed"]
      BY <2>3, ExecuteMoves DEF IInv
    <3>2. thread[c][k].pc = "sent"
      BY <2>3 DEF Execute
    <3>3. Good(thread'[c][k], role)
      BY <2>0, <3>1, <3>2 DEF Records
    <3>4. Moves(c, k)
      BY <2>3, ExecuteMoves DEF IInv
    <3>5. role' = role
      BY <2>3 DEF Execute, Register, serverVars
    <3> QED
      BY <1>3, <3>3, <3>4, <3>5
  <2>4. CASE Answer(c, k) \/ NoAnswer(c, k)
    <3>1. thread[c][k].pc \in {"sent", "executed"}
      BY <2>4, Returns DEF IInv
    <3>2. PICK code \in {0, 1} :
            /\ Return(c, k, code)
            /\ code = 0 => thread[c][k].result = 0 \/ ~ Alive(thread[c][k].server)
      BY <2>4, Returns DEF IInv
    <3>3. /\ thread'[c][k].pc = "done" /\ thread'[c][k].code = code
          /\ thread'[c][k].server = thread[c][k].server
          /\ thread'[c][k].result = thread[c][k].result
      <4>1. TypeOK
        BY DEF IInv
      <4> QED
        BY <3>2, <4>1, ReturnMoves
    <3>4. Good(thread'[c][k], role)
      BY <2>0, <3>1, <3>2, <3>3 DEF Records, Alive
    <3>5. Moves(c, k)
      BY <1>5, RequestMoves DEF IInv
    <3>6. role' = role
      BY <3>2 DEF Return, serverVars
    <3> QED
      BY <1>3, <3>4, <3>5, <3>6
  <2> QED
    BY <1>5, <2>1, <2>2, <2>3, <2>4 DEF Request
<1>6. ASSUME NEW c \in Clients, Listener(c)
      PROVE  \A d \in Clients : \A j \in Requests : Good(thread'[d][j], role')
  BY <1>2, <1>6 DEF Listener, Hear, StorePort, HearNothing, serverVars
<1>7. ASSUME NEW s \in Servers, Inform(s) \/ Crash(s) \/ Promote(s)
      PROVE  \A d \in Clients : \A j \in Requests : Good(thread'[d][j], role')
  <2>1. thread' = thread
    BY <1>7 DEF Inform, InformConnect, InformWrite, Crash, Promote
  <2>2. \A t \in Servers : role[t] = "dead" => role'[t] = "dead"
    BY <1>0, <1>7 DEF Inform, InformConnect, InformWrite, Crash, Promote, serverVars
  <2> QED
    BY <1>2, <2>1, <2>2
<1>8. CASE Replicate \/ UNCHANGED vars
  BY <1>2, <1>8 DEF Replicate, vars, serverVars
<1> QED
  BY <1>4, <1>5, <1>6, <1>7, <1>8 DEF Next, Client, Over

-----------------------------------------------------------------------------
(***************************************************************************)
(* A login, up to its execution, meets no other part of the system.        *)
(***************************************************************************)
\* The server that carries out a login is the primary that was discovered.
LEMMA LoginServer ==
  ASSUME IInv, NEW c \in Clients, Execute(c, 0)
  PROVE  /\ thread[c][0].server \in Servers
         /\ role[thread[c][0].server] = "primary"
         /\ frontend[c] = Address[thread[c][0].server]
         /\ Unknown(c)
<1>1. thread[c][0].pc = "sent" /\ Alive(thread[c][0].server)
  BY DEF Execute
<1>2. PICK d \in Servers : Discovered(c, d)
  BY <1>1 DEF IInv, LoginOK, LoggingIn
<1>3. Unknown(c)
  BY <1>1 DEF IInv, LoginOK, LoggingIn
<1>4. thread[c][0].server = d /\ frontend[c] = Address[d] /\ role[d] # "backup"
  BY <1>1, <1>2 DEF Discovered
<1>5. role[d] \in {"backup", "primary", "dead"}
  BY Types DEF IInv
<1> QED
  BY <1>1, <1>3, <1>4, <1>5 DEF Alive

LEMMA UnknownStays ==
  ASSUME IInv, [Next]_vars, NEW c \in Clients, LoggingIn(c), ~ Execute(c, 0)
  PROVE  Unknown(c)' /\ (Discover(c) \/ frontend'[c] = frontend[c])
<1>0. /\ Unknown(c)
      /\ frontend \in [Clients -> [ip : Places, port : Ports]]
      /\ listener \in [Clients -> Ports]
      /\ inbox \in [Clients -> Seq(Messages)]
      /\ client_sessions \in [Servers -> SUBSET Clients]
      /\ events \subseteq Clients \X Servers
      /\ informing \subseteq Threads \X Clients
  BY Types DEF IInv, LoginOK, InboxOK
<1> USE DEF Unknown, serverVars, clientVars
<1>1. ASSUME NEW d \in Clients, Discover(d)
      PROVE  Unknown(c)' /\ (Discover(c) \/ frontend'[c] = frontend[c])
  BY <1>0, <1>1 DEF Discover
<1>2. ASSUME NEW d \in Clients, NEW k \in Requests, Request(d, k)
      PROVE  Unknown(c)' /\ (Discover(c) \/ frontend'[c] = frontend[c])
  <2>1. CASE Execute(d, k)
    <3>2. CASE k = 0
      <4>0. d # c /\ thread[d][0].server \in Servers
        BY <2>1, <3>2, LoginServer
      <4>a. Register(d, thread[d][0].server)
        BY <2>1, <3>2 DEF Execute
      <4>b. \A s \in Servers : client_sessions'[s] \subseteq client_sessions[s] \cup {d}
        BY <1>0, <4>0, <4>a DEF Register
      <4>1. /\ \A s \in Servers : client_sessions'[s] \subseteq client_sessions[s] \cup {d}
            /\ \A e \in events' : e \in events \/ e[1] = d
        BY <4>a, <4>b DEF Register
      <4>2. UNCHANGED clientVars
        BY <2>1 DEF Execute
      <4> QED
        BY <1>0, <4>0, <4>1, <4>2
    <3>3. CASE k # 0
      BY <1>0, <2>1, <3>3 DEF Execute
    <3> QED
      BY <3>2, <3>3
  <2>2. CASE ~ Execute(d, k)
    BY <1>0, <1>2, <2>2 DEF Request, Type, ReadHost, Connect, Answer, NoAnswer, Return
  <2> QED
    BY <2>1, <2>2
<1>3. ASSUME NEW d \in Clients, Listener(d)
      PROVE  Unknown(c)' /\ (Discover(c) \/ frontend'[c] = frontend[c])
  <2>1. d # c
    BY <1>0, <1>3 DEF Listener, Hear, StorePort, HearNothing
  <2> QED
    BY <1>0, <1>3, <2>1 DEF Listener, Hear, StorePort, HearNothing
<1>4. ASSUME NEW s \in Servers, InformConnect(s)
      PROVE  Unknown(c)' /\ (Discover(c) \/ frontend'[c] = frontend[c])
  <2>1. PICK x \in informing :
          /\ informing' = informing \ {x}
          /\ inbox' = IF x[2] \in gone THEN inbox
                       ELSE [inbox EXCEPT ![x[2]] =
                               Append(@, [from |-> s, by |-> x[1], written |-> FALSE])]
    BY <1>4 DEF InformConnect
  <2>2. x[2] # c
    BY <1>0, <2>1 DEF IInv, PrimaryOK
  <2> QED
    BY <1>0, <1>4, <2>1, <2>2 DEF InformConnect
<1>5. ASSUME NEW s \in Servers, InformWrite(s)
      PROVE  Unknown(c)' /\ (Discover(c) \/ frontend'[c] = frontend[c])
  <2>1. PICK d \in Clients : \E k \in DOMAIN inbox[d] :
          inbox' = [inbox EXCEPT ![d][k].written = TRUE]
    BY <1>5 DEF InformWrite
  <2>2. d # c
    BY <1>0, <2>1
  <2>3. inbox'[c] = << >>
    BY <1>0, <2>1, <2>2
  <2> QED
    BY <1>0, <1>5, <2>3 DEF InformWrite
<1>6. ASSUME NEW s \in Servers, Crash(s) \/ Promote(s)
      PROVE  Unknown(c)' /\ (Discover(c) \/ frontend'[c] = frontend[c])
  BY <1>0, <1>6 DEF Crash, Promote
<1>7. CASE Replicate
  <2>1. PICK e \in events : /\ client_sessions' = [client_sessions EXCEPT ![e[2]] = @ \cup {e[1]}]
                            /\ events' = events \ {e}
    BY <1>7 DEF Replicate
  <2>2. e[1] # c
    BY <1>0
  <2>3. \A s \in Servers : c \notin client_sessions'[s]
    BY <1>0, <2>1, <2>2
  <2> QED
    BY <1>0, <1>7, <2>1, <2>3 DEF Replicate
<1>8. CASE UNCHANGED vars
  BY <1>0, <1>8 DEF vars
<1> QED
  BY <1>1, <1>2, <1>3, <1>4, <1>5, <1>6, <1>7, <1>8 DEF Next, Client, Inform, Over

LEMMA LoginStep == IInv /\ [Next]_vars => LoginOK'
<1> SUFFICES ASSUME IInv, [Next]_vars, NEW c \in Clients, LoggingIn(c)'
             PROVE  Unknown(c)' /\ (thread'[c][0].pc # "discover" => \E d \in Servers : Discovered(c, d)')
  BY DEF LoginOK
<1>0. /\ thread \in [Clients -> [Requests -> Records]]
      /\ frontend \in [Clients -> [ip : Places, port : Ports]]
      /\ role \in [Servers -> {"backup", "primary", "dead"}]
  BY Types DEF IInv
<1>1. \A s \in Servers : role[s] # "backup" => role'[s] # "backup"
  <2>1. ASSUME NEW d \in Clients, Client(d)
        PROVE  role' = role
    BY <2>1, ZenonT(30) DEF Client, Discover, Request, Type, ReadHost, Connect, Execute, Register, Answer,
       NoAnswer, Return, Listener, Hear, StorePort, HearNothing, serverVars
  <2>2. ASSUME NEW s \in Servers, Inform(s) \/ Crash(s) \/ Promote(s)
        PROVE  \A t \in Servers : role[t] # "backup" => role'[t] # "backup"
    BY <1>0, <2>2 DEF Inform, InformConnect, InformWrite, Crash, Promote, serverVars
  <2>3. CASE Replicate \/ UNCHANGED vars
    BY <2>3 DEF Replicate, vars, serverVars
  <2> QED
    BY <2>1, <2>2, <2>3 DEF Next, Over
\* The login of c has not moved.
<1>2. ASSUME thread'[c][0] = thread[c][0], ~ Execute(c, 0), ~ Discover(c)
      PROVE  Unknown(c)' /\ (thread'[c][0].pc # "discover" => \E d \in Servers : Discovered(c, d)')
  <2>1. LoggingIn(c)
    BY <1>2 DEF LoggingIn
  <2>2. Unknown(c)' /\ frontend'[c] = frontend[c]
    BY <1>2, <2>1, UnknownStays
  <2>3. ASSUME thread[c][0].pc # "discover"
        PROVE  \E d \in Servers : Discovered(c, d)'
    <3>1. PICK d \in Servers : Discovered(c, d)
      BY <2>1, <2>3 DEF IInv, LoginOK
    <3>2. Discovered(c, d)'
      BY <1>1, <1>2, <2>2, <3>1 DEF Discovered
    <3> QED
      BY <3>2
  <2> QED
    BY <1>2, <2>2, <2>3
<1>3. CASE Discover(c)
  <2>1. LoggingIn(c) /\ ~ Execute(c, 0)
    BY <1>3 DEF Discover, LoggingIn, Execute
  <2>2. Unknown(c)'
    BY <2>1, UnknownStays
  <2>3. PICK s \in Servers : role[s] = "primary" /\ frontend' = [frontend EXCEPT ![c] = Address[s]]
    BY <1>3 DEF Discover
  <2>4. frontend'[c] = Address[s] /\ role'[s] # "backup"
    BY <1>0, <1>1, <2>3
  <2>5. thread'[c][0].pc = "host"
    BY <1>0, <1>3, Zero DEF Discover, Goto, Records
  <2>6. Discovered(c, s)'
    BY <2>4, <2>5 DEF Discovered
  <2> QED
    BY <2>2, <2>6
<1>4. CASE Request(c, 0)
  <2>0. thread[c][0] \in Records /\ TypeOK
    BY <1>0, Zero DEF IInv
  <2>1. CASE Type(c, 0)
    BY <2>1 DEF Type
  <2>2. CASE ReadHost(c, 0)
    <3>1. LoggingIn(c) /\ ~ Execute(c, 0) /\ ~ Discover(c) /\ thread[c][0].pc # "discover"
      BY <2>2 DEF ReadHost, LoggingIn, Execute, Discover
    <3>2. Unknown(c)' /\ frontend'[c] = frontend[c]
      BY <3>1, UnknownStays
    <3>3. PICK d \in Servers : Discovered(c, d)
      BY <3>1 DEF IInv, LoginOK
    <3>4. thread'[c][0].ip = frontend[c].ip /\ thread'[c][0].pc = "connect"
      BY <2>0, <2>2, ReadHostMoves, Zero, ZenonT(30) DEF Records
    <3>5. Discovered(c, d)'
      BY <1>1, <3>2, <3>3, <3>4 DEF Discovered
    <3> QED
      BY <3>2, <3>5
  <2>3. CASE Connect(c, 0)
    <3>1. LoggingIn(c) /\ ~ Execute(c, 0) /\ ~ Discover(c) /\ thread[c][0].pc = "connect"
      BY <2>3 DEF Connect, LoggingIn, Execute, Discover
    <3>2. Unknown(c)' /\ frontend'[c] = frontend[c]
      BY <3>1, UnknownStays
    <3>3. PICK d \in Servers : Discovered(c, d)
      BY <3>1 DEF IInv, LoginOK
    <3>4. \/ thread' = thread
          \/ \E s \in Servers :
               /\ Address[s] = [ip |-> thread[c][0].ip, port |-> frontend[c].port]
               /\ thread'[c][0].server = s /\ thread'[c][0].pc = "sent"
      BY <2>0, <2>3, ConnectMoves, Zero
    <3>5. CASE thread' = thread
      BY <1>2, <3>1, <3>5
    <3>6. ASSUME NEW s \in Servers,
                 Address[s] = [ip |-> thread[c][0].ip, port |-> frontend[c].port],
                 thread'[c][0].server = s, thread'[c][0].pc = "sent"
          PROVE  Discovered(c, d)'
      <4>1. Address[d] = [ip |-> thread[c][0].ip, port |-> frontend[c].port]
        BY <3>1, <3>3, Addresses DEF Discovered
      <4>2. s = d
        BY <3>6, <4>1, Addresses
      <4> QED
        BY <1>1, <3>2, <3>3, <3>6, <4>2 DEF Discovered
    <3> QED
      BY <3>2, <3>4, <3>5, <3>6
  <2>4. CASE Execute(c, 0)
    <3>1. thread'[c][0].pc = "executed"
      BY <2>0, <2>4, ExecuteMoves, Zero DEF Records
    <3> QED
      BY <3>1 DEF LoggingIn
  <2>5. CASE Answer(c, 0) \/ NoAnswer(c, 0)
    <3>1. PICK code \in {0, 1} : Return(c, 0, code)
      BY <2>5, Returns, Zero DEF IInv
    <3>2. thread'[c][0].pc = "done"
      BY <2>0, <3>1, ReturnMoves, Zero
    <3> QED
      BY <3>2 DEF LoggingIn
  <2> QED
    BY <1>4, <2>1, <2>2, <2>3, <2>4, <2>5 DEF Request
<1>5. ASSUME ~ Discover(c), ~ Request(c, 0)
      PROVE  thread'[c][0] = thread[c][0]
  <2>1. ASSUME NEW d \in Clients, Discover(d)
        PROVE  thread'[c][0] = thread[c][0]
    <3>1. Moves(d, 0)
      BY <2>1, DiscoverMoves DEF IInv
    <3> QED
      BY <1>5, <2>1, <3>1, Zero DEF Moves
  <2>2. ASSUME NEW d \in Clients, NEW k \in Requests, Request(d, k)
        PROVE  thread'[c][0] = thread[c][0]
    <3>1. Moves(d, k)
      BY <2>2, RequestMoves DEF IInv
    <3>2. d # c \/ k # 0
      BY <1>5, <2>2
    <3> QED
      BY <3>1, <3>2, Zero DEF Moves
  <2>3. \/ \E d \in Clients : Discover(d)
        \/ \E d \in Clients : \E k \in Requests : Request(d, k)
        \/ thread' = thread
    BY DEF Next, Client, Listener, Hear, StorePort, HearNothing, Inform, InformConnect, InformWrite,
       Crash, Promote, Replicate, Over, vars
  <2> QED
    BY <2>1, <2>2, <2>3
<1>6. Execute(c, 0) => Request(c, 0)
  BY DEF Request
<1> QED
  BY <1>2, <1>3, <1>4, <1>5, <1>6

-----------------------------------------------------------------------------
LEMMA PrimaryStep == IInv /\ [Next]_vars => PrimaryOK'
<1> SUFFICES ASSUME IInv, [Next]_vars PROVE PrimaryOK'
  OBVIOUS
<1>0. /\ role \in [Servers -> {"backup", "primary", "dead"}]
      /\ client_sessions \in [Servers -> SUBSET Clients]
      /\ events \subseteq Clients \X Servers
      /\ informing \subseteq Threads \X Clients
      /\ PrimaryOK
  BY Types DEF IInv
<1> USE DEF PrimaryOK, serverVars
\* The roles are as they were, and nothing has been started but events of the primary.
<1>1. ASSUME role' = role, informing' \subseteq informing,
             \A s \in Servers : client_sessions[s] \subseteq client_sessions'[s],
             \A e \in events' : e \in events \/ (role[e[2]] = "backup" /\ \E s \in Servers : role[s] = "primary")
      PROVE  PrimaryOK'
  BY <1>0, <1>1
<1>2. ASSUME NEW c \in Clients, Client(c)
      PROVE  PrimaryOK'
  <2>1. CASE Execute(c, 0)
    <3>1. thread[c][0].server \in Servers /\ role[thread[c][0].server] = "primary"
      BY <2>1, LoginServer
    <3>2. Register(c, thread[c][0].server) /\ informing' = informing
      BY <2>1 DEF Execute
    <3>3. \A s \in Servers : client_sessions[s] \subseteq client_sessions'[s]
      BY <1>0, <3>1, <3>2 DEF Register
    <3>4. \A e \in events' : e \in events \/ role[e[2]] = "backup"
      BY <3>2 DEF Register
    <3>5. role' = role
      BY <3>2 DEF Register
    <3> QED
      BY <1>1, <3>1, <3>2, <3>3, <3>4, <3>5
  <2>2. CASE ~ Execute(c, 0)
    <3>1. UNCHANGED << serverVars, informing >>
      BY <1>2, <2>2, ZenonT(30) DEF Client, Discover, Listener, Hear, StorePort, HearNothing, Request, Type,
         ReadHost, Connect, Execute, Answer, NoAnswer, Return
    <3> QED
      BY <1>1, <3>1
  <2> QED
    BY <2>1, <2>2
<1>3. ASSUME NEW s \in Servers, Inform(s)
      PROVE  PrimaryOK'
  <2>1. UNCHANGED serverVars /\ informing' \subseteq informing
    BY <1>3 DEF Inform, InformConnect, InformWrite
  <2> QED
    BY <1>1, <2>1
<1>4. ASSUME NEW s \in Servers, Crash(s)
      PROVE  PrimaryOK'
  BY <1>0, <1>4 DEF Crash
<1>5. ASSUME NEW s \in Servers, Promote(s)
      PROVE  PrimaryOK'
  BY <1>0, <1>5 DEF Promote
<1>6. CASE Replicate
  <2>1. PICK e \in events : /\ client_sessions' = [client_sessions EXCEPT ![e[2]] = @ \cup {e[1]}]
                            /\ events' = events \ {e}
    BY <1>6 DEF Replicate
  <2>2. \A s \in Servers : client_sessions[s] \subseteq client_sessions'[s]
    BY <1>0, <2>1
  <2>3. UNCHANGED << role, informing >>
    BY <1>6 DEF Replicate
  <2> QED
    BY <1>1, <2>1, <2>2, <2>3
<1>7. CASE UNCHANGED vars
  BY <1>1, <1>7 DEF vars
<1> QED
  BY <1>2, <1>3, <1>4, <1>5, <1>6, <1>7 DEF Next, Over

(***************************************************************************)
(* The last word a client has had is that of the primary.                  *)
(***************************************************************************)
ToldNext(s, c) ==
  role'[s] = "primary" /\ c \in client_sessions'[s] \ gone' => (Due(c) \/ Told(s, c))'

\* A step that neither takes a primary's place nor touches what a client has heard.
LEMMA ToldElsewhere ==
  ASSUME ToldOK, NEW s \in Servers, NEW c \in Clients,
         role'[s] = "primary" => role[s] = "primary",
         role[s] = "primary" /\ c \in client_sessions'[s] => c \in client_sessions[s],
         gone \subseteq gone', Due(c) => Due(c)',
         frontend'[c] = frontend[c], inbox'[c] = inbox[c], listener'[c] = listener[c]
  PROVE  ToldNext(s, c)
<1>1. Told(s, c) => Told(s, c)'
  BY DEF Told
<1> QED
  BY <1>1 DEF ToldOK, ToldNext

LEMMA ToldStep == IInv /\ [Next]_vars => ToldOK'
<1> SUFFICES ASSUME IInv, [Next]_vars PROVE ToldOK'
  OBVIOUS
<1>a. client_sessions' \in [Servers -> SUBSET Clients]
  BY TypeStep DEF TypeOK
<1> SUFFICES ASSUME NEW s \in Servers, NEW c \in Clients PROVE ToldNext(s, c)
  BY <1>a DEF ToldNext, ToldOK
<1>0. /\ role \in [Servers -> {"backup", "primary", "dead"}]
      /\ client_sessions \in [Servers -> SUBSET Clients]
      /\ events \subseteq Clients \X Servers
      /\ informing \subseteq Threads \X Clients
      /\ frontend \in [Clients -> [ip : Places, port : Ports]]
      /\ listener \in [Clients -> Ports]
      /\ inbox \in [Clients -> Seq(Messages)]
      /\ ToldOK
  BY Types DEF IInv, InboxOK
<1> USE DEF serverVars, clientVars
<1>1. ASSUME NEW d \in Clients, Discover(d)
      PROVE  ToldNext(s, c)
  <2>1. UNCHANGED << role, client_sessions, informing, inbox, listener, gone >>
    BY <1>1 DEF Discover
  <2>2. CASE d = c
    <3>1. c \notin client_sessions[s]
      BY <1>1, <2>2 DEF Discover, IInv, LoginOK, LoggingIn, Unknown
    <3> QED
      BY <2>1, <3>1 DEF ToldNext
  <2>3. CASE d # c
    <3>1. frontend'[c] = frontend[c]
      BY <1>0, <1>1, <2>3 DEF Discover
    <3> QED
      BY <1>0, <2>1, <3>1, ToldElsewhere DEF Due
  <2> QED
    BY <2>2, <2>3
<1>2. ASSUME NEW d \in Clients, Execute(d, 0)
      PROVE  ToldNext(s, c)
  <2>1. /\ thread[d][0].server \in Servers
        /\ role[thread[d][0].server] = "primary"
        /\ frontend[d] = Address[thread[d][0].server]
        /\ Unknown(d)
    BY <1>2, LoginServer
  <2>2. Register(d, thread[d][0].server) /\ UNCHANGED << informing, clientVars, gone >>
    BY <1>2 DEF Execute
  <2>3. role' = role
    BY <2>2 DEF Register
  <2>4. CASE d = c /\ role[s] = "primary"
    <3>1. s = thread[d][0].server
      BY <2>1, <2>4 DEF IInv, PrimaryOK
    <3>2. Told(s, c)'
      BY <2>1, <2>2, <2>4, <3>1 DEF Told, Unknown
    <3> QED
      BY <3>2 DEF ToldNext
  <2>5. CASE d # c
    <3>1. c \in client_sessions'[s] => c \in client_sessions[s]
      BY <1>0, <2>1, <2>2, <2>5 DEF Register
    <3> QED
      BY <1>0, <2>2, <2>3, <3>1, ToldElsewhere DEF Due
  <2>6. CASE role[s] # "primary"
    BY <2>3, <2>6 DEF ToldNext
  <2> QED
    BY <2>4, <2>5, <2>6
<1>3. ASSUME NEW d \in Clients, NEW k \in Requests, Request(d, k), ~ Execute(d, 0)
      PROVE  ToldNext(s, c)
  <2>1. UNCHANGED << role, client_sessions, informing, clientVars >> /\ gone \subseteq gone'
    BY <1>3, ZenonT(30) DEF Request, Type, ReadHost, Connect, Execute, Answer, NoAnswer, Return
  <2>2. Due(c) => Due(c)'
    BY <2>1 DEF Due
  <2> QED
    BY <1>0, <2>1, <2>2, ToldElsewhere, ZenonT(30)
<1>4. ASSUME NEW d \in Clients, Listener(d)
      PROVE  ToldNext(s, c)
  <2>1. UNCHANGED << role, client_sessions, informing >> /\ gone \subseteq gone'
    BY <1>4 DEF Listener, Hear, StorePort, HearNothing
  <2>2. CASE d # c \/ HearNothing(d)
    <3>1. frontend'[c] = frontend[c] /\ inbox'[c] = inbox[c] /\ listener'[c] = listener[c]
      BY <1>0, <1>4, <2>2 DEF Listener, Hear, StorePort, HearNothing
    <3> QED
      BY <1>0, <2>1, <3>1, ToldElsewhere DEF Due
  <2>3. ASSUME d = c, Hear(c), Told(s, c)
        PROVE  Told(s, c)'
    <3>1. /\ inbox[c] \in Seq(Messages) /\ inbox[c] # << >> /\ listener[c] = NoPort
          /\ inbox'[c] = Tail(inbox[c])
          /\ frontend'[c].ip = Address[Head(inbox[c]).from].ip
          /\ listener'[c] = Address[Head(inbox[c]).from].port
      BY <1>0, <2>3 DEF Hear
    <3>a. Head(inbox[c]) \in Messages /\ Head(inbox[c]) = inbox[c][1]
      BY <3>1
    <3>b. Head(inbox[c]).from \in Servers
      BY <3>a DEF Messages
    <3>c. inbox[c][Len(inbox[c])].from = s
      BY <2>3, <3>1 DEF Told
    <3>2. Head(inbox[c]).from \in Servers /\ inbox[c][Len(inbox[c])].from = s
      BY <3>b, <3>c
    <3>3. CASE inbox'[c] = << >>
      <4>1. Head(inbox[c]) = inbox[c][Len(inbox[c])]
        BY <3>1, <3>3, LastOne
      <4>2. listener'[c] # NoPort
        BY <3>1, <3>2, Addresses
      <4> QED
        BY <3>1, <3>2, <3>3, <4>1, <4>2 DEF Told
    <3>4. CASE inbox'[c] # << >>
      <4>1. inbox'[c][Len(inbox'[c])] = inbox[c][Len(inbox[c])]
        BY <3>1, <3>4
      <4> QED
        BY <3>2, <3>4, <4>1 DEF Told
    <3> QED
      BY <3>3, <3>4
  <2>4. ASSUME d = c, StorePort(c), Told(s, c)
        PROVE  Told(s, c)'
    <3>1. /\ listener[c] # NoPort /\ listener'[c] = NoPort /\ inbox'[c] = inbox[c]
          /\ frontend'[c] = [frontend[c] EXCEPT !.port = listener[c]]
          /\ frontend[c] \in [ip : Places, port : Ports]
      BY <1>0, <2>4 DEF StorePort
    <3>2. CASE inbox[c] = << >>
      <4>1. frontend[c].ip = Address[s].ip /\ listener[c] = Address[s].port
        BY <2>4, <3>1, <3>2 DEF Told
      <4>2. frontend'[c] = Address[s]
        BY <3>1, <4>1, Addresses
      <4> QED
        BY <3>1, <3>2, <4>2 DEF Told
    <3>3. CASE inbox[c] # << >>
      BY <2>4, <3>1, <3>3 DEF Told
    <3> QED
      BY <3>2, <3>3
  <2>5. Due(c) => Due(c)'
    BY <2>1 DEF Due
  <2> QED
    BY <1>0, <1>4, <2>1, <2>2, <2>3, <2>4, <2>5 DEF Listener, ToldOK, ToldNext
<1>5. ASSUME NEW t \in Servers, InformConnect(t)
      PROVE  ToldNext(s, c)
  <2>1. PICK x \in informing :
          /\ informing' = informing \ {x}
          /\ inbox' = IF x[2] \in gone THEN inbox
                       ELSE [inbox EXCEPT ![x[2]] =
                               Append(@, [from |-> t, by |-> x[1], written |-> FALSE])]
    BY <1>5 DEF InformConnect
  <2>2. role[t] = "primary" /\ UNCHANGED << serverVars, frontend, listener, gone >>
    BY <1>5 DEF InformConnect
  <2>3. x[1] \in Threads /\ x[2] \in Clients /\ x = << x[1], x[2] >>
    BY <1>0
  <2>4. CASE x[2] # c \/ c \in gone
    <3>1. inbox'[c] = inbox[c]
      BY <1>0, <2>1, <2>3, <2>4
    <3>2. CASE c \in gone
      BY <2>2, <3>2 DEF ToldNext
    <3>3. CASE x[2] # c
      <4>1. Due(c) => Due(c)'
        BY <2>1, <3>3 DEF Due
      <4> QED
        BY <1>0, <2>2, <3>1, <4>1, ToldElsewhere
    <3> QED
      BY <2>4, <3>2, <3>3
  <2>5. CASE x[2] = c /\ c \notin gone
    <3>1. inbox[c] \in Seq(Messages) /\ inbox'[c] = Append(inbox[c], [from |-> t, by |-> x[1], written |-> FALSE])
      BY <1>0, <2>1, <2>3, <2>5
    <3>2. inbox'[c] # << >> /\ inbox'[c][Len(inbox'[c])].from = t
      BY <3>1
    <3>3. role'[s] = "primary" => s = t
      BY <2>2 DEF IInv, PrimaryOK
    <3> QED
      BY <3>2, <3>3 DEF ToldNext, Told
  <2> QED
    BY <2>4, <2>5
<1>6. ASSUME NEW t \in Servers, InformWrite(t)
      PROVE  ToldNext(s, c)
  <2>1. UNCHANGED << serverVars, informing, frontend, listener, gone >>
    BY <1>6 DEF InformWrite
  <2>2. PICK d \in Clients : \E k \in DOMAIN inbox[d] :
          inbox' = [inbox EXCEPT ![d][k].written = TRUE]
    BY <1>6 DEF InformWrite
  <2>3. PICK k \in DOMAIN inbox[d] : inbox' = [inbox EXCEPT ![d][k].written = TRUE]
    BY <2>2
  <2>4. CASE d # c
    <3>1. inbox'[c] = inbox[c]
      BY <1>0, <2>3, <2>4
    <3> QED
      BY <1>0, <2>1, <3>1, ToldElsewhere DEF Due
  <2>5. CASE d = c
    <3>1. inbox[c] \in Seq(Messages) /\ inbox'[c] = [inbox[c] EXCEPT ![k] = [@ EXCEPT !.written = TRUE]]
      BY <1>0, <2>3, <2>5
    <3>2. /\ inbox'[c] # << >> /\ inbox[c] # << >>
          /\ inbox'[c][Len(inbox'[c])].from = inbox[c][Len(inbox[c])].from
      <4>1. \A j \in DOMAIN inbox[c] : inbox[c][j] \in Messages
        BY <3>1
      <4>2. Len(inbox'[c]) = Len(inbox[c]) /\ Len(inbox[c]) \in DOMAIN inbox[c]
        BY <2>3, <2>5, <3>1
      <4>3. \A j \in DOMAIN inbox[c] : inbox'[c][j].from = inbox[c][j].from
        BY <3>1, <4>1 DEF Messages
      <4> QED
        BY <2>3, <2>5, <3>1, <4>2, <4>3
    <3>3. Told(s, c) => Told(s, c)'
      BY <3>2 DEF Told
    <3> QED
      BY <1>0, <2>1, <3>3 DEF ToldOK, ToldNext, Due
  <2> QED
    BY <2>4, <2>5
<1>7. ASSUME NEW t \in Servers, Crash(t)
      PROVE  ToldNext(s, c)
  <2>1. role'[s] # "primary"
    BY <1>0, <1>7 DEF Crash, IInv, PrimaryOK
  <2> QED
    BY <2>1 DEF ToldNext
<1>8. ASSUME NEW t \in Servers, Promote(t)
      PROVE  ToldNext(s, c)
  <2>1. role'[s] = "primary" => s = t
    BY <1>0, <1>8 DEF Promote
  <2>2. s = t /\ c \in client_sessions[s] => Due(c)'
    BY <1>8 DEF Promote, Due, Threads
  <2>3. client_sessions' = client_sessions
    BY <1>8 DEF Promote
  <2> QED
    BY <2>1, <2>2, <2>3 DEF ToldNext
<1>9. CASE Replicate
  <2>1. PICK e \in events : client_sessions' = [client_sessions EXCEPT ![e[2]] = @ \cup {e[1]}]
    BY <1>9 DEF Replicate
  <2>2. UNCHANGED << role, informing, clientVars, gone >>
    BY <1>9 DEF Replicate
  <2>3. role[s] = "primary" => e[2] # s
    BY DEF IInv, PrimaryOK
  <2>4. role[s] = "primary" => client_sessions'[s] = client_sessions[s]
    BY <1>0, <2>1, <2>3
  <2> QED
    BY <1>0, <2>2, <2>4, ToldElsewhere DEF Due
<1>10. CASE UNCHANGED vars
  BY <1>0, <1>10, ToldElsewhere DEF vars, Due
<1> QED
  BY <1>1, <1>2, <1>3, <1>4, <1>5, <1>6, <1>7, <1>8, <1>9, <1>10 DEF Next, Client, Inform, Over

-----------------------------------------------------------------------------
LEMMA Inductive == Spec => []IInv
<1>1. IInv /\ [Next]_vars => IInv'
  BY TypeStep, ThreadStep, PrimaryStep, LoginStep, ToldStep DEF IInv
<1> QED
  BY <1>1, InitIInv, PTL DEF Spec

\* The types of the variables.
THEOREM TypeCorrect == Spec => []TypeOK
<1>1. IInv => TypeOK
  BY DEF IInv
<1> QED
  BY <1>1, Inductive, PTL

(***************************************************************************)
(* updatePrimaryServer: for any number of servers, clients and commands, a *)
(* client that has been told all it is due has the primary's address.      *)
(***************************************************************************)
THEOREM ClientsInformed == Spec => []InformedClients
<1>1. IInv => InformedClients
  BY DEF IInv, ToldOK, Told, Due, Threads, InformedClients
<1> QED
  BY <1>1, Inductive, PTL

(***************************************************************************)
(* sendPacket: a request that was not carried out is taken for one that    *)
(* was only if its server has ended.                                       *)
(***************************************************************************)
THEOREM RefusalsKept == Spec => []UnansweredServerEnded
<1>1. IInv => UnansweredServerEnded
  BY DEF IInv
<1> QED
  BY <1>1, Inductive, PTL
=============================================================================

------------------------- MODULE ServerRequestsProofs -------------------------
(***************************************************************************)
(* The sessions of a primary, the addresses of its clients, and the        *)
(* notifications that are kept for or sent to them, for any                *)
(* users, connections and follows.                                         *)
(*                                                                         *)
(* What the invariants rest on is where the thread of a session's login    *)
(* is: a session is only ever known by its connection, and its address is  *)
(* stored before the login is answered and never erased again.             *)
(***************************************************************************)
EXTENDS ServerRequests, ProfileOpsProofs, SequenceTheorems

\* The statements between a login's opening of a session and its storing the address.
Unregistered == {"read_notifications", "deliver", "register"}

PlaceOK ==
  /\ pc \in [Connections -> Labels]
  /\ req \in [Connections -> Packet \cup {NoPacket}]
  /\ \A c \in Connections :
       /\ pc[c] \notin {"idle", "read"} => req[c] \in Packet
       /\ pc[c] \in {"login"} \cup Unregistered => req[c].cookie = NO_COOKIE
       /\ pc[c] \in {"logout", "unregister"} => req[c].cookie # NO_COOKIE

\* Where a thread is in its two loops.
LoopOK ==
  \A c \in Connections :
    /\ pc[c] = "deliver" => notifications[c] # << >>
    /\ pc[c] \in {"idle", "read", "tweet"} => i[c] = 1
    /\ i[c] >= 1
    /\ pc[c] \in {"sessions", "add_pending"} => i[c] <= Len(followed_by[c])

\* A session somebody can find: it is a connection, and its address is stored
\* unless its login is still about to.
Known(s) ==
  /\ s \in Connections
  /\ pc[s] \in Unregistered \/ (pc[s] \in {"write", "done"} /\ s \in DOMAIN client_sessions)

SessionsOK ==
  /\ sessions_map \in [Users -> Seq(Connections)]
  /\ \A u \in Users : \A s \in ToSet(sessions_map[u]) : Known(s)

SendOK ==
  /\ notifications_to_send \in [Connections -> SUBSET Connections]
  /\ \A c \in Connections : \A s \in notifications_to_send[c] : Known(s)

\* While a connection is served, cli_addr is its own address or it is overtaken.
AddressOK ==
  /\ OwnAddress
  /\ \A c \in Connections : pc[c] # "idle" => cli_addr \in Connections
  /\ \A c \in Serving : cli_addr = c \/ c \in overtaken

IInv == TypeOK /\ PlaceOK /\ LoopOK /\ SessionsOK /\ SendOK /\ AddressOK /\ ThrowNeedsUnregisteredLogin

-----------------------------------------------------------------------------
LEMMA CookieIds == {EarlierCookie, NO_COOKIE} \cap Connections = {} /\ EmptyId \notin Connections
  BY RequestAssumption, IdAssumption DEF SessionIds

\* A packet's cookie is none exactly if it is a login.
LEMMA PacketCookies ==
  ASSUME NEW r \in ClientPackets
  PROVE  /\ r \in Packet
         /\ r.op \in {"login", "follow", "logout", "tweet"}
         /\ r.op = "login" => r.cookie = NO_COOKIE
         /\ r.op = "logout" => r.cookie # NO_COOKIE
<1>1. /\ r \in Packet
      /\ r.op = "login" => r.cookie = NO_COOKIE
      /\ r.op = "logout" => r.cookie \in CookiesOf(r.user)
  BY DEF ClientPackets
<1>2. r.op \in {"login", "follow", "logout", "tweet"}
  BY <1>1 DEF Packet
<1>3. \A u : NO_COOKIE \notin CookiesOf(u)
  BY CookieIds, RequestAssumption DEF CookiesOf
<1> QED
  BY <1>1, <1>2, <1>3

-----------------------------------------------------------------------------
THEOREM InitOK == Init => IInv
<1> SUFFICES ASSUME Init PROVE IInv
  OBVIOUS
<1>0. TypeOK
  <2>1. \A u \in Users :
          /\ SetToSeq({v \in Users : << u, v >> \in Follows}) \in Seq(Users)
          /\ SetToSeq({v \in Users : << v, u >> \in Follows}) \in Seq(Users)
    <3>1. \A T \in SUBSET Users : SetToSeq(T) \in Seq(Users)
      BY RequestAssumption, SetListed, FS_Subset
    <3> QED
      BY <3>1
  <2>2. /\ followers_map \in [Users -> Seq(Users)]
        /\ followed_by_map \in [Users -> Seq(Users)]
    BY <2>1 DEF Init
  <2>3. /\ sessions_map \in [Users -> Seq(SessionIds)]
        /\ \A u \in Users : Len(sessions_map[u]) <= SESSIONS_LIMIT
        /\ pending_notifications \in [Users -> Seq(Connections)]
        /\ followed_by \in [Connections -> Seq(Users)]
        /\ notifications \in [Connections -> Seq(Connections)]
    BY DEF Init, SESSIONS_LIMIT
  <2>4. pc \in [Connections -> Labels] /\ response_code \in [Connections -> Codes]
    BY DEF Init, Labels, Codes
  <2>5. DOMAIN client_sessions = {}
    BY DEF Init
  <2>6. crashed \in Ends
    BY DEF Init, Ends
  <2> QED
    BY <2>2, <2>3, <2>4, <2>5, <2>6 DEF Init, TypeOK
<1>1. PlaceOK /\ LoopOK
  BY DEF Init, PlaceOK, LoopOK, Unregistered, Labels
<1>2. SessionsOK
  BY DEF Init, SessionsOK, ToSet
<1>3. SendOK
  BY DEF Init, SendOK
<1>4. AddressOK
  BY DEF Init, AddressOK, OwnAddress, Serving
<1>5. ThrowNeedsUnregisteredLogin
  BY DEF Init, ThrowNeedsUnregisteredLogin
<1> QED
  BY <1>0, <1>1, <1>2, <1>3, <1>4, <1>5 DEF IInv

-----------------------------------------------------------------------------
(***************************************************************************)
(* What a step of the thread of connection c leaves alone.                 *)
(***************************************************************************)
LEMMA Frame ==
  ASSUME PlaceOK, NEW c \in Connections, Thread(c)
  PROVE  /\ pc' \in [Connections -> Labels]
         /\ req' \in [Connections -> Packet \cup {NoPacket}]
         /\ \A d \in Connections \ {c} : pc'[d] = pc[d] /\ req'[d] = req[d]
         /\ pc[c] # "read" => req'[c] = req[c]
<1> USE DEF PlaceOK, Goto, At, Labels
<1>1. CASE Accept(c)
  BY <1>1 DEF Accept
<1>2. CASE Receive(c)
  BY <1>2, PacketCookies DEF Receive
<1>3. CASE Login(c)
  BY <1>3 DEF Login
<1>4. CASE ReadNotifications(c)
  BY <1>4 DEF ReadNotifications
<1>5. CASE Deliver(c)
  BY <1>5 DEF Deliver
<1>6. CASE Follow(c)
  BY <1>6 DEF Follow
<1>7. CASE Logout(c)
  BY <1>7 DEF Logout
<1>8. CASE ReadFollowed(c)
  BY <1>8 DEF ReadFollowed
<1>9. CASE ReadOpenSessions(c)
  BY <1>9 DEF ReadOpenSessions, NextFollower
<1>10. CASE AddPendingNotification(c)
  BY <1>10 DEF AddPendingNotification, NextFollower
<1>11. CASE SendTweet(c)
  BY <1>11 DEF SendTweet
<1>12. CASE Register(c)
  BY <1>12 DEF Register
<1>13. CASE Unregister(c)
  BY <1>13 DEF Unregister
<1>14. CASE Write(c)
  BY <1>14 DEF Write
<1> QED
  BY <1>1, <1>2, <1>3, <1>4, <1>5, <1>6, <1>7, <1>8, <1>9, <1>10, <1>11, <1>12, <1>13, <1>14 DEF Thread

LEMMA Changes ==
  ASSUME NEW c \in Connections, Thread(c)
  PROVE  /\ sessions_map' = sessions_map \/ Login(c) \/ Logout(c)
         /\ notifications_to_send' = notifications_to_send \/ ReadOpenSessions(c) \/ SendTweet(c)
         /\ client_sessions' = client_sessions \/ Register(c) \/ Unregister(c)
         /\ UNCHANGED << cli_addr, overtaken >> \/ Accept(c)
         /\ crashed = "no" /\ (crashed' = "no" \/ Deliver(c) \/ SendTweet(c))
<1> USE DEF Thread, profileVars, addressVars, tweetVars
<1>1. CASE Accept(c)
  BY <1>1 DEF Accept
<1>2. CASE Receive(c)
  BY <1>2 DEF Receive
<1>3. CASE Login(c)
  BY <1>3 DEF Login
<1>4. CASE ReadNotifications(c)
  BY <1>4 DEF ReadNotifications
<1>5. CASE Deliver(c)
  BY <1>5 DEF Deliver
<1>6. CASE Follow(c)
  BY <1>6 DEF Follow
<1>7. CASE Logout(c)
  BY <1>7 DEF Logout
<1>8. CASE ReadFollowed(c)
  BY <1>8 DEF ReadFollowed
<1>9. CASE ReadOpenSessions(c)
  BY <1>9 DEF ReadOpenSessions
<1>10. CASE AddPendingNotification(c)
  BY <1>10 DEF AddPendingNotification
<1>11. CASE SendTweet(c)
  BY <1>11 DEF SendTweet
<1>12. CASE Register(c)
  BY <1>12 DEF Register
<1>13. CASE Unregister(c)
  BY <1>13 DEF Unregister
<1>14. CASE Write(c)
  BY <1>14 DEF Write
<1> QED
  BY <1>1, <1>2, <1>3, <1>4, <1>5, <1>6, <1>7, <1>8, <1>9, <1>10, <1>11, <1>12, <1>13, <1>14 DEF Thread

LEMMA PlaceStep ==
  ASSUME PlaceOK, NEW c \in Connections, Thread(c)
  PROVE  PlaceOK'
<1> USE DEF PlaceOK, Goto, At, Unregistered
<1> DEFINE Here == /\ pc'[c] \notin {"idle", "read"} => req'[c] \in Packet
                   /\ pc'[c] \in {"login"} \cup Unregistered => req'[c].cookie = NO_COOKIE
                   /\ pc'[c] \in {"logout", "unregister"} => req'[c].cookie # NO_COOKIE
<1>1. ASSUME Accept(c) PROVE Here
  BY <1>1 DEF Accept
<1>2. ASSUME Receive(c) PROVE Here
  BY <1>2, PacketCookies DEF Receive
<1>3. ASSUME Login(c) PROVE Here
  BY <1>3 DEF Login
<1>4. ASSUME ReadNotifications(c) PROVE Here
  BY <1>4 DEF ReadNotifications
<1>5. ASSUME Deliver(c) PROVE Here
  BY <1>5 DEF Deliver
<1>6. ASSUME Follow(c) PROVE Here
  BY <1>6 DEF Follow
<1>7. ASSUME Logout(c) PROVE Here
  BY <1>7 DEF Logout
<1>8. ASSUME ReadFollowed(c) PROVE Here
  BY <1>8 DEF ReadFollowed
<1>9. ASSUME ReadOpenSessions(c) PROVE Here
  BY <1>9 DEF ReadOpenSessions, NextFollower
<1>10. ASSUME AddPendingNotification(c) PROVE Here
  BY <1>10 DEF AddPendingNotification, NextFollower
<1>11. ASSUME SendTweet(c) PROVE Here
  BY <1>11 DEF SendTweet
<1>12. ASSUME Register(c) PROVE Here
  BY <1>12 DEF Register
<1>13. ASSUME Unregister(c) PROVE Here
  BY <1>13 DEF Unregister
<1>14. ASSUME Write(c) PROVE Here
  BY <1>14 DEF Write
<1> QED
  <2>1. Here
    BY <1>1, <1>2, <1>3, <1>4, <1>5, <1>6, <1>7, <1>8, <1>9, <1>10, <1>11, <1>12, <1>13, <1>14 DEF Thread
  <2> QED
    BY <2>1, Frame

-----------------------------------------------------------------------------
(***************************************************************************)
(* A session that is known stays so: no logout erases its address, since   *)
(* start_client_thread looks for the empty cookie.                         *)
(***************************************************************************)
LEMMA KnownStays ==
  ASSUME PlaceOK, NEW c \in Connections, Thread(c), NEW s, Known(s)
  PROVE  Known(s)'
<1>1. s \in DOMAIN client_sessions => s \in DOMAIN client_sessions'
  <2>1. CASE Register(c)
    BY <2>1 DEF Register
  <2>2. CASE Unregister(c)
    <3>1. CookieOf(c) = EmptyId
      BY <2>2 DEF Unregister, At, PlaceOK, CookieOf
    <3> QED
      BY <2>2, <3>1, CookieIds DEF Unregister, Restrict, Known
  <2> QED
    BY <2>1, <2>2, Changes
<1>2. CASE s # c
  BY <1>1, <1>2, Frame DEF Known
<1>3. CASE s = c
  <2>1. pc[c] \in Unregistered \cup {"write", "done"}
    BY <1>3 DEF Known
  <2>2. \/ ReadNotifications(c) \/ Deliver(c) \/ Register(c) \/ Write(c)
    BY <2>1 DEF Unregistered, Thread, At, Accept, Receive, Login, Follow, Logout, ReadFollowed,
       ReadOpenSessions, AddPendingNotification, SendTweet, Unregister
  <2>3. pc'[c] \in Unregistered \/ (Register(c) /\ pc'[c] = "write")
                                \/ (Write(c) /\ pc[c] = "write" /\ pc'[c] = "done")
    BY <2>2 DEF ReadNotifications, Deliver, Register, Write, Unregistered, Goto, At, PlaceOK
  <2>4. CASE Register(c)
    <3>1. CookieOf(c) = c
      BY <2>4 DEF Register, At, PlaceOK, CookieOf, Unregistered
    <3> QED
      BY <1>3, <2>3, <2>4, <3>1 DEF Register, Known, Goto, PlaceOK, Labels
  <2> QED
    BY <1>1, <1>3, <2>3, <2>4 DEF Known, Unregistered
<1> QED
  BY <1>2, <1>3

-----------------------------------------------------------------------------
(***************************************************************************)
(* Types.  The loops of a tweet and of a login stay inside their lists.    *)
(***************************************************************************)
LEMMA OwnPacket ==
  ASSUME PlaceOK, NEW c \in Connections, pc[c] \notin {"idle", "read"}
  PROVE  req[c].user \in Users /\ req[c].other \in Users /\ CookieOf(c) \in SessionIds
  BY DEF PlaceOK, Packet, CookieOf, SessionIds

LEMMA OwnFollower ==
  ASSUME TypeOK, LoopOK, NEW c \in Connections, pc[c] \in {"sessions", "add_pending"}
  PROVE  Followed(c) \in Users
<1>1. i[c] \in 1 .. Len(followed_by[c]) /\ followed_by[c] \in Seq(Users)
  BY DEF TypeOK, LoopOK
<1> QED
  BY <1>1 DEF Followed

LEMMA LoginLimit ==
  ASSUME NEW sessions \in Seq(SessionIds), NEW id \in SessionIds, LoginCode(sessions, id) = 0
  PROVE  /\ Append(sessions, id) \in Seq(SessionIds)
         /\ Len(Append(sessions, id)) <= SESSIONS_LIMIT
<1>1. Len(sessions) < SESSIONS_LIMIT
  BY DEF LoginCode, SESSIONS_LIMIT, ERROR_SESSIONS_LIMIT
<1> QED
  BY <1>1 DEF SESSIONS_LIMIT

LEMMA CodeTypes ==
  /\ 0 \in Codes
  /\ ERROR_FOLLOW_YOURSELF \in Codes
  /\ \A s, id : LoginCode(s, id) \in Codes
  /\ \A s, a : FollowCode(s, a) \in Codes
  BY DEF Codes, LoginCode, FollowCode, ERROR_FOLLOW_YOURSELF, ERROR_SESSIONS_LIMIT,
         ERROR_SESSION_ALREADY_STARTED, ERROR_ALREADY_FOLLOWING_ACCOUNT

LEMMA NextFollowerChanges ==
  ASSUME NEW c \in Connections, ReadOpenSessions(c) \/ AddPendingNotification(c)
  PROVE  /\ i' = i \/ i' = [i EXCEPT ![c] = i[c] + 1]
         /\ \/ notifications_to_send' = notifications_to_send
            \/ /\ ReadOpenSessions(c)
               /\ notifications_to_send' = [notifications_to_send EXCEPT
                      ![c] = notifications_to_send[c] \cup ToSet(sessions_map[Followed(c)])]
<1>1. CASE ReadOpenSessions(c)
  <2>1. CASE sessions_map[Followed(c)] = << >>
    BY <1>1, <2>1 DEF ReadOpenSessions
  <2>2. CASE sessions_map[Followed(c)] # << >>
    BY <1>1, <2>2 DEF ReadOpenSessions, NextFollower
  <2> QED
    BY <2>1, <2>2
<1>2. CASE AddPendingNotification(c)
  BY <1>2 DEF AddPendingNotification, NextFollower
<1> QED
  BY <1>1, <1>2

LEMMA NextFollowerTypes ==
  ASSUME NEW c \in Connections, ReadOpenSessions(c), NEW S,
         i \in [Connections -> Nat],
         notifications_to_send \in [Connections -> SUBSET S],
         ToSet(sessions_map[Followed(c)]) \subseteq S
  PROVE  i' \in [Connections -> Nat] /\ notifications_to_send' \in [Connections -> SUBSET S]
<1>1. i' \in [Connections -> Nat]
  BY NextFollowerChanges
<1>2. notifications_to_send[c] \cup ToSet(sessions_map[Followed(c)]) \in SUBSET S
  OBVIOUS
<1>3. notifications_to_send' \in [Connections -> SUBSET S]
  BY <1>2, NextFollowerChanges
<1> QED
  BY <1>1, <1>3

LEMMA SendTypes ==
  ASSUME tried \subseteq SessionIds \X Connections, crashed \in Ends,
         NEW session \in SessionIds, NEW tweet \in Connections,
         SendNotification(session, tweet)
  PROVE  tried' \subseteq SessionIds \X Connections /\ crashed' \in Ends
<1>1. CASE tried' = tried \cup {<< session, tweet >>} /\ UNCHANGED crashed
  BY <1>1
<1>2. CASE /\ crashed' = IF session \in DOMAIN client_sessions THEN "no host" ELSE "threw"
           /\ tried' = tried
  <2>1. crashed' \in Ends
    <3>1. CASE session \in DOMAIN client_sessions
      BY <1>2, <3>1 DEF Ends
    <3>2. CASE session \notin DOMAIN client_sessions
      BY <1>2, <3>2 DEF Ends
    <3> QED
      BY <3>1, <3>2
  <2> QED
    BY <1>2, <2>1
<1> QED
  BY <1>1, <1>2 DEF SendNotification

LEMMA TypeStep ==
  ASSUME TypeOK, PlaceOK, LoopOK, AddressOK, NEW c \in Connections, Thread(c)
  PROVE  TypeOK'
<1>pc. pc' \in [Connections -> Labels] /\ req' \in [Connections -> Packet \cup {NoPacket}]
  BY Frame
<1> USE <1>pc DEF TypeOK, At, profileVars, addressVars, tweetVars
<1>1. CASE Accept(c)
  BY <1>1 DEF Accept, Serving
<1>2. CASE Receive(c)
  BY <1>2 DEF Receive
<1>3. CASE Login(c)
  <2> DEFINE u == req[c].user
             code == LoginCode(sessions_map[u], CookieOf(c))
  <2>1. u \in Users /\ CookieOf(c) \in SessionIds
    BY <1>3, OwnPacket DEF Login
  <2>2. sessions_map[u] \in Seq(SessionIds)
    BY <2>1
  <2>3. /\ sessions_map' \in [Users -> Seq(SessionIds)]
        /\ \A v \in Users : Len(sessions_map'[v]) <= SESSIONS_LIMIT
    <3>1. CASE code = 0
      <4>1. sessions_map' = [sessions_map EXCEPT ![u] = Append(@, CookieOf(c))]
        BY <1>3, <3>1 DEF Login
      <4>2. /\ Append(sessions_map[u], CookieOf(c)) \in Seq(SessionIds)
            /\ Len(Append(sessions_map[u], CookieOf(c))) <= SESSIONS_LIMIT
        BY <2>1, <2>2, <3>1, LoginLimit
      <4> QED
        BY <2>1, <4>1, <4>2
    <3>2. CASE code # 0
      BY <1>3, <3>2 DEF Login
    <3> QED
      BY <3>1, <3>2
  <2>4. response_code' \in [Connections -> Codes]
    BY <1>3, CodeTypes DEF Login
  <2> QED
    BY <1>3, <2>3, <2>4 DEF Login
<1>4. CASE ReadNotifications(c)
  <2>1. req[c].user \in Users
    BY <1>4, OwnPacket DEF ReadNotifications
  <2>2. /\ notifications' \in [Connections -> Seq(Connections)]
        /\ pending_notifications' \in [Users -> Seq(Connections)]
    BY <1>4, <2>1 DEF ReadNotifications
  <2> QED
    BY <1>4, <2>2 DEF ReadNotifications
<1>5. CASE Deliver(c)
  <2>1. CookieOf(c) \in SessionIds
    BY <1>5, OwnPacket DEF Deliver
  <2>2. notifications[c] \in Seq(Connections) /\ notifications[c] # << >>
    BY <1>5 DEF Deliver, LoopOK
  <2>3. Head(notifications[c]) \in Connections /\ Tail(notifications[c]) \in Seq(Connections)
    BY <2>2
  <2>4. notifications' \in [Connections -> Seq(Connections)]
    BY <1>5, <2>3 DEF Deliver
  <2>5. tried' \subseteq SessionIds \X Connections /\ crashed' \in Ends
    <3>1. SendNotification(CookieOf(c), Head(notifications[c]))
      BY <1>5 DEF Deliver
    <3> QED
      BY <2>1, <2>3, <3>1, SendTypes, Zenon
  <2> QED
    BY <1>5, <2>4, <2>5 DEF Deliver
<1>6. CASE Follow(c)
  <2>1. req[c].user \in Users /\ req[c].other \in Users
    BY <1>6, OwnPacket DEF Follow
  <2>2. response_code' \in [Connections -> Codes]
    BY <1>6, CodeTypes DEF Follow
  <2>3. followers_map' \in [Users -> Seq(Users)] /\ followed_by_map' \in [Users -> Seq(Users)]
    <3> DEFINE code == IF req[c].user = req[c].other THEN ERROR_FOLLOW_YOURSELF
                       ELSE FollowCode(followers_map[req[c].user], req[c].other)
    <3>1. CASE code = 0
      <4>1. /\ followers_map' = [followers_map EXCEPT ![req[c].user] = Append(@, req[c].other)]
            /\ followed_by_map' = [followed_by_map EXCEPT ![req[c].other] = Append(@, req[c].user)]
        BY <1>6, <3>1, Zenon DEF Follow
      <4> QED
        BY <2>1, <4>1
    <3>2. CASE code # 0
      BY <1>6, <3>2 DEF Follow
    <3> QED
      BY <3>1, <3>2
  <2> QED
    BY <1>6, <2>2, <2>3 DEF Follow
<1>7. CASE Logout(c)
  <2> DEFINE u == req[c].user
             rest == EraseSession(sessions_map[u], CookieOf(c))
  <2>1. u \in Users /\ sessions_map[u] \in Seq(SessionIds)
    BY <1>7, OwnPacket DEF Logout
  <2>2. rest \in Seq(SessionIds) /\ Len(rest) <= Len(sessions_map[u])
    BY <2>1, EraseTypes
  <2>3. Len(rest) <= SESSIONS_LIMIT
    BY <2>1, <2>2 DEF SESSIONS_LIMIT
  <2>4. sessions_map' = [sessions_map EXCEPT ![u] = rest]
    BY <1>7 DEF Logout
  <2> HIDE DEF rest
  <2> QED
    BY <1>7, <2>1, <2>2, <2>3, <2>4, SMTT(30) DEF Logout
<1>8. CASE ReadFollowed(c)
  <2>1. req[c].user \in Users
    BY <1>8, OwnPacket DEF ReadFollowed
  <2>2. followed_by' \in [Connections -> Seq(Users)]
    BY <1>8, <2>1 DEF ReadFollowed
  <2> QED
    BY <1>8, <2>2 DEF ReadFollowed
<1>9. CASE ReadOpenSessions(c)
  <2>1. Followed(c) \in Users
    BY <1>9, OwnFollower DEF ReadOpenSessions
  <2>2. ToSet(sessions_map[Followed(c)]) \subseteq SessionIds
    BY <2>1, ListElements
  <2>3. /\ notifications_to_send' \in [Connections -> SUBSET SessionIds]
        /\ i' \in [Connections -> Nat]
    <3>1. i \in [Connections -> Nat] /\ notifications_to_send \in [Connections -> SUBSET SessionIds]
      OBVIOUS
    <3> HIDE DEF TypeOK
    <3> QED
      BY <1>9, <2>2, <3>1, NextFollowerTypes
  <2> QED
    BY <1>9, <2>3 DEF ReadOpenSessions
<1>10. CASE AddPendingNotification(c)
  <2>1. Followed(c) \in Users
    BY <1>10, OwnFollower DEF AddPendingNotification
  <2>2. pending_notifications' \in [Users -> Seq(Connections)]
    BY <1>10, <2>1 DEF AddPendingNotification
  <2>3. i' \in [Connections -> Nat]
    BY <1>10, SMTT(30) DEF AddPendingNotification, NextFollower
  <2> QED
    BY <1>10, <2>2, <2>3 DEF AddPendingNotification
<1>11. CASE SendTweet(c)
  <2>1. PICK session \in notifications_to_send[c] :
          /\ SendNotification(session, c)
          /\ notifications_to_send' = [notifications_to_send EXCEPT ![c] = @ \ {session}]
    BY <1>11 DEF SendTweet
  <2>2. session \in SessionIds
    OBVIOUS
  <2>3. tried' \subseteq SessionIds \X Connections /\ crashed' \in Ends
    BY <2>1, <2>2, SendTypes, Zenon
  <2>4. notifications_to_send' \in [Connections -> SUBSET SessionIds]
    BY <2>1
  <2> QED
    BY <1>11, <2>3, <2>4 DEF SendTweet
<1>12. CASE Register(c)
  <2>1. CookieOf(c) \in SessionIds /\ cli_addr \in Connections
    BY <1>12, OwnPacket DEF Register, AddressOK
  <2>2. /\ DOMAIN client_sessions' \subseteq SessionIds
        /\ \A s \in DOMAIN client_sessions' : client_sessions'[s] \in Connections
    BY <1>12, <2>1 DEF Register
  <2> QED
    BY <1>12, <2>2 DEF Register
<1>13. CASE Unregister(c)
  BY <1>13 DEF Unregister, Restrict
<1>14. CASE Write(c)
  BY <1>14 DEF Write
<1> QED
  BY <1>1, <1>2, <1>3, <1>4, <1>5, <1>6, <1>7, <1>8, <1>9, <1>10, <1>11, <1>12, <1>13,
     <1>14 DEF Thread

LEMMA LongTail ==
  ASSUME NEW S, NEW n \in Seq(S), n # << >>, Len(n) # 1
  PROVE  Tail(n) # << >>
<1>1. Len(n) \in Nat /\ Len(n) # 0
  BY EmptySeq
<1>2. Tail(n) \in Seq(S) /\ Len(Tail(n)) = Len(n) - 1
  BY HeadTailProperties
<1>3. Tail(n) = << >> => Len(Tail(n)) = 0
  BY EmptySeq, Zenon
<1> QED
  BY <1>1, <1>2, <1>3

LEMMA LoopStep ==
  ASSUME TypeOK, PlaceOK, LoopOK, NEW c \in Connections, Thread(c)
  PROVE  LoopOK'
<1> DEFINE Here == /\ pc'[c] = "deliver" => notifications'[c] # << >>
                   /\ pc'[c] \in {"idle", "read", "tweet"} => i'[c] = 1
                   /\ i'[c] >= 1
                   /\ pc'[c] \in {"sessions", "add_pending"} => i'[c] <= Len(followed_by'[c])
<1>t. /\ pc \in [Connections -> Labels]
      /\ i \in [Connections -> Nat]
      /\ notifications \in [Connections -> Seq(Connections)]
      /\ followed_by \in [Connections -> Seq(Users)]
  BY DEF TypeOK
<1>h. /\ pc[c] = "deliver" => notifications[c] # << >>
      /\ pc[c] \in {"idle", "read", "tweet"} => i[c] = 1
      /\ i[c] >= 1
      /\ pc[c] \in {"sessions", "add_pending"} => i[c] <= Len(followed_by[c])
  BY DEF LoopOK
<1>o. \A d \in Connections \ {c} : /\ notifications'[d] = notifications[d]
                                  /\ i'[d] = i[d] /\ followed_by'[d] = followed_by[d]
  BY <1>t DEF Thread, Accept, Receive, Login, ReadNotifications, Deliver, Follow, Logout,
     ReadFollowed, ReadOpenSessions, AddPendingNotification, SendTweet, Register, Unregister,
     Write, NextFollower, tweetVars
<1> USE DEF Goto, At, tweetVars
<1>1. ASSUME Accept(c) PROVE Here
  BY <1>1, <1>t, <1>h DEF Accept
<1>2. ASSUME Receive(c) PROVE Here
  BY <1>2, <1>t, <1>h, PacketCookies DEF Receive
<1>3. ASSUME Login(c) PROVE Here
  BY <1>3, <1>t, <1>h DEF Login
<1>4. ASSUME ReadNotifications(c) PROVE Here
  BY <1>4, <1>t, <1>h DEF ReadNotifications
<1>5. ASSUME Deliver(c) PROVE Here
  <2>1. /\ notifications[c] \in Seq(Connections) /\ notifications[c] # << >>
        /\ notifications'[c] = Tail(notifications[c])
        /\ pc'[c] = IF Len(notifications[c]) = 1 THEN "register" ELSE "deliver"
        /\ i' = i
    BY <1>5, <1>t, <1>h DEF Deliver
  <2>2. Len(notifications[c]) # 1 => Tail(notifications[c]) # << >>
    BY <2>1, LongTail
  <2> QED
    BY <2>1, <2>2, <1>h, Zenon
<1>6. ASSUME Follow(c) PROVE Here
  BY <1>6, <1>t, <1>h DEF Follow
<1>7. ASSUME Logout(c) PROVE Here
  BY <1>7, <1>t, <1>h DEF Logout
<1>8. ASSUME ReadFollowed(c) PROVE Here
  BY <1>8, <1>t, <1>h DEF ReadFollowed
<1>9. ASSUME ReadOpenSessions(c) PROVE Here
  <2>1. /\ notifications' = notifications /\ followed_by' = followed_by
        /\ pc[c] = "sessions"
    BY <1>9 DEF ReadOpenSessions
  <2>2. CASE sessions_map[Followed(c)] = << >>
    BY <1>9, <2>1, <2>2, <1>t, <1>h DEF ReadOpenSessions
  <2>3. CASE sessions_map[Followed(c)] # << >>
    BY <1>9, <2>1, <2>3, <1>t, <1>h DEF ReadOpenSessions, NextFollower
  <2> QED
    BY <2>2, <2>3
<1>10. ASSUME AddPendingNotification(c) PROVE Here
  BY <1>10, <1>t, <1>h DEF AddPendingNotification, NextFollower
<1>11. ASSUME SendTweet(c) PROVE Here
  BY <1>11, <1>t, <1>h DEF SendTweet
<1>12. ASSUME Register(c) PROVE Here
  BY <1>12, <1>t, <1>h DEF Register
<1>13. ASSUME Unregister(c) PROVE Here
  BY <1>13, <1>t, <1>h DEF Unregister
<1>14. ASSUME Write(c) PROVE Here
  BY <1>14, <1>t, <1>h DEF Write
<1> QED
  <2>1. Here
    BY <1>1, <1>2, <1>3, <1>4, <1>5, <1>6, <1>7, <1>8, <1>9, <1>10, <1>11, <1>12, <1>13,
       <1>14 DEF Thread
  <2> QED
    BY <2>1, <1>o, Frame DEF LoopOK

-----------------------------------------------------------------------------
(***************************************************************************)
(* A login adds a session that is known; a logout, with the empty cookie,  *)
(* finds none to close.                                                    *)
(***************************************************************************)
LEMMA LogoutClosesNone ==
  ASSUME PlaceOK, SessionsOK, NEW c \in Connections, Logout(c)
  PROVE  sessions_map' = sessions_map
<1> DEFINE u == req[c].user
<1>1. u \in Users /\ CookieOf(c) = EmptyId
  BY OwnPacket DEF Logout, At, PlaceOK, CookieOf
<1>2. ToSet(sessions_map[u]) \subseteq Connections
  BY <1>1, ListElements DEF SessionsOK
<1>3. EraseSession(sessions_map[u], CookieOf(c)) = sessions_map[u]
  BY <1>1, <1>2, CookieIds DEF EraseSession
<1> QED
  BY <1>1, <1>3 DEF Logout, SessionsOK

LEMMA SessionsStep ==
  ASSUME TypeOK, PlaceOK, SessionsOK, NEW c \in Connections, Thread(c)
  PROVE  SessionsOK'
<1>1. CASE sessions_map' = sessions_map
  BY <1>1, KnownStays DEF SessionsOK
<1>2. CASE Login(c)
  <2> DEFINE u == req[c].user
  <2>1. u \in Users /\ CookieOf(c) = c /\ pc[c] = "login"
    BY <1>2, OwnPacket DEF Login, At, PlaceOK, CookieOf
  <2>2. Known(c)'
    BY <1>2 DEF Login, Goto, PlaceOK, Known, Unregistered
  <2>3. CASE sessions_map' = [sessions_map EXCEPT ![u] = Append(@, c)]
    <3>1. /\ Append(sessions_map[u], c) \in Seq(Connections)
          /\ ToSet(Append(sessions_map[u], c)) = ToSet(sessions_map[u]) \cup {c}
      BY <2>1, AppendElements DEF SessionsOK
    <3> QED
      BY <2>1, <2>2, <2>3, <3>1, KnownStays DEF SessionsOK
  <2> QED
    BY <1>1, <1>2, <2>1, <2>3 DEF Login
<1>3. CASE Logout(c)
  BY <1>1, <1>3, LogoutClosesNone
<1> QED
  BY <1>1, <1>2, <1>3, Changes

\* What a tweet sends to, it has found in the lists of sessions.
LEMMA SendStep ==
  ASSUME TypeOK, PlaceOK, LoopOK, SessionsOK, SendOK, NEW c \in Connections, Thread(c)
  PROVE  SendOK'
<1>1. CASE notifications_to_send' = notifications_to_send
  BY <1>1, KnownStays DEF SendOK
<1>2. CASE ReadOpenSessions(c)
  <2> DEFINE found == ToSet(sessions_map[Followed(c)])
  <2>1. Followed(c) \in Users
    BY <1>2, OwnFollower DEF ReadOpenSessions, At
  <2>2. found \subseteq Connections /\ \A s \in found : Known(s)
    BY <2>1, ListElements DEF SessionsOK
  <2> HIDE DEF found
  <2>3. CASE notifications_to_send' = [notifications_to_send EXCEPT
               ![c] = notifications_to_send[c] \cup found]
    BY <2>2, <2>3, KnownStays DEF SendOK
  <2> QED
    BY <1>1, <1>2, <2>3, NextFollowerChanges DEF found
<1>3. CASE SendTweet(c)
  <2>1. PICK session \in notifications_to_send[c] :
          notifications_to_send' = [notifications_to_send EXCEPT ![c] = @ \ {session}]
    BY <1>3 DEF SendTweet
  <2> QED
    BY <2>1, KnownStays DEF SendOK
<1> QED
  BY <1>1, <1>2, <1>3, Changes

-----------------------------------------------------------------------------
(***************************************************************************)
(* Addresses: whoever overwrites cli_addr overtakes all that are served.   *)
(***************************************************************************)
LEMMA AddressStep ==
  ASSUME TypeOK, PlaceOK, AddressOK, NEW c \in Connections, Thread(c)
  PROVE  AddressOK'
<1>f. /\ pc \in [Connections -> Labels] /\ pc' \in [Connections -> Labels]
      /\ \A d \in Connections \ {c} : pc'[d] = pc[d]
  BY Frame DEF PlaceOK
<1>1. CASE Accept(c)
  <2>1. /\ cli_addr' = c /\ client_sessions' = client_sessions
        /\ overtaken' = overtaken \cup Serving
    BY <1>1 DEF Accept
  <2>2. OwnAddress'
    BY <2>1 DEF AddressOK, OwnAddress
  <2>3. \A d \in Serving' : cli_addr' = d \/ d \in overtaken'
    BY <1>f, <2>1 DEF Serving
  <2> QED
    BY <2>1, <2>2, <2>3 DEF AddressOK
<1>2. ASSUME ~ Accept(c), cli_addr' = cli_addr, overtaken' = overtaken
      PROVE  AddressOK'
  <2>1. pc[c] # "idle"
    BY <1>2 DEF Thread, At, Accept, Receive, Login, ReadNotifications, Deliver, Follow, Logout,
       ReadFollowed, ReadOpenSessions, AddPendingNotification, SendTweet, Register, Unregister,
       Write
  <2>2. c \in Serving /\ (\A d \in Serving' : d \in Serving)
    <3>1. pc[c] # "done"
      BY <1>2 DEF Thread, At, Accept, Receive, Login, ReadNotifications, Deliver, Follow, Logout,
         ReadFollowed, ReadOpenSessions, AddPendingNotification, SendTweet, Register, Unregister,
         Write
    <3> QED
      BY <1>f, <2>1, <3>1 DEF Serving
  <2>3. \A d \in Serving' : cli_addr' = d \/ d \in overtaken'
    BY <1>2, <2>2 DEF AddressOK
  <2>4. \A d \in Connections : pc'[d] # "idle" => cli_addr' \in Connections
    BY <1>2, <1>f, <2>1 DEF AddressOK
  <2>5. OwnAddress'
    <3>1. CASE Register(c)
      <4>1. CookieOf(c) = c
        BY <3>1 DEF Register, At, PlaceOK, CookieOf, Unregistered
      <4>2. cli_addr = c \/ c \in overtaken
        BY <2>2 DEF AddressOK
      <4> QED
        BY <1>2, <3>1, <4>1, <4>2 DEF Register, AddressOK, OwnAddress
    <3>2. CASE Unregister(c)
      BY <1>2, <3>2 DEF Unregister, Restrict, AddressOK, OwnAddress
    <3>3. CASE client_sessions' = client_sessions
      BY <1>2, <3>3 DEF AddressOK, OwnAddress
    <3> QED
      BY <3>1, <3>2, <3>3, Changes
  <2> QED
    BY <2>3, <2>4, <2>5 DEF AddressOK
<1> QED
  BY <1>1, <1>2, Changes

(***************************************************************************)
(* Only sending throws, and only to a known session without an address:    *)
(* one whose login has yet to store it.                                    *)
(***************************************************************************)
LEMMA ThrowStep ==
  ASSUME PlaceOK, SendOK, NEW c \in Connections, Thread(c)
  PROVE  ThrowNeedsUnregisteredLogin'
<1>1. SUFFICES ASSUME crashed' = "threw"
               PROVE  \E d \in Connections : pc'[d] \in Unregistered
  BY DEF ThrowNeedsUnregisteredLogin, Unregistered
<1>2. CASE Deliver(c)
  <2>1. pc'[c] \in Unregistered
    BY <1>2 DEF Deliver, Goto, PlaceOK, Unregistered
  <2> QED
    BY <2>1
<1>3. CASE SendTweet(c)
  <2>1. PICK session \in notifications_to_send[c] : SendNotification(session, c)
    BY <1>3 DEF SendTweet
  <2>2. session \notin DOMAIN client_sessions
    BY <1>1, <2>1, Changes DEF SendNotification
  <2>3. session \in Connections /\ pc[session] \in Unregistered
    BY <2>1, <2>2 DEF SendOK, Known
  <2>4. session # c
    BY <1>3, <2>3 DEF SendTweet, At, Unregistered
  <2> QED
    BY <2>3, <2>4, Frame
<1> QED
  BY <1>1, <1>2, <1>3, Changes

-----------------------------------------------------------------------------
THEOREM StepOK == IInv /\ [Next]_vars => IInv'
<1> SUFFICES ASSUME IInv, [Next]_vars PROVE IInv'
  OBVIOUS
<1>1. ASSUME NEW c \in Connections, Thread(c) PROVE IInv'
  BY <1>1, TypeStep, PlaceStep, LoopStep, SessionsStep, SendStep, AddressStep, ThrowStep DEF IInv
<1>2. CASE UNCHANGED vars
  BY <1>2 DEF IInv, vars, profileVars, addressVars, tweetVars, TypeOK, PlaceOK, LoopOK,
     SessionsOK, SendOK, Known, AddressOK, OwnAddress, Serving, ThrowNeedsUnregisteredLogin,
     CookieOf
<1> QED
  BY <1>1, <1>2 DEF Next

-----------------------------------------------------------------------------
(***************************************************************************)
(* Notifications.  A session is that of a login of its user, the followers *)
(* of an account are listed once, and a login that has not read what is    *)
(* pending holds nothing.                                                  *)
(***************************************************************************)
OwnerOK ==
  /\ \A c \in Connections : pc[c] \in {"login"} \cup Unregistered => req[c].op = "login"
  /\ \A u \in Users : \A s \in ToSet(sessions_map[u]) : s \in SessionsOf(u)

FollowsOK ==
  /\ \A u, v \in Users : v \in ToSet(followers_map[u]) <=> u \in ToSet(followed_by_map[v])
  /\ \A u \in Users : IsInjective(followed_by_map[u])
  /\ \A c \in Connections : IsInjective(followed_by[c])

WayOK ==
  /\ \A c \in Connections :
       /\ pc[c] \in {"idle", "read", "login", "read_notifications"} => notifications[c] = << >>
       /\ i[c] <= Len(followed_by[c]) + 1
  /\ \A s \in DOMAIN client_sessions : s \in Connections /\ pc[s] \in {"write", "done"}
  /\ \A p \in tried : Known(p[1])

\* The followers a tweet has looked at.
Seen(c) == { followed_by[c][k] : k \in 1 .. i[c] - 1 }

NotRead(tweet, u) == \A c \in SessionsOf(u) : PlacesIn(notifications[c], tweet) = {}

Nowhere(tweet, u) ==
  /\ PlacesIn(pending_notifications[u], tweet) = {}
  /\ NotRead(tweet, u)
  /\ ~ OnItsWay(tweet, u)

Pending(tweet, u) ==
  /\ \E k : PlacesIn(pending_notifications[u], tweet) = {k}
  /\ NotRead(tweet, u)
  /\ ~ OnItsWay(tweet, u)

ReadBy(tweet, u, c) ==
  /\ PlacesIn(pending_notifications[u], tweet) = {}
  /\ \E k : PlacesIn(notifications[c], tweet) = {k}
  /\ \A d \in SessionsOf(u) \ {c} : PlacesIn(notifications[d], tweet) = {}
  /\ ~ OnItsWay(tweet, u)

Sending(tweet, u) ==
  /\ PlacesIn(pending_notifications[u], tweet) = {}
  /\ NotRead(tweet, u)
  /\ OnItsWay(tweet, u)

Somewhere(tweet, u) ==
  \/ Pending(tweet, u)
  \/ \E c \in SessionsOf(u) : ReadBy(tweet, u, c)
  \/ Sending(tweet, u)

KeptOK ==
  \A tweet \in Connections, u \in Users :
    IF u \in Seen(tweet) THEN Somewhere(tweet, u) ELSE Nowhere(tweet, u)

KeptInv == IInv /\ OwnerOK /\ FollowsOK /\ WayOK /\ (crashed = "no" => KeptOK)

\* A finite set is listed whole, and each element once.
LEMMA SetListedOnce ==
  ASSUME NEW S, IsFiniteSet(S)
  PROVE  IsInjective(SetToSeq(S)) /\ ToSet(SetToSeq(S)) = S
<1>1. Cardinality(S) \in Nat /\ ExistsBijection(1 .. Cardinality(S), S)
  BY FS_CardinalityType
<1>2. PICK f \in [1 .. Cardinality(S) -> S] : IsInjective(f)
  BY <1>1 DEF ExistsBijection, Bijection, Injection
<1> DEFINE g == SetToSeq(S)
<1>3. g \in [1 .. Cardinality(S) -> S] /\ IsInjective(g)
  BY <1>2 DEF SetToSeq
<1> HIDE DEF g
<1>4. IsFiniteSet(1 .. Cardinality(S)) /\ Cardinality(1 .. Cardinality(S)) = Cardinality(S)
  BY <1>1, FS_Interval
<1>5. g \in Injection(1 .. Cardinality(S), S)
  BY <1>3 DEF Injection, IsInjective
<1>6. g \in Surjection(1 .. Cardinality(S), S)
  BY <1>4, <1>5, FS_Injection
<1>7. ToSet(g) = S
  BY <1>3, <1>6 DEF Surjection, ToSet
<1> QED
  BY <1>3, <1>7 DEF g

LEMMA KeptInitOK == Init => OwnerOK /\ FollowsOK /\ WayOK /\ KeptOK
<1> SUFFICES ASSUME Init PROVE OwnerOK /\ FollowsOK /\ WayOK /\ KeptOK
  OBVIOUS
<1>1. OwnerOK
  BY DEF Init, OwnerOK, Unregistered, ToSet
<1>2. FollowsOK
  <2>1. ASSUME NEW u \in Users
        PROVE  /\ ToSet(followers_map[u]) = { v \in Users : << u, v >> \in Follows }
               /\ ToSet(followed_by_map[u]) = { v \in Users : << v, u >> \in Follows }
               /\ IsInjective(followed_by_map[u])
    <3>1. /\ IsFiniteSet({ v \in Users : << u, v >> \in Follows })
          /\ IsFiniteSet({ v \in Users : << v, u >> \in Follows })
      BY RequestAssumption, FS_Subset
    <3>2. /\ followers_map[u] = SetToSeq({ v \in Users : << u, v >> \in Follows })
          /\ followed_by_map[u] = SetToSeq({ v \in Users : << v, u >> \in Follows })
      BY DEF Init
    <3> QED
      BY <3>1, <3>2, SetListedOnce
  <2>2. \A c \in Connections : IsInjective(followed_by[c])
    BY DEF Init, IsInjective
  <2> QED
    BY <2>1, <2>2 DEF FollowsOK
<1>3. WayOK
  BY DEF Init, WayOK
<1>4. KeptOK
  <2>1. ASSUME NEW tweet \in Connections, NEW u \in Users
        PROVE  u \notin Seen(tweet) /\ Nowhere(tweet, u)
    <3>1. Seen(tweet) = {}
      BY DEF Init, Seen
    <3>2. PlacesIn(<< >>, tweet) = {}
      BY DEF PlacesIn
    <3>3. pending_notifications[u] = << >> /\ \A c \in Connections : notifications[c] = << >>
      BY DEF Init
    <3>4. notifications_to_send[tweet] = {} /\ tried = {}
      BY DEF Init
    <3> QED
      BY <3>1, <3>2, <3>3, <3>4 DEF Nowhere, NotRead, OnItsWay, SessionsOf
  <2> QED
    BY <2>1 DEF KeptOK
<1> QED
  BY <1>1, <1>2, <1>3, <1>4

-----------------------------------------------------------------------------
LEMMA NotificationChanges ==
  ASSUME NEW c \in Connections, Thread(c)
  PROVE  /\ notifications' = notifications \/ ReadNotifications(c) \/ Deliver(c)
         /\ pending_notifications' = pending_notifications
            \/ ReadNotifications(c) \/ AddPendingNotification(c)
         /\ followed_by' = followed_by \/ ReadFollowed(c)
         /\ i' = i \/ ReadOpenSessions(c) \/ AddPendingNotification(c)
         /\ UNCHANGED << followers_map, followed_by_map >> \/ Follow(c)
         /\ req' = req \/ Receive(c)
         /\ tried' = tried \/ Deliver(c) \/ SendTweet(c)
<1> USE DEF profileVars, tweetVars
<1>1. CASE Accept(c)
  BY <1>1 DEF Accept
<1>2. CASE Receive(c)
  BY <1>2 DEF Receive
<1>3. CASE Login(c)
  BY <1>3 DEF Login
<1>4. CASE ReadNotifications(c)
  BY <1>4 DEF ReadNotifications
<1>5. CASE Deliver(c)
  BY <1>5 DEF Deliver
<1>6. CASE Follow(c)
  BY <1>6 DEF Follow
<1>7. CASE Logout(c)
  BY <1>7 DEF Logout
<1>8. CASE ReadFollowed(c)
  BY <1>8 DEF ReadFollowed
<1>9. CASE ReadOpenSessions(c)
  BY <1>9 DEF ReadOpenSessions
<1>10. CASE AddPendingNotification(c)
  BY <1>10 DEF AddPendingNotification
<1>11. CASE SendTweet(c)
  BY <1>11 DEF SendTweet
<1>12. CASE Register(c)
  BY <1>12 DEF Register
<1>13. CASE Unregister(c)
  BY <1>13 DEF Unregister
<1>14. CASE Write(c)
  BY <1>14 DEF Write
<1> QED
  BY <1>1, <1>2, <1>3, <1>4, <1>5, <1>6, <1>7, <1>8, <1>9, <1>10, <1>11, <1>12, <1>13, <1>14 DEF Thread

LEMMA OwnerStep ==
  ASSUME TypeOK, PlaceOK, SessionsOK, OwnerOK, NEW c \in Connections, Thread(c)
  PROVE  OwnerOK'
<1> USE DEF Unregistered
<1> DEFINE Here == pc'[c] \in {"login"} \cup Unregistered => req'[c].op = "login"
<1>1. ASSUME Receive(c) PROVE Here
  <2>1. PICK r \in ClientPackets : req' = [req EXCEPT ![c] = r] /\ Goto(c, r.op)
    BY <1>1 DEF Receive
  <2>2. req'[c] = r /\ pc'[c] = r.op
    BY <2>1 DEF PlaceOK, Goto
  <2> QED
    BY <2>2, PacketCookies
<1>2. ASSUME ~ Receive(c), pc[c] \in {"login"} \cup Unregistered PROVE Here
  BY <1>2, NotificationChanges DEF OwnerOK
<1>3. ASSUME ~ Receive(c), pc[c] \notin {"login"} \cup Unregistered PROVE Here
  BY <1>3 DEF Thread, Accept, Login, ReadNotifications, Deliver, Follow, Logout, ReadFollowed,
     ReadOpenSessions, AddPendingNotification, SendTweet, Register, Unregister, Write, NextFollower,
     At, Goto, PlaceOK
<1>4. \A d \in Connections : pc'[d] \in {"login"} \cup Unregistered => req'[d].op = "login"
  BY <1>1, <1>2, <1>3, Frame DEF OwnerOK
<1>5. ASSUME NEW u \in Users, NEW s \in ToSet(sessions_map[u])
      PROVE  s \in Connections /\ req'[s].op = "login" /\ req'[s].user = u
  <2>1. s \in Connections /\ pc[s] # "read" /\ req[s].op = "login" /\ req[s].user = u
    BY DEF SessionsOK, Known, OwnerOK, SessionsOf
  <2> QED
    BY <2>1, Frame
<1>6. ASSUME NEW u \in Users, NEW s \in ToSet(sessions_map'[u])
      PROVE  s \in Connections /\ req'[s].op = "login" /\ req'[s].user = u
  <2>1. CASE sessions_map' = sessions_map
    BY <1>5, <2>1
  <2>2. CASE Login(c) /\ sessions_map' # sessions_map
    <3>1. CookieOf(c) = c /\ pc[c] = "login" /\ req[c].user \in Users
      BY <2>2, OwnPacket DEF Login, At, PlaceOK, CookieOf
    <3>2. sessions_map' = [sessions_map EXCEPT ![req[c].user] = Append(@, c)]
      BY <2>2, <3>1 DEF Login
    <3>3. CASE u # req[c].user
      BY <1>5, <3>2, <3>3 DEF SessionsOK
    <3>4. CASE u = req[c].user
      <4>1. ToSet(sessions_map'[u]) = ToSet(sessions_map[u]) \cup {c}
        BY <3>1, <3>2, <3>4, AppendElements DEF SessionsOK
      <4>2. req'[c] = req[c] /\ req[c].op = "login"
        BY <3>1, Frame DEF OwnerOK
      <4> QED
        BY <1>5, <3>4, <4>1, <4>2
    <3> QED
      BY <3>3, <3>4
  <2>3. CASE Logout(c)
    BY <1>5, <2>3, LogoutClosesNone
  <2> QED
    BY <2>1, <2>2, <2>3, Changes
<1> QED
  BY <1>4, <1>6, Zenon DEF OwnerOK, SessionsOf

(***************************************************************************)
(* A follow is entered on both sides, and only once: so no tweet finds the *)
(* same follower twice.                                                    *)
(***************************************************************************)
LEMMA FollowsStep ==
  ASSUME TypeOK, PlaceOK, FollowsOK, NEW c \in Connections, Thread(c)
  PROVE  FollowsOK'
<1>a. /\ followers_map \in [Users -> Seq(Users)] /\ followed_by_map \in [Users -> Seq(Users)]
      /\ followed_by \in [Connections -> Seq(Users)]
  BY DEF TypeOK
<1>1. /\ \A u, v \in Users : v \in ToSet(followers_map'[u]) <=> u \in ToSet(followed_by_map'[v])
      /\ \A u \in Users : IsInjective(followed_by_map'[u])
  <2>1. CASE UNCHANGED << followers_map, followed_by_map >>
    BY <2>1 DEF FollowsOK
  <2>2. CASE Follow(c) /\ ~ UNCHANGED << followers_map, followed_by_map >>
    <3> DEFINE a == req[c].user
               b == req[c].other
    <3>1. a \in Users /\ b \in Users
      BY <2>2, OwnPacket DEF Follow, At
    <3>2. FollowCode(followers_map[a], b) = 0
      BY <2>2 DEF Follow, ERROR_FOLLOW_YOURSELF
    <3>3. b \notin ToSet(followers_map[a])
      BY <3>2 DEF FollowCode, ERROR_ALREADY_FOLLOWING_ACCOUNT
    <3>4. /\ followers_map' = [followers_map EXCEPT ![a] = Append(@, b)]
          /\ followed_by_map' = [followed_by_map EXCEPT ![b] = Append(@, a)]
      BY <2>2 DEF Follow
    <3> HIDE DEF a, b
    <3>5. a \notin ToSet(followed_by_map[b])
      BY <3>1, <3>3 DEF FollowsOK
    <3>6. /\ ToSet(Append(followers_map[a], b)) = ToSet(followers_map[a]) \cup {b}
          /\ ToSet(Append(followed_by_map[b], a)) = ToSet(followed_by_map[b]) \cup {a}
          /\ IsInjective(Append(followed_by_map[b], a))
      BY <1>a, <3>1, <3>5, AppendElements DEF FollowsOK
    <3>7. ASSUME NEW u \in Users
          PROVE  ToSet(followers_map'[u]) = IF u = a THEN ToSet(followers_map[u]) \cup {b}
                                                     ELSE ToSet(followers_map[u])
      <4>1. followers_map'[u] = IF u = a THEN Append(followers_map[u], b) ELSE followers_map[u]
        BY <1>a, <3>4
      <4> QED
        BY <3>6, <4>1
    <3>8. ASSUME NEW u \in Users
          PROVE  followed_by_map'[u] = IF u = b THEN Append(followed_by_map[u], a)
                                                ELSE followed_by_map[u]
      BY <1>a, <3>4
    <3>9. ASSUME NEW u \in Users
          PROVE  ToSet(followed_by_map'[u]) = IF u = b THEN ToSet(followed_by_map[u]) \cup {a}
                                                       ELSE ToSet(followed_by_map[u])
      BY <3>6, <3>8
    <3>10. ASSUME NEW u \in Users PROVE IsInjective(followed_by_map'[u])
      <4>1. IsInjective(followed_by_map[u])
        BY DEF FollowsOK
      <4>2. CASE u = b
        BY <3>6, <3>8, <4>2
      <4>3. CASE u # b
        BY <3>8, <4>1, <4>3
      <4> QED
        BY <4>2, <4>3
    <3>11. ASSUME NEW u \in Users, NEW v \in Users
           PROVE  v \in ToSet(followers_map'[u]) <=> u \in ToSet(followed_by_map'[v])
      <4>1. v \in ToSet(followers_map'[u]) <=> v \in ToSet(followers_map[u]) \/ (u = a /\ v = b)
        BY <3>7
      <4>2. u \in ToSet(followed_by_map'[v]) <=> u \in ToSet(followed_by_map[v]) \/ (v = b /\ u = a)
        BY <3>9
      <4> QED
        BY <4>1, <4>2 DEF FollowsOK
    <3> QED
      BY <3>10, <3>11
  <2> QED
    BY <2>1, <2>2, NotificationChanges
<1>2. \A d \in Connections : IsInjective(followed_by'[d])
  <2>1. CASE followed_by' = followed_by
    BY <2>1 DEF FollowsOK
  <2>2. CASE ReadFollowed(c)
    <3>1. req[c].user \in Users
      BY <2>2, OwnPacket DEF ReadFollowed, At
    <3>2. followed_by' = [followed_by EXCEPT ![c] = followed_by_map[req[c].user]]
      BY <2>2 DEF ReadFollowed
    <3> QED
      BY <1>a, <3>1, <3>2 DEF FollowsOK
  <2> QED
    BY <2>1, <2>2, NotificationChanges
<1> QED
  BY <1>1, <1>2 DEF FollowsOK

\* A login that delivers has no address yet: what it sends ends the process.
LEMMA DeliverCrashes ==
  ASSUME PlaceOK, WayOK, NEW c \in Connections, Deliver(c)
  PROVE  crashed' # "no" /\ tried' = tried
<1>1. CookieOf(c) = c /\ pc[c] = "deliver"
  BY DEF Deliver, At, PlaceOK, CookieOf, Unregistered
<1>2. c \notin DOMAIN client_sessions
  BY <1>1 DEF WayOK
<1> QED
  BY <1>1, <1>2 DEF Deliver, SendNotification

LEMMA WayStep ==
  ASSUME IInv, WayOK, NEW c \in Connections, Thread(c)
  PROVE  WayOK'
<1>a. TypeOK /\ PlaceOK /\ LoopOK /\ SendOK /\ SessionsOK
  BY DEF IInv
<1>b. /\ pc \in [Connections -> Labels] /\ pc' \in [Connections -> Labels]
      /\ \A d \in Connections \ {c} : pc'[d] = pc[d]
  BY <1>a, Frame DEF PlaceOK
<1>1. ASSUME NEW d \in Connections, pc'[d] \in {"idle", "read", "login", "read_notifications"}
      PROVE  notifications'[d] = << >>
  <2>1. CASE d # c
    <3>1. notifications'[d] = notifications[d]
      BY <1>a, <2>1, NotificationChanges DEF ReadNotifications, Deliver, TypeOK
    <3> QED
      BY <1>1, <1>b, <2>1, <3>1 DEF WayOK
  <2>2. CASE d = c
    <3>1. pc[c] \in {"idle", "read", "login"}
      BY <1>1, <1>b, <2>2 DEF Thread, Accept, Receive, Login, ReadNotifications, Deliver, Follow, Logout,
         ReadFollowed, ReadOpenSessions, AddPendingNotification, SendTweet, Register, Unregister,
         Write, NextFollower, At, Goto
    <3>2. notifications' = notifications
      BY <3>1, NotificationChanges DEF ReadNotifications, Deliver, At
    <3> QED
      BY <2>2, <3>1, <3>2 DEF WayOK
  <2> QED
    BY <2>1, <2>2
<1>2. \A d \in Connections : i'[d] <= Len(followed_by'[d]) + 1
  <2>1. CASE ReadFollowed(c)
    <3>1. i' = i /\ i[c] = 1 /\ followed_by'[c] = followed_by_map[req[c].user]
          /\ \A d \in Connections \ {c} : followed_by'[d] = followed_by[d]
      BY <1>a, <2>1 DEF ReadFollowed, LoopOK, At, TypeOK
    <3>2. followed_by_map[req[c].user] \in Seq(Users)
      BY <1>a, <2>1, OwnPacket DEF ReadFollowed, At, TypeOK
    <3>3. Len(followed_by'[c]) \in Nat
      BY <3>1, <3>2
    <3> QED
      BY <3>1, <3>3 DEF WayOK
  <2>2. CASE ReadOpenSessions(c) \/ AddPendingNotification(c)
    <3>1. followed_by' = followed_by /\ i[c] <= Len(followed_by[c])
      BY <1>a, <2>2 DEF ReadOpenSessions, AddPendingNotification, At, LoopOK
    <3>2. i \in [Connections -> Nat] /\ Len(followed_by[c]) \in Nat
      BY <1>a DEF TypeOK
    <3>3. i' = i \/ i' = [i EXCEPT ![c] = i[c] + 1]
      BY <2>2, NextFollowerChanges
    <3> QED
      BY <3>1, <3>2, <3>3 DEF WayOK
  <2>3. CASE i' = i /\ followed_by' = followed_by
    BY <2>3 DEF WayOK
  <2> QED
    BY <2>1, <2>2, <2>3, NotificationChanges
<1>3. ASSUME NEW s \in DOMAIN client_sessions' PROVE s \in Connections /\ pc'[s] \in {"write", "done"}
  <2>1. CASE s \in DOMAIN client_sessions
    <3>1. s \in Connections /\ pc[s] \in {"write", "done"}
      BY <2>1 DEF WayOK
    <3>2. s = c => Write(c)
      BY <3>1 DEF Thread, Accept, Receive, Login, ReadNotifications, Deliver, Follow, Logout,
         ReadFollowed, ReadOpenSessions, AddPendingNotification, SendTweet, Register, Unregister, At
    <3> QED
      BY <1>b, <3>1, <3>2 DEF Write, Goto
  <2>2. CASE s \notin DOMAIN client_sessions
    <3>1. Register(c)
      BY <2>2, Changes DEF Unregister, Restrict
    <3>2. CookieOf(c) = c
      BY <1>a, <3>1 DEF Register, At, PlaceOK, CookieOf, Unregistered
    <3> QED
      BY <1>b, <2>2, <3>1, <3>2 DEF Register, Goto
  <2> QED
    BY <2>1, <2>2
<1>4. ASSUME NEW p \in tried' PROVE Known(p[1])'
  <2>1. ASSUME NEW s, Known(s) PROVE Known(s)'
    BY <1>a, <2>1, KnownStays
  <2>2. CASE p \in tried
    BY <2>1, <2>2 DEF WayOK
  <2>3. CASE p \notin tried
    <3>1. SendTweet(c)
      BY <1>a, <2>3, NotificationChanges, DeliverCrashes
    <3>2. PICK session \in notifications_to_send[c] : SendNotification(session, c)
      BY <3>1 DEF SendTweet
    <3>3. p = << session, c >>
      BY <2>3, <3>2 DEF SendNotification
    <3>4. Known(session)
      BY <1>a, <3>2 DEF SendOK
    <3> QED
      BY <2>1, <3>3, <3>4
  <2> QED
    BY <2>2, <2>3
<1> QED
  BY <1>1, <1>2, <1>3, <1>4 DEF WayOK

-----------------------------------------------------------------------------
(***************************************************************************)
(* Where the copies are.                                                   *)
(***************************************************************************)
LEMMA PlacesAppend ==
  ASSUME NEW S, NEW s \in Seq(S), NEW e \in S, NEW tweet
  PROVE  /\ e # tweet => PlacesIn(Append(s, e), tweet) = PlacesIn(s, tweet)
         /\ e = tweet /\ PlacesIn(s, tweet) = {}
            => PlacesIn(Append(s, e), tweet) = {Len(s) + 1}
<1>1. /\ DOMAIN s = 1 .. Len(s) /\ Len(s) \in Nat
      /\ DOMAIN Append(s, e) = 1 .. Len(s) + 1
      /\ \A k \in 1 .. Len(s) : Append(s, e)[k] = s[k]
      /\ Append(s, e)[Len(s) + 1] = e
  OBVIOUS
<1> HIDE DEF Append
<1>2. ASSUME e # tweet PROVE PlacesIn(Append(s, e), tweet) = PlacesIn(s, tweet)
  BY <1>1, <1>2 DEF PlacesIn
<1>3. ASSUME e = tweet, PlacesIn(s, tweet) = {}
      PROVE  PlacesIn(Append(s, e), tweet) = {Len(s) + 1}
  <2>1. \A k \in 1 .. Len(s) : s[k] # tweet
    BY <1>1, <1>3 DEF PlacesIn
  <2> QED
    BY <1>1, <1>3, <2>1 DEF PlacesIn
<1> QED
  BY <1>2, <1>3

LEMMA NoPlaces == \A tweet : PlacesIn(<< >>, tweet) = {}
  BY DEF PlacesIn

\* The copies of a tweet for a user are where they were; who brings nothing to a
\* session of the user, or takes nothing away, does not count.
SameCopies(tweet, u) ==
  /\ PlacesIn(pending_notifications'[u], tweet) = PlacesIn(pending_notifications[u], tweet)
  /\ \A c \in SessionsOf(u) : PlacesIn(notifications[c], tweet) # {}
       => c \in SessionsOf(u)' /\ PlacesIn(notifications'[c], tweet) = PlacesIn(notifications[c], tweet)
  /\ \A c \in SessionsOf(u)' : PlacesIn(notifications'[c], tweet) # {}
       => c \in SessionsOf(u) /\ PlacesIn(notifications'[c], tweet) = PlacesIn(notifications[c], tweet)
  /\ OnItsWay(tweet, u)' <=> OnItsWay(tweet, u)

LEMMA CopiesKept ==
  ASSUME NEW tweet, NEW u, SameCopies(tweet, u)
  PROVE  /\ Nowhere(tweet, u) => Nowhere(tweet, u)'
         /\ Somewhere(tweet, u) => Somewhere(tweet, u)'
<1>2. NotRead(tweet, u) => NotRead(tweet, u)'
  BY Zenon DEF SameCopies, NotRead
<1>3. Nowhere(tweet, u) => Nowhere(tweet, u)'
  BY <1>2, Zenon DEF SameCopies, Nowhere
<1>4. Pending(tweet, u) => Pending(tweet, u)'
  BY <1>2, Zenon DEF SameCopies, Pending
<1>5. Sending(tweet, u) => Sending(tweet, u)'
  BY <1>2, Zenon DEF SameCopies, Sending
<1>6. ASSUME NEW c \in SessionsOf(u), ReadBy(tweet, u, c)
      PROVE  \E d \in SessionsOf(u)' : ReadBy(tweet, u, d)'
  <2>1. PICK k : PlacesIn(notifications[c], tweet) = {k}
    BY <1>6 DEF ReadBy
  <2>2. c \in SessionsOf(u)' /\ PlacesIn(notifications'[c], tweet) = {k}
    BY <2>1 DEF SameCopies
  <2>3. \A d \in SessionsOf(u)' \ {c} : PlacesIn(notifications'[d], tweet) = {}
    BY <1>6 DEF SameCopies, ReadBy
  <2>4. PlacesIn(pending_notifications'[u], tweet) = {} /\ ~ OnItsWay(tweet, u)'
    BY <1>6, Zenon DEF SameCopies, ReadBy
  <2> QED
    BY <2>2, <2>3, <2>4, Zenon DEF ReadBy
<1> QED
  BY <1>3, <1>4, <1>5, <1>6, Zenon DEF Somewhere

\* A step that leaves the copies alone, and the followers that have been looked at.
LEMMA SameKept ==
  ASSUME KeptOK, \A tweet \in Connections, u \in Users : SameCopies(tweet, u),
         \A tweet \in Connections : Seen(tweet)' = Seen(tweet)
  PROVE  KeptOK'
<1>1. ASSUME NEW tweet \in Connections, NEW u \in Users
      PROVE  IF u \in Seen(tweet)' THEN Somewhere(tweet, u)' ELSE Nowhere(tweet, u)'
  <2>1. IF u \in Seen(tweet) THEN Somewhere(tweet, u) ELSE Nowhere(tweet, u)
    BY Zenon DEF KeptOK
  <2>2. /\ Nowhere(tweet, u) => Nowhere(tweet, u)'
        /\ Somewhere(tweet, u) => Somewhere(tweet, u)'
    BY CopiesKept
  <2>3. Seen(tweet)' = Seen(tweet)
    OBVIOUS
  <2> QED
    BY <2>1, <2>2, <2>3, Zenon
<1> QED
  BY <1>1, Zenon DEF KeptOK

\* The loop of a tweet goes on to a follower it has not looked at.
LEMMA NextIsNew ==
  ASSUME TypeOK, LoopOK, FollowsOK, NEW c \in Connections, pc[c] \in {"sessions", "add_pending"}
  PROVE  Followed(c) \in Users /\ Followed(c) \notin Seen(c)
<1>1. i[c] \in 1 .. Len(followed_by[c]) /\ followed_by[c] \in Seq(Users)
  BY DEF TypeOK, LoopOK
<1>2. ASSUME NEW k \in 1 .. i[c] - 1 PROVE followed_by[c][k] # followed_by[c][i[c]]
  <2>1. k \in DOMAIN followed_by[c] /\ i[c] \in DOMAIN followed_by[c] /\ k # i[c]
    BY <1>1
  <2> QED
    BY <2>1 DEF FollowsOK, IsInjective
<1> QED
  BY <1>2, OwnFollower DEF Seen, Followed

LEMMA SeenGrows ==
  ASSUME TypeOK, LoopOK, NEW c \in Connections, followed_by' = followed_by,
         i' = [i EXCEPT ![c] = i[c] + 1]
  PROVE  /\ Seen(c)' = Seen(c) \cup {Followed(c)}
         /\ \A t \in Connections \ {c} : Seen(t)' = Seen(t)
<1>1. i \in [Connections -> Nat] /\ i[c] >= 1
  BY DEF TypeOK, LoopOK
<1>2. 1 .. i'[c] - 1 = (1 .. i[c] - 1) \cup {i[c]}
  BY <1>1
<1>3. Seen(c)' = Seen(c) \cup {Followed(c)}
  BY <1>2 DEF Seen, Followed
<1>4. \A t \in Connections \ {c} : Seen(t)' = Seen(t)
  BY <1>1 DEF Seen
<1> QED
  BY <1>3, <1>4

-----------------------------------------------------------------------------
(***************************************************************************)
(* One lemma per action that moves a copy or makes one.                    *)
(***************************************************************************)
LEMMA ReceiveKept ==
  ASSUME IInv, WayOK, KeptOK, NEW c \in Connections, Thread(c), Receive(c)
  PROVE  KeptOK'
<1>1. /\ UNCHANGED << pending_notifications, notifications, notifications_to_send, tried,
                      followed_by, i >>
      /\ pc[c] = "read"
  BY DEF Receive, tweetVars, At
<1>2. notifications[c] = << >> /\ ~ Known(c)
  BY <1>1 DEF WayOK, Known, Unregistered
<1>3. /\ \A t \in Connections : c \notin notifications_to_send[t]
      /\ \A t \in Connections : << c, t >> \notin tried
  BY <1>2 DEF WayOK, IInv, SendOK
<1>4. \A d \in Connections \ {c} : req'[d] = req[d]
  BY Frame DEF IInv
<1>5. \A u \in Users, d \in Connections \ {c} : d \in SessionsOf(u)' <=> d \in SessionsOf(u)
  BY <1>4 DEF SessionsOf
<1>6. ASSUME NEW tweet \in Connections, NEW u \in Users PROVE SameCopies(tweet, u)
  <2>1. SessionsOf(u) \subseteq Connections /\ SessionsOf(u)' \subseteq Connections
    BY DEF SessionsOf
  <2>2. PlacesIn(notifications[c], tweet) = {}
    BY <1>2, NoPlaces
  <2>3. OnItsWay(tweet, u)' <=> OnItsWay(tweet, u)
    BY <1>1, <1>3, <1>5, <2>1 DEF OnItsWay
  <2> QED
    BY <1>1, <1>5, <2>1, <2>2, <2>3 DEF SameCopies
<1>7. \A tweet \in Connections : Seen(tweet)' = Seen(tweet)
  BY <1>1 DEF Seen
<1> QED
  BY <1>6, <1>7, SameKept

LEMMA ReadNotificationsKept ==
  ASSUME IInv, OwnerOK, WayOK, KeptOK, NEW c \in Connections, ReadNotifications(c)
  PROVE  KeptOK'
<1>0. PICK u0 \in Users : u0 = req[c].user
  BY OwnPacket DEF ReadNotifications, At, IInv
<1>1. /\ UNCHANGED << req, notifications_to_send, tried, followed_by, i >>
      /\ pc[c] = "read_notifications"
      /\ notifications' = [notifications EXCEPT ![c] = pending_notifications[u0]]
      /\ pending_notifications' = [pending_notifications EXCEPT ![u0] = << >>]
  BY <1>0 DEF ReadNotifications, tweetVars, At
<1>2. /\ notifications \in [Connections -> Seq(Connections)]
      /\ pending_notifications \in [Users -> Seq(Connections)]
  BY DEF IInv, TypeOK
<1>3. notifications[c] = << >> /\ u0 \in Users
  BY <1>0, <1>1 DEF WayOK
<1>4. c \in SessionsOf(u0) /\ \A u \in Users : c \in SessionsOf(u) => u = u0
  BY <1>0, <1>1 DEF OwnerOK, SessionsOf, Unregistered
<1>5. /\ \A d \in Connections \ {c} : notifications'[d] = notifications[d]
      /\ notifications'[c] = pending_notifications[u0]
      /\ \A u \in Users \ {u0} : pending_notifications'[u] = pending_notifications[u]
      /\ pending_notifications'[u0] = << >>
  BY <1>1, <1>2, <1>3
<1>6. ASSUME NEW u \in Users
      PROVE  SessionsOf(u)' = SessionsOf(u) /\ SessionsOf(u) \subseteq Connections
             /\ \A t : OnItsWay(t, u)' <=> OnItsWay(t, u)
  BY <1>1 DEF SessionsOf, OnItsWay
<1>7. ASSUME NEW tweet \in Connections, NEW u \in Users,
             u # u0 \/ PlacesIn(pending_notifications[u], tweet) = {}
      PROVE  SameCopies(tweet, u)
  <2>1. PlacesIn(pending_notifications'[u], tweet) = PlacesIn(pending_notifications[u], tweet)
    BY <1>5, <1>7, NoPlaces
  <2>2. ASSUME NEW d \in SessionsOf(u)
        PROVE  PlacesIn(notifications'[d], tweet) = PlacesIn(notifications[d], tweet)
    <3>1. CASE d = c
      <4>1. u = u0
        BY <1>4, <3>1
      <4> QED
        BY <1>3, <1>5, <1>7, <3>1, <4>1, NoPlaces
    <3>2. CASE d # c
      BY <1>5, <1>6, <3>2
    <3> QED
      BY <3>1, <3>2
  <2> QED
    BY <1>6, <2>1, <2>2, Zenon DEF SameCopies
<1>8. ASSUME NEW tweet \in Connections, PlacesIn(pending_notifications[u0], tweet) # {}
      PROVE  u0 \in Seen(tweet) /\ ReadBy(tweet, u0, c)'
  <2>1. u0 \in Seen(tweet) /\ Somewhere(tweet, u0)
    BY <1>3, <1>8 DEF KeptOK, Nowhere
  <2>2. Pending(tweet, u0)
    BY <1>8, <2>1 DEF Somewhere, ReadBy, Sending
  <2>3. PICK k : PlacesIn(pending_notifications[u0], tweet) = {k}
    BY <2>2 DEF Pending
  <2>4. PlacesIn(notifications'[c], tweet) = {k} /\ PlacesIn(pending_notifications'[u0], tweet) = {}
    BY <1>5, <2>3, NoPlaces
  <2>5. \A d \in SessionsOf(u0)' \ {c} : PlacesIn(notifications'[d], tweet) = {}
    BY <1>3, <1>5, <1>6, <2>2 DEF Pending, NotRead
  <2>6. ~ OnItsWay(tweet, u0)'
    BY <1>3, <1>6, <2>2 DEF Pending
  <2> QED
    BY <2>1, <2>4, <2>5, <2>6, Zenon DEF ReadBy
<1>9. \A tweet \in Connections : Seen(tweet)' = Seen(tweet)
  BY <1>1 DEF Seen
<1>10. ASSUME NEW tweet \in Connections, NEW u \in Users
       PROVE  IF u \in Seen(tweet)' THEN Somewhere(tweet, u)' ELSE Nowhere(tweet, u)'
  <2>1. CASE u # u0 \/ PlacesIn(pending_notifications[u], tweet) = {}
    <3>1. SameCopies(tweet, u)
      BY <1>7, <2>1
    <3>2. /\ Nowhere(tweet, u) => Nowhere(tweet, u)'
          /\ Somewhere(tweet, u) => Somewhere(tweet, u)'
      BY <3>1, CopiesKept
    <3> QED
      BY <1>9, <3>2, Zenon DEF KeptOK
  <2>2. CASE u = u0 /\ PlacesIn(pending_notifications[u], tweet) # {}
    <3>1. u0 \in Seen(tweet) /\ ReadBy(tweet, u0, c)'
      BY <1>8, <2>2
    <3>2. c \in SessionsOf(u0)'
      BY <1>3, <1>4, <1>6
    <3>3. Somewhere(tweet, u0)'
      BY <3>1, <3>2, Zenon DEF Somewhere
    <3> QED
      BY <1>9, <2>2, <3>1, <3>3, Zenon
  <2> QED
    BY <2>1, <2>2
<1> QED
  BY <1>10, Zenon DEF KeptOK

LEMMA ReadFollowedKept ==
  ASSUME IInv, KeptOK, NEW c \in Connections, ReadFollowed(c)
  PROVE  KeptOK'
<1>1. /\ UNCHANGED << req, pending_notifications, notifications, notifications_to_send, tried, i >>
      /\ pc[c] = "tweet"
      /\ \A d \in Connections \ {c} : followed_by'[d] = followed_by[d]
  BY DEF ReadFollowed, At, IInv, TypeOK
<1>2. i[c] = 1
  BY <1>1 DEF IInv, LoopOK
<1>3. ASSUME NEW tweet \in Connections PROVE Seen(tweet)' = Seen(tweet)
  <2>1. CASE tweet = c
    <3>1. Seen(c) = {} /\ Seen(c)' = {}
      BY <1>1, <1>2 DEF Seen
    <3> QED
      BY <2>1, <3>1
  <2>2. CASE tweet # c
    BY <1>1, <2>2 DEF Seen
  <2> QED
    BY <2>1, <2>2
<1>4. \A tweet \in Connections, u \in Users : SameCopies(tweet, u)
  BY <1>1, Zenon DEF SameCopies, SessionsOf, OnItsWay
<1> QED
  BY <1>3, <1>4, SameKept

LEMMA ReadOpenSessionsKept ==
  ASSUME IInv, OwnerOK, FollowsOK, KeptOK, NEW c \in Connections, ReadOpenSessions(c)
  PROVE  KeptOK'
<1>1. /\ UNCHANGED << req, pending_notifications, notifications, tried, followed_by >>
      /\ pc[c] = "sessions"
  BY DEF ReadOpenSessions, At
<1>2. \A u \in Users : SessionsOf(u)' = SessionsOf(u)
  BY <1>1 DEF SessionsOf
<1>3. CASE UNCHANGED << i, notifications_to_send >>
  <2>1. \A tweet \in Connections : Seen(tweet)' = Seen(tweet)
    BY <1>1, <1>3 DEF Seen
  <2>2. \A tweet \in Connections, u \in Users : SameCopies(tweet, u)
    BY <1>1, <1>2, <1>3, Zenon DEF SameCopies, OnItsWay
  <2> QED
    BY <2>1, <2>2, SameKept
<1>4. CASE sessions_map[Followed(c)] # << >>
  <2>0. PICK v \in Users : v = Followed(c) /\ v \notin Seen(c)
    BY <1>1, NextIsNew DEF IInv
  <2>1. /\ notifications_to_send' = [notifications_to_send EXCEPT ![c] = @ \cup ToSet(sessions_map[v])]
        /\ i' = [i EXCEPT ![c] = i[c] + 1]
    BY <1>4, <2>0 DEF ReadOpenSessions, NextFollower
  <2>2. /\ Seen(c)' = Seen(c) \cup {v}
        /\ \A t \in Connections \ {c} : Seen(t)' = Seen(t)
    BY <1>1, <2>0, <2>1, SeenGrows DEF IInv
  <2>3. PICK s : s \in ToSet(sessions_map[v])
    <3>1. sessions_map[v] \in Seq(SessionIds)
      BY DEF IInv, TypeOK
    <3>2. 1 \in DOMAIN sessions_map[v]
      BY <1>4, <2>0, <3>1
    <3> QED
      BY <3>2 DEF ToSet
  <2>4. \A d \in ToSet(sessions_map[v]) : d \in SessionsOf(v)
    BY DEF OwnerOK
  <2>5. \A u \in Users \ {v}, d \in ToSet(sessions_map[v]) : d \notin SessionsOf(u)
    BY <2>4 DEF SessionsOf
  <2>6. /\ notifications_to_send'[c] = notifications_to_send[c] \cup ToSet(sessions_map[v])
        /\ \A t \in Connections \ {c} : notifications_to_send'[t] = notifications_to_send[t]
    BY <2>1 DEF IInv, TypeOK
  <2>7. ASSUME NEW tweet \in Connections, NEW u \in Users, tweet # c \/ u # v
        PROVE  SameCopies(tweet, u)
    <3>1. OnItsWay(tweet, u)' <=> OnItsWay(tweet, u)
      BY <1>1, <1>2, <2>5, <2>6, <2>7 DEF OnItsWay
    <3> QED
      BY <1>1, <1>2, <3>1, Zenon DEF SameCopies
  <2>8. Somewhere(c, v)'
    <3>1. Nowhere(c, v)
      BY <2>0, Zenon DEF KeptOK
    <3>2. OnItsWay(c, v)'
      BY <1>2, <2>3, <2>4, <2>6 DEF OnItsWay
    <3> QED
      BY <1>1, <1>2, <3>1, <3>2, Zenon DEF Nowhere, Somewhere, Sending, NotRead
  <2>9. ASSUME NEW tweet \in Connections, NEW u \in Users
        PROVE  IF u \in Seen(tweet)' THEN Somewhere(tweet, u)' ELSE Nowhere(tweet, u)'
    <3>1. CASE tweet = c /\ u = v
      BY <2>2, <2>8, <3>1
    <3>2. CASE tweet # c \/ u # v
      <4>1. u \in Seen(tweet)' <=> u \in Seen(tweet)
        BY <2>2, <3>2
      <4>2. /\ Nowhere(tweet, u) => Nowhere(tweet, u)'
            /\ Somewhere(tweet, u) => Somewhere(tweet, u)'
        BY <2>7, <3>2, CopiesKept
      <4> QED
        BY <4>1, <4>2, Zenon DEF KeptOK
    <3> QED
      BY <3>1, <3>2
  <2> QED
    BY <2>9, Zenon DEF KeptOK
<1> QED
  BY <1>3, <1>4 DEF ReadOpenSessions

LEMMA AddPendingKept ==
  ASSUME IInv, FollowsOK, KeptOK, NEW c \in Connections, AddPendingNotification(c)
  PROVE  KeptOK'
<1>0. PICK v \in Users : v = Followed(c) /\ v \notin Seen(c)
  BY NextIsNew DEF AddPendingNotification, At, IInv
<1>1. /\ UNCHANGED << req, notifications, notifications_to_send, tried, followed_by >>
      /\ pending_notifications' = [pending_notifications EXCEPT ![v] = Append(@, c)]
      /\ i' = [i EXCEPT ![c] = i[c] + 1]
  BY <1>0 DEF AddPendingNotification, NextFollower
<1>2. /\ Seen(c)' = Seen(c) \cup {v}
      /\ \A t \in Connections \ {c} : Seen(t)' = Seen(t)
  BY <1>0, <1>1, SeenGrows DEF IInv
<1>3. \A t \in Connections, u \in Users :
        SessionsOf(u)' = SessionsOf(u) /\ (OnItsWay(t, u)' <=> OnItsWay(t, u))
  BY <1>1 DEF SessionsOf, OnItsWay
<1>4. /\ pending_notifications'[v] = Append(pending_notifications[v], c)
      /\ \A u \in Users \ {v} : pending_notifications'[u] = pending_notifications[u]
      /\ pending_notifications[v] \in Seq(Connections)
  BY <1>1 DEF IInv, TypeOK
<1>5. ASSUME NEW tweet \in Connections, NEW u \in Users, tweet # c \/ u # v
      PROVE  SameCopies(tweet, u)
  <2>1. PlacesIn(pending_notifications'[u], tweet) = PlacesIn(pending_notifications[u], tweet)
    <3>1. CASE u # v
      BY <1>4, <3>1
    <3>2. CASE u = v
      <4>1. \A t : t # c => PlacesIn(Append(pending_notifications[v], c), t)
                              = PlacesIn(pending_notifications[v], t)
        BY <1>4, PlacesAppend
      <4> QED
        BY <1>4, <1>5, <3>2, <4>1
    <3> QED
      BY <3>1, <3>2
  <2> QED
    BY <1>1, <1>3, <2>1, Zenon DEF SameCopies
<1>6. Somewhere(c, v)'
  <2>1. Nowhere(c, v)
    BY <1>0, Zenon DEF KeptOK
  <2>2. PlacesIn(pending_notifications'[v], c) = {Len(pending_notifications[v]) + 1}
    BY <1>4, <2>1, PlacesAppend DEF Nowhere
  <2>3. Pending(c, v)'
    BY <1>1, <1>3, <2>1, <2>2, Zenon DEF Nowhere, Pending, NotRead
  <2> QED
    BY <2>3, Zenon DEF Somewhere
<1>7. ASSUME NEW tweet \in Connections, NEW u \in Users
      PROVE  IF u \in Seen(tweet)' THEN Somewhere(tweet, u)' ELSE Nowhere(tweet, u)'
  <2>1. CASE tweet = c /\ u = v
    BY <1>2, <1>6, <2>1
  <2>2. CASE tweet # c \/ u # v
    <3>1. u \in Seen(tweet)' <=> u \in Seen(tweet)
      BY <1>2, <2>2
    <3>2. /\ Nowhere(tweet, u) => Nowhere(tweet, u)'
          /\ Somewhere(tweet, u) => Somewhere(tweet, u)'
      BY <1>5, <2>2, CopiesKept
    <3> QED
      BY <3>1, <3>2, Zenon DEF KeptOK
  <2> QED
    BY <2>1, <2>2
<1> QED
  BY <1>7, Zenon DEF KeptOK

LEMMA SendTweetKept ==
  ASSUME IInv, KeptOK, NEW c \in Connections, SendTweet(c), crashed' = "no"
  PROVE  KeptOK'
<1>1. UNCHANGED << req, pending_notifications, notifications, followed_by, i >>
  BY DEF SendTweet
<1>2. PICK session \in notifications_to_send[c] :
        /\ SendNotification(session, c)
        /\ notifications_to_send' = [notifications_to_send EXCEPT ![c] = @ \ {session}]
  BY DEF SendTweet
<1>3. tried' = tried \cup {<< session, c >>}
  BY <1>2 DEF SendNotification
<1>4. /\ notifications_to_send'[c] = notifications_to_send[c] \ {session}
      /\ \A t \in Connections \ {c} : notifications_to_send'[t] = notifications_to_send[t]
  BY <1>2 DEF IInv, TypeOK
<1>5. ASSUME NEW tweet \in Connections, NEW u \in Users PROVE SameCopies(tweet, u)
  <2>1. SessionsOf(u)' = SessionsOf(u)
    BY <1>1 DEF SessionsOf
  <2>2. ASSUME NEW s
        PROVE  s \in notifications_to_send'[tweet] \/ << s, tweet >> \in tried'
               <=> s \in notifications_to_send[tweet] \/ << s, tweet >> \in tried
    BY <1>2, <1>3, <1>4
  <2>3. OnItsWay(tweet, u)' <=> OnItsWay(tweet, u)
    BY <2>1, <2>2, Zenon DEF OnItsWay
  <2> QED
    BY <1>1, <2>1, <2>3, Zenon DEF SameCopies
<1>6. \A tweet \in Connections : Seen(tweet)' = Seen(tweet)
  BY <1>1 DEF Seen
<1> QED
  BY <1>5, <1>6, SameKept

LEMMA KeptStep ==
  ASSUME IInv, OwnerOK, FollowsOK, WayOK, KeptOK, NEW c \in Connections, Thread(c), crashed' = "no"
  PROVE  KeptOK'
<1>1. CASE Receive(c)
  BY <1>1, ReceiveKept
<1>2. CASE ReadNotifications(c)
  BY <1>2, ReadNotificationsKept
<1>3. CASE Deliver(c)
  BY <1>3, DeliverCrashes DEF IInv
<1>4. CASE ReadFollowed(c)
  BY <1>4, ReadFollowedKept
<1>5. CASE ReadOpenSessions(c)
  BY <1>5, ReadOpenSessionsKept
<1>6. CASE AddPendingNotification(c)
  BY <1>6, AddPendingKept
<1>7. CASE SendTweet(c)
  BY <1>7, SendTweetKept
<1>8. ASSUME UNCHANGED << req, pending_notifications, notifications, notifications_to_send, tried,
                          followed_by, i >>
      PROVE  KeptOK'
  <2>1. \A tweet \in Connections, u \in Users : SameCopies(tweet, u)
    BY <1>8, Zenon DEF SameCopies, SessionsOf, OnItsWay
  <2>2. \A tweet \in Connections : Seen(tweet)' = Seen(tweet)
    BY <1>8 DEF Seen
  <2> QED
    BY <2>1, <2>2, SameKept
<1> QED
  BY <1>1, <1>2, <1>3, <1>4, <1>5, <1>6, <1>7, <1>8, NotificationChanges, Changes

-----------------------------------------------------------------------------
LEMMA KeptInvariance == Spec => []KeptInv
<1>1. Init => KeptInv
  BY InitOK, KeptInitOK DEF KeptInv
<1>2. KeptInv /\ [Next]_vars => KeptInv'
  <2> SUFFICES ASSUME KeptInv, [Next]_vars PROVE KeptInv'
    OBVIOUS
  <2>1. ASSUME NEW c \in Connections, Thread(c) PROVE KeptInv'
    <3>1. crashed = "no"
      BY <2>1 DEF Thread
    <3>2. IInv'
      BY StepOK DEF KeptInv
    <3>3. OwnerOK' /\ FollowsOK' /\ WayOK'
      BY <2>1, OwnerStep, FollowsStep, WayStep DEF KeptInv, IInv
    <3>4. crashed' = "no" => KeptOK'
      BY <2>1, <3>1, KeptStep DEF KeptInv
    <3> QED
      BY <3>2, <3>3, <3>4, Zenon DEF KeptInv
  <2>2. CASE UNCHANGED vars
    <3>1. IInv'
      BY StepOK DEF KeptInv
    <3>2. OwnerOK' /\ FollowsOK' /\ WayOK'
      BY <2>2 DEF KeptInv, vars, profileVars, addressVars, tweetVars, OwnerOK, FollowsOK, WayOK,
         SessionsOf, Known
    <3>3. crashed' = "no" => KeptOK'
      <4> SUFFICES ASSUME crashed' = "no" PROVE KeptOK'
        OBVIOUS
      <4>1. KeptOK
        BY <2>2 DEF KeptInv, vars
      <4>2. \A tweet \in Connections, u \in Users : SameCopies(tweet, u)
        BY <2>2, Zenon DEF vars, tweetVars, SameCopies, SessionsOf, OnItsWay
      <4>3. \A tweet \in Connections : Seen(tweet)' = Seen(tweet)
        BY <2>2 DEF vars, tweetVars, Seen
      <4> QED
        BY <4>1, <4>2, <4>3, SameKept
    <3> QED
      BY <3>1, <3>2, <3>3, Zenon DEF KeptInv
  <2> QED
    BY <2>1, <2>2 DEF Next
<1> QED
  BY <1>1, <1>2, PTL DEF Spec

\* One copy, wherever it is.
LEMMA OneCopy ==
  ASSUME NEW tweet, NEW u, Somewhere(tweet, u)
  PROVE  Cardinality(Copies(tweet, u)) = 1
<1> DEFINE P == { << "pending", u, k >> : k \in PlacesIn(pending_notifications[u], tweet) }
           R == UNION { { << "read", c, k >> : k \in PlacesIn(notifications[c], tweet) }
                        : c \in SessionsOf(u) }
           S == { << "tried", tweet, k >> : k \in { n \in {1} : OnItsWay(tweet, u) } }
<1>0. Copies(tweet, u) = P \cup R \cup S
  BY DEF Copies
<1>p. PlacesIn(pending_notifications[u], tweet) = {} => P = {}
  OBVIOUS
<1>r. NotRead(tweet, u) => R = {}
  BY DEF NotRead
<1>s. ~ OnItsWay(tweet, u) => S = {}
  OBVIOUS
<1>1. ASSUME NEW x, P \cup R \cup S = {x} PROVE Cardinality(Copies(tweet, u)) = 1
  BY <1>0, <1>1, FS_Singleton
<1>2. CASE Pending(tweet, u)
  <2>1. PICK k : PlacesIn(pending_notifications[u], tweet) = {k}
    BY <1>2 DEF Pending
  <2>2. P = {<< "pending", u, k >>}
    BY <2>1
  <2>3. R = {} /\ S = {}
    BY <1>2, <1>r, <1>s DEF Pending
  <2> HIDE DEF P, R, S
  <2>4. P \cup R \cup S = {<< "pending", u, k >>}
    BY <2>2, <2>3
  <2> QED
    BY <1>1, <2>4
<1>3. ASSUME NEW c \in SessionsOf(u), ReadBy(tweet, u, c)
      PROVE  Cardinality(Copies(tweet, u)) = 1
  <2>1. PICK k : PlacesIn(notifications[c], tweet) = {k}
    BY <1>3 DEF ReadBy
  <2>2. \A d \in SessionsOf(u) :
          { << "read", d, n >> : n \in PlacesIn(notifications[d], tweet) }
          = IF d = c THEN {<< "read", c, k >>} ELSE {}
    BY <1>3, <2>1 DEF ReadBy
  <2>3. R = {<< "read", c, k >>}
    BY <2>2
  <2>4. P = {} /\ S = {}
    BY <1>3, <1>p, <1>s DEF ReadBy
  <2> HIDE DEF P, R, S
  <2>5. P \cup R \cup S = {<< "read", c, k >>}
    BY <2>3, <2>4
  <2> QED
    BY <1>1, <2>5
<1>4. CASE Sending(tweet, u)
  <2>1. OnItsWay(tweet, u)
    BY <1>4 DEF Sending
  <2>2. S = {<< "tried", tweet, 1 >>}
    BY <2>1
  <2>3. P = {} /\ R = {}
    BY <1>4, <1>p, <1>r DEF Sending
  <2> HIDE DEF P, R, S
  <2>4. P \cup R \cup S = {<< "tried", tweet, 1 >>}
    BY <2>2, <2>3
  <2> QED
    BY <1>1, <2>4
<1> QED
  BY <1>2, <1>3, <1>4 DEF Somewhere

(***************************************************************************)
(* The variables of ServerRequests keep their types.                       *)
(***************************************************************************)
THEOREM TypeCorrect == Spec => []TypeOK
<1>1. IInv => TypeOK
  BY DEF IInv
<1> QED
  BY <1>1, InitOK, StepOK, PTL DEF Spec

(***************************************************************************)
(* The server knows the address of every open session whose login has been *)
(* answered.                                                               *)
(***************************************************************************)
THEOREM AnsweredLoginReachableHolds == Spec => []AnsweredLoginReachable
<1>1. IInv => AnsweredLoginReachable
  BY DEF IInv, SessionsOK, Known, AnsweredLoginReachable, At, Unregistered
<1> QED
  BY <1>1, InitOK, StepOK, PTL DEF Spec

(***************************************************************************)
(* Without a login between opening its session and storing its address,    *)
(* no notification has thrown, whatever gethostbyaddr finds.               *)
(***************************************************************************)
THEOREM ThrowNeedsUnregisteredLoginHolds == Spec => []ThrowNeedsUnregisteredLogin
<1>1. IInv => ThrowNeedsUnregisteredLogin
  BY DEF IInv
<1> QED
  BY <1>1, InitOK, StepOK, PTL DEF Spec

(***************************************************************************)
(* The address of a session is another client's only if that client's      *)
(* connection was accepted while the login was being served.               *)
(***************************************************************************)
THEOREM OwnAddressHolds == Spec => []OwnAddress
<1>1. IInv => OwnAddress
  BY DEF IInv, AddressOK
<1> QED
  BY <1>1, InitOK, StepOK, PTL DEF Spec

(***************************************************************************)
(* While the server runs, a tweet is kept for, or sent to, each follower   *)
(* it has looked at, once: however the logins and tweets interleave, none  *)
(* of ReadNotifications, ReadOpenSessions and AddPendingNotification loses *)
(* a notification or makes a second of it.                                 *)
(***************************************************************************)
THEOREM NotificationKeptOnceHolds == Spec => []NotificationKeptOnce
<1>1. KeptInv => NotificationKeptOnce
  <2> SUFFICES ASSUME KeptInv, crashed = "no",
                      NEW tweet \in Connections, NEW k \in 1 .. i[tweet] - 1
               PROVE  Cardinality(Copies(tweet, followed_by[tweet][k])) = 1
    BY DEF NotificationKeptOnce
  <2>1. /\ i[tweet] \in Nat /\ followed_by[tweet] \in Seq(Users)
        /\ i[tweet] <= Len(followed_by[tweet]) + 1
    BY DEF KeptInv, IInv, TypeOK, WayOK
  <2>2. k \in DOMAIN followed_by[tweet]
    BY <2>1
  <2>3. followed_by[tweet][k] \in Users /\ followed_by[tweet][k] \in Seen(tweet)
    BY <2>1, <2>2 DEF Seen
  <2>4. Somewhere(tweet, followed_by[tweet][k])
    BY <2>3 DEF KeptInv, KeptOK
  <2> QED
    BY <2>4, OneCopy
<1> QED
  BY <1>1, KeptInvariance, PTL

=============================================================================

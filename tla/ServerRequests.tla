---------------------------- MODULE ServerRequests ----------------------------
(***************************************************************************)
(* How the primary serves its clients: a thread per connection runs        *)
(* start_client_thread, which calls TaskManager.run_command, which calls   *)
(* the profiles and the pending notifications, and sends what is due.      *)
(*                                                                         *)
(* A call of login, follow, logout, read_followed or read_open_sessions is *)
(* one step, which ProfileSessionManager's Linearizable justifies; so is a *)
(* call of read_notifications or add_pending_notification, whose bodies    *)
(* notifications_semaphore encloses.  What a thread does between two such  *)
(* calls interleaves with the other threads.                               *)
(*                                                                         *)
(* A tweet is known by the connection that brought it, and so are a cookie *)
(* (its random suffix makes it unique) and the client's address.           *)
(***************************************************************************)
EXTENDS ProfileOps

CONSTANTS
  Follows,        \* pairs << follower, followed >> the primary starts with: it
                  \* is new, or was a backup that learnt them from a primary
  EarlierCookie,  \* the cookie of a session opened at an earlier primary
  NO_COOKIE       \* the cookie of a client that has none

ASSUME RequestAssumption ==
  /\ Follows \subseteq { p \in Users \X Users : p[1] # p[2] }
  /\ {EarlierCookie, NO_COOKIE} \cap SessionIds = {}
  /\ EarlierCookie # NO_COOKIE
  /\ IsFiniteSet(Users)

VARIABLES
  pc,                     \* per connection, the statement its thread is at
  req,                    \* per connection, the packet it received
  response_code,          \* per connection, the code it answers
  sessions_map, followers_map, followed_by_map,  \* ProfileSessionManager
  pending_notifications,  \* per user, the tweets that wait for a login
  cli_addr,               \* the one address start hands every thread: of the
                          \* connection accepted last
  client_sessions,        \* the known cookies, each with its client's address
  followed_by, i,         \* per connection, the vector and the index of tweet
  notifications_to_send,  \* per connection, the sessions tweet has found
  notifications,          \* per connection, what read_notifications returned
  tried,                  \* history: << cookie, tweet >> for which sendNotification
                          \* came back; it only logs a failed connect or write
  overtaken,              \* history: connections that were being served when
                          \* another one was accepted
  crashed                 \* what has ended the process: "no" for nothing, "threw" an
                          \* exception no thread catches, "no host" a null pointer

profileVars == << sessions_map, followers_map, followed_by_map >>
addressVars == << cli_addr, client_sessions, overtaken >>
tweetVars   == << followed_by, i, notifications_to_send >>
vars == << pc, req, response_code, profileVars, pending_notifications,
           addressVars, tweetVars, notifications, tried, crashed >>

Nobody   == "nobody"
NoPacket == [op |-> "none"]

Packet == [op : {"login", "follow", "logout", "tweet"}, user : Users, other : Users,
           cookie : Connections \cup {EarlierCookie, NO_COOKIE}]

\* The statements of start_client_thread another thread can notice.
Labels == {"idle", "read", "login", "read_notifications", "deliver", "follow", "logout",
           "tweet", "sessions", "add_pending", "send", "register", "unregister", "write",
           "done"}

Ends == {"no", "threw", "no host"}

At(c, label)   == pc[c] = label
Goto(c, label) == pc' = [pc EXCEPT ![c] = label]

-----------------------------------------------------------------------------
\* The primary has no session: each user's last logout has reached it as a backup.
Init ==
  /\ pc  = [c \in Connections |-> "idle"]
  /\ req = [c \in Connections |-> NoPacket]
  /\ response_code = [c \in Connections |-> 0]
  /\ sessions_map    = [u \in Users |-> << >>]
  /\ followers_map   = [u \in Users |-> SetToSeq({ v \in Users : << u, v >> \in Follows })]
  /\ followed_by_map = [u \in Users |-> SetToSeq({ v \in Users : << v, u >> \in Follows })]
  /\ pending_notifications = [u \in Users |-> << >>]
  /\ cli_addr = Nobody
  /\ client_sessions = << >>
  /\ overtaken = {}
  /\ followed_by = [c \in Connections |-> << >>]
  /\ i = [c \in Connections |-> 1]
  /\ notifications_to_send = [c \in Connections |-> {}]
  /\ notifications = [c \in Connections |-> << >>]
  /\ tried = {}
  /\ crashed = "no"

(***************************************************************************)
(* What a client sends: a login without a cookie, anything else with the   *)
(* cookie its login was answered with.  Only a logout is told apart by it. *)
(***************************************************************************)
CookiesOf(u) ==
  {EarlierCookie} \cup
  { d \in Connections : /\ At(d, "done") /\ req[d].op = "login"
                        /\ req[d].user = u /\ response_code[d] = 0 }

ClientPackets ==
  { r \in Packet :
      /\ r.op # "follow" => r.other = r.user
      /\ r.op = "login" => r.cookie = NO_COOKIE
      /\ r.op \in {"follow", "tweet"} => r.cookie = EarlierCookie
      /\ r.op = "logout" => r.cookie \in CookiesOf(r.user) }

(***************************************************************************)
(* start: the address of the client goes where that of the last one was.   *)
(***************************************************************************)
Serving == { c \in Connections : pc[c] \notin {"idle", "done"} }

\* Mutant of Accept: cli_addr keeps the address of the first client.
AcceptKeepsFirst(c) ==
  /\ At(c, "idle")
  /\ cli_addr' = IF cli_addr = Nobody THEN c ELSE cli_addr
  /\ overtaken' = overtaken \cup Serving
  /\ Goto(c, "read")
  /\ UNCHANGED << req, response_code, profileVars, pending_notifications, client_sessions,
                  tweetVars, notifications, tried, crashed >>

Accept(c) ==
  /\ At(c, "idle")
  /\ cli_addr' = c
  /\ overtaken' = overtaken \cup Serving
  /\ Goto(c, "read")
  /\ UNCHANGED << req, response_code, profileVars, pending_notifications, client_sessions,
                  tweetVars, notifications, tried, crashed >>

Receive(c) ==
  /\ At(c, "read")
  /\ \E r \in ClientPackets : req' = [req EXCEPT ![c] = r] /\ Goto(c, r.op)
  /\ UNCHANGED << response_code, profileVars, pending_notifications, addressVars,
                  tweetVars, notifications, tried, crashed >>

\* start_client_thread makes a cookie for a packet without one; for a packet
\* with one its variable "cookie" stays empty.
CookieOf(c) == IF req[c].cookie = NO_COOKIE THEN c ELSE EmptyId

-----------------------------------------------------------------------------
(***************************************************************************)
(* CMD_LOGIN.  The pending notifications are read whatever the code is.    *)
(***************************************************************************)
Login(c) ==
  LET code == LoginCode(sessions_map[req[c].user], CookieOf(c))
  IN  /\ At(c, "login")
      /\ response_code' = [response_code EXCEPT ![c] = code]
      /\ sessions_map' = IF code = 0
                         THEN [sessions_map EXCEPT ![req[c].user] = Append(@, CookieOf(c))]
                         ELSE sessions_map
      /\ Goto(c, "read_notifications")
      /\ UNCHANGED << req, followers_map, followed_by_map, pending_notifications,
                      addressVars, tweetVars, notifications, tried, crashed >>

\* Mutant of ReadNotifications: the pending notifications are not cleared.
ReadNotificationsNoClear(c) ==
  LET u == req[c].user
  IN  /\ At(c, "read_notifications")
      /\ notifications' = [notifications EXCEPT ![c] = pending_notifications[u]]
      /\ Goto(c, IF pending_notifications[u] = << >> THEN "register" ELSE "deliver")
      /\ UNCHANGED << req, response_code, profileVars, pending_notifications,
                      addressVars, tweetVars, tried, crashed >>

ReadNotifications(c) ==
  LET u == req[c].user
  IN  /\ At(c, "read_notifications")
      /\ notifications' = [notifications EXCEPT ![c] = pending_notifications[u]]
      /\ pending_notifications' = [pending_notifications EXCEPT ![u] = << >>]
      /\ Goto(c, IF pending_notifications[u] = << >> THEN "register" ELSE "deliver")
      /\ UNCHANGED << req, response_code, profileVars, addressVars, tweetVars,
                      tried, crashed >>

(***************************************************************************)
(* sendNotification: a session that is not in client_sessions has an empty *)
(* port, on which std::stoi throws in a thread that does not catch.  A     *)
(* gethostbyaddr that finds nothing is logged, and its null pointer used.  *)
(***************************************************************************)
SendNotification(session, tweet) ==
  \/ /\ session \in DOMAIN client_sessions
     /\ tried' = tried \cup {<< session, tweet >>}
     /\ UNCHANGED crashed
  \/ /\ crashed' = IF session \in DOMAIN client_sessions THEN "no host" ELSE "threw"
     /\ UNCHANGED tried

Deliver(c) ==
  /\ At(c, "deliver")
  /\ SendNotification(CookieOf(c), Head(notifications[c]))
  /\ notifications' = [notifications EXCEPT ![c] = Tail(@)]
  /\ Goto(c, IF Len(notifications[c]) = 1 THEN "register" ELSE "deliver")
  /\ UNCHANGED << req, response_code, profileVars, pending_notifications,
                  addressVars, tweetVars >>

-----------------------------------------------------------------------------
(***************************************************************************)
(* CMD_FOLLOW and CMD_LOGOUT                                               *)
(***************************************************************************)
Follow(c) ==
  LET r == req[c]
      code == IF r.user = r.other THEN ERROR_FOLLOW_YOURSELF
              ELSE FollowCode(followers_map[r.user], r.other)
  IN  /\ At(c, "follow")
      /\ response_code' = [response_code EXCEPT ![c] = code]
      /\ IF code = 0
         THEN /\ followers_map'   = [followers_map EXCEPT ![r.user] = Append(@, r.other)]
              /\ followed_by_map' = [followed_by_map EXCEPT ![r.other] = Append(@, r.user)]
         ELSE UNCHANGED << followers_map, followed_by_map >>
      /\ Goto(c, "write")
      /\ UNCHANGED << req, sessions_map, pending_notifications, addressVars,
                      tweetVars, notifications, tried, crashed >>

Logout(c) ==
  /\ At(c, "logout")
  /\ sessions_map' = [sessions_map EXCEPT ![req[c].user] = EraseSession(@, CookieOf(c))]
  /\ Goto(c, "unregister")
  /\ UNCHANGED << req, response_code, followers_map, followed_by_map,
                  pending_notifications, addressVars, tweetVars, notifications,
                  tried, crashed >>

-----------------------------------------------------------------------------
(***************************************************************************)
(* CMD_TWEET.  The followers are read once; then, for one after the other, *)
(* the open sessions, and the notification is kept for one who has none.   *)
(***************************************************************************)
ReadFollowed(c) ==
  /\ At(c, "tweet")
  /\ followed_by' = [followed_by EXCEPT ![c] = followed_by_map[req[c].user]]
  /\ Goto(c, IF followed_by_map[req[c].user] = << >> THEN "write" ELSE "sessions")
  /\ UNCHANGED << req, response_code, profileVars, pending_notifications, addressVars,
                  i, notifications_to_send, notifications, tried, crashed >>

Followed(c) == followed_by[c][i[c]]

NextFollower(c) ==
  /\ i' = [i EXCEPT ![c] = @ + 1]
  /\ Goto(c, IF i[c] < Len(followed_by[c]) THEN "sessions"
             ELSE IF notifications_to_send'[c] = {} THEN "write" ELSE "send")

ReadOpenSessions(c) ==
  LET open_sessions == sessions_map[Followed(c)]
  IN  /\ At(c, "sessions")
      /\ IF open_sessions = << >>
         THEN Goto(c, "add_pending") /\ UNCHANGED << i, notifications_to_send >>
         ELSE /\ notifications_to_send' =
                   [notifications_to_send EXCEPT ![c] = @ \cup ToSet(open_sessions)]
              /\ NextFollower(c)
      /\ UNCHANGED << req, response_code, profileVars, pending_notifications,
                      addressVars, followed_by, notifications, tried, crashed >>

AddPendingNotification(c) ==
  /\ At(c, "add_pending")
  /\ pending_notifications' = [pending_notifications EXCEPT ![Followed(c)] = Append(@, c)]
  /\ UNCHANGED notifications_to_send
  /\ NextFollower(c)
  /\ UNCHANGED << req, response_code, profileVars, addressVars, followed_by,
                  notifications, tried, crashed >>

\* The order of an unordered_map: any.
SendTweet(c) ==
  /\ At(c, "send")
  /\ \E session \in notifications_to_send[c] :
       /\ SendNotification(session, c)
       /\ notifications_to_send' = [notifications_to_send EXCEPT ![c] = @ \ {session}]
       /\ Goto(c, IF notifications_to_send[c] = {session} THEN "write" ELSE "send")
  /\ UNCHANGED << req, response_code, profileVars, pending_notifications,
                  addressVars, followed_by, i, notifications >>

-----------------------------------------------------------------------------
(***************************************************************************)
(* After run_command: the address of a login is stored, whatever its code, *)
(* that of a logout is erased, and the packet is answered.                 *)
(***************************************************************************)
\* Mutant of Register: the test of the known cookies is the wrong way round.
RegisterKnown(c) ==
  /\ At(c, "register")
  /\ Goto(c, "write")
  /\ UNCHANGED << req, response_code, profileVars, pending_notifications, addressVars,
                  tweetVars, notifications, tried, crashed >>

Register(c) ==
  /\ At(c, "register")
  /\ client_sessions' = [s \in DOMAIN client_sessions \cup {CookieOf(c)} |->
                           IF s \in DOMAIN client_sessions THEN client_sessions[s] ELSE cli_addr]
  /\ Goto(c, "write")
  /\ UNCHANGED << req, response_code, profileVars, pending_notifications, cli_addr,
                  overtaken, tweetVars, notifications, tried, crashed >>

\* Mutant of Unregister: the address of the packet's cookie is erased, as the code
\* means to, while a tweet may be about to use it.
UnregisterPacketCookie(c) ==
  /\ At(c, "unregister")
  /\ client_sessions' = Restrict(client_sessions, DOMAIN client_sessions \ {req[c].cookie})
  /\ Goto(c, "write")
  /\ UNCHANGED << req, response_code, profileVars, pending_notifications, cli_addr,
                  overtaken, tweetVars, notifications, tried, crashed >>

Unregister(c) ==
  /\ At(c, "unregister")
  /\ client_sessions' = Restrict(client_sessions, DOMAIN client_sessions \ {CookieOf(c)})
  /\ Goto(c, "write")
  /\ UNCHANGED << req, response_code, profileVars, pending_notifications, cli_addr,
                  overtaken, tweetVars, notifications, tried, crashed >>

Write(c) ==
  /\ At(c, "write")
  /\ Goto(c, "done")
  /\ UNCHANGED << req, response_code, profileVars, pending_notifications, addressVars,
                  tweetVars, notifications, tried, crashed >>

-----------------------------------------------------------------------------
Thread(c) ==
  /\ crashed = "no"
  /\ \/ Accept(c) \/ Receive(c)
     \/ Login(c) \/ ReadNotifications(c) \/ Deliver(c)
     \/ Follow(c)
     \/ Logout(c)
     \/ ReadFollowed(c) \/ ReadOpenSessions(c) \/ AddPendingNotification(c) \/ SendTweet(c)
     \/ Register(c) \/ Unregister(c) \/ Write(c)

Served == crashed # "no" \/ \A c \in Connections : At(c, "done")

Next == (\E c \in Connections : Thread(c)) \/ (Served /\ UNCHANGED vars)

Spec == Init /\ [][Next]_vars

-----------------------------------------------------------------------------
TypeOK ==
  /\ pc \in [Connections -> Labels]
  /\ req \in [Connections -> Packet \cup {NoPacket}]
  /\ response_code \in [Connections -> Codes]
  /\ sessions_map \in [Users -> Seq(SessionIds)]
  /\ \A u \in Users : Len(sessions_map[u]) <= SESSIONS_LIMIT
  /\ followers_map   \in [Users -> Seq(Users)]
  /\ followed_by_map \in [Users -> Seq(Users)]
  /\ pending_notifications \in [Users -> Seq(Connections)]
  /\ cli_addr \in Connections \cup {Nobody}
  /\ DOMAIN client_sessions \subseteq SessionIds
  /\ \A s \in DOMAIN client_sessions : client_sessions[s] \in Connections
  /\ overtaken \subseteq Connections
  /\ followed_by \in [Connections -> Seq(Users)]
  /\ i \in [Connections -> Nat]
  /\ notifications_to_send \in [Connections -> SUBSET SessionIds]
  /\ notifications \in [Connections -> Seq(Connections)]
  /\ tried \subseteq SessionIds \X Connections
  /\ crashed \in Ends

-----------------------------------------------------------------------------
SessionsOf(u) == { c \in Connections : req[c].op = "login" /\ req[c].user = u }

PlacesIn(seq, tweet) == { k \in DOMAIN seq : seq[k] = tweet }

\* Tried, or about to be, at the sessions of user u that were open.
OnItsWay(tweet, u) ==
  \E s \in SessionsOf(u) : s \in notifications_to_send[tweet] \/ << s, tweet >> \in tried

\* The places where a tweet is for user u: pending, read by a login, or on its way.
Copies(tweet, u) ==
  { << "pending", u, k >> : k \in PlacesIn(pending_notifications[u], tweet) }
  \cup (UNION { { << "read", c, k >> : k \in PlacesIn(notifications[c], tweet) } : c \in SessionsOf(u) })
  \cup { << "tried", tweet, k >> : k \in { n \in {1} : OnItsWay(tweet, u) } }

(***************************************************************************)
(* While the server runs, it has each follower a tweet has looked at in    *)
(* its books, and once: whatever logins and logouts fall between the       *)
(* reading of the followers, of their sessions and the keeping or sending, *)
(* it does not forget one, keep it twice, or both keep and try it.  What a *)
(* failed connect or write loses is tried: nobody need have received it.   *)
(***************************************************************************)
NotificationKeptOnce ==
  crashed = "no" =>
    \A tweet \in Connections : \A k \in 1 .. i[tweet] - 1 :
      Cardinality(Copies(tweet, followed_by[tweet][k])) = 1

(***************************************************************************)
(* The server knows the address of every open session whose login has been *)
(* answered: ProfileSessionManager's sessions and client_sessions, which   *)
(* different statements change, agree for the client that may use both.    *)
(***************************************************************************)
AnsweredLoginReachable ==
  \A u \in Users : \A s \in ToSet(sessions_map[u]) :
    At(s, "done") => s \in DOMAIN client_sessions

(***************************************************************************)
(* The address of a session is another client's only if that client's      *)
(* connection was accepted while the login was being served: of clients    *)
(* that come one at a time, each is sent its own notifications.            *)
(***************************************************************************)
OwnAddress ==
  \A s \in DOMAIN client_sessions : client_sessions[s] = s \/ s \in overtaken

(***************************************************************************)
(* The one window in which a notification throws is that between the       *)
(* session a login opens and the address it stores: with no login in there *)
(* no session without a port has been sent anything.  (An address that     *)
(* gethostbyaddr does not find ends the process at any time.)              *)
(***************************************************************************)
ThrowNeedsUnregisteredLogin ==
  crashed = "threw" => \E c \in Connections : pc[c] \in {"read_notifications", "deliver", "register"}

(***************************************************************************)
(* The cookie keeps the session (Types.h:64): after the logout that        *)
(* carried it, the session is closed.  start_client_thread drops the       *)
(* cookie of the packet, so this one does not hold.                        *)
(***************************************************************************)
LogoutClosesSession ==
  \A c \in Connections :
    At(c, "done") /\ req[c].op = "logout"
    => req[c].cookie \notin ToSet(sessions_map[req[c].user])

=============================================================================

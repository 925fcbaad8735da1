---------------------------- MODULE ProfileStore ----------------------------
(***************************************************************************)
(* What a ProfileSessionManager promises the threads that call it: every   *)
(* request takes effect, and is answered, at one instant between the call  *)
(* and the return, whatever the other threads do.  The follow relation and *)
(* its inverse change together.                                            *)
(***************************************************************************)
EXTENDS ProfileOps

VARIABLES
  sessions,    \* per user, the ids of the open sessions
  following,   \* per user, the accounts the user follows
  followedBy,  \* per user, the accounts that follow the user
  request,     \* per connection, the request being served, or NoRequest
  answer       \* per connection, the answer, or Unanswered

storeVars == << sessions, following, followedBy, request, answer >>

NoRequest  == [op |-> "none"]
Unanswered == [code |-> -1, list |-> << >>]

StoreInit ==
  /\ sessions   = [u \in Users |-> << >>]
  /\ following  = [u \in Users |-> << >>]
  /\ followedBy = [u \in Users |-> << >>]
  /\ request    = [c \in Connections |-> NoRequest]
  /\ answer     = [c \in Connections |-> Unanswered]

-----------------------------------------------------------------------------
Arrive(c) ==
  /\ request[c] = NoRequest
  /\ \E r \in RequestsOf(c) : request' = [request EXCEPT ![c] = r]
  /\ UNCHANGED << sessions, following, followedBy, answer >>

Answer(c, code, list) ==
  /\ answer[c] = Unanswered
  /\ answer' = [answer EXCEPT ![c] = [code |-> code, list |-> list]]
  /\ UNCHANGED request

(***************************************************************************)
(* Each operation below answers the request r of connection c.             *)
(***************************************************************************)
Login(c, r) ==
  LET code == LoginCode(sessions[r.user], r.id)
  IN  /\ r.op = "login"
      /\ Answer(c, code, << >>)
      /\ sessions' = IF code = 0
                     THEN [sessions EXCEPT ![r.user] = Append(@, r.id)]
                     ELSE sessions
      /\ UNCHANGED << following, followedBy >>

Logout(c, r) ==
  /\ r.op = "logout"
  /\ Answer(c, 0, << >>)
  /\ sessions' = [sessions EXCEPT ![r.user] = EraseSession(@, r.id)]
  /\ UNCHANGED << following, followedBy >>

FollowYourself(c, r) ==
  /\ r.op = "follow"
  /\ r.user = r.other
  /\ Answer(c, ERROR_FOLLOW_YOURSELF, << >>)
  /\ UNCHANGED << sessions, following, followedBy >>

Follow(c, r) ==
  LET code == FollowCode(following[r.user], r.other)
  IN  /\ r.op = "follow"
      /\ r.user # r.other
      /\ Answer(c, code, << >>)
      /\ IF code = 0
         THEN /\ following'  = [following EXCEPT ![r.user] = Append(@, r.other)]
              /\ followedBy' = [followedBy EXCEPT ![r.other] = Append(@, r.user)]
         ELSE UNCHANGED << following, followedBy >>
      /\ UNCHANGED sessions

Listing(r) ==
  [ read_open_sessions |-> sessions,
    read_followers     |-> following,
    read_followed      |-> followedBy ][r.op][r.user]

Read(c, r) ==
  /\ r.op \in ReadOps
  /\ Answer(c, 0, Listing(r))
  /\ UNCHANGED << sessions, following, followedBy >>

Serve(c) ==
  LET r == request[c]
  IN  /\ r # NoRequest
      /\ \/ Login(c, r)
         \/ Logout(c, r)
         \/ FollowYourself(c, r)
         \/ Follow(c, r)
         \/ Read(c, r)

StoreNext == \E c \in Connections : Arrive(c) \/ Serve(c)

StoreSpec == StoreInit /\ [][StoreNext]_storeVars

=============================================================================

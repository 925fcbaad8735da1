----------------------------- MODULE ProfileOps -----------------------------
(***************************************************************************)
(* The data of a ProfileSessionManager and the decisions it takes on it:   *)
(* what a login, a follow and a logout do to the sessions and to the       *)
(* follow relation.  Everything here is a function of values; who may      *)
(* evaluate it, and when, is the business of ProfileStore (atomically) and *)
(* of ProfileSessionManager (under its semaphores).                        *)
(***************************************************************************)
EXTENDS Integers, FiniteSets, SequencesExt

CONSTANTS
  Users,        \* user names
  Connections,  \* client connections; each is served by a thread of its own
  LogoutIds,    \* the session ids a logout may be called with
  EmptyId       \* the empty session id: start_client_thread passes it for
                \* every request that carries a cookie

(***************************************************************************)
(* makeCookie gives every connection that asks for one a cookie of its own *)
(* (it ends in random characters), so the connection stands for its cookie.*)
(***************************************************************************)
ASSUME IdAssumption == /\ EmptyId \notin Connections
                       /\ LogoutIds \subseteq Connections \cup {EmptyId}

\* The threads alive at one time are finitely many: readers are counted in an int.
ASSUME ConnectionsFinite == IsFiniteSet(Connections)

SessionIds == Connections \cup {EmptyId}

SESSIONS_LIMIT == 2

ERROR_SESSION_ALREADY_STARTED   == 3
ERROR_SESSIONS_LIMIT            == 7
ERROR_FOLLOW_YOURSELF           == 11
ERROR_ALREADY_FOLLOWING_ACCOUNT == 13

Codes == { 0, ERROR_SESSION_ALREADY_STARTED, ERROR_SESSIONS_LIMIT,
           ERROR_FOLLOW_YOURSELF, ERROR_ALREADY_FOLLOWING_ACCOUNT }

-----------------------------------------------------------------------------
(***************************************************************************)
(* The requests a connection can bring.  "other" only matters to a follow, *)
(* "id" only to a login and a logout.                                      *)
(***************************************************************************)
ReadOps  == {"read_followers", "read_followed", "read_open_sessions"}
WriteOps == {"login", "logout", "follow"}

Request == [op : WriteOps \cup ReadOps, user : Users, other : Users,
            id : SessionIds]

RequestsOf(c) ==
  { r \in Request :
      /\ r.op # "follow" => r.other = r.user
      /\ r.op = "login"  => r.id = c
      /\ r.op = "logout" => r.id \in LogoutIds
      /\ r.op \notin {"login", "logout"} => r.id = EmptyId }

-----------------------------------------------------------------------------
\* Mutant of LoginCode: the limit is tested with ">" instead of ">=".
LoginCodeOffByOne(sessions, id) ==
  IF Len(sessions) > SESSIONS_LIMIT THEN ERROR_SESSIONS_LIMIT
  ELSE IF Len(sessions) = 1 /\ sessions[1] = id
       THEN ERROR_SESSION_ALREADY_STARTED
       ELSE 0

\* Mutant of FollowCode: the loop over the followed accounts starts at 1.
FollowCodeSkipsFirst(follows, followed) ==
  IF \E i \in 2 .. Len(follows) : follows[i] = followed
  THEN ERROR_ALREADY_FOLLOWING_ACCOUNT ELSE 0

(***************************************************************************)
(* open_session: at most two sessions per user, and the second may not     *)
(* repeat the id of the first.                                             *)
(***************************************************************************)
LoginCode(sessions, id) ==
  IF Len(sessions) >= SESSIONS_LIMIT THEN ERROR_SESSIONS_LIMIT
  ELSE IF Len(sessions) = 1 /\ sessions[1] = id
       THEN ERROR_SESSION_ALREADY_STARTED
       ELSE 0

(***************************************************************************)
(* write_follower and add_follower: an account is followed only once.      *)
(***************************************************************************)
FollowCode(follows, followed) ==
  IF followed \in ToSet(follows) THEN ERROR_ALREADY_FOLLOWING_ACCOUNT ELSE 0

(***************************************************************************)
(* The loop of close_session erases the entry equal to the given id and    *)
(* steps over the entry that moves into the hole: of the at most two       *)
(* sessions of a user it removes one with that id, if there is one.        *)
(***************************************************************************)
EraseSession(sessions, id) ==
  IF id \in ToSet(sessions)
  THEN RemoveAt(sessions, CHOOSE i \in DOMAIN sessions : sessions[i] = id)
  ELSE sessions

=============================================================================

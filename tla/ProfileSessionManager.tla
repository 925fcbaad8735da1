------------------------ MODULE ProfileSessionManager ------------------------
(***************************************************************************)
(* The primary's ProfileSessionManager at the grain of its semaphores: the *)
(* threads of the connections call login, logout, follow and the read_*    *)
(* methods of the one shared object.                                       *)
(*                                                                         *)
(* A readers-writers lock guards the sessions, another the follow          *)
(* relation.  A writer holds the write semaphore of its lock from its      *)
(* first to its last statement.  Readers count themselves under the        *)
(* readers' mutex; the first takes the write semaphore and the last posts  *)
(* it.  The three strings arg0, arg1 and arg2 are shared by the writers of *)
(* both locks.                                                             *)
(*                                                                         *)
(* Assigning or copying one string or one vector is one step: where the    *)
(* code races on arg0..arg2, the race is between whole strings.  The users *)
(* have an entry in every map: operator[] inserts none.                    *)
(***************************************************************************)
EXTENDS ProfileOps

CONSTANT NoText  \* the empty string: the initial value of arg0..arg2

VARIABLES
  pc,               \* per connection, the statement its thread is at
  req,              \* per connection, the request it serves
  code,             \* per connection, the local variable "code"
  list,             \* per connection, the vector a read_* method returns
  body,             \* per connection, the local list of notify_observers
  writeSem,         \* per lock, write_session / write_followers_semaphore
  readersMutex,     \* per lock, session_ / follower_readers_mutex
  readersCount,     \* per lock, session_ / followers_readers_count
  sessions_map, followers_map, followed_by_map,
  args,             \* the shared members arg0, arg1, arg2
  published         \* the bodies handed to ReplicManager.update so far

threadVars == << pc, req, code, list, body >>
lockVars   == << writeSem, readersMutex, readersCount >>
followVars == << followers_map, followed_by_map >>
eventVars  == << args, published >>
vars == << threadVars, lockVars, sessions_map, followVars, eventVars >>

Locks  == {"sessions", "followers"}
Fields == {"arg0", "arg1", "arg2"}

NoRequest == [op |-> "none"]

LockOf(op) == IF op \in {"login", "logout", "read_open_sessions"}
              THEN "sessions" ELSE "followers"

-----------------------------------------------------------------------------
(***************************************************************************)
(* Where a thread is.                                                      *)
(***************************************************************************)
WriterPCs == {"check", "erase", "push", "push2", "arg0", "arg1", "arg2",
              "body0", "body1", "body2", "unlock"}
ReaderPCs == {"read", "leave"}
CountPCs  == {"count", "first", "admit"}       \* holding the mutex on entry
UncountPCs == {"uncount", "last", "released"}  \* holding it on exit

PCs == {"idle", "compare", "lock", "enter", "done"}
       \cup WriterPCs \cup ReaderPCs \cup CountPCs \cup UncountPCs

At(c, label) == pc[c] = label

Uses(c, l) == LockOf(req[c].op) = l

Writing(c, l) == pc[c] \in WriterPCs /\ Uses(c, l)

\* A thread between its two visits to the readers' mutex: it reads the map.
Reading(c, l) == pc[c] \in ReaderPCs /\ Uses(c, l)

Goto(c, label) == pc' = [pc EXCEPT ![c] = label]

Wait(sem, l) == sem[l] > 0 /\ sem' = [sem EXCEPT ![l] = @ - 1]
Post(sem, l) == sem' = [sem EXCEPT ![l] = @ + 1]

-----------------------------------------------------------------------------
Init ==
  /\ pc   = [c \in Connections |-> "idle"]
  /\ req  = [c \in Connections |-> NoRequest]
  /\ code = [c \in Connections |-> 0]
  /\ list = [c \in Connections |-> << >>]
  /\ body = [c \in Connections |-> << >>]
  /\ writeSem     = [l \in Locks |-> 1]
  /\ readersMutex = [l \in Locks |-> 1]
  /\ readersCount = [l \in Locks |-> 0]
  /\ sessions_map    = [u \in Users |-> << >>]
  /\ followers_map   = [u \in Users |-> << >>]
  /\ followed_by_map = [u \in Users |-> << >>]
  /\ args = [f \in Fields |-> NoText]
  /\ published = {}

(***************************************************************************)
(* A request reaches its method: reads go to the readers' lock, follow     *)
(* first compares its arguments, the other writers go to the semaphore.    *)
(***************************************************************************)
Entry(op) == IF op \in ReadOps THEN "enter"
             ELSE IF op = "follow" THEN "compare" ELSE "lock"

Call(c) ==
  /\ At(c, "idle")
  /\ \E r \in RequestsOf(c) :
       /\ req' = [req EXCEPT ![c] = r]
       /\ Goto(c, Entry(r.op))
  /\ UNCHANGED << code, list, body, lockVars, sessions_map, followVars, eventVars >>

FollowYourself(c) ==
  /\ At(c, "compare")
  /\ IF req[c].user = req[c].other
     THEN /\ code' = [code EXCEPT ![c] = ERROR_FOLLOW_YOURSELF]
          /\ Goto(c, "done")
     ELSE Goto(c, "lock") /\ UNCHANGED code
  /\ UNCHANGED << req, list, body, lockVars, sessions_map, followVars, eventVars >>

-----------------------------------------------------------------------------
(***************************************************************************)
(* The writers: open_session, close_session and write_follower.            *)
(***************************************************************************)
\* Mutant of LockWrite: the sem_wait is missing.
LockWriteUnguarded(c) ==
  /\ At(c, "lock")
  /\ Goto(c, IF req[c].op = "logout" THEN "erase" ELSE "check")
  /\ UNCHANGED << req, code, list, body, lockVars, sessions_map, followVars, eventVars >>

LockWrite(c) ==
  /\ At(c, "lock")
  /\ Wait(writeSem, LockOf(req[c].op))
  /\ Goto(c, IF req[c].op = "logout" THEN "erase" ELSE "check")
  /\ UNCHANGED << req, code, list, body, readersMutex, readersCount,
                  sessions_map, followVars, eventVars >>

CodeOf(r) == IF r.op = "login" THEN LoginCode(sessions_map[r.user], r.id)
                               ELSE FollowCode(followers_map[r.user], r.other)

Check(c) ==
  /\ At(c, "check")
  /\ code' = [code EXCEPT ![c] = CodeOf(req[c])]
  /\ Goto(c, IF CodeOf(req[c]) = 0 THEN "push" ELSE "unlock")
  /\ UNCHANGED << req, list, body, lockVars, sessions_map, followVars, eventVars >>

PushSession(c) ==
  /\ At(c, "push") /\ req[c].op = "login"
  /\ sessions_map' = [sessions_map EXCEPT ![req[c].user] = Append(@, req[c].id)]
  /\ Goto(c, "arg0")
  /\ UNCHANGED << req, code, list, body, lockVars, followVars, eventVars >>

EraseSessions(c) ==
  /\ At(c, "erase")
  /\ sessions_map' = [sessions_map EXCEPT ![req[c].user] = EraseSession(@, req[c].id)]
  /\ Goto(c, "arg0")
  /\ UNCHANGED << req, code, list, body, lockVars, followVars, eventVars >>

\* Mutant of PushFollower: followed_by_map is not updated.
PushFollowerOnly(c) ==
  /\ At(c, "push") /\ req[c].op = "follow"
  /\ followers_map' = [followers_map EXCEPT ![req[c].user] = Append(@, req[c].other)]
  /\ Goto(c, "arg0")
  /\ UNCHANGED << req, code, list, body, lockVars, sessions_map,
                  followed_by_map, eventVars >>

PushFollower(c) ==
  /\ At(c, "push") /\ req[c].op = "follow"
  /\ followers_map' = [followers_map EXCEPT ![req[c].user] = Append(@, req[c].other)]
  /\ Goto(c, "push2")
  /\ UNCHANGED << req, code, list, body, lockVars, sessions_map,
                  followed_by_map, eventVars >>

PushFollowed(c) ==
  /\ At(c, "push2")
  /\ followed_by_map' = [followed_by_map EXCEPT ![req[c].other] = Append(@, req[c].user)]
  /\ Goto(c, "arg0")
  /\ UNCHANGED << req, code, list, body, lockVars, sessions_map,
                  followers_map, eventVars >>

(***************************************************************************)
(* The members of the event, assigned one after the other; close_session   *)
(* leaves arg2 as it was.                                                  *)
(***************************************************************************)
EventName == [login |-> "NEW_SESSION", logout |-> "CLOSE_SESSION", follow |-> "FOLLOW"]

ArgOf(r, field) ==
  [ arg0 |-> EventName[r.op],
    arg1 |-> r.user,
    arg2 |-> IF r.op = "login" THEN r.id ELSE r.other ][field]

NextStatement(r, label) ==
  [ arg0  |-> "arg1",
    arg1  |-> IF r.op = "logout" THEN "body0" ELSE "arg2",
    arg2  |-> "body0",
    body0 |-> "body1",
    body1 |-> "body2",
    body2 |-> "unlock" ][label]

SetArg(c) ==
  /\ pc[c] \in Fields
  /\ args' = [args EXCEPT ![pc[c]] = ArgOf(req[c], pc[c])]
  /\ Goto(c, NextStatement(req[c], pc[c]))
  /\ UNCHANGED << req, code, list, body, lockVars, sessions_map, followVars, published >>

(***************************************************************************)
(* notify_observers copies the members into a list of its own, then starts *)
(* the thread that calls ReplicManager.update with it.                     *)
(***************************************************************************)
FieldRead == [body0 |-> "arg0", body1 |-> "arg1", body2 |-> "arg2"]

CopyArg(c) ==
  /\ pc[c] \in DOMAIN FieldRead
  /\ body' = [body EXCEPT ![c] = Append(@, args[FieldRead[pc[c]]])]
  /\ published' = IF pc[c] = "body2" THEN published \cup {body'[c]} ELSE published
  /\ Goto(c, NextStatement(req[c], pc[c]))
  /\ UNCHANGED << req, code, list, lockVars, sessions_map, followVars, args >>

UnlockWrite(c) ==
  /\ At(c, "unlock")
  /\ Post(writeSem, LockOf(req[c].op))
  /\ Goto(c, "done")
  /\ UNCHANGED << req, code, list, body, readersMutex, readersCount,
                  sessions_map, followVars, eventVars >>

-----------------------------------------------------------------------------
(***************************************************************************)
(* The readers: read_open_sessions, read_followers and read_followed.      *)
(***************************************************************************)
LockMutex(c) ==
  /\ pc[c] \in {"enter", "leave"}
  /\ Wait(readersMutex, LockOf(req[c].op))
  /\ Goto(c, IF At(c, "enter") THEN "count" ELSE "uncount")
  /\ UNCHANGED << req, code, list, body, writeSem, readersCount,
                  sessions_map, followVars, eventVars >>

CountReader(c) ==
  LET l == LockOf(req[c].op)
  IN  /\ At(c, "count")
      /\ readersCount' = [readersCount EXCEPT ![l] = @ + 1]
      /\ Goto(c, IF readersCount'[l] = 1 THEN "first" ELSE "admit")
      /\ UNCHANGED << req, code, list, body, writeSem, readersMutex,
                      sessions_map, followVars, eventVars >>

\* Mutant of FirstReader: it does not take the write semaphore.
FirstReaderUnguarded(c) ==
  /\ At(c, "first")
  /\ Goto(c, "admit")
  /\ UNCHANGED << req, code, list, body, lockVars, sessions_map, followVars, eventVars >>

FirstReader(c) ==
  /\ At(c, "first")
  /\ Wait(writeSem, LockOf(req[c].op))
  /\ Goto(c, "admit")
  /\ UNCHANGED << req, code, list, body, readersMutex, readersCount,
                  sessions_map, followVars, eventVars >>

UnlockMutex(c) ==
  /\ pc[c] \in {"admit", "released"}
  /\ Post(readersMutex, LockOf(req[c].op))
  /\ Goto(c, IF At(c, "admit") THEN "read" ELSE "done")
  /\ UNCHANGED << req, code, list, body, writeSem, readersCount,
                  sessions_map, followVars, eventVars >>

Listing(r) ==
  [ read_open_sessions |-> sessions_map,
    read_followers     |-> followers_map,
    read_followed      |-> followed_by_map ][r.op][r.user]

Read(c) ==
  /\ At(c, "read")
  /\ list' = [list EXCEPT ![c] = Listing(req[c])]
  /\ Goto(c, "leave")
  /\ UNCHANGED << req, code, body, lockVars, sessions_map, followVars, eventVars >>

\* Mutant of UncountReader: every reader that leaves posts the write semaphore.
UncountReaderAlwaysLast(c) ==
  LET l == LockOf(req[c].op)
  IN  /\ At(c, "uncount")
      /\ readersCount' = [readersCount EXCEPT ![l] = @ - 1]
      /\ Goto(c, "last")
      /\ UNCHANGED << req, code, list, body, writeSem, readersMutex,
                      sessions_map, followVars, eventVars >>

UncountReader(c) ==
  LET l == LockOf(req[c].op)
  IN  /\ At(c, "uncount")
      /\ readersCount' = [readersCount EXCEPT ![l] = @ - 1]
      /\ Goto(c, IF readersCount'[l] = 0 THEN "last" ELSE "released")
      /\ UNCHANGED << req, code, list, body, writeSem, readersMutex,
                      sessions_map, followVars, eventVars >>

\* Mutant of LastReader: it does not post the write semaphore.
LastReaderKeepsLock(c) ==
  /\ At(c, "last")
  /\ Goto(c, "released")
  /\ UNCHANGED << req, code, list, body, lockVars, sessions_map, followVars, eventVars >>

LastReader(c) ==
  /\ At(c, "last")
  /\ Post(writeSem, LockOf(req[c].op))
  /\ Goto(c, "released")
  /\ UNCHANGED << req, code, list, body, readersMutex, readersCount,
                  sessions_map, followVars, eventVars >>

-----------------------------------------------------------------------------
Writer(c) == \/ LockWrite(c) \/ Check(c) \/ PushSession(c) \/ EraseSessions(c)
             \/ PushFollower(c) \/ PushFollowed(c) \/ SetArg(c) \/ CopyArg(c)
             \/ UnlockWrite(c)

Reader(c) == \/ LockMutex(c) \/ CountReader(c) \/ FirstReader(c) \/ UnlockMutex(c)
             \/ Read(c) \/ UncountReader(c) \/ LastReader(c)

Thread(c) == Call(c) \/ FollowYourself(c) \/ Writer(c) \/ Reader(c)

\* Every connection is served: the model's threads have ended.
Served == (\A c \in Connections : At(c, "done")) /\ UNCHANGED vars

Next == (\E c \in Connections : Thread(c)) \/ Served

Spec == Init /\ [][Next]_vars

(***************************************************************************)
(* A thread runs on unless it waits on a semaphore, and connections stop   *)
(* arriving in the model, so no writer is overtaken forever.               *)
(***************************************************************************)
FairSpec == Spec /\ \A c \in Connections : WF_vars(Thread(c))

-----------------------------------------------------------------------------
Text == {"NEW_SESSION", "CLOSE_SESSION", "FOLLOW", NoText} \cup Users \cup SessionIds

(***************************************************************************)
(* The type invariant: in particular both semaphores of a lock stay        *)
(* binary, so no thread posts one it does not hold.                        *)
(***************************************************************************)
TypeOK ==
  /\ pc   \in [Connections -> PCs]
  /\ req  \in [Connections -> Request \cup {NoRequest}]
  /\ code \in [Connections -> Codes]
  /\ list \in [Connections -> Seq(Users) \cup Seq(SessionIds)]
  /\ body \in [Connections -> Seq(Text)]
  /\ writeSem     \in [Locks -> {0, 1}]
  /\ readersMutex \in [Locks -> {0, 1}]
  /\ readersCount \in [Locks -> Nat]
  /\ sessions_map    \in [Users -> Seq(SessionIds)]
  /\ followers_map   \in [Users -> Seq(Users)]
  /\ followed_by_map \in [Users -> Seq(Users)]
  /\ args \in [Fields -> Text]
  /\ published \subseteq Seq(Text)

(***************************************************************************)
(* No user ever has more than two open sessions, although open_session     *)
(* looks at the size of the list in one statement and appends to the list  *)
(* in a later one, and logins of one user run at the same time.            *)
(***************************************************************************)
SessionLimit == \A u \in Users : Len(sessions_map[u]) <= SESSIONS_LIMIT

(***************************************************************************)
(* "To ensure we only follow someone once" (write_follower): no list of    *)
(* followed accounts has an account twice, or its own user.                *)
(***************************************************************************)
FollowOnce ==
  \A u \in Users : IsInjective(followers_map[u]) /\ u \notin ToSet(followers_map[u])

(***************************************************************************)
(* Whenever a thread may read the follow relation (tweet does, to find the *)
(* accounts to notify), followed_by_map is the inverse of followers_map:   *)
(* the instant between the two appends of write_follower is hidden.        *)
(***************************************************************************)
FollowInverse ==
  (writeSem["followers"] = 1 \/ \E c \in Connections : Reading(c, "followers"))
  => \A u, v \in Users :
       v \in ToSet(followers_map[u]) <=> u \in ToSet(followed_by_map[v])

(***************************************************************************)
(* While a thread copies a list out of a map, no other thread changes the  *)
(* map: a reader never iterates over a vector that a push_back or an erase *)
(* is moving.                                                              *)
(***************************************************************************)
SnapshotStable ==
  [][ \A c \in Connections :
        /\ Reading(c, "sessions")  => UNCHANGED sessions_map
        /\ Reading(c, "followers") => UNCHANGED followVars ]_vars

(***************************************************************************)
(* Every call returns: no order of the four semaphores, no early return    *)
(* and no error code leaves a thread waiting for ever.                     *)
(***************************************************************************)
EveryCallReturns ==
  \A c \in Connections : req[c] # NoRequest ~> At(c, "done")

(***************************************************************************)
(* What passive replication (README.md:12) needs of the events: a FOLLOW   *)
(* event names a follow the primary has stored.  notify_observers reads    *)
(* arg0..arg2 under the lock of its caller only, and a login or a logout   *)
(* holds another lock than a follow does, so this one does not hold.       *)
(***************************************************************************)
EventsAreTrue ==
  \A event \in published :
    event[1] = "FOLLOW" => /\ event[2] \in Users
                          /\ event[3] \in ToSet(followers_map[event[2]])

-----------------------------------------------------------------------------
(***************************************************************************)
(* The calls take effect one at a time.  A call takes effect when it       *)
(* changes or copies a map, or when it finds that it must fail; a follow   *)
(* takes effect with its first append, the second being hidden.            *)
(***************************************************************************)
TookEffect(c) ==
  pc[c] \in {"push2", "arg0", "arg1", "arg2", "body0", "body1", "body2",
            "unlock", "leave", "uncount", "last", "released", "done"}

PendingFollows(u) == { c \in Connections : At(c, "push2") /\ req[c].other = u }

Pick(S) == CHOOSE c \in S : TRUE

FollowedBy == [u \in Users |->
                 followed_by_map[u] \o
                   IF PendingFollows(u) = {} THEN << >>
                   ELSE << req[Pick(PendingFollows(u))].user >>]

Answers == [c \in Connections |->
              IF TookEffect(c) THEN [code |-> code[c], list |-> list[c]]
                               ELSE [code |-> -1, list |-> << >>]]

Store == INSTANCE ProfileStore WITH
  sessions   <- sessions_map,
  following  <- followers_map,
  followedBy <- FollowedBy,
  request    <- req,
  answer     <- Answers

(***************************************************************************)
(* Every interleaving of the threads has the outcome of some sequence of   *)
(* whole calls: the semaphores make the object linearizable.               *)
(***************************************************************************)
Linearizable == Store!StoreSpec

=============================================================================

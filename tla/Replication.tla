----------------------------- MODULE Replication -----------------------------
(***************************************************************************)
(* Passive replication: a primary, ReplicManager's list rm of its backups, *)
(* and what reaches them.                                                  *)
(*                                                                         *)
(* Every change of the profiles or of the table of client addresses is an  *)
(* event, which a thread of its own sends to the backups of rm one after   *)
(* the other.  A backup that joins is appended to rm by a thread of its    *)
(* own, which then sends the list to all, and to the new one a copy of the *)
(* addresses, of the sessions and of the follows.  The heartbeat erases a  *)
(* backup that refuses a connection.  None of these takes a lock on rm.    *)
(*                                                                         *)
(* Each message is a connection of its own; a backup takes one connection  *)
(* at a time, in the order in which they were established.  Pending        *)
(* notifications are not replicated (ReplicManager.cpp:150).               *)
(***************************************************************************)
EXTENDS ProfileOps

CONSTANTS
  Backups,   \* servers that may join as a backup; their ports differ
  Backlog,   \* connections a backup's socket holds before it is read
  Requests   \* the requests each connection may bring, see Calls

Calls == [op : {"login", "logout", "follow"}, user : Users, other : Users]

ASSUME ReplicationAssumption == /\ Requests \subseteq Calls
                                /\ Backlog \in Nat \ {0}

VARIABLES
  calls,         \* per connection, the request it brought
  pc,            \* per connection, where its thread is
  sessions_map,  \* ProfileSessionManager's, at the primary
  follows,       \* the pairs in followers_map, and inversely in followed_by_map
  addresses,     \* the cookies in client_sessions
  rm,            \* the primary's vector of backups
  capacity,      \* what the vector's buffer holds: it moves when this changes
  notifier,      \* per event, the thread that sends it
  joiner,        \* per backup, the thread that lets it join
  life,          \* per backup: "new", "joining" or "listening"
  inbox,         \* per backup, its connections
  copy,          \* per backup, what it has been told
  refused,       \* history: a connection of the primary has been refused
  crashed        \* the primary used an iterator that rm had left behind

callVars   == << calls, pc >>
tables     == << sessions_map, follows, addresses >>
list       == << rm, capacity >>
backupVars == << life, inbox, copy >>
vars == << callVars, tables, list, notifier, joiner, backupVars, refused, crashed >>

\* Each connection causes at most one event of the profiles and one of the addresses.
Events == Connections \X {"profile", "address"}

NoRequest  == [op |-> "none"]
NoMessage  == [type |-> "none"]
NoIterator == [at |-> 1, buffer |-> 0]

Init ==
  /\ calls = [c \in Connections |-> NoRequest]
  /\ pc = [c \in Connections |-> "idle"]
  /\ sessions_map = [u \in Users |-> << >>]
  /\ follows = {}
  /\ addresses = {}
  /\ rm = << >>
  /\ capacity = 0
  /\ notifier = [e \in Events |-> [pc |-> "idle", it |-> NoIterator, msg |-> NoMessage]]
  /\ joiner = [b \in Backups |-> [pc |-> "idle", it |-> NoIterator, todo |-> {}]]
  /\ life = [b \in Backups |-> "new"]
  /\ inbox = [b \in Backups |-> << >>]
  /\ copy = [b \in Backups |-> [sessions  |-> [u \in Users |-> << >>],
                                follows   |-> {},
                                addresses |-> {},
                                backups   |-> {}]]
  /\ refused = FALSE
  /\ crashed = FALSE

-----------------------------------------------------------------------------
(***************************************************************************)
(* The messages.  A list is built after its connection is established, so  *)
(* it waits in the inbox unwritten.                                        *)
(***************************************************************************)
Session(u, id) == [type |-> "NEW_PROFILE_SESSION", user |-> u, id |-> id]
CloseUser(u)   == [type |-> "CLOSE_PROFILE_SESSION", user |-> u]
FollowOf(u, v) == [type |-> "FOLLOW", follower |-> u, followed |-> v]
Address(id)    == [type |-> "NEW_SESSION", id |-> id]
Unwritten(b)   == [type |-> "UNWRITTEN", by |-> b]
ListOf(bs)     == [type |-> "LIST_BACKUP", backups |-> bs]

\* The event is handed over with the call that causes it.
Notify(e, msg) == notifier' = [notifier EXCEPT ![e].pc = "begin", ![e].msg = msg]

(***************************************************************************)
(* The primary's requests.  The profiles' methods are atomic for each      *)
(* other (ProfileSessionManager's Linearizable); a logout is called with   *)
(* the empty cookie and closes nothing at the primary.                     *)
(***************************************************************************)
Login(c) ==
  /\ pc[c] = "login"
  /\ LET u == calls[c].user
     IN  IF LoginCode(sessions_map[u], c) = 0
         THEN /\ sessions_map' = [sessions_map EXCEPT ![u] = Append(@, c)]
              /\ Notify(<< c, "profile" >>, Session(u, c))
         ELSE UNCHANGED << sessions_map, notifier >>
  /\ pc' = [pc EXCEPT ![c] = "register"]
  /\ UNCHANGED << calls, follows, addresses, list, joiner, backupVars, refused, crashed >>

Register(c) ==
  /\ pc[c] = "register"
  /\ addresses' = addresses \cup {c}
  /\ Notify(<< c, "address" >>, Address(c))
  /\ pc' = [pc EXCEPT ![c] = "done"]
  /\ UNCHANGED << calls, sessions_map, follows, list, joiner, backupVars, refused, crashed >>

\* Mutant of Follow: the event does not wait for the code.
FollowTellsAlways(c) ==
  /\ pc[c] = "follow"
  /\ LET p == << calls[c].user, calls[c].other >>
     IN  /\ follows' = IF p[1] # p[2] THEN follows \cup {p} ELSE follows
         /\ Notify(<< c, "profile" >>, FollowOf(p[1], p[2]))
  /\ pc' = [pc EXCEPT ![c] = "done"]
  /\ UNCHANGED << calls, sessions_map, addresses, list, joiner, backupVars, refused, crashed >>

Follow(c) ==
  /\ pc[c] = "follow"
  /\ LET p == << calls[c].user, calls[c].other >>
     IN  IF p[1] # p[2] /\ p \notin follows
         THEN follows' = follows \cup {p} /\ Notify(<< c, "profile" >>, FollowOf(p[1], p[2]))
         ELSE UNCHANGED << follows, notifier >>
  /\ pc' = [pc EXCEPT ![c] = "done"]
  /\ UNCHANGED << calls, sessions_map, addresses, list, joiner, backupVars, refused, crashed >>

\* client_sessions.erase("") and its event change no table.
Logout(c) ==
  /\ pc[c] = "logout"
  /\ Notify(<< c, "profile" >>, CloseUser(calls[c].user))
  /\ pc' = [pc EXCEPT ![c] = "done"]
  /\ UNCHANGED << calls, tables, list, joiner, backupVars, refused, crashed >>

Receive(c) ==
  /\ pc[c] = "idle"
  /\ \E r \in Requests : calls' = [calls EXCEPT ![c] = r] /\ pc' = [pc EXCEPT ![c] = r.op]
  /\ UNCHANGED << tables, list, notifier, joiner, backupVars, refused, crashed >>

-----------------------------------------------------------------------------
(***************************************************************************)
(* Iterating over rm.  An iterator remembers the buffer it points into; a  *)
(* push_back that moves the vector, or an erase that leaves the iterator   *)
(* behind the end, makes the loop read memory that holds no Server: it     *)
(* never meets end(), and get_ip_by_address dereferences a null pointer.   *)
(***************************************************************************)
Begin == [at |-> 1, buffer |-> capacity]

Dangling(it) == it.buffer # capacity \/ it.at > Len(rm) + 1
AtEnd(it)    == ~ Dangling(it) /\ it.at = Len(rm) + 1
Inside(it)   == ~ Dangling(it) /\ it.at <= Len(rm)

Refuses(b) == life[b] # "listening"

\* Mutant of Connect: the socket's queue has no end.
ConnectUnbounded(b, msg) ==
  IF Refuses(b)
  THEN refused' = TRUE /\ UNCHANGED inbox
  ELSE inbox' = [inbox EXCEPT ![b] = Append(@, msg)] /\ UNCHANGED refused

\* connect: refused, or queued when the backup's socket has room.
Connect(b, msg) ==
  IF Refuses(b)
  THEN refused' = TRUE /\ UNCHANGED inbox
  ELSE /\ Len(inbox[b]) < Backlog
       /\ inbox' = [inbox EXCEPT ![b] = Append(@, msg)]
       /\ UNCHANGED refused

\* The loop of a notify_* function; begin() is taken with its first comparison.
LoopOf(e) == IF notifier[e].pc = "begin" THEN Begin ELSE notifier[e].it

NotifySend(e) ==
  /\ notifier[e].pc \in {"begin", "send"} /\ Inside(LoopOf(e))
  /\ Connect(rm[LoopOf(e).at], notifier[e].msg)
  /\ notifier' = [notifier EXCEPT ![e].pc = "send", ![e].it = [LoopOf(e) EXCEPT !.at = @ + 1]]
  /\ UNCHANGED << callVars, tables, list, joiner, life, copy, crashed >>

NotifyEnd(e) ==
  /\ notifier[e].pc \in {"begin", "send"} /\ AtEnd(LoopOf(e))
  /\ notifier' = [notifier EXCEPT ![e] = [pc |-> "done", it |-> NoIterator, msg |-> NoMessage]]
  /\ UNCHANGED << callVars, tables, list, joiner, backupVars, refused, crashed >>

BreakDown ==
  /\ \/ \E e \in Events  : notifier[e].pc = "send" /\ Dangling(notifier[e].it)
     \/ \E b \in Backups : joiner[b].pc = "list" /\ Dangling(joiner[b].it)
  /\ crashed' = TRUE
  /\ UNCHANGED << callVars, tables, list, notifier, joiner, backupVars, refused >>

\* heartbeat_sender leaves its loop at the first that refuses, after erasing it.
HeartbeatErase ==
  /\ \E k \in DOMAIN rm : /\ Refuses(rm[k])
                          /\ \A j \in 1 .. k - 1 : ~ Refuses(rm[j])
                          /\ rm' = RemoveAt(rm, k)
  /\ refused' = TRUE
  /\ UNCHANGED << callVars, tables, capacity, notifier, joiner, backupVars, crashed >>

-----------------------------------------------------------------------------
(***************************************************************************)
(* add_new_backup_server                                                   *)
(***************************************************************************)
JoinGoto(b, label) == joiner' = [joiner EXCEPT ![b].pc = label]

\* Mutant of AddBackup: the list is sent to the new backup only.
AddBackupTellsNew(b) ==
  /\ joiner[b].pc = "add"
  /\ capacity' = IF Len(rm) = capacity THEN IF capacity = 0 THEN 1 ELSE 2 * capacity ELSE capacity
  /\ rm' = Append(rm, b)
  /\ joiner' = [joiner EXCEPT ![b].pc = "list",
                              ![b].it = [at |-> Len(rm'), buffer |-> capacity']]
  /\ UNCHANGED << callVars, tables, notifier, backupVars, refused, crashed >>

\* push_back doubles a full buffer; notify_list_backups begins.
AddBackup(b) ==
  /\ joiner[b].pc = "add"
  /\ capacity' = IF Len(rm) = capacity THEN IF capacity = 0 THEN 1 ELSE 2 * capacity ELSE capacity
  /\ rm' = Append(rm, b)
  /\ joiner' = [joiner EXCEPT ![b].pc = "list", ![b].it = [at |-> 1, buffer |-> capacity']]
  /\ UNCHANGED << callVars, tables, notifier, backupVars, refused, crashed >>

ListConnect(b) ==
  LET target == rm[joiner[b].it.at]
  IN  /\ joiner[b].pc = "list" /\ Inside(joiner[b].it)
      /\ Connect(target, Unwritten(b))
      /\ joiner' = [joiner EXCEPT ![b].pc = IF Refuses(target) THEN "list" ELSE "write",
                                  ![b].it.at = @ + 1]
      /\ UNCHANGED << callVars, tables, list, notifier, life, copy, crashed >>

ListWrite(b) ==
  /\ joiner[b].pc = "write"
  /\ inbox' = [d \in Backups |->
                 [k \in DOMAIN inbox[d] |-> IF inbox[d][k] = Unwritten(b) THEN ListOf(ToSet(rm))
                                                                          ELSE inbox[d][k]]]
  /\ JoinGoto(b, "list")
  /\ UNCHANGED << callVars, tables, list, notifier, life, copy, refused, crashed >>

\* get_sessions and get_followers copy a table; the copy is then sent, in any order.
Copied == [addresses |-> { Address(id) : id \in addresses },
           sessions  |-> UNION { { Session(u, id) : id \in ToSet(sessions_map[u]) } : u \in Users },
           follows   |-> { FollowOf(p[1], p[2]) : p \in follows }]

CopyTable(b, table) ==
  joiner' = [joiner EXCEPT ![b] = [pc |-> table, it |-> NoIterator, todo |-> Copied[table]]]

ListEnd(b) ==
  /\ joiner[b].pc = "list" /\ AtEnd(joiner[b].it)
  /\ CopyTable(b, "addresses")
  /\ UNCHANGED << callVars, tables, list, notifier, backupVars, refused, crashed >>

SendCopied(b) ==
  /\ \E msg \in joiner[b].todo : /\ Connect(b, msg)
                                 /\ joiner' = [joiner EXCEPT ![b].todo = @ \ {msg}]
  /\ UNCHANGED << callVars, tables, list, notifier, life, copy, crashed >>

\* Mutant of CopySent: the follows are forgotten.
CopySentNoFollows(b) ==
  /\ joiner[b].todo = {}
  /\ \/ joiner[b].pc = "addresses" /\ CopyTable(b, "sessions")
     \/ joiner[b].pc = "sessions"  /\ JoinGoto(b, "done")
  /\ UNCHANGED << callVars, tables, list, notifier, backupVars, refused, crashed >>

CopySent(b) ==
  /\ joiner[b].todo = {}
  /\ \/ joiner[b].pc = "addresses" /\ CopyTable(b, "sessions")
     \/ joiner[b].pc = "sessions"  /\ CopyTable(b, "follows")
     \/ joiner[b].pc = "follows"   /\ JoinGoto(b, "done")
  /\ UNCHANGED << callVars, tables, list, notifier, backupVars, refused, crashed >>

-----------------------------------------------------------------------------
(***************************************************************************)
(* A backup.  It tells the primary of itself before it listens.            *)
(***************************************************************************)
Join(b) ==
  /\ life[b] = "new"
  /\ life' = [life EXCEPT ![b] = "joining"]
  /\ JoinGoto(b, "add")
  /\ UNCHANGED << callVars, tables, list, notifier, inbox, copy, refused, crashed >>

Listen(b) ==
  /\ life[b] = "joining"
  /\ life' = [life EXCEPT ![b] = "listening"]
  /\ UNCHANGED << callVars, tables, list, notifier, joiner, inbox, copy, refused, crashed >>

\* The static functions of ProfileSessionManager and of ServerCommunicationManager:
\* a session is added without the primary's tests, a follow with them.
AddSession(data, msg)    == [data EXCEPT !.sessions[msg.user] = Append(@, msg.id)]
RemoveSession(data, msg) == [data EXCEPT !.sessions[msg.user] = << >>]
AddFollower(data, msg)   == [data EXCEPT !.follows = @ \cup {<< msg.follower, msg.followed >>}]

Applied(data, msg, b) ==
  CASE msg.type = "NEW_PROFILE_SESSION"   -> AddSession(data, msg)
    [] msg.type = "CLOSE_PROFILE_SESSION" -> RemoveSession(data, msg)
    [] msg.type = "FOLLOW"      -> AddFollower(data, msg)
    [] msg.type = "NEW_SESSION" -> [data EXCEPT !.addresses = @ \cup {msg.id}]
    [] msg.type = "LIST_BACKUP" -> [data EXCEPT !.backups = msg.backups \ {b}]

Apply(b) ==
  /\ inbox[b] # << >>
  /\ Head(inbox[b]).type # "UNWRITTEN"
  /\ copy' = [copy EXCEPT ![b] = Applied(@, Head(inbox[b]), b)]
  /\ inbox' = [inbox EXCEPT ![b] = Tail(@)]
  /\ UNCHANGED << callVars, tables, list, notifier, joiner, life, refused, crashed >>

-----------------------------------------------------------------------------
Client(c)   == Receive(c) \/ Login(c) \/ Register(c) \/ Follow(c) \/ Logout(c)
Notifier(e) == NotifySend(e) \/ NotifyEnd(e)
Joiner(b)   == \/ AddBackup(b) \/ ListConnect(b) \/ ListWrite(b) \/ ListEnd(b)
               \/ SendCopied(b) \/ CopySent(b)
Backup(b)   == Join(b) \/ Listen(b) \/ Apply(b)

Quiet ==
  /\ \A c \in Connections : pc[c] \in {"idle", "done"}
  /\ \A e \in Events  : notifier[e].pc \in {"idle", "done"}
  /\ \A b \in Backups : joiner[b].pc \in {"idle", "done"} /\ inbox[b] = << >>

Served == crashed \/ (Quiet /\ \A c \in Connections : pc[c] = "done")

Next ==
  \/ /\ ~ crashed
     /\ \/ \E c \in Connections : Client(c)
        \/ \E e \in Events : Notifier(e)
        \/ \E b \in Backups : Joiner(b) \/ Backup(b)
        \/ HeartbeatErase
        \/ BreakDown
  \/ Served /\ UNCHANGED vars

Spec == Init /\ [][Next]_vars

-----------------------------------------------------------------------------
Iterators == [at : Nat \ {0}, buffer : Nat]

TypeOK ==
  /\ calls \in [Connections -> Requests \cup {NoRequest}]
  /\ pc \in [Connections -> {"idle", "login", "register", "follow", "logout", "done"}]
  /\ sessions_map \in [Users -> Seq(Connections)]
  /\ follows \subseteq Users \X Users
  /\ addresses \subseteq Connections
  /\ rm \in Seq(Backups) /\ IsInjective(rm) /\ Len(rm) <= capacity
  /\ \A e \in Events : /\ notifier[e].pc \in {"idle", "begin", "send", "done"}
                       /\ notifier[e].it \in Iterators
  /\ \A b \in Backups : /\ joiner[b].it \in Iterators
                        /\ joiner[b].pc \in {"idle", "add", "list", "write", "addresses",
                                                "sessions", "follows", "done"}
  /\ life \in [Backups -> {"new", "joining", "listening"}]
  /\ \A b \in Backups : Len(inbox[b]) <= Backlog
  /\ \A b \in Backups : /\ copy[b].sessions \in [Users -> Seq(Connections)]
                        /\ copy[b].follows \subseteq Users \X Users
                        /\ copy[b].addresses \subseteq Connections
                        /\ copy[b].backups \subseteq Backups \ {b}
  /\ refused \in BOOLEAN /\ crashed \in BOOLEAN

(***************************************************************************)
(* A backup holds nothing the primary has not accepted: no session of a    *)
(* refused login, no follow that was answered with an error.               *)
(***************************************************************************)
NothingInvented ==
  \A b \in Backups :
    /\ copy[b].follows \subseteq follows
    /\ copy[b].addresses \subseteq addresses
    /\ \A u \in Users : ToSet(copy[b].sessions[u]) \subseteq ToSet(sessions_map[u])

LoggedOut(u) == \E c \in Connections : pc[c] = "done" /\ calls[c].op = "logout" /\ calls[c].user = u

(***************************************************************************)
(* Nothing falls between the copies a new backup is sent and the events:   *)
(* when all is sent, and no connection was refused, every backup in rm has *)
(* the primary's follows and addresses, and the sessions of every user who *)
(* has not logged out.                                                     *)
(***************************************************************************)
AdditionsReachBackups ==
  Quiet /\ ~ refused /\ ~ crashed =>
    \A b \in ToSet(rm) :
      /\ copy[b].follows = follows
      /\ copy[b].addresses = addresses
      /\ \A u \in Users : ~ LoggedOut(u) =>
            ToSet(sessions_map[u]) \subseteq ToSet(copy[b].sessions[u])

(***************************************************************************)
(* However the lists of joins at the same time overtake each other, every  *)
(* backup ends with all the others in its list: an older list is never the *)
(* last to arrive, since a list is built after its connection.             *)
(***************************************************************************)
ListsAgree ==
  Quiet /\ ~ refused /\ ~ crashed =>
    \A b \in ToSet(rm) : copy[b].backups = ToSet(rm) \ {b}

(***************************************************************************)
(* "Avoids segmentation fault" (ReplicManager.cpp:445): the erase of a     *)
(* backup, and the push_back of another, leave the loops over rm intact.   *)
(* They do in the loop that erases, but not in those of the other threads: *)
(* this one does not hold.                                                 *)
(***************************************************************************)
LoopsStayValid == ~ crashed

=============================================================================

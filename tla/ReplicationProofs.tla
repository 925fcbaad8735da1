-------------------------- MODULE ReplicationProofs --------------------------
(***************************************************************************)
(* The safety properties of Replication, for any number of users,          *)
(* connections and backups, and a socket queue of any length.              *)
(*                                                                         *)
(* The inductive invariant has five parts:                                 *)
(*   DataOK      the types, with those of the messages;                    *)
(*   ThreadsOK   which threads have begun: no event is told twice, and no  *)
(*               backup is appended twice;                                 *)
(*   TrueOK      every message on its way says what the tables hold;       *)
(*   ListOK      a backup that a joiner has passed ends with a list of at  *)
(*               least those appended up to that joiner's;                 *)
(*   DeliveryOK  every addition is, for every backup, in its copy or on    *)
(*               its way to it.                                            *)
(* The last two speak of executions in which no connection was refused.    *)
(***************************************************************************)
EXTENDS Replication, ProfileOpsProofs

-----------------------------------------------------------------------------
(***************************************************************************)
(* The messages.                                                           *)
(***************************************************************************)
Items == { Session(u, id) : u \in Users, id \in Connections }
         \cup { FollowOf(u, v) : u \in Users, v \in Users }
         \cup { Address(id) : id \in Connections }

EventMessages == Items \cup { CloseUser(u) : u \in Users }

Messages == EventMessages \cup { Unwritten(b) : b \in Backups }
                          \cup { ListOf(bs) : bs \in SUBSET Backups }

Stored == [sessions : [Users -> Seq(Connections)], follows : SUBSET (Users \X Users),
           addresses : SUBSET Connections, backups : SUBSET Backups]

Telling == [pc : {"idle", "begin", "send", "done"}, it : Iterators,
            msg : EventMessages \cup {NoMessage}]

Joining == [pc : {"idle", "add", "list", "write", "addresses", "sessions", "follows", "done"},
            it : Iterators, todo : SUBSET Items]

CallTypes == /\ calls \in [Connections -> Requests \cup {NoRequest}]
             /\ pc \in [Connections -> {"idle", "login", "register", "follow", "logout", "done"}]

TableTypes == /\ sessions_map \in [Users -> Seq(Connections)]
              /\ follows \subseteq Users \X Users
              /\ addresses \subseteq Connections

RmTypes == rm \in Seq(Backups) /\ IsInjective(rm) /\ Len(rm) <= capacity /\ capacity \in Nat

NotifierTypes == notifier \in [Events -> Telling]
JoinerTypes   == joiner \in [Backups -> Joining]

InboxTypes == /\ inbox \in [Backups -> Seq(Messages)]
              /\ \A b \in Backups : Len(inbox[b]) <= Backlog

CopyTypes == copy \in [Backups -> Stored] /\ \A b \in Backups : b \notin copy[b].backups

FlagTypes == /\ life \in [Backups -> {"new", "joining", "listening"}]
             /\ refused \in BOOLEAN /\ crashed \in BOOLEAN

DataOK == /\ CallTypes /\ TableTypes /\ RmTypes /\ NotifierTypes /\ JoinerTypes
          /\ InboxTypes /\ CopyTypes /\ FlagTypes

EventsOK ==
  /\ \A c \in Connections :
       /\ pc[c] \in {"idle", "login", "follow", "logout"} => notifier[<< c, "profile" >>].pc = "idle"
       /\ pc[c] \in {"idle", "login", "register", "follow", "logout"} =>
            notifier[<< c, "address" >>].pc = "idle"
       /\ pc[c] # "idle" => calls[c] \in Requests
       /\ pc[c] = "logout" => calls[c].op = "logout"
  /\ \A e \in Events : notifier[e].pc \in {"begin", "send"} => notifier[e].msg \in EventMessages

JoinsOK ==
  \A b \in Backups :
    /\ life[b] = "new" => joiner[b].pc = "idle"
    /\ joiner[b].pc \in {"idle", "add"} => \A k \in DOMAIN rm : rm[k] # b
    /\ joiner[b].pc \in {"idle", "add", "list", "write", "done"} => joiner[b].todo = {}

ThreadsOK == EventsOK /\ JoinsOK

\* What a message adds is in the tables, or has been closed.
Said(m) ==
  /\ m.type = "NEW_PROFILE_SESSION" => m.id \in ToSet(sessions_map[m.user])
  /\ m.type = "FOLLOW" => << m.follower, m.followed >> \in follows
  /\ m.type = "NEW_SESSION" => m.id \in addresses
  /\ m.type = "CLOSE_PROFILE_SESSION" => LoggedOut(m.user)

TrueOK ==
  /\ \A e \in Events : Said(notifier[e].msg)
  /\ \A b \in Backups : /\ \A m \in joiner[b].todo : Said(m)
                        /\ \A k \in DOMAIN inbox[b] : Said(inbox[b][k])
  /\ NothingInvented

-----------------------------------------------------------------------------
(***************************************************************************)
(* The lists of backups.                                                   *)
(***************************************************************************)
IsList(m) == m.type \in {"UNWRITTEN", "LIST_BACKUP"}

\* A list that is not written yet will hold all of rm.
Lists(m, bs) == m.type = "UNWRITTEN" \/ (m.type = "LIST_BACKUP" /\ bs \subseteq m.backups)

\* The last list to reach b, or else the one it has, has all of bs.
Covers(b, bs) ==
  \/ \E k \in DOMAIN inbox[b] : /\ Lists(inbox[b][k], bs)
                                /\ \A j \in DOMAIN inbox[b] : j > k => ~ IsList(inbox[b][j])
  \/ /\ \A j \in DOMAIN inbox[b] : ~ IsList(inbox[b][j])
     /\ bs \ {b} \subseteq copy[b].backups

UpTo(n) == { rm[i] : i \in 1 .. n }

\* The joiner of the n-th backup has been at the m-th.
Passed(n, m) ==
  LET j == joiner[rm[n]]
  IN  j.pc \in {"addresses", "sessions", "follows", "done"}
        \/ (j.pc \in {"list", "write"} /\ j.it.at > m)

ListOK ==
  ~ refused =>
    /\ \A n \in DOMAIN rm : \A m \in 1 .. n : Passed(n, m) => Covers(rm[m], UpTo(n))
    /\ \A b \in Backups :
         /\ copy[b].backups \subseteq ToSet(rm)
         /\ \A k \in DOMAIN inbox[b] :
              inbox[b][k].type = "LIST_BACKUP" => inbox[b][k].backups \subseteq ToSet(rm)

-----------------------------------------------------------------------------
(***************************************************************************)
(* The additions.                                                          *)
(***************************************************************************)
\* What a backup must have at last.
Wanted(m) == Said(m) /\ (m.type = "NEW_PROFILE_SESSION" => ~ LoggedOut(m.user))

InCopy(b, m) ==
  /\ m.type = "NEW_PROFILE_SESSION" => m.id \in ToSet(copy[b].sessions[m.user])
  /\ m.type = "FOLLOW" => << m.follower, m.followed >> \in copy[b].follows
  /\ m.type = "NEW_SESSION" => m.id \in copy[b].addresses

\* The table m is in is still to be copied for b.
ToCopy(b, m) ==
  \/ joiner[b].pc \in {"list", "write"}
  \/ joiner[b].pc = "addresses" /\ m.type # "NEW_SESSION"
  \/ joiner[b].pc = "sessions" /\ m.type = "FOLLOW"

\* The thread of an event has still to tell the k-th backup of m.
ToTell(k, m) ==
  \E e \in Events : /\ notifier[e].msg = m
                    /\ \/ notifier[e].pc = "begin"
                       \/ notifier[e].pc = "send" /\ notifier[e].it.at <= k

Queued(b, m) == \E k \in DOMAIN inbox[b] : inbox[b][k] = m

Comes(k, m) ==
  LET b == rm[k]
  IN  InCopy(b, m) \/ Queued(b, m) \/ m \in joiner[b].todo \/ ToCopy(b, m) \/ ToTell(k, m)

DeliveryOK ==
  ~ refused /\ ~ crashed => \A k \in DOMAIN rm : \A m \in Items : Wanted(m) => Comes(k, m)

IInv == DataOK /\ ThreadsOK /\ TrueOK /\ ListOK /\ DeliveryOK

-----------------------------------------------------------------------------
LEMMA TypesHold == DataOK => TypeOK
  BY DEF DataOK, CallTypes, TableTypes, RmTypes, NotifierTypes, JoinerTypes, InboxTypes, CopyTypes,
     FlagTypes, Telling, Joining, Stored, TypeOK

(***************************************************************************)
(* What the messages are made of.                                          *)
(***************************************************************************)
LEMMA ItemKinds ==
  ASSUME NEW m \in Items
  PROVE  \/ \E u \in Users, id \in Connections : m = Session(u, id) /\ m.type = "NEW_PROFILE_SESSION"
                                                /\ m.user = u /\ m.id = id
         \/ \E u \in Users, v \in Users : m = FollowOf(u, v) /\ m.type = "FOLLOW"
                                          /\ m.follower = u /\ m.followed = v
         \/ \E id \in Connections : m = Address(id) /\ m.type = "NEW_SESSION" /\ m.id = id
  BY DEF Items, Session, FollowOf, Address

LEMMA MessageKinds ==
  ASSUME NEW m \in Messages
  PROVE  \/ m \in Items
         \/ m.type = "CLOSE_PROFILE_SESSION" /\ m.user \in Users
         \/ m.type = "UNWRITTEN"
         \/ m.type = "LIST_BACKUP" /\ m.backups \subseteq Backups
  BY DEF Messages, EventMessages, CloseUser, Unwritten, ListOf

LEMMA MessageFields ==
  ASSUME NEW m \in Messages
  PROVE  /\ m.type \in {"NEW_PROFILE_SESSION", "FOLLOW", "NEW_SESSION", "CLOSE_PROFILE_SESSION",
                        "UNWRITTEN", "LIST_BACKUP"}
         /\ m.type = "NEW_PROFILE_SESSION" => m.user \in Users /\ m.id \in Connections
         /\ m.type = "FOLLOW" => m.follower \in Users /\ m.followed \in Users
         /\ m.type = "NEW_SESSION" => m.id \in Connections
         /\ m.type = "CLOSE_PROFILE_SESSION" => m.user \in Users
         /\ m.type = "LIST_BACKUP" => m.backups \subseteq Backups
<1>1. CASE m \in Items
  BY <1>1, ItemKinds
<1> QED
  BY <1>1, MessageKinds

LEMMA MessageSets ==
  /\ Items \subseteq EventMessages /\ EventMessages \subseteq Messages
  /\ \A u \in Users, id \in Connections : Session(u, id) \in Items
  /\ \A u \in Users, v \in Users : FollowOf(u, v) \in Items
  /\ \A id \in Connections : Address(id) \in Items
  /\ \A u \in Users : CloseUser(u) \in EventMessages
  /\ \A b \in Backups : Unwritten(b) \in Messages
  /\ \A bs \in SUBSET Backups : ListOf(bs) \in Messages
  BY DEF Items, EventMessages, Messages

-----------------------------------------------------------------------------
(***************************************************************************)
(* What the steps do to the threads and to the queues.                     *)
(***************************************************************************)
LEMMA IteratorTypes ==
  /\ NoIterator \in Iterators
  /\ \A it \in Iterators : it.at \in Nat /\ it.at >= 1 /\ [it EXCEPT !.at = @ + 1] \in Iterators
  BY DEF NoIterator, Iterators

LEMMA Notified ==
  ASSUME NotifierTypes, NEW e \in Events, NEW msg \in EventMessages, Notify(e, msg)
  PROVE  /\ NotifierTypes'
         /\ notifier'[e].pc = "begin" /\ notifier'[e].msg = msg
         /\ \A f \in Events : f # e => notifier'[f] = notifier[f]
<1>1. notifier[e] \in Telling
  BY DEF NotifierTypes
<1>2. notifier' = [notifier EXCEPT ![e] = [@ EXCEPT !.pc = "begin", !.msg = msg]]
  BY DEF Notify, NotifierTypes
<1>3. [notifier[e] EXCEPT !.pc = "begin", !.msg = msg] \in Telling
  BY <1>1 DEF Telling
<1>4. notifier'[e] = [notifier[e] EXCEPT !.pc = "begin", !.msg = msg]
  BY <1>2 DEF NotifierTypes
<1> QED
  BY <1>1, <1>2, <1>3, <1>4 DEF NotifierTypes, Telling

LEMMA Connected ==
  ASSUME InboxTypes, FlagTypes, NEW b \in Backups, NEW msg \in Messages, Connect(b, msg)
  PROVE  /\ InboxTypes'
         /\ refused' \in BOOLEAN /\ (refused => refused')
         /\ \A d \in Backups : d # b => inbox'[d] = inbox[d]
         /\ inbox'[b] = inbox[b] \/ inbox'[b] = Append(inbox[b], msg)
         /\ ~ refused' => inbox'[b] = Append(inbox[b], msg)
<1>0. inbox[b] \in Seq(Messages) /\ Len(inbox[b]) <= Backlog
  BY DEF InboxTypes
<1>1. Append(inbox[b], msg) \in Seq(Messages) /\ Len(Append(inbox[b], msg)) = Len(inbox[b]) + 1
  BY <1>0
<1>2. Backlog \in Nat
  BY ReplicationAssumption
<1>3. CASE refused' = TRUE /\ inbox' = inbox
  BY <1>3 DEF InboxTypes
<1>4. CASE /\ refused' = refused /\ Len(inbox[b]) < Backlog
           /\ inbox' = [inbox EXCEPT ![b] = Append(@, msg)]
  <2>1. inbox' \in [Backups -> Seq(Messages)]
    BY <1>1, <1>4 DEF InboxTypes
  <2>2. inbox'[b] = Append(inbox[b], msg) /\ \A d \in Backups : d # b => inbox'[d] = inbox[d]
    BY <1>4 DEF InboxTypes
  <2>3. Len(inbox'[b]) <= Backlog
    BY <1>0, <1>1, <1>2, <1>4, <2>2
  <2>4. refused' \in BOOLEAN
    BY <1>4 DEF FlagTypes
  <2>5. \A d \in Backups : Len(inbox'[d]) <= Backlog
    BY <2>2, <2>3 DEF InboxTypes
  <2> QED
    BY <1>4, <2>1, <2>2, <2>4, <2>5 DEF InboxTypes
<1> QED
  BY <1>3, <1>4 DEF Connect

LEMMA Written ==
  ASSUME InboxTypes, RmTypes, NEW b \in Backups,
         inbox' = [d \in Backups |->
                     [k \in DOMAIN inbox[d] |-> IF inbox[d][k] = Unwritten(b) THEN ListOf(ToSet(rm))
                                                                              ELSE inbox[d][k]]]
  PROVE  /\ InboxTypes'
         /\ \A d \in Backups :
              /\ DOMAIN inbox'[d] = DOMAIN inbox[d]
              /\ \A k \in DOMAIN inbox[d] :
                   \/ inbox'[d][k] = inbox[d][k]
                   \/ inbox[d][k].type = "UNWRITTEN" /\ inbox'[d][k] = ListOf(ToSet(rm))
<1>1. ToSet(rm) \subseteq Backups
  BY DEF RmTypes, ToSet
<1>2. ListOf(ToSet(rm)) \in Messages
  BY <1>1, MessageSets
<1>3. ASSUME NEW d \in Backups
      PROVE  /\ inbox'[d] \in Seq(Messages) /\ Len(inbox'[d]) = Len(inbox[d])
             /\ DOMAIN inbox'[d] = DOMAIN inbox[d]
             /\ \A k \in DOMAIN inbox[d] :
                  \/ inbox'[d][k] = inbox[d][k]
                  \/ inbox[d][k].type = "UNWRITTEN" /\ inbox'[d][k] = ListOf(ToSet(rm))
  <2> DEFINE q == inbox[d]
             r == [k \in DOMAIN q |-> IF q[k] = Unwritten(b) THEN ListOf(ToSet(rm)) ELSE q[k]]
  <2>1. q \in Seq(Messages) /\ DOMAIN q = 1 .. Len(q) /\ Len(q) \in Nat
    BY DEF InboxTypes
  <2>2. inbox'[d] = r
    OBVIOUS
  <2>3. \A k \in 1 .. Len(q) : r[k] \in Messages
    BY <1>2, <2>1
  <2>4. DOMAIN r = 1 .. Len(q)
    BY <2>1
  <2>5. r \in [1 .. Len(q) -> Messages]
    BY <2>1, <2>3
  <2>6. r \in Seq(Messages) /\ Len(r) = Len(q)
    <3> HIDE DEF r, q
    <3> QED
      BY <2>1, <2>5
  <2>7. Unwritten(b).type = "UNWRITTEN"
    BY DEF Unwritten
  <2> QED
    BY <2>1, <2>2, <2>4, <2>6, <2>7
<1>4. inbox' \in [Backups -> Seq(Messages)]
  BY <1>3
<1> QED
  BY <1>3, <1>4 DEF InboxTypes

LEMMA Taken ==
  ASSUME InboxTypes, NEW b \in Backups, inbox[b] # << >>, inbox' = [inbox EXCEPT ![b] = Tail(@)]
  PROVE  /\ InboxTypes'
         /\ Head(inbox[b]) \in Messages /\ Head(inbox[b]) = inbox[b][1] /\ 1 \in DOMAIN inbox[b]
         /\ \A d \in Backups : d # b => inbox'[d] = inbox[d]
         /\ \A k \in DOMAIN inbox'[b] : k + 1 \in DOMAIN inbox[b] /\ inbox'[b][k] = inbox[b][k + 1]
         /\ \A k \in DOMAIN inbox[b] : k # 1 => k - 1 \in DOMAIN inbox'[b]
<1>1. inbox[b] \in Seq(Messages)
  BY DEF InboxTypes
<1>2. /\ Head(inbox[b]) \in Messages /\ Head(inbox[b]) = inbox[b][1] /\ 1 \in DOMAIN inbox[b]
      /\ Tail(inbox[b]) \in Seq(Messages) /\ Len(Tail(inbox[b])) = Len(inbox[b]) - 1
      /\ \A k \in DOMAIN Tail(inbox[b]) : k + 1 \in DOMAIN inbox[b] /\ Tail(inbox[b])[k] = inbox[b][k + 1]
      /\ \A k \in DOMAIN inbox[b] : k # 1 => k - 1 \in DOMAIN Tail(inbox[b])
  BY <1>1
<1>3. inbox'[b] = Tail(inbox[b]) /\ \A d \in Backups : d # b => inbox'[d] = inbox[d]
  BY DEF InboxTypes
<1>4. inbox' \in [Backups -> Seq(Messages)]
  BY <1>2 DEF InboxTypes
<1>5. \A d \in Backups : Len(inbox'[d]) <= Backlog
  <2>1. Len(inbox[b]) \in Nat /\ Len(inbox[b]) <= Backlog /\ Backlog \in Nat
    BY <1>1, ReplicationAssumption DEF InboxTypes
  <2>2. Len(inbox'[b]) <= Backlog
    BY <1>2, <1>3, <2>1
  <2> QED
    BY <1>3, <2>2 DEF InboxTypes
<1>6. InboxTypes'
  BY <1>4, <1>5, Zenon DEF InboxTypes
<1> QED
  BY <1>2, <1>3, <1>6

\* push_back: only the place behind the last is new.
LEMMA Appended ==
  ASSUME RmTypes, NEW b \in Backups, \A k \in DOMAIN rm : rm[k] # b,
         rm' = Append(rm, b),
         capacity' = IF Len(rm) = capacity THEN IF capacity = 0 THEN 1 ELSE 2 * capacity ELSE capacity
  PROVE  /\ RmTypes'
         /\ Len(rm) \in Nat /\ DOMAIN rm = 1 .. Len(rm) /\ DOMAIN rm' = 1 .. Len(rm) + 1
         /\ rm'[Len(rm) + 1] = b /\ \A k \in DOMAIN rm : rm'[k] = rm[k]
         /\ ToSet(rm') = ToSet(rm) \cup {b}
<1>1. rm \in Seq(Backups) /\ capacity \in Nat /\ Len(rm) <= capacity /\ Len(rm) \in Nat
  BY DEF RmTypes
<1>2. b \notin ToSet(rm)
  BY DEF ToSet
<1>3. /\ rm' \in Seq(Backups) /\ Len(rm') = Len(rm) + 1 /\ IsInjective(rm')
      /\ ToSet(rm') = ToSet(rm) \cup {b}
  BY <1>1, <1>2, AppendElements DEF RmTypes
<1>4. capacity' \in Nat /\ Len(rm') <= capacity'
  BY <1>1, <1>3
<1>5. /\ DOMAIN rm = 1 .. Len(rm) /\ DOMAIN rm' = 1 .. Len(rm) + 1
      /\ rm'[Len(rm) + 1] = b /\ \A k \in DOMAIN rm : rm'[k] = rm[k]
  BY <1>1
<1> QED
  BY <1>1, <1>3, <1>4, <1>5, Zenon DEF RmTypes

LEMMA Erased ==
  ASSUME RmTypes, NEW k \in DOMAIN rm, rm' = RemoveAt(rm, k), capacity' = capacity
  PROVE  /\ RmTypes'
         /\ \A i \in DOMAIN rm' : \E j \in DOMAIN rm : rm'[i] = rm[j]
<1>1. rm \in Seq(Backups) /\ Len(rm) \in Nat /\ k \in 1 .. Len(rm) /\ Len(rm) <= capacity
  BY DEF RmTypes
<1> DEFINE left  == SubSeq(rm, 1, k - 1)
           right == SubSeq(rm, k + 1, Len(rm))
<1>2. left \in Seq(Backups) /\ Len(left) = k - 1 /\ \A i \in 1 .. k - 1 : left[i] = rm[i]
  BY <1>1
<1>3. /\ right \in Seq(Backups) /\ Len(right) = Len(rm) - k
      /\ \A i \in 1 .. Len(rm) - k : right[i] = rm[k + i]
  BY <1>1
<1>4. rm' = left \o right
  BY DEF RemoveAt
<1>5. /\ rm' \in Seq(Backups) /\ Len(rm') = Len(rm) - 1
      /\ \A i \in 1 .. Len(rm) - 1 : rm'[i] = IF i < k THEN rm[i] ELSE rm[i + 1]
  <2> HIDE DEF left, right
  <2>1. left \o right \in Seq(Backups) /\ Len(left \o right) = Len(rm) - 1
    BY <1>1, <1>2, <1>3
  <2>2. ASSUME NEW i \in 1 .. Len(rm) - 1
        PROVE  (left \o right)[i] = IF i < k THEN rm[i] ELSE rm[i + 1]
    BY <1>1, <1>2, <1>3, SMTT(30)
  <2> QED
    BY <1>4, <2>1, <2>2
<1>6. \A i, j \in 1 .. Len(rm) : rm[i] = rm[j] => i = j
  BY <1>1 DEF RmTypes, IsInjective
<1>7. IsInjective(rm')
  <2>1. ASSUME NEW i \in 1 .. Len(rm) - 1, NEW j \in 1 .. Len(rm) - 1, rm'[i] = rm'[j]
        PROVE  i = j
    BY <1>1, <1>5, <1>6, <2>1
  <2> QED
    BY <1>5, <2>1 DEF IsInjective
<1>8. \A i \in DOMAIN rm' : \E j \in DOMAIN rm : rm'[i] = rm[j]
  BY <1>1, <1>5
<1>9. Len(rm') <= capacity'
  BY <1>1, <1>5 DEF RmTypes
<1> QED
  BY <1>5, <1>7, <1>8, <1>9 DEF RmTypes

-----------------------------------------------------------------------------
(***************************************************************************)
(* Where a step takes its thread.                                          *)
(***************************************************************************)
JoinerMoves(b) == JoinerTypes' /\ \A d \in Backups : d # b => joiner'[d] = joiner[d]

LEMMA JoinGotoMoves ==
  ASSUME JoinerTypes, NEW b \in Backups, NEW label \in {"add", "list", "done"}, JoinGoto(b, label)
  PROVE  /\ JoinerMoves(b)
         /\ joiner'[b].pc = label /\ joiner'[b].it = joiner[b].it /\ joiner'[b].todo = joiner[b].todo
<1>1. joiner[b] \in Joining
  BY DEF JoinerTypes
<1>2. [joiner[b] EXCEPT !.pc = label] \in Joining
  BY <1>1 DEF Joining
<1>3. joiner' = [joiner EXCEPT ![b] = [joiner[b] EXCEPT !.pc = label]]
  BY DEF JoinGoto
<1> QED
  BY <1>1, <1>2, <1>3 DEF JoinerTypes, JoinerMoves, Joining

LEMMA AddBackupMoves ==
  ASSUME JoinerTypes, RmTypes, NEW b \in Backups, AddBackup(b), capacity' \in Nat
  PROVE  /\ JoinerMoves(b)
         /\ joiner'[b].pc = "list" /\ joiner'[b].it.at = 1 /\ joiner'[b].todo = joiner[b].todo
<1>1. joiner[b] \in Joining
  BY DEF JoinerTypes
<1> DEFINE it == [at |-> 1, buffer |-> capacity']
<1>2. it \in Iterators
  BY DEF Iterators
<1>3. joiner' = [joiner EXCEPT ![b] = [joiner[b] EXCEPT !.pc = "list", !.it = it]]
  BY DEF AddBackup, JoinerTypes
<1> HIDE DEF it
<1>4. [joiner[b] EXCEPT !.pc = "list", !.it = it] \in Joining
  BY <1>1, <1>2 DEF Joining
<1>5. joiner'[b].pc = "list" /\ joiner'[b].it = it /\ joiner'[b].todo = joiner[b].todo
  BY <1>1, <1>3, <1>4 DEF JoinerTypes, Joining
<1>6. JoinerMoves(b)
  BY <1>3, <1>4 DEF JoinerTypes, JoinerMoves
<1> QED
  BY <1>5, <1>6 DEF it

LEMMA ListConnectMoves ==
  ASSUME JoinerTypes, RmTypes, NEW b \in Backups, ListConnect(b)
  PROVE  /\ JoinerMoves(b)
         /\ joiner[b].pc = "list" /\ joiner[b].it.at \in DOMAIN rm
         /\ joiner'[b].pc \in {"list", "write"} /\ joiner'[b].it.at = joiner[b].it.at + 1
         /\ joiner'[b].todo = joiner[b].todo
         /\ Connect(rm[joiner[b].it.at], Unwritten(b))
<1>1. joiner[b] \in Joining
  BY DEF JoinerTypes
<1>2. joiner[b].it \in Iterators /\ joiner[b].it.at \in Nat /\ joiner[b].it.at >= 1
  BY <1>1, IteratorTypes DEF Joining
<1>3. joiner[b].it.at \in DOMAIN rm
  BY <1>2 DEF ListConnect, Inside, RmTypes
<1> DEFINE it    == [joiner[b].it EXCEPT !.at = @ + 1]
           label == IF Refuses(rm[joiner[b].it.at]) THEN "list" ELSE "write"
<1>4. it \in Iterators /\ it.at = joiner[b].it.at + 1
  BY <1>2 DEF Iterators
<1>5. joiner' = [joiner EXCEPT ![b] = [joiner[b] EXCEPT !.pc = label, !.it = it]]
  BY DEF ListConnect, JoinerTypes, Joining
<1>6. label \in {"list", "write"}
  OBVIOUS
<1> HIDE DEF it, label
<1>7. [joiner[b] EXCEPT !.pc = label, !.it = it] \in Joining
  BY <1>1, <1>4, <1>6 DEF Joining
<1>8. joiner'[b].pc = label /\ joiner'[b].it = it /\ joiner'[b].todo = joiner[b].todo
  BY <1>1, <1>5, <1>7 DEF JoinerTypes, Joining
<1>9. JoinerMoves(b)
  BY <1>5, <1>7 DEF JoinerTypes, JoinerMoves
<1> QED
  BY <1>3, <1>4, <1>6, <1>8, <1>9 DEF ListConnect

LEMMA CopiedItems ==
  ASSUME TableTypes
  PROVE  /\ Copied.addresses \subseteq Items /\ Copied.sessions \subseteq Items
         /\ Copied.follows \subseteq Items
<1>1. Copied.addresses = { Address(id) : id \in addresses }
  BY DEF Copied
<1>2. Copied.follows = { FollowOf(p[1], p[2]) : p \in follows }
  BY DEF Copied
<1>3. Copied.sessions = UNION { { Session(u, id) : id \in ToSet(sessions_map[u]) } : u \in Users }
  BY DEF Copied
<1>4. \A u \in Users : ToSet(sessions_map[u]) \subseteq Connections
  BY DEF TableTypes, ToSet
<1>5. \A p \in follows : p[1] \in Users /\ p[2] \in Users
  BY DEF TableTypes
<1> QED
  BY <1>1, <1>2, <1>3, <1>4, <1>5, MessageSets DEF TableTypes

LEMMA CopyTableMoves ==
  ASSUME JoinerTypes, TableTypes, NEW b \in Backups,
         NEW table \in {"addresses", "sessions", "follows"}, CopyTable(b, table)
  PROVE  /\ JoinerMoves(b)
         /\ joiner'[b].pc = table /\ joiner'[b].todo = Copied[table]
<1>1. Copied[table] \in SUBSET Items
  <2>1. table = "addresses" \/ table = "sessions" \/ table = "follows"
    OBVIOUS
  <2> QED
    BY <2>1, CopiedItems
<1> DEFINE todo == Copied[table]
<1>2. joiner' = [joiner EXCEPT ![b] = [pc |-> table, it |-> NoIterator, todo |-> todo]]
  BY DEF CopyTable
<1>3. todo \in SUBSET Items
  BY <1>1
<1> HIDE DEF todo
<1>4. [pc |-> table, it |-> NoIterator, todo |-> todo] \in Joining
  BY <1>3, IteratorTypes DEF Joining
<1>5. joiner'[b].pc = table /\ joiner'[b].todo = todo
  BY <1>2 DEF JoinerTypes
<1>6. JoinerMoves(b)
  BY <1>2, <1>4 DEF JoinerTypes, JoinerMoves
<1> QED
  BY <1>5, <1>6 DEF todo

LEMMA SendCopiedMoves ==
  ASSUME JoinerTypes, NEW b \in Backups, SendCopied(b)
  PROVE  \E msg \in joiner[b].todo :
           /\ msg \in Items /\ Connect(b, msg)
           /\ JoinerMoves(b)
           /\ joiner'[b].pc = joiner[b].pc /\ joiner'[b].it = joiner[b].it
           /\ joiner'[b].todo = joiner[b].todo \ {msg}
<1>1. joiner[b] \in Joining
  BY DEF JoinerTypes
<1>2. PICK msg \in joiner[b].todo : /\ Connect(b, msg)
                                   /\ joiner' = [joiner EXCEPT ![b].todo = @ \ {msg}]
  BY DEF SendCopied
<1>3. msg \in Items
  BY <1>1 DEF Joining
<1> DEFINE todo == joiner[b].todo \ {msg}
<1>4. todo \in SUBSET Items
  BY <1>1 DEF Joining
<1>5. joiner' = [joiner EXCEPT ![b] = [joiner[b] EXCEPT !.todo = todo]]
  BY <1>2
<1> HIDE DEF todo
<1>6. [joiner[b] EXCEPT !.todo = todo] \in Joining
  BY <1>1, <1>4 DEF Joining
<1>7. /\ joiner'[b].pc = joiner[b].pc /\ joiner'[b].it = joiner[b].it
      /\ joiner'[b].todo = todo
  BY <1>1, <1>5, <1>6 DEF JoinerTypes, Joining
<1>8. JoinerMoves(b)
  BY <1>5, <1>6 DEF JoinerTypes, JoinerMoves
<1> QED
  BY <1>2, <1>3, <1>7, <1>8 DEF todo

LEMMA NotifySendMoves ==
  ASSUME NotifierTypes, RmTypes, NEW e \in Events, NotifySend(e)
  PROVE  LET at == IF notifier[e].pc = "begin" THEN 1 ELSE notifier[e].it.at
         IN  /\ notifier[e].pc \in {"begin", "send"}
             /\ at \in DOMAIN rm /\ at \in Nat /\ Connect(rm[at], notifier[e].msg)
             /\ NotifierTypes' /\ \A f \in Events : f # e => notifier'[f] = notifier[f]
             /\ notifier'[e].pc = "send" /\ notifier'[e].it.at = at + 1
             /\ notifier'[e].msg = notifier[e].msg
<1>1. notifier[e] \in Telling
  BY DEF NotifierTypes
<1> DEFINE loop == LoopOf(e)
           next == [loop EXCEPT !.at = @ + 1]
<1>2. /\ loop \in Iterators
      /\ loop.at = IF notifier[e].pc = "begin" THEN 1 ELSE notifier[e].it.at
  BY <1>1 DEF LoopOf, Begin, Iterators, Telling, RmTypes
<1>3. /\ notifier[e].pc \in {"begin", "send"} /\ Inside(loop)
      /\ Connect(rm[loop.at], notifier[e].msg)
      /\ notifier' = [notifier EXCEPT ![e] = [notifier[e] EXCEPT !.pc = "send", !.it = next]]
  BY DEF NotifySend, NotifierTypes, Telling
<1> HIDE DEF loop
<1>4. loop.at \in DOMAIN rm /\ loop.at \in Nat
  <2>1. loop.at \in Nat /\ loop.at >= 1
    BY <1>2, IteratorTypes
  <2>2. loop.at <= Len(rm)
    BY <1>3 DEF Inside
  <2> QED
    BY <2>1, <2>2 DEF RmTypes
<1>5. next \in Iterators /\ next.at = loop.at + 1
  BY <1>2 DEF Iterators
<1> HIDE DEF next
<1>6. [notifier[e] EXCEPT !.pc = "send", !.it = next] \in Telling
  BY <1>1, <1>5 DEF Telling
<1>7. /\ notifier'[e].pc = "send" /\ notifier'[e].it = next
      /\ notifier'[e].msg = notifier[e].msg
  BY <1>1, <1>3, <1>6 DEF NotifierTypes, Telling
<1>8. NotifierTypes' /\ \A f \in Events : f # e => notifier'[f] = notifier[f]
  BY <1>3, <1>6 DEF NotifierTypes
<1> QED
  BY <1>2, <1>3, <1>4, <1>5, <1>7, <1>8

LEMMA NotifyEndMoves ==
  ASSUME NotifierTypes, NEW e \in Events, NotifyEnd(e)
  PROVE  /\ NotifierTypes' /\ \A f \in Events : f # e => notifier'[f] = notifier[f]
         /\ notifier'[e].pc = "done" /\ notifier'[e].msg = NoMessage
         /\ AtEnd(LoopOf(e))
<1>1. [pc |-> "done", it |-> NoIterator, msg |-> NoMessage] \in Telling
  BY IteratorTypes DEF Telling
<1> QED
  BY <1>1 DEF NotifyEnd, NotifierTypes

\* What a backup makes of a message.
LEMMA AppliedFields ==
  ASSUME NEW data \in Stored, NEW b \in Backups, b \notin data.backups,
         NEW m \in Messages, m.type # "UNWRITTEN"
  PROVE  LET new == Applied(data, m, b)
         IN  /\ new \in Stored /\ b \notin new.backups
             /\ new.sessions = IF m.type = "NEW_PROFILE_SESSION"
                               THEN [data.sessions EXCEPT ![m.user] = Append(@, m.id)]
                               ELSE IF m.type = "CLOSE_PROFILE_SESSION"
                                    THEN [data.sessions EXCEPT ![m.user] = << >>]
                                    ELSE data.sessions
             /\ new.follows = IF m.type = "FOLLOW"
                              THEN data.follows \cup {<< m.follower, m.followed >>}
                              ELSE data.follows
             /\ new.addresses = IF m.type = "NEW_SESSION" THEN data.addresses \cup {m.id}
                                ELSE data.addresses
             /\ new.backups = IF m.type = "LIST_BACKUP" THEN m.backups \ {b} ELSE data.backups
<1>1. CASE m.type = "NEW_PROFILE_SESSION"
  <2>1. m.user \in Users /\ m.id \in Connections
    BY <1>1, MessageFields
  <2> DEFINE sessions == [data.sessions EXCEPT ![m.user] = Append(@, m.id)]
  <2>2. Applied(data, m, b) = AddSession(data, m)
    BY <1>1 DEF Applied
  <2>3. sessions \in [Users -> Seq(Connections)]
    BY <2>1 DEF Stored
  <2>4. AddSession(data, m) = [data EXCEPT !.sessions = sessions]
    BY DEF AddSession
  <2>5. Applied(data, m, b) = [data EXCEPT !.sessions = sessions]
    BY <2>2, <2>4
  <2> HIDE DEF sessions
  <2>6. /\ [data EXCEPT !.sessions = sessions] \in Stored
        /\ [data EXCEPT !.sessions = sessions].sessions = sessions
        /\ [data EXCEPT !.sessions = sessions].follows = data.follows
        /\ [data EXCEPT !.sessions = sessions].addresses = data.addresses
        /\ [data EXCEPT !.sessions = sessions].backups = data.backups
    BY <2>3 DEF Stored
  <2> QED
    BY <1>1, <2>5, <2>6 DEF sessions
<1>2. CASE m.type = "CLOSE_PROFILE_SESSION"
  <2>1. m.user \in Users
    BY <1>2, MessageFields
  <2>2. Applied(data, m, b) = [data EXCEPT !.sessions = [@ EXCEPT ![m.user] = << >>]]
    BY <1>2 DEF Applied, RemoveSession, Stored
  <2>3. [data.sessions EXCEPT ![m.user] = << >>] \in [Users -> Seq(Connections)]
    BY <2>1 DEF Stored
  <2> QED
    BY <1>2, <2>2, <2>3 DEF Stored
<1>3. CASE m.type = "FOLLOW"
  <2>1. m.follower \in Users /\ m.followed \in Users
    BY <1>3, MessageFields
  <2>2. Applied(data, m, b) = AddFollower(data, m)
    BY <1>3 DEF Applied
  <2> DEFINE follow == data.follows \cup {<< m.follower, m.followed >>}
  <2>3. AddFollower(data, m) = [data EXCEPT !.follows = follow]
    BY DEF AddFollower
  <2>4. follow \subseteq Users \X Users
    BY <2>1 DEF Stored
  <2>5. Applied(data, m, b) = [data EXCEPT !.follows = follow]
    BY <2>2, <2>3
  <2> HIDE DEF follow
  <2>6. /\ [data EXCEPT !.follows = follow] \in Stored
        /\ [data EXCEPT !.follows = follow].follows = follow
        /\ [data EXCEPT !.follows = follow].sessions = data.sessions
        /\ [data EXCEPT !.follows = follow].addresses = data.addresses
        /\ [data EXCEPT !.follows = follow].backups = data.backups
    BY <2>4 DEF Stored
  <2> QED
    BY <1>3, <2>5, <2>6 DEF follow
<1>4. CASE m.type = "NEW_SESSION"
  <2>1. m.id \in Connections
    BY <1>4, MessageFields
  <2> DEFINE known == data.addresses \cup {m.id}
  <2>2. Applied(data, m, b) = [data EXCEPT !.addresses = known]
    BY <1>4 DEF Applied
  <2>3. known \subseteq Connections
    BY <2>1 DEF Stored
  <2> HIDE DEF known
  <2>4. /\ [data EXCEPT !.addresses = known] \in Stored
        /\ [data EXCEPT !.addresses = known].addresses = known
        /\ [data EXCEPT !.addresses = known].sessions = data.sessions
        /\ [data EXCEPT !.addresses = known].follows = data.follows
        /\ [data EXCEPT !.addresses = known].backups = data.backups
    BY <2>3 DEF Stored
  <2> QED
    BY <1>4, <2>2, <2>4 DEF known
<1>5. CASE m.type = "LIST_BACKUP"
  <2>1. m.backups \subseteq Backups
    BY <1>5, MessageFields
  <2>2. Applied(data, m, b) = [data EXCEPT !.backups = m.backups \ {b}]
    BY <1>5 DEF Applied
  <2> QED
    BY <1>5, <2>1, <2>2 DEF Stored
<1> QED
  BY <1>1, <1>2, <1>3, <1>4, <1>5, MessageFields

LEMMA ApplyMoves ==
  ASSUME InboxTypes, CopyTypes, NEW b \in Backups, Apply(b)
  PROVE  /\ CopyTypes' /\ \A d \in Backups : d # b => copy'[d] = copy[d]
         /\ copy'[b] = Applied(copy[b], Head(inbox[b]), b)
<1>1. Head(inbox[b]) \in Messages /\ Head(inbox[b]).type # "UNWRITTEN"
  BY Taken DEF Apply
<1>2. copy[b] \in Stored /\ b \notin copy[b].backups
  BY DEF CopyTypes
<1> DEFINE new == Applied(copy[b], Head(inbox[b]), b)
<1>3. new \in Stored /\ b \notin new.backups
  BY <1>1, <1>2, AppliedFields
<1>4. copy' = [copy EXCEPT ![b] = new]
  BY DEF Apply
<1> HIDE DEF new
<1>5. CopyTypes' /\ copy'[b] = new /\ \A d \in Backups : d # b => copy'[d] = copy[d]
  BY <1>3, <1>4 DEF CopyTypes
<1> QED
  BY <1>5 DEF new

\* What a backup has after it has read.
LEMMA CopyApplied ==
  ASSUME InboxTypes, CopyTypes, NEW b \in Backups, Apply(b), NEW m, m = inbox[b][1]
  PROVE  /\ m \in Messages /\ m.type # "UNWRITTEN" /\ 1 \in DOMAIN inbox[b]
         /\ copy[b] \in Stored
         /\ copy'[b].sessions = IF m.type = "NEW_PROFILE_SESSION"
                                THEN [copy[b].sessions EXCEPT ![m.user] = Append(@, m.id)]
                                ELSE IF m.type = "CLOSE_PROFILE_SESSION"
                                     THEN [copy[b].sessions EXCEPT ![m.user] = << >>]
                                     ELSE copy[b].sessions
         /\ copy'[b].follows = IF m.type = "FOLLOW"
                               THEN copy[b].follows \cup {<< m.follower, m.followed >>}
                               ELSE copy[b].follows
         /\ copy'[b].addresses = IF m.type = "NEW_SESSION" THEN copy[b].addresses \cup {m.id}
                                 ELSE copy[b].addresses
         /\ copy'[b].backups = IF m.type = "LIST_BACKUP" THEN m.backups \ {b} ELSE copy[b].backups
<1>1. m = Head(inbox[b]) /\ m \in Messages /\ m.type # "UNWRITTEN" /\ 1 \in DOMAIN inbox[b]
  BY Taken DEF Apply
<1>2. copy[b] \in Stored /\ b \notin copy[b].backups
  BY DEF CopyTypes
<1> DEFINE new == Applied(copy[b], m, b)
<1>3. /\ new.sessions = IF m.type = "NEW_PROFILE_SESSION"
                        THEN [copy[b].sessions EXCEPT ![m.user] = Append(@, m.id)]
                        ELSE IF m.type = "CLOSE_PROFILE_SESSION"
                             THEN [copy[b].sessions EXCEPT ![m.user] = << >>]
                             ELSE copy[b].sessions
      /\ new.follows = IF m.type = "FOLLOW"
                       THEN copy[b].follows \cup {<< m.follower, m.followed >>}
                       ELSE copy[b].follows
      /\ new.addresses = IF m.type = "NEW_SESSION" THEN copy[b].addresses \cup {m.id}
                         ELSE copy[b].addresses
      /\ new.backups = IF m.type = "LIST_BACKUP" THEN m.backups \ {b} ELSE copy[b].backups
  BY <1>1, <1>2, AppliedFields
<1>4. copy'[b] = new
  BY <1>1, ApplyMoves
<1> HIDE DEF new
<1> QED
  BY <1>1, <1>2, <1>3, <1>4

-----------------------------------------------------------------------------
LEMMA CallFields ==
  /\ \A r \in Requests : r.user \in Users /\ r.other \in Users /\ r.op \in {"login", "logout", "follow"}
  BY ReplicationAssumption DEF Calls

LEMMA Told ==
  ASSUME NotifierTypes, ThreadsOK, NEW e \in Events, notifier[e].pc \in {"begin", "send"}
  PROVE  notifier[e].msg \in EventMessages /\ notifier[e].msg \in Messages
  BY MessageSets DEF ThreadsOK, EventsOK

LEMMA TypeStep == IInv /\ [Next]_vars => DataOK'
<1> SUFFICES ASSUME IInv, [Next]_vars PROVE DataOK'
  OBVIOUS
<1>0. /\ CallTypes /\ TableTypes /\ RmTypes /\ NotifierTypes /\ JoinerTypes /\ InboxTypes
      /\ CopyTypes /\ FlagTypes /\ ThreadsOK
  BY DEF IInv, DataOK
<1> USE DEF DataOK, callVars, tables, list, backupVars
<1>1. UNCHANGED callVars => CallTypes'
  BY <1>0 DEF CallTypes
<1>2. UNCHANGED tables => TableTypes'
  BY <1>0 DEF TableTypes
<1>3. UNCHANGED list => RmTypes'
  BY <1>0 DEF RmTypes
<1>4. UNCHANGED notifier => NotifierTypes'
  BY <1>0 DEF NotifierTypes
<1>5. UNCHANGED joiner => JoinerTypes'
  BY <1>0 DEF JoinerTypes
<1>6. UNCHANGED inbox => InboxTypes'
  BY <1>0 DEF InboxTypes
<1>7. UNCHANGED copy => CopyTypes'
  BY <1>0 DEF CopyTypes
<1>8. UNCHANGED << life, crashed >> /\ refused' \in BOOLEAN => FlagTypes'
  BY <1>0 DEF FlagTypes
<1>9. refused \in BOOLEAN
  BY <1>0 DEF FlagTypes
<1>10. ASSUME NEW c \in Connections, Client(c)
       PROVE  DataOK'
  <2>1. << c, "profile" >> \in Events /\ << c, "address" >> \in Events
    BY DEF Events
  <2>2. CASE Receive(c)
    <3>1. CallTypes'
      BY <1>0, <2>2, CallFields DEF Receive, CallTypes
    <3> QED
      BY <2>2, <3>1, <1>2, <1>3, <1>4, <1>5, <1>6, <1>7, <1>8, <1>9 DEF Receive
  <2>3. ASSUME pc[c] # "idle"
        PROVE  calls[c].user \in Users /\ calls[c].other \in Users
    BY <1>0, <2>3, CallFields DEF ThreadsOK, EventsOK
  <2>4. CASE Login(c)
    <3>1. calls[c].user \in Users
      BY <2>3, <2>4 DEF Login
    <3>2. CallTypes'
      BY <1>0, <2>4 DEF Login, CallTypes
    <3>3. CASE UNCHANGED << sessions_map, notifier >>
      BY <2>4, <3>2, <3>3, <1>2, <1>3, <1>4, <1>5, <1>6, <1>7, <1>8, <1>9 DEF Login
    <3>4. CASE /\ sessions_map' = [sessions_map EXCEPT ![calls[c].user] = Append(@, c)]
               /\ Notify(<< c, "profile" >>, Session(calls[c].user, c))
      <4>1. Session(calls[c].user, c) \in EventMessages
        BY <3>1, MessageSets
      <4>2. NotifierTypes'
        BY <1>0, <2>1, <3>4, <4>1, Notified
      <4>3. TableTypes'
        BY <1>0, <2>4, <3>1, <3>4 DEF TableTypes, Login
      <4> QED
        BY <2>4, <3>2, <4>2, <4>3, <1>3, <1>5, <1>6, <1>7, <1>8, <1>9 DEF Login
    <3> QED
      BY <2>4, <3>3, <3>4 DEF Login
  <2>5. CASE Register(c)
    <3>1. Address(c) \in EventMessages
      BY MessageSets
    <3>2. NotifierTypes'
      <4>1. Notify(<< c, "address" >>, Address(c))
        BY <2>5 DEF Register
      <4> QED
        BY <1>0, <2>1, <3>1, <4>1, Notified
    <3>3. CallTypes' /\ TableTypes'
      BY <1>0, <2>5 DEF Register, CallTypes, TableTypes
    <3> QED
      BY <2>5, <3>2, <3>3, <1>3, <1>5, <1>6, <1>7, <1>8, <1>9 DEF Register
  <2>6. CASE Follow(c)
    <3>1. calls[c].user \in Users /\ calls[c].other \in Users
      BY <2>3, <2>6 DEF Follow
    <3>2. CallTypes'
      BY <1>0, <2>6 DEF Follow, CallTypes
    <3>3. CASE UNCHANGED << follows, notifier >>
      BY <2>6, <3>2, <3>3, <1>2, <1>3, <1>4, <1>5, <1>6, <1>7, <1>8, <1>9 DEF Follow
    <3>4. CASE /\ follows' = follows \cup {<< calls[c].user, calls[c].other >>}
               /\ Notify(<< c, "profile" >>, FollowOf(calls[c].user, calls[c].other))
      <4>1. FollowOf(calls[c].user, calls[c].other) \in EventMessages
        BY <3>1, MessageSets
      <4>2. NotifierTypes'
        BY <1>0, <2>1, <3>4, <4>1, Notified
      <4>3. TableTypes'
        BY <1>0, <2>6, <3>1, <3>4 DEF TableTypes, Follow
      <4> QED
        BY <2>6, <3>2, <4>2, <4>3, <1>3, <1>5, <1>6, <1>7, <1>8, <1>9 DEF Follow
    <3> QED
      BY <2>6, <3>3, <3>4 DEF Follow
  <2>7. CASE Logout(c)
    <3>1. CloseUser(calls[c].user) \in EventMessages
      BY <2>3, <2>7, MessageSets DEF Logout
    <3>2. NotifierTypes'
      <4>1. Notify(<< c, "profile" >>, CloseUser(calls[c].user))
        BY <2>7 DEF Logout
      <4> QED
        BY <1>0, <2>1, <3>1, <4>1, Notified
    <3>3. CallTypes'
      BY <1>0, <2>7 DEF Logout, CallTypes
    <3> QED
      BY <2>7, <3>2, <3>3, <1>2, <1>3, <1>5, <1>6, <1>7, <1>8, <1>9 DEF Logout
  <2> QED
    BY <1>10, <2>2, <2>4, <2>5, <2>6, <2>7 DEF Client
<1>11. ASSUME NEW e \in Events, Notifier(e)
       PROVE  DataOK'
  <2>1. CASE NotifySend(e)
    <3> DEFINE at == IF notifier[e].pc = "begin" THEN 1 ELSE notifier[e].it.at
    <3>1. /\ notifier[e].pc \in {"begin", "send"} /\ at \in DOMAIN rm
          /\ Connect(rm[at], notifier[e].msg) /\ NotifierTypes'
      BY <1>0, <2>1, NotifySendMoves
    <3> HIDE DEF at
    <3>2. rm[at] \in Backups
      BY <1>0, <3>1 DEF RmTypes
    <3>3. notifier[e].msg \in Messages
      BY <1>0, <3>1, Told
    <3>4. InboxTypes' /\ refused' \in BOOLEAN
      BY <1>0, <3>1, <3>2, <3>3, Connected
    <3> QED
      BY <2>1, <3>1, <3>4, <1>1, <1>2, <1>3, <1>5, <1>7, <1>8 DEF NotifySend
  <2>2. CASE NotifyEnd(e)
    <3>1. NotifierTypes'
      BY <1>0, <2>2, NotifyEndMoves
    <3> QED
      BY <2>2, <3>1, <1>1, <1>2, <1>3, <1>5, <1>6, <1>7, <1>8, <1>9 DEF NotifyEnd
  <2> QED
    BY <1>11, <2>1, <2>2 DEF Notifier
<1>12. ASSUME NEW b \in Backups, Joiner(b)
       PROVE  DataOK'
  <2>1. CASE AddBackup(b)
    <3>1. \A k \in DOMAIN rm : rm[k] # b
      BY <1>0, <2>1 DEF AddBackup, ThreadsOK, JoinsOK
    <3>2. RmTypes'
      BY <1>0, <2>1, <3>1, Appended DEF AddBackup
    <3>3. JoinerTypes'
      BY <1>0, <2>1, <3>2, AddBackupMoves DEF RmTypes, JoinerMoves
    <3> QED
      BY <2>1, <3>2, <3>3, <1>1, <1>2, <1>4, <1>6, <1>7, <1>8, <1>9 DEF AddBackup
  <2>2. CASE ListConnect(b)
    <3>1. /\ JoinerTypes' /\ joiner[b].it.at \in DOMAIN rm
          /\ Connect(rm[joiner[b].it.at], Unwritten(b))
      BY <1>0, <2>2, ListConnectMoves DEF JoinerMoves
    <3>2. rm[joiner[b].it.at] \in Backups /\ Unwritten(b) \in Messages
      BY <1>0, <3>1, MessageSets DEF RmTypes
    <3>3. InboxTypes' /\ refused' \in BOOLEAN
      BY <1>0, <3>1, <3>2, Connected
    <3> QED
      BY <2>2, <3>1, <3>3, <1>1, <1>2, <1>3, <1>4, <1>7, <1>8 DEF ListConnect
  <2>3. CASE ListWrite(b)
    <3>1. InboxTypes'
      BY <1>0, <2>3, Written DEF ListWrite
    <3>2. JoinerTypes'
      BY <1>0, <2>3, JoinGotoMoves DEF ListWrite, JoinerMoves
    <3> QED
      BY <2>3, <3>1, <3>2, <1>1, <1>2, <1>3, <1>4, <1>7, <1>8, <1>9 DEF ListWrite
  <2>4. CASE ListEnd(b)
    <3>1. JoinerTypes'
      BY <1>0, <2>4, CopyTableMoves DEF ListEnd, JoinerMoves
    <3> QED
      BY <2>4, <3>1, <1>1, <1>2, <1>3, <1>4, <1>6, <1>7, <1>8, <1>9 DEF ListEnd
  <2>5. CASE SendCopied(b)
    <3>1. PICK msg \in joiner[b].todo : msg \in Items /\ Connect(b, msg) /\ JoinerTypes'
      BY <1>0, <2>5, SendCopiedMoves DEF JoinerMoves
    <3>2. InboxTypes' /\ refused' \in BOOLEAN
      BY <1>0, <3>1, MessageSets, Connected
    <3> QED
      BY <2>5, <3>1, <3>2, <1>1, <1>2, <1>3, <1>4, <1>7, <1>8 DEF SendCopied
  <2>6. CASE CopySent(b)
    <3>1. JoinerTypes'
      <4>1. CASE CopyTable(b, "sessions") \/ CopyTable(b, "follows")
        BY <1>0, <4>1, CopyTableMoves DEF JoinerMoves
      <4>2. CASE JoinGoto(b, "done")
        BY <1>0, <4>2, JoinGotoMoves DEF JoinerMoves
      <4> QED
        BY <2>6, <4>1, <4>2 DEF CopySent
    <3> QED
      BY <2>6, <3>1, <1>1, <1>2, <1>3, <1>4, <1>6, <1>7, <1>8, <1>9 DEF CopySent
  <2> QED
    BY <1>12, <2>1, <2>2, <2>3, <2>4, <2>5, <2>6 DEF Joiner
<1>13. ASSUME NEW b \in Backups, Backup(b)
       PROVE  DataOK'
  <2>1. CASE Join(b)
    <3>1. JoinerTypes'
      BY <1>0, <2>1, JoinGotoMoves DEF Join, JoinerMoves
    <3>2. FlagTypes'
      BY <1>0, <2>1 DEF Join, FlagTypes
    <3> QED
      BY <2>1, <3>1, <3>2, <1>1, <1>2, <1>3, <1>4, <1>6, <1>7 DEF Join
  <2>2. CASE Listen(b)
    <3>1. FlagTypes'
      BY <1>0, <2>2 DEF Listen, FlagTypes
    <3> QED
      BY <2>2, <3>1, <1>1, <1>2, <1>3, <1>4, <1>5, <1>6, <1>7 DEF Listen
  <2>3. CASE Apply(b)
    <3>1. InboxTypes' /\ Head(inbox[b]) \in Messages
      BY <1>0, <2>3, Taken DEF Apply
    <3>2. CopyTypes'
      BY <1>0, <2>3, ApplyMoves
    <3> QED
      BY <2>3, <3>1, <3>2, <1>1, <1>2, <1>3, <1>4, <1>5, <1>8, <1>9 DEF Apply
  <2> QED
    BY <1>13, <2>1, <2>2, <2>3 DEF Backup
<1>14. CASE HeartbeatErase
  <2>1. PICK k \in DOMAIN rm : rm' = RemoveAt(rm, k)
    BY <1>14 DEF HeartbeatErase
  <2>2. RmTypes'
    BY <1>0, <1>14, <2>1, Erased DEF HeartbeatErase
  <2> QED
    BY <1>14, <2>2, <1>1, <1>2, <1>4, <1>5, <1>6, <1>7, <1>8 DEF HeartbeatErase
<1>15. CASE BreakDown
  <2>1. FlagTypes'
    BY <1>0, <1>15 DEF BreakDown, FlagTypes
  <2> QED
    BY <1>15, <2>1, <1>1, <1>2, <1>3, <1>4, <1>5, <1>6, <1>7 DEF BreakDown
<1>16. CASE UNCHANGED vars
  BY <1>16, <1>1, <1>2, <1>3, <1>4, <1>5, <1>6, <1>7, <1>8, <1>9 DEF vars
<1> QED
  BY <1>10, <1>11, <1>12, <1>13, <1>14, <1>15, <1>16 DEF Next

-----------------------------------------------------------------------------
(***************************************************************************)
(* A thread begins once.                                                   *)
(***************************************************************************)
LEMMA EventsFrame ==
  ASSUME EventsOK, UNCHANGED callVars,
         \A e \in Events : notifier[e].pc = "idle" => notifier'[e].pc = "idle",
         \A e \in Events : notifier'[e].pc \in {"begin", "send"} => notifier'[e].msg \in EventMessages
  PROVE  EventsOK'
<1>1. \A c \in Connections : << c, "profile" >> \in Events /\ << c, "address" >> \in Events
  BY DEF Events
<1> QED
  BY <1>1 DEF EventsOK, callVars

\* A connection tells its event when it has changed the tables.
LEMMA EventsCall ==
  ASSUME EventsOK, CallTypes, NotifierTypes, NEW c \in Connections, Client(c),
         TableTypes
  PROVE  EventsOK'
<1>0. << c, "profile" >> \in Events /\ << c, "address" >> \in Events
  BY DEF Events
<1>a. \A d \in Connections : << d, "profile" >> \in Events /\ << d, "address" >> \in Events
  BY DEF Events
<1>b. pc[c] # "idle" => calls[c].user \in Users /\ calls[c].other \in Users
  BY CallFields DEF EventsOK
<1>1. CASE Receive(c)
  <2>1. notifier' = notifier
    BY <1>1 DEF Receive
  <2>2. /\ pc[c] = "idle" /\ calls'[c] \in Requests /\ pc'[c] \in {"login", "logout", "follow"}
        /\ pc'[c] = calls'[c].op
        /\ \A d \in Connections : d # c => calls'[d] = calls[d] /\ pc'[d] = pc[d]
    BY <1>1, CallFields DEF Receive, CallTypes
  <2> QED
    BY <1>a, <2>1, <2>2 DEF EventsOK
<1>2. ASSUME NEW e \in Events, NEW msg \in EventMessages, Notify(e, msg),
             e \in {<< c, "profile" >>, << c, "address" >>}, pc'[c] \in {"register", "done"},
             pc'[c] = "register" => e = << c, "profile" >>,
             pc[c] \in {"login", "register", "follow", "logout"}, calls' = calls,
             \A d \in Connections : d # c => pc'[d] = pc[d]
      PROVE  EventsOK'
  <2>1. /\ notifier'[e].pc = "begin" /\ notifier'[e].msg = msg
        /\ \A f \in Events : f # e => notifier'[f] = notifier[f]
    BY <1>2, Notified
  <2>2. ASSUME NEW f \in Events, notifier'[f].pc \in {"begin", "send"}
        PROVE  notifier'[f].msg \in EventMessages
    BY <2>1, <2>2 DEF EventsOK
  <2>3. ASSUME NEW d \in Connections, d # c
        PROVE  << d, "profile" >> # e /\ << d, "address" >> # e
    BY <1>2, <2>3
  <2>4. \A d \in Connections : d # c =>
          /\ notifier'[<< d, "profile" >>] = notifier[<< d, "profile" >>]
          /\ notifier'[<< d, "address" >>] = notifier[<< d, "address" >>]
    BY <1>a, <2>1, <2>3
  <2>5. e = << c, "profile" >> => notifier'[<< c, "address" >>] = notifier[<< c, "address" >>]
    BY <1>0, <2>1
  <2>6. calls'[c] \in Requests
    BY <1>2 DEF EventsOK
  <2>7. ASSUME NEW d \in Connections
        PROVE  /\ pc'[d] \in {"idle", "login", "follow", "logout"} => notifier'[<< d, "profile" >>].pc = "idle"
               /\ pc'[d] \in {"idle", "login", "register", "follow", "logout"} =>
                    notifier'[<< d, "address" >>].pc = "idle"
               /\ pc'[d] # "idle" => calls'[d] \in Requests
               /\ pc'[d] = "logout" => calls'[d].op = "logout"
    <3>1. CASE d = c
      BY <1>2, <2>5, <2>6, <3>1 DEF EventsOK
    <3>2. CASE d # c
      BY <1>2, <2>4, <3>2 DEF EventsOK
    <3> QED
      BY <3>1, <3>2
  <2> QED
    BY <2>2, <2>7 DEF EventsOK
\* No event is told.
<1>3. ASSUME notifier' = notifier, pc[c] \in {"login", "follow"}, pc'[c] \in {"register", "done"},
             pc[c] = "login" => pc'[c] = "register", calls' = calls,
             \A d \in Connections : d # c => pc'[d] = pc[d]
      PROVE  EventsOK'
  BY <1>3 DEF EventsOK
<1>4. CASE Login(c)
  <2>1. /\ pc[c] = "login" /\ pc'[c] = "register" /\ calls' = calls
        /\ \A d \in Connections : d # c => pc'[d] = pc[d]
    BY <1>4 DEF Login, CallTypes
  <2>2. notifier' = notifier \/ Notify(<< c, "profile" >>, Session(calls[c].user, c))
    BY <1>4 DEF Login
  <2>3. Session(calls[c].user, c) \in EventMessages
    BY <1>b, <2>1, MessageSets
  <2>4. CASE notifier' = notifier
    BY <1>3, <2>1, <2>4
  <2>5. CASE Notify(<< c, "profile" >>, Session(calls[c].user, c))
    <3>1. pc[c] \in {"login", "register", "follow", "logout"} /\ pc'[c] \in {"register", "done"}
      BY <2>1
    <3> QED
      BY <1>0, <1>2, <2>1, <2>3, <2>5, <3>1, ZenonT(30)
  <2> QED
    BY <2>2, <2>4, <2>5
<1>5. CASE Register(c)
  <2>1. /\ pc[c] = "register" /\ pc'[c] = "done" /\ calls' = calls
        /\ \A d \in Connections : d # c => pc'[d] = pc[d]
        /\ Notify(<< c, "address" >>, Address(c))
    BY <1>5 DEF Register, CallTypes
  <2>2. Address(c) \in EventMessages
    BY MessageSets
  <2> QED
    BY <1>0, <1>2, <2>1, <2>2
<1>6. CASE Follow(c)
  <2>1. /\ pc[c] = "follow" /\ pc'[c] = "done" /\ calls' = calls
        /\ \A d \in Connections : d # c => pc'[d] = pc[d]
    BY <1>6 DEF Follow, CallTypes
  <2>2. notifier' = notifier \/ Notify(<< c, "profile" >>, FollowOf(calls[c].user, calls[c].other))
    BY <1>6 DEF Follow
  <2>3. FollowOf(calls[c].user, calls[c].other) \in EventMessages
    BY <1>b, <2>1, MessageSets
  <2>4. CASE notifier' = notifier
    BY <1>3, <2>1, <2>4
  <2>5. CASE Notify(<< c, "profile" >>, FollowOf(calls[c].user, calls[c].other))
    BY <1>0, <1>2, <2>1, <2>3, <2>5
  <2> QED
    BY <2>2, <2>4, <2>5
<1>7. CASE Logout(c)
  <2>1. /\ pc[c] = "logout" /\ pc'[c] = "done" /\ calls' = calls
        /\ \A d \in Connections : d # c => pc'[d] = pc[d]
        /\ Notify(<< c, "profile" >>, CloseUser(calls[c].user))
    BY <1>7 DEF Logout, CallTypes
  <2>2. CloseUser(calls[c].user) \in EventMessages
    BY <1>b, <2>1, MessageSets
  <2> QED
    BY <1>0, <1>2, <2>1, <2>2
<1> QED
  BY <1>1, <1>4, <1>5, <1>6, <1>7 DEF Client

LEMMA EventsStep == IInv /\ [Next]_vars => EventsOK'
<1> SUFFICES ASSUME IInv, [Next]_vars PROVE EventsOK'
  OBVIOUS
<1>0. EventsOK /\ CallTypes /\ NotifierTypes /\ TableTypes /\ RmTypes
  BY DEF IInv, DataOK, ThreadsOK
<1>1. ASSUME NEW c \in Connections, Client(c)
      PROVE  EventsOK'
  BY <1>0, <1>1, EventsCall
<1>2. ASSUME NEW e \in Events, NotifySend(e)
      PROVE  EventsOK'
  <2>1. /\ notifier[e].pc \in {"begin", "send"} /\ \A f \in Events : f # e => notifier'[f] = notifier[f]
        /\ notifier'[e].pc = "send" /\ notifier'[e].msg = notifier[e].msg
    BY <1>0, <1>2, NotifySendMoves
  <2>2. UNCHANGED callVars
    BY <1>2 DEF NotifySend
  <2>3. \A f \in Events : notifier[f].pc = "idle" => notifier'[f].pc = "idle"
    BY <2>1
  <2>4. \A f \in Events : notifier'[f].pc \in {"begin", "send"} => notifier'[f].msg \in EventMessages
    BY <1>0, <2>1 DEF EventsOK
  <2> QED
    BY <1>0, <2>2, <2>3, <2>4, EventsFrame
<1>3. ASSUME NEW e \in Events, NotifyEnd(e)
      PROVE  EventsOK'
  <2>1. \A f \in Events : f # e => notifier'[f] = notifier[f]
    BY <1>0, <1>3, NotifyEndMoves
  <2>2. notifier'[e].pc = "done" /\ notifier[e].pc # "idle"
    BY <1>0, <1>3, NotifyEndMoves DEF NotifyEnd
  <2>3. UNCHANGED callVars
    BY <1>3 DEF NotifyEnd
  <2>4. \A f \in Events : notifier[f].pc = "idle" => notifier'[f].pc = "idle"
    BY <2>1, <2>2
  <2>5. \A f \in Events : notifier'[f].pc \in {"begin", "send"} => notifier'[f].msg \in EventMessages
    BY <1>0, <2>1, <2>2 DEF EventsOK
  <2> QED
    BY <1>0, <2>3, <2>4, <2>5, EventsFrame
<1>4. ASSUME UNCHANGED << callVars, notifier >>
      PROVE  EventsOK'
  BY <1>0, <1>4 DEF EventsOK, callVars
<1>5. ASSUME NEW b \in Backups, Joiner(b) \/ Backup(b)
      PROVE  UNCHANGED << callVars, notifier >>
  BY <1>5 DEF Joiner, AddBackup, ListConnect, ListWrite, ListEnd, SendCopied, CopySent, Backup, Join,
     Listen, Apply
<1>6. HeartbeatErase \/ BreakDown \/ UNCHANGED vars => UNCHANGED << callVars, notifier >>
  BY DEF HeartbeatErase, BreakDown, vars
<1> QED
  BY <1>1, <1>2, <1>3, <1>4, <1>5, <1>6 DEF Next, Notifier

LEMMA JoinsStep == IInv /\ [Next]_vars => JoinsOK'
<1> SUFFICES ASSUME IInv, [Next]_vars PROVE JoinsOK'
  OBVIOUS
<1>0. JoinsOK /\ RmTypes /\ JoinerTypes /\ TableTypes /\ FlagTypes /\ RmTypes'
  BY TypeStep DEF IInv, DataOK, ThreadsOK
<1> DEFINE Joins(b) == /\ life'[b] = "new" => joiner'[b].pc = "idle"
                       /\ joiner'[b].pc \in {"idle", "add"} => \A k \in DOMAIN rm' : rm'[k] # b
                       /\ joiner'[b].pc \in {"idle", "add", "list", "write", "done"} => joiner'[b].todo = {}
<1>1. SUFFICES \A b \in Backups : Joins(b)
  BY DEF JoinsOK
<1>2. ASSUME NEW b \in Backups, life' = life, JoinerMoves(b), rm' = rm, Joins(b)
      PROVE  \A d \in Backups : Joins(d)
  BY <1>0, <1>2 DEF JoinsOK, JoinerMoves
<1>3. ASSUME UNCHANGED << life, joiner, rm >>
      PROVE  \A d \in Backups : Joins(d)
  BY <1>0, <1>3 DEF JoinsOK
<1>4. ASSUME NEW b \in Backups, Joiner(b)
      PROVE  \A d \in Backups : Joins(d)
  <2>0. life' = life
    BY <1>4 DEF Joiner, AddBackup, ListConnect, ListWrite, ListEnd, SendCopied, CopySent, backupVars
  <2>1. CASE AddBackup(b)
    <3>1. /\ joiner[b].pc = "add" /\ rm' = Append(rm, b)
          /\ capacity' = IF Len(rm) = capacity THEN IF capacity = 0 THEN 1 ELSE 2 * capacity ELSE capacity
      BY <2>1 DEF AddBackup
    <3>2. \A k \in DOMAIN rm : rm[k] # b
      BY <1>0, <3>1 DEF JoinsOK
    <3>3. /\ Len(rm) \in Nat /\ DOMAIN rm = 1 .. Len(rm) /\ DOMAIN rm' = 1 .. Len(rm) + 1
          /\ rm'[Len(rm) + 1] = b /\ \A k \in DOMAIN rm : rm'[k] = rm[k]
      BY <1>0, <3>1, <3>2, Appended
    <3>4. JoinerMoves(b) /\ joiner'[b].pc = "list" /\ joiner'[b].todo = joiner[b].todo
      BY <1>0, <2>1, AddBackupMoves DEF RmTypes
    <3>5. Joins(b)
      BY <1>0, <2>0, <3>1, <3>4 DEF JoinsOK
    <3>6. ASSUME NEW d \in Backups, d # b
          PROVE  Joins(d)
      BY <1>0, <2>0, <3>3, <3>4, <3>6 DEF JoinsOK, JoinerMoves
    <3> QED
      BY <3>5, <3>6
  <2>2. CASE ListConnect(b)
    <3>1. /\ JoinerMoves(b) /\ joiner[b].pc = "list" /\ joiner'[b].pc \in {"list", "write"}
          /\ joiner'[b].todo = joiner[b].todo
      BY <1>0, <2>2, ListConnectMoves
    <3>2. rm' = rm
      BY <2>2 DEF ListConnect, list
    <3>3. Joins(b)
      BY <1>0, <2>0, <3>1, <3>2 DEF JoinsOK
    <3> QED
      BY <1>2, <2>0, <3>1, <3>2, <3>3
  <2>3. CASE ListWrite(b)
    <3>1. /\ JoinerMoves(b) /\ joiner'[b].pc = "list" /\ joiner'[b].todo = joiner[b].todo
      BY <1>0, <2>3, JoinGotoMoves DEF ListWrite
    <3>2. rm' = rm /\ joiner[b].pc = "write"
      BY <2>3 DEF ListWrite, list
    <3>3. Joins(b)
      BY <1>0, <2>0, <3>1, <3>2 DEF JoinsOK
    <3> QED
      BY <1>2, <2>0, <3>1, <3>2, <3>3
  <2>4. ASSUME NEW table \in {"addresses", "sessions", "follows"}, CopyTable(b, table), rm' = rm,
               joiner[b].pc \notin {"idle", "add"}
        PROVE  \A d \in Backups : Joins(d)
    <3>1. JoinerMoves(b) /\ joiner'[b].pc = table
      BY <1>0, <2>4, CopyTableMoves
    <3>2. Joins(b)
      BY <1>0, <2>0, <2>4, <3>1 DEF JoinsOK
    <3> QED
      BY <1>2, <2>0, <2>4, <3>1, <3>2
  <2>5. CASE ListEnd(b)
    BY <2>4, <2>5 DEF ListEnd, list
  <2>6. CASE SendCopied(b)
    <3>1. /\ JoinerMoves(b) /\ joiner'[b].pc = joiner[b].pc /\ joiner'[b].todo \subseteq joiner[b].todo
      BY <1>0, <2>6, SendCopiedMoves
    <3>2. rm' = rm
      BY <2>6 DEF SendCopied, list
    <3>3. Joins(b)
      BY <1>0, <2>0, <3>1, <3>2 DEF JoinsOK
    <3> QED
      BY <1>2, <2>0, <3>1, <3>2, <3>3
  <2>7. CASE CopySent(b)
    <3>1. rm' = rm /\ joiner[b].todo = {} /\ joiner[b].pc \in {"addresses", "sessions", "follows"}
      BY <2>7 DEF CopySent, list
    <3>2. CASE CopyTable(b, "sessions") \/ CopyTable(b, "follows")
      BY <2>4, <3>1, <3>2
    <3>3. CASE JoinGoto(b, "done")
      <4>1. JoinerMoves(b) /\ joiner'[b].pc = "done" /\ joiner'[b].todo = joiner[b].todo
        BY <1>0, <3>3, JoinGotoMoves
      <4>2. Joins(b)
        BY <1>0, <2>0, <3>1, <4>1 DEF JoinsOK
      <4> QED
        BY <1>2, <2>0, <3>1, <4>1, <4>2
    <3> QED
      BY <2>7, <3>2, <3>3 DEF CopySent
  <2> QED
    BY <1>4, <2>1, <2>2, <2>3, <2>5, <2>6, <2>7 DEF Joiner
<1>5. ASSUME NEW b \in Backups, Join(b)
      PROVE  \A d \in Backups : Joins(d)
  <2>1. /\ life[b] = "new" /\ life'[b] = "joining" /\ \A d \in Backups : d # b => life'[d] = life[d]
        /\ rm' = rm
    BY <1>0, <1>5 DEF Join, FlagTypes, list
  <2>2. JoinerMoves(b) /\ joiner'[b].pc = "add" /\ joiner'[b].todo = joiner[b].todo
    BY <1>0, <1>5, JoinGotoMoves DEF Join
  <2>3. Joins(b)
    BY <1>0, <2>1, <2>2 DEF JoinsOK
  <2>4. ASSUME NEW d \in Backups, d # b
        PROVE  Joins(d)
    BY <1>0, <2>1, <2>2, <2>4 DEF JoinsOK, JoinerMoves
  <2> QED
    BY <2>3, <2>4
<1>6. ASSUME NEW b \in Backups, Listen(b)
      PROVE  \A d \in Backups : Joins(d)
  <2>1. /\ \A d \in Backups : life'[d] = "new" => life[d] = "new"
        /\ UNCHANGED << joiner, rm >>
    BY <1>0, <1>6 DEF Listen, FlagTypes, list
  <2> QED
    BY <1>0, <2>1 DEF JoinsOK
<1>7. CASE HeartbeatErase
  <2>1. PICK k \in DOMAIN rm : rm' = RemoveAt(rm, k)
    BY <1>7 DEF HeartbeatErase
  <2>2. \A i \in DOMAIN rm' : \E j \in DOMAIN rm : rm'[i] = rm[j]
    BY <1>0, <1>7, <2>1, Erased DEF HeartbeatErase
  <2>3. UNCHANGED << joiner, life >>
    BY <1>7 DEF HeartbeatErase, backupVars
  <2> QED
    BY <1>0, <2>2, <2>3 DEF JoinsOK
<1>8. ASSUME NEW c \in Connections, Client(c)
      PROVE  UNCHANGED << life, joiner, rm >>
  BY <1>8 DEF Client, Receive, Login, Register, Follow, Logout, list, backupVars
<1>9. ASSUME NEW e \in Events, Notifier(e)
      PROVE  UNCHANGED << life, joiner, rm >>
  BY <1>9 DEF Notifier, NotifySend, NotifyEnd, list, backupVars
<1>10. ASSUME NEW b \in Backups, Apply(b)
       PROVE  UNCHANGED << life, joiner, rm >>
  BY <1>10 DEF Apply, list
<1>11. BreakDown \/ UNCHANGED vars => UNCHANGED << life, joiner, rm >>
  BY DEF BreakDown, vars, list, backupVars
<1> QED
  BY <1>3, <1>4, <1>5, <1>6, <1>7, <1>8, <1>9, <1>10, <1>11 DEF Next, Backup

-----------------------------------------------------------------------------
(***************************************************************************)
(* The tables only grow, so that what a message says stays true.           *)
(***************************************************************************)
LEMMA LoginGrows ==
  ASSUME CallTypes, TableTypes, EventsOK, NEW c \in Connections, Login(c), NEW u \in Users
  PROVE  ToSet(sessions_map[u]) \subseteq ToSet(sessions_map'[u])
<1>1. sessions_map[u] \in Seq(Connections) /\ calls[c].user \in Users
  BY CallFields DEF TableTypes, EventsOK, Login
<1>2. CASE sessions_map' = sessions_map
  BY <1>2
<1>3. CASE sessions_map' = [sessions_map EXCEPT ![calls[c].user] = Append(@, c)]
  <2>1. CASE u = calls[c].user
    <3>1. sessions_map'[u] = Append(sessions_map[u], c)
      BY <1>1, <1>3, <2>1 DEF TableTypes
    <3> QED
      BY <1>1, <3>1, AppendElements
  <2>2. CASE u # calls[c].user
    BY <1>3, <2>2 DEF TableTypes
  <2> QED
    BY <2>1, <2>2
<1> QED
  BY <1>2, <1>3 DEF Login

\* Only a request changes the tables.
LEMMA TablesFrame ==
  ASSUME [Next]_vars
  PROVE  (\E c \in Connections : Client(c)) \/ UNCHANGED << callVars, tables >>
<1>1. ASSUME NEW e \in Events, Notifier(e)
      PROVE  UNCHANGED << callVars, tables >>
  BY <1>1 DEF Notifier, NotifySend, NotifyEnd
<1>2. ASSUME NEW b \in Backups, Joiner(b) \/ Backup(b)
      PROVE  UNCHANGED << callVars, tables >>
  BY <1>2 DEF Joiner, AddBackup, ListConnect, ListWrite, ListEnd, SendCopied, CopySent,
              Backup, Join, Listen, Apply
<1>3. HeartbeatErase \/ BreakDown \/ UNCHANGED vars => UNCHANGED << callVars, tables >>
  BY DEF HeartbeatErase, BreakDown, vars
<1> QED
  BY <1>1, <1>2, <1>3 DEF Next
LEMMA TablesGrow ==
  ASSUME CallTypes, TableTypes, EventsOK, [Next]_vars
  PROVE  /\ follows \subseteq follows' /\ addresses \subseteq addresses'
         /\ \A u \in Users : ToSet(sessions_map[u]) \subseteq ToSet(sessions_map'[u])
         /\ \A c \in Connections : pc[c] = "done" => pc'[c] = "done" /\ calls'[c] = calls[c]
<1>1. ASSUME NEW c \in Connections, Receive(c) \/ Register(c) \/ Follow(c) \/ Logout(c)
      PROVE  follows \subseteq follows' /\ addresses \subseteq addresses' /\ sessions_map' = sessions_map
  BY <1>1 DEF Receive, Register, Follow, Logout, tables
<1>2. ASSUME NEW c \in Connections, Client(c)
      PROVE  \A d \in Connections : pc[d] = "done" => pc'[d] = "done" /\ calls'[d] = calls[d]
  BY <1>2 DEF Client, Receive, Login, Register, Follow, Logout, CallTypes
<1>3. ASSUME NEW c \in Connections, Login(c)
      PROVE  /\ follows' = follows /\ addresses' = addresses
             /\ \A u \in Users : ToSet(sessions_map[u]) \subseteq ToSet(sessions_map'[u])
  BY <1>3, LoginGrows DEF Login
<1>4. UNCHANGED << callVars, tables >> => UNCHANGED << calls, pc, sessions_map, follows, addresses >>
  BY DEF callVars, tables
<1> QED
  BY <1>1, <1>2, <1>3, <1>4, TablesFrame DEF Client

LEMMA SaidGrows ==
  ASSUME CallTypes, TableTypes, EventsOK, [Next]_vars, NEW m \in Messages \cup {NoMessage}, Said(m)
  PROVE  Said(m)'
<1>1. /\ follows \subseteq follows' /\ addresses \subseteq addresses'
      /\ \A u \in Users : ToSet(sessions_map[u]) \subseteq ToSet(sessions_map'[u])
      /\ \A c \in Connections : pc[c] = "done" => pc'[c] = "done" /\ calls'[c] = calls[c]
  BY TablesGrow
<1>2. /\ m.type = "NEW_PROFILE_SESSION" => m.user \in Users
      /\ m.type = "CLOSE_PROFILE_SESSION" => m.user \in Users
  BY MessageFields DEF NoMessage
<1>3. m.type = "CLOSE_PROFILE_SESSION" => LoggedOut(m.user)'
  BY <1>1 DEF Said, LoggedOut
<1> QED
  BY <1>1, <1>2, <1>3 DEF Said

-----------------------------------------------------------------------------
(***************************************************************************)
(* Where the messages of a queue come from.                                *)
(***************************************************************************)
LEMMA AppendPlaces ==
  ASSUME NEW S, NEW s \in Seq(S), NEW e \in S
  PROVE  /\ Len(s) \in Nat /\ DOMAIN s = 1 .. Len(s)
         /\ DOMAIN Append(s, e) = 1 .. Len(s) + 1
         /\ \A i \in DOMAIN s : i \in DOMAIN Append(s, e) /\ Append(s, e)[i] = s[i]
         /\ Append(s, e)[Len(s) + 1] = e
         /\ \A i \in DOMAIN Append(s, e) : i \in DOMAIN s \/ i = Len(s) + 1
  OBVIOUS

\* A connection adds at most its message, to the queue it is made to.
LEMMA ConnectPlaces ==
  ASSUME InboxTypes, FlagTypes, NEW b \in Backups, NEW msg \in Messages, Connect(b, msg),
         NEW d \in Backups, NEW k \in DOMAIN inbox'[d]
  PROVE  (k \in DOMAIN inbox[d] /\ inbox'[d][k] = inbox[d][k]) \/ (d = b /\ inbox'[d][k] = msg)
<1>1. /\ \A x \in Backups : x # b => inbox'[x] = inbox[x]
      /\ inbox'[b] = inbox[b] \/ inbox'[b] = Append(inbox[b], msg)
  BY Connected
<1>2. inbox[b] \in Seq(Messages)
  BY DEF InboxTypes
<1>3. CASE inbox'[d] = inbox[d]
  BY <1>3
<1>4. CASE d = b /\ inbox'[d] = Append(inbox[d], msg)
  BY <1>2, <1>4, AppendPlaces
<1> QED
  BY <1>1, <1>3, <1>4

LEMMA InboxOrigin ==
  ASSUME DataOK, ThreadsOK, [Next]_vars, NEW d \in Backups, NEW k \in DOMAIN inbox'[d]
  PROVE  \/ \E j \in DOMAIN inbox[d] : inbox'[d][k] = inbox[d][j]
         \/ \E e \in Events : inbox'[d][k] = notifier[e].msg
         \/ inbox'[d][k] \in joiner[d].todo
         \/ \E b \in Backups : inbox'[d][k] = Unwritten(b)
         \/ inbox'[d][k] = ListOf(ToSet(rm))
<1>0. /\ InboxTypes /\ FlagTypes /\ NotifierTypes /\ JoinerTypes /\ RmTypes /\ ThreadsOK
  BY DEF DataOK
<1>1. CASE inbox' = inbox
  BY <1>1
<1>2. ASSUME NEW e \in Events, NotifySend(e)
      PROVE  \/ \E j \in DOMAIN inbox[d] : inbox'[d][k] = inbox[d][j]
             \/ inbox'[d][k] = notifier[e].msg
  <2> DEFINE at == IF notifier[e].pc = "begin" THEN 1 ELSE notifier[e].it.at
  <2>1. /\ notifier[e].pc \in {"begin", "send"} /\ at \in DOMAIN rm
        /\ Connect(rm[at], notifier[e].msg)
    BY <1>0, <1>2, NotifySendMoves
  <2> HIDE DEF at
  <2>2. rm[at] \in Backups /\ notifier[e].msg \in Messages
    BY <1>0, <2>1, Told DEF RmTypes
  <2> QED
    BY <1>0, <2>1, <2>2, ConnectPlaces
<1>3. ASSUME NEW b \in Backups, ListConnect(b)
      PROVE  \/ \E j \in DOMAIN inbox[d] : inbox'[d][k] = inbox[d][j]
             \/ inbox'[d][k] = Unwritten(b)
  <2>1. joiner[b].it.at \in DOMAIN rm /\ Connect(rm[joiner[b].it.at], Unwritten(b))
    BY <1>0, <1>3, ListConnectMoves
  <2>2. rm[joiner[b].it.at] \in Backups /\ Unwritten(b) \in Messages
    BY <1>0, <2>1, MessageSets DEF RmTypes
  <2> QED
    BY <1>0, <2>1, <2>2, ConnectPlaces
<1>4. ASSUME NEW b \in Backups, ListWrite(b)
      PROVE  \/ \E j \in DOMAIN inbox[d] : inbox'[d][k] = inbox[d][j]
             \/ inbox'[d][k] = ListOf(ToSet(rm))
  BY <1>0, <1>4, Written DEF ListWrite
<1>5. ASSUME NEW b \in Backups, SendCopied(b)
      PROVE  \/ \E j \in DOMAIN inbox[d] : inbox'[d][k] = inbox[d][j]
             \/ inbox'[d][k] \in joiner[d].todo
  <2>1. PICK msg \in joiner[b].todo : msg \in Items /\ Connect(b, msg)
    BY <1>0, <1>5, SendCopiedMoves
  <2>2. msg \in Messages
    BY <2>1, MessageSets
  <2> QED
    BY <1>0, <2>1, <2>2, ConnectPlaces
<1>6. ASSUME NEW b \in Backups, Apply(b)
      PROVE  \E j \in DOMAIN inbox[d] : inbox'[d][k] = inbox[d][j]
  <2>1. /\ \A x \in Backups : x # b => inbox'[x] = inbox[x]
        /\ \A i \in DOMAIN inbox'[b] : i + 1 \in DOMAIN inbox[b] /\ inbox'[b][i] = inbox[b][i + 1]
    BY <1>0, <1>6, Taken DEF Apply
  <2> QED
    BY <2>1
<1>7. ASSUME NEW c \in Connections, Client(c)
      PROVE  inbox' = inbox
  BY <1>7 DEF Client, Receive, Login, Register, Follow, Logout, backupVars
<1>8. ASSUME NEW e \in Events, NotifyEnd(e)
      PROVE  inbox' = inbox
  BY <1>8 DEF NotifyEnd, backupVars
<1>9. ASSUME NEW b \in Backups, AddBackup(b) \/ ListEnd(b) \/ CopySent(b) \/ Join(b) \/ Listen(b)
      PROVE  inbox' = inbox
  BY <1>9 DEF AddBackup, ListEnd, CopySent, Join, Listen, backupVars
<1>10. HeartbeatErase \/ BreakDown \/ UNCHANGED vars => inbox' = inbox
  BY DEF HeartbeatErase, BreakDown, vars, backupVars
<1> QED
  BY <1>1, <1>2, <1>3, <1>4, <1>5, <1>6, <1>7, <1>8, <1>9, <1>10
  DEF Next, Notifier, Joiner, Backup

-----------------------------------------------------------------------------
(***************************************************************************)
(* What is said is true.                                                   *)
(***************************************************************************)
LEMMA CopiedSaid ==
  ASSUME TableTypes, NEW table \in {"addresses", "sessions", "follows"}, NEW m \in Copied[table]
  PROVE  Said(m)
<1>1. CASE table = "addresses"
  BY <1>1 DEF Copied, Address, Said
<1>2. CASE table = "sessions"
  <2>1. PICK u \in Users : m \in { Session(u, id) : id \in ToSet(sessions_map[u]) }
    BY <1>2 DEF Copied
  <2> QED
    BY <2>1 DEF Session, Said
<1>3. CASE table = "follows"
  <2>1. PICK p \in follows : m = FollowOf(p[1], p[2])
    BY <1>3 DEF Copied
  <2>2. p = << p[1], p[2] >>
    BY <2>1 DEF TableTypes
  <2> QED
    BY <2>1, <2>2 DEF FollowOf, Said
<1> QED
  BY <1>1, <1>2, <1>3

\* The messages of the threads that send them.
LEMMA MessagesKnown ==
  ASSUME DataOK, ThreadsOK
  PROVE  /\ \A e \in Events : notifier[e].msg \in Messages \cup {NoMessage}
         /\ \A b \in Backups : joiner[b].todo \subseteq Messages
         /\ \A b \in Backups : \A k \in DOMAIN inbox[b] : inbox[b][k] \in Messages
<1>1. \A e \in Events : notifier[e].msg \in Messages \cup {NoMessage}
  BY MessageSets DEF DataOK, NotifierTypes, Telling
<1>2. \A b \in Backups : joiner[b].todo \subseteq Messages
  BY MessageSets DEF DataOK, JoinerTypes, Joining
<1>3. \A b \in Backups : \A k \in DOMAIN inbox[b] : inbox[b][k] \in Messages
  BY DEF DataOK, InboxTypes
<1> QED
  BY <1>1, <1>2, <1>3

LEMMA QueuedSaid ==
  ASSUME DataOK, ThreadsOK, TrueOK, [Next]_vars, NEW d \in Backups, NEW k \in DOMAIN inbox'[d]
  PROVE  Said(inbox[d][k])'
<1>1. \A m \in Messages \cup {NoMessage} : Said(m) => Said(m)'
  BY SaidGrows DEF DataOK, ThreadsOK
<1>2. CASE \E j \in DOMAIN inbox[d] : inbox'[d][k] = inbox[d][j]
  <2>1. PICK j \in DOMAIN inbox[d] : inbox'[d][k] = inbox[d][j]
    BY <1>2
  <2>2. inbox[d][j] \in Messages /\ Said(inbox[d][j])
    BY <2>1, MessagesKnown DEF TrueOK
  <2> QED
    BY <1>1, <2>1, <2>2
<1>3. CASE \E e \in Events : inbox'[d][k] = notifier[e].msg
  <2>1. PICK e \in Events : inbox'[d][k] = notifier[e].msg
    BY <1>3
  <2>2. notifier[e].msg \in Messages \cup {NoMessage} /\ Said(notifier[e].msg)
    BY <2>1, MessagesKnown DEF TrueOK
  <2> QED
    BY <1>1, <2>1, <2>2
<1>4. CASE inbox'[d][k] \in joiner[d].todo
  <2>1. inbox'[d][k] \in Messages /\ Said(inbox'[d][k])
    BY <1>4, MessagesKnown DEF TrueOK
  <2> QED
    BY <1>1, <2>1
<1>5. CASE inbox'[d][k].type \in {"UNWRITTEN", "LIST_BACKUP"}
  BY <1>5 DEF Said
<1>6. \A b \in Backups : Unwritten(b).type = "UNWRITTEN"
  BY DEF Unwritten
<1>7. ListOf(ToSet(rm)).type = "LIST_BACKUP"
  BY DEF ListOf
<1> QED
  BY <1>2, <1>3, <1>4, <1>5, <1>6, <1>7, InboxOrigin

\* Only the thread of a join moves a joiner.
LEMMA JoinerFrame ==
  ASSUME [Next]_vars
  PROVE  (\E b \in Backups : Joiner(b) \/ Join(b)) \/ joiner' = joiner
<1>1. ASSUME NEW c \in Connections, Client(c)
      PROVE  joiner' = joiner
  BY <1>1 DEF Client, Receive, Login, Register, Follow, Logout
<1>2. ASSUME NEW e \in Events, Notifier(e)
      PROVE  joiner' = joiner
  BY <1>2 DEF Notifier, NotifySend, NotifyEnd
<1>3. ASSUME NEW b \in Backups, Listen(b) \/ Apply(b)
      PROVE  joiner' = joiner
  BY <1>3 DEF Listen, Apply
<1>4. HeartbeatErase \/ BreakDown \/ UNCHANGED vars => joiner' = joiner
  BY DEF HeartbeatErase, BreakDown, vars
<1> QED
  BY <1>1, <1>2, <1>3, <1>4 DEF Next, Backup

LEMMA TodoSaid ==
  ASSUME DataOK, ThreadsOK, TrueOK, [Next]_vars, NEW d \in Backups, NEW m \in joiner'[d].todo
  PROVE  Said(m)'
<1>1. \A x \in Messages \cup {NoMessage} : Said(x) => Said(x)'
  BY SaidGrows DEF DataOK, ThreadsOK
<1>2. JoinerTypes /\ TableTypes /\ RmTypes
  BY DEF DataOK
<1>3. ASSUME m \in joiner[d].todo
      PROVE  m \in Messages /\ Said(m)
  BY <1>3, MessagesKnown DEF TrueOK
<1>4. ASSUME NEW table \in {"addresses", "sessions", "follows"}, m \in Copied[table]
      PROVE  m \in Messages /\ Said(m)
  <2>1. table = "addresses" \/ table = "sessions" \/ table = "follows"
    OBVIOUS
  <2>2. m \in Items
    BY <1>2, <1>4, <2>1, CopiedItems
  <2> QED
    BY <1>2, <1>4, <2>2, CopiedSaid, MessageSets
<1>5. ASSUME NEW b \in Backups, NEW table \in {"addresses", "sessions", "follows"}, CopyTable(b, table)
      PROVE  m \in joiner[d].todo \/ m \in Copied[table]
  BY <1>2, <1>5, CopyTableMoves DEF JoinerMoves
<1>6. ASSUME NEW b \in Backups, NEW label \in {"add", "list", "done"}, JoinGoto(b, label)
      PROVE  m \in joiner[d].todo
  BY <1>2, <1>6, JoinGotoMoves DEF JoinerMoves
<1>7. ASSUME NEW b \in Backups, Joiner(b)
      PROVE  m \in joiner[d].todo \/ \E table \in {"addresses", "sessions", "follows"} : m \in Copied[table]
  <2>1. CASE AddBackup(b)
    <3>1. capacity' \in Nat
      BY <1>2, <2>1 DEF AddBackup, RmTypes
    <3> QED
      BY <1>2, <2>1, <3>1, AddBackupMoves DEF JoinerMoves
  <2>2. CASE ListConnect(b)
    BY <1>2, <2>2, ListConnectMoves DEF JoinerMoves
  <2>3. CASE ListWrite(b)
    BY <1>6, <2>3 DEF ListWrite
  <2>4. CASE ListEnd(b)
    BY <1>5, <2>4 DEF ListEnd
  <2>5. CASE SendCopied(b)
    BY <1>2, <2>5, SendCopiedMoves DEF JoinerMoves
  <2>6. CASE CopySent(b)
    BY <1>5, <1>6, <2>6 DEF CopySent
  <2> QED
    BY <1>7, <2>1, <2>2, <2>3, <2>4, <2>5, <2>6 DEF Joiner
<1>8. ASSUME NEW b \in Backups, Join(b)
      PROVE  m \in joiner[d].todo
  BY <1>6, <1>8 DEF Join
<1> QED
  BY <1>1, <1>3, <1>4, <1>7, <1>8, JoinerFrame

LEMMA ToldSaid ==
  ASSUME DataOK, ThreadsOK, TrueOK, [Next]_vars, NEW f \in Events
  PROVE  Said(notifier[f].msg)'
<1>1. \A x \in Messages \cup {NoMessage} : Said(x) => Said(x)'
  BY SaidGrows DEF DataOK, ThreadsOK
<1>2. notifier[f].msg \in Messages \cup {NoMessage} /\ Said(notifier[f].msg)
  BY MessagesKnown DEF TrueOK
<1>3. CASE notifier'[f].msg = notifier[f].msg
  BY <1>1, <1>2, <1>3
<1>4. CASE notifier'[f].msg = NoMessage
  BY <1>4 DEF NoMessage, Said
<1>5. NotifierTypes /\ RmTypes /\ TableTypes /\ CallTypes /\ EventsOK
  BY DEF DataOK, ThreadsOK
<1>6. ASSUME NEW c \in Connections, Client(c)
      PROVE  Said(notifier[f].msg)'
  <2>1. << c, "profile" >> \in Events /\ << c, "address" >> \in Events
    BY DEF Events
  <2>2. ASSUME NEW e \in Events, NEW msg \in EventMessages, Notify(e, msg), Said(msg)'
        PROVE  Said(notifier[f].msg)'
    <3>1. notifier'[e].msg = msg /\ (f # e => notifier'[f] = notifier[f])
      BY <1>5, <2>2, Notified
    <3>2. CASE f = e
      BY <2>2, <3>1, <3>2
    <3> QED
      BY <1>3, <3>1, <3>2
  <2>3. pc[c] # "idle" => calls[c].user \in Users /\ calls[c].other \in Users
    BY <1>5, CallFields DEF EventsOK
  <2>4. CASE notifier' = notifier
    BY <1>3, <2>4
  <2>5. CASE Login(c) /\ notifier' # notifier
    <3>1. /\ Notify(<< c, "profile" >>, Session(calls[c].user, c)) /\ pc[c] # "idle"
          /\ sessions_map' = [sessions_map EXCEPT ![calls[c].user] = Append(@, c)]
      BY <2>5 DEF Login
    <3>2. sessions_map[calls[c].user] \in Seq(Connections)
      BY <1>5, <2>3, <3>1 DEF TableTypes
    <3>3. sessions_map'[calls[c].user] = Append(sessions_map[calls[c].user], c)
      BY <1>5, <2>3, <3>1 DEF TableTypes
    <3>4. c \in ToSet(sessions_map'[calls[c].user])
      BY <3>2, <3>3, AppendElements
    <3> DEFINE u == calls[c].user
    <3>5. u \in Users
      BY <2>3, <3>1
    <3>6. \A x \in Users : x = u => Said(Session(x, c))'
      BY <3>4 DEF Said, Session
    <3>7. Session(u, c) \in EventMessages
      BY <3>5, MessageSets
    <3> QED
      BY <2>1, <2>2, <3>1, <3>5, <3>6, <3>7
  <2>6. CASE Register(c)
    <3>1. Notify(<< c, "address" >>, Address(c)) /\ c \in addresses'
      BY <2>6 DEF Register
    <3>2. Said(Address(c))' /\ Address(c) \in EventMessages
      BY <3>1, MessageSets DEF Said, Address
    <3> QED
      BY <2>1, <2>2, <3>1, <3>2
  <2>7. CASE Follow(c) /\ notifier' # notifier
    <3> DEFINE u == calls[c].user
               v == calls[c].other
    <3>1. Notify(<< c, "profile" >>, FollowOf(u, v)) /\ pc[c] # "idle" /\ << u, v >> \in follows'
      BY <2>7 DEF Follow
    <3>2. u \in Users /\ v \in Users
      BY <2>3, <3>1
    <3>3. \A x, y \in Users : x = u /\ y = v => Said(FollowOf(x, y))'
      BY <3>1 DEF Said, FollowOf
    <3>4. FollowOf(u, v) \in EventMessages
      BY <3>2, MessageSets
    <3> QED
      BY <2>1, <2>2, <3>1, <3>2, <3>3, <3>4
  <2>8. CASE Logout(c)
    <3> DEFINE u == calls[c].user
    <3>1. Notify(<< c, "profile" >>, CloseUser(u)) /\ pc[c] = "logout" /\ pc'[c] = "done" /\ calls' = calls
      BY <1>5, <2>8 DEF Logout, CallTypes
    <3>2. u \in Users
      BY <2>3, <3>1
    <3>3. calls[c].op = "logout"
      BY <1>5, <3>1 DEF EventsOK
    <3>4. \A x \in Users : x = u => Said(CloseUser(x))'
      BY <3>1, <3>3 DEF Said, CloseUser, LoggedOut
    <3>5. CloseUser(u) \in EventMessages
      BY <3>2, MessageSets
    <3> QED
      BY <2>1, <2>2, <3>1, <3>2, <3>4, <3>5
  <2>9. CASE Receive(c)
    BY <2>4, <2>9 DEF Receive
  <2> QED
    BY <1>6, <2>4, <2>5, <2>6, <2>7, <2>8, <2>9 DEF Client
<1>7. ASSUME NEW e \in Events, NotifySend(e)
      PROVE  notifier'[f].msg = notifier[f].msg
  BY <1>5, <1>7, NotifySendMoves
<1>8. ASSUME NEW e \in Events, NotifyEnd(e)
      PROVE  notifier'[f].msg \in {notifier[f].msg, NoMessage}
  BY <1>5, <1>8, NotifyEndMoves
<1>9. ASSUME NEW b \in Backups, Joiner(b) \/ Backup(b)
      PROVE  notifier' = notifier
  BY <1>9 DEF Joiner, AddBackup, ListConnect, ListWrite, ListEnd, SendCopied, CopySent, Backup, Join,
     Listen, Apply
<1>10. HeartbeatErase \/ BreakDown \/ UNCHANGED vars => notifier' = notifier
  BY DEF HeartbeatErase, BreakDown, vars
<1> QED
  BY <1>3, <1>4, <1>6, <1>7, <1>8, <1>9, <1>10 DEF Next, Notifier

\* Only what is read changes the copies.
LEMMA CopyFrame ==
  ASSUME [Next]_vars
  PROVE  (\E b \in Backups : Apply(b)) \/ copy' = copy
<1>1. ASSUME NEW c \in Connections, Client(c)
      PROVE  copy' = copy
  BY <1>1 DEF Client, Receive, Login, Register, Follow, Logout, backupVars
<1>2. ASSUME NEW e \in Events, Notifier(e)
      PROVE  copy' = copy
  BY <1>2 DEF Notifier, NotifySend, NotifyEnd, backupVars
<1>3. ASSUME NEW b \in Backups, Joiner(b) \/ Join(b) \/ Listen(b)
      PROVE  copy' = copy
  BY <1>3 DEF Joiner, AddBackup, ListConnect, ListWrite, ListEnd, SendCopied, CopySent, Join, Listen,
              backupVars
<1>4. HeartbeatErase \/ BreakDown \/ UNCHANGED vars => copy' = copy
  BY DEF HeartbeatErase, BreakDown, vars, backupVars
<1> QED
  BY <1>1, <1>2, <1>3, <1>4 DEF Next, Backup

LEMMA CopySaid ==
  ASSUME DataOK, ThreadsOK, TrueOK, [Next]_vars
  PROVE  NothingInvented'
<1>0. InboxTypes /\ CopyTypes /\ TableTypes
  BY DEF DataOK
<1>1. /\ follows \subseteq follows' /\ addresses \subseteq addresses'
      /\ \A u \in Users : ToSet(sessions_map[u]) \subseteq ToSet(sessions_map'[u])
  BY TablesGrow DEF DataOK, ThreadsOK
<1>2. NothingInvented
  BY DEF TrueOK
<1> SUFFICES ASSUME NEW d \in Backups
             PROVE  /\ copy'[d].follows \subseteq follows'
                    /\ copy'[d].addresses \subseteq addresses'
                    /\ \A u \in Users : ToSet(copy'[d].sessions[u]) \subseteq ToSet(sessions_map'[u])
  BY DEF NothingInvented
<1>3. CASE copy'[d] = copy[d]
  BY <1>1, <1>2, <1>3 DEF NothingInvented
<1>4. CASE Apply(d)
  <2> DEFINE m == inbox[d][1]
  <2>1. m \in Messages /\ m.type # "UNWRITTEN" /\ 1 \in DOMAIN inbox[d] /\ copy[d] \in Stored
    BY <1>0, <1>4, CopyApplied
  <2>2. Said(m)
    BY <2>1 DEF TrueOK
  <2>5. /\ copy'[d].sessions = IF m.type = "NEW_PROFILE_SESSION"
                               THEN [copy[d].sessions EXCEPT ![m.user] = Append(@, m.id)]
                               ELSE IF m.type = "CLOSE_PROFILE_SESSION"
                                    THEN [copy[d].sessions EXCEPT ![m.user] = << >>]
                                    ELSE copy[d].sessions
        /\ copy'[d].follows = IF m.type = "FOLLOW"
                              THEN copy[d].follows \cup {<< m.follower, m.followed >>}
                              ELSE copy[d].follows
        /\ copy'[d].addresses = IF m.type = "NEW_SESSION" THEN copy[d].addresses \cup {m.id}
                                ELSE copy[d].addresses
    BY <1>0, <1>4, CopyApplied
  <2> HIDE DEF m
  <2>6. copy'[d].follows \subseteq follows' /\ copy'[d].addresses \subseteq addresses'
    BY <1>1, <1>2, <2>2, <2>5 DEF NothingInvented, Said
  <2>7. ASSUME NEW u \in Users
        PROVE  ToSet(copy'[d].sessions[u]) \subseteq ToSet(sessions_map[u])
    <3>1. copy[d].sessions \in [Users -> Seq(Connections)]
      BY <2>1 DEF Stored
    <3>2. ToSet(copy[d].sessions[u]) \subseteq ToSet(sessions_map[u])
      BY <1>2 DEF NothingInvented
    <3>3. CASE copy'[d].sessions[u] = copy[d].sessions[u]
      BY <3>2, <3>3
    <3>4. CASE m.type = "NEW_PROFILE_SESSION" /\ m.user = u
      <4>1. m.id \in Connections /\ m.id \in ToSet(sessions_map[u])
        BY <2>1, <2>2, <3>4, MessageFields DEF Said
      <4>2. copy'[d].sessions[u] = Append(copy[d].sessions[u], m.id)
        BY <2>5, <3>1, <3>4
      <4>3. copy[d].sessions[u] \in Seq(Connections)
        BY <3>1
      <4> QED
        BY <3>2, <4>1, <4>2, <4>3, AppendElements
    <3>5. CASE m.type = "CLOSE_PROFILE_SESSION" /\ m.user = u
      <4>1. copy'[d].sessions[u] = << >>
        BY <2>5, <3>1, <3>5
      <4> QED
        BY <4>1 DEF ToSet
    <3> QED
      BY <2>5, <3>1, <3>3, <3>4, <3>5
  <2> QED
    BY <1>1, <2>6, <2>7
<1>5. ASSUME NEW b \in Backups, Apply(b), b # d
      PROVE  copy'[d] = copy[d]
  BY <1>0, <1>5, ApplyMoves
<1> QED
  BY <1>3, <1>4, <1>5, CopyFrame

LEMMA TrueStep == IInv /\ [Next]_vars => TrueOK'
<1> SUFFICES ASSUME IInv, [Next]_vars PROVE TrueOK'
  OBVIOUS
<1>0. DataOK /\ ThreadsOK /\ TrueOK
  BY DEF IInv
<1>1. \A e \in Events : Said(notifier[e].msg)'
  BY <1>0, ToldSaid
<1>2. \A b \in Backups : \A m \in joiner'[b].todo : Said(m)'
  BY <1>0, TodoSaid
<1>3. \A b \in Backups : \A k \in DOMAIN inbox'[b] : Said(inbox[b][k])'
  BY <1>0, QueuedSaid
<1>4. NothingInvented'
  BY <1>0, CopySaid
<1> QED
  BY <1>1, <1>2, <1>3, <1>4 DEF TrueOK

-----------------------------------------------------------------------------
(***************************************************************************)
(* A list that is on its way is not overtaken by an older one.             *)
(***************************************************************************)
LEMMA CoversAppended ==
  ASSUME InboxTypes, NEW b \in Backups, NEW bs, NEW m \in Messages,
         inbox'[b] = Append(inbox[b], m), copy'[b] = copy[b]
  PROVE  /\ Covers(b, bs) /\ ~ IsList(m) => Covers(b, bs)'
         /\ m.type = "UNWRITTEN" => Covers(b, bs)'
<1>1. inbox[b] \in Seq(Messages)
  BY DEF InboxTypes
<1>2. /\ Len(inbox[b]) \in Nat /\ DOMAIN inbox[b] = 1 .. Len(inbox[b])
      /\ DOMAIN inbox'[b] = 1 .. Len(inbox[b]) + 1
      /\ \A i \in DOMAIN inbox[b] : i \in DOMAIN inbox'[b] /\ inbox'[b][i] = inbox[b][i]
      /\ inbox'[b][Len(inbox[b]) + 1] = m
      /\ \A i \in DOMAIN inbox'[b] : i \in DOMAIN inbox[b] \/ i = Len(inbox[b]) + 1
  BY <1>1, AppendPlaces
<1>3. ASSUME Covers(b, bs), ~ IsList(m)
      PROVE  Covers(b, bs)'
  <2>1. ASSUME NEW k \in DOMAIN inbox[b], Lists(inbox[b][k], bs),
               \A j \in DOMAIN inbox[b] : j > k => ~ IsList(inbox[b][j])
        PROVE  Covers(b, bs)'
    <3>1. k \in DOMAIN inbox'[b] /\ Lists(inbox'[b][k], bs)
      BY <1>2, <2>1
    <3>2. \A j \in DOMAIN inbox'[b] : j > k => ~ IsList(inbox'[b][j])
      BY <1>2, <1>3, <2>1
    <3> QED
      BY <3>1, <3>2 DEF Covers, Lists, IsList
  <2>2. CASE /\ \A j \in DOMAIN inbox[b] : ~ IsList(inbox[b][j])
             /\ bs \ {b} \subseteq copy[b].backups
    <3>1. \A j \in DOMAIN inbox'[b] : ~ IsList(inbox'[b][j])
      BY <1>2, <1>3, <2>2
    <3> QED
      BY <2>2, <3>1 DEF Covers, Lists, IsList
  <2> QED
    BY <1>3, <2>1, <2>2 DEF Covers
<1>4. ASSUME m.type = "UNWRITTEN"
      PROVE  Covers(b, bs)'
  <2> DEFINE k == Len(inbox[b]) + 1
  <2>1. k \in DOMAIN inbox'[b] /\ inbox'[b][k].type = "UNWRITTEN"
    BY <1>2, <1>4
  <2>2. \A j \in DOMAIN inbox'[b] : ~ (j > k)
    BY <1>2
  <2> HIDE DEF k
  <2> QED
    BY <2>1, <2>2 DEF Covers, Lists
<1> QED
  BY <1>3, <1>4

LEMMA CoversWritten ==
  ASSUME InboxTypes, NEW b \in Backups, NEW bs, bs \subseteq ToSet(rm), copy'[b] = copy[b],
         DOMAIN inbox'[b] = DOMAIN inbox[b],
         \A k \in DOMAIN inbox[b] :
           \/ inbox'[b][k] = inbox[b][k]
           \/ inbox[b][k].type = "UNWRITTEN" /\ inbox'[b][k] = ListOf(ToSet(rm)),
         Covers(b, bs)
  PROVE  Covers(b, bs)'
<1>1. ASSUME NEW k \in DOMAIN inbox[b]
      PROVE  /\ Lists(inbox[b][k], bs) => Lists(inbox'[b][k], bs)
             /\ ~ IsList(inbox[b][k]) => ~ IsList(inbox'[b][k])
  <2>1. ListOf(ToSet(rm)).type = "LIST_BACKUP" /\ ListOf(ToSet(rm)).backups = ToSet(rm)
    BY DEF ListOf
  <2>2. CASE inbox'[b][k] = inbox[b][k]
    BY <2>2
  <2>3. CASE inbox[b][k].type = "UNWRITTEN" /\ inbox'[b][k] = ListOf(ToSet(rm))
    BY <2>1, <2>3 DEF Lists, IsList
  <2> QED
    BY <2>2, <2>3
<1>2. ASSUME NEW k \in DOMAIN inbox[b], Lists(inbox[b][k], bs),
             \A j \in DOMAIN inbox[b] : j > k => ~ IsList(inbox[b][j])
      PROVE  Covers(b, bs)'
  <2>1. Lists(inbox'[b][k], bs) /\ \A j \in DOMAIN inbox'[b] : j > k => ~ IsList(inbox'[b][j])
    BY <1>1, <1>2
  <2> QED
    BY <2>1 DEF Covers, Lists, IsList
<1>3. CASE /\ \A j \in DOMAIN inbox[b] : ~ IsList(inbox[b][j])
           /\ bs \ {b} \subseteq copy[b].backups
  <2>1. \A j \in DOMAIN inbox'[b] : ~ IsList(inbox'[b][j])
    BY <1>1, <1>3
  <2> QED
    BY <1>3, <2>1 DEF Covers, Lists, IsList
<1> QED
  BY <1>2, <1>3 DEF Covers

LEMMA CoversTaken ==
  ASSUME InboxTypes, CopyTypes, NEW b \in Backups, NEW bs, Apply(b), Covers(b, bs)
  PROVE  Covers(b, bs)'
<1> DEFINE m == inbox[b][1]
<1>1. /\ m \in Messages /\ m.type # "UNWRITTEN" /\ m = Head(inbox[b])
      /\ 1 \in DOMAIN inbox[b]
      /\ \A k \in DOMAIN inbox'[b] : k + 1 \in DOMAIN inbox[b] /\ inbox'[b][k] = inbox[b][k + 1]
      /\ \A k \in DOMAIN inbox[b] : k # 1 => k - 1 \in DOMAIN inbox'[b]
  BY Taken DEF Apply
<1>2. copy'[b].backups = IF m.type = "LIST_BACKUP" THEN m.backups \ {b} ELSE copy[b].backups
  BY CopyApplied
<1>3. DOMAIN inbox[b] \subseteq Int /\ DOMAIN inbox'[b] \subseteq Int
  <2>1. inbox[b] \in Seq(Messages) /\ inbox'[b] \in Seq(Messages)
    BY Taken DEF Apply, InboxTypes
  <2> QED
    BY <2>1
<1> HIDE DEF m
<1>4. ASSUME NEW k \in DOMAIN inbox[b], Lists(inbox[b][k], bs), k # 1,
             \A j \in DOMAIN inbox[b] : j > k => ~ IsList(inbox[b][j])
      PROVE  Covers(b, bs)'
  <2> DEFINE i == k - 1
  <2>1. i \in DOMAIN inbox'[b] /\ i + 1 = k
    BY <1>1, <1>3, <1>4
  <2>2. Lists(inbox'[b][i], bs)
    BY <1>1, <1>4, <2>1
  <2>3. ASSUME NEW j \in DOMAIN inbox'[b], j > i
        PROVE  ~ IsList(inbox'[b][j])
    <3>1. j + 1 \in DOMAIN inbox[b] /\ inbox'[b][j] = inbox[b][j + 1]
      BY <1>1
    <3>2. j + 1 > k
      BY <1>3, <2>3
    <3> QED
      BY <1>4, <3>1, <3>2
  <2> HIDE DEF i
  <2> QED
    BY <2>1, <2>2, <2>3 DEF Covers, Lists, IsList
\* The list is taken: it is what b has now.
<1>5. ASSUME Lists(m, bs), \A j \in DOMAIN inbox[b] : j > 1 => ~ IsList(inbox[b][j])
      PROVE  Covers(b, bs)'
  <2>1. m.type = "LIST_BACKUP" /\ bs \subseteq m.backups
    BY <1>1, <1>5 DEF Lists
  <2>2. \A j \in DOMAIN inbox'[b] : ~ IsList(inbox'[b][j])
    <3>1. ASSUME NEW j \in DOMAIN inbox'[b]
          PROVE  j + 1 \in DOMAIN inbox[b] /\ inbox'[b][j] = inbox[b][j + 1] /\ j + 1 > 1
      <4>1. j + 1 \in DOMAIN inbox[b] /\ inbox'[b][j] = inbox[b][j + 1]
        BY <1>1
      <4>2. j >= 1
        <5>1. inbox'[b] \in Seq(Messages)
          BY Taken DEF Apply, InboxTypes
        <5> QED
          BY <5>1
      <4> QED
        BY <1>3, <4>1, <4>2
    <3> QED
      BY <1>5, <3>1
  <2>3. bs \ {b} \subseteq copy'[b].backups
    BY <1>2, <2>1
  <2> QED
    BY <2>2, <2>3 DEF Covers, IsList
<1>6. ASSUME \A j \in DOMAIN inbox[b] : ~ IsList(inbox[b][j]), bs \ {b} \subseteq copy[b].backups
      PROVE  Covers(b, bs)'
  <2>1. \A j \in DOMAIN inbox'[b] : ~ IsList(inbox'[b][j])
    BY <1>1, <1>6
  <2>2. m.type # "LIST_BACKUP"
    BY <1>1, <1>6 DEF IsList, m
  <2>3. bs \ {b} \subseteq copy'[b].backups
    BY <1>2, <1>6, <2>2
  <2> QED
    BY <2>1, <2>3 DEF Covers, IsList
<1>7. ASSUME NEW k \in DOMAIN inbox[b], Lists(inbox[b][k], bs),
             \A j \in DOMAIN inbox[b] : j > k => ~ IsList(inbox[b][j])
      PROVE  Covers(b, bs)'
  BY <1>4, <1>5, <1>7 DEF m
<1> QED
  BY <1>6, <1>7 DEF Covers

\* A connection that is not refused adds its message.
LEMMA CoversConnect ==
  ASSUME InboxTypes, FlagTypes, NEW t \in Backups, NEW msg \in Messages, Connect(t, msg), ~ refused',
         copy' = copy, NEW b \in Backups, NEW bs, Covers(b, bs), IsList(msg) => msg.type = "UNWRITTEN"
  PROVE  Covers(b, bs)'
<1>1. inbox'[t] = Append(inbox[t], msg) /\ \A d \in Backups : d # t => inbox'[d] = inbox[d]
  BY Connected
<1>2. CASE b = t
  BY <1>1, <1>2, CoversAppended
<1>3. CASE b # t
  BY <1>1, <1>3 DEF Covers
<1> QED
  BY <1>2, <1>3

LEMMA EventsNotLists ==
  \A m \in EventMessages : m \in Messages /\ ~ IsList(m)
BY DEF Messages, EventMessages, Items, Session, FollowOf, Address, CloseUser, IsList

LEMMA CoversKept ==
  ASSUME DataOK, ThreadsOK, Next, ~ refused', NEW b \in Backups, NEW bs, bs \subseteq ToSet(rm),
         Covers(b, bs)
  PROVE  Covers(b, bs)'
<1>0. /\ InboxTypes /\ FlagTypes /\ NotifierTypes /\ JoinerTypes /\ RmTypes /\ CopyTypes
  BY DEF DataOK
<1>1. CASE UNCHANGED << inbox, copy >>
  BY <1>1 DEF Covers
<1>2. ASSUME NEW e \in Events, NotifySend(e)
      PROVE  Covers(b, bs)'
  <2> DEFINE at == IF notifier[e].pc = "begin" THEN 1 ELSE notifier[e].it.at
  <2>1. /\ notifier[e].pc \in {"begin", "send"} /\ at \in DOMAIN rm
        /\ Connect(rm[at], notifier[e].msg)
    BY <1>0, <1>2, NotifySendMoves
  <2> HIDE DEF at
  <2>2. rm[at] \in Backups /\ notifier[e].msg \in EventMessages
    BY <1>0, <2>1, Told DEF RmTypes
  <2>3. copy' = copy
    BY <1>2 DEF NotifySend
  <2>4. notifier[e].msg \in Messages /\ ~ IsList(notifier[e].msg)
    BY <2>2, EventsNotLists
  <2> QED
    BY <1>0, <2>1, <2>2, <2>3, <2>4, CoversConnect
<1>3. ASSUME NEW d \in Backups, ListConnect(d)
      PROVE  Covers(b, bs)'
  <2>1. joiner[d].it.at \in DOMAIN rm /\ Connect(rm[joiner[d].it.at], Unwritten(d))
    BY <1>0, <1>3, ListConnectMoves
  <2>2. /\ rm[joiner[d].it.at] \in Backups /\ Unwritten(d) \in Messages
        /\ Unwritten(d).type = "UNWRITTEN"
    BY <1>0, <2>1, MessageSets DEF RmTypes, Unwritten
  <2>3. copy' = copy
    BY <1>3 DEF ListConnect
  <2> QED
    BY <1>0, <2>1, <2>2, <2>3, CoversConnect
<1>4. ASSUME NEW d \in Backups, ListWrite(d)
      PROVE  Covers(b, bs)'
  <2>1. copy' = copy
    BY <1>4 DEF ListWrite
  <2>2. /\ DOMAIN inbox'[b] = DOMAIN inbox[b]
        /\ \A k \in DOMAIN inbox[b] :
             \/ inbox'[b][k] = inbox[b][k]
             \/ inbox[b][k].type = "UNWRITTEN" /\ inbox'[b][k] = ListOf(ToSet(rm))
    BY <1>0, <1>4, Written DEF ListWrite
  <2> QED
    BY <1>0, <2>1, <2>2, CoversWritten
<1>5. ASSUME NEW d \in Backups, SendCopied(d)
      PROVE  Covers(b, bs)'
  <2>1. PICK msg \in joiner[d].todo : msg \in Items /\ Connect(d, msg)
    BY <1>0, <1>5, SendCopiedMoves
  <2>2. msg \in Messages /\ ~ IsList(msg)
    BY <2>1, MessageSets, EventsNotLists
  <2>3. copy' = copy
    BY <1>5 DEF SendCopied
  <2> QED
    BY <1>0, <2>1, <2>2, <2>3, CoversConnect
<1>6. ASSUME NEW d \in Backups, Apply(d)
      PROVE  Covers(b, bs)'
  <2>1. CASE d = b
    BY <1>0, <1>6, <2>1, CoversTaken
  <2>2. CASE d # b
    <3>1. inbox'[b] = inbox[b]
      BY <1>0, <1>6, <2>2, Taken DEF Apply
    <3>2. copy'[b] = copy[b]
      BY <1>0, <1>6, <2>2, ApplyMoves
    <3> QED
      BY <3>1, <3>2 DEF Covers
  <2> QED
    BY <2>1, <2>2
<1>7. ASSUME NEW c \in Connections, Client(c)
      PROVE  UNCHANGED << inbox, copy >>
  BY <1>7 DEF Client, Receive, Login, Register, Follow, Logout, backupVars
<1>8. ASSUME NEW e \in Events, NotifyEnd(e)
      PROVE  UNCHANGED << inbox, copy >>
  BY <1>8 DEF NotifyEnd, backupVars
<1>9. ASSUME NEW d \in Backups, AddBackup(d) \/ ListEnd(d) \/ CopySent(d) \/ Join(d) \/ Listen(d)
      PROVE  UNCHANGED << inbox, copy >>
  BY <1>9 DEF AddBackup, ListEnd, CopySent, Join, Listen, backupVars
<1>10. HeartbeatErase \/ BreakDown \/ UNCHANGED vars => UNCHANGED << inbox, copy >>
  BY DEF HeartbeatErase, BreakDown, vars, backupVars
<1> QED
  BY <1>1, <1>2, <1>3, <1>4, <1>5, <1>6, <1>7, <1>8, <1>9, <1>10
  DEF Next, Notifier, Joiner, Backup

LEMMA RefusedGrows ==
  ASSUME [Next]_vars, refused
  PROVE  refused'
<1>1. ASSUME NEW b, NEW msg, Connect(b, msg)
      PROVE  refused'
  BY <1>1 DEF Connect
<1>2. ASSUME NEW c \in Connections, Client(c)
      PROVE  refused'
  BY <1>2 DEF Client, Receive, Login, Register, Follow, Logout
<1>3. ASSUME NEW e \in Events, Notifier(e)
      PROVE  refused'
  BY <1>1, <1>3 DEF Notifier, NotifySend, NotifyEnd
<1>4. ASSUME NEW b \in Backups, Joiner(b)
      PROVE  refused'
  BY <1>1, <1>4 DEF Joiner, AddBackup, ListConnect, ListWrite, ListEnd, SendCopied, CopySent
<1>5. ASSUME NEW b \in Backups, Backup(b)
      PROVE  refused'
  BY <1>5 DEF Backup, Join, Listen, Apply
<1>6. HeartbeatErase \/ BreakDown \/ UNCHANGED vars => refused'
  BY DEF HeartbeatErase, BreakDown, vars
<1> QED
  BY <1>2, <1>3, <1>4, <1>5, <1>6 DEF Next

\* As long as no connection is refused, nothing is erased from rm.
LEMMA RmGrows ==
  ASSUME DataOK, ThreadsOK, [Next]_vars, ~ refused'
  PROVE  /\ \A k \in DOMAIN rm : k \in DOMAIN rm' /\ rm'[k] = rm[k]
         /\ ToSet(rm) \subseteq ToSet(rm')
         /\ \A k \in DOMAIN rm' : k \in DOMAIN rm \/ \E b \in Backups : AddBackup(b) /\ rm'[k] = b
<1>1. CASE rm' = rm
  BY <1>1
<1>2. ASSUME NEW b \in Backups, AddBackup(b)
      PROVE  /\ \A k \in DOMAIN rm : k \in DOMAIN rm' /\ rm'[k] = rm[k]
             /\ ToSet(rm) \subseteq ToSet(rm')
             /\ \A k \in DOMAIN rm' : k \in DOMAIN rm \/ rm'[k] = b
  <2>1. /\ joiner[b].pc = "add" /\ rm' = Append(rm, b)
        /\ capacity' = IF Len(rm) = capacity THEN IF capacity = 0 THEN 1 ELSE 2 * capacity ELSE capacity
    BY <1>2 DEF AddBackup
  <2>2. RmTypes /\ \A k \in DOMAIN rm : rm[k] # b
    BY <2>1 DEF DataOK, ThreadsOK, JoinsOK
  <2>3. /\ Len(rm) \in Nat /\ DOMAIN rm = 1 .. Len(rm) /\ DOMAIN rm' = 1 .. Len(rm) + 1
        /\ rm'[Len(rm) + 1] = b /\ \A k \in DOMAIN rm : rm'[k] = rm[k]
        /\ ToSet(rm') = ToSet(rm) \cup {b}
    BY <2>1, <2>2, Appended
  <2> QED
    BY <2>3
<1>3. ASSUME NEW c \in Connections, Client(c)
      PROVE  rm' = rm
  BY <1>3 DEF Client, Receive, Login, Register, Follow, Logout, list
<1>4. ASSUME NEW e \in Events, Notifier(e)
      PROVE  rm' = rm
  BY <1>4 DEF Notifier, NotifySend, NotifyEnd, list
<1>5. ASSUME NEW b \in Backups, Joiner(b) \/ Backup(b), ~ AddBackup(b)
      PROVE  rm' = rm
  BY <1>5 DEF Joiner, ListConnect, ListWrite, ListEnd, SendCopied, CopySent, Backup, Join, Listen, Apply,
              list
<1>6. ~ HeartbeatErase
  BY DEF HeartbeatErase
<1>7. BreakDown \/ UNCHANGED vars => rm' = rm
  BY DEF BreakDown, vars, list
<1> QED
  BY <1>1, <1>2, <1>3, <1>4, <1>5, <1>6, <1>7 DEF Next

\* The lists hold only backups that are in rm.
LEMMA ListsReal ==
  ASSUME DataOK, ThreadsOK, ListOK, [Next]_vars, ~ refused, ~ refused', NEW d \in Backups
  PROVE  /\ copy'[d].backups \subseteq ToSet(rm')
         /\ \A k \in DOMAIN inbox'[d] :
              inbox'[d][k].type = "LIST_BACKUP" => inbox'[d][k].backups \subseteq ToSet(rm')
<1>0. InboxTypes /\ CopyTypes
  BY DEF DataOK
<1>1. ToSet(rm) \subseteq ToSet(rm')
  BY RmGrows
<1>2. /\ copy[d].backups \subseteq ToSet(rm)
      /\ \A k \in DOMAIN inbox[d] :
           inbox[d][k].type = "LIST_BACKUP" => inbox[d][k].backups \subseteq ToSet(rm)
  BY DEF ListOK
<1>3. ASSUME NEW k \in DOMAIN inbox'[d], inbox'[d][k].type = "LIST_BACKUP"
      PROVE  inbox'[d][k].backups \subseteq ToSet(rm)
  <2>1. \A e \in Events : notifier[e].msg.type # "LIST_BACKUP"
    <3>1. \A e \in Events : notifier[e].msg \in EventMessages \cup {NoMessage}
      BY DEF DataOK, NotifierTypes, Telling
    <3>2. \A m \in EventMessages : m.type # "LIST_BACKUP"
      BY EventsNotLists DEF IsList
    <3> QED
      BY <3>1, <3>2 DEF NoMessage
  <2>2. \A m \in joiner[d].todo : m.type # "LIST_BACKUP"
    <3>1. joiner[d].todo \subseteq EventMessages
      BY MessageSets DEF DataOK, JoinerTypes, Joining
    <3> QED
      BY <3>1, EventsNotLists DEF IsList
  <2>3. \A b \in Backups : Unwritten(b).type # "LIST_BACKUP"
    BY DEF Unwritten
  <2>4. ListOf(ToSet(rm)).backups = ToSet(rm)
    BY DEF ListOf
  <2>5. \/ \E j \in DOMAIN inbox[d] : inbox'[d][k] = inbox[d][j]
        \/ inbox'[d][k] = ListOf(ToSet(rm))
    BY <1>3, <2>1, <2>2, <2>3, InboxOrigin
  <2> QED
    BY <1>2, <1>3, <2>4, <2>5
<1>4. copy'[d].backups \subseteq ToSet(rm)
  <2>1. CASE copy'[d] = copy[d]
    BY <1>2, <2>1
  <2>2. CASE Apply(d)
    <3> DEFINE m == inbox[d][1]
    <3>1. /\ m \in Messages /\ 1 \in DOMAIN inbox[d]
          /\ copy'[d].backups = IF m.type = "LIST_BACKUP" THEN m.backups \ {d} ELSE copy[d].backups
      BY <1>0, <2>2, CopyApplied
    <3>2. m.type = "LIST_BACKUP" => m.backups \subseteq ToSet(rm)
      BY <1>2, <3>1
    <3> HIDE DEF m
    <3> QED
      BY <1>2, <3>1, <3>2
  <2>3. ASSUME NEW b \in Backups, Apply(b), b # d
        PROVE  copy'[d] = copy[d]
    BY <1>0, <2>3, ApplyMoves
  <2> QED
    BY <2>1, <2>2, <2>3, CopyFrame
<1> QED
  BY <1>1, <1>3, <1>4

(***************************************************************************)
(* A joiner goes on by connecting to the backup it is at.                  *)
(***************************************************************************)
LEMMA PassedStep ==
  ASSUME IInv, [Next]_vars, ~ refused', NEW n \in DOMAIN rm', NEW m \in 1 .. n, Passed(n, m)'
  PROVE  /\ n \in DOMAIN rm
         /\ Passed(n, m) \/ (ListConnect(rm[n]) /\ joiner[rm[n]].it.at = m)
<1>0. JoinerTypes /\ RmTypes /\ RmTypes' /\ TableTypes /\ DataOK /\ ThreadsOK
  BY TypeStep DEF IInv, DataOK
<1> DEFINE Far(b) == \/ joiner[b].pc \in {"addresses", "sessions", "follows", "done"}
                     \/ joiner[b].pc \in {"list", "write"} /\ joiner[b].it.at > m
           FarNext(b) == \/ joiner'[b].pc \in {"addresses", "sessions", "follows", "done"}
                         \/ joiner'[b].pc \in {"list", "write"} /\ joiner'[b].it.at > m
           b == rm'[n]
<1>1. FarNext(b)
  BY DEF Passed
<1>2. m \in Nat /\ m >= 1 /\ b \in Backups
  BY <1>0 DEF RmTypes
<1>3. n \in DOMAIN rm
  <2>1. SUFFICES ASSUME n \notin DOMAIN rm PROVE FALSE
    OBVIOUS
  <2>2. AddBackup(b)
    BY <1>0, <2>1, RmGrows
  <2>3. joiner'[b].pc = "list" /\ joiner'[b].it.at = 1
    <3>1. capacity' \in Nat
      BY <1>0 DEF RmTypes
    <3> QED
      BY <1>0, <1>2, <2>2, <3>1, AddBackupMoves
  <2> QED
    BY <1>1, <1>2, <2>3
<1>4. rm[n] = b
  BY <1>0, <1>3, RmGrows
<1>5. joiner[b].it.at \in Nat
  BY <1>0, <1>2, IteratorTypes DEF JoinerTypes, Joining
<1> HIDE DEF b
<1>6. ASSUME joiner'[b] = joiner[b]
      PROVE  Far(b)
  BY <1>1, <1>6
<1>7. ASSUME NEW d \in Backups, Joiner(d)
      PROVE  Far(b) \/ (ListConnect(b) /\ joiner[b].it.at = m)
  <2>1. CASE AddBackup(d)
    <3>1. capacity' \in Nat
      BY <1>0 DEF RmTypes
    <3>2. JoinerMoves(d) /\ joiner[d].pc = "add"
      BY <1>0, <2>1, <3>1, AddBackupMoves DEF AddBackup
    <3>3. d # b
      BY <1>0, <1>3, <1>4, <3>2 DEF ThreadsOK, JoinsOK
    <3> QED
      BY <1>2, <1>6, <1>1, <3>2, <3>3 DEF JoinerMoves
  <2>2. CASE ListConnect(d)
    <3>1. JoinerMoves(d) /\ joiner[d].pc = "list" /\ joiner'[d].it.at = joiner[d].it.at + 1
          /\ joiner'[d].pc \in {"list", "write"}
      BY <1>0, <2>2, ListConnectMoves
    <3>2. CASE d = b
      BY <1>1, <1>2, <1>5, <2>2, <3>1, <3>2
    <3> QED
      BY <1>1, <1>2, <3>1, <3>2 DEF JoinerMoves
  <2>3. CASE ListWrite(d)
    <3>1. /\ JoinerMoves(d) /\ joiner[d].pc = "write" /\ joiner'[d].pc = "list"
          /\ joiner'[d].it = joiner[d].it
      BY <1>0, <2>3, JoinGotoMoves DEF ListWrite
    <3> QED
      BY <1>1, <1>2, <3>1 DEF JoinerMoves
  <2>4. CASE ListEnd(d)
    <3>1. JoinerMoves(d) /\ joiner[d].pc = "list" /\ AtEnd(joiner[d].it)
      BY <1>0, <2>4, CopyTableMoves DEF ListEnd
    <3>2. joiner[d].it.at = Len(rm) + 1 /\ Len(rm) \in Nat /\ m <= Len(rm)
      BY <1>0, <1>2, <1>3, <3>1 DEF AtEnd, RmTypes
    <3>3. CASE d = b
      BY <1>2, <3>1, <3>2, <3>3
    <3> QED
      BY <1>1, <1>2, <3>1, <3>3 DEF JoinerMoves
  <2>5. CASE SendCopied(d)
    <3>1. JoinerMoves(d) /\ joiner'[d].pc = joiner[d].pc /\ joiner'[d].it = joiner[d].it
      BY <1>0, <2>5, SendCopiedMoves
    <3> QED
      BY <1>1, <1>2, <3>1 DEF JoinerMoves
  <2>6. CASE CopySent(d)
    <3>1. joiner[d].pc \in {"addresses", "sessions"} \/ joiner[d].pc = "follows"
      BY <2>6 DEF CopySent
    <3>2. JoinerMoves(d)
      <4>1. CASE CopyTable(d, "sessions") \/ CopyTable(d, "follows")
        BY <1>0, <4>1, CopyTableMoves
      <4>2. CASE JoinGoto(d, "done")
        BY <1>0, <4>2, JoinGotoMoves
      <4> QED
        BY <2>6, <4>1, <4>2 DEF CopySent
    <3> QED
      BY <1>1, <1>2, <3>1, <3>2 DEF JoinerMoves
  <2> QED
    BY <1>7, <2>1, <2>2, <2>3, <2>4, <2>5, <2>6 DEF Joiner
<1>8. ASSUME NEW d \in Backups, Join(d)
      PROVE  Far(b)
  <2>1. JoinerMoves(d) /\ joiner'[d].pc = "add"
    BY <1>0, <1>8, JoinGotoMoves DEF Join
  <2> QED
    BY <1>1, <1>2, <2>1 DEF JoinerMoves
<1>9. Far(b) \/ (ListConnect(b) /\ joiner[b].it.at = m)
  BY <1>1, <1>6, <1>7, <1>8, JoinerFrame
<1> QED
  BY <1>3, <1>4, <1>9 DEF Passed

LEMMA ListStep == IInv /\ [Next]_vars => ListOK'
<1> SUFFICES ASSUME IInv, [Next]_vars, ~ refused'
             PROVE  ListOK'
  BY DEF ListOK
<1>0. /\ DataOK /\ ThreadsOK /\ ListOK /\ RmTypes /\ RmTypes' /\ InboxTypes /\ FlagTypes
      /\ JoinerTypes
  BY TypeStep DEF IInv, DataOK
<1>1. ~ refused
  BY RefusedGrows
<1>2. /\ \A k \in DOMAIN rm : k \in DOMAIN rm' /\ rm'[k] = rm[k]
      /\ ToSet(rm) \subseteq ToSet(rm')
  BY <1>0, RmGrows
<1>3. ASSUME NEW n \in DOMAIN rm', NEW m \in 1 .. n, Passed(n, m)'
      PROVE  Covers(rm[m], UpTo(n))'
  <2>1. n \in DOMAIN rm /\ (Passed(n, m) \/ (ListConnect(rm[n]) /\ joiner[rm[n]].it.at = m))
    BY <1>3, PassedStep
  <2>2. m \in DOMAIN rm /\ rm[m] \in Backups /\ rm[n] \in Backups /\ rm'[m] = rm[m]
    BY <1>0, <1>2, <2>1 DEF RmTypes
  <2> DEFINE bs == UpTo(n)
  <2>3. UpTo(n)' = bs
    <3>1. \A i \in 1 .. n : i \in DOMAIN rm
      BY <1>0, <2>1 DEF RmTypes
    <3>2. \A i \in 1 .. n : rm'[i] = rm[i]
      BY <1>2, <3>1
    <3> QED
      BY <3>2 DEF UpTo
  <2>4. bs \subseteq ToSet(rm)
    BY <1>0, <2>1 DEF UpTo, RmTypes, ToSet
  <2>5. CASE Passed(n, m)
    <3>1. Covers(rm[m], bs)
      BY <1>0, <1>1, <2>1, <2>5 DEF ListOK
    <3>2. \A b \in Backups : \A s \in SUBSET ToSet(rm) : Covers(b, s) => Covers(b, s)'
      <4>1. CASE Next
        BY <1>0, <4>1, CoversKept
      <4>2. CASE UNCHANGED vars
        BY <4>2 DEF vars, backupVars, Covers
      <4> QED
        BY <4>1, <4>2
    <3> HIDE DEF bs
    <3> QED
      BY <2>2, <2>3, <2>4, <3>1, <3>2
  <2>6. CASE ListConnect(rm[n]) /\ joiner[rm[n]].it.at = m
    <3> DEFINE t == rm[m]
               u == Unwritten(rm[n])
    <3>1. Connect(t, u)
      BY <1>0, <2>2, <2>6, ListConnectMoves
    <3>2. u \in Messages /\ u.type = "UNWRITTEN" /\ t \in Backups
      BY <2>2, MessageSets DEF Unwritten
    <3> HIDE DEF t, u
    <3>3. inbox'[t] = Append(inbox[t], u)
      BY <1>0, <3>1, <3>2, Connected
    <3>4. copy'[t] = copy[t]
      BY <2>6 DEF ListConnect
    <3>5. \A s : \A d \in Backups : d = t => Covers(d, s)'
      BY <1>0, <3>2, <3>3, <3>4, CoversAppended
    <3> QED
      BY <2>2, <3>2, <3>5 DEF t
  <2> QED
    BY <2>1, <2>5, <2>6
<1>4. ASSUME NEW d \in Backups
      PROVE  /\ copy'[d].backups \subseteq ToSet(rm')
             /\ \A k \in DOMAIN inbox'[d] :
                  inbox'[d][k].type = "LIST_BACKUP" => inbox'[d][k].backups \subseteq ToSet(rm')
  BY <1>0, <1>1, ListsReal
<1> QED
  BY <1>3, <1>4 DEF ListOK

-----------------------------------------------------------------------------
(***************************************************************************)
(* An addition on its way stays on its way until it is in the copy.        *)
(***************************************************************************)
LEMMA ItemFields ==
  ASSUME NEW m \in Items
  PROVE  /\ m \in Messages /\ m \in EventMessages
         /\ m.type \in {"NEW_PROFILE_SESSION", "FOLLOW", "NEW_SESSION"}
         /\ m.type = "NEW_PROFILE_SESSION" => m.user \in Users /\ m.id \in Connections
                                              /\ m = Session(m.user, m.id)
         /\ m.type = "FOLLOW" => m = FollowOf(m.follower, m.followed)
         /\ m.type = "NEW_SESSION" => m = Address(m.id)
<1>1. m \in Messages /\ m \in EventMessages
  BY MessageSets
<1> QED
  BY <1>1, ItemKinds

LEMMA WantedBack ==
  ASSUME CallTypes, TableTypes, EventsOK, [Next]_vars, NEW m \in Items, Wanted(m)', Said(m)
  PROVE  Wanted(m)
<1>1. \A c \in Connections : pc[c] = "done" => pc'[c] = "done" /\ calls'[c] = calls[c]
  BY TablesGrow
<1>2. \A u \in Users : LoggedOut(u) => LoggedOut(u)'
  BY <1>1 DEF LoggedOut
<1> QED
  BY <1>2, ItemFields DEF Wanted

\* What the tables take in is told in the same step.
LEMMA NewlySaid ==
  ASSUME CallTypes, TableTypes, EventsOK, NotifierTypes, [Next]_vars, NEW m \in Items, Said(m)', ~ Said(m),
         NEW k
  PROVE  ToTell(k, m)'
<1>1. ASSUME UNCHANGED tables
      PROVE  FALSE
  BY <1>1, ItemFields DEF Said, tables
<1>2. ASSUME NEW c \in Connections, NEW e \in Events, Notify(e, m)
      PROVE  ToTell(k, m)'
  BY <1>2, Notified, ItemFields DEF ToTell
<1>3. ASSUME NEW c \in Connections, Client(c)
      PROVE  ToTell(k, m)'
  <2>1. << c, "profile" >> \in Events /\ << c, "address" >> \in Events
    BY DEF Events
  <2>2. CASE Login(c)
    <3> DEFINE u == calls[c].user
    <3>1. CASE UNCHANGED sessions_map
      BY <1>1, <2>2, <3>1 DEF Login, tables
    <3>2. CASE /\ sessions_map' = [sessions_map EXCEPT ![u] = Append(@, c)]
               /\ Notify(<< c, "profile" >>, Session(u, c))
      <4>1. m.type = "NEW_PROFILE_SESSION" /\ m = Session(m.user, m.id) /\ m.user \in Users
        <5>1. follows' = follows /\ addresses' = addresses
          BY <2>2 DEF Login
        <5> QED
          BY <5>1, ItemFields DEF Said
      <4>2. m.id \in ToSet(sessions_map'[m.user]) /\ m.id \notin ToSet(sessions_map[m.user])
        BY <4>1 DEF Said
      <4>3. m.user = u /\ sessions_map[u] \in Seq(Connections)
        BY <3>2, <4>1, <4>2 DEF TableTypes
      <4>4. sessions_map'[u] = Append(sessions_map[u], c)
        BY <3>2, <4>1, <4>3 DEF TableTypes
      <4>5. ToSet(Append(sessions_map[u], c)) = ToSet(sessions_map[u]) \cup {c}
        BY <4>3, AppendElements
      <4>6. m.id = c
        BY <4>2, <4>3, <4>4, <4>5
      <4> QED
        BY <1>2, <2>1, <3>2, <4>1, <4>3, <4>6
    <3> QED
      BY <2>2, <3>1, <3>2 DEF Login
  <2>3. CASE Register(c)
    <3>1. /\ addresses' = addresses \cup {c} /\ Notify(<< c, "address" >>, Address(c))
          /\ sessions_map' = sessions_map /\ follows' = follows
      BY <2>3 DEF Register
    <3>2. m = Address(c)
      BY <3>1, ItemFields DEF Said
    <3> QED
      BY <1>2, <2>1, <3>1, <3>2
  <2>4. CASE Follow(c)
    <3> DEFINE u == calls[c].user
               v == calls[c].other
    <3>1. CASE UNCHANGED follows
      BY <1>1, <2>4, <3>1 DEF Follow, tables
    <3>2. CASE follows' = follows \cup {<< u, v >>} /\ Notify(<< c, "profile" >>, FollowOf(u, v))
      <4>1. sessions_map' = sessions_map /\ addresses' = addresses
        BY <2>4 DEF Follow
      <4>2. m.type = "FOLLOW" /\ m = FollowOf(m.follower, m.followed)
        BY <4>1, ItemFields DEF Said
      <4>3. << m.follower, m.followed >> = << u, v >>
        BY <3>2, <4>2 DEF Said
      <4> QED
        BY <1>2, <2>1, <3>2, <4>2, <4>3
    <3> QED
      BY <2>4, <3>1, <3>2 DEF Follow
  <2>5. CASE Logout(c) \/ Receive(c)
    BY <1>1, <2>5 DEF Logout, Receive
  <2> QED
    BY <1>3, <2>2, <2>3, <2>4, <2>5 DEF Client
<1>4. (\E c \in Connections : Client(c)) \/ UNCHANGED tables
  BY TablesFrame
<1> QED
  BY <1>1, <1>3, <1>4

LEMMA CopyKeeps ==
  ASSUME DataOK, TrueOK, [Next]_vars, NEW b \in Backups, NEW m \in Items, InCopy(b, m), Wanted(m)
  PROVE  InCopy(b, m)'
<1>0. InboxTypes /\ CopyTypes
  BY DEF DataOK
<1>1. CASE copy'[b] = copy[b]
  BY <1>1 DEF InCopy
<1>2. CASE Apply(b)
  <2> DEFINE h == inbox[b][1]
  <2>1. h \in Messages /\ h.type # "UNWRITTEN" /\ 1 \in DOMAIN inbox[b] /\ copy[b] \in Stored
    BY <1>0, <1>2, CopyApplied
  <2>2. Said(h)
    BY <2>1 DEF TrueOK
  <2>3. copy'[b].sessions = IF h.type = "NEW_PROFILE_SESSION"
                            THEN [copy[b].sessions EXCEPT ![h.user] = Append(@, h.id)]
                            ELSE IF h.type = "CLOSE_PROFILE_SESSION"
                                 THEN [copy[b].sessions EXCEPT ![h.user] = << >>]
                                 ELSE copy[b].sessions
    BY <1>0, <1>2, CopyApplied
  <2>4. copy[b].follows \subseteq copy'[b].follows /\ copy[b].addresses \subseteq copy'[b].addresses
    BY <1>0, <1>2, CopyApplied
  <2> HIDE DEF h
  <2>6. ASSUME m.type = "NEW_PROFILE_SESSION"
        PROVE  m.id \in ToSet(copy'[b].sessions[m.user])
    <3>1. m.user \in Users /\ m.id \in ToSet(copy[b].sessions[m.user]) /\ ~ LoggedOut(m.user)
      BY <2>6, ItemFields DEF InCopy, Wanted
    <3>2. copy[b].sessions \in [Users -> Seq(Connections)]
      BY <2>1 DEF Stored
    <3>3. CASE copy'[b].sessions[m.user] = copy[b].sessions[m.user]
      BY <3>1, <3>3
    <3>4. CASE h.type = "NEW_PROFILE_SESSION" /\ h.user = m.user
      <4>1. h.id \in Connections
        BY <2>1, <3>4, MessageFields
      <4>2. copy[b].sessions[m.user] \in Seq(Connections)
        BY <3>1, <3>2
      <4>3. copy'[b].sessions[m.user] = Append(copy[b].sessions[m.user], h.id)
        BY <2>3, <3>1, <3>2, <3>4
      <4> QED
        BY <3>1, <4>1, <4>2, <4>3, AppendElements
    <3>5. CASE h.type = "CLOSE_PROFILE_SESSION" /\ h.user = m.user
      BY <2>2, <3>1, <3>5 DEF Said
    <3> QED
      BY <2>3, <3>1, <3>2, <3>3, <3>4, <3>5
  <2>7. /\ m.type = "FOLLOW" => << m.follower, m.followed >> \in copy'[b].follows
        /\ m.type = "NEW_SESSION" => m.id \in copy'[b].addresses
    BY <2>4 DEF InCopy
  <2> QED
    BY <2>6, <2>7 DEF InCopy
<1>3. ASSUME NEW d \in Backups, Apply(d), d # b
      PROVE  copy'[b] = copy[b]
  BY <1>0, <1>3, ApplyMoves
<1> QED
  BY <1>1, <1>2, <1>3, CopyFrame

\* A connection that is not refused is queued, and leaves the queues as they are.
LEMMA QueuedConnect ==
  ASSUME InboxTypes, FlagTypes, NEW t \in Backups, NEW msg \in Messages, Connect(t, msg), ~ refused'
  PROVE  /\ Queued(t, msg)'
         /\ \A b \in Backups : \A m : Queued(b, m) => Queued(b, m)'
<1>1. inbox'[t] = Append(inbox[t], msg) /\ \A d \in Backups : d # t => inbox'[d] = inbox[d]
  BY Connected
<1>2. inbox[t] \in Seq(Messages)
  BY DEF InboxTypes
<1>3. /\ \A i \in DOMAIN inbox[t] : i \in DOMAIN inbox'[t] /\ inbox'[t][i] = inbox[t][i]
      /\ Len(inbox[t]) + 1 \in DOMAIN inbox'[t] /\ inbox'[t][Len(inbox[t]) + 1] = msg
  BY <1>1, <1>2, AppendPlaces
<1>4. \E k \in DOMAIN inbox'[t] : inbox'[t][k] = msg
  BY <1>3
<1>5. ASSUME NEW b \in Backups, NEW m, NEW k \in DOMAIN inbox[b], inbox[b][k] = m
      PROVE  k \in DOMAIN inbox'[b] /\ inbox'[b][k] = m
  BY <1>1, <1>3, <1>5
<1> QED
  BY <1>4, <1>5 DEF Queued

LEMMA QueuedStep ==
  ASSUME DataOK, ThreadsOK, [Next]_vars, ~ refused', NEW b \in Backups, NEW m \in Items, Queued(b, m)
  PROVE  Queued(b, m)' \/ InCopy(b, m)'
<1>0. /\ InboxTypes /\ FlagTypes /\ NotifierTypes /\ JoinerTypes /\ RmTypes /\ CopyTypes
  BY DEF DataOK
<1>1. CASE inbox' = inbox
  BY <1>1 DEF Queued
<1>2. ASSUME NEW e \in Events, NotifySend(e)
      PROVE  Queued(b, m)'
  <2> DEFINE at == IF notifier[e].pc = "begin" THEN 1 ELSE notifier[e].it.at
  <2>1. /\ notifier[e].pc \in {"begin", "send"} /\ at \in DOMAIN rm
        /\ Connect(rm[at], notifier[e].msg)
    BY <1>0, <1>2, NotifySendMoves
  <2> HIDE DEF at
  <2>2. rm[at] \in Backups /\ notifier[e].msg \in Messages
    BY <1>0, <2>1, Told DEF RmTypes
  <2> QED
    BY <1>0, <2>1, <2>2, QueuedConnect
<1>3. ASSUME NEW d \in Backups, ListConnect(d)
      PROVE  Queued(b, m)'
  <2>1. joiner[d].it.at \in DOMAIN rm /\ Connect(rm[joiner[d].it.at], Unwritten(d))
    BY <1>0, <1>3, ListConnectMoves
  <2>2. rm[joiner[d].it.at] \in Backups /\ Unwritten(d) \in Messages
    BY <1>0, <2>1, MessageSets DEF RmTypes
  <2> QED
    BY <1>0, <2>1, <2>2, QueuedConnect
<1>4. ASSUME NEW d \in Backups, ListWrite(d)
      PROVE  Queued(b, m)'
  <2>1. m.type # "UNWRITTEN"
    BY ItemFields
  <2>2. /\ DOMAIN inbox'[b] = DOMAIN inbox[b]
        /\ \A k \in DOMAIN inbox[b] :
             \/ inbox'[b][k] = inbox[b][k]
             \/ inbox[b][k].type = "UNWRITTEN" /\ inbox'[b][k] = ListOf(ToSet(rm))
    BY <1>0, <1>4, Written DEF ListWrite
  <2> QED
    BY <2>1, <2>2 DEF Queued
<1>5. ASSUME NEW d \in Backups, SendCopied(d)
      PROVE  Queued(b, m)'
  <2>1. PICK msg \in joiner[d].todo : msg \in Items /\ Connect(d, msg)
    BY <1>0, <1>5, SendCopiedMoves
  <2>2. msg \in Messages
    BY <2>1, MessageSets
  <2> QED
    BY <1>0, <2>1, <2>2, QueuedConnect
<1>6. ASSUME NEW d \in Backups, Apply(d)
      PROVE  Queued(b, m)' \/ InCopy(b, m)'
  <2>1. PICK k \in DOMAIN inbox[b] : inbox[b][k] = m
    BY DEF Queued
  <2>2. CASE d # b
    <3>1. inbox'[b] = inbox[b]
      BY <1>0, <1>6, <2>2, Taken DEF Apply
    <3> QED
      BY <3>1 DEF Queued
  <2>3. CASE d = b /\ k # 1
    <3>1. k - 1 \in DOMAIN inbox'[b] /\ \A i \in DOMAIN inbox'[b] : inbox'[b][i] = inbox[b][i + 1]
      BY <1>0, <1>6, <2>3, Taken DEF Apply
    <3>2. k - 1 + 1 = k
      BY <1>0 DEF InboxTypes
    <3>3. inbox'[b][k - 1] = m
      BY <2>1, <3>1, <3>2
    <3> QED
      BY <3>1, <3>3 DEF Queued
  <2>4. CASE d = b /\ k = 1
    <3>1. /\ copy[b] \in Stored
          /\ m.type = "NEW_PROFILE_SESSION" =>
               copy'[b].sessions = [copy[b].sessions EXCEPT ![m.user] = Append(@, m.id)]
          /\ m.type = "FOLLOW" => << m.follower, m.followed >> \in copy'[b].follows
          /\ m.type = "NEW_SESSION" => m.id \in copy'[b].addresses
      BY <1>0, <1>6, <2>1, <2>4, CopyApplied
    <3>2. ASSUME m.type = "NEW_PROFILE_SESSION"
          PROVE  m.id \in ToSet(copy'[b].sessions[m.user])
      <4>1. m.user \in Users /\ m.id \in Connections
        BY <3>2, ItemFields
      <4>2. copy[b].sessions \in [Users -> Seq(Connections)]
        BY <3>1 DEF Stored
      <4>3. copy[b].sessions[m.user] \in Seq(Connections)
        BY <4>1, <4>2
      <4>4. copy'[b].sessions[m.user] = Append(copy[b].sessions[m.user], m.id)
        BY <3>1, <3>2, <4>1, <4>2
      <4> QED
        BY <4>1, <4>3, <4>4, AppendElements
    <3> QED
      BY <3>1, <3>2 DEF InCopy
  <2> QED
    BY <2>2, <2>3, <2>4
<1>7. ASSUME NEW c \in Connections, Client(c)
      PROVE  inbox' = inbox
  BY <1>7 DEF Client, Receive, Login, Register, Follow, Logout, backupVars
<1>8. ASSUME NEW e \in Events, NotifyEnd(e)
      PROVE  inbox' = inbox
  BY <1>8 DEF NotifyEnd, backupVars
<1>9. ASSUME NEW d \in Backups, AddBackup(d) \/ ListEnd(d) \/ CopySent(d) \/ Join(d) \/ Listen(d)
      PROVE  inbox' = inbox
  BY <1>9 DEF AddBackup, ListEnd, CopySent, Join, Listen, backupVars
<1>10. HeartbeatErase \/ BreakDown \/ UNCHANGED vars => inbox' = inbox
  BY DEF HeartbeatErase, BreakDown, vars, backupVars
<1> QED
  BY <1>1, <1>2, <1>3, <1>4, <1>5, <1>6, <1>7, <1>8, <1>9, <1>10
  DEF Next, Notifier, Joiner, Backup

\* A request does not touch the events that are being told.
LEMMA ClientTells ==
  ASSUME NotifierTypes, EventsOK, NEW c \in Connections, Client(c),
         NEW e \in Events, notifier[e].pc \in {"begin", "send"}
  PROVE  notifier'[e] = notifier[e]
<1>1. << c, "profile" >> \in Events /\ << c, "address" >> \in Events
  BY DEF Events
<1>2. ASSUME NEW f \in Events, notifier[f].pc = "idle", NEW msg, Notify(f, msg)
      PROVE  notifier'[e] = notifier[e]
  BY <1>2 DEF Notify, NotifierTypes
<1>3. CASE Login(c)
  BY <1>1, <1>2, <1>3 DEF Login, EventsOK
<1>4. CASE Register(c)
  BY <1>1, <1>2, <1>4 DEF Register, EventsOK
<1>5. CASE Follow(c)
  BY <1>1, <1>2, <1>5 DEF Follow, EventsOK
<1>6. CASE Logout(c)
  BY <1>1, <1>2, <1>6 DEF Logout, EventsOK
<1>7. CASE Receive(c)
  BY <1>7 DEF Receive
<1> QED
  BY <1>3, <1>4, <1>5, <1>6, <1>7 DEF Client

\* The thread of an event passes a backup by connecting to it.
LEMMA ToTellStep ==
  ASSUME DataOK, ThreadsOK, [Next]_vars, ~ refused', NEW k \in DOMAIN rm, NEW m \in Items, ToTell(k, m)
  PROVE  ToTell(k, m)' \/ Queued(rm[k], m)'
<1>0. /\ InboxTypes /\ FlagTypes /\ NotifierTypes /\ RmTypes /\ EventsOK /\ ThreadsOK
  BY DEF DataOK, ThreadsOK
<1>1. PICK e \in Events : /\ notifier[e].msg = m
                          /\ \/ notifier[e].pc = "begin"
                             \/ notifier[e].pc = "send" /\ notifier[e].it.at <= k
  BY DEF ToTell
<1>2. CASE notifier'[e] = notifier[e]
  BY <1>1, <1>2 DEF ToTell
<1>3. k \in Nat /\ k >= 1 /\ k <= Len(rm) /\ rm[k] \in Backups
  BY <1>0 DEF RmTypes
<1>4. CASE NotifySend(e)
  <2> DEFINE at == IF notifier[e].pc = "begin" THEN 1 ELSE notifier[e].it.at
  <2>1. /\ at \in DOMAIN rm /\ at \in Nat /\ Connect(rm[at], m)
        /\ notifier'[e].pc = "send" /\ notifier'[e].it.at = at + 1 /\ notifier'[e].msg = m
    BY <1>0, <1>1, <1>4, NotifySendMoves
  <2>2. at <= k
    BY <1>1, <1>3
  <2> HIDE DEF at
  <2>3. CASE at = k
    <3>1. m \in Messages
      BY ItemFields
    <3>2. \A b \in Backups : b = rm[k] => Queued(b, m)'
      BY <1>0, <1>3, <2>1, <2>3, <3>1, QueuedConnect
    <3>3. rm' = rm
      BY <1>4 DEF NotifySend, list
    <3> QED
      BY <1>3, <3>2, <3>3
  <2>4. CASE at # k
    BY <1>3, <2>1, <2>2, <2>4 DEF ToTell
  <2> QED
    BY <2>3, <2>4
\* Its loop ends behind the last backup.
<1>5. CASE NotifyEnd(e)
  <2>1. AtEnd(LoopOf(e))
    BY <1>5 DEF NotifyEnd
  <2>2. LoopOf(e).at <= k
    BY <1>1, <1>3 DEF LoopOf, Begin
  <2>3. LoopOf(e).at = Len(rm) + 1 /\ Len(rm) \in Nat
    BY <1>0, <2>1 DEF AtEnd, RmTypes
  <2> QED
    BY <1>3, <2>2, <2>3
<1>6. ASSUME NEW f \in Events, Notifier(f), f # e
      PROVE  notifier'[e] = notifier[e]
  <2>1. CASE NotifySend(f)
    BY <1>0, <1>6, <2>1, NotifySendMoves
  <2>2. CASE NotifyEnd(f)
    BY <1>0, <1>6, <2>2, NotifyEndMoves
  <2> QED
    BY <1>6, <2>1, <2>2 DEF Notifier
<1>7. ASSUME NEW c \in Connections, Client(c)
      PROVE  notifier'[e] = notifier[e]
  BY <1>0, <1>1, <1>7, ClientTells
<1>8. ASSUME NEW d \in Backups, Joiner(d) \/ Backup(d)
      PROVE  notifier' = notifier
  BY <1>8 DEF Joiner, AddBackup, ListConnect, ListWrite, ListEnd, SendCopied, CopySent, Backup, Join,
     Listen, Apply
<1>9. HeartbeatErase \/ BreakDown \/ UNCHANGED vars => notifier' = notifier
  BY DEF HeartbeatErase, BreakDown, vars
<1> QED
  BY <1>2, <1>4, <1>5, <1>6, <1>7, <1>8, <1>9 DEF Next, Notifier

\* The copy of a table says all that is in it.
LEMMA CopiedHas ==
  ASSUME NEW m \in Items, Said(m)
  PROVE  /\ m.type = "NEW_SESSION" => m \in Copied["addresses"]
         /\ m.type = "NEW_PROFILE_SESSION" => m \in Copied["sessions"]
         /\ m.type = "FOLLOW" => m \in Copied["follows"]
<1>1. CASE m.type = "NEW_SESSION"
  BY <1>1, ItemFields DEF Copied, Said
<1>2. CASE m.type = "NEW_PROFILE_SESSION"
  <2>1. m.user \in Users /\ m.id \in ToSet(sessions_map[m.user]) /\ m = Session(m.user, m.id)
    BY <1>2, ItemFields DEF Said
  <2> DEFINE of == [u \in Users |-> { Session(u, id) : id \in ToSet(sessions_map[u]) }]
  <2>2. m \in of[m.user]
    BY <2>1
  <2>3. Copied["sessions"] = UNION { of[u] : u \in Users }
    BY DEF Copied
  <2> HIDE DEF of
  <2> QED
    BY <1>2, <2>1, <2>2, <2>3
<1>3. CASE m.type = "FOLLOW"
  <2> DEFINE p == << m.follower, m.followed >>
  <2>1. p \in follows /\ m = FollowOf(p[1], p[2])
    BY <1>3, ItemFields DEF Said
  <2>2. Copied["follows"] = { FollowOf(q[1], q[2]) : q \in follows }
    BY DEF Copied
  <2> HIDE DEF p
  <2> QED
    BY <1>3, <2>1, <2>2
<1> QED
  BY <1>1, <1>2, <1>3, ItemFields

\* A joiner takes m from the tables to its copy, and from there to the queue.
LEMMA JoinerStep ==
  ASSUME DataOK, ThreadsOK, [Next]_vars, ~ refused', NEW b \in Backups, NEW m \in Items, Said(m),
         ToCopy(b, m) \/ m \in joiner[b].todo
  PROVE  ToCopy(b, m)' \/ m \in joiner'[b].todo \/ Queued(b, m)'
<1>0. /\ InboxTypes /\ FlagTypes /\ JoinerTypes /\ RmTypes /\ TableTypes /\ JoinsOK
  BY DEF DataOK, ThreadsOK
<1>1. CASE joiner'[b] = joiner[b]
  BY <1>1 DEF ToCopy
<1>2. ASSUME NEW d \in Backups, JoinerMoves(d), d # b
      PROVE  joiner'[b] = joiner[b]
  BY <1>2 DEF JoinerMoves
<1>3. m.type \in {"NEW_PROFILE_SESSION", "FOLLOW", "NEW_SESSION"}
  BY ItemFields
<1>4. ASSUME NEW d \in Backups, Joiner(d)
      PROVE  ToCopy(b, m)' \/ m \in joiner'[b].todo \/ Queued(b, m)'
  <2>1. CASE AddBackup(d)
    <3>1. capacity' \in Nat
      BY <1>0, <2>1 DEF AddBackup, RmTypes
    <3>2. JoinerMoves(d) /\ joiner'[d].pc = "list"
      BY <1>0, <2>1, <3>1, AddBackupMoves
    <3> QED
      BY <1>1, <1>2, <3>2 DEF ToCopy
  <2>2. CASE ListConnect(d)
    <3>1. JoinerMoves(d) /\ joiner'[d].pc \in {"list", "write"}
      BY <1>0, <2>2, ListConnectMoves
    <3> QED
      BY <1>1, <1>2, <3>1 DEF ToCopy
  <2>3. CASE ListWrite(d)
    <3>1. JoinerMoves(d) /\ joiner'[d].pc = "list"
      BY <1>0, <2>3, JoinGotoMoves DEF ListWrite
    <3> QED
      BY <1>1, <1>2, <3>1 DEF ToCopy
  <2>4. CASE ListEnd(d)
    <3>1. /\ joiner[d].pc = "list" /\ JoinerMoves(d) /\ joiner'[d].pc = "addresses"
          /\ joiner'[d].todo = Copied["addresses"]
      BY <1>0, <2>4, CopyTableMoves DEF ListEnd
    <3>2. m.type = "NEW_SESSION" => m \in Copied["addresses"]
      BY CopiedHas
    <3> QED
      BY <1>1, <1>2, <3>1, <3>2 DEF ToCopy
  <2>5. CASE SendCopied(d)
    <3>1. PICK msg \in joiner[d].todo :
            /\ msg \in Items /\ Connect(d, msg) /\ JoinerMoves(d)
            /\ joiner'[d].pc = joiner[d].pc /\ joiner'[d].todo = joiner[d].todo \ {msg}
      BY <1>0, <2>5, SendCopiedMoves
    <3>2. Queued(d, msg)'
      <4>1. msg \in Messages
        BY <3>1, MessageSets
      <4> QED
        BY <1>0, <3>1, <4>1, QueuedConnect
    <3>3. CASE d = b
      BY <3>1, <3>2, <3>3 DEF ToCopy
    <3> QED
      BY <1>1, <1>2, <3>1, <3>3
  <2>6. CASE CopySent(d)
    <3>1. ASSUME d = b, joiner[b].pc = "addresses", CopyTable(b, "sessions"), joiner[b].todo = {}
          PROVE  ToCopy(b, m)' \/ m \in joiner'[b].todo
      <4>1. joiner'[b].pc = "sessions" /\ joiner'[b].todo = Copied["sessions"]
        BY <1>0, <3>1, CopyTableMoves
      <4>2. m.type # "NEW_SESSION"
        BY <3>1 DEF ToCopy
      <4>3. m.type = "NEW_PROFILE_SESSION" => m \in Copied["sessions"]
        BY CopiedHas
      <4> QED
        BY <1>3, <4>1, <4>2, <4>3 DEF ToCopy
    <3>2. ASSUME d = b, joiner[b].pc = "sessions", CopyTable(b, "follows"), joiner[b].todo = {}
          PROVE  m \in joiner'[b].todo
      <4>1. joiner'[b].todo = Copied["follows"]
        BY <1>0, <3>2, CopyTableMoves
      <4>2. m.type = "FOLLOW"
        BY <3>2 DEF ToCopy
      <4> QED
        BY <4>1, <4>2, CopiedHas
    <3>3. ~ (d = b /\ joiner[b].pc = "follows")
      BY <2>6 DEF ToCopy, CopySent
    <3>4. JoinerMoves(d)
      <4>1. CASE CopyTable(d, "sessions") \/ CopyTable(d, "follows")
        BY <1>0, <4>1, CopyTableMoves
      <4>2. CASE JoinGoto(d, "done")
        BY <1>0, <4>2, JoinGotoMoves
      <4> QED
        BY <2>6, <4>1, <4>2 DEF CopySent
    <3> QED
      BY <1>1, <1>2, <2>6, <3>1, <3>2, <3>3, <3>4 DEF CopySent
  <2> QED
    BY <1>4, <2>1, <2>2, <2>3, <2>4, <2>5, <2>6 DEF Joiner
<1>5. ASSUME NEW d \in Backups, Join(d)
      PROVE  ToCopy(b, m)' \/ m \in joiner'[b].todo
  <2>1. JoinerMoves(d) /\ joiner[d].pc = "idle"
    BY <1>0, <1>5, JoinGotoMoves DEF Join, JoinsOK
  <2>2. d # b
    BY <1>0, <2>1 DEF ToCopy, JoinsOK
  <2> QED
    BY <1>2, <2>1, <2>2 DEF ToCopy
<1> QED
  BY <1>1, <1>4, <1>5, JoinerFrame

LEMMA CrashedGrows ==
  ASSUME [Next]_vars, crashed
  PROVE  crashed'
<1>1. UNCHANGED vars
  BY DEF Next
<1> QED
  BY <1>1 DEF vars

LEMMA DeliveryStep == IInv /\ [Next]_vars => DeliveryOK'
<1> SUFFICES ASSUME IInv, [Next]_vars, ~ refused', ~ crashed',
                    NEW k \in DOMAIN rm', NEW m \in Items, Wanted(m)'
             PROVE  Comes(k, m)'
  BY DEF DeliveryOK
<1>0. /\ DataOK /\ ThreadsOK /\ TrueOK /\ DeliveryOK /\ CallTypes /\ TableTypes /\ EventsOK
      /\ NotifierTypes /\ JoinerTypes /\ RmTypes
  BY DEF IInv, DataOK, ThreadsOK
<1>1. ~ refused /\ ~ crashed
  BY RefusedGrows, CrashedGrows
<1>2. CASE ~ Said(m)
  <2>1. Said(m)'
    BY DEF Wanted
  <2> QED
    BY <1>0, <1>2, <2>1, NewlySaid DEF Comes
<1>3. ASSUME NEW b \in Backups, AddBackup(b), rm'[k] = b
      PROVE  Comes(k, m)'
  <2>1. capacity' \in Nat
    BY <1>0, <1>3 DEF AddBackup, RmTypes
  <2>2. joiner'[b].pc = "list"
    BY <1>0, <1>3, <2>1, AddBackupMoves
  <2> QED
    BY <1>3, <2>2 DEF Comes, ToCopy
<1>4. CASE Said(m) /\ k \in DOMAIN rm
  <2>1. Wanted(m)
    BY <1>0, <1>4, WantedBack
  <2>2. Comes(k, m)
    BY <1>0, <1>1, <1>4, <2>1 DEF DeliveryOK
  <2> DEFINE b == rm[k]
  <2>3. b \in Backups /\ rm'[k] = b
    BY <1>0, <1>4, RmGrows DEF RmTypes
  <2>4. InCopy(b, m) \/ Queued(b, m) \/ m \in joiner[b].todo \/ ToCopy(b, m) \/ ToTell(k, m)
    BY <2>2 DEF Comes
  <2>5. \A d \in Backups : InCopy(d, m) => InCopy(d, m)'
    BY <1>0, <2>1, CopyKeeps
  <2>6. \A d \in Backups : Queued(d, m) => Queued(d, m)' \/ InCopy(d, m)'
    BY <1>0, QueuedStep
  <2>7. \A d \in Backups : ToCopy(d, m) \/ m \in joiner[d].todo =>
          ToCopy(d, m)' \/ m \in joiner'[d].todo \/ Queued(d, m)'
    BY <1>0, <1>4, JoinerStep
  <2>8. ToTell(k, m) => ToTell(k, m)' \/ \A d \in Backups : d = b => Queued(d, m)'
    <3>1. ASSUME ToTell(k, m) PROVE ToTell(k, m)' \/ Queued(rm[k], m)'
      BY <1>0, <1>4, <3>1, ToTellStep
    <3> QED
      BY <2>3, <3>1
  <2> HIDE DEF b
  <2>9. \E d \in Backups : d = b /\ \/ InCopy(d, m)' \/ Queued(d, m)' \/ m \in joiner'[d].todo
                                    \/ ToCopy(d, m)' \/ ToTell(k, m)'
    BY <2>3, <2>4, <2>5, <2>6, <2>7, <2>8
  <2> QED
    BY <2>3, <2>9 DEF Comes
<1>5. k \in DOMAIN rm \/ \E b \in Backups : AddBackup(b) /\ rm'[k] = b
  BY <1>0, RmGrows
<1> QED
  BY <1>2, <1>3, <1>4, <1>5

-----------------------------------------------------------------------------
(***************************************************************************)
(* The inductive invariant.                                                *)
(***************************************************************************)
LEMMA InitIInv == Init => IInv
<1> SUFFICES ASSUME Init PROVE IInv
  OBVIOUS
<1>1. << >> \in Seq(Backups) /\ << >> \in Seq(Connections) /\ << >> \in Seq(Messages) /\ Len(<< >>) = 0
      /\ DOMAIN << >> = {} /\ ToSet(<< >>) = {}
  BY DEF ToSet
<1>2. CallTypes /\ TableTypes /\ FlagTypes
  BY <1>1 DEF Init, CallTypes, TableTypes, FlagTypes
<1>3. RmTypes
  BY <1>1 DEF Init, RmTypes, IsInjective
<1>4. NotifierTypes
  BY IteratorTypes DEF Init, NotifierTypes, Telling
<1>5. JoinerTypes
  BY IteratorTypes DEF Init, JoinerTypes, Joining
<1>6. InboxTypes
  <2>1. Backlog \in Nat
    BY ReplicationAssumption
  <2> QED
    BY <1>1, <2>1 DEF Init, InboxTypes
<1>7. CopyTypes
  BY <1>1 DEF Init, CopyTypes, Stored
<1>8. ThreadsOK
  <2>1. \A c \in Connections : << c, "profile" >> \in Events /\ << c, "address" >> \in Events
    BY DEF Events
  <2>2. EventsOK
    BY <2>1 DEF Init, EventsOK
  <2>3. JoinsOK
    BY <1>1 DEF Init, JoinsOK
  <2> QED
    BY <2>2, <2>3 DEF ThreadsOK
<1>9. TrueOK
  <2>1. Said(NoMessage)
    BY DEF Said, NoMessage
  <2>2. \A e \in Events : Said(notifier[e].msg)
    BY <2>1 DEF Init
  <2>3. \A b \in Backups : joiner[b].todo = {} /\ DOMAIN inbox[b] = {}
    BY <1>1 DEF Init
  <2>4. NothingInvented
    BY <1>1 DEF Init, NothingInvented
  <2> QED
    BY <2>2, <2>3, <2>4 DEF TrueOK
<1>10. ListOK
  <2>1. DOMAIN rm = {} /\ \A b \in Backups : DOMAIN inbox[b] = {} /\ copy[b].backups = {}
    BY <1>1 DEF Init
  <2> QED
    BY <2>1 DEF ListOK
<1>11. DeliveryOK
  BY <1>1 DEF Init, DeliveryOK
<1> QED
  BY <1>2, <1>3, <1>4, <1>5, <1>6, <1>7, <1>8, <1>9, <1>10, <1>11 DEF IInv, DataOK

LEMMA NextIInv == IInv /\ [Next]_vars => IInv'
  BY TypeStep, EventsStep, JoinsStep, TrueStep, ListStep, DeliveryStep DEF IInv, ThreadsOK

LEMMA Inductive == Spec => []IInv
  BY InitIInv, NextIInv, PTL DEF Spec

-----------------------------------------------------------------------------
(***************************************************************************)
(* At every moment: the tables and lists have their types, a backup is in  *)
(* rm at most once, and its socket never holds more than Backlog           *)
(* connections.                                                            *)
(***************************************************************************)
THEOREM TypeCorrect == Spec => []TypeOK
<1>1. IInv => TypeOK
  BY TypesHold DEF IInv
<1> QED
  BY <1>1, Inductive, PTL

(***************************************************************************)
(* However its queue fills from the events and from the copies sent by the *)
(* thread of its join, a backup holds no session and no follow that the    *)
(* primary has not accepted: each message says what the tables hold when   *)
(* it is handed over, and they hold it from then on.                       *)
(***************************************************************************)
THEOREM CopiesAreTrue == Spec => []NothingInvented
<1>1. IInv => NothingInvented
  BY DEF IInv, TrueOK
<1> QED
  BY <1>1, Inductive, PTL

(***************************************************************************)
(* Whatever the interleaving of requests, of their events and of joins,    *)
(* nothing falls between the events and the copies: once all is sent every *)
(* backup of rm has the follows, the addresses, and the sessions of every  *)
(* user who has not logged out, unless a connection was refused.           *)
(***************************************************************************)
THEOREM NothingFallsBetween == Spec => []AdditionsReachBackups
<1>1. ASSUME IInv, Quiet, ~ refused, ~ crashed, NEW b \in ToSet(rm)
      PROVE  /\ copy[b].follows = follows
             /\ copy[b].addresses = addresses
             /\ \A u \in Users : ~ LoggedOut(u) =>
                  ToSet(sessions_map[u]) \subseteq ToSet(copy[b].sessions[u])
  <2>0. DataOK /\ ThreadsOK /\ TrueOK /\ DeliveryOK
    BY <1>1 DEF IInv
  <2>1. PICK k \in DOMAIN rm : rm[k] = b
    BY DEF ToSet
  <2>2. b \in Backups
    BY <2>0, <2>1 DEF DataOK, RmTypes
  <2>3. ASSUME NEW m \in Items, Wanted(m)
        PROVE  InCopy(b, m)
    <3>1. Comes(k, m)
      BY <1>1, <2>0, <2>1, <2>3 DEF DeliveryOK
    <3>2. ~ Queued(b, m)
      BY <1>1, <2>2 DEF Quiet, Queued
    <3>3. m \notin joiner[b].todo /\ ~ ToCopy(b, m)
      BY <1>1, <2>0, <2>2 DEF Quiet, ToCopy, ThreadsOK, JoinsOK
    <3>4. ~ ToTell(k, m)
      BY <1>1 DEF Quiet, ToTell
    <3> QED
      BY <2>1, <3>1, <3>2, <3>3, <3>4 DEF Comes
  <2>4. NothingInvented
    BY <2>0 DEF TrueOK
  <2>5. ASSUME NEW p \in follows
        PROVE  p \in copy[b].follows
    <3>1. p[1] \in Users /\ p[2] \in Users /\ p = << p[1], p[2] >>
      BY <2>0, <2>5 DEF DataOK, TableTypes
    <3>2. FollowOf(p[1], p[2]) \in Items /\ Wanted(FollowOf(p[1], p[2]))
      BY <2>5, <3>1, MessageSets DEF FollowOf, Wanted, Said
    <3>3. InCopy(b, FollowOf(p[1], p[2]))
      BY <2>3, <3>2
    <3> QED
      BY <3>1, <3>3 DEF InCopy, FollowOf
  <2>6. ASSUME NEW id \in addresses
        PROVE  id \in copy[b].addresses
    <3>1. id \in Connections
      BY <2>0, <2>6 DEF DataOK, TableTypes
    <3>2. Address(id) \in Items /\ Wanted(Address(id))
      BY <2>6, <3>1, MessageSets DEF Address, Wanted, Said
    <3>3. InCopy(b, Address(id))
      BY <2>3, <3>2
    <3> QED
      BY <3>3 DEF InCopy, Address
  <2>7. ASSUME NEW u \in Users, ~ LoggedOut(u), NEW id \in ToSet(sessions_map[u])
        PROVE  id \in ToSet(copy[b].sessions[u])
    <3>1. id \in Connections
      BY <2>0, <2>7, ListElements DEF DataOK, TableTypes
    <3>2. Session(u, id) \in Items /\ Wanted(Session(u, id))
      BY <2>7, <3>1, MessageSets DEF Session, Wanted, Said
    <3>3. InCopy(b, Session(u, id))
      BY <2>3, <3>2
    <3> QED
      BY <3>3 DEF InCopy, Session
  <2> QED
    BY <2>2, <2>4, <2>5, <2>6, <2>7 DEF NothingInvented
<1>2. IInv => AdditionsReachBackups
  BY <1>1 DEF AdditionsReachBackups
<1> QED
  BY <1>2, Inductive, PTL

(***************************************************************************)
(* However the lists of joins at the same time overtake each other, once   *)
(* all is sent every backup of rm has all the others in its list, unless a *)
(* connection was refused: the joiner of the last backup has passed every  *)
(* backup, and what it brought there was built when rm was complete.       *)
(***************************************************************************)
THEOREM LastListWins == Spec => []ListsAgree
<1>1. ASSUME IInv, Quiet, ~ refused, NEW b \in ToSet(rm)
      PROVE  copy[b].backups = ToSet(rm) \ {b}
  <2>0. DataOK /\ ThreadsOK /\ ListOK
    BY <1>1 DEF IInv
  <2>1. PICK m \in DOMAIN rm : rm[m] = b
    BY DEF ToSet
  <2> DEFINE n == Len(rm)
  <2>2. DOMAIN rm = 1 .. n /\ n \in DOMAIN rm /\ m \in 1 .. n /\ rm[n] \in Backups /\ b \in Backups
    BY <2>0, <2>1 DEF DataOK, RmTypes
  <2>3. Passed(n, m)
    <3>1. joiner[rm[n]].pc # "idle"
      BY <2>0, <2>2 DEF ThreadsOK, JoinsOK
    <3> QED
      BY <1>1, <2>2, <3>1 DEF Quiet, Passed
  <2>4. Covers(b, UpTo(n))
    BY <1>1, <2>0, <2>1, <2>2, <2>3 DEF ListOK
  <2>5. UpTo(n) = ToSet(rm)
    BY <2>2 DEF UpTo, ToSet
  <2>6. DOMAIN inbox[b] = {}
    BY <1>1, <2>2 DEF Quiet
  <2>7. ToSet(rm) \ {b} \subseteq copy[b].backups
    BY <2>4, <2>5, <2>6 DEF Covers
  <2>8. copy[b].backups \subseteq ToSet(rm) /\ b \notin copy[b].backups
    BY <1>1, <2>0, <2>2 DEF ListOK, DataOK, CopyTypes
  <2> QED
    BY <2>7, <2>8
<1>2. IInv => ListsAgree
  BY <1>1 DEF ListsAgree
<1> QED
  BY <1>2, Inductive, PTL

=============================================================================

--------------------- MODULE ProfileSessionManagerProofs ---------------------
(***************************************************************************)
(* The safety properties of ProfileSessionManager, and that it implements  *)
(* ProfileStore, for any number of users, connections and session ids.     *)
(*                                                                         *)
(* The inductive invariant has four parts:                                 *)
(*   TypeOK    the types, with both semaphores binary;                     *)
(*   PlaceOK   which requests may be at which statement;                   *)
(*   LockOK    what the semaphores and the count say about the threads;    *)
(*   StoreOK   what a thread between two statements of a critical section  *)
(*             still knows about the maps.                                 *)
(***************************************************************************)
EXTENDS ProfileSessionManager, ProfileOpsProofs, FiniteSetTheorems

-----------------------------------------------------------------------------
PlaceOK ==
  \A c \in Connections :
    /\ pc[c] # "idle" => req[c] \in RequestsOf(c)
    /\ pc[c] \in {"compare", "push2"} => req[c].op = "follow"
    /\ pc[c] \in {"check", "push"}    => req[c].op \in {"login", "follow"}
    /\ pc[c] = "erase"                => req[c].op = "logout"
    /\ pc[c] \in {"lock"} \cup WriterPCs => /\ req[c].op \in WriteOps
                                            /\ req[c].op = "follow" =>
                                                 req[c].user # req[c].other
    /\ pc[c] \in {"enter"} \cup ReaderPCs \cup CountPCs \cup UncountPCs =>
         req[c].op \in ReadOps

HoldsMutex(c, l) == pc[c] \in CountPCs \cup UncountPCs /\ Uses(c, l)

\* The readers that readersCount counts.
Counted(l) == { c \in Connections :
                  /\ pc[c] \in {"first", "admit", "read", "leave", "uncount"}
                  /\ Uses(c, l) }

\* The readers for which the first of them took the write semaphore.
InGroup(c, l) == /\ pc[c] \in {"admit", "read", "leave", "uncount", "last"}
                 /\ Uses(c, l)

MutexOK(l) ==
  /\ \A c \in Connections : HoldsMutex(c, l) => readersMutex[l] = 0
  /\ \A c, d \in Connections : HoldsMutex(c, l) /\ HoldsMutex(d, l) => c = d

CountOK(l) ==
  /\ readersCount[l] = Cardinality(Counted(l))
  /\ \A c \in Connections : pc[c] = "last" /\ Uses(c, l) => Counted(l) = {}

WriteOK(l) ==
  /\ \A c \in Connections : Writing(c, l) \/ InGroup(c, l) => writeSem[l] = 0
  /\ \A c, d \in Connections : Writing(c, l) => /\ ~ InGroup(d, l)
                                                /\ Writing(d, l) => c = d

LockOK == \A l \in Locks : MutexOK(l) /\ CountOK(l) /\ WriteOK(l)

PushOK(c) ==
  /\ req[c].op = "login"  => Len(sessions_map[req[c].user]) < SESSIONS_LIMIT
  /\ req[c].op = "follow" => req[c].other \notin ToSet(followers_map[req[c].user])

InverseUpToPush ==
  \A u, v \in Users :
    v \in ToSet(followers_map[u]) <=>
      \/ u \in ToSet(followed_by_map[v])
      \/ \E c \in Connections : pc[c] = "push2" /\ req[c].user = u /\ req[c].other = v

StoreOK ==
  /\ \A c \in Connections : pc[c] = "push" => PushOK(c)
  /\ SessionLimit
  /\ FollowOnce
  /\ InverseUpToPush

IInv == TypeOK /\ PlaceOK /\ LockOK /\ StoreOK

-----------------------------------------------------------------------------
(***************************************************************************)
(* Facts about the helpers.                                                *)
(***************************************************************************)
LEMMA CodeTypes ==
  /\ 0 \in Codes
  /\ ERROR_FOLLOW_YOURSELF \in Codes
  /\ \A s, id : LoginCode(s, id) \in Codes
  /\ \A s, a : FollowCode(s, a) \in Codes
  BY DEF Codes, LoginCode, FollowCode, ERROR_FOLLOW_YOURSELF, ERROR_SESSIONS_LIMIT,
         ERROR_SESSION_ALREADY_STARTED, ERROR_ALREADY_FOLLOWING_ACCOUNT

LEMMA LockTypes == \A op : LockOf(op) \in Locks
  BY DEF LockOf, Locks

LEMMA RequestTypes ==
  ASSUME NEW c \in Connections, NEW r \in RequestsOf(c)
  PROVE  /\ r \in Request
         /\ r.op \in WriteOps \cup ReadOps
         /\ r.user \in Users
         /\ r.other \in Users
         /\ r.id \in SessionIds
  BY DEF RequestsOf, Request


-----------------------------------------------------------------------------
(***************************************************************************)
(* What a thread may assume of its own request and semaphores, spelled out *)
(* once for the lemmas below.                                              *)
(***************************************************************************)
LEMMA OwnRequest ==
  ASSUME PlaceOK, NEW c \in Connections, pc[c] # "idle"
  PROVE  /\ req[c] \in Request
         /\ req[c].op \in WriteOps \cup ReadOps
         /\ req[c].user \in Users
         /\ req[c].other \in Users
         /\ req[c].id \in SessionIds
  BY RequestTypes DEF PlaceOK

LEMMA OwnSemaphores ==
  ASSUME TypeOK, LockOK, NEW c \in Connections
  PROVE  LET l == LockOf(req[c].op)
         IN  /\ pc[c] = "unlock" \/ pc[c] = "last" => writeSem[l] = 0
             /\ pc[c] \in {"admit", "released"} => readersMutex[l] = 0
             /\ pc[c] = "uncount" => readersCount[l] > 0
<1> DEFINE l == LockOf(req[c].op)
<1>1. l \in Locks
  BY LockTypes
<1>2. pc[c] = "unlock" \/ pc[c] = "last" => writeSem[l] = 0
  BY <1>1 DEF LockOK, WriteOK, Writing, InGroup, WriterPCs, Uses
<1>3. pc[c] \in {"admit", "released"} => readersMutex[l] = 0
  BY <1>1 DEF LockOK, MutexOK, HoldsMutex, CountPCs, UncountPCs, Uses
<1>4. ASSUME pc[c] = "uncount" PROVE readersCount[l] > 0
  <2>1. c \in Counted(l) /\ Counted(l) \subseteq Connections
    BY <1>4 DEF Counted, Uses
  <2>2. IsFiniteSet(Counted(l))
    BY <2>1, ConnectionsFinite, FS_Subset
  <2>3. Cardinality(Counted(l)) \in Nat /\ Cardinality(Counted(l)) # 0
    BY <2>1, <2>2, FS_CardinalityType, FS_EmptySet
  <2> QED BY <1>1, <2>3 DEF LockOK, CountOK
<1> QED BY <1>2, <1>3, <1>4

-----------------------------------------------------------------------------
(***************************************************************************)
(* Every step keeps the types.                                             *)
(***************************************************************************)
LEMMA TypeStep ==
  ASSUME TypeOK, PlaceOK, LockOK, NEW c \in Connections, Thread(c)
  PROVE  TypeOK'
<1>req. pc[c] # "idle" => /\ req[c] \in Request
                          /\ req[c].op \in WriteOps \cup ReadOps
                          /\ req[c].user \in Users
                          /\ req[c].other \in Users
                          /\ req[c].id \in SessionIds
  BY OwnRequest
<1>sem. LET l == LockOf(req[c].op)
        IN  /\ pc[c] = "unlock" \/ pc[c] = "last" => writeSem[l] = 0
            /\ pc[c] \in {"admit", "released"} => readersMutex[l] = 0
            /\ pc[c] = "uncount" => readersCount[l] > 0
  BY OwnSemaphores
<1>1. CASE Call(c)
  BY <1>1, RequestTypes DEF Call, TypeOK, Entry, ReadOps, Goto, At, PCs, lockVars, followVars, eventVars
<1>2. CASE FollowYourself(c)
  BY <1>2, CodeTypes DEF FollowYourself, TypeOK, Entry, ReadOps, Goto, At, PCs, lockVars, followVars, eventVars
<1>3. CASE LockWrite(c)
  BY <1>3, LockTypes DEF LockWrite, TypeOK, Goto, Wait, At, PCs, WriterPCs, followVars, eventVars
<1>4. CASE Check(c)
  BY <1>4, CodeTypes DEF Check, TypeOK, Goto, At, PCs, WriterPCs, CodeOf, lockVars, followVars, eventVars
<1>5. CASE PushSession(c)
  BY <1>5, <1>req, SMTT(30) DEF PushSession, TypeOK, Goto, At, PCs, WriterPCs, lockVars, followVars, eventVars
<1>6. CASE EraseSessions(c)
  BY <1>6, <1>req, EraseTypes DEF EraseSessions, TypeOK, Goto, At, PCs, WriterPCs, lockVars, followVars, eventVars
<1>7. CASE PushFollower(c)
  BY <1>7, <1>req DEF PushFollower, TypeOK, Goto, At, PCs, WriterPCs, lockVars, followVars, eventVars
<1>8. CASE PushFollowed(c)
  BY <1>8, <1>req DEF PushFollowed, TypeOK, Goto, At, PCs, WriterPCs, lockVars, followVars, eventVars
<1>9. CASE SetArg(c)
  <2>1. pc[c] \in Fields /\ req[c].op \in WriteOps
    BY <1>9 DEF SetArg, Fields, PlaceOK, WriterPCs
  <2>2. ArgOf(req[c], pc[c]) \in Text
    BY <1>req, <2>1 DEF ArgOf, EventName, Text, WriteOps, Fields
  <2>3. NextStatement(req[c], pc[c]) \in PCs
    BY <2>1 DEF NextStatement, Fields, PCs, WriterPCs
  <2> QED BY <1>9, <2>1, <2>2, <2>3
          DEF SetArg, TypeOK, Goto, lockVars, followVars
<1>10. CASE CopyArg(c)
  <2>1. pc[c] \in DOMAIN FieldRead
    BY <1>10 DEF CopyArg
  <2>2. FieldRead[pc[c]] \in Fields /\ NextStatement(req[c], pc[c]) \in PCs
    BY <2>1 DEF FieldRead, NextStatement, Fields, PCs, WriterPCs
  <2>3. args[FieldRead[pc[c]]] \in Text
    BY <2>2 DEF TypeOK
  <2>4. body' \in [Connections -> Seq(Text)]
    BY <1>10, <2>3 DEF CopyArg, TypeOK
  <2>5. published' \subseteq Seq(Text)
    BY <1>10, <2>4 DEF CopyArg, TypeOK
  <2> QED BY <1>10, <2>2, <2>4, <2>5
          DEF CopyArg, TypeOK, Goto, lockVars, followVars
<1>11. CASE UnlockWrite(c)
  BY <1>11, <1>sem, LockTypes DEF UnlockWrite, TypeOK, Goto, At, PCs, Post, followVars, eventVars
<1>12. CASE LockMutex(c)
  BY <1>12, LockTypes DEF LockMutex, TypeOK, Goto, At, PCs, CountPCs, UncountPCs, Wait, followVars, eventVars
<1>13. CASE CountReader(c)
  BY <1>13, LockTypes DEF CountReader, TypeOK, Goto, At, PCs, CountPCs, followVars, eventVars
<1>14. CASE FirstReader(c)
  BY <1>14, LockTypes DEF FirstReader, TypeOK, Goto, At, PCs, CountPCs, Wait, followVars, eventVars
<1>15. CASE UnlockMutex(c)
  BY <1>15, <1>sem, LockTypes DEF UnlockMutex, TypeOK, Goto, At, PCs, ReaderPCs, Post, followVars, eventVars
<1>16. CASE Read(c)
  <2>1. req[c].op \in ReadOps /\ req[c].user \in Users
    BY <1>req, <1>16 DEF Read, At, PlaceOK, ReaderPCs
  <2>2. Listing(req[c]) \in Seq(Users) \cup Seq(SessionIds)
    BY <2>1 DEF Listing, ReadOps, TypeOK
  <2> QED BY <1>16, <2>2 DEF Read, TypeOK, Goto, PCs, ReaderPCs, lockVars, followVars, eventVars
<1>17. CASE UncountReader(c)
  BY <1>17, <1>sem, LockTypes DEF UncountReader, TypeOK, Goto, At, PCs, UncountPCs, followVars, eventVars
<1>18. CASE LastReader(c)
  BY <1>18, <1>sem, LockTypes DEF LastReader, TypeOK, Goto, At, PCs, UncountPCs, Post, followVars, eventVars
<1> QED
  BY <1>1, <1>2, <1>3, <1>4, <1>5, <1>6, <1>7, <1>8, <1>9,
     <1>10, <1>11, <1>12, <1>13, <1>14, <1>15, <1>16, <1>17, <1>18
  DEF Thread, Writer, Reader

-----------------------------------------------------------------------------
(***************************************************************************)
(* Every step keeps each request at the statements of its own method.      *)
(***************************************************************************)
LEMMA PlaceStep ==
  ASSUME TypeOK, PlaceOK, NEW c \in Connections, Thread(c)
  PROVE  PlaceOK'
<1> USE DEF PlaceOK, Goto, At, WriterPCs, ReaderPCs, CountPCs, UncountPCs, WriteOps, ReadOps
<1>pc. pc \in [Connections -> PCs]
  BY DEF TypeOK
<1>1. CASE Call(c)
  BY <1>pc, <1>1, RequestTypes DEF Call, Entry, TypeOK, RequestsOf
<1>2. CASE FollowYourself(c)
  BY <1>pc, <1>2 DEF FollowYourself
<1>3. CASE LockWrite(c)
  BY <1>pc, <1>3 DEF LockWrite
<1>4. CASE Check(c)
  BY <1>pc, <1>4 DEF Check
<1>5. CASE PushSession(c)
  BY <1>pc, <1>5 DEF PushSession
<1>6. CASE EraseSessions(c)
  BY <1>pc, <1>6 DEF EraseSessions
<1>7. CASE PushFollower(c)
  BY <1>pc, <1>7 DEF PushFollower
<1>8. CASE PushFollowed(c)
  BY <1>pc, <1>8 DEF PushFollowed
<1>9. CASE SetArg(c)
  BY <1>pc, <1>9 DEF SetArg, Fields, NextStatement
<1>10. CASE CopyArg(c)
  BY <1>pc, <1>10 DEF CopyArg, FieldRead, NextStatement
<1>11. CASE UnlockWrite(c)
  BY <1>pc, <1>11 DEF UnlockWrite
<1>12. CASE LockMutex(c)
  BY <1>pc, <1>12 DEF LockMutex
<1>13. CASE CountReader(c)
  BY <1>pc, <1>13 DEF CountReader
<1>14. CASE FirstReader(c)
  BY <1>pc, <1>14 DEF FirstReader
<1>15. CASE UnlockMutex(c)
  BY <1>pc, <1>15 DEF UnlockMutex
<1>16. CASE Read(c)
  BY <1>pc, <1>16 DEF Read
<1>17. CASE UncountReader(c)
  BY <1>pc, <1>17 DEF UncountReader
<1>18. CASE LastReader(c)
  BY <1>pc, <1>18 DEF LastReader
<1> QED
  BY <1>1, <1>2, <1>3, <1>4, <1>5, <1>6, <1>7, <1>8, <1>9,
     <1>10, <1>11, <1>12, <1>13, <1>14, <1>15, <1>16, <1>17, <1>18
  DEF Thread, Writer, Reader

-----------------------------------------------------------------------------
(***************************************************************************)
(* A step that leaves the semaphores and the count of lock l alone, and    *)
(* moves no thread from one of the places of l to another, keeps LockOK.   *)
(***************************************************************************)
LEMMA LockFrame ==
  ASSUME NEW l \in Locks, MutexOK(l), CountOK(l), WriteOK(l),
         writeSem'[l] = writeSem[l],
         readersMutex'[l] = readersMutex[l],
         readersCount'[l] = readersCount[l],
         \A d \in Connections :
           /\ HoldsMutex(d, l)' <=> HoldsMutex(d, l)
           /\ Writing(d, l)' <=> Writing(d, l)
           /\ InGroup(d, l)' <=> InGroup(d, l)
           /\ (d \in Counted(l))' <=> d \in Counted(l)
           /\ (pc[d] = "last" /\ Uses(d, l))' <=> pc[d] = "last" /\ Uses(d, l)
  PROVE  (MutexOK(l) /\ CountOK(l) /\ WriteOK(l))'
<1>1. Counted(l)' = Counted(l)
  BY DEF Counted
<1>2. MutexOK(l)'
  BY DEF MutexOK
<1>3. CountOK(l)'
  BY <1>1 DEF CountOK
<1>4. WriteOK(l)'
  BY DEF WriteOK
<1> QED BY <1>2, <1>3, <1>4

(***************************************************************************)
(* The statements that touch no semaphore.                                 *)
(***************************************************************************)
LEMMA LockQuietStep ==
  ASSUME TypeOK, PlaceOK, LockOK, NEW c \in Connections,
         \/ Call(c) \/ FollowYourself(c) \/ Check(c) \/ PushSession(c)
         \/ EraseSessions(c) \/ PushFollower(c) \/ PushFollowed(c)
         \/ SetArg(c) \/ CopyArg(c) \/ Read(c)
  PROVE  LockOK'
<1> SUFFICES ASSUME NEW l \in Locks
             PROVE  (MutexOK(l) /\ CountOK(l) /\ WriteOK(l))'
  BY DEF LockOK
<1> USE DEF Goto, At, WriterPCs, ReaderPCs, CountPCs, UncountPCs
<1>1. UNCHANGED lockVars
  BY DEF Call, FollowYourself, Check, PushSession, EraseSessions, PushFollower,
         PushFollowed, SetArg, CopyArg, Read
<1>2. /\ \A d \in Connections \ {c} : pc'[d] = pc[d] /\ req'[d] = req[d]
      /\ \/ /\ {pc[c], pc'[c]} \subseteq {"idle", "compare", "lock", "enter", "done"}
            \* outside the lock
         \/ {pc[c], pc'[c]} \subseteq WriterPCs /\ req'[c] = req[c]
         \/ pc[c] = "read" /\ pc'[c] = "leave" /\ req'[c] = req[c]
  BY SMTT(30) DEF TypeOK, Call, Entry, FollowYourself, Check, PushSession, EraseSessions,
         PushFollower, PushFollowed, SetArg, CopyArg, Read, Fields, FieldRead,
         NextStatement
<1>3. \A d \in Connections :
        /\ HoldsMutex(d, l)' <=> HoldsMutex(d, l)
        /\ Writing(d, l)' <=> Writing(d, l)
        /\ InGroup(d, l)' <=> InGroup(d, l)
        /\ (d \in Counted(l))' <=> d \in Counted(l)
        /\ (pc[d] = "last" /\ Uses(d, l))' <=> pc[d] = "last" /\ Uses(d, l)
  BY <1>2 DEF HoldsMutex, Writing, InGroup, Counted, Uses
<1> QED BY <1>1, <1>3, LockFrame DEF LockOK, lockVars

(***************************************************************************)
(* A statement on a semaphore or on the count of one lock leaves the other *)
(* lock as it is.                                                          *)
(***************************************************************************)
SemaphoreStep(c) ==
  LockWrite(c) \/ UnlockWrite(c) \/ LockMutex(c) \/ CountReader(c) \/ FirstReader(c)
  \/ UnlockMutex(c) \/ UncountReader(c) \/ LastReader(c)

LEMMA OtherLock ==
  ASSUME TypeOK, LockOK, NEW c \in Connections, SemaphoreStep(c),
         NEW l \in Locks, ~ Uses(c, l)
  PROVE  (MutexOK(l) /\ CountOK(l) /\ WriteOK(l))'
<1>1. /\ req' = req
      /\ \A d \in Connections : Uses(d, l)' <=> Uses(d, l)
      /\ \A d \in Connections : Uses(d, l) => pc'[d] = pc[d]
  BY DEF SemaphoreStep, LockWrite, UnlockWrite, LockMutex, CountReader, FirstReader,
         UnlockMutex, UncountReader, LastReader, Goto, TypeOK, Uses
<1>2. /\ writeSem'[l] = writeSem[l]
      /\ readersMutex'[l] = readersMutex[l]
      /\ readersCount'[l] = readersCount[l]
  BY LockTypes
     DEF SemaphoreStep, LockWrite, UnlockWrite, LockMutex, CountReader, FirstReader,
         UnlockMutex, UncountReader, LastReader, Wait, Post, TypeOK, Uses
<1>3. \A d \in Connections :
        /\ HoldsMutex(d, l)' <=> HoldsMutex(d, l)
        /\ Writing(d, l)' <=> Writing(d, l)
        /\ InGroup(d, l)' <=> InGroup(d, l)
        /\ (d \in Counted(l))' <=> d \in Counted(l)
        /\ (pc[d] = "last" /\ Uses(d, l))' <=> pc[d] = "last" /\ Uses(d, l)
  BY <1>1 DEF HoldsMutex, Writing, InGroup, Counted
<1> QED BY <1>2, <1>3, LockFrame DEF LockOK

(***************************************************************************)
(* The writers' two statements on their semaphore.                         *)
(***************************************************************************)
LEMMA LockWriterStep ==
  ASSUME TypeOK, PlaceOK, LockOK, NEW c \in Connections,
         LockWrite(c) \/ UnlockWrite(c),
         NEW l \in Locks, Uses(c, l)
  PROVE  (MutexOK(l) /\ CountOK(l) /\ WriteOK(l))'
<1> USE DEF Goto, At, Wait, Post, WriterPCs, ReaderPCs, CountPCs, UncountPCs
<1>1. /\ req' = req
      /\ \A d \in Connections \ {c} : pc'[d] = pc[d]
      /\ readersMutex' = readersMutex /\ readersCount' = readersCount
  BY DEF LockWrite, UnlockWrite, TypeOK
<1>2. /\ pc[c] \in {"lock", "unlock"}
      /\ pc'[c] \in {"check", "erase", "done"}
  BY DEF LockWrite, UnlockWrite, TypeOK
<1>3. /\ \A d \in Connections : HoldsMutex(d, l)' <=> HoldsMutex(d, l)
      /\ \A d \in Connections : InGroup(d, l)' <=> InGroup(d, l)
      /\ \A d \in Connections : (d \in Counted(l))' <=> d \in Counted(l)
      /\ \A d \in Connections : (pc[d] = "last")' <=> pc[d] = "last"
  BY <1>1, <1>2 DEF HoldsMutex, InGroup, Counted, Uses
<1>4. Counted(l)' = Counted(l)
  BY <1>3 DEF Counted
<1>5. MutexOK(l)'
  BY <1>1, <1>3 DEF LockOK, MutexOK
<1>6. CountOK(l)'
  BY <1>1, <1>3, <1>4 DEF LockOK, CountOK, Uses
<1>7. CASE LockWrite(c)
  \* The semaphore was 1: nobody wrote, and no reader was admitted.
  <2>1. writeSem[l] = 1 /\ writeSem'[l] = 0
    BY <1>7 DEF LockWrite, TypeOK, Uses
  <2>2. \A d \in Connections : ~ Writing(d, l) /\ ~ InGroup(d, l)
    BY <2>1 DEF LockOK, WriteOK
  <2>3. \A d \in Connections : Writing(d, l)' => d = c
    BY <1>1, <2>2 DEF Writing, Uses
  <2>4. WriteOK(l)'
    BY <1>3, <2>1, <2>2, <2>3 DEF WriteOK
  <2> QED BY <1>5, <1>6, <2>4
<1>8. CASE UnlockWrite(c)
  \* c was the only writer and is no more.
  <2>1. Writing(c, l) /\ ~ Writing(c, l)'
    BY <1>8 DEF UnlockWrite, Writing, Uses, TypeOK
  <2>2. \A d \in Connections : ~ InGroup(d, l) /\ (Writing(d, l) => c = d)
    BY <2>1 DEF LockOK, WriteOK
  <2>3. \A d \in Connections : ~ Writing(d, l)'
    BY <1>1, <2>1, <2>2 DEF Writing, Uses
  <2>4. WriteOK(l)'
    BY <1>3, <2>2, <2>3 DEF WriteOK
  <2> QED BY <1>5, <1>6, <2>4
<1> QED BY <1>7, <1>8

(***************************************************************************)
(* A thread that holds the mutex of the readers is alone in doing so, and  *)
(* any other thread that is counted has been admitted.                     *)
(***************************************************************************)
LEMMA MutexHolder ==
  ASSUME LockOK, NEW l \in Locks, NEW c \in Connections, HoldsMutex(c, l)
  PROVE  /\ readersMutex[l] = 0
         /\ \A d \in Connections \ {c} : /\ ~ HoldsMutex(d, l)
                                         /\ d \in Counted(l) => InGroup(d, l)
                                         /\ pc[d] = "last" => ~ Uses(d, l)
  BY DEF LockOK, MutexOK, HoldsMutex, Counted, InGroup, CountPCs, UncountPCs

(***************************************************************************)
(* The readers' statements on their mutex: sem_wait, then sem_post.        *)
(***************************************************************************)
LEMMA LockMutexStep ==
  ASSUME TypeOK, PlaceOK, LockOK, NEW c \in Connections,
         LockMutex(c) \/ UnlockMutex(c),
         NEW l \in Locks, Uses(c, l)
  PROVE  (MutexOK(l) /\ CountOK(l) /\ WriteOK(l))'
<1> USE DEF Goto, At, Wait, Post, WriterPCs, ReaderPCs, CountPCs, UncountPCs
<1>1. /\ req' = req
      /\ \A d \in Connections \ {c} : pc'[d] = pc[d]
      /\ writeSem' = writeSem /\ readersCount' = readersCount
  BY DEF LockMutex, UnlockMutex, TypeOK
<1>2. \/ pc[c] = "enter"    /\ pc'[c] = "count"
      \/ pc[c] = "leave"    /\ pc'[c] = "uncount"
      \/ pc[c] = "admit"    /\ pc'[c] = "read"
      \/ pc[c] = "released" /\ pc'[c] = "done"
  BY DEF LockMutex, UnlockMutex, TypeOK
<1>3. /\ \A d \in Connections : Writing(d, l)' <=> Writing(d, l)
      /\ \A d \in Connections : InGroup(d, l)' <=> InGroup(d, l)
      /\ \A d \in Connections : (d \in Counted(l))' <=> d \in Counted(l)
      /\ \A d \in Connections : (pc[d] = "last")' <=> pc[d] = "last"
  BY <1>1, <1>2 DEF Writing, InGroup, Counted, Uses
<1>4. Counted(l)' = Counted(l)
  BY <1>3 DEF Counted
<1>5. WriteOK(l)'
  BY <1>1, <1>3 DEF LockOK, WriteOK
<1>6. CountOK(l)'
  BY <1>1, <1>3, <1>4 DEF LockOK, CountOK, Uses
<1>7. CASE LockMutex(c)
  <2>1. readersMutex[l] = 1 /\ readersMutex'[l] = 0
    BY <1>7 DEF LockMutex, TypeOK, Uses
  <2>2. \A d \in Connections : ~ HoldsMutex(d, l)
    BY <2>1 DEF LockOK, MutexOK
  <2>3. \A d \in Connections : HoldsMutex(d, l)' => d = c
    BY <1>1, <2>2 DEF HoldsMutex, Uses
  <2>4. MutexOK(l)'
    BY <2>1, <2>3 DEF MutexOK
  <2> QED BY <1>5, <1>6, <2>4
<1>8. CASE UnlockMutex(c)
  <2>1. HoldsMutex(c, l) /\ ~ HoldsMutex(c, l)'
    BY <1>8, <1>2 DEF UnlockMutex, HoldsMutex, Uses
  <2>2. \A d \in Connections \ {c} : ~ HoldsMutex(d, l)
    BY <2>1, MutexHolder
  <2>3. \A d \in Connections : ~ HoldsMutex(d, l)'
    BY <1>1, <2>1, <2>2 DEF HoldsMutex, Uses
  <2>4. MutexOK(l)'
    BY <2>3 DEF MutexOK
  <2> QED BY <1>5, <1>6, <2>4
<1> QED BY <1>7, <1>8

(***************************************************************************)
(* The statements between the two: counting oneself in or out, and taking  *)
(* or giving back the write semaphore for the whole group.                 *)
(***************************************************************************)
LEMMA CountedFinite ==
  ASSUME NEW l PROVE IsFiniteSet(Counted(l)) /\ Cardinality(Counted(l)) \in Nat
<1>1. Counted(l) \subseteq Connections
  BY DEF Counted
<1> QED BY <1>1, ConnectionsFinite, FS_Subset, FS_CardinalityType

LEMMA LockReaderStep ==
  ASSUME TypeOK, PlaceOK, LockOK, NEW c \in Connections,
         CountReader(c) \/ FirstReader(c) \/ UncountReader(c) \/ LastReader(c),
         NEW l \in Locks, Uses(c, l)
  PROVE  (MutexOK(l) /\ CountOK(l) /\ WriteOK(l))'
<1> USE DEF Goto, At, Wait, Post, WriterPCs, CountPCs, UncountPCs
<1>1. /\ req' = req
      /\ \A d \in Connections \ {c} : pc'[d] = pc[d]
      /\ readersMutex' = readersMutex
  BY DEF CountReader, FirstReader, UncountReader, LastReader, TypeOK
<1>2. /\ pc[c] \in {"count", "first", "uncount", "last"}
      /\ pc'[c] \in {"first", "admit", "last", "released"}
  BY DEF CountReader, FirstReader, UncountReader, LastReader, TypeOK
<1>3. HoldsMutex(c, l) /\ HoldsMutex(c, l)'
  BY <1>1, <1>2 DEF HoldsMutex, Uses
<1>4. /\ readersMutex[l] = 0
      /\ \A d \in Connections \ {c} : /\ ~ HoldsMutex(d, l)
                                      /\ d \in Counted(l) => InGroup(d, l)
                                      /\ pc[d] = "last" => ~ Uses(d, l)
  BY <1>3, MutexHolder
<1>5. MutexOK(l)'
  BY <1>1, <1>3, <1>4 DEF MutexOK, HoldsMutex, Uses
<1>6. \A d \in Connections : Writing(d, l)' <=> Writing(d, l)
  BY <1>1, <1>2 DEF Writing, Uses
<1>7. \A d \in Connections \ {c} : /\ InGroup(d, l)' <=> InGroup(d, l)
                                   /\ (d \in Counted(l))' <=> d \in Counted(l)
                                   /\ ~ (pc[d] = "last" /\ Uses(d, l))'
  BY <1>1, <1>4 DEF InGroup, Counted, Uses
<1>8. CASE CountReader(c)
  <2>1. /\ writeSem' = writeSem
        /\ readersCount'[l] = Cardinality(Counted(l)) + 1
        /\ pc'[c] = IF readersCount'[l] = 1 THEN "first" ELSE "admit"
    BY <1>8 DEF CountReader, TypeOK, LockOK, CountOK, Uses
  <2>2. c \notin Counted(l) /\ Counted(l)' = Counted(l) \cup {c}
    BY <1>8, <1>1, <1>7, <2>1 DEF CountReader, Counted, Uses
  <2>3. Cardinality(Counted(l)') = Cardinality(Counted(l)) + 1
    BY <2>2, CountedFinite, FS_AddElement
  <2>a. \A d \in Connections : ~ (pc[d] = "last" /\ Uses(d, l))'
    BY <1>7, <2>1 DEF Uses
  <2>4. CountOK(l)'
    BY <2>1, <2>3, <2>a DEF CountOK
  <2>5. CASE Counted(l) = {}
    <3>1. pc'[c] = "first"
      BY <2>1, <2>5, FS_EmptySet
    <3>2. \A d \in Connections : InGroup(d, l)' => InGroup(d, l)
      BY <1>7, <3>1 DEF InGroup, Uses
    <3>3. WriteOK(l)'
      BY <1>6, <2>1, <3>2 DEF LockOK, WriteOK
    <3> QED BY <1>5, <2>4, <3>3
  <2>6. CASE Counted(l) # {}
    \* A reader counted earlier is in the group and vouches for c.
    <3>1. PICK d \in Counted(l) : TRUE
      BY <2>6
    <3>2. d \in Connections /\ InGroup(d, l)
      BY <1>4, <2>2, <3>1 DEF Counted
    <3>3. writeSem[l] = 0 /\ \A e \in Connections : ~ Writing(e, l)
      BY <3>2 DEF LockOK, WriteOK
    <3> QED BY <1>5, <1>6, <2>1, <2>4, <3>3 DEF WriteOK
  <2> QED BY <2>5, <2>6
<1>9. CASE FirstReader(c)
  <2>1. /\ writeSem[l] = 1 /\ writeSem'[l] = 0
        /\ readersCount' = readersCount
        /\ pc[c] = "first" /\ pc'[c] = "admit"
    BY <1>9 DEF FirstReader, TypeOK, Uses
  <2>2. Counted(l)' = Counted(l)
    BY <1>1, <1>7, <2>1 DEF Counted, Uses
  <2>a. \A d \in Connections : ~ (pc[d] = "last" /\ Uses(d, l))'
    BY <1>7, <2>1 DEF Uses
  <2>3. CountOK(l)'
    BY <2>1, <2>2, <2>a DEF LockOK, CountOK
  <2>4. \A d \in Connections : ~ Writing(d, l)
    BY <2>1 DEF LockOK, WriteOK
  <2> QED BY <1>5, <1>6, <2>1, <2>3, <2>4 DEF WriteOK
<1>10. CASE UncountReader(c)
  <2>1. /\ writeSem' = writeSem
        /\ readersCount'[l] = Cardinality(Counted(l)) - 1
        /\ pc'[c] = IF readersCount'[l] = 0 THEN "last" ELSE "released"
    BY <1>10 DEF UncountReader, TypeOK, LockOK, CountOK, Uses
  <2>2. c \in Counted(l) /\ Counted(l)' = Counted(l) \ {c}
    BY <1>10, <1>1, <1>7, <2>1 DEF UncountReader, Counted, Uses
  <2>3. /\ IsFiniteSet(Counted(l)')
        /\ Cardinality(Counted(l)') = Cardinality(Counted(l)) - 1
    BY <2>2, CountedFinite, FS_RemoveElement
  <2>4. pc'[c] = "last" => Counted(l)' = {}
    BY <2>1, <2>3, FS_EmptySet
  <2>a. \A d \in Connections : (pc[d] = "last" /\ Uses(d, l))' => Counted(l)' = {}
    BY <1>7, <2>4 DEF Uses
  <2>5. CountOK(l)'
    BY <2>1, <2>3, <2>a DEF CountOK
  <2>6. InGroup(c, l)
    BY <1>10 DEF UncountReader, InGroup, Uses
  <2>7. \A d \in Connections : InGroup(d, l)' => InGroup(d, l)
    BY <1>7, <2>6 DEF InGroup, Uses
  <2>8. WriteOK(l)'
    BY <1>6, <2>1, <2>7 DEF LockOK, WriteOK
  <2> QED BY <1>5, <2>5, <2>8
<1>11. CASE LastReader(c)
  \* Nobody is counted any more, so c gives the semaphore back for all.
  <2>1. /\ readersCount' = readersCount
        /\ pc[c] = "last" /\ pc'[c] = "released"
    BY <1>11 DEF LastReader, TypeOK
  <2>2. Counted(l) = {}
    BY <2>1 DEF LockOK, CountOK
  <2>3. Counted(l)' = Counted(l)
    BY <1>1, <1>7, <2>1 DEF Counted, Uses
  <2>a. \A d \in Connections : ~ (pc[d] = "last" /\ Uses(d, l))'
    BY <1>7, <2>1 DEF Uses
  <2>4. CountOK(l)'
    BY <2>1, <2>3, <2>a DEF LockOK, CountOK
  <2>5. InGroup(c, l) /\ ~ InGroup(c, l)'
    BY <2>1 DEF InGroup, Uses
  <2>6. \A d \in Connections : ~ Writing(d, l)
    BY <2>5 DEF LockOK, WriteOK
  <2>7. \A d \in Connections \ {c} : ~ InGroup(d, l)
    BY <1>4, <2>2 DEF InGroup, Counted
  <2>8. \A d \in Connections : ~ Writing(d, l)' /\ ~ InGroup(d, l)'
    BY <1>6, <1>7, <2>5, <2>6, <2>7 DEF Writing, InGroup, Uses
  <2> QED BY <1>5, <2>4, <2>8 DEF WriteOK
<1> QED BY <1>8, <1>9, <1>10, <1>11

(***************************************************************************)
(* Every step keeps the locks as they should be.                           *)
(***************************************************************************)
LEMMA LockStep ==
  ASSUME TypeOK, PlaceOK, LockOK, NEW c \in Connections, Thread(c)
  PROVE  LockOK'
<1>1. CASE SemaphoreStep(c)
  <2>1. SUFFICES ASSUME NEW l \in Locks
                 PROVE  (MutexOK(l) /\ CountOK(l) /\ WriteOK(l))'
    BY DEF LockOK
  <2>2. CASE ~ Uses(c, l)
    BY <1>1, <2>2, OtherLock
  <2>3. CASE Uses(c, l)
    BY <1>1, <2>3, LockWriterStep, LockMutexStep, LockReaderStep DEF SemaphoreStep
  <2> QED BY <2>2, <2>3
<1>2. CASE ~ SemaphoreStep(c)
  BY <1>2, LockQuietStep DEF SemaphoreStep, Thread, Writer, Reader
<1> QED BY <1>1, <1>2

-----------------------------------------------------------------------------
(***************************************************************************)
(* Every step keeps what is known of the maps.                             *)
(***************************************************************************)
LEMMA OneWriter ==
  ASSUME LockOK, NEW c \in Connections, NEW d \in Connections,
         pc[c] \in WriterPCs, pc[d] \in WriterPCs,
         LockOf(req[c].op) = LockOf(req[d].op)
  PROVE  c = d
  BY LockTypes DEF LockOK, WriteOK, Writing, Uses

(***************************************************************************)
(* A step that changes no map, brings no thread to an append and takes no  *)
(* thread to or from the second append keeps StoreOK.                      *)
(***************************************************************************)
LEMMA StoreFrame ==
  ASSUME StoreOK, UNCHANGED << sessions_map, followVars >>,
         \A d \in Connections :
           /\ pc'[d] = "push" => pc[d] = "push" /\ req'[d] = req[d]
           /\ pc'[d] = "push2" <=> pc[d] = "push2"
           /\ pc'[d] = "push2" => req'[d] = req[d]
  PROVE  StoreOK'
<1>1. \A c \in Connections : (pc[c] = "push" => PushOK(c))'
  BY DEF StoreOK, PushOK, followVars
<1>2. SessionLimit' /\ FollowOnce'
  BY DEF StoreOK, SessionLimit, FollowOnce, followVars
<1>3. InverseUpToPush'
  BY DEF StoreOK, InverseUpToPush, followVars
<1> QED BY <1>1, <1>2, <1>3 DEF StoreOK

LEMMA StoreQuietStep ==
  ASSUME TypeOK, StoreOK, NEW c \in Connections, Thread(c),
         ~ (Check(c) \/ PushSession(c) \/ EraseSessions(c)
            \/ PushFollower(c) \/ PushFollowed(c))
  PROVE  StoreOK'
<1> USE DEF Goto, At, TypeOK
<1>1. CASE Call(c)
  BY <1>1, StoreFrame DEF Call, Entry, followVars
<1>2. CASE SetArg(c)
  BY <1>2, StoreFrame DEF SetArg, Fields, NextStatement, followVars
<1>3. CASE CopyArg(c)
  BY <1>3, StoreFrame DEF CopyArg, FieldRead, NextStatement, followVars
<1>4. CASE FollowYourself(c) \/ LockWrite(c) \/ UnlockWrite(c) \/ Read(c)
  BY <1>4, StoreFrame DEF FollowYourself, LockWrite, UnlockWrite, Read, followVars
<1>5. CASE LockMutex(c) \/ UnlockMutex(c)
  BY <1>5, StoreFrame DEF LockMutex, UnlockMutex, followVars
<1>6. CASE CountReader(c) \/ FirstReader(c) \/ UncountReader(c) \/ LastReader(c)
  BY <1>6, StoreFrame DEF CountReader, FirstReader, UncountReader, LastReader, followVars
<1> QED BY <1>1, <1>2, <1>3, <1>4, <1>5, <1>6 DEF Thread, Writer, Reader

LEMMA CheckStep ==
  ASSUME TypeOK, PlaceOK, StoreOK, NEW c \in Connections, Check(c)
  PROVE  StoreOK'
<1>1. /\ UNCHANGED << sessions_map, followVars, req >>
      /\ \A d \in Connections \ {c} : pc'[d] = pc[d]
      /\ pc[c] = "check"
      /\ pc'[c] = IF CodeOf(req[c]) = 0 THEN "push" ELSE "unlock"
  BY DEF Check, Goto, At, TypeOK, followVars
<1>2. CodeOf(req[c]) = 0 =>
        /\ req[c].op = "login"  => Len(sessions_map[req[c].user]) < SESSIONS_LIMIT
        /\ req[c].op = "follow" => req[c].other \notin ToSet(followers_map[req[c].user])
  <2>1. req[c].op \in {"login", "follow"} /\ req[c].user \in Users
    BY <1>1, OwnRequest DEF PlaceOK
  <2>2. Len(sessions_map[req[c].user]) \in Nat
    BY <2>1 DEF TypeOK
  <2> QED BY <2>1, <2>2
          DEF CodeOf, LoginCode, FollowCode, SESSIONS_LIMIT, ERROR_SESSIONS_LIMIT,
              ERROR_SESSION_ALREADY_STARTED, ERROR_ALREADY_FOLLOWING_ACCOUNT
<1>3. \A d \in Connections : (pc[d] = "push" => PushOK(d))'
  BY <1>1, <1>2 DEF StoreOK, PushOK, followVars
<1>4. SessionLimit' /\ FollowOnce'
  BY <1>1 DEF StoreOK, SessionLimit, FollowOnce, followVars
<1>5. InverseUpToPush'
  BY <1>1 DEF StoreOK, InverseUpToPush, followVars
<1> QED BY <1>3, <1>4, <1>5 DEF StoreOK

(***************************************************************************)
(* open_session and close_session change the sessions of one user; no      *)
(* other thread is about to append a session meanwhile.                    *)
(***************************************************************************)
LEMMA SessionStep ==
  ASSUME TypeOK, PlaceOK, LockOK, StoreOK, NEW c \in Connections,
         PushSession(c) \/ EraseSessions(c)
  PROVE  StoreOK'
<1>1. /\ UNCHANGED << followVars, req >>
      /\ \A d \in Connections \ {c} : pc'[d] = pc[d]
      /\ pc[c] \in {"push", "erase"} /\ pc'[c] = "arg0"
      /\ req[c].op \in {"login", "logout"}
  BY DEF PushSession, EraseSessions, Goto, At, TypeOK, PlaceOK
<1>2. /\ req[c].user \in Users /\ req[c].id \in SessionIds
      /\ sessions_map[req[c].user] \in Seq(SessionIds)
  BY <1>1, OwnRequest DEF TypeOK
<1>3. \A d \in Connections \ {c} : pc[d] = "push" => req[d].op = "follow"
  <2>1. SUFFICES ASSUME NEW d \in Connections \ {c}, pc[d] = "push", req[d].op # "follow"
                 PROVE  FALSE
    OBVIOUS
  <2>2. req[d].op = "login"
    BY <2>1 DEF PlaceOK
  <2> QED BY <1>1, <2>1, <2>2, OneWriter DEF LockOf, WriterPCs
<1>4. \A d \in Connections : (pc[d] = "push" => PushOK(d))'
  BY <1>1, <1>3 DEF StoreOK, PushOK, followVars
<1>5. SessionLimit'
  <2>1. CASE PushSession(c)
    <3>1. sessions_map' = [sessions_map EXCEPT ![req[c].user] = Append(@, req[c].id)]
      BY <2>1 DEF PushSession
    <3>2. Len(sessions_map[req[c].user]) < SESSIONS_LIMIT
      BY <2>1 DEF PushSession, At, StoreOK, PushOK
    <3>3. Len(sessions_map'[req[c].user]) <= SESSIONS_LIMIT
      BY <1>2, <3>1, <3>2 DEF TypeOK, SESSIONS_LIMIT
    <3> QED BY <1>2, <3>1, <3>3 DEF StoreOK, SessionLimit, TypeOK
  <2>2. CASE EraseSessions(c)
    <3>1. sessions_map' = [sessions_map EXCEPT ![req[c].user] = EraseSession(@, req[c].id)]
      BY <2>2 DEF EraseSessions
    <3>2. /\ Len(EraseSession(sessions_map[req[c].user], req[c].id))
               <= Len(sessions_map[req[c].user])
          /\ EraseSession(sessions_map[req[c].user], req[c].id) \in Seq(SessionIds)
      BY <1>2, EraseTypes
    <3>3. Len(sessions_map'[req[c].user]) <= SESSIONS_LIMIT
      BY <1>2, <3>1, <3>2 DEF StoreOK, SessionLimit, SESSIONS_LIMIT, TypeOK
    <3> QED BY <1>2, <3>1, <3>3 DEF StoreOK, SessionLimit, TypeOK
  <2> QED BY <2>1, <2>2
<1>6. FollowOnce'
  BY <1>1 DEF StoreOK, FollowOnce, followVars
<1>7. InverseUpToPush'
  BY <1>1 DEF StoreOK, InverseUpToPush, followVars
<1> QED BY <1>4, <1>5, <1>6, <1>7 DEF StoreOK

(***************************************************************************)
(* The two appends of write_follower.                                      *)
(***************************************************************************)
LEMMA FollowStep ==
  ASSUME TypeOK, PlaceOK, LockOK, StoreOK, NEW c \in Connections,
         PushFollower(c) \/ PushFollowed(c)
  PROVE  StoreOK'
<1> DEFINE follower == req[c].user
           followed == req[c].other
<1>1. /\ UNCHANGED << sessions_map, req >>
      /\ \A d \in Connections \ {c} : pc'[d] = pc[d]
      /\ pc[c] \in {"push", "push2"} /\ pc'[c] \in {"push2", "arg0"}
      /\ req[c].op = "follow"
  BY DEF PushFollower, PushFollowed, Goto, At, TypeOK, PlaceOK
<1>2. /\ follower \in Users /\ followed \in Users /\ follower # followed
      /\ followers_map[follower] \in Seq(Users)
      /\ followed_by_map[followed] \in Seq(Users)
  BY <1>1, OwnRequest DEF TypeOK, PlaceOK, WriterPCs
<1>3. \A d \in Connections \ {c} :
        (pc[d] = "push" => req[d].op = "login") /\ pc[d] # "push2"
  <2>1. SUFFICES ASSUME NEW d \in Connections \ {c},
                        \/ pc[d] = "push" /\ req[d].op # "login"
                        \/ pc[d] = "push2"
                 PROVE  FALSE
    OBVIOUS
  <2>2. req[d].op = "follow" /\ pc[d] \in WriterPCs
    BY <2>1 DEF PlaceOK, WriterPCs
  <2> QED BY <1>1, <2>1, <2>2, OneWriter DEF WriterPCs
<1>4. \A d \in Connections : (pc[d] = "push" => PushOK(d))'
  BY <1>1, <1>3 DEF StoreOK, PushOK
<1>5. SessionLimit'
  BY <1>1 DEF StoreOK, SessionLimit
<1>6. CASE PushFollower(c)
  <2>1. /\ pc[c] = "push" /\ pc'[c] = "push2"
        /\ followed_by_map' = followed_by_map
        /\ followers_map' = [followers_map EXCEPT ![follower] = Append(@, followed)]
    BY <1>6 DEF PushFollower, Goto, At, TypeOK
  <2>2. followed \notin ToSet(followers_map[follower])
    BY <1>1, <2>1 DEF StoreOK, PushOK
  <2>3. /\ \A u \in Users \ {follower} : followers_map'[u] = followers_map[u]
        /\ ToSet(followers_map'[follower]) = ToSet(followers_map[follower]) \cup {followed}
        /\ IsInjective(followers_map[follower]) => IsInjective(followers_map'[follower])
    BY <1>2, <2>1, <2>2, AppendElements DEF TypeOK
  <2>4. FollowOnce'
    BY <1>2, <2>3 DEF StoreOK, FollowOnce
  <2>5. ASSUME NEW u \in Users, NEW v \in Users
        PROVE  v \in ToSet(followers_map'[u]) <=>
                 \/ u \in ToSet(followed_by_map'[v])
                 \/ u = follower /\ v = followed
    <3>1. v \in ToSet(followers_map[u]) <=> u \in ToSet(followed_by_map[v])
      BY <1>3, <2>1 DEF StoreOK, InverseUpToPush
    <3>2. v \in ToSet(followers_map'[u]) <=>
            v \in ToSet(followers_map[u]) \/ (u = follower /\ v = followed)
      BY <2>3
    <3> QED BY <2>1, <3>1, <3>2
  <2>6. ASSUME NEW u \in Users, NEW v \in Users
        PROVE  (\E d \in Connections : pc'[d] = "push2" /\ req'[d].user = u
                                                      /\ req'[d].other = v)
               <=> u = follower /\ v = followed
    BY <1>1, <1>3, <2>1
  <2>7. InverseUpToPush'
    BY <2>5, <2>6 DEF InverseUpToPush
  <2> QED BY <1>4, <1>5, <2>4, <2>7 DEF StoreOK
<1>7. CASE PushFollowed(c)
  <2>1. /\ pc[c] = "push2" /\ pc'[c] = "arg0"
        /\ followers_map' = followers_map
        /\ followed_by_map' = [followed_by_map EXCEPT ![followed] = Append(@, follower)]
    BY <1>7 DEF PushFollowed, Goto, At, TypeOK
  <2>2. /\ \A u \in Users \ {followed} : followed_by_map'[u] = followed_by_map[u]
        /\ ToSet(followed_by_map'[followed]) = ToSet(followed_by_map[followed]) \cup {follower}
    BY <1>2, <2>1, AppendElements DEF TypeOK
  <2>3. FollowOnce'
    BY <2>1 DEF StoreOK, FollowOnce
  <2>4. ASSUME NEW u \in Users, NEW v \in Users
        PROVE  v \in ToSet(followers_map'[u]) <=> u \in ToSet(followed_by_map'[v])
    <3>1. v \in ToSet(followers_map[u]) <=>
            u \in ToSet(followed_by_map[v]) \/ (u = follower /\ v = followed)
      BY <1>3, <2>1 DEF StoreOK, InverseUpToPush
    <3>2. u \in ToSet(followed_by_map'[v]) <=>
            u \in ToSet(followed_by_map[v]) \/ (u = follower /\ v = followed)
      BY <2>2
    <3> QED BY <2>1, <3>1, <3>2
  <2>5. \A d \in Connections : pc'[d] # "push2"
    BY <1>1, <1>3, <2>1
  <2>6. InverseUpToPush'
    BY <2>4, <2>5 DEF InverseUpToPush
  <2> QED BY <1>4, <1>5, <2>3, <2>6 DEF StoreOK
<1> QED BY <1>6, <1>7

-----------------------------------------------------------------------------
(***************************************************************************)
(* The invariant is inductive.                                             *)
(***************************************************************************)
LEMMA InitIInv == Init => IInv
<1> SUFFICES ASSUME Init PROVE IInv
  OBVIOUS
<1>1. TypeOK
  BY CodeTypes DEF Init, TypeOK, PCs, Locks, Fields, Text
<1>2. PlaceOK
  BY DEF Init, PlaceOK, WriterPCs, ReaderPCs, CountPCs, UncountPCs
<1>3. ASSUME NEW l \in Locks PROVE Counted(l) = {}
  BY DEF Init, Counted
<1>4. LockOK
  BY <1>3, FS_EmptySet
     DEF Init, LockOK, MutexOK, CountOK, WriteOK, HoldsMutex, Writing, InGroup,
         WriterPCs, ReaderPCs, CountPCs, UncountPCs
<1>5. StoreOK
  BY DEF Init, StoreOK, SessionLimit, SESSIONS_LIMIT, FollowOnce, InverseUpToPush,
         ToSet, IsInjective
<1> QED BY <1>1, <1>2, <1>4, <1>5 DEF IInv

LEMMA StoreStep ==
  ASSUME TypeOK, PlaceOK, LockOK, StoreOK, NEW c \in Connections, Thread(c)
  PROVE  StoreOK'
  BY StoreQuietStep, CheckStep, SessionStep, FollowStep

LEMMA NextIInv == IInv /\ [Next]_vars => IInv'
<1> SUFFICES ASSUME IInv, [Next]_vars PROVE IInv'
  OBVIOUS
<1>1. ASSUME NEW c \in Connections, Thread(c) PROVE IInv'
  BY <1>1, TypeStep, PlaceStep, LockStep, StoreStep DEF IInv
<1>2. CASE UNCHANGED vars
  <2>1. TypeOK' /\ PlaceOK'
    BY <1>2 DEF IInv, TypeOK, PlaceOK, vars, threadVars, lockVars, followVars, eventVars
  <2>2. LockOK'
    BY <1>2, ZenonT(30) DEF IInv, LockOK, MutexOK, CountOK, WriteOK, HoldsMutex, Writing, InGroup,
                Counted, Uses, vars, threadVars, lockVars
  <2>3. StoreOK'
    BY <1>2 DEF IInv, StoreOK, SessionLimit, FollowOnce, InverseUpToPush, PushOK,
                vars, threadVars, followVars
  <2> QED BY <2>1, <2>2, <2>3 DEF IInv
<1> QED BY <1>1, <1>2 DEF Next, Served

LEMMA Inductive == Spec => []IInv
  BY InitIInv, NextIInv, PTL DEF Spec

-----------------------------------------------------------------------------
(***************************************************************************)
(* The semaphores stay binary and every variable keeps its type: no thread *)
(* posts a semaphore of ProfileSessionManager that it does not hold.       *)
(***************************************************************************)
THEOREM TypeCorrect == Spec => []TypeOK
  BY Inductive, PTL DEF IInv

(***************************************************************************)
(* No number of concurrent logins gives a user a third session, although   *)
(* open_session checks and appends in two statements.                      *)
(***************************************************************************)
THEOREM SessionLimitHolds == Spec => []SessionLimit
<1>1. IInv => SessionLimit
  BY DEF IInv, StoreOK
<1> QED BY <1>1, Inductive, PTL

(***************************************************************************)
(* No number of concurrent follows makes an account followed twice by the  *)
(* same user, and nobody follows their own account.                        *)
(***************************************************************************)
THEOREM FollowOnceHolds == Spec => []FollowOnce
<1>1. IInv => FollowOnce
  BY DEF IInv, StoreOK
<1> QED BY <1>1, Inductive, PTL

(***************************************************************************)
(* followed_by_map is the inverse of followers_map whenever a thread may   *)
(* read them: the thread between the two appends of write_follower         *)
(* excludes every reader and holds the semaphore.                          *)
(***************************************************************************)
THEOREM FollowInverseHolds == Spec => []FollowInverse
<1>1. IInv => FollowInverse
  <2> SUFFICES ASSUME IInv,
                      writeSem["followers"] = 1
                        \/ \E c \in Connections : Reading(c, "followers")
               PROVE  \A u, v \in Users :
                        v \in ToSet(followers_map[u]) <=> u \in ToSet(followed_by_map[v])
    BY DEF FollowInverse
  <2>1. \A c \in Connections : pc[c] # "push2"
    <3>1. SUFFICES ASSUME NEW c \in Connections, pc[c] = "push2" PROVE FALSE
      OBVIOUS
    <3>2. Writing(c, "followers") /\ "followers" \in Locks
      BY <3>1 DEF IInv, PlaceOK, Writing, WriterPCs, Uses, LockOf, Locks
    <3>3. writeSem["followers"] = 0 /\ \A d \in Connections : ~ InGroup(d, "followers")
      BY <3>2 DEF IInv, LockOK, WriteOK
    <3> QED BY <3>3 DEF Reading, ReaderPCs, InGroup
  <2> QED BY <2>1 DEF IInv, StoreOK, InverseUpToPush
<1> QED BY <1>1, Inductive, PTL

(***************************************************************************)
(* A list is never copied out of a map while another thread changes it.    *)
(***************************************************************************)
THEOREM SnapshotStableHolds == Spec => SnapshotStable
<1> DEFINE Stable == \A c \in Connections :
                       /\ Reading(c, "sessions")  => UNCHANGED sessions_map
                       /\ Reading(c, "followers") => UNCHANGED followVars
<1>1. IInv /\ [Next]_vars => Stable
  <2> SUFFICES ASSUME IInv, [Next]_vars, NEW c \in Connections
               PROVE  /\ Reading(c, "sessions")  => UNCHANGED sessions_map
                      /\ Reading(c, "followers") => UNCHANGED followVars
    OBVIOUS
  <2>1. ASSUME NEW d \in Connections, Thread(d), NEW l \in Locks, Reading(c, l)
        PROVE  ~ Writing(d, l)
    BY <2>1 DEF IInv, LockOK, WriteOK, Reading, ReaderPCs, InGroup
  <2>2. ASSUME NEW d \in Connections, PushSession(d) \/ EraseSessions(d)
        PROVE  Writing(d, "sessions") /\ UNCHANGED followVars
    BY <2>2 DEF IInv, PlaceOK, PushSession, EraseSessions, At, Writing, WriterPCs, Uses, LockOf
  <2>3. ASSUME NEW d \in Connections, PushFollower(d) \/ PushFollowed(d)
        PROVE  Writing(d, "followers") /\ UNCHANGED sessions_map
    BY <2>3 DEF IInv, PlaceOK, PushFollower, PushFollowed, At, Writing, WriterPCs, Uses, LockOf
  <2>4. ASSUME NEW d \in Connections, Thread(d),
               ~ (PushSession(d) \/ EraseSessions(d) \/ PushFollower(d) \/ PushFollowed(d))
        PROVE  UNCHANGED << sessions_map, followVars >>
    BY <2>4 DEF Thread, Writer, Reader, Call, FollowYourself, LockWrite, Check, SetArg,
                CopyArg, UnlockWrite, LockMutex, CountReader, FirstReader, UnlockMutex,
                Read, UncountReader, LastReader
  <2>5. CASE UNCHANGED vars
    BY <2>5 DEF vars
  <2> QED BY <2>1, <2>2, <2>3, <2>4, <2>5 DEF Next, Served, Locks, Thread, Writer
<1>2. Stable => [Stable]_vars
  OBVIOUS
<1> QED BY <1>1, Inductive, PTL DEF Spec, SnapshotStable

-----------------------------------------------------------------------------
(***************************************************************************)
(* ProfileSessionManager implements ProfileStore: for any number of        *)
(* threads every interleaving of their statements has the outcome of whole *)
(* calls made one after the other.                                         *)
(*                                                                         *)
(* Exactly one statement of each call is its Serve: the failing test, the  *)
(* first append, the erase or the copy.  The semaphores keep what the      *)
(* thread has tested true until then, and hide what is not finished.       *)
(***************************************************************************)
\* A call that has not taken effect has prepared no answer.
AnswerOK == \A c \in Connections : ~ TookEffect(c) => code[c] = 0 /\ list[c] = << >>

\* The test of a thread about to append still holds.
TestOK == \A c \in Connections : pc[c] = "push" => CodeOf(req[c]) = 0

IdleOK == \A c \in Connections : pc[c] = "idle" => req[c] = NoRequest

RInv == IInv /\ AnswerOK /\ TestOK /\ IdleOK

-----------------------------------------------------------------------------
LEMMA AnswerStep ==
  ASSUME TypeOK, AnswerOK, NEW c \in Connections, Thread(c)
  PROVE  AnswerOK'
<1> USE DEF AnswerOK, TookEffect, Goto, At
<1>t. /\ pc \in [Connections -> PCs]
      /\ code \in [Connections -> Codes]
      /\ list \in [Connections -> Seq(Users) \cup Seq(SessionIds)]
  BY DEF TypeOK
<1>1. CASE Call(c)
  BY <1>t, <1>1 DEF Call, Entry
<1>2. CASE FollowYourself(c)
  BY <1>t, <1>2 DEF FollowYourself
<1>3. CASE LockWrite(c) \/ Check(c)
  BY <1>t, <1>3 DEF LockWrite, Check
<1>4. CASE PushSession(c) \/ EraseSessions(c) \/ PushFollower(c) \/ PushFollowed(c)
  BY <1>t, <1>4 DEF PushSession, EraseSessions, PushFollower, PushFollowed
<1>5. CASE SetArg(c) \/ CopyArg(c) \/ UnlockWrite(c)
  BY <1>t, <1>5 DEF SetArg, CopyArg, UnlockWrite, Fields, FieldRead, NextStatement
<1>6. CASE Reader(c)
  BY <1>t, <1>6 DEF Reader, LockMutex, CountReader, FirstReader, UnlockMutex, Read,
     UncountReader, LastReader
<1> QED
  BY <1>1, <1>2, <1>3, <1>4, <1>5, <1>6 DEF Thread, Writer

(***************************************************************************)
(* No other thread changes a map of the lock a thread writes under.        *)
(***************************************************************************)
LEMMA TestStep ==
  ASSUME TypeOK, PlaceOK, LockOK, TestOK, NEW c \in Connections, Thread(c)
  PROVE  TestOK'
<1> SUFFICES ASSUME NEW d \in Connections, pc'[d] = "push" PROVE CodeOf(req[d])' = 0
  BY DEF TestOK
<1> USE DEF Goto, At
<1>t. pc \in [Connections -> PCs] /\ req \in [Connections -> Request \cup {NoRequest}]
  BY DEF TypeOK
<1>1. CASE Check(c) /\ d = c
  BY <1>t, <1>1 DEF Check, CodeOf, followVars
<1>2. CASE ~ (Check(c) /\ d = c)
  <2>1. d # c /\ pc[d] = "push" /\ req'[d] = req[d]
    BY <1>t, <1>2, SMTT(30) DEF Thread, Writer, Reader, Call, Entry, FollowYourself, LockWrite, Check,
       PushSession, EraseSessions, PushFollower, PushFollowed, SetArg, CopyArg, UnlockWrite,
       LockMutex, CountReader, FirstReader, UnlockMutex, Read, UncountReader, LastReader,
       Fields, FieldRead, NextStatement
  <2>2. CodeOf(req[d]) = 0 /\ req[d].op \in {"login", "follow"}
    BY <2>1 DEF TestOK, PlaceOK
  <2>3. CASE req[d].op = "login"
    <3>1. ~ (PushSession(c) \/ EraseSessions(c))
      <4>1. SUFFICES ASSUME PushSession(c) \/ EraseSessions(c) PROVE FALSE
        OBVIOUS
      <4>2. pc[c] \in {"push", "erase"} /\ req[c].op \in {"login", "logout"}
        BY <4>1 DEF PushSession, EraseSessions, PlaceOK
      <4> QED
        BY <2>1, <2>3, <4>2, OneWriter DEF LockOf, WriterPCs
    <3>2. UNCHANGED sessions_map
      BY <3>1 DEF Thread, Writer, Reader, Call, FollowYourself, LockWrite, Check,
         PushFollower, PushFollowed, SetArg, CopyArg, UnlockWrite,
         LockMutex, CountReader, FirstReader, UnlockMutex, Read, UncountReader, LastReader
    <3> QED
      BY <2>1, <2>2, <2>3, <3>2 DEF CodeOf
  <2>4. CASE req[d].op = "follow"
    <3>1. ~ PushFollower(c)
      <4>1. SUFFICES ASSUME PushFollower(c) PROVE FALSE
        OBVIOUS
      <4>2. pc[c] = "push" /\ req[c].op = "follow"
        BY <4>1 DEF PushFollower
      <4> QED
        BY <2>1, <2>4, <4>2, OneWriter DEF LockOf, WriterPCs
    <3>2. UNCHANGED followers_map
      BY <3>1 DEF Thread, Writer, Reader, Call, FollowYourself, LockWrite, Check, PushSession,
         EraseSessions, PushFollowed, SetArg, CopyArg, UnlockWrite, followVars,
         LockMutex, CountReader, FirstReader, UnlockMutex, Read, UncountReader, LastReader
    <3> QED
      BY <2>1, <2>2, <2>4, <3>2 DEF CodeOf
  <2> QED
    BY <2>2, <2>3, <2>4
<1> QED
  BY <1>1, <1>2

LEMMA IdleStep ==
  ASSUME TypeOK, IdleOK, NEW c \in Connections, Thread(c)
  PROVE  IdleOK'
<1> SUFFICES ASSUME NEW d \in Connections, pc'[d] = "idle" PROVE req'[d] = NoRequest
  BY DEF IdleOK
<1>1. pc \in [Connections -> PCs] /\ req \in [Connections -> Request \cup {NoRequest}]
  BY DEF TypeOK
<1>2. pc[d] = "idle" /\ (req'[d] = req[d] \/ d = c)
  BY <1>1, SMTT(30) DEF Thread, Writer, Reader, Call, Entry, FollowYourself, LockWrite, Check,
     PushSession, EraseSessions, PushFollower, PushFollowed, SetArg, CopyArg, UnlockWrite,
     LockMutex, CountReader, FirstReader, UnlockMutex, Read, UncountReader, LastReader,
     Fields, FieldRead, NextStatement, Goto, At
<1>3. d # c
  BY <1>1, SMTT(30) DEF Thread, Writer, Reader, Call, Entry, FollowYourself, LockWrite, Check,
     PushSession, EraseSessions, PushFollower, PushFollowed, SetArg, CopyArg, UnlockWrite,
     LockMutex, CountReader, FirstReader, UnlockMutex, Read, UncountReader, LastReader,
     Fields, FieldRead, NextStatement, Goto, At
<1> QED
  BY <1>2, <1>3 DEF IdleOK

LEMMA InitRInv == Init => RInv
<1> SUFFICES ASSUME Init PROVE RInv
  OBVIOUS
<1>1. AnswerOK /\ TestOK /\ IdleOK
  BY DEF Init, AnswerOK, TestOK, IdleOK
<1> QED
  BY <1>1, InitIInv DEF RInv

LEMMA NextRInv == RInv /\ [Next]_vars => RInv'
<1> SUFFICES ASSUME RInv, [Next]_vars PROVE RInv'
  OBVIOUS
<1>1. IInv'
  BY NextIInv DEF RInv
<1>2. AnswerOK' /\ TestOK' /\ IdleOK'
  <2>1. ASSUME NEW c \in Connections, Thread(c) PROVE AnswerOK' /\ TestOK' /\ IdleOK'
    BY <2>1, AnswerStep, TestStep, IdleStep DEF RInv, IInv
  <2>2. CASE UNCHANGED vars
    BY <2>2 DEF RInv, AnswerOK, TestOK, IdleOK, TookEffect, CodeOf, vars, threadVars, followVars
  <2> QED
    BY <2>1, <2>2 DEF Next, Served
<1> QED
  BY <1>1, <1>2 DEF RInv

-----------------------------------------------------------------------------
(***************************************************************************)
(* How the mapped values follow the variables.                             *)
(***************************************************************************)
\* The two modules take the same decisions.
LEMMA SameOps ==
  /\ \A c : Store!RequestsOf(c) = RequestsOf(c)
  /\ \A s, id : Store!LoginCode(s, id) = LoginCode(s, id)
  /\ \A s, a : Store!FollowCode(s, a) = FollowCode(s, a)
  /\ \A s, id : Store!EraseSession(s, id) = EraseSession(s, id)
  /\ Store!ERROR_FOLLOW_YOURSELF = ERROR_FOLLOW_YOURSELF
  /\ Store!ReadOps = ReadOps
  /\ Store!NoRequest = NoRequest
  /\ Store!Unanswered = [code |-> -1, list |-> << >>]
<1>1. \A c : Store!RequestsOf(c) = RequestsOf(c)
  BY DEF Store!RequestsOf, RequestsOf, Store!Request, Request, Store!SessionIds, SessionIds,
     Store!ReadOps, ReadOps, Store!WriteOps, WriteOps
<1>2. \A s : Store!ToSet(s) = ToSet(s)
  BY DEF Store!ToSet, ToSet
<1>3. \A s, id : Store!LoginCode(s, id) = LoginCode(s, id)
  BY DEF Store!LoginCode, LoginCode, Store!SESSIONS_LIMIT, SESSIONS_LIMIT,
     Store!ERROR_SESSIONS_LIMIT, ERROR_SESSIONS_LIMIT,
     Store!ERROR_SESSION_ALREADY_STARTED, ERROR_SESSION_ALREADY_STARTED
<1>4. \A s, a : Store!FollowCode(s, a) = FollowCode(s, a)
  BY <1>2 DEF Store!FollowCode, FollowCode, Store!ERROR_ALREADY_FOLLOWING_ACCOUNT,
     ERROR_ALREADY_FOLLOWING_ACCOUNT
<1>5. \A s, i : Store!RemoveAt(s, i) = RemoveAt(s, i)
  BY DEF Store!RemoveAt, RemoveAt
<1>6. \A s, id : Store!EraseSession(s, id) = EraseSession(s, id)
  BY <1>2, <1>5 DEF Store!EraseSession, EraseSession
<1> QED
  BY <1>1, <1>3, <1>4, <1>6 DEF Store!ERROR_FOLLOW_YOURSELF, ERROR_FOLLOW_YOURSELF,
     Store!ReadOps, ReadOps, Store!NoRequest, NoRequest, Store!Unanswered

\* The second append moves the user from the pending follows to the map.
LEMMA FollowedByKept ==
  ASSUME UNCHANGED << followed_by_map, req >>,
         \A d \in Connections : pc'[d] = "push2" <=> pc[d] = "push2"
  PROVE  FollowedBy' = FollowedBy
<1>1. ASSUME NEW u \in Users PROVE PendingFollows(u)' = PendingFollows(u)
  BY DEF PendingFollows, At
<1> QED
  BY <1>1 DEF FollowedBy

LEMMA AnswersKept ==
  ASSUME UNCHANGED << code, list >>,
         \A d \in Connections : TookEffect(d)' <=> TookEffect(d)
  PROVE  Answers' = Answers
  BY DEF Answers

LEMMA AnswersGiven ==
  ASSUME NEW c \in Connections, ~ TookEffect(c), TookEffect(c)',
         \A d \in Connections \ {c} : /\ pc'[d] = pc[d]
                                      /\ code'[d] = code[d]
                                      /\ list'[d] = list[d]
  PROVE  /\ Answers[c] = [code |-> -1, list |-> << >>]
         /\ Answers' = [Answers EXCEPT ![c] = [code |-> code'[c], list |-> list'[c]]]
<1>1. \A d \in Connections \ {c} : TookEffect(d)' <=> TookEffect(d)
  BY DEF TookEffect
<1> QED
  BY <1>1 DEF Answers

(***************************************************************************)
(* While a thread writes the follow relation or reads it, no other follow  *)
(* is between its two appends.                                             *)
(***************************************************************************)
LEMMA NothingPending ==
  ASSUME PlaceOK, LockOK, NEW c \in Connections, pc[c] # "push2",
         Writing(c, "followers") \/ Reading(c, "followers")
  PROVE  \A d \in Connections : pc[d] # "push2"
<1>1. SUFFICES ASSUME NEW d \in Connections, pc[d] = "push2" PROVE FALSE
  OBVIOUS
<1>2. Writing(d, "followers") /\ "followers" \in Locks /\ c # d
  BY <1>1 DEF PlaceOK, Writing, WriterPCs, Uses, LockOf, Locks
<1>3. ~ InGroup(c, "followers") /\ ~ Writing(c, "followers")
  BY <1>2 DEF LockOK, WriteOK
<1> QED
  BY <1>3 DEF Reading, ReaderPCs, InGroup

LEMMA FollowedBySettled ==
  ASSUME TypeOK, \A d \in Connections : pc[d] # "push2"
  PROVE  FollowedBy = followed_by_map
<1>1. \A u \in Users : PendingFollows(u) = {} /\ followed_by_map[u] \in Seq(Users)
  BY DEF PendingFollows, At, TypeOK
<1>2. \A u \in Users : followed_by_map[u] \o << >> = followed_by_map[u]
  BY <1>1
<1>3. followed_by_map = [u \in Users |-> followed_by_map[u]]
  BY DEF TypeOK
<1> QED
  BY <1>1, <1>2, <1>3 DEF FollowedBy

LEMMA FollowedByOne ==
  ASSUME TypeOK, NEW c \in Connections, req[c].user \in Users, req[c].other \in Users,
         \A d \in Connections : pc[d] = "push2" <=> d = c
  PROVE  FollowedBy = [followed_by_map EXCEPT ![req[c].other] = Append(@, req[c].user)]
<1>1. ASSUME NEW u \in Users
      PROVE  PendingFollows(u) = IF u = req[c].other THEN {c} ELSE {}
  BY DEF PendingFollows, At
<1>2. Pick({c}) = c
  BY DEF Pick
<1>3. ASSUME NEW u \in Users
      PROVE  /\ followed_by_map[u] \o << >> = followed_by_map[u]
             /\ followed_by_map[u] \o << req[c].user >> = Append(followed_by_map[u], req[c].user)
  <2>1. followed_by_map[u] \in Seq(Users)
    BY DEF TypeOK
  <2> QED
    BY <2>1
<1>4. ASSUME NEW u \in Users
      PROVE  FollowedBy[u] = IF u = req[c].other THEN Append(followed_by_map[u], req[c].user)
                                                 ELSE followed_by_map[u]
  BY <1>1, <1>2, <1>3 DEF FollowedBy
<1>5. followed_by_map \in [Users -> Seq(Users)] /\ FollowedBy = [u \in Users |-> FollowedBy[u]]
  BY DEF TypeOK, FollowedBy
<1> QED
  BY <1>4, <1>5

-----------------------------------------------------------------------------
(***************************************************************************)
(* Each statement is a step of the store, or none.                         *)
(***************************************************************************)
LEMMA CallStep ==
  ASSUME TypeOK, IdleOK, NEW c \in Connections, Call(c)
  PROVE  Store!Arrive(c)
<1>1. /\ pc \in [Connections -> PCs]
      /\ pc[c] = "idle" /\ req[c] = NoRequest
      /\ UNCHANGED << code, list, sessions_map, followers_map, followed_by_map >>
      /\ \A d \in Connections \ {c} : pc'[d] = pc[d] /\ req'[d] = req[d]
      /\ pc'[c] \in {"enter", "compare", "lock"}
      /\ \E r \in RequestsOf(c) : req' = [req EXCEPT ![c] = r]
  BY DEF TypeOK, IdleOK, Call, Entry, Goto, At, followVars
<1>2. Answers' = Answers
  <2>1. \A d \in Connections : TookEffect(d)' <=> TookEffect(d)
    BY <1>1 DEF TookEffect
  <2> QED
    BY <1>1, <2>1, AnswersKept
<1>3. FollowedBy' = FollowedBy
  <2>1. ASSUME NEW u \in Users PROVE PendingFollows(u)' = PendingFollows(u)
    BY <1>1 DEF PendingFollows, At
  <2>2. ASSUME NEW u \in Users, PendingFollows(u) # {}
        PROVE  req'[Pick(PendingFollows(u))] = req[Pick(PendingFollows(u))]
    <3>1. Pick(PendingFollows(u)) \in PendingFollows(u)
      BY <2>2 DEF Pick
    <3> QED
      BY <1>1, <3>1 DEF PendingFollows, At
  <2> QED
    BY <1>1, <2>1, <2>2 DEF FollowedBy
<1> QED
  BY <1>1, <1>2, <1>3, SameOps DEF Store!Arrive

LEMMA Refuse ==
  ASSUME TypeOK, PlaceOK, AnswerOK, NEW c \in Connections,
         \/ FollowYourself(c) /\ req[c].user = req[c].other
         \/ Check(c) /\ CodeOf(req[c]) # 0
  PROVE  Store!Serve(c)
<1>1. /\ req[c] # NoRequest /\ req[c].op \in {"login", "follow"}
      /\ Check(c) /\ req[c].op = "follow" => req[c].user # req[c].other
      /\ FollowYourself(c) => req[c].op = "follow"
  BY OwnRequest DEF PlaceOK, WriterPCs, FollowYourself, Check, At, NoRequest, WriteOps, ReadOps
<1>2. /\ UNCHANGED << req, list, sessions_map, followers_map, followed_by_map >>
      /\ pc[c] \in {"compare", "check"} /\ pc'[c] \in {"done", "unlock"}
      /\ \A d \in Connections \ {c} : pc'[d] = pc[d] /\ code'[d] = code[d]
      /\ code'[c] = IF Check(c) THEN CodeOf(req[c]) ELSE ERROR_FOLLOW_YOURSELF
      /\ Check(c) => ~ FollowYourself(c)
  BY DEF TypeOK, FollowYourself, Check, Goto, At, followVars
<1>3. FollowedBy' = FollowedBy
  BY <1>2, FollowedByKept
<1>4. list[c] = << >>
  BY <1>2 DEF AnswerOK, TookEffect
<1>5. /\ Answers[c] = [code |-> -1, list |-> << >>]
      /\ Answers' = [Answers EXCEPT ![c] = [code |-> code'[c], list |-> << >>]]
  <2>1. ~ TookEffect(c) /\ TookEffect(c)'
    BY <1>2 DEF TookEffect
  <2> QED
    BY <1>2, <1>4, <2>1, AnswersGiven
<1>6. CASE FollowYourself(c)
  <2>1. Store!FollowYourself(c, req[c])
    BY <1>1, <1>2, <1>3, <1>5, <1>6, SameOps
       DEF Store!FollowYourself, Store!Answer
  <2> QED
    BY <1>1, <2>1, SameOps DEF Store!Serve
<1>7. CASE Check(c) /\ req[c].op = "login"
  <2>1. LoginCode(sessions_map[req[c].user], req[c].id) = code'[c] /\ code'[c] # 0
    BY <1>2, <1>7 DEF CodeOf
  <2>2. Store!Login(c, req[c])
    BY <1>2, <1>3, <1>5, <1>7, <2>1, SameOps
       DEF Store!Login, Store!Answer
  <2> QED
    BY <1>1, <2>2, SameOps DEF Store!Serve
<1>8. CASE Check(c) /\ req[c].op = "follow"
  <2>1. FollowCode(followers_map[req[c].user], req[c].other) = code'[c] /\ code'[c] # 0
    BY <1>2, <1>8 DEF CodeOf
  <2>2. Store!Follow(c, req[c])
    BY <1>1, <1>2, <1>3, <1>5, <1>8, <2>1, SameOps
       DEF Store!Follow, Store!Answer
  <2> QED
    BY <1>1, <2>2, SameOps DEF Store!Serve
<1> QED
  BY <1>1, <1>6, <1>7, <1>8

LEMMA SessionChange ==
  ASSUME TypeOK, PlaceOK, AnswerOK, TestOK, NEW c \in Connections,
         PushSession(c) \/ EraseSessions(c)
  PROVE  Store!Serve(c)
<1>1. req[c] # NoRequest /\ req[c].op = IF PushSession(c) THEN "login" ELSE "logout"
  BY OwnRequest DEF PlaceOK, PushSession, EraseSessions, At, NoRequest, WriteOps, ReadOps
<1>2. /\ UNCHANGED << req, code, list, followers_map, followed_by_map >>
      /\ pc[c] \in {"push", "erase"} /\ pc'[c] = "arg0"
      /\ \A d \in Connections \ {c} : pc'[d] = pc[d]
  BY DEF TypeOK, PushSession, EraseSessions, Goto, At, followVars
<1>3. FollowedBy' = FollowedBy
  BY <1>2, FollowedByKept
<1>4. code[c] = 0 /\ list[c] = << >>
  BY <1>2 DEF AnswerOK, TookEffect
<1>5. /\ Answers[c] = [code |-> -1, list |-> << >>]
      /\ Answers' = [Answers EXCEPT ![c] = [code |-> 0, list |-> << >>]]
  <2>1. ~ TookEffect(c) /\ TookEffect(c)'
    BY <1>2 DEF TookEffect
  <2> QED
    BY <1>2, <1>4, <2>1, AnswersGiven
<1>6. CASE PushSession(c)
  <2>1. LoginCode(sessions_map[req[c].user], req[c].id) = 0
    BY <1>1, <1>6 DEF TestOK, CodeOf, PushSession, At
  <2>2. sessions_map' = [sessions_map EXCEPT ![req[c].user] = Append(@, req[c].id)]
    BY <1>6 DEF PushSession
  <2>3. Store!Login(c, req[c])
    BY <1>1, <1>2, <1>3, <1>5, <1>6, <2>1, <2>2, SameOps
       DEF Store!Login, Store!Answer
  <2> QED
    BY <1>1, <2>3, SameOps DEF Store!Serve
<1>7. CASE ~ PushSession(c)
  <2>1. sessions_map' = [sessions_map EXCEPT ![req[c].user] = EraseSession(@, req[c].id)]
    BY <1>7 DEF EraseSessions
  <2>2. Store!Logout(c, req[c])
    BY <1>1, <1>2, <1>3, <1>5, <1>7, <2>1, SameOps
       DEF Store!Logout, Store!Answer
  <2> QED
    BY <1>1, <2>2, SameOps DEF Store!Serve
<1> QED
  BY <1>6, <1>7

LEMMA FirstAppend ==
  ASSUME TypeOK, PlaceOK, LockOK, AnswerOK, TestOK, NEW c \in Connections, PushFollower(c)
  PROVE  Store!Serve(c)
<1>1. /\ req[c] # NoRequest /\ req[c].op = "follow" /\ req[c].user # req[c].other
      /\ req[c].user \in Users /\ req[c].other \in Users
  BY OwnRequest DEF PlaceOK, WriterPCs, PushFollower, At, NoRequest
<1>2. /\ UNCHANGED << req, code, list, sessions_map, followed_by_map >>
      /\ pc[c] = "push" /\ pc'[c] = "push2"
      /\ \A d \in Connections \ {c} : pc'[d] = pc[d]
      /\ followers_map' = [followers_map EXCEPT ![req[c].user] = Append(@, req[c].other)]
  BY DEF TypeOK, PushFollower, Goto, At
<1>3. \A d \in Connections : pc[d] # "push2"
  BY <1>1, <1>2, NothingPending DEF Writing, WriterPCs, Uses, LockOf
<1>4. FollowedBy = followed_by_map
  BY <1>3, FollowedBySettled
<1>5. FollowedBy' = [followed_by_map EXCEPT ![req[c].other] = Append(@, req[c].user)]
  <2>1. ASSUME NEW u \in Users
        PROVE  PendingFollows(u)' = IF u = req[c].other THEN {c} ELSE {}
    BY <1>2, <1>3 DEF PendingFollows, At
  <2>2. Pick({c}) = c
    BY DEF Pick
  <2>3. ASSUME NEW u \in Users
        PROVE  /\ followed_by_map[u] \o << >> = followed_by_map[u]
               /\ followed_by_map[u] \o << req[c].user >> = Append(followed_by_map[u], req[c].user)
    <3>1. followed_by_map[u] \in Seq(Users)
      BY DEF TypeOK
    <3> QED
      BY <1>1, <3>1
  <2>4. /\ FollowedBy' = [u \in Users |-> FollowedBy'[u]]
        /\ \A u \in Users : FollowedBy'[u] =
             IF u = req[c].other THEN Append(followed_by_map[u], req[c].user)
                                 ELSE followed_by_map[u]
    BY <1>2, <2>1, <2>2, <2>3 DEF FollowedBy
  <2>5. followed_by_map \in [Users -> Seq(Users)]
    BY DEF TypeOK
  <2> QED
    BY <1>1, <2>4, <2>5
<1>6. FollowedBy' = [FollowedBy EXCEPT ![req[c].other] = Append(@, req[c].user)]
  BY <1>4, <1>5
<1>7. /\ Answers[c] = [code |-> -1, list |-> << >>]
      /\ Answers' = [Answers EXCEPT ![c] = [code |-> 0, list |-> << >>]]
  <2>1. ~ TookEffect(c) /\ TookEffect(c)' /\ code[c] = 0 /\ list[c] = << >>
    BY <1>2 DEF AnswerOK, TookEffect
  <2> QED
    BY <1>2, <2>1, AnswersGiven
<1>8. FollowCode(followers_map[req[c].user], req[c].other) = 0
  BY <1>1, <1>2 DEF TestOK, CodeOf
<1>9. Store!Follow(c, req[c])
  BY <1>1, <1>2, <1>6, <1>7, <1>8, SameOps
     DEF Store!Follow, Store!Answer
<1> QED
  BY <1>1, <1>9, SameOps DEF Store!Serve

LEMMA ReadStep ==
  ASSUME TypeOK, PlaceOK, LockOK, AnswerOK, NEW c \in Connections, Read(c)
  PROVE  Store!Serve(c)
<1>1. req[c] # NoRequest /\ req[c].op \in ReadOps
  BY OwnRequest DEF PlaceOK, ReaderPCs, Read, At, NoRequest, ReadOps
<1>2. /\ UNCHANGED << req, code, sessions_map, followers_map, followed_by_map >>
      /\ pc[c] = "read" /\ pc'[c] = "leave"
      /\ \A d \in Connections \ {c} : pc'[d] = pc[d] /\ list'[d] = list[d]
      /\ list'[c] = Listing(req[c])
  BY DEF TypeOK, Read, Goto, At, followVars
<1>3. FollowedBy' = FollowedBy
  BY <1>2, FollowedByKept
<1>4. /\ Answers[c] = [code |-> -1, list |-> << >>]
      /\ Answers' = [Answers EXCEPT ![c] = [code |-> 0, list |-> Listing(req[c])]]
  <2>1. ~ TookEffect(c) /\ TookEffect(c)' /\ code[c] = 0
    BY <1>2 DEF AnswerOK, TookEffect
  <2> QED
    BY <1>2, <2>1, AnswersGiven
<1>5. req[c].op = "read_followed" => FollowedBy = followed_by_map
  <2>1. SUFFICES ASSUME req[c].op = "read_followed" PROVE \A d \in Connections : pc[d] # "push2"
    BY FollowedBySettled
  <2> QED
    BY <1>2, <2>1, NothingPending DEF Reading, ReaderPCs, Uses, LockOf
<1>6. [ read_open_sessions |-> sessions_map,
        read_followers     |-> followers_map,
        read_followed      |-> FollowedBy ][req[c].op][req[c].user] = Listing(req[c])
  BY <1>1, <1>5 DEF Listing, ReadOps
<1>7. Store!Read(c, req[c])
  BY <1>1, <1>2, <1>3, <1>4, <1>6, SameOps
     DEF Store!Read, Store!Listing, Store!Answer
<1> QED
  BY <1>1, <1>7, SameOps DEF Store!Serve

LEMMA QuietStep ==
  ASSUME TypeOK, PlaceOK, LockOK, NEW c \in Connections, Thread(c),
         ~ Call(c),
         ~ (FollowYourself(c) /\ req[c].user = req[c].other),
         ~ (Check(c) /\ CodeOf(req[c]) # 0),
         ~ (PushSession(c) \/ EraseSessions(c) \/ PushFollower(c) \/ Read(c))
  PROVE  UNCHANGED Store!storeVars
<1>1. pc \in [Connections -> PCs] /\ code \in [Connections -> Codes]
  BY DEF TypeOK
<1>2. /\ UNCHANGED << req, list, sessions_map, followers_map >>
      /\ \A d \in Connections \ {c} : pc'[d] = pc[d] /\ code'[d] = code[d]
      /\ TookEffect(c)' <=> TookEffect(c)
      /\ TookEffect(c) => UNCHANGED code
  BY <1>1, SMTT(30) DEF Thread, Writer, Reader, FollowYourself, LockWrite, Check,
     PushFollowed, SetArg, CopyArg, UnlockWrite,
     LockMutex, CountReader, FirstReader, UnlockMutex, UncountReader, LastReader,
     Fields, FieldRead, NextStatement, Goto, At, TookEffect, followVars
<1>3. Answers' = Answers
  <2>1. \A d \in Connections : /\ TookEffect(d)' <=> TookEffect(d)
                               /\ TookEffect(d) => code'[d] = code[d]
    BY <1>2 DEF TookEffect
  <2> QED
    BY <1>2, <2>1 DEF Answers
<1>4. FollowedBy' = FollowedBy
  <2>1. CASE PushFollowed(c)
    <3>1. /\ pc[c] = "push2" /\ req[c].op = "follow" /\ pc'[c] = "arg0"
          /\ req[c].user \in Users /\ req[c].other \in Users
          /\ followed_by_map' = [followed_by_map EXCEPT ![req[c].other] = Append(@, req[c].user)]
      BY <1>1, <2>1, OwnRequest DEF PushFollowed, PlaceOK, Goto, At
    <3>2. \A d \in Connections : pc[d] = "push2" <=> d = c
      <4>1. ASSUME NEW d \in Connections, pc[d] = "push2" PROVE d = c
        <5>1. req[d].op = "follow"
          BY <4>1 DEF PlaceOK
        <5> QED
          BY <3>1, <4>1, <5>1, OneWriter DEF WriterPCs
      <4> QED
        BY <3>1, <4>1
    <3>3. \A d \in Connections : pc'[d] # "push2"
      BY <1>2, <3>1, <3>2
    <3>4. FollowedBy = followed_by_map'
      BY <3>1, <3>2, FollowedByOne
    <3>5. FollowedBy' = followed_by_map'
      <4>1. \A u \in Users : PendingFollows(u)' = {}
        BY <3>3 DEF PendingFollows, At
      <4>2. followed_by_map' \in [Users -> Seq(Users)]
        BY <3>1 DEF TypeOK
      <4>3. \A u \in Users : followed_by_map'[u] \o << >> = followed_by_map'[u]
        BY <4>2
      <4> QED
        BY <4>1, <4>2, <4>3 DEF FollowedBy
    <3> QED
      BY <3>4, <3>5
  <2>2. CASE ~ PushFollowed(c)
    <3>1. /\ UNCHANGED followed_by_map
          /\ pc'[c] = "push2" <=> pc[c] = "push2"
      BY <1>1, <2>2, SMTT(30) DEF Thread, Writer, Reader, FollowYourself, LockWrite, Check,
         PushFollowed, SetArg, CopyArg, UnlockWrite,
         LockMutex, CountReader, FirstReader, UnlockMutex, UncountReader, LastReader,
         Fields, FieldRead, NextStatement, Goto, At, followVars
    <3> QED
      BY <1>2, <3>1, FollowedByKept
  <2> QED
    BY <2>1, <2>2
<1> QED
  BY <1>2, <1>3, <1>4 DEF Store!storeVars

-----------------------------------------------------------------------------
(***************************************************************************)
(* Linearizability, for any number of threads: every interleaving of the   *)
(* statements of login, logout, follow and the read_* methods has the      *)
(* outcome of some sequence of whole calls.                                *)
(***************************************************************************)
THEOREM LinearizableHolds == Spec => Linearizable
<1>1. Init => Store!StoreInit
  <2> SUFFICES ASSUME Init PROVE Store!StoreInit
    OBVIOUS
  <2>1. Answers = [c \in Connections |-> [code |-> -1, list |-> << >>]]
    BY DEF Init, Answers, TookEffect
  <2>2. FollowedBy = [u \in Users |-> << >>]
    <3>1. \A u \in Users : PendingFollows(u) = {} /\ followed_by_map[u] = << >>
      BY DEF Init, PendingFollows, At
    <3>2. << >> \o << >> = << >>
      OBVIOUS
    <3> QED
      BY <3>1, <3>2 DEF FollowedBy
  <2> QED
    BY <2>1, <2>2, SameOps DEF Init, Store!StoreInit
<1>2. RInv /\ [Next]_vars => [Store!StoreNext]_(Store!storeVars)
  <2> SUFFICES ASSUME RInv, [Next]_vars PROVE Store!StoreNext \/ UNCHANGED Store!storeVars
    OBVIOUS
  <2>1. ASSUME NEW c \in Connections, Thread(c)
        PROVE  Store!Arrive(c) \/ Store!Serve(c) \/ UNCHANGED Store!storeVars
    <3>1. CASE Call(c)
      BY <3>1, CallStep DEF RInv, IInv
    <3>2. CASE \/ FollowYourself(c) /\ req[c].user = req[c].other
               \/ Check(c) /\ CodeOf(req[c]) # 0
      BY <3>2, Refuse DEF RInv, IInv
    <3>3. CASE PushSession(c) \/ EraseSessions(c)
      BY <3>3, SessionChange DEF RInv, IInv
    <3>4. CASE PushFollower(c)
      BY <3>4, FirstAppend DEF RInv, IInv
    <3>5. CASE Read(c)
      BY <3>5, ReadStep DEF RInv, IInv
    <3> QED
      BY <2>1, <3>1, <3>2, <3>3, <3>4, <3>5, QuietStep DEF RInv, IInv
  <2>2. CASE UNCHANGED vars
    <3>1. /\ UNCHANGED << pc, req, code, list, sessions_map, followers_map, followed_by_map >>
          /\ \A d \in Connections : TookEffect(d)' <=> TookEffect(d)
      BY <2>2 DEF vars, threadVars, followVars, TookEffect
    <3>2. Answers' = Answers /\ FollowedBy' = FollowedBy
      BY <3>1, AnswersKept, FollowedByKept
    <3> QED
      BY <3>1, <3>2 DEF Store!storeVars
  <2> QED
    BY <2>1, <2>2 DEF Next, Served, Store!StoreNext
<1> QED
  BY <1>1, <1>2, InitRInv, NextRInv, PTL DEF Spec, Linearizable, Store!StoreSpec

=============================================================================

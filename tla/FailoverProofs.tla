---------------------------- MODULE FailoverProofs ----------------------------
(***************************************************************************)
(* Failover, for any servers, hosts and ports: which fields arrive as they *)
(* were sent, what a backup knows that has been told, and that there is    *)
(* one primary.                                                            *)
(***************************************************************************)
EXTENDS Failover, FiniteSetTheorems, SequenceTheorems, TLAPS

LEMMA Bytes ==
  ASSUME NEW x \in Fields
  PROVE  /\ x % 256 \in 0 .. 255
         /\ x \div 256 \in 0 .. 255
         /\ x = 256 * (x \div 256) + (x % 256)
<1>1. x \in Int /\ 0 <= x /\ x <= 65535
  BY DEF Fields
<1>2. x \div 256 \in Int /\ x % 256 \in 0 .. 255 /\ x = 256 * (x \div 256) + (x % 256)
  BY <1>1, SMTT(30)
<1> DEFINE q == x \div 256
           r == x % 256
<1>3. q \in 0 .. 255
  <2> HIDE DEF q, r
  <2> QED
    BY <1>1, <1>2 DEF q, r
<1> QED
  BY <1>2, <1>3

(***************************************************************************)
(* A field arrives as it was sent exactly if it is below 2^15 or its lower *)
(* byte is of ones anyway: a receiver of __packet::Deserialize or of       *)
(* MSG_LIST_BACKUP misreads every other one.                               *)
(***************************************************************************)
THEOREM FieldArrives ==
  ASSUME NEW x \in Fields
  PROVE  DecodeField(EncodeField(x)) = x <=> (x < 32768 \/ x % 256 = 255)
<1> DEFINE low == x % 256
           high == x \div 256
<1>1. low \in 0 .. 255 /\ high \in 0 .. 255 /\ x = 256 * high + low
  BY Bytes
<1>2. EncodeField(x) = << low, high >>
  BY DEF EncodeField
<1>3. DecodeField(EncodeField(x)) = (IF high >= 128 THEN 255 ELSE low) + 256 * high
  BY <1>2 DEF DecodeField
<1> HIDE DEF low, high
<1>4. high >= 128 <=> x >= 32768
  BY <1>1
<1>5. CASE high >= 128
  BY <1>1, <1>3, <1>4, <1>5 DEF low
<1>6. CASE high < 128
  BY <1>1, <1>3, <1>4, <1>6
<1> QED
  BY <1>1, <1>5, <1>6

(***************************************************************************)
(* The ports of the backups, 6001 to 6999, arrive as they are: a backup    *)
(* finds itself in the list by its port.                                   *)
(***************************************************************************)
THEOREM BackupPortArrives ==
  ASSUME NEW x \in 6001 .. 6999
  PROVE  DecodeField(EncodeField(x)) = x
<1>1. x \in Int /\ 6001 <= x /\ x <= 6999
  OBVIOUS
<1>2. x \in Fields
  BY <1>1 DEF Fields
<1>3. x < 32768
  BY <1>1
<1> QED
  BY <1>2, <1>3, FieldArrives

-----------------------------------------------------------------------------
(***************************************************************************)
(* Lists.  Keep has every entry at one of the places, and no other.        *)
(***************************************************************************)
Below(places, i) == {k \in places : k < i}

LEMMA Ranks ==
  ASSUME NEW n \in Nat, NEW places \in SUBSET (1 .. n)
  PROVE  /\ IsFiniteSet(places) /\ Cardinality(places) \in Nat
         /\ \A i \in places : Cardinality(Below(places, i)) \in 0 .. Cardinality(places) - 1
         /\ \A i, j \in places :
              i < j => Cardinality(Below(places, i)) < Cardinality(Below(places, j))
<1>1. IsFiniteSet(1 .. n)
  BY FS_Interval
<1>2. IsFiniteSet(places) /\ Cardinality(places) \in Nat
  BY <1>1, FS_Subset, FS_CardinalityType
<1>3. ASSUME NEW S \in SUBSET places, NEW x \in places, x \notin S
      PROVE  Cardinality(S) \in Nat /\ Cardinality(S) < Cardinality(places)
  <2>1. Cardinality(S) \in Nat /\ Cardinality(S) <= Cardinality(places) /\ S # places
    BY <1>2, <1>3, FS_Subset, FS_CardinalityType
  <2>2. Cardinality(S) # Cardinality(places)
    BY <1>2, <2>1, FS_Subset
  <2> QED
    BY <1>2, <2>1, <2>2
<1>4. ASSUME NEW i \in places
      PROVE  Cardinality(Below(places, i)) \in 0 .. Cardinality(places) - 1
  <2>1. Below(places, i) \in SUBSET places /\ i \notin Below(places, i)
    BY DEF Below
  <2>2. Cardinality(Below(places, i)) \in Nat /\ Cardinality(Below(places, i)) < Cardinality(places)
    BY <1>3, <2>1
  <2> QED
    BY <1>2, <2>2
<1>5. ASSUME NEW i \in places, NEW j \in places, i < j
      PROVE  Cardinality(Below(places, i)) < Cardinality(Below(places, j))
  <2>1. IsFiniteSet(Below(places, j)) /\ Cardinality(Below(places, j)) \in Nat
    BY <1>2, FS_Subset, FS_CardinalityType DEF Below
  <2>2. /\ Below(places, i) \in SUBSET Below(places, j)
        /\ i \in Below(places, j) /\ i \notin Below(places, i)
    <3>1. i \in Int /\ j \in Int /\ \A k \in places : k \in Int
      OBVIOUS
    <3>2. i \in Below(places, j)
      BY <1>5 DEF Below
    <3>3. i \notin Below(places, i)
      BY <3>1 DEF Below
    <3>4. ASSUME NEW k \in Below(places, i)
          PROVE  k \in Below(places, j)
      <4>1. k \in places /\ k \in Int /\ k < i
        BY <3>1 DEF Below
      <4>2. k < j
        BY <1>5, <3>1, <4>1
      <4> QED
        BY <4>1, <4>2 DEF Below
    <3> QED
      BY <3>2, <3>3, <3>4
  <2>3. Cardinality(Below(places, i)) \in Nat
    BY <1>4
  <2>4. /\ Cardinality(Below(places, i)) <= Cardinality(Below(places, j))
        /\ Below(places, i) # Below(places, j)
    BY <2>1, <2>2, FS_Subset
  <2>5. Cardinality(Below(places, i)) # Cardinality(Below(places, j))
    BY <2>1, <2>2, <2>4, FS_Subset
  <2> QED
    BY <2>1, <2>3, <2>4, <2>5
<1> QED
  BY <1>2, <1>4, <1>5

\* Each of the ranks is that of one place.
LEMMA RanksOnto ==
  ASSUME NEW n \in Nat, NEW places \in SUBSET (1 .. n)
  PROVE  \A j \in 1 .. Cardinality(places) :
           \E i \in places : Cardinality(Below(places, i)) = j - 1
<1> DEFINE m == Cardinality(places)
           f == [i \in places |-> Cardinality(Below(places, i)) + 1]
<1>1. IsFiniteSet(places) /\ m \in Nat
  BY Ranks
<1>2. \A i \in places : Cardinality(Below(places, i)) \in 0 .. m - 1
  BY Ranks
<1>3. f \in [places -> 1 .. m]
  BY <1>1, <1>2
<1>4. ASSUME NEW i \in places, NEW j \in places, f[i] = f[j]
      PROVE  i = j
  <2>1. Cardinality(Below(places, i)) = Cardinality(Below(places, j))
    BY <1>2, <1>4
  <2>2. i \in Int /\ j \in Int
    OBVIOUS
  <2>3. Cardinality(Below(places, i)) \in Int
    BY <1>2
  <2>4. i < j => Cardinality(Below(places, i)) < Cardinality(Below(places, j))
    BY Ranks
  <2>5. j < i => Cardinality(Below(places, j)) < Cardinality(Below(places, i))
    BY Ranks
  <2> QED
    BY <2>1, <2>2, <2>3, <2>4, <2>5
<1>5. f \in Injection(places, 1 .. m)
  BY <1>3, <1>4 DEF Injection, IsInjective
<1>6. IsFiniteSet(1 .. m) /\ Cardinality(1 .. m) = m
  BY <1>1, FS_Interval
<1>7. f \in Surjection(places, 1 .. m)
  BY <1>5, <1>6, FS_Injection
<1>8. ASSUME NEW j \in 1 .. m
      PROVE  \E i \in places : Cardinality(Below(places, i)) = j - 1
  <2>1. PICK i \in places : f[i] = j
    BY <1>7 DEF Surjection
  <2>2. Cardinality(Below(places, i)) + 1 = j
    BY <2>1
  <2> QED
    BY <1>2, <2>2
<1> QED
  BY <1>8

LEMMA KeepSeq ==
  ASSUME NEW S, NEW list \in Seq(S), NEW places \in SUBSET DOMAIN list
  PROVE  /\ Keep(list, places) \in Seq(S)
         /\ \A j \in DOMAIN Keep(list, places) :
              \E i \in places : Keep(list, places)[j] = list[i]
         /\ \A i \in places :
              \E j \in DOMAIN Keep(list, places) : Keep(list, places)[j] = list[i]
         /\ \A j, k \in DOMAIN Keep(list, places) : j < k =>
              \E g, h \in places : /\ g < h
                                  /\ Keep(list, places)[j] = list[g]
                                  /\ Keep(list, places)[k] = list[h]
<1> DEFINE n == Len(list)
           m == Cardinality(places)
           rank(i) == Cardinality(Below(places, i))
           at(j) == CHOOSE i \in places : rank(i) = j - 1
<1>1. n \in Nat /\ places \in SUBSET (1 .. n) /\ \A i \in 1 .. n : list[i] \in S
  OBVIOUS
<1>2. m \in Nat /\ \A i \in places : rank(i) \in 0 .. m - 1
  BY <1>1, Ranks
<1>3. Keep(list, places) = [j \in 1 .. m |-> list[at(j)]]
  BY DEF Keep, Below
<1>4. \A j \in 1 .. m : at(j) \in places /\ rank(at(j)) = j - 1
  BY <1>1, RanksOnto
<1>5. ASSUME NEW i \in places
      PROVE  \E j \in 1 .. m : at(j) = i
  <2> DEFINE j == rank(i) + 1
  <2>1. j \in 1 .. m /\ j - 1 = rank(i)
    BY <1>2
  <2>2. at(j) \in places /\ rank(at(j)) = rank(i)
    BY <1>4, <2>1
  <2>3. i \in Int /\ at(j) \in Int
    BY <1>1, <2>2
  <2>4. ~ (i < at(j)) /\ ~ (at(j) < i)
    <3> HIDE DEF j, at
    <3>1. rank(i) \in Int
      BY <1>2
    <3>2. i < at(j) => rank(i) < rank(at(j))
      BY <1>1, <2>2, Ranks
    <3>3. at(j) < i => rank(at(j)) < rank(i)
      BY <1>1, <2>2, Ranks
    <3> QED
      BY <2>2, <3>1, <3>2, <3>3
  <2>5. at(j) = i
    BY <2>3, <2>4
  <2> QED
    BY <2>1, <2>5
<1>6. Keep(list, places) \in [1 .. m -> S]
  BY <1>1, <1>3, <1>4
<1>7. Keep(list, places) \in Seq(S) /\ DOMAIN Keep(list, places) = 1 .. m
  BY <1>2, <1>6
<1>8. \A j \in 1 .. m : Keep(list, places)[j] = list[at(j)]
  BY <1>3
<1>9. \A j \in 1 .. m : \E i \in places : Keep(list, places)[j] = list[i]
  BY <1>4, <1>8
<1>10. ASSUME NEW i \in places
       PROVE  \E j \in 1 .. m : Keep(list, places)[j] = list[i]
  BY <1>5, <1>8
<1>11. ASSUME NEW j \in 1 .. m, NEW k \in 1 .. m, j < k
       PROVE  at(j) < at(k)
  <2>1. /\ at(j) \in places /\ rank(at(j)) = j - 1
        /\ at(k) \in places /\ rank(at(k)) = k - 1
    BY <1>4
  <2>2. at(j) \in Int /\ at(k) \in Int /\ j \in Int /\ k \in Int
    BY <1>1, <2>1
  <2>3. at(k) < at(j) => rank(at(k)) < rank(at(j))
    <3> HIDE DEF at
    <3> QED
      BY <1>1, <2>1, Ranks
  <2>4. at(j) # at(k) /\ ~ (at(k) < at(j))
    <3> HIDE DEF at, rank
    <3> QED
      BY <1>11, <2>1, <2>2, <2>3
  <2> QED
    BY <2>2, <2>4
<1>12. ASSUME NEW j \in 1 .. m, NEW k \in 1 .. m, j < k
       PROVE  \E g, h \in places : /\ g < h
                                 /\ Keep(list, places)[j] = list[g]
                                 /\ Keep(list, places)[k] = list[h]
  <2>1. /\ Keep(list, places)[j] = list[at(j)] /\ Keep(list, places)[k] = list[at(k)]
        /\ at(j) \in places /\ at(k) \in places
    BY <1>4, <1>8
  <2>2. at(j) < at(k)
    BY <1>11, <1>12
  <2> HIDE DEF at, rank
  <2> QED
    BY <2>1, <2>2
<1>13. ASSUME NEW j \in DOMAIN Keep(list, places), NEW k \in DOMAIN Keep(list, places), j < k
       PROVE  \E g, h \in places : /\ g < h
                                 /\ Keep(list, places)[j] = list[g]
                                 /\ Keep(list, places)[k] = list[h]
  <2>1. j \in 1 .. m /\ k \in 1 .. m
    BY <1>7
  <2> QED
    BY <1>12, <1>13, <2>1, Zenon
<1>14. \A i \in places :
         \E j \in DOMAIN Keep(list, places) : Keep(list, places)[j] = list[i]
  BY <1>7, <1>10, Zenon
<1> QED
  BY <1>7, <1>9, <1>13, <1>14, Zenon

LEMMA Removed ==
  ASSUME NEW S, NEW list \in Seq(S), NEW k \in DOMAIN list
  PROVE  /\ RemoveAt(list, k) \in Seq(S)
         /\ DOMAIN RemoveAt(list, k) = 1 .. Len(list) - 1
         /\ \A i \in 1 .. Len(list) - 1 :
              RemoveAt(list, k)[i] = IF i < k THEN list[i] ELSE list[i + 1]
<1>1. Len(list) \in Nat /\ k \in 1 .. Len(list)
  OBVIOUS
<1> DEFINE left  == SubSeq(list, 1, k - 1)
           right == SubSeq(list, k + 1, Len(list))
<1>2. left \in Seq(S) /\ Len(left) = k - 1 /\ \A i \in 1 .. k - 1 : left[i] = list[i]
  BY <1>1
<1>3. /\ right \in Seq(S) /\ Len(right) = Len(list) - k
      /\ \A i \in 1 .. Len(list) - k : right[i] = list[k + i]
  BY <1>1
<1>4. RemoveAt(list, k) = left \o right
  BY DEF RemoveAt
<1> HIDE DEF left, right
<1>5. left \o right \in Seq(S) /\ Len(left \o right) = Len(list) - 1
  BY <1>1, <1>2, <1>3
<1>6. ASSUME NEW i \in 1 .. Len(list) - 1
      PROVE  (left \o right)[i] = IF i < k THEN list[i] ELSE list[i + 1]
  BY <1>1, <1>2, <1>3, SMTT(30)
<1> QED
  BY <1>4, <1>5, <1>6

LEMMA PortArrives ==
  ASSUME NEW x \in Ports
  PROVE  DecodeField(EncodeField(x)) = x
<1>1. CASE x = NoneFree
  BY <1>1 DEF NoneFree, EncodeField, DecodeField
<1>2. CASE x # NoneFree
  BY <1>2, FailoverAssumption, FieldArrives
<1> QED
  BY <1>1, <1>2

LEMMA EntryArrives ==
  ASSUME NEW e \in Entries
  PROVE  Decoded(e) = e
<1>1. e.port \in Ports /\ e = [host |-> e.host, port |-> e.port]
  BY DEF Entries
<1>2. DecodeField(EncodeField(e.port)) = e.port
  BY <1>1, PortArrives
<1> QED
  BY <1>1, <1>2 DEF Decoded

LEMMA ReceivedSeq ==
  ASSUME NEW list \in Seq(Entries), NEW t \in Servers
  PROVE  /\ Received(list, t) \in Seq(Entries)
         /\ \A j \in DOMAIN Received(list, t) :
              /\ Received(list, t)[j].port # port[t]
              /\ \E i \in DOMAIN list : Received(list, t)[j] = list[i]
         /\ \A i \in DOMAIN list : list[i].port # port[t] =>
              \E j \in DOMAIN Received(list, t) : Received(list, t)[j] = list[i]
         /\ \A j, k \in DOMAIN Received(list, t) : j < k =>
              \E g, h \in DOMAIN list : /\ g < h
                                       /\ Received(list, t)[j] = list[g]
                                       /\ Received(list, t)[k] = list[h]
<1> DEFINE decoded == [i \in DOMAIN list |-> Decoded(list[i])]
           places  == {i \in DOMAIN list : list[i].port # port[t]}
<1>1. \A i \in DOMAIN list : list[i] \in Entries /\ Decoded(list[i]) = list[i]
  BY EntryArrives
<1>2. decoded = [i \in DOMAIN list |-> list[i]]
  BY <1>1
<1>3. list = [i \in DOMAIN list |-> list[i]]
  OBVIOUS
<1>4. decoded = list
  BY <1>2, <1>3
<1>5. Received(list, t) = Keep(decoded, {i \in DOMAIN list : decoded[i].port # port[t]})
  BY DEF Received
<1>6. Received(list, t) = Keep(list, places)
  BY <1>4, <1>5, Zenon
<1>7. places \in SUBSET DOMAIN list /\ \A i \in places : list[i].port # port[t]
  OBVIOUS
<1>8. \A i \in DOMAIN list : list[i].port # port[t] => i \in places
  OBVIOUS
<1> HIDE DEF places, decoded
<1>9. /\ Keep(list, places) \in Seq(Entries)
      /\ \A j \in DOMAIN Keep(list, places) :
           \E i \in places : Keep(list, places)[j] = list[i]
      /\ \A i \in places :
           \E j \in DOMAIN Keep(list, places) : Keep(list, places)[j] = list[i]
      /\ \A j, k \in DOMAIN Keep(list, places) : j < k =>
           \E g, h \in places : /\ g < h
                               /\ Keep(list, places)[j] = list[g]
                               /\ Keep(list, places)[k] = list[h]
  BY <1>7, KeepSeq
<1>10. ASSUME NEW j \in DOMAIN Received(list, t)
       PROVE  /\ Received(list, t)[j].port # port[t]
              /\ \E i \in DOMAIN list : Received(list, t)[j] = list[i]
  <2>1. PICK i \in places : Received(list, t)[j] = list[i]
    BY <1>6, <1>9
  <2> QED
    BY <1>7, <2>1
<1>11. ASSUME NEW i \in DOMAIN list, list[i].port # port[t]
       PROVE  \E j \in DOMAIN Received(list, t) : Received(list, t)[j] = list[i]
  BY <1>6, <1>8, <1>9, <1>11
<1>12. ASSUME NEW j \in DOMAIN Received(list, t), NEW k \in DOMAIN Received(list, t), j < k
       PROVE  \E g, h \in DOMAIN list : /\ g < h
                                       /\ Received(list, t)[j] = list[g]
                                       /\ Received(list, t)[k] = list[h]
  <2>1. PICK g \in places, h \in places : /\ g < h
                                          /\ Received(list, t)[j] = list[g]
                                          /\ Received(list, t)[k] = list[h]
    BY <1>6, <1>9, <1>12
  <2> QED
    BY <1>7, <2>1
<1> QED
  BY <1>6, <1>9, <1>10, <1>11, <1>12

-----------------------------------------------------------------------------
Before    == {"off", "starting", "configuring", "announcing"}
Followers == {"backup", "electing", "voting", "ignored", "deferring", "resting"}
Tellers   == {"telling", "primary"}

PortOK == \A s \in Servers : phase[s] = "announcing" => port[s] \in Ports

\* Who sends its list has one to send, and whoever lets it do so has joined.
TellingOK ==
  \A s, p \in Servers : telling[s].by = p =>
    /\ phase[s] \notin Before
    /\ phase[p] \in Tellers \cup {"dead"}

\* Who has somebody's list has listened, and the other has told it.
ToldOK ==
  \A p, t \in Servers : toldBy[t] = p =>
    /\ phase[t] \notin Before \cup {"joined"}
    /\ phase[p] \in Tellers \cup {"dead"}

\* Backup t knows all that p lists, but for those that have t's own port.
Complete(p, t) ==
  \A i \in DOMAIN rm[p] : rm[p][i].port # port[t] =>
    \E j \in DOMAIN rm[t] : rm[t][j] = rm[p][i]

\* The thread of s has yet to come to t, wherever t is in the list of p.
ToCome(s, p, t) ==
  /\ telling[s].by = p
  /\ \A i \in DOMAIN rm[p] : rm[p][i] = Entry(t) => telling[s].at <= i

Covered(p, t) == Complete(p, t) \/ \E s \in Servers : ToCome(s, p, t)

CoverOK ==
  \A p, t \in Servers :
    (phase[p] \in Tellers /\ phase[t] \in Followers /\ toldBy[t] = p /\ Lists(p, t)) =>
      Covered(p, t)

IInv == TypeOK /\ PortOK /\ TellingOK /\ ToldOK /\ CoverOK

Phases == Before \cup {"joined", "leader", "dead"} \cup Followers \cup Tellers

FaultNames == {"unheard", "reused", "erased", "unlisted", "late", "skew", "twins", "crossed"}

Typed ==
  /\ phase \in [Servers -> Phases]
  /\ port \in [Servers -> Ports \cup {0}]
  /\ primaryIp \in [Servers -> Hosts \cup {Nowhere, Garbled}]
  /\ rm \in [Servers -> Seq(Entries)]
  /\ telling \in [Servers -> [by : Servers \cup {Nowhere}, at : Nat]]
  /\ crashes \in 0 .. MaxCrashes
  /\ faults \subseteq FaultNames
  /\ toldBy \in [Servers -> Servers \cup {Nowhere}]

LEMMA Types == (TypeOK <=> Typed) /\ (TypeOK' <=> Typed')
<1>1. Phases = {"off", "starting", "configuring", "announcing", "joined",
                "backup", "electing", "voting", "ignored", "deferring",
                "resting", "leader", "telling", "primary", "dead"}
  BY DEF Phases, Before, Followers, Tellers
<1>2. TypeOK <=> Typed
  BY <1>1, Zenon DEF TypeOK, Typed, FaultNames
<1>3. TypeOK' <=> Typed'
  BY <1>1, Zenon DEF TypeOK, Typed, FaultNames
<1> QED
  BY <1>2, <1>3

(***************************************************************************)
(* What a step of the main thread may do to a phase: nobody comes back to  *)
(* where it has not joined, nor from where it tells others.                *)
(***************************************************************************)
Moves(x) ==
  \/ phase'[x] = phase[x]
  \/ phase[x] \in Before /\ phase'[x] \in Before \cup {"joined", "dead", "primary"}
  \/ phase[x] = "joined" /\ phase'[x] \in {"backup", "dead"}
  \/ phase[x] \in Followers /\ phase'[x] \in Followers \cup {"leader", "dead"}
  \/ phase[x] = "leader" /\ phase'[x] \in {"telling", "dead"}
  \/ phase[x] \in Tellers /\ phase'[x] \in {"primary", "dead"}

LEMMA Moved ==
  ASSUME TypeOK, NEW s \in Servers, NEW q \in Phases, Goto(s, q),
         \/ phase[s] \in Before /\ q \in Before \cup {"joined", "dead", "primary"}
         \/ phase[s] = "joined" /\ q \in {"backup", "dead"}
         \/ phase[s] \in Followers /\ q \in Followers \cup {"leader", "dead"}
         \/ phase[s] = "leader" /\ q \in {"telling", "dead"}
         \/ phase[s] \in Tellers /\ q \in {"primary", "dead"}
  PROVE  phase' \in [Servers -> Phases] /\ \A x \in Servers : Moves(x)
<1>1. phase \in [Servers -> Phases] /\ phase' = [phase EXCEPT ![s] = q]
  BY Types DEF Goto, Typed
<1>2. phase'[s] = q /\ \A x \in Servers \ {s} : phase'[x] = phase[x]
  BY <1>1
<1>3. phase' \in [Servers -> Phases]
  BY <1>1
<1>4. Moves(s)
  BY <1>2 DEF Moves
<1>5. \A x \in Servers \ {s} : Moves(x)
  BY <1>2 DEF Moves
<1> QED
  BY <1>3, <1>4, <1>5

(***************************************************************************)
(* A step that changes no list: it may begin the thread of a leader, and   *)
(* the threads of a server end with it.                                    *)
(***************************************************************************)
Quiet ==
  /\ rm' = rm /\ toldBy' = toldBy
  /\ \A x \in Servers : Moves(x)
  /\ \A x \in Servers : IF phase[x] # "announcing" /\ phase'[x] = "announcing"
                        THEN port'[x] \in Ports ELSE port'[x] = port[x]
  /\ \A x \in Servers :
       \/ telling'[x] = telling[x]
       \/ telling[x] = Silent /\ telling'[x].by = x /\ phase'[x] = "telling"
       \/ telling'[x] = Silent /\ phase'[telling[x].by] = "dead"

LEMMA QuietKeeps ==
  ASSUME IInv, Quiet
  PROVE  PortOK' /\ TellingOK' /\ ToldOK' /\ CoverOK'
<1>0. /\ rm' = rm /\ toldBy' = toldBy
      /\ \A x \in Servers : Moves(x)
      /\ \A x \in Servers : phase'[x] = "announcing" => port'[x] \in Ports
      /\ \A x \in Servers : phase'[x] # "announcing" => port'[x] = port[x]
  <2>1. \A x \in Servers : phase'[x] = "announcing" => port'[x] \in Ports
    BY DEF Quiet, IInv, PortOK
  <2> QED
    BY <2>1 DEF Quiet
<1>1. \A x \in Servers :
        \/ telling'[x] = telling[x]
        \/ telling[x] = Silent /\ telling'[x].by = x /\ phase'[x] = "telling"
        \/ telling'[x] = Silent /\ phase'[telling[x].by] = "dead"
  BY DEF Quiet
<1>2. ASSUME NEW x \in Servers
      PROVE  /\ phase[x] \notin Before => phase'[x] \notin Before
             /\ phase[x] \notin Before \cup {"joined"} => phase'[x] \notin Before \cup {"joined"}
             /\ phase[x] \in Tellers \cup {"dead"} => phase'[x] \in Tellers \cup {"dead"}
             /\ phase[x] = "dead" => phase'[x] = "dead"
             /\ phase'[x] \in Followers => phase[x] \in Followers \cup {"joined"}
  BY <1>0 DEF Moves, Before, Followers, Tellers
<1>3. Silent.by = Nowhere
  BY DEF Silent
<1>4. PortOK'
  BY <1>0 DEF PortOK
<1>5. TellingOK'
  <2> SUFFICES ASSUME NEW s \in Servers, NEW p \in Servers, telling'[s].by = p
               PROVE  phase'[s] \notin Before /\ phase'[p] \in Tellers \cup {"dead"}
    BY DEF TellingOK
  <2>1. CASE telling'[s] = telling[s]
    <3>1. phase[s] \notin Before /\ phase[p] \in Tellers \cup {"dead"}
      BY <2>1 DEF IInv, TellingOK
    <3> QED
      BY <3>1, <1>2
  <2>2. CASE telling'[s].by = s /\ phase'[s] = "telling"
    BY <2>2 DEF Before, Tellers
  <2>3. CASE telling'[s] = Silent
    BY <2>3, <1>3, NowhereAssumption
  <2> QED
    BY <1>1, <2>1, <2>2, <2>3
<1>6. ToldOK'
  <2> SUFFICES ASSUME NEW p \in Servers, NEW t \in Servers, toldBy[t] = p
               PROVE  phase'[t] \notin Before \cup {"joined"} /\ phase'[p] \in Tellers \cup {"dead"}
    BY <1>0 DEF ToldOK
  <2>1. phase[t] \notin Before \cup {"joined"} /\ phase[p] \in Tellers \cup {"dead"}
    BY DEF IInv, ToldOK
  <2> QED
    BY <2>1, <1>2
<1>7. CoverOK'
  <2> SUFFICES ASSUME NEW p \in Servers, NEW t \in Servers,
                      phase'[p] \in Tellers, phase'[t] \in Followers,
                      toldBy[t] = p, Lists(p, t)'
               PROVE  Covered(p, t)'
    BY <1>0 DEF CoverOK
  <2>1. phase[t] \notin Before \cup {"joined"} /\ phase[p] \in Tellers \cup {"dead"}
    BY DEF IInv, ToldOK
  <2>2. phase'[p] # "dead" /\ phase'[t] # "announcing"
    BY DEF Tellers, Followers
  <2>3. phase[p] \in Tellers /\ phase[t] \in Followers
    BY <2>1, <2>2, <1>2
  <2>4. port'[t] = port[t] /\ Entry(t)' = Entry(t)
    BY <2>2, <1>0 DEF Entry
  <2>5. Covered(p, t)
    BY <1>0, <2>3, <2>4 DEF IInv, CoverOK, Lists
  <2>6. CASE Complete(p, t)
    BY <1>0, <2>4, <2>6 DEF Covered, Complete
  <2>7. ASSUME NEW s \in Servers, ToCome(s, p, t)
        PROVE  ToCome(s, p, t)'
    <3>1. telling[s].by = p /\ \A i \in DOMAIN rm[p] : rm[p][i] = Entry(t) => telling[s].at <= i
      BY <2>7 DEF ToCome
    <3>2. telling'[s] = telling[s]
      BY <3>1, <1>1, <1>3, <2>2, NowhereAssumption
    <3> QED
      BY <3>1, <3>2, <1>0, <2>4 DEF ToCome
  <2> QED
    BY <2>5, <2>6, <2>7 DEF Covered
<1> QED
  BY <1>4, <1>5, <1>6, <1>7

\* What a step that moves one server, and begins no thread, has to do.
LEMMA OneMoves ==
  ASSUME TypeOK, NEW s \in Servers, NEW q \in Phases, Goto(s, q),
         \/ phase[s] \in Before /\ q \in Before \cup {"joined", "dead", "primary"}
         \/ phase[s] = "joined" /\ q \in {"backup", "dead"}
         \/ phase[s] \in Followers /\ q \in Followers \cup {"leader", "dead"}
         \/ phase[s] = "leader" /\ q \in {"telling", "dead"}
         \/ phase[s] \in Tellers /\ q \in {"primary", "dead"},
         q # "announcing",
         UNCHANGED << port, rm, telling, crashes, toldBy >>,
         primaryIp' \in [Servers -> Hosts \cup {Nowhere, Garbled}],
         faults' \subseteq FaultNames
  PROVE  TypeOK' /\ Quiet
<1>1. phase' \in [Servers -> Phases] /\ \A x \in Servers : Moves(x)
  BY Moved
<1>2. TypeOK'
  <2>1. /\ port \in [Servers -> Ports \cup {0}]
        /\ rm \in [Servers -> Seq(Entries)]
        /\ telling \in [Servers -> [by : Servers \cup {Nowhere}, at : Nat]]
        /\ crashes \in 0 .. MaxCrashes
        /\ toldBy \in [Servers -> Servers \cup {Nowhere}]
    BY Types DEF Typed
  <2>2. /\ phase' \in [Servers -> Phases]
        /\ port' \in [Servers -> Ports \cup {0}]
        /\ primaryIp' \in [Servers -> Hosts \cup {Nowhere, Garbled}]
        /\ rm' \in [Servers -> Seq(Entries)]
        /\ telling' \in [Servers -> [by : Servers \cup {Nowhere}, at : Nat]]
        /\ crashes' \in 0 .. MaxCrashes
        /\ faults' \subseteq FaultNames
        /\ toldBy' \in [Servers -> Servers \cup {Nowhere}]
    BY <1>1, <2>1
  <2> QED
    BY <2>2, Types DEF Typed
<1>3. \A x \in Servers : phase[x] # "announcing" => phase'[x] # "announcing"
  <2>1. phase' = [phase EXCEPT ![s] = q] /\ phase \in [Servers -> Phases]
    BY Types DEF Goto, Typed
  <2> QED
    BY <2>1
<1> QED
  BY <1>1, <1>2, <1>3 DEF Quiet

LEMMA Hears ==
  ASSUME TypeOK, NEW s \in Servers
  PROVE  /\ faults \subseteq FaultNames
         /\ primaryIp \in [Servers -> Hosts \cup {Nowhere, Garbled}]
         /\ \A f \in FaultNames : Fault(f) => faults' \subseteq FaultNames
         /\ \A p \in Servers : [primaryIp EXCEPT ![s] = Host[p]]
                                 \in [Servers -> Hosts \cup {Nowhere, Garbled}]
<1>1. faults \subseteq FaultNames /\ primaryIp \in [Servers -> Hosts \cup {Nowhere, Garbled}]
  BY Types DEF Typed
<1>2. \A p \in Servers : Host[p] \in Hosts
  BY DEF Hosts
<1> QED
  BY <1>1, <1>2 DEF Fault

LEMMA StartingSteps ==
  ASSUME TypeOK, NEW s \in Servers,
         Start(s) \/ HearPrimary(s) \/ HearNone(s) \/ HearGarbage(s) \/ Listen(s)
  PROVE  TypeOK' /\ Quiet
<1>0. /\ faults \subseteq FaultNames
      /\ primaryIp \in [Servers -> Hosts \cup {Nowhere, Garbled}]
      /\ \A f \in FaultNames : Fault(f) => faults' \subseteq FaultNames
      /\ \A p \in Servers : [primaryIp EXCEPT ![s] = Host[p]]
                              \in [Servers -> Hosts \cup {Nowhere, Garbled}]
  BY Hears
<1> USE DEF Phases, Before, Followers, Tellers
<1>1. CASE Start(s)
  <2>1. phase[s] = "off" /\ Goto(s, "starting")
    BY <1>1 DEF Start
  <2>2. UNCHANGED << port, primaryIp, rm, telling, crashes, faults, toldBy >>
    BY <1>1 DEF Start
  <2> QED
    BY <1>0, <2>1, <2>2, OneMoves
<1>2. CASE HearPrimary(s)
  <2>1. phase[s] = "starting" /\ Goto(s, "configuring")
    BY <1>2 DEF HearPrimary
  <2>2. UNCHANGED << port, rm, telling, crashes, faults, toldBy >>
    BY <1>2 DEF HearPrimary
  <2>3. PICK p \in Servers : primaryIp' = [primaryIp EXCEPT ![s] = Host[p]]
    BY <1>2 DEF HearPrimary, Primaries
  <2>4. primaryIp' \in [Servers -> Hosts \cup {Nowhere, Garbled}]
    BY <1>0, <2>3
  <2> QED
    BY <1>0, <2>1, <2>2, <2>4, OneMoves
<1>3. CASE HearNone(s)
  <2>1. phase[s] = "starting"
    BY <1>3 DEF HearNone
  <2>2. UNCHANGED << port, rm, telling, crashes, toldBy >>
    BY <1>3 DEF HearNone
  <2>3. PICK q \in {"dead", "primary"} : Goto(s, q)
    BY <1>3 DEF HearNone, BecomePrimary
  <2>4. primaryIp' \in [Servers -> Hosts \cup {Nowhere, Garbled}]
    BY <1>3, <1>0 DEF HearNone, BecomePrimary
  <2>5. faults' \subseteq FaultNames
    BY <1>3, <1>0 DEF HearNone, FaultNames
  <2> QED
    BY <2>1, <2>2, <2>3, <2>4, <2>5, OneMoves
<1>4. CASE HearGarbage(s)
  <2>1. phase[s] = "starting" /\ Goto(s, "dead")
    BY <1>4 DEF HearGarbage
  <2>2. UNCHANGED << port, primaryIp, rm, telling, crashes, faults, toldBy >>
    BY <1>4 DEF HearGarbage
  <2> QED
    BY <1>0, <2>1, <2>2, OneMoves
<1>5. CASE Listen(s)
  <2>1. phase[s] = "joined" \/ phase[s] = "resting"
    BY <1>5 DEF Listen, In
  <2>2. UNCHANGED << port, primaryIp, rm, telling, crashes, faults, toldBy >>
    BY <1>5 DEF Listen
  <2>3. PICK q \in {"dead", "backup"} : Goto(s, q)
    BY <1>5 DEF Listen
  <2> QED
    BY <1>0, <2>1, <2>2, <2>3, OneMoves
<1> QED
  BY <1>1, <1>2, <1>3, <1>4, <1>5

LEMMA ElectionSteps ==
  ASSUME TypeOK, NEW s \in Servers,
         \/ Timeout(s) \/ TimeoutLate(s) \/ Bind(s) \/ CallIgnored(s) \/ CallRefused(s)
         \/ Defer(s) \/ TellNoAddress(s) \/ TakeOver(s)
  PROVE  TypeOK' /\ Quiet
<1>0. /\ faults \subseteq FaultNames
      /\ primaryIp \in [Servers -> Hosts \cup {Nowhere, Garbled}]
      /\ \A f \in FaultNames : Fault(f) => faults' \subseteq FaultNames
      /\ \A p \in Servers : [primaryIp EXCEPT ![s] = Host[p]]
                              \in [Servers -> Hosts \cup {Nowhere, Garbled}]
  BY Hears
<1> USE DEF Phases, Before, Followers, Tellers
<1>1. CASE Timeout(s) \/ TimeoutLate(s)
  <2>1. phase[s] = "backup"
    BY <1>1 DEF Timeout, TimeoutLate, StartElection
  <2>2. UNCHANGED << port, primaryIp, rm, telling, crashes, toldBy >>
    BY <1>1 DEF Timeout, TimeoutLate
  <2>3. PICK q \in {"leader", "electing"} : Goto(s, q)
    BY <1>1 DEF Timeout, TimeoutLate, StartElection
  <2>4. faults' \subseteq FaultNames
    BY <1>1, <1>0 DEF Timeout, TimeoutLate, FaultNames
  <2> QED
    BY <1>0, <2>1, <2>2, <2>3, <2>4, OneMoves
<1>2. CASE Bind(s)
  <2>1. phase[s] = "electing" /\ Goto(s, "voting")
    BY <1>2 DEF Bind
  <2>2. UNCHANGED << port, primaryIp, rm, telling, crashes, faults, toldBy >>
    BY <1>2 DEF Bind
  <2> QED
    BY <1>0, <2>1, <2>2, OneMoves
<1>3. CASE CallIgnored(s)
  <2>1. phase[s] = "voting" /\ Goto(s, "ignored")
    BY <1>3 DEF CallIgnored
  <2>2. UNCHANGED << port, primaryIp, rm, telling, crashes, toldBy >>
    BY <1>3 DEF CallIgnored
  <2>3. faults' \subseteq FaultNames
    BY <1>3, <1>0 DEF CallIgnored, FaultNames
  <2> QED
    BY <1>0, <2>1, <2>2, <2>3, OneMoves
<1>4. CASE CallRefused(s)
  <2>1. (phase[s] = "voting" \/ phase[s] = "ignored") /\ Goto(s, "dead")
    BY <1>4 DEF CallRefused, In
  <2>2. UNCHANGED << port, primaryIp, rm, telling, crashes, toldBy >>
    BY <1>4 DEF CallRefused
  <2>3. faults' \subseteq FaultNames
    BY <1>4, <1>0 DEF CallRefused, FaultNames
  <2> QED
    BY <1>0, <2>1, <2>2, <2>3, OneMoves
<1>5. CASE Defer(s)
  <2>1. (phase[s] = "voting" \/ phase[s] = "ignored") /\ Goto(s, "deferring")
    BY <1>5 DEF Defer, In
  <2>2. UNCHANGED << port, primaryIp, rm, telling, crashes, faults, toldBy >>
    BY <1>5 DEF Defer
  <2> QED
    BY <1>0, <2>1, <2>2, OneMoves
<1>6. CASE TellNoAddress(s)
  <2>1. phase[s] = "leader" /\ Goto(s, "dead")
    BY <1>6 DEF TellNoAddress
  <2>2. UNCHANGED << port, primaryIp, rm, telling, crashes, faults, toldBy >>
    BY <1>6 DEF TellNoAddress
  <2> QED
    BY <1>0, <2>1, <2>2, OneMoves
<1>7. CASE TakeOver(s)
  <2>1. phase[s] = "telling"
    BY <1>7 DEF TakeOver
  <2>2. UNCHANGED << port, rm, telling, crashes, faults, toldBy >>
    BY <1>7 DEF TakeOver
  <2>3. PICK q \in {"dead", "primary"} : Goto(s, q)
    BY <1>7 DEF TakeOver, BecomePrimary
  <2>4. primaryIp' \in [Servers -> Hosts \cup {Nowhere, Garbled}]
    BY <1>7, <1>0 DEF TakeOver, BecomePrimary
  <2> QED
    BY <1>0, <2>1, <2>2, <2>3, <2>4, OneMoves
<1> QED
  BY <1>1, <1>2, <1>3, <1>4, <1>5, <1>6, <1>7

LEMMA ChoosePortStep ==
  ASSUME TypeOK, NEW s \in Servers, ChoosePort(s)
  PROVE  TypeOK' /\ Quiet
<1>0. Typed
  BY Types
<1>1. phase[s] = "configuring" /\ Goto(s, "announcing")
  BY DEF ChoosePort
<1>2. PICK p \in Ports : /\ port' = [port EXCEPT ![s] = p]
                         /\ Fault("reused") \/ UNCHANGED faults
  BY DEF ChoosePort
<1>3. UNCHANGED << primaryIp, rm, telling, crashes, toldBy >> /\ faults' \subseteq FaultNames
  BY <1>0, <1>2 DEF ChoosePort, Fault, FaultNames, Typed
<1>4. "announcing" \in Phases /\ phase[s] \in Before /\ "announcing" \in Before
  BY <1>1 DEF Phases, Before
<1>5. phase' \in [Servers -> Phases] /\ \A x \in Servers : Moves(x)
  BY <1>1, <1>4, Moved
<1>6. port' \in [Servers -> Ports \cup {0}]
  BY <1>0, <1>2 DEF Typed
<1>7. Typed'
  BY <1>0, <1>3, <1>5, <1>6 DEF Typed
<1>8. ASSUME NEW x \in Servers
      PROVE  IF phase[x] # "announcing" /\ phase'[x] = "announcing"
             THEN port'[x] \in Ports ELSE port'[x] = port[x]
  BY <1>0, <1>1, <1>2 DEF Typed, Goto
<1> QED
  BY <1>3, <1>5, <1>7, <1>8, Types DEF Quiet

\* The one that declares itself and its neighbour move together.
LEMMA DeclareSteps ==
  ASSUME TypeOK, NEW s \in Servers, Declare(s) \/ DeclareDisputed(s)
  PROVE  TypeOK' /\ Quiet
<1>0. Typed
  BY Types
<1>1. PICK t \in Servers, other \in {"leader", "resting"} :
        /\ phase[s] \in Followers /\ phase[t] \in Followers
        /\ phase' = [phase EXCEPT ![s] = "leader", ![t] = other]
  <2>1. CASE Declare(s)
    BY <2>1 DEF Declare, Returned, Voting, In, Followers, Neighbours
  <2>2. CASE DeclareDisputed(s)
    BY <2>2 DEF DeclareDisputed, Voting, In, Followers, Neighbours
  <2> QED
    BY <2>1, <2>2
<1>2. UNCHANGED << port, primaryIp, rm, telling, crashes, toldBy >>
  BY DEF Declare, DeclareDisputed
<1>3. faults' \subseteq FaultNames
  BY <1>0 DEF Declare, DeclareDisputed, Fault, FaultNames, Typed
<1>4. phase' \in [Servers -> Phases]
  BY <1>0, <1>1 DEF Typed, Phases, Followers
<1>5. ASSUME NEW x \in Servers
      PROVE  \/ phase'[x] = phase[x]
             \/ phase[x] \in Followers /\ phase'[x] \in {"leader", "resting"}
  BY <1>0, <1>1 DEF Typed
<1>6. \A x \in Servers : Moves(x)
  BY <1>5 DEF Moves, Followers
<1>7. \A x \in Servers : phase[x] # "announcing" => phase'[x] # "announcing"
  BY <1>5
<1>8. Typed'
  BY <1>0, <1>2, <1>3, <1>4 DEF Typed
<1> QED
  BY <1>2, <1>6, <1>7, <1>8, Types DEF Quiet

LEMMA TellAddressStep ==
  ASSUME TypeOK, NEW s \in Servers, TellAddress(s)
  PROVE  TypeOK' /\ Quiet
<1>0. Typed
  BY Types
<1>1. phase[s] = "leader" /\ telling[s] = Silent /\ Goto(s, "telling")
  BY DEF TellAddress
<1>2. telling' = [telling EXCEPT ![s] = [by |-> s, at |-> 1]]
  BY DEF TellAddress
<1>3. UNCHANGED << port, rm, crashes, faults, toldBy >>
  BY DEF TellAddress
<1>4. "telling" \in Phases
  BY DEF Phases, Tellers
<1>5. phase' \in [Servers -> Phases] /\ \A x \in Servers : Moves(x)
  BY <1>1, <1>4, Moved
<1>6. primaryIp' \in [Servers -> Hosts \cup {Nowhere, Garbled}]
  BY <1>0 DEF TellAddress, Typed
<1>7. [by |-> s, at |-> 1] \in [by : Servers \cup {Nowhere}, at : Nat]
  OBVIOUS
<1>8. telling' \in [Servers -> [by : Servers \cup {Nowhere}, at : Nat]]
  BY <1>0, <1>2, <1>7 DEF Typed
<1>9. Typed'
  BY <1>0, <1>3, <1>5, <1>6, <1>8 DEF Typed
<1>10. phase' = [phase EXCEPT ![s] = "telling"]
  BY <1>1 DEF Goto
<1>11. \A x \in Servers : phase[x] # "announcing" => phase'[x] # "announcing"
  BY <1>0, <1>10 DEF Typed
<1>12. ASSUME NEW x \in Servers
       PROVE  \/ telling'[x] = telling[x]
              \/ telling[x] = Silent /\ telling'[x].by = x /\ phase'[x] = "telling"
  BY <1>0, <1>1, <1>2, <1>10 DEF Typed
<1> QED
  BY <1>3, <1>5, <1>9, <1>11, <1>12, Types DEF Quiet

LEMMA CrashStep ==
  ASSUME TypeOK, NEW s \in Servers, Crash(s)
  PROVE  TypeOK' /\ Quiet
<1>0. Typed
  BY Types
<1>1. Goto(s, "dead") /\ UNCHANGED << port, primaryIp, rm, faults, toldBy >>
  BY DEF Crash
<1>2. telling' = [t \in Servers |-> IF telling[t].by = s THEN Silent ELSE telling[t]]
  BY DEF Crash
<1>3. crashes < MaxCrashes /\ crashes' = crashes + 1
  BY DEF Crash
<1>4. "dead" \in Phases
  BY DEF Phases
<1>5. \/ phase[s] \in Before \/ phase[s] = "joined" \/ phase[s] \in Followers
      \/ phase[s] = "leader" \/ phase[s] \in Tellers
  BY <1>0 DEF Crash, Running, In, Typed, Phases
<1>6. phase' \in [Servers -> Phases] /\ \A x \in Servers : Moves(x)
  BY <1>1, <1>4, <1>5, Moved
<1>7. Silent \in [by : Servers \cup {Nowhere}, at : Nat]
  BY DEF Silent
<1>8. telling' \in [Servers -> [by : Servers \cup {Nowhere}, at : Nat]]
  BY <1>0, <1>2, <1>7 DEF Typed
<1>9. crashes' \in 0 .. MaxCrashes
  BY <1>0, <1>3, FailoverAssumption DEF Typed
<1>10. Typed'
  BY <1>0, <1>1, <1>6, <1>8, <1>9 DEF Typed
<1>11. phase' = [phase EXCEPT ![s] = "dead"]
  BY <1>1 DEF Goto
<1>12. \A x \in Servers : phase[x] # "announcing" => phase'[x] # "announcing"
  BY <1>0, <1>11 DEF Typed
<1>13. phase'[s] = "dead"
  BY <1>0, <1>11 DEF Typed
<1>14. ASSUME NEW x \in Servers
       PROVE  \/ telling'[x] = telling[x]
              \/ telling'[x] = Silent /\ phase'[telling[x].by] = "dead"
  BY <1>2, <1>13
<1> QED
  BY <1>1, <1>6, <1>10, <1>12, <1>14, Types DEF Quiet

(***************************************************************************)
(* The three steps that change a list: a server joins one, a server is     *)
(* told one, and a server is erased from one.                              *)
(***************************************************************************)
LEMMA AnnounceStep ==
  ASSUME IInv, NEW s \in Servers, Announce(s)
  PROVE  IInv'
<1>0. Typed /\ TypeOK
  BY Types DEF IInv
<1>1. phase[s] = "announcing" /\ UNCHANGED << port, primaryIp, crashes, faults, toldBy >>
  BY DEF Announce
<1>2. CASE Goto(s, "dead") /\ UNCHANGED << rm, telling >>
  <2>1. "dead" \in Phases /\ phase[s] \in Before
    BY <1>1 DEF Phases, Before
  <2>2. TypeOK' /\ Quiet
    BY <1>0, <1>1, <1>2, <2>1, OneMoves DEF Typed
  <2> QED
    BY <2>2, QuietKeeps DEF IInv
<1>3. ASSUME NEW p \in Servers, phase[p] = "primary", Goto(s, "joined"),
             rm' = [rm EXCEPT ![p] = Append(@, Entry(s))],
             telling' = [telling EXCEPT ![s] = [by |-> p, at |-> 1]]
      PROVE  IInv'
  <2>0. "joined" \in Phases /\ phase[s] \in Before /\ "primary" \in Tellers
    BY <1>1 DEF Phases, Before, Tellers
  <2>1. phase' \in [Servers -> Phases] /\ \A x \in Servers : Moves(x)
    BY <1>0, <1>3, <2>0, Moved
  <2>2. /\ phase'[s] = "joined" /\ phase'[p] = "primary" /\ s # p
        /\ \A x \in Servers \ {s} : phase'[x] = phase[x]
    <3>1. phase' = [phase EXCEPT ![s] = "joined"]
      BY <1>3 DEF Goto
    <3> QED
      BY <1>0, <1>1, <1>3, <3>1 DEF Typed
  <2>3. port[s] \in Ports
    BY <1>1 DEF IInv, PortOK
  <2>4. Entry(s) \in Entries
    BY <2>3 DEF Entry, Entries, Hosts
  <2>5. rm[p] \in Seq(Entries) /\ rm'[p] = Append(rm[p], Entry(s))
        /\ \A x \in Servers \ {p} : rm'[x] = rm[x]
    BY <1>0, <1>3 DEF Typed
  <2>6. rm' \in [Servers -> Seq(Entries)]
    <3>1. Append(rm[p], Entry(s)) \in Seq(Entries)
      BY <2>4, <2>5
    <3> QED
      BY <1>0, <1>3, <3>1 DEF Typed
  <2>7. telling' \in [Servers -> [by : Servers \cup {Nowhere}, at : Nat]]
    <3>1. [by |-> p, at |-> 1] \in [by : Servers \cup {Nowhere}, at : Nat]
      OBVIOUS
    <3> QED
      BY <1>0, <1>3, <3>1 DEF Typed
  <2>8. /\ telling'[s].by = p /\ telling'[s].at = 1
        /\ \A x \in Servers \ {s} : telling'[x] = telling[x]
    BY <1>0, <1>3 DEF Typed
  <2>9. TypeOK'
    <3>1. Typed'
      BY <1>0, <1>1, <2>1, <2>6, <2>7 DEF Typed
    <3> QED
      BY <3>1, Types
  <2>10. PortOK'
    BY <1>1, <2>2 DEF IInv, PortOK
  <2>11. TellingOK'
    <3> SUFFICES ASSUME NEW x \in Servers, NEW q \in Servers, telling'[x].by = q
                 PROVE  phase'[x] \notin Before /\ phase'[q] \in Tellers \cup {"dead"}
      BY DEF TellingOK
    <3>1. CASE x = s
      BY <2>0, <2>2, <2>8, <3>1 DEF Before, Tellers
    <3>2. CASE x # s
      <4>1. phase[x] \notin Before /\ phase[q] \in Tellers \cup {"dead"}
        BY <2>8, <3>2 DEF IInv, TellingOK
      <4>2. q # s
        BY <1>1, <4>1 DEF Tellers
      <4> QED
        BY <2>2, <3>2, <4>1, <4>2
    <3> QED
      BY <3>1, <3>2
  <2>12. ToldOK'
    <3> SUFFICES ASSUME NEW q \in Servers, NEW t \in Servers, toldBy[t] = q
                 PROVE  /\ phase'[t] \notin Before \cup {"joined"}
                        /\ phase'[q] \in Tellers \cup {"dead"}
      BY <1>1 DEF ToldOK
    <3>1. phase[t] \notin Before \cup {"joined"} /\ phase[q] \in Tellers \cup {"dead"}
      BY DEF IInv, ToldOK
    <3>2. t # s /\ q # s
      BY <1>1, <3>1 DEF Before, Tellers
    <3> QED
      BY <2>2, <3>1, <3>2
  <2>13. CoverOK'
    <3> SUFFICES ASSUME NEW q \in Servers, NEW t \in Servers,
                        phase'[q] \in Tellers, phase'[t] \in Followers,
                        toldBy[t] = q, Lists(q, t)'
                 PROVE  Covered(q, t)'
      BY <1>1 DEF CoverOK
    <3>1. Entry(t)' = Entry(t) /\ port' = port
      BY <1>1 DEF Entry
    <3>2. t # s /\ q # s /\ t # p
      BY <2>2 DEF Followers, Tellers
    <3>3. CASE q = p
      <4>1. \A i \in DOMAIN rm'[p] : 1 <= i
        BY <2>6
      <4>2. ToCome(s, q, t)'
        BY <2>8, <3>3, <4>1 DEF ToCome
      <4> QED
        BY <4>2 DEF Covered
    <3>4. CASE q # p
      <4>1. rm'[q] = rm[q] /\ rm'[t] = rm[t]
        BY <2>5, <3>2, <3>4
      <4>2. Covered(q, t)
        BY <2>2, <3>1, <3>2, <4>1 DEF IInv, CoverOK, Lists
      <4>3. CASE Complete(q, t)
        BY <3>1, <4>1, <4>3 DEF Covered, Complete
      <4>4. ASSUME NEW x \in Servers, ToCome(x, q, t)
            PROVE  ToCome(x, q, t)'
        <5>1. telling[x].by = q
          BY <4>4 DEF ToCome
        <5>2. x # s
          BY <1>1, <5>1, <2>0 DEF IInv, TellingOK
        <5> QED
          BY <2>8, <3>1, <4>1, <4>4, <5>2 DEF ToCome
      <4> QED
        BY <4>2, <4>3, <4>4 DEF Covered
    <3> QED
      BY <3>3, <3>4
  <2> QED
    BY <2>9, <2>10, <2>11, <2>12, <2>13 DEF IInv
<1> QED
  BY <1>2, <1>3 DEF Announce, Primaries

LEMMA TellStep ==
  ASSUME IInv, NEW s \in Servers, Tell(s)
  PROVE  IInv'
<1>0. Typed /\ TypeOK
  BY Types DEF IInv
<1> DEFINE p == telling[s].by
           i == telling[s].at
<1>1. p \in Servers /\ i \in Nat /\ rm[p] \in Seq(Entries)
  BY <1>0 DEF Tell, Typed
<1>2. UNCHANGED << phase, port, primaryIp, crashes, faults >>
  BY DEF Tell
<1>3. phase[s] \notin Before /\ phase[p] \in Tellers \cup {"dead"}
  BY <1>1 DEF IInv, TellingOK
<1>4. PortOK'
  BY <1>2 DEF IInv, PortOK
<1>5. ASSUME i <= Len(rm[p]), Reach(p, rm[p][i]), telling' = [telling EXCEPT ![s].at = i + 1]
      PROVE  IInv'
  <2> DEFINE e == rm[p][i]
             told == {t \in At(e) : phase[t] = "backup"}
  <2>1. /\ \A t \in told : t \in Servers /\ phase[t] = "backup"
        /\ rm' = [t \in Servers |-> IF t \in told THEN Received(rm[p], t) ELSE rm[t]]
        /\ toldBy' = [t \in Servers |-> IF t \in told THEN p
                                        ELSE IF Entry(t) = e THEN Missed(p, t)
                                        ELSE toldBy[t]]
    BY <1>5 DEF Reach, At
  <2>2. \A t \in Servers : phase[t] = "backup" /\ Entry(t) = e => t \in told
    BY DEF At, Bound
  <2> HIDE DEF told
  <2>3. /\ telling'[s].by = p /\ telling'[s].at = i + 1
        /\ \A x \in Servers \ {s} : telling'[x] = telling[x]
        /\ telling' \in [Servers -> [by : Servers \cup {Nowhere}, at : Nat]]
    <3>1. telling \in [Servers -> [by : Servers \cup {Nowhere}, at : Nat]]
      BY <1>0 DEF Typed
    <3>2. [telling[s] EXCEPT !.at = i + 1] = [by |-> p, at |-> i + 1]
      BY <3>1
    <3>3. [by |-> p, at |-> i + 1] \in [by : Servers \cup {Nowhere}, at : Nat]
      BY <1>1
    <3>4. telling' = [telling EXCEPT ![s] = [by |-> p, at |-> i + 1]]
      BY <1>5, <3>2
    <3> QED
      <4> HIDE DEF p, i
      <4> QED
        BY <3>1, <3>3, <3>4
  <2> HIDE DEF p, i, e
  <2>4. rm' \in [Servers -> Seq(Entries)]
    <3>1. \A t \in Servers : rm[t] \in Seq(Entries) /\ Received(rm[p], t) \in Seq(Entries)
      BY <1>0, <1>1, ReceivedSeq DEF Typed
    <3> QED
      BY <2>1, <3>1
  <2>5. toldBy' \in [Servers -> Servers \cup {Nowhere}]
    <3>1. \A t \in Servers : Missed(p, t) \in Servers \cup {Nowhere}
      BY <1>0 DEF Missed, Typed
    <3> QED
      BY <1>0, <1>1, <2>1, <3>1 DEF Typed
  <2>6. TypeOK'
    <3>1. Typed'
      BY <1>0, <1>2, <2>3, <2>4, <2>5 DEF Typed
    <3> QED
      BY <3>1, Types
  <2>7. TellingOK'
    <3>1. \A x \in Servers : telling'[x].by = telling[x].by
      BY <2>3 DEF p
    <3> QED
      BY <1>2, <3>1 DEF IInv, TellingOK
  <2>8. ASSUME NEW q \in Servers, NEW t \in Servers, toldBy'[t] = q, t \notin told
        PROVE  toldBy[t] = q /\ (q = p => Entry(t) # e)
    <3>1. CASE Entry(t) = e
      <4>1. q = Missed(p, t)
        BY <2>1, <2>8, <3>1
      <4> QED
        BY <4>1, <3>1, NowhereAssumption DEF Missed
    <3>2. CASE Entry(t) # e
      BY <2>1, <2>8, <3>2
    <3> QED
      BY <3>1, <3>2
  <2>9. ToldOK'
    <3> SUFFICES ASSUME NEW q \in Servers, NEW t \in Servers, toldBy'[t] = q
                 PROVE  /\ phase[t] \notin Before \cup {"joined"}
                        /\ phase[q] \in Tellers \cup {"dead"}
      BY <1>2 DEF ToldOK
    <3>1. CASE t \in told
      <4>1. q = p /\ phase[t] = "backup"
        BY <2>1, <3>1
      <4> QED
        BY <1>3, <4>1 DEF Before
    <3>2. CASE t \notin told
      BY <2>8, <3>2 DEF IInv, ToldOK
    <3> QED
      BY <3>1, <3>2
  <2>10. CoverOK'
    <3> SUFFICES ASSUME NEW q \in Servers, NEW t \in Servers,
                        phase[q] \in Tellers, phase[t] \in Followers,
                        toldBy'[t] = q, Lists(q, t)'
                 PROVE  Covered(q, t)'
      BY <1>2 DEF CoverOK
    <3>1. Entry(t)' = Entry(t) /\ port' = port
      BY <1>2 DEF Entry
    <3>2. rm'[q] = rm[q]
      <4>1. q \notin told
        BY <2>1 DEF Tellers
      <4> QED
        BY <2>1, <4>1
    <3>3. CASE t \in told
      <4>1. q = p /\ rm'[t] = Received(rm[p], t)
        BY <2>1, <3>3
      <4>2. \A j \in DOMAIN rm[p] : rm[p][j].port # port[t] =>
              \E k \in DOMAIN Received(rm[p], t) : Received(rm[p], t)[k] = rm[p][j]
        BY <1>1, ReceivedSeq
      <4> QED
        BY <3>1, <3>2, <4>1, <4>2 DEF Covered, Complete
    <3>4. CASE t \notin told
      <4>1. rm'[t] = rm[t]
        BY <2>1, <3>4
      <4>2. toldBy[t] = q /\ (q = p => Entry(t) # e)
        BY <2>8, <3>4
      <4>3. Covered(q, t)
        BY <3>1, <3>2, <4>2 DEF IInv, CoverOK, Lists
      <4>4. CASE Complete(q, t)
        BY <3>1, <3>2, <4>1, <4>4 DEF Covered, Complete
      <4>5. ASSUME NEW x \in Servers, ToCome(x, q, t)
            PROVE  ToCome(x, q, t)'
        <5>1. telling[x].by = q /\ \A j \in DOMAIN rm[q] : rm[q][j] = Entry(t) => telling[x].at <= j
          BY <4>5 DEF ToCome
        <5>2. CASE x # s
          BY <2>3, <3>1, <3>2, <5>1, <5>2 DEF ToCome
        <5>3. CASE x = s
          <6>1. q = p /\ \A j \in DOMAIN rm[p] : rm[p][j] = Entry(t) => i <= j
            BY <5>1, <5>3 DEF p, i
          <6>2. \A j \in DOMAIN rm[p] : rm[p][j] = Entry(t) => j # i
            BY <4>2, <6>1 DEF e
          <6>3. \A j \in DOMAIN rm[p] : j \in Nat
            BY <1>1
          <6>4. \A j \in DOMAIN rm[p] : rm[p][j] = Entry(t) => i + 1 <= j
            BY <1>1, <6>1, <6>2, <6>3
          <6> QED
            BY <2>3, <3>1, <3>2, <5>3, <6>1, <6>4 DEF ToCome
        <5> QED
          BY <5>2, <5>3
      <4> QED
        BY <4>3, <4>4, <4>5 DEF Covered
    <3> QED
      BY <3>3, <3>4
  <2> QED
    BY <1>4, <2>6, <2>7, <2>9, <2>10 DEF IInv
<1>6. ASSUME ~ (i <= Len(rm[p])), telling' = [telling EXCEPT ![s] = Silent],
             UNCHANGED << rm, toldBy >>
      PROVE  IInv'
  <2>1. /\ telling'[s] = Silent /\ Silent.by = Nowhere
        /\ \A x \in Servers \ {s} : telling'[x] = telling[x]
        /\ telling' \in [Servers -> [by : Servers \cup {Nowhere}, at : Nat]]
    <3>1. Silent \in [by : Servers \cup {Nowhere}, at : Nat] /\ Silent.by = Nowhere
      BY DEF Silent
    <3> QED
      BY <1>0, <1>6, <3>1 DEF Typed
  <2>2. TypeOK'
    <3>1. Typed'
      BY <1>0, <1>2, <1>6, <2>1 DEF Typed
    <3> QED
      BY <3>1, Types
  <2>3. TellingOK'
    BY <1>2, <2>1, NowhereAssumption DEF IInv, TellingOK
  <2>4. ToldOK'
    BY <1>2, <1>6 DEF IInv, ToldOK
  <2>5. CoverOK'
    <3> SUFFICES ASSUME NEW q \in Servers, NEW t \in Servers,
                        phase[q] \in Tellers, phase[t] \in Followers,
                        toldBy[t] = q, Lists(q, t)
                 PROVE  Covered(q, t)'
      BY <1>2, <1>6 DEF CoverOK, Lists, Entry
    <3>1. Entry(t)' = Entry(t) /\ port' = port /\ rm' = rm
      BY <1>2, <1>6 DEF Entry
    <3>2. Covered(q, t)
      BY DEF IInv, CoverOK
    <3>3. CASE Complete(q, t)
      BY <3>1, <3>3 DEF Covered, Complete
    <3>4. ASSUME NEW x \in Servers, ToCome(x, q, t)
          PROVE  ToCome(x, q, t)'
      <4>1. telling[x].by = q /\ \A j \in DOMAIN rm[q] : rm[q][j] = Entry(t) => telling[x].at <= j
        BY <3>4 DEF ToCome
      <4>2. x # s
        <5> SUFFICES ASSUME x = s
                     PROVE  FALSE
          OBVIOUS
        <5>1. q = p /\ \A j \in DOMAIN rm[p] : rm[p][j] = Entry(t) => i <= j
          BY <4>1
        <5>2. PICK j \in DOMAIN rm[p] : rm[p][j] = Entry(t)
          BY <5>1 DEF Lists
        <5>3. j <= Len(rm[p]) /\ j \in Nat /\ Len(rm[p]) \in Nat /\ i <= j
          BY <1>1, <5>1, <5>2
        <5> QED
          BY <1>1, <1>6, <5>3
      <4> QED
        BY <2>1, <3>1, <4>1, <4>2 DEF ToCome
    <3> QED
      BY <3>2, <3>3, <3>4 DEF Covered
  <2> QED
    BY <1>4, <2>2, <2>3, <2>4, <2>5 DEF IInv
<1> QED
  BY <1>5, <1>6 DEF Tell

LEMMA EraseStep ==
  ASSUME IInv, NEW p \in Servers, HeartbeatErase(p)
  PROVE  IInv'
<1>0. Typed /\ TypeOK
  BY Types DEF IInv
<1>1. phase[p] = "primary" /\ UNCHANGED << phase, port, primaryIp, telling, crashes >>
  BY DEF HeartbeatErase
<1>2. PICK k \in DOMAIN rm[p] :
        /\ rm' = [rm EXCEPT ![p] = RemoveAt(@, k)]
        /\ toldBy' = [t \in Servers |-> IF t \in Skipped(p, k) THEN Missed(p, t)
                                                               ELSE toldBy[t]]
        /\ Fault("erased") \/ UNCHANGED faults
  BY DEF HeartbeatErase
<1>3. rm[p] \in Seq(Entries) /\ Len(rm[p]) \in Nat /\ k \in 1 .. Len(rm[p])
  BY <1>0 DEF Typed
<1> DEFINE shorter == RemoveAt(rm[p], k)
<1>4. /\ shorter \in Seq(Entries)
      /\ DOMAIN shorter = 1 .. Len(rm[p]) - 1
      /\ \A i \in 1 .. Len(rm[p]) - 1 :
           shorter[i] = IF i < k THEN rm[p][i] ELSE rm[p][i + 1]
  BY <1>3, Removed
<1> HIDE DEF shorter
<1>5. rm'[p] = shorter /\ \A x \in Servers \ {p} : rm'[x] = rm[x]
  BY <1>0, <1>2 DEF Typed, shorter
<1>6. rm' \in [Servers -> Seq(Entries)]
  BY <1>0, <1>2, <1>4 DEF Typed, shorter
<1>7. ASSUME NEW t \in Servers, NEW q \in Servers, toldBy'[t] = q
      PROVE  toldBy[t] = q /\ (q = p => t \notin Skipped(p, k))
  <2>1. CASE t \in Skipped(p, k)
    <3>1. q = Missed(p, t)
      BY <1>2, <1>7, <2>1
    <3> QED
      BY <3>1, NowhereAssumption DEF Missed
  <2>2. CASE t \notin Skipped(p, k)
    BY <1>2, <1>7, <2>2
  <2> QED
    BY <2>1, <2>2
<1>8. TypeOK'
  <2>1. \A t \in Servers : Missed(p, t) \in Servers \cup {Nowhere}
    BY <1>0 DEF Missed, Typed
  <2>2. toldBy' \in [Servers -> Servers \cup {Nowhere}]
    BY <1>0, <1>2, <2>1 DEF Typed
  <2>3. faults' \subseteq FaultNames
    BY <1>0, <1>2 DEF Typed, Fault, FaultNames
  <2>4. Typed'
    BY <1>0, <1>1, <1>6, <2>2, <2>3 DEF Typed
  <2> QED
    BY <2>4, Types
<1>9. PortOK' /\ TellingOK'
  BY <1>1 DEF IInv, PortOK, TellingOK
<1>10. ToldOK'
  BY <1>1, <1>7 DEF IInv, ToldOK
<1>11. CoverOK'
  <2> SUFFICES ASSUME NEW q \in Servers, NEW t \in Servers,
                      phase[q] \in Tellers, phase[t] \in Followers,
                      toldBy'[t] = q, Lists(q, t)'
               PROVE  Covered(q, t)'
    BY <1>1 DEF CoverOK
  <2>1. Entry(t)' = Entry(t) /\ port' = port /\ telling' = telling
    BY <1>1 DEF Entry
  <2>2. toldBy[t] = q /\ (q = p => t \notin Skipped(p, k))
    BY <1>7
  <2>3. rm'[t] = rm[t]
    <3>1. t # p
      BY <1>1 DEF Followers
    <3> QED
      BY <1>5, <3>1
  <2>4. CASE q # p
    <3>1. rm'[q] = rm[q]
      BY <1>5, <2>4
    <3>2. Covered(q, t)
      BY <2>1, <2>2, <3>1 DEF IInv, CoverOK, Lists
    <3> QED
      BY <2>1, <2>3, <3>1, <3>2 DEF Covered, Complete, ToCome
  <2>5. CASE q = p
    <3>1. \A i \in DOMAIN shorter : \E j \in DOMAIN rm[p] : rm[p][j] = shorter[i]
      BY <1>3, <1>4
    <3>2. Lists(p, t)
      BY <1>5, <2>1, <2>5, <3>1 DEF Lists
    <3>3. Covered(p, t)
      BY <2>2, <2>5, <3>2 DEF IInv, CoverOK
    <3>4. CASE Complete(p, t)
      <4>1. ASSUME NEW i \in DOMAIN shorter, shorter[i].port # port[t]
            PROVE  \E j \in DOMAIN rm[t] : rm[t][j] = shorter[i]
        BY <3>1, <3>4, <4>1 DEF Complete
      <4> QED
        BY <1>5, <2>1, <2>3, <2>5, <4>1 DEF Covered, Complete
    <3>5. ASSUME NEW x \in Servers, ToCome(x, p, t)
          PROVE  ToCome(x, p, t)'
      <4>1. /\ telling[x].by = p
            /\ \A i \in DOMAIN rm[p] : rm[p][i] = Entry(t) => telling[x].at <= i
        BY <3>5 DEF ToCome
      <4>2. telling[x].at \in Nat
        BY <1>0 DEF Typed
      <4>3. ASSUME NEW i \in DOMAIN shorter, shorter[i] = Entry(t)
            PROVE  telling[x].at <= i
        <5>1. i \in Nat /\ i \in 1 .. Len(rm[p]) - 1
          BY <1>3, <1>4
        <5>2. CASE i < k
          <6>1. i \in DOMAIN rm[p] /\ rm[p][i] = Entry(t)
            BY <1>3, <1>4, <4>3, <5>1, <5>2
          <6> QED
            BY <4>1, <6>1
        <5>3. CASE ~ (i < k)
          <6>1. i + 1 \in DOMAIN rm[p] /\ rm[p][i + 1] = Entry(t)
            BY <1>3, <1>4, <4>3, <5>1, <5>3
          <6>2. telling[x].at <= i + 1
            BY <4>1, <6>1
          <6>3. telling[x].at # i + 1
            <7> SUFFICES ASSUME telling[x].at = i + 1
                         PROVE  FALSE
              OBVIOUS
            <7>1. k < telling[x].at
              BY <1>3, <5>1, <5>3
            <7>2. t \in Skipped(p, k)
              BY <4>1, <6>1, <7>1 DEF Skipped
            <7> QED
              BY <2>2, <2>5, <7>2
          <6> QED
            BY <4>2, <5>1, <6>2, <6>3
        <5> QED
          BY <5>2, <5>3
      <4> QED
        BY <1>5, <2>1, <4>1, <4>3 DEF ToCome
    <3> QED
      BY <2>5, <3>3, <3>4, <3>5 DEF Covered
  <2> QED
    BY <2>4, <2>5
<1> QED
  BY <1>8, <1>9, <1>10, <1>11 DEF IInv

-----------------------------------------------------------------------------
LEMMA Initially == Init => IInv
<1> SUFFICES ASSUME Init
             PROVE  IInv
  OBVIOUS
<1>1. /\ phase = [s \in Servers |-> "off"] /\ port = [s \in Servers |-> 0]
      /\ primaryIp = [s \in Servers |-> Nowhere] /\ rm = [s \in Servers |-> << >>]
      /\ telling = [s \in Servers |-> Silent]
      /\ crashes = 0 /\ faults = {} /\ toldBy = [s \in Servers |-> Nowhere]
  BY DEF Init
<1>2. TypeOK
  <2>1. /\ "off" \in Phases /\ << >> \in Seq(Entries) /\ 0 \in 0 .. MaxCrashes
        /\ Silent \in [by : Servers \cup {Nowhere}, at : Nat]
    BY FailoverAssumption DEF Phases, Before, Silent
  <2>2. Typed
    BY <1>1, <2>1 DEF Typed
  <2> QED
    BY <2>2, Types
<1>3. PortOK
  BY <1>1 DEF PortOK
<1>4. TellingOK
  BY <1>1, NowhereAssumption DEF TellingOK, Silent
<1>5. ToldOK /\ CoverOK
  BY <1>1, NowhereAssumption DEF ToldOK, CoverOK
<1> QED
  BY <1>2, <1>3, <1>4, <1>5 DEF IInv

LEMMA Inductive == IInv /\ [Next]_vars => IInv'
<1> SUFFICES ASSUME IInv, [Next]_vars
             PROVE  IInv'
  OBVIOUS
<1>0. TypeOK
  BY DEF IInv
<1>1. ASSUME NEW s \in Servers, Step(s) \/ Start(s) \/ TimeoutLate(s) \/ Crash(s)
      PROVE  IInv'
  <2>1. CASE Start(s) \/ HearPrimary(s) \/ HearNone(s) \/ HearGarbage(s) \/ Listen(s)
    BY <1>0, <2>1, StartingSteps, QuietKeeps DEF IInv
  <2>2. CASE \/ Timeout(s) \/ TimeoutLate(s) \/ Bind(s) \/ CallIgnored(s) \/ CallRefused(s)
             \/ Defer(s) \/ TellNoAddress(s) \/ TakeOver(s)
    BY <1>0, <2>2, ElectionSteps, QuietKeeps DEF IInv
  <2>3. CASE ChoosePort(s)
    BY <1>0, <2>3, ChoosePortStep, QuietKeeps DEF IInv
  <2>4. CASE Declare(s) \/ DeclareDisputed(s)
    BY <1>0, <2>4, DeclareSteps, QuietKeeps DEF IInv
  <2>5. CASE TellAddress(s)
    BY <1>0, <2>5, TellAddressStep, QuietKeeps DEF IInv
  <2>6. CASE Crash(s)
    BY <1>0, <2>6, CrashStep, QuietKeeps DEF IInv
  <2>7. CASE Announce(s)
    BY <2>7, AnnounceStep
  <2>8. CASE Tell(s)
    BY <2>8, TellStep
  <2>9. CASE HeartbeatErase(s)
    BY <2>9, EraseStep
  <2> QED
    BY <1>1, <2>1, <2>2, <2>3, <2>4, <2>5, <2>6, <2>7, <2>8, <2>9 DEF Step, MainThread
<1>2. CASE UNCHANGED vars
  <2>1. UNCHANGED << phase, port, primaryIp, rm, telling, crashes, faults, toldBy >>
    BY <1>2 DEF vars
  <2>2. Quiet
    BY <2>1 DEF Quiet, Moves
  <2>3. TypeOK'
    BY <1>0, <2>1, Types DEF Typed
  <2> QED
    BY <2>2, <2>3, QuietKeeps DEF IInv
<1> QED
  BY <1>1, <1>2 DEF Next

LEMMA Always == Spec => []IInv
BY Initially, Inductive, PTL DEF Spec

(***************************************************************************)
(* Every variable has its type, for any servers, hosts and ports that      *)
(* arrive as they are sent.                                                *)
(***************************************************************************)
THEOREM TypeCorrect == Spec => []TypeOK
<1>1. IInv => TypeOK
  BY DEF IInv
<1> QED
  BY <1>1, Always, PTL

LEMMA IInvCompletes == IInv => ListsComplete
<1> SUFFICES ASSUME IInv, NEW p \in Primaries, \A s \in Servers : telling[s].by # p,
                    NEW t \in Servers, phase[t] = "backup", Lists(p, t), toldBy[t] = p
             PROVE  ToSet(Received(rm[p], t)) \subseteq ToSet(rm[t])
  BY DEF ListsComplete
<1>1. p \in Servers /\ phase[p] \in Tellers /\ phase[t] \in Followers
  BY DEF Primaries, Tellers, Followers
<1>2. Covered(p, t)
  BY <1>1 DEF IInv, CoverOK
<1>3. Complete(p, t)
  BY <1>2 DEF Covered, ToCome
<1>4. rm[p] \in Seq(Entries)
  BY <1>1, Types DEF IInv, Typed
<1>5. \A j \in DOMAIN Received(rm[p], t) :
        /\ Received(rm[p], t)[j].port # port[t]
        /\ \E i \in DOMAIN rm[p] : Received(rm[p], t)[j] = rm[p][i]
  BY <1>4, ReceivedSeq
<1>6. ASSUME NEW j \in DOMAIN Received(rm[p], t)
      PROVE  \E k \in DOMAIN rm[t] : rm[t][k] = Received(rm[p], t)[j]
  BY <1>3, <1>5 DEF Complete
<1> QED
  BY <1>6 DEF ToSet

(***************************************************************************)
(* When the threads of a primary are done, a backup that listens and has   *)
(* its list from it knows every other backup the primary knows, however    *)
(* many servers join, crash, take over and are erased meanwhile; unless it *)
(* was missed, or the list moved under a thread when another was erased.   *)
(***************************************************************************)
THEOREM ToldKnowAll == Spec => []ListsComplete
BY IInvCompletes, Always, PTL

-----------------------------------------------------------------------------
(***************************************************************************)
(* One primary.  What the proof says of the lists is which entries one     *)
(* holds, and which comes before which.                                    *)
(***************************************************************************)
Holds(list, e)       == \E i \in DOMAIN list : list[i] = e
Precedes(list, e, f) == \E i, j \in DOMAIN list : i < j /\ list[i] = e /\ list[j] = f

LEMMA Ordered ==
  ASSUME NEW list \in Seq(Entries), NEW e, NEW f
  PROVE  /\ Precedes(list, e, f) => Holds(list, e) /\ Holds(list, f)
         /\ Holds(list, e) => e \in Entries
         /\ Holds(list, e) /\ Holds(list, f) /\ e # f =>
              Precedes(list, e, f) \/ Precedes(list, f, e)
<1>1. Precedes(list, e, f) => Holds(list, e) /\ Holds(list, f)
  BY DEF Precedes, Holds
<1>2. Holds(list, e) => e \in Entries
  BY DEF Holds
<1>3. ASSUME NEW i \in DOMAIN list, NEW j \in DOMAIN list, list[i] = e, list[j] = f, e # f
      PROVE  Precedes(list, e, f) \/ Precedes(list, f, e)
  <2>1. i < j \/ j < i
    BY <1>3
  <2> QED
    BY <1>3, <2>1 DEF Precedes
<1> QED
  BY <1>1, <1>2, <1>3 DEF Holds

LEMMA HeadFirst ==
  ASSUME NEW list \in Seq(Entries), list # << >>, NEW f
  PROVE  /\ Holds(list, Head(list))
         /\ Holds(list, f) /\ f # Head(list) => Precedes(list, Head(list), f)
<1>1. 1 \in DOMAIN list /\ list[1] = Head(list) /\ \A i \in DOMAIN list : i = 1 \/ 1 < i
  OBVIOUS
<1>2. Holds(list, Head(list))
  BY <1>1 DEF Holds
<1>3. ASSUME NEW i \in DOMAIN list, list[i] = f, f # Head(list)
      PROVE  Precedes(list, Head(list), f)
  <2>1. 1 < i
    BY <1>1, <1>3
  <2> QED
    BY <1>1, <1>3, <2>1 DEF Precedes
<1> QED
  BY <1>2, <1>3 DEF Holds

LEMMA AppendOrder ==
  ASSUME NEW list \in Seq(Entries), NEW x \in Entries, NEW e, NEW f
  PROVE  /\ Holds(Append(list, x), e) <=> Holds(list, e) \/ e = x
         /\ Precedes(Append(list, x), e, f) =>
              Precedes(list, e, f) \/ (f = x /\ Holds(list, e))
<1> DEFINE longer == Append(list, x)
           n == Len(list)
<1>1. /\ DOMAIN longer = 1 .. n + 1 /\ DOMAIN list = 1 .. n /\ n \in Nat
      /\ \A i \in 1 .. n : longer[i] = list[i]
      /\ longer[n + 1] = x
  OBVIOUS
<1> HIDE DEF longer, n
<1>2. Holds(longer, e) <=> Holds(list, e) \/ e = x
  <2>1. \A i \in 1 .. n + 1 : i \in 1 .. n \/ i = n + 1
    BY <1>1
  <2>2. n + 1 \in 1 .. n + 1 /\ \A i \in 1 .. n : i \in 1 .. n + 1
    BY <1>1
  <2> QED
    BY <1>1, <2>1, <2>2 DEF Holds
<1>3. ASSUME NEW i \in 1 .. n + 1, NEW j \in 1 .. n + 1, i < j, longer[i] = e, longer[j] = f
      PROVE  Precedes(list, e, f) \/ (f = x /\ Holds(list, e))
  <2>1. i \in 1 .. n
    BY <1>1, <1>3
  <2>2. j \in 1 .. n \/ j = n + 1
    BY <1>1, <1>3
  <2> QED
    BY <1>1, <1>3, <2>1, <2>2 DEF Precedes, Holds
<1>4. Precedes(longer, e, f) => Precedes(list, e, f) \/ (f = x /\ Holds(list, e))
  BY <1>1, <1>3 DEF Precedes
<1> QED
  BY <1>2, <1>4 DEF longer

LEMMA RemovedOrder ==
  ASSUME NEW list \in Seq(Entries), NEW k \in DOMAIN list, NEW e, NEW f
  PROVE  /\ Holds(RemoveAt(list, k), e) => Holds(list, e)
         /\ Holds(list, e) /\ e # list[k] => Holds(RemoveAt(list, k), e)
         /\ Precedes(RemoveAt(list, k), e, f) => Precedes(list, e, f)
<1> DEFINE shorter == RemoveAt(list, k)
           n == Len(list)
           old(i) == IF i < k THEN i ELSE i + 1
<1>1. /\ DOMAIN list = 1 .. n /\ n \in Nat /\ k \in 1 .. n
      /\ DOMAIN shorter = 1 .. n - 1
  BY Removed
<1>2. \A i \in 1 .. n - 1 : shorter[i] = IF i < k THEN list[i] ELSE list[i + 1]
  BY Removed
<1> HIDE DEF shorter, n
<1>3. \A i \in 1 .. n - 1 : old(i) \in 1 .. n /\ shorter[i] = list[old(i)]
  BY <1>1, <1>2
<1>4. \A i, j \in 1 .. n - 1 : i < j => old(i) < old(j)
  BY <1>1
<1>5. \A i \in 1 .. n : i # k => \E j \in 1 .. n - 1 : old(j) = i
  <2> SUFFICES ASSUME NEW i \in 1 .. n, i # k
               PROVE  \E j \in 1 .. n - 1 : old(j) = i
    OBVIOUS
  <2>1. CASE i < k
    <3>1. i \in 1 .. n - 1 /\ old(i) = i
      BY <1>1, <2>1
    <3> QED
      BY <3>1
  <2>2. CASE ~ (i < k)
    <3>1. i - 1 \in 1 .. n - 1 /\ old(i - 1) = i
      BY <1>1, <2>2
    <3> QED
      BY <3>1
  <2> QED
    BY <2>1, <2>2
<1> HIDE DEF old
<1>6. Holds(shorter, e) => Holds(list, e)
  BY <1>1, <1>3 DEF Holds
<1>7. Holds(list, e) /\ e # list[k] => Holds(shorter, e)
  BY <1>1, <1>3, <1>5 DEF Holds
<1>8. Precedes(shorter, e, f) => Precedes(list, e, f)
  BY <1>1, <1>3, <1>4 DEF Precedes
<1> QED
  BY <1>6, <1>7, <1>8 DEF shorter

LEMMA ReceivedOrder ==
  ASSUME NEW list \in Seq(Entries), NEW t \in Servers, NEW e, NEW f
  PROVE  /\ Received(list, t) \in Seq(Entries)
         /\ Holds(Received(list, t), e) <=> Holds(list, e) /\ e.port # port[t]
         /\ Precedes(Received(list, t), e, f) => Precedes(list, e, f)
<1> DEFINE r == Received(list, t)
<1>1. /\ r \in Seq(Entries)
      /\ \A j \in DOMAIN r : r[j].port # port[t] /\ \E i \in DOMAIN list : r[j] = list[i]
      /\ \A i \in DOMAIN list : list[i].port # port[t] => \E j \in DOMAIN r : r[j] = list[i]
  BY ReceivedSeq
<1>2. \A j, k \in DOMAIN r : j < k =>
        \E g, h \in DOMAIN list : g < h /\ r[j] = list[g] /\ r[k] = list[h]
  BY ReceivedSeq
<1> HIDE DEF r
<1>3. Holds(r, e) <=> Holds(list, e) /\ e.port # port[t]
  BY <1>1 DEF Holds
<1>4. Precedes(r, e, f) => Precedes(list, e, f)
  BY <1>2 DEF Precedes
<1> QED
  BY <1>1, <1>3, <1>4 DEF r

Contenders == {"leader"} \cup Tellers

Good == faults \cap {"unheard", "reused", "erased", "unlisted", "late", "twins", "crossed"} = {}

\* Two that call each other, and could elect one of them.
Mutual(s, t) ==
  /\ phase[s] \in Followers /\ rm[s] # << >> /\ Head(rm[s]) = Entry(t)
  /\ phase[t] \in Followers /\ rm[t] # << >> /\ Head(rm[t]) = Entry(s)
  /\ s # t

\* Backup t has, before any entry it shares with p, all that p has there.
Fresh(p, t) ==
  /\ phase[t] = "backup"
  /\ \A e, f : (Holds(rm[t], f) /\ Precedes(rm[p], e, f) /\ e.port # port[t]) => Holds(rm[t], e)

\* Who has not joined, or has not listened yet, has no list.
EmptyOK == \A s \in Servers : phase[s] \in Before \cup {"joined"} => rm[s] = << >>

\* Only a primary that found no other when it started has no port.
HasPortOK ==
  \A s \in Servers :
    /\ phase[s] \in Before \ {"announcing"} => port[s] = 0
    /\ phase[s] \in Followers \cup {"joined", "announcing", "leader", "telling"} => port[s] # 0

\* A list is sent for one that leads: for itself before it is the primary.
ThreadsOK ==
  \A s, p \in Servers : telling[s].by = p =>
    /\ phase[p] = "primary" \/ (phase[p] = "telling" /\ s = p)
    /\ telling[s].at # 0

\* A backup lists nobody of its own port; a primary may, when one joins.
OwnOK ==
  \A s \in Servers : phase[s] \in Followers \cup {"leader", "telling"} =>
    \A e : Holds(rm[s], e) => e.port # port[s]

\* Of leaders and primaries together there is one: this is what is proved.
OneContender ==
  \A s, t \in Servers : (phase[s] \in Contenders /\ phase[t] \in Contenders) => s = t

\* Entries name servers that run: no two have one, and nobody knows that of a
\* server that has not announced itself.
Distinct ==
  \A s, t \in Running : (port[s] # 0 /\ Entry(s) = Entry(t)) => s = t

NotYetOK ==
  \A s, t \in Running : phase[s] = "announcing" => ~ Holds(rm[t], Entry(s))

\* All lists have what they share in one order, and have it once (s = t, e = f).
SameOrder ==
  \A s, t \in Running : \A e, f : ~ (Precedes(rm[s], e, f) /\ Precedes(rm[t], f, e))

\* A list that has an entry has the servers of the same port that come before
\* it in any other: both or neither were left out for it.
Together ==
  \A s, t, u \in Running : \A e :
    (Precedes(rm[s], Entry(u), e) /\ port[u] = e.port /\ Holds(rm[t], e)) => Holds(rm[t], Entry(u))

\* A primary that never was a backup lists all that have joined.
AllListed ==
  \A p, s \in Running :
    (phase[p] = "primary" /\ port[p] = 0 /\ port[s] # 0 /\ phase[s] # "announcing") =>
      Holds(rm[p], Entry(s))

\* Who leads lists both of a pair, and one of them still listens to it, with
\* a list that is no older than the pair: the two will not elect one.
Watched ==
  \A p, s, t \in Servers : (phase[p] \in Contenders /\ Mutual(s, t)) =>
    /\ Holds(rm[p], Entry(s)) /\ Holds(rm[p], Entry(t))
    /\ Fresh(p, s) \/ Fresh(p, t)

\* When who leads is gone, there is one pair to elect the next.
OnePair ==
  \A s, t, u, v \in Servers : (Mutual(s, t) /\ Mutual(u, v)) => u \in {s, t}

Calm ==
  /\ OwnOK /\ OneContender /\ Distinct /\ NotYetOK /\ SameOrder /\ Together
  /\ AllListed /\ Watched /\ OnePair

PInv == EmptyOK /\ HasPortOK /\ ThreadsOK /\ (Good => Calm)

LEMMA Entered ==
  ASSUME NEW s \in Servers, NEW t \in Servers
  PROVE  /\ Entry(s).port = port[s]
         /\ Entry(s) = Entry(t) => port[s] = port[t]
BY DEF Entry

\* The first of a list is not behind an entry that another list has before it.
LEMMA HeadIsFirst ==
  ASSUME Typed, SameOrder, NEW s \in Running, NEW t \in Running, rm[s] # << >>,
         NEW e, Precedes(rm[t], e, Head(rm[s]))
  PROVE  ~ Holds(rm[s], e)
<1> SUFFICES ASSUME Holds(rm[s], e)
             PROVE  FALSE
  OBVIOUS
<1>1. rm[s] \in Seq(Entries)
  BY DEF Typed, Running
<1>2. e # Head(rm[s])
  BY DEF SameOrder
<1>3. Precedes(rm[s], Head(rm[s]), e)
  BY <1>1, <1>2, HeadFirst
<1> QED
  BY <1>3 DEF SameOrder

(***************************************************************************)
(* Server t has been told its list by p, and s comes first in it.  Then no *)
(* two others whose lists agree with p's that far call each other.         *)
(***************************************************************************)
LEMMA NoSecondPair ==
  ASSUME Typed, SameOrder, Together, OwnOK,
         NEW p \in Running, NEW s \in Running, NEW t \in Running,
         NEW q \in Running, NEW u \in Running,
         Entry(s) # Entry(q), Entry(s) # Entry(u), Entry(t) # Entry(q),
         Holds(rm[p], Entry(s)), Holds(rm[p], Entry(t)),
         Holds(rm[p], Entry(q)), Holds(rm[p], Entry(u)),
         \A e : Precedes(rm[p], e, Entry(s)) => e.port = port[t],
         port[s] # port[t], rm[s] # << >>, Head(rm[s]) = Entry(t),
         Mutual(q, u), Fresh(p, u)
  PROVE  FALSE
<1>0. /\ rm[q] # << >> /\ Head(rm[q]) = Entry(u) /\ phase[q] \in Followers
      /\ rm[u] # << >> /\ Head(rm[u]) = Entry(q) /\ phase[u] \in Followers
  BY DEF Mutual
<1>1. \A x \in Running : x \in Servers /\ Entry(x).port = port[x] /\ rm[x] \in Seq(Entries)
  BY Entered DEF Running, Typed
<1>2. Holds(rm[s], Entry(t)) /\ Holds(rm[q], Entry(u)) /\ Holds(rm[u], Entry(q))
  BY <1>0, <1>1, HeadFirst
<1>3. port[q] # port[u]
  BY <1>0, <1>1, <1>2 DEF OwnOK
<1>4. ASSUME NEW e, Precedes(rm[p], e, Entry(q))
      PROVE  e.port = port[u]
  <2>1. ~ Holds(rm[u], e)
    BY <1>0, <1>4, HeadIsFirst
  <2> QED
    BY <1>2, <1>4, <2>1 DEF Fresh
<1>5. CASE Precedes(rm[p], Entry(q), Entry(s))
  <2>1. port[q] = port[t]
    BY <1>1, <1>5
  <2>2. CASE Precedes(rm[p], Entry(q), Entry(t))
    <3>1. Holds(rm[s], Entry(q))
      BY <1>1, <1>2, <2>1, <2>2 DEF Together
    <3> QED
      BY <2>2, <3>1, HeadIsFirst
  <2>3. CASE Precedes(rm[p], Entry(t), Entry(q))
    BY <1>1, <1>3, <1>4, <2>1, <2>3
  <2> QED
    BY <1>1, <2>2, <2>3, Ordered
<1>6. CASE Precedes(rm[p], Entry(s), Entry(q))
  <2>1. port[s] = port[u]
    BY <1>1, <1>4, <1>6
  <2>2. CASE Precedes(rm[p], Entry(s), Entry(u))
    <3>1. Holds(rm[q], Entry(s))
      BY <1>1, <1>2, <2>1, <2>2 DEF Together
    <3> QED
      BY <1>0, <2>2, <3>1, HeadIsFirst
  <2>3. CASE Precedes(rm[p], Entry(u), Entry(s))
    BY <1>1, <2>1, <2>3
  <2> QED
    BY <1>1, <2>2, <2>3, Ordered
<1> QED
  BY <1>1, <1>5, <1>6, Ordered

(***************************************************************************)
(* Steps that change no list and no port.                                  *)
(***************************************************************************)
Still ==
  /\ rm' = rm /\ port' = port
  /\ \A x \in Servers :
       \/ phase'[x] = phase[x]
       \/ phase'[x] = "dead"
       \/ /\ phase[x] \in Before \ {"announcing"}
          /\ phase'[x] \in (Before \ {"announcing"}) \cup {"primary"}
       \/ phase[x] \in Followers \cup {"joined"} /\ phase'[x] \in Followers \cup {"leader"}
       \/ phase[x] = "leader" /\ phase'[x] = "telling"
       \/ phase[x] = "telling" /\ phase'[x] = "primary"

LEMMA Nothing ==
  ASSUME NEW e, NEW f
  PROVE  ~ Holds(<< >>, e) /\ ~ Precedes(<< >>, e, f)
BY DEF Holds, Precedes

LEMMA StillRunning ==
  ASSUME Typed, EmptyOK, HasPortOK, Still, NEW x \in Servers, x \in Running'
  PROVE  /\ x \in Running \/ (rm[x] = << >> /\ port[x] = 0)
         /\ \A e : Holds(rm[x], e) => x \in Running
         /\ \A e, f : Precedes(rm[x], e, f) => x \in Running
         /\ port[x] # 0 => x \in Running
<1>1. phase'[x] # "off" /\ phase'[x] # "dead"
  BY DEF Running, In
<1>2. phase[x] # "dead"
  BY <1>1 DEF Still, Before, Followers
<1>3. CASE phase[x] = "off"
  BY <1>3, Nothing DEF EmptyOK, HasPortOK, Before
<1>4. CASE phase[x] # "off"
  BY <1>2, <1>4 DEF Running, In
<1> QED
  BY <1>3, <1>4

LEMMA StillPlaces ==
  ASSUME Typed, EmptyOK, HasPortOK, Still
  PROVE  EmptyOK' /\ HasPortOK'
<1>1. rm' = rm /\ port' = port
  BY DEF Still
<1>2. ASSUME NEW x \in Servers
      PROVE  /\ phase'[x] \in Before \cup {"joined"} => phase[x] \in Before \cup {"joined"}
             /\ phase'[x] \in Before \ {"announcing"} => phase[x] \in Before \ {"announcing"}
             /\ phase'[x] \in Followers \cup {"joined", "announcing", "leader", "telling"} =>
                phase[x] \in Followers \cup {"joined", "announcing", "leader", "telling"}
  BY DEF Still, Before, Followers
<1>3. EmptyOK'
  BY <1>1, <1>2 DEF EmptyOK
<1>4. HasPortOK'
  BY <1>1, <1>2 DEF HasPortOK
<1> QED
  BY <1>3, <1>4

LEMMA StillMutual ==
  ASSUME Typed, EmptyOK, Still, NEW s \in Servers, NEW t \in Servers, Mutual(s, t)'
  PROVE  Mutual(s, t)
<1>1. rm' = rm /\ Entry(s)' = Entry(s) /\ Entry(t)' = Entry(t)
  BY DEF Still, Entry
<1>2. ASSUME NEW x \in Servers, phase'[x] \in Followers, rm[x] # << >>
      PROVE  phase[x] \in Followers
  BY <1>2 DEF Still, Before, Followers, EmptyOK
<1> QED
  BY <1>1, <1>2 DEF Mutual

LEMMA StillLists ==
  ASSUME Typed, EmptyOK, HasPortOK, Calm, Still
  PROVE  OwnOK' /\ Distinct' /\ NotYetOK' /\ SameOrder' /\ Together' /\ OnePair'
<1>1. rm' = rm /\ port' = port /\ \A x \in Servers : Entry(x)' = Entry(x)
  BY DEF Still, Entry
<1>2. \A x \in Running' : x \in Servers
  BY DEF Running
<1>3. \A x \in Running' : /\ \A e : Holds(rm[x], e) => x \in Running
                          /\ \A e, f : Precedes(rm[x], e, f) => x \in Running
                          /\ port[x] # 0 => x \in Running
  BY <1>2, StillRunning
<1>4. OwnOK'
  <2> SUFFICES ASSUME NEW x \in Servers, phase'[x] \in Followers \cup {"leader", "telling"},
                      NEW e, Holds(rm[x], e)
               PROVE  e.port # port[x]
    BY <1>1 DEF OwnOK
  <2>1. phase[x] \in Followers \cup {"leader", "telling"}
    BY Nothing DEF Still, Before, Followers, EmptyOK
  <2> QED
    BY <2>1 DEF Calm, OwnOK
<1>5. Distinct'
  <2> SUFFICES ASSUME NEW x \in Running', NEW y \in Running', port[x] # 0, Entry(x) = Entry(y)
               PROVE  x = y
    BY <1>1, <1>2 DEF Distinct
  <2>1. port[y] # 0
    BY <1>2, Entered
  <2> QED
    BY <1>3, <2>1 DEF Calm, Distinct
<1>6. NotYetOK'
  <2> SUFFICES ASSUME NEW x \in Running', NEW y \in Running', phase'[x] = "announcing",
                      Holds(rm[y], Entry(x))
               PROVE  FALSE
    BY <1>1, <1>2 DEF NotYetOK
  <2>1. phase[x] = "announcing"
    BY <1>2 DEF Still, Before, Followers
  <2>2. x \in Running
    BY <1>2, <2>1 DEF Running, In
  <2> QED
    BY <1>3, <2>1, <2>2 DEF Calm, NotYetOK
<1>7. SameOrder'
  <2> SUFFICES ASSUME NEW x \in Running', NEW y \in Running', NEW e, NEW f,
                      Precedes(rm[x], e, f), Precedes(rm[y], f, e)
               PROVE  FALSE
    BY <1>1 DEF SameOrder
  <2> QED
    BY <1>3 DEF Calm, SameOrder
<1>8. Together'
  <2> SUFFICES ASSUME NEW x \in Running', NEW y \in Running', NEW u \in Running', NEW e,
                      Precedes(rm[x], Entry(u), e), port[u] = e.port, Holds(rm[y], e)
               PROVE  Holds(rm[y], Entry(u))
    BY <1>1, <1>2 DEF Together
  <2>1. rm[x] \in Seq(Entries)
    BY <1>2 DEF Typed
  <2>2. e \in Entries
    BY <2>1, Ordered
  <2>3. port[u] # 0
    BY <2>2, FailoverAssumption DEF Entries
  <2> QED
    BY <1>3, <2>3 DEF Calm, Together
<1>9. OnePair'
  <2>1. \A x, y \in Servers : Mutual(x, y)' => Mutual(x, y)
    BY StillMutual
  <2> QED
    BY <2>1 DEF Calm, OnePair
<1> QED
  BY <1>4, <1>5, <1>6, <1>7, <1>8, <1>9

\* No server gets to lead, and none that the leader lists gives it up.
LEMMA StillLed ==
  ASSUME Typed, EmptyOK, HasPortOK, Calm, Still,
         \A x \in Servers : phase'[x] \in Contenders => phase[x] \in Contenders,
         \A p, x \in Servers :
           (phase[p] \in Contenders /\ phase[x] = "backup" /\ Holds(rm[p], Entry(x))) =>
             phase'[x] \in {"backup", "dead"}
  PROVE  Calm'
<1>1. rm' = rm /\ port' = port /\ \A x \in Servers : Entry(x)' = Entry(x)
  BY DEF Still, Entry
<1>2. OneContender'
  BY DEF Calm, OneContender
<1>3. AllListed'
  <2> SUFFICES ASSUME NEW p \in Running', NEW s \in Running', phase'[p] = "primary",
                      port[p] = 0, port[s] # 0, phase'[s] # "announcing"
               PROVE  Holds(rm[p], Entry(s))
    BY <1>1 DEF AllListed, Running
  <2>1. p \in Servers /\ s \in Servers /\ phase'[s] # "dead"
    BY DEF Running, In
  <2>2. phase[p] \in Contenders
    BY <2>1 DEF Contenders, Tellers
  <2>3. phase[p] = "primary" /\ p \in Running
    BY <2>1, <2>2 DEF HasPortOK, Contenders, Tellers, Running, In
  <2>4. s \in Running
    BY <2>1, StillRunning
  <2>5. phase[s] # "announcing"
    BY <2>1 DEF Still, Before, Followers
  <2> QED
    BY <2>3, <2>4, <2>5 DEF Calm, AllListed
<1>4. Watched'
  <2> SUFFICES ASSUME NEW p \in Servers, NEW s \in Servers, NEW t \in Servers,
                      phase'[p] \in Contenders, Mutual(s, t)'
               PROVE  /\ Holds(rm[p], Entry(s)) /\ Holds(rm[p], Entry(t))
                      /\ Fresh(p, s)' \/ Fresh(p, t)'
    BY <1>1 DEF Watched
  <2>1. Mutual(s, t) /\ phase[p] \in Contenders
    BY StillMutual
  <2>2. /\ Holds(rm[p], Entry(s)) /\ Holds(rm[p], Entry(t))
        /\ Fresh(p, s) \/ Fresh(p, t)
    BY <2>1 DEF Calm, Watched
  <2>3. phase'[s] # "dead" /\ phase'[t] # "dead"
    BY DEF Mutual, Followers
  <2>4. ASSUME NEW x \in {s, t}, Fresh(p, x)
        PROVE  Fresh(p, x)'
    <3>1. phase'[x] = "backup"
      BY <2>1, <2>2, <2>3, <2>4 DEF Fresh
    <3> QED
      BY <1>1, <2>4, <3>1 DEF Fresh
  <2> QED
    BY <2>2, <2>4
<1> QED
  BY <1>2, <1>3, <1>4, StillLists DEF Calm

\* One server gets to lead: nobody led, and no two are left that could elect.
LEMMA StillWon ==
  ASSUME Typed, EmptyOK, HasPortOK, Calm, Still, NEW s \in Servers,
         \A x \in Servers : phase[x] \notin Contenders,
         \A x \in Servers : phase'[x] \in Contenders => x = s,
         phase'[s] = "primary" => Running' \subseteq {s},
         \A x, y \in Servers : ~ Mutual(x, y)'
  PROVE  Calm'
<1>1. rm' = rm /\ port' = port
  BY DEF Still
<1>2. OneContender'
  BY DEF OneContender
<1>3. AllListed'
  <2> SUFFICES ASSUME NEW p \in Running', NEW x \in Running', phase'[p] = "primary",
                      port[p] = 0, port[x] # 0
               PROVE  FALSE
    BY <1>1 DEF AllListed
  <2>1. p = s
    BY DEF Contenders, Tellers, Running
  <2> QED
    BY <2>1
<1>4. Watched'
  BY DEF Watched
<1> QED
  BY <1>2, <1>3, <1>4, StillLists DEF Calm

LEMMA Blame ==
  /\ \A f : Fault(f) => faults \subseteq faults'
  /\ \A f \in {"unheard", "reused", "erased", "unlisted", "late", "twins", "crossed"} : Fault(f) => ~ Good'
  /\ faults \subseteq faults' /\ Good' => Good
BY DEF Fault, Good

LEMMA ThreadsStay ==
  ASSUME ThreadsOK, telling' = telling,
         \A x \in Servers : phase[x] \in Tellers => phase'[x] = phase[x]
  PROVE  ThreadsOK'
BY DEF ThreadsOK, Tellers

\* What a step has to do that moves one server, which leads nobody.
LEMMA OneStill ==
  ASSUME TypeOK, PInv, NEW s \in Servers, NEW q, Goto(s, q), phase[s] \notin Tellers,
         UNCHANGED << port, rm, telling >>,
         \/ q = "dead"
         \/ /\ phase[s] \in Before \ {"announcing"}
            /\ q \in (Before \ {"announcing"}) \cup {"primary"}
         \/ phase[s] \in Followers \cup {"joined"} /\ q \in Followers \cup {"leader"}
  PROVE  /\ Still /\ EmptyOK' /\ HasPortOK' /\ ThreadsOK'
         /\ phase'[s] = q /\ \A x \in Servers \ {s} : phase'[x] = phase[x]
<1>1. Typed /\ EmptyOK /\ HasPortOK /\ ThreadsOK
  BY Types DEF PInv
<1>2. phase'[s] = q /\ \A x \in Servers \ {s} : phase'[x] = phase[x]
  BY <1>1 DEF Goto, Typed
<1>3. Still
  BY <1>2 DEF Still
<1>4. ThreadsOK'
  BY <1>1, <1>2, ThreadsStay
<1> QED
  BY <1>1, <1>2, <1>3, <1>4, StillPlaces

LEMMA Led ==
  ASSUME TypeOK, PInv, NEW s \in Servers, NEW q, Goto(s, q), phase[s] \notin Tellers,
         UNCHANGED << port, rm, telling >>, faults \subseteq faults',
         \/ q = "dead"
         \/ /\ phase[s] \in Before \ {"announcing"}
            /\ q \in Before \ {"announcing"}
         \/ phase[s] \in Followers \cup {"joined"} /\ q \in Followers,
         phase[s] = "backup" /\ q # "dead" /\ Good' =>
           \A p \in Servers : phase[p] \in Contenders => ~ Holds(rm[p], Entry(s))
  PROVE  PInv'
<1>1. /\ Still /\ EmptyOK' /\ HasPortOK' /\ ThreadsOK'
      /\ phase'[s] = q /\ \A x \in Servers \ {s} : phase'[x] = phase[x]
  BY OneStill
<1>2. Typed /\ EmptyOK /\ HasPortOK
  BY Types DEF PInv
<1>3. ASSUME Good'
      PROVE  Calm'
  <2>1. Calm
    BY <1>3, Blame DEF PInv
  <2>2. q \notin Contenders
    BY DEF Contenders, Tellers, Before, Followers
  <2>3. \A x \in Servers : phase'[x] \in Contenders => phase[x] \in Contenders
    BY <1>1, <2>2
  <2>4. \A p, x \in Servers :
          (phase[p] \in Contenders /\ phase[x] = "backup" /\ Holds(rm[p], Entry(x))) =>
            phase'[x] \in {"backup", "dead"}
    BY <1>1, <1>3
  <2> QED
    BY <1>1, <1>2, <2>1, <2>3, <2>4, StillLed
<1> QED
  BY <1>1, <1>3 DEF PInv

LEMMA LedSteps ==
  ASSUME TypeOK, PInv, NEW s \in Servers,
         \/ Start(s) \/ HearPrimary(s) \/ HearGarbage(s) \/ Listen(s) \/ TimeoutLate(s)
         \/ Bind(s) \/ CallIgnored(s) \/ CallRefused(s) \/ Defer(s) \/ TellNoAddress(s)
         \/ Timeout(s) /\ rm[s] # << >>
  PROVE  PInv'
<1>0. \A f : Fault(f) => faults \subseteq faults'
  BY Blame
<1> USE DEF Before, Followers, Tellers
<1>1. CASE Start(s)
  <2>1. /\ phase[s] = "off" /\ Goto(s, "starting")
        /\ UNCHANGED << port, rm, telling >> /\ faults \subseteq faults'
    BY <1>1 DEF Start
  <2> QED
    BY <2>1, Led
<1>2. CASE HearPrimary(s)
  <2>1. /\ phase[s] = "starting" /\ Goto(s, "configuring")
        /\ UNCHANGED << port, rm, telling >> /\ faults \subseteq faults'
    BY <1>2 DEF HearPrimary
  <2> QED
    BY <2>1, Led
<1>3. CASE HearGarbage(s)
  <2>1. /\ phase[s] = "starting" /\ Goto(s, "dead")
        /\ UNCHANGED << port, rm, telling >> /\ faults \subseteq faults'
    BY <1>3 DEF HearGarbage
  <2> QED
    BY <2>1, Led
<1>4. CASE Listen(s)
  <2>1. /\ phase[s] \in {"joined", "resting"}
        /\ UNCHANGED << port, rm, telling >> /\ faults \subseteq faults'
    BY <1>4 DEF Listen, In
  <2>2. PICK q \in {"dead", "backup"} : Goto(s, q)
    BY <1>4 DEF Listen
  <2> QED
    BY <2>1, <2>2, Led
<1>5. CASE TimeoutLate(s)
  <2>1. /\ phase[s] = "backup"
        /\ UNCHANGED << port, rm, telling >> /\ faults \subseteq faults' /\ ~ Good'
    BY <1>0, <1>5, Blame DEF TimeoutLate, StartElection
  <2>2. PICK q \in {"leader", "electing"} : Goto(s, q)
    BY <1>5 DEF TimeoutLate, StartElection
  <2>3. EmptyOK' /\ HasPortOK' /\ ThreadsOK'
    BY <2>1, <2>2, OneStill
  <2> QED
    BY <2>1, <2>3 DEF PInv
<1>6. CASE Bind(s)
  <2>1. /\ phase[s] = "electing" /\ Goto(s, "voting")
        /\ UNCHANGED << port, rm, telling >> /\ faults \subseteq faults'
    BY <1>6 DEF Bind
  <2> QED
    BY <2>1, Led
<1>7. CASE CallIgnored(s)
  <2>1. /\ phase[s] = "voting" /\ Goto(s, "ignored")
        /\ UNCHANGED << port, rm, telling >> /\ faults \subseteq faults'
    BY <1>0, <1>7 DEF CallIgnored
  <2> QED
    BY <2>1, Led
<1>8. CASE CallRefused(s)
  <2>1. /\ phase[s] \in {"voting", "ignored"} /\ Goto(s, "dead")
        /\ UNCHANGED << port, rm, telling >> /\ faults \subseteq faults'
    BY <1>0, <1>8 DEF CallRefused, In
  <2> QED
    BY <2>1, Led
<1>9. CASE Defer(s)
  <2>1. /\ phase[s] \in {"voting", "ignored"} /\ Goto(s, "deferring")
        /\ UNCHANGED << port, rm, telling >> /\ faults \subseteq faults'
    BY <1>9 DEF Defer, In
  <2> QED
    BY <2>1, Led
<1>10. CASE TellNoAddress(s)
  <2>1. /\ phase[s] = "leader" /\ Goto(s, "dead")
        /\ UNCHANGED << port, rm, telling >> /\ faults \subseteq faults'
    BY <1>10 DEF TellNoAddress
  <2> QED
    BY <2>1, Led
<1>11. CASE Timeout(s) /\ rm[s] # << >>
  <2>1. /\ phase[s] = "backup" /\ Goto(s, "electing")
        /\ UNCHANGED << port, rm, telling >> /\ faults \subseteq faults'
    BY <1>0, <1>11 DEF Timeout, StartElection
  <2>2. ASSUME NEW p \in Servers, phase[p] \in Contenders, Holds(rm[p], Entry(s))
        PROVE  FALSE
    <3>1. Speaks(p, s)
      BY <2>2 DEF Speaks, In, Lists, Holds, Contenders
    <3> QED
      BY <1>11, <3>1 DEF Timeout
  <2> QED
    BY <2>1, <2>2, Led
<1> QED
  BY <1>1, <1>2, <1>3, <1>4, <1>5, <1>6, <1>7, <1>8, <1>9, <1>10, <1>11

(***************************************************************************)
(* The three ways to lead: nobody else is there, nobody else is left, and  *)
(* the neighbour has deferred.                                             *)
(***************************************************************************)
LEMMA HearNoneStep ==
  ASSUME TypeOK, PInv, NEW s \in Servers, HearNone(s)
  PROVE  PInv'
<1>0. Typed /\ EmptyOK /\ HasPortOK
  BY Types DEF PInv
<1>1. phase[s] = "starting" /\ UNCHANGED << port, rm, telling >>
  BY DEF HearNone
<1>2. PICK q \in {"dead", "primary"} : Goto(s, q)
  BY DEF HearNone, BecomePrimary
<1>3. /\ Still /\ EmptyOK' /\ HasPortOK' /\ ThreadsOK'
      /\ phase'[s] = q /\ \A x \in Servers \ {s} : phase'[x] = phase[x]
  BY <1>1, <1>2, OneStill DEF Before, Tellers
<1>4. ASSUME Good'
      PROVE  Calm'
  <2>1. Running = {s} /\ Calm
    BY <1>4, Blame DEF HearNone, PInv
  <2>2. \A x \in Servers \ {s} : phase[x] \in {"off", "dead"}
    BY <2>1 DEF Running, In
  <2>3. \A x \in Servers : phase[x] \notin Contenders
    BY <1>1, <2>2 DEF Contenders, Tellers
  <2>4. \A x \in Servers : phase'[x] \in Contenders => x = s
    BY <1>3, <2>3
  <2>5. Running' \subseteq {s}
    BY <1>3, <2>2 DEF Running, In
  <2>6. \A x, y \in Servers : ~ Mutual(x, y)'
    BY <1>2, <1>3, <2>2 DEF Mutual, Followers
  <2> QED
    BY <1>0, <1>3, <2>1, <2>3, <2>4, <2>5, <2>6, StillWon
<1> QED
  BY <1>3, <1>4 DEF PInv

LEMMA LastStep ==
  ASSUME TypeOK, PInv, NEW s \in Servers, Timeout(s), rm[s] = << >>
  PROVE  PInv'
<1>0. Typed /\ EmptyOK /\ HasPortOK
  BY Types DEF PInv
<1>1. phase[s] = "backup" /\ Goto(s, "leader") /\ UNCHANGED << port, rm, telling >>
  BY DEF Timeout, StartElection
<1>2. /\ Still /\ EmptyOK' /\ HasPortOK' /\ ThreadsOK'
      /\ phase'[s] = "leader" /\ \A x \in Servers \ {s} : phase'[x] = phase[x]
  BY <1>1, OneStill DEF Followers, Tellers
<1>3. ASSUME Good'
      PROVE  Calm'
  <2>1. UNCHANGED faults /\ \A x \in Running \ {s} : port[x] = 0
    BY <1>3, Blame DEF Timeout
  <2>2. Calm
    BY <1>3, <2>1, Blame DEF PInv
  <2>3. ASSUME NEW p \in Servers, phase[p] \in Contenders
        PROVE  FALSE
    <3>1. p # s /\ p \in Running /\ s \in Running
      BY <1>1, <2>3 DEF Running, In, Contenders, Tellers
    <3>2. port[p] = 0 /\ port[s] # 0
      BY <1>0, <1>1, <2>1, <3>1 DEF HasPortOK, Followers
    <3>3. phase[p] = "primary"
      BY <1>0, <2>3, <3>2 DEF HasPortOK, Contenders, Tellers
    <3>4. Holds(rm[p], Entry(s))
      BY <1>1, <2>2, <3>1, <3>2, <3>3 DEF Calm, AllListed
    <3>5. Speaks(p, s)
      BY <3>3, <3>4 DEF Speaks, In, Lists, Holds
    <3> QED
      BY <3>5 DEF Timeout
  <2>4. ASSUME NEW x \in Servers, phase'[x] \in Followers
        PROVE  FALSE
    <3>1. x # s /\ phase[x] \in Followers
      BY <1>2, <2>4 DEF Followers
    <3>2. x \in Running /\ port[x] # 0
      BY <1>0, <3>1 DEF Running, In, HasPortOK, Followers
    <3> QED
      BY <2>1, <3>1, <3>2
  <2>5. \A x, y \in Servers : ~ Mutual(x, y)'
    BY <2>4 DEF Mutual
  <2>6. \A x \in Servers : phase'[x] \in Contenders => x = s
    BY <1>2, <2>3
  <2> QED
    BY <1>0, <1>2, <2>2, <2>3, <2>5, <2>6, StillWon
<1> QED
  BY <1>2, <1>3 DEF PInv

LEMMA DeclaredStep ==
  ASSUME TypeOK, PInv, NEW s \in Servers, Declare(s) \/ DeclareDisputed(s)
  PROVE  PInv'
<1>0. Typed /\ EmptyOK /\ HasPortOK /\ ThreadsOK
  BY Types DEF PInv
<1>1. PICK t \in Servers, other \in {"leader", "resting"} :
        /\ phase[s] \in Followers /\ phase[t] \in Followers
        /\ phase' = [phase EXCEPT ![s] = "leader", ![t] = other]
  <2>1. CASE Declare(s)
    BY <2>1 DEF Declare, Returned, Voting, In, Followers, Neighbours
  <2>2. CASE DeclareDisputed(s)
    BY <2>2 DEF DeclareDisputed, Voting, In, Followers, Neighbours
  <2> QED
    BY <2>1, <2>2
<1>2. UNCHANGED << port, rm, telling >>
  BY DEF Declare, DeclareDisputed
<1>3. \A x \in Servers : \/ phase'[x] = phase[x]
                         \/ phase[x] \in Followers /\ phase'[x] \in {"leader", "resting"}
  BY <1>0, <1>1 DEF Typed
<1>4. Still
  BY <1>2, <1>3 DEF Still, Followers
<1>5. ThreadsOK'
  BY <1>0, <1>2, <1>3, ThreadsStay DEF Tellers, Followers
<1>6. EmptyOK' /\ HasPortOK'
  BY <1>0, <1>4, StillPlaces
<1>7. ASSUME Good'
      PROVE  Calm'
  <2>1. PICK v \in Servers :
          /\ UNCHANGED faults
          /\ Voting(s) /\ Voting(v) /\ v \in Neighbours(s) /\ s \in Neighbours(v)
          /\ phase' = [phase EXCEPT ![s] = "leader", ![v] = "resting"]
    <3>1. CASE Declare(s)
      BY <3>1 DEF Declare, Returned, Voting, In
    <3>2. CASE DeclareDisputed(s)
      <4>1. PICK u \in Neighbours(s), last \in {"leader", "resting"} :
              /\ Voting(s) /\ Voting(u) /\ (Twin(s) \/ Crossed(s, u))
              /\ phase' = [phase EXCEPT ![s] = "leader", ![u] = last]
              /\ faults' = faults \cup (IF Twin(s) THEN {"twins"}
                                        ELSE IF last = "leader" THEN {"crossed"} ELSE {})
        BY <3>2 DEF DeclareDisputed
      <4>2. ~ Twin(s) /\ last = "resting"
        BY <1>7, <4>1 DEF Good
      <4>3. u \in Servers /\ s \in Neighbours(u) /\ faults' = faults
        BY <4>1, <4>2 DEF Crossed, Neighbours
      <4> QED
        BY <4>1, <4>2, <4>3
    <3> QED
      BY <3>1, <3>2
  <2>2. Calm
    BY <1>7, <2>1, Blame DEF PInv
  <2>3. v # s /\ phase[s] # "backup" /\ phase[v] # "backup"
    <3>1. Calls(s, v)
      BY <2>1 DEF Neighbours
    <3>2. rm[s] # << >> /\ Entry(v) = Head(rm[s])
      BY <3>1 DEF Calls
    <3>3. Holds(rm[s], Entry(v))
      BY <1>0, <3>2 DEF Typed, Holds
    <3>4. Entry(v).port # port[s]
      BY <1>0, <1>1, <2>2, <3>3 DEF Calm, OwnOK
    <3> QED
      BY <2>1, <3>4 DEF Voting, In, Entry
  <2>4. v \in Servers /\ Mutual(s, v)
    BY <2>1, <2>3 DEF Neighbours, Calls, Mutual, Followers, Voting, In
  <2>5. /\ phase'[s] = "leader" /\ phase'[v] = "resting"
        /\ \A x \in Servers \ {s, v} : phase'[x] = phase[x]
    BY <1>0, <2>1, <2>4 DEF Typed, Mutual
  <2>6. ASSUME NEW p \in Servers, phase[p] \in Contenders
        PROVE  FALSE
    <3>1. Fresh(p, s) \/ Fresh(p, v)
      BY <2>2, <2>4, <2>6 DEF Calm, Watched
    <3> QED
      BY <2>3, <3>1 DEF Fresh
  <2>7. \A x \in Servers : phase'[x] \in Contenders => x = s
    BY <2>5, <2>6 DEF Contenders, Tellers
  <2>8. ASSUME NEW x \in Servers, NEW y \in Servers, Mutual(x, y)'
        PROVE  FALSE
    <3>1. Mutual(x, y) /\ Mutual(y, x)
      BY <1>0, <1>4, <2>8, StillMutual DEF Mutual
    <3>2. x \in {s, v} /\ y \in {s, v} /\ x # y
      BY <2>2, <2>4, <3>1 DEF Calm, OnePair, Mutual
    <3>3. x # s /\ y # s
      BY <2>5, <2>8 DEF Mutual, Followers
    <3> QED
      BY <3>2, <3>3
  <2> QED
    BY <1>0, <1>4, <2>2, <2>5, <2>6, <2>7, <2>8, StillWon
<1> QED
  BY <1>5, <1>6, <1>7 DEF PInv

\* The steps of who leads: it stays the one that does.
LEMMA LeaderSteps ==
  ASSUME TypeOK, PInv, NEW s \in Servers, TellAddress(s) \/ TakeOver(s) \/ Crash(s)
  PROVE  PInv'
<1>0. Typed /\ EmptyOK /\ HasPortOK /\ ThreadsOK
  BY Types DEF PInv
<1>1. UNCHANGED << port, rm, faults >>
  BY DEF TellAddress, TakeOver, Crash
<1>2. PICK q \in {"telling", "primary", "dead"} :
        /\ Goto(s, q)
        /\ q = "telling" => phase[s] = "leader"
        /\ q = "primary" => phase[s] = "telling"
  BY DEF TellAddress, TakeOver, Crash, BecomePrimary
<1>3. phase'[s] = q /\ \A x \in Servers \ {s} : phase'[x] = phase[x]
  BY <1>0, <1>2 DEF Goto, Typed
<1>4. Still
  BY <1>1, <1>2, <1>3 DEF Still
<1>5. ThreadsOK'
  <2> SUFFICES ASSUME NEW x \in Servers, NEW p \in Servers, telling'[x].by = p
               PROVE  /\ phase'[p] = "primary" \/ (phase'[p] = "telling" /\ x = p)
                      /\ telling'[x].at # 0
    BY DEF ThreadsOK
  <2>1. Silent.by = Nowhere
    BY DEF Silent
  <2>2. CASE TellAddress(s)
    <3>1. phase[s] = "leader" /\ phase'[s] = "telling"
      BY <1>0, <2>2 DEF TellAddress, Goto, Typed
    <3>2. telling' = [telling EXCEPT ![s] = [by |-> s, at |-> 1]]
      BY <2>2 DEF TellAddress
    <3>3. CASE x = s
      BY <1>0, <3>1, <3>2, <3>3 DEF Typed
    <3>4. CASE x # s
      <4>1. telling[x].by = p /\ telling'[x] = telling[x]
        BY <1>0, <3>2, <3>4 DEF Typed
      <4> QED
        BY <1>0, <1>3, <3>1, <4>1 DEF ThreadsOK
    <3> QED
      BY <3>3, <3>4
  <2>3. CASE TakeOver(s)
    <3>1. phase[s] = "telling" /\ telling[s] = Silent /\ telling' = telling
      BY <2>3 DEF TakeOver
    <3>2. /\ phase[p] = "primary" \/ (phase[p] = "telling" /\ x = p)
          /\ telling[x].at # 0
      BY <1>0, <3>1 DEF ThreadsOK
    <3>3. p # s
      BY <2>1, <3>1, <3>2, NowhereAssumption
    <3> QED
      BY <1>3, <3>1, <3>2, <3>3
  <2>4. CASE Crash(s)
    <3>1. telling' = [y \in Servers |-> IF telling[y].by = s THEN Silent ELSE telling[y]]
      BY <2>4 DEF Crash
    <3>2. telling[x].by = p /\ p # s /\ telling'[x] = telling[x]
      BY <2>1, <3>1, NowhereAssumption
    <3> QED
      BY <1>0, <1>3, <3>2 DEF ThreadsOK
  <2> QED
    BY <2>2, <2>3, <2>4
<1>6. EmptyOK' /\ HasPortOK'
  BY <1>0, <1>4, StillPlaces
<1>7. ASSUME Good'
      PROVE  Calm'
  <2>1. Calm
    BY <1>1, <1>7, Blame DEF PInv
  <2>2. \A x \in Servers : phase'[x] \in Contenders => phase[x] \in Contenders
    BY <1>2, <1>3 DEF Contenders, Tellers
  <2>3. \A x \in Servers : phase[x] = "backup" => phase'[x] \in {"backup", "dead"}
    BY <1>2, <1>3
  <2> QED
    BY <1>0, <1>4, <2>1, <2>2, <2>3, StillLed
<1> QED
  BY <1>5, <1>6, <1>7 DEF PInv

(***************************************************************************)
(* Joining: nobody lists the port that is chosen, so its place in the list *)
(* of the primary is behind all that others know.                          *)
(***************************************************************************)
LEMMA ChosenStep ==
  ASSUME TypeOK, PInv, NEW s \in Servers, ChoosePort(s)
  PROVE  PInv'
<1>0. Typed /\ EmptyOK /\ HasPortOK /\ ThreadsOK
  BY Types DEF PInv
<1>1. phase[s] = "configuring" /\ Goto(s, "announcing") /\ rm' = rm /\ telling' = telling
  BY DEF ChoosePort
<1>2. PICK p \in Ports :
        /\ port' = [port EXCEPT ![s] = p]
        /\ IF Known([host |-> Host[s], port |-> p]) THEN Fault("reused") ELSE UNCHANGED faults
  BY DEF ChoosePort
<1>3. /\ phase'[s] = "announcing" /\ \A x \in Servers \ {s} : phase'[x] = phase[x]
      /\ port'[s] = p /\ \A x \in Servers \ {s} : port'[x] = port[x]
  BY <1>0, <1>1, <1>2 DEF Goto, Typed
<1>4. Running' = Running /\ s \in Running
  BY <1>1, <1>3 DEF Running, In
<1>5. \A x \in Servers \ {s} : Entry(x)' = Entry(x)
  BY <1>3 DEF Entry
<1>6. Entry(s)' = [host |-> Host[s], port |-> p]
  BY <1>3 DEF Entry
<1>7. EmptyOK'
  BY <1>0, <1>1, <1>3 DEF EmptyOK, Before
<1>8. HasPortOK'
  <2>1. p # 0
    BY FailoverAssumption
  <2> QED
    BY <1>0, <1>3, <2>1 DEF HasPortOK, Before, Followers
<1>9. ThreadsOK'
  BY <1>0, <1>1, <1>3, ThreadsStay DEF Tellers
<1>10. ASSUME Good'
       PROVE  Calm'
  <2>1. ~ Known(Entry(s)') /\ UNCHANGED faults
    BY <1>2, <1>6, <1>10, Blame
  <2>2. Calm
    BY <1>10, <2>1, Blame DEF PInv
  <2>3. ASSUME NEW x \in Running
        PROVE  Entry(x) # Entry(s)' /\ ~ Holds(rm[x], Entry(s)')
    BY <2>1 DEF Known, ToSet, Holds
  <2>4. \A x \in Servers : x # s => x \in Servers \ {s}
    OBVIOUS
  <2>5. \A x \in Running : x \in Servers /\ rm[x] \in Seq(Entries)
    BY <1>0 DEF Running, Typed
  <2>6. OwnOK'
    BY <1>1, <1>3, <2>2 DEF Calm, OwnOK, Followers
  <2>7. OneContender'
    BY <1>3, <2>2 DEF Calm, OneContender, Contenders, Tellers
  <2>8. Distinct'
    <3> SUFFICES ASSUME NEW x \in Running, NEW y \in Running, port'[x] # 0, Entry(x)' = Entry(y)'
                 PROVE  x = y
      BY <1>4 DEF Distinct
    <3>1. x = s \/ y = s => x = y
      BY <1>5, <2>3, <2>5
    <3>2. x # s /\ y # s => x = y
      BY <1>3, <1>5, <2>2, <2>5 DEF Calm, Distinct
    <3> QED
      BY <3>1, <3>2
  <2>9. NotYetOK'
    <3> SUFFICES ASSUME NEW x \in Running, NEW y \in Running, phase'[x] = "announcing",
                        Holds(rm[y], Entry(x)')
                 PROVE  FALSE
      BY <1>1, <1>4 DEF NotYetOK
    <3>1. x # s
      BY <2>3
    <3> QED
      BY <1>3, <1>5, <2>2, <2>5, <3>1 DEF Calm, NotYetOK
  <2>10. SameOrder'
    BY <1>1, <1>4, <2>2 DEF Calm, SameOrder
  <2>11. Together'
    <3> SUFFICES ASSUME NEW x \in Running, NEW y \in Running, NEW u \in Running, NEW e,
                        Precedes(rm[x], Entry(u)', e), port'[u] = e.port, Holds(rm[y], e)
                 PROVE  Holds(rm[y], Entry(u)')
      BY <1>1, <1>4 DEF Together
    <3>1. u # s
      BY <2>3, <2>5, Ordered
    <3> QED
      BY <1>3, <1>5, <2>2, <2>5, <3>1 DEF Calm, Together
  <2>12. AllListed'
    <3> SUFFICES ASSUME NEW x \in Running, NEW y \in Running, phase'[x] = "primary",
                        port'[x] = 0, port'[y] # 0, phase'[y] # "announcing"
                 PROVE  Holds(rm[x], Entry(y)')
      BY <1>1, <1>4 DEF AllListed
    <3>1. x # s /\ y # s
      BY <1>3
    <3> QED
      BY <1>3, <1>5, <2>2, <2>5, <3>1 DEF Calm, AllListed
  <2>13. ASSUME NEW x \in Servers, NEW y \in Servers, Mutual(x, y)'
         PROVE  x # s /\ y # s /\ Mutual(x, y)
    <3>1. x # s /\ y # s
      BY <1>3, <2>13 DEF Mutual, Followers
    <3> QED
      BY <1>1, <1>3, <1>5, <2>13, <3>1 DEF Mutual
  <2>14. Watched'
    <3> SUFFICES ASSUME NEW x \in Servers, NEW y \in Servers, NEW z \in Servers,
                        phase'[x] \in Contenders, Mutual(y, z)'
                 PROVE  /\ Holds(rm[x], Entry(y)') /\ Holds(rm[x], Entry(z)')
                        /\ Fresh(x, y)' \/ Fresh(x, z)'
      BY <1>1 DEF Watched
    <3>1. y # s /\ z # s /\ Mutual(y, z)
      BY <2>13
    <3>2. phase[x] \in Contenders
      BY <1>3 DEF Contenders, Tellers
    <3>3. /\ Holds(rm[x], Entry(y)) /\ Holds(rm[x], Entry(z))
          /\ Fresh(x, y) \/ Fresh(x, z)
      BY <2>2, <3>1, <3>2 DEF Calm, Watched
    <3>4. \A w \in Servers \ {s} : Fresh(x, w) => Fresh(x, w)'
      BY <1>1, <1>3 DEF Fresh
    <3> QED
      BY <1>5, <3>1, <3>3, <3>4
  <2>15. OnePair'
    BY <2>2, <2>13 DEF Calm, OnePair
  <2> QED
    BY <2>6, <2>7, <2>8, <2>9, <2>10, <2>11, <2>12, <2>14, <2>15 DEF Calm
<1> QED
  BY <1>7, <1>8, <1>9, <1>10 DEF PInv

LEMMA JoinedStep ==
  ASSUME TypeOK, PInv, NEW s \in Servers, Announce(s)
  PROVE  PInv'
<1>0. Typed /\ EmptyOK /\ HasPortOK /\ ThreadsOK
  BY Types DEF PInv
<1>1. phase[s] = "announcing" /\ port' = port /\ faults' = faults
  BY DEF Announce
<1>2. CASE Goto(s, "dead") /\ UNCHANGED << rm, telling >>
  BY <1>1, <1>2, Led DEF Tellers
<1>3. ASSUME NEW p \in Primaries,
             rm' = [rm EXCEPT ![p] = Append(@, Entry(s))],
             telling' = [telling EXCEPT ![s] = [by |-> p, at |-> 1]],
             Goto(s, "joined")
      PROVE  PInv'
  <2> DEFINE e0 == Entry(s)
             longer == Append(rm[p], e0)
  <2>1. p \in Servers /\ phase[p] = "primary" /\ p # s /\ rm[p] \in Seq(Entries)
    BY <1>0, <1>1 DEF Primaries, Typed
  <2>2. /\ phase'[s] = "joined" /\ \A x \in Servers \ {s} : phase'[x] = phase[x]
        /\ rm'[p] = longer /\ \A x \in Servers \ {p} : rm'[x] = rm[x]
    BY <1>0, <1>3, <2>1 DEF Goto, Typed
  <2>3. Running' = Running /\ s \in Running /\ p \in Running
    BY <1>1, <2>1, <2>2 DEF Running, In
  <2>4. e0 \in Entries
    BY <1>0, <1>1 DEF Entry, Entries, Hosts, HasPortOK, Typed
  <2> HIDE DEF e0, longer
  <2>5. \A x \in Servers : Entry(x)' = Entry(x)
    BY <1>1 DEF Entry
  <2>6. EmptyOK'
    BY <1>0, <1>1, <2>1, <2>2 DEF EmptyOK, Before
  <2>7. HasPortOK'
    BY <1>0, <1>1, <2>2 DEF HasPortOK, Before, Followers
  <2>8. ThreadsOK'
    <3> SUFFICES ASSUME NEW x \in Servers, NEW y \in Servers, telling'[x].by = y
                 PROVE  /\ phase'[y] = "primary" \/ (phase'[y] = "telling" /\ x = y)
                        /\ telling'[x].at # 0
      BY DEF ThreadsOK
    <3>1. CASE x = s
      BY <1>0, <1>3, <2>1, <2>2, <3>1 DEF Typed
    <3>2. CASE x # s
      <4>1. telling[x].by = y /\ telling'[x] = telling[x]
        BY <1>0, <1>3, <3>2 DEF Typed
      <4> QED
        BY <1>0, <1>1, <2>2, <4>1 DEF ThreadsOK
    <3> QED
      BY <3>1, <3>2
  <2>9. ASSUME Good'
        PROVE  Calm'
    <3>1. Calm
      BY <1>1, <2>9, Blame DEF PInv
    <3>2. \A x \in Running : x \in Servers /\ rm[x] \in Seq(Entries)
      BY <1>0 DEF Running, Typed
    <3>3. \A x \in Running : ~ Holds(rm[x], e0)
      BY <1>1, <2>3, <3>1 DEF Calm, NotYetOK, e0
    <3>4. ASSUME NEW x \in Running, NEW e
          PROVE  Holds(rm'[x], e) <=> Holds(rm[x], e) \/ (x = p /\ e = e0)
      <4>1. Holds(longer, e) <=> Holds(rm[p], e) \/ e = e0
        BY <2>1, <2>4, AppendOrder DEF longer
      <4> QED
        BY <2>2, <3>2, <4>1
    <3>5. ASSUME NEW x \in Running, NEW e, NEW f, Precedes(rm'[x], e, f)
          PROVE  Precedes(rm[x], e, f) \/ (x = p /\ f = e0 /\ Holds(rm[p], e))
      <4>1. Precedes(longer, e, f) => Precedes(rm[p], e, f) \/ (f = e0 /\ Holds(rm[p], e))
        BY <2>1, <2>4, AppendOrder DEF longer
      <4> QED
        BY <2>2, <3>2, <3>5, <4>1
    <3>6. ASSUME NEW x \in Running, NEW e, NEW f, Precedes(rm[x], e, f)
          PROVE  e # e0 /\ f # e0
      BY <3>2, <3>3, <3>6, Ordered
    <3>7. OwnOK'
      BY <1>1, <2>1, <2>2, <3>1 DEF Calm, OwnOK, Followers
    <3>8. OneContender'
      BY <1>1, <2>2, <3>1 DEF Calm, OneContender, Contenders, Tellers
    <3>9. Distinct'
      BY <1>1, <2>3, <2>5, <3>1, <3>2 DEF Calm, Distinct
    <3>10. NotYetOK'
      <4> SUFFICES ASSUME NEW x \in Running, NEW y \in Running, phase'[x] = "announcing",
                          Holds(rm'[y], Entry(x))
                   PROVE  FALSE
        BY <2>3, <2>5, <3>2 DEF NotYetOK
      <4>1. x # s /\ phase[x] = "announcing"
        BY <2>2, <3>2
      <4>2. Entry(x) = e0
        BY <3>1, <3>4, <4>1 DEF Calm, NotYetOK
      <4>3. port[x] # 0
        BY <1>0, <3>2, <4>1 DEF HasPortOK
      <4> QED
        BY <2>3, <3>1, <4>1, <4>2, <4>3 DEF Calm, Distinct, e0
    <3>11. SameOrder'
      <4> SUFFICES ASSUME NEW x \in Running, NEW y \in Running, NEW e, NEW f,
                          Precedes(rm'[x], e, f), Precedes(rm'[y], f, e)
                   PROVE  FALSE
        BY <2>3 DEF SameOrder
      <4>1. \/ Precedes(rm[x], e, f)
            \/ x = p /\ f = e0 /\ Holds(rm[p], e)
        BY <3>5
      <4>2. \/ Precedes(rm[y], f, e)
            \/ y = p /\ e = e0 /\ Holds(rm[p], f)
        BY <3>5
      <4> QED
        BY <2>3, <3>1, <3>3, <3>6, <4>1, <4>2 DEF Calm, SameOrder
    <3>12. Together'
      <4> SUFFICES ASSUME NEW x \in Running, NEW y \in Running, NEW u \in Running, NEW e,
                          Precedes(rm'[x], Entry(u), e), port[u] = e.port, Holds(rm'[y], e)
                   PROVE  Holds(rm'[y], Entry(u))
        BY <1>1, <2>3, <2>5, <3>2 DEF Together
      <4>1. CASE Precedes(rm[x], Entry(u), e)
        <5>1. Holds(rm[y], e)
          BY <3>4, <3>6, <4>1
        <5>2. Holds(rm[y], Entry(u))
          BY <3>1, <4>1, <5>1 DEF Calm, Together
        <5> QED
          BY <3>4, <5>2
      <4>2. CASE x = p /\ e = e0 /\ Holds(rm[p], Entry(u))
        <5>1. y = p
          BY <3>3, <3>4, <4>2
        <5> QED
          BY <3>4, <4>2, <5>1
      <4> QED
        BY <3>5, <4>1, <4>2
    <3>13. AllListed'
      <4> SUFFICES ASSUME NEW x \in Running, NEW y \in Running, phase'[x] = "primary",
                          port[x] = 0, port[y] # 0, phase'[y] # "announcing"
                   PROVE  Holds(rm'[x], Entry(y))
        BY <1>1, <2>3, <2>5, <3>2 DEF AllListed
      <4>1. phase[x] = "primary"
        BY <2>2, <3>2
      <4>2. x = p
        BY <2>1, <3>1, <3>2, <4>1 DEF Calm, OneContender, Contenders, Tellers
      <4>3. CASE y = s
        BY <3>4, <4>2, <4>3 DEF e0
      <4>4. CASE y # s
        <5>1. Holds(rm[x], Entry(y))
          BY <2>2, <3>1, <3>2, <4>1, <4>4 DEF Calm, AllListed
        <5> QED
          BY <3>4, <5>1
      <4> QED
        BY <4>3, <4>4
    <3>14. ASSUME NEW x \in Servers, phase'[x] \in Followers
           PROVE  /\ phase[x] = phase'[x] /\ rm'[x] = rm[x] /\ x \in Running
      BY <2>1, <2>2, <3>14 DEF Followers, Running, In
    <3>15. ASSUME NEW x \in Servers, NEW y \in Servers, Mutual(x, y)'
           PROVE  Mutual(x, y)
      <4>1. phase'[x] \in Followers /\ phase'[y] \in Followers
        BY <3>15 DEF Mutual
      <4> QED
        BY <2>5, <3>14, <3>15, <4>1 DEF Mutual
    <3>16. ASSUME NEW x \in Servers, NEW y \in Servers, phase[x] \in Contenders, Fresh(x, y)
           PROVE  Fresh(x, y)'
      <4>1. phase[y] = "backup" /\ y \in Running /\ x \in Running
        BY <3>16 DEF Fresh, Running, In, Contenders, Tellers
      <4>2. phase'[y] = "backup" /\ rm'[y] = rm[y]
        BY <1>1, <2>1, <2>2, <4>1
      <4>3. ASSUME NEW e, NEW f, Holds(rm[y], f), Precedes(rm'[x], e, f), e.port # port[y]
            PROVE  Holds(rm[y], e)
        <5>1. f # e0
          BY <3>3, <4>1, <4>3
        <5>2. Precedes(rm[x], e, f)
          BY <3>5, <4>1, <4>3, <5>1
        <5> QED
          BY <3>16, <4>3, <5>2 DEF Fresh
      <4> QED
        BY <1>1, <4>2, <4>3 DEF Fresh
    <3>17. Watched'
      <4> SUFFICES ASSUME NEW x \in Servers, NEW y \in Servers, NEW z \in Servers,
                          phase'[x] \in Contenders, Mutual(y, z)'
                   PROVE  /\ Holds(rm'[x], Entry(y)) /\ Holds(rm'[x], Entry(z))
                          /\ Fresh(x, y)' \/ Fresh(x, z)'
        BY <2>5 DEF Watched
      <4>1. Mutual(y, z) /\ phase[x] \in Contenders /\ x \in Running
        BY <2>2, <3>15 DEF Contenders, Tellers, Running, In
      <4>2. /\ Holds(rm[x], Entry(y)) /\ Holds(rm[x], Entry(z))
            /\ Fresh(x, y) \/ Fresh(x, z)
        BY <3>1, <4>1 DEF Calm, Watched
      <4> QED
        BY <3>4, <3>16, <4>1, <4>2
    <3>18. OnePair'
      BY <3>1, <3>15 DEF Calm, OnePair
    <3> QED
      BY <3>7, <3>8, <3>9, <3>10, <3>11, <3>12, <3>13, <3>17, <3>18 DEF Calm
  <2> QED
    BY <2>6, <2>7, <2>8, <2>9 DEF PInv
<1> QED
  BY <1>2, <1>3 DEF Announce

(***************************************************************************)
(* Erasing: only the entry of a server that is gone.                       *)
(***************************************************************************)
LEMMA ErasedStep ==
  ASSUME TypeOK, PInv, NEW p \in Servers, HeartbeatErase(p)
  PROVE  PInv'
<1>0. Typed /\ EmptyOK /\ HasPortOK /\ ThreadsOK
  BY Types DEF PInv
<1>1. phase[p] = "primary" /\ phase' = phase /\ port' = port /\ telling' = telling
  BY DEF HeartbeatErase
<1>2. PICK k \in DOMAIN rm[p] :
        /\ rm' = [rm EXCEPT ![p] = RemoveAt(@, k)]
        /\ IF \E t \in Running : Entry(t) = rm[p][k] THEN Fault("erased") ELSE UNCHANGED faults
  BY DEF HeartbeatErase
<1> DEFINE gone == rm[p][k]
           shorter == RemoveAt(rm[p], k)
<1>3. rm[p] \in Seq(Entries) /\ rm'[p] = shorter /\ \A x \in Servers \ {p} : rm'[x] = rm[x]
  BY <1>0, <1>2 DEF Typed
<1>4. Running' = Running /\ \A x \in Servers : Entry(x)' = Entry(x)
  BY <1>1 DEF Running, In, Entry
<1>5. ASSUME NEW x \in Servers, NEW e, NEW f
      PROVE  /\ Holds(rm'[x], e) => Holds(rm[x], e)
             /\ Holds(rm[x], e) /\ e # gone => Holds(rm'[x], e)
             /\ Precedes(rm'[x], e, f) => Precedes(rm[x], e, f)
  <2>1. /\ Holds(shorter, e) => Holds(rm[p], e)
        /\ Holds(rm[p], e) /\ e # gone => Holds(shorter, e)
        /\ Precedes(shorter, e, f) => Precedes(rm[p], e, f)
    BY <1>3, RemovedOrder
  <2> HIDE DEF gone, shorter
  <2> QED
    BY <1>3, <2>1
<1> HIDE DEF gone, shorter
<1>6. EmptyOK' /\ HasPortOK' /\ ThreadsOK'
  <2>1. EmptyOK'
    BY <1>0, <1>1, <1>3 DEF EmptyOK, Before
  <2>2. HasPortOK' /\ ThreadsOK'
    BY <1>0, <1>1, ThreadsStay DEF HasPortOK
  <2> QED
    BY <2>1, <2>2
<1>7. ASSUME Good'
      PROVE  Calm'
  <2>1. (\A x \in Running : Entry(x) # gone) /\ UNCHANGED faults
    BY <1>2, <1>7, Blame DEF gone
  <2>2. Calm
    BY <1>7, <2>1, Blame DEF PInv
  <2>3. \A x \in Running : x \in Servers
    BY DEF Running
  <2>4. OwnOK' /\ OneContender'
    BY <1>1, <1>5, <2>2 DEF Calm, OwnOK, OneContender
  <2>5. Distinct' /\ NotYetOK'
    BY <1>1, <1>4, <1>5, <2>2, <2>3 DEF Calm, Distinct, NotYetOK
  <2>6. SameOrder'
    <3> SUFFICES ASSUME NEW x \in Running, NEW y \in Running, NEW e, NEW f,
                        Precedes(rm'[x], e, f), Precedes(rm'[y], f, e)
                 PROVE  FALSE
      BY <1>4 DEF SameOrder
    <3>1. Precedes(rm[x], e, f) /\ Precedes(rm[y], f, e)
      BY <1>5, <2>3
    <3> QED
      BY <2>2, <3>1 DEF Calm, SameOrder
  <2>7. Together'
    <3> SUFFICES ASSUME NEW x \in Running, NEW y \in Running, NEW u \in Running, NEW e,
                        Precedes(rm'[x], Entry(u), e), port[u] = e.port, Holds(rm'[y], e)
                 PROVE  Holds(rm'[y], Entry(u))
      BY <1>1, <1>4, <2>3 DEF Together
    <3>1. Holds(rm[y], Entry(u))
      BY <1>5, <2>2, <2>3 DEF Calm, Together
    <3> QED
      BY <1>5, <2>1, <2>3, <3>1
  <2>8. AllListed'
    BY <1>1, <1>4, <1>5, <2>1, <2>2, <2>3 DEF Calm, AllListed
  <2>9. ASSUME NEW x \in Servers, phase[x] \in Followers
        PROVE  rm'[x] = rm[x] /\ x \in Running
    BY <1>1, <1>3, <2>9 DEF Followers, Running, In
  <2>10. ASSUME NEW x \in Servers, NEW y \in Servers, Mutual(x, y)'
         PROVE  Mutual(x, y)
    <3>1. phase[x] \in Followers /\ phase[y] \in Followers
      BY <1>1, <2>10 DEF Mutual
    <3> QED
      BY <1>1, <1>4, <2>9, <2>10, <3>1 DEF Mutual
  <2>11. ASSUME NEW x \in Servers, NEW y \in Servers, Fresh(x, y)
         PROVE  Fresh(x, y)'
    <3>1. rm'[y] = rm[y]
      BY <2>9, <2>11 DEF Fresh, Followers
    <3> QED
      BY <1>1, <1>5, <2>11, <3>1 DEF Fresh
  <2>12. Watched'
    <3> SUFFICES ASSUME NEW x \in Servers, NEW y \in Servers, NEW z \in Servers,
                        phase[x] \in Contenders, Mutual(y, z)'
                 PROVE  /\ Holds(rm'[x], Entry(y)) /\ Holds(rm'[x], Entry(z))
                        /\ Fresh(x, y)' \/ Fresh(x, z)'
      BY <1>1, <1>4 DEF Watched
    <3>1. Mutual(y, z)
      BY <2>10
    <3>2. y \in Running /\ z \in Running
      BY <2>9, <3>1 DEF Mutual
    <3>3. /\ Holds(rm[x], Entry(y)) /\ Holds(rm[x], Entry(z))
          /\ Fresh(x, y) \/ Fresh(x, z)
      BY <2>2, <3>1 DEF Calm, Watched
    <3> QED
      BY <1>5, <2>1, <2>11, <3>2, <3>3
  <2>13. OnePair'
    BY <2>2, <2>10 DEF Calm, OnePair
  <2> QED
    BY <2>4, <2>5, <2>6, <2>7, <2>8, <2>12, <2>13 DEF Calm
<1> QED
  BY <1>6, <1>7 DEF PInv

(***************************************************************************)
(* Telling: who is told has the whole list of the one that leads, but for  *)
(* the entries of its own port.                                            *)
(***************************************************************************)
LEMMA ToldStep ==
  ASSUME TypeOK, PInv, NEW s \in Servers, Tell(s)
  PROVE  PInv'
<1>0. Typed /\ EmptyOK /\ HasPortOK /\ ThreadsOK
  BY Types DEF PInv
<1> PICK p \in Servers : p = telling[s].by
  BY <1>0 DEF Tell, Typed
<1> DEFINE i == telling[s].at
           e0 == rm[p][i]
           told == {t \in At(e0) : phase[t] = "backup"}
<1>1. phase' = phase /\ port' = port /\ faults' = faults
  BY DEF Tell
<1>2. p \in Servers /\ phase[p] \in Tellers /\ i \in Nat /\ i # 0
  BY <1>0 DEF ThreadsOK, Tellers, Typed
<1>3. ASSUME NEW x \in Servers
      PROVE  \/ telling'[x].by = telling[x].by /\ (telling'[x].at = telling[x].at \/ telling'[x].at # 0)
             \/ telling'[x].by = Nowhere
  <2>1. \/ telling' = [telling EXCEPT ![s] = [telling[s] EXCEPT !.at = i + 1]]
        \/ telling' = [telling EXCEPT ![s] = Silent]
    BY DEF Tell
  <2>2. /\ Silent.by = Nowhere /\ i + 1 # 0
        /\ [telling[s] EXCEPT !.at = i + 1].by = telling[s].by
        /\ [telling[s] EXCEPT !.at = i + 1].at = i + 1
    BY <1>0, <1>2 DEF Silent, Typed
  <2>3. CASE x # s
    BY <1>0, <2>1, <2>3 DEF Typed
  <2>4. CASE x = s
    <3> HIDE DEF i
    <3>1. telling'[s] = [telling[s] EXCEPT !.at = i + 1] \/ telling'[s] = Silent
      BY <1>0, <2>1 DEF Typed
    <3> QED
      BY <2>2, <2>4, <3>1
  <2> QED
    BY <2>3, <2>4
<1>4. ThreadsOK'
  BY <1>0, <1>1, <1>3, NowhereAssumption DEF ThreadsOK
<1>5. HasPortOK'
  BY <1>0, <1>1 DEF HasPortOK
<1>6. Running' = Running /\ \A x \in Servers : Entry(x)' = Entry(x)
  BY <1>1 DEF Running, In, Entry
<1>7. CASE rm' = rm
  <2>1. Still
    BY <1>1, <1>7 DEF Still
  <2>2. EmptyOK'
    BY <1>0, <1>1, <1>7 DEF EmptyOK
  <2>3. ASSUME Good'
        PROVE  Calm'
    <3>1. Calm
      BY <1>1, <2>3, Blame DEF PInv
    <3> QED
      BY <1>0, <1>1, <2>1, <3>1, StillLed
  <2> QED
    BY <1>4, <1>5, <2>2, <2>3 DEF PInv
<1>8. CASE i <= Len(rm[p]) /\ Reach(p, e0)
  <2>1. e0 \in Entries /\ Holds(rm[p], e0) /\ rm[p] \in Seq(Entries)
    <3>1. rm[p] \in Seq(Entries) /\ i \in Nat
      BY <1>0, <1>2 DEF Typed
    <3>2. i \in DOMAIN rm[p]
      BY <1>2, <1>8, <3>1
    <3> QED
      BY <3>1, <3>2 DEF Holds
  <2>2. /\ told \subseteq Servers
        /\ \A t \in told : phase[t] = "backup" /\ Entry(t) = e0
        /\ \A t \in Servers : rm'[t] = IF t \in told THEN Received(rm[p], t) ELSE rm[t]
    BY <1>8 DEF Reach, At
  <2> HIDE DEF told, e0, i
  <2>3. p \notin told /\ p \in Running /\ phase[p] \in Contenders
    BY <1>2, <2>2 DEF Tellers, Contenders, Running, In
  <2>4. \A x \in Running : x \in Servers /\ rm[x] \in Seq(Entries)
    BY <1>0 DEF Running, Typed
  <2>5. ASSUME NEW t \in told, NEW e, NEW f
        PROVE  /\ rm'[t] \in Seq(Entries)
               /\ Holds(rm'[t], e) <=> Holds(rm[p], e) /\ e.port # port[t]
               /\ Precedes(rm'[t], e, f) => Precedes(rm[p], e, f)
    <3>1. t \in Servers /\ rm'[t] = Received(rm[p], t)
      BY <2>2
    <3>2. /\ Received(rm[p], t) \in Seq(Entries)
          /\ Holds(Received(rm[p], t), e) <=> Holds(rm[p], e) /\ e.port # port[t]
          /\ Precedes(Received(rm[p], t), e, f) => Precedes(rm[p], e, f)
      BY <2>1, <3>1, ReceivedOrder
    <3> QED
      BY <3>1, <3>2
  <2>6. \A t \in Servers \ told : rm'[t] = rm[t]
    BY <2>2
  <2>7. EmptyOK'
    <3>1. \A t \in told : phase[t] \notin Before \cup {"joined"}
      BY <2>2 DEF Before
    <3> QED
      BY <1>0, <1>1, <2>6, <3>1 DEF EmptyOK
  <2>8. ASSUME Good'
        PROVE  Calm'
    <3>1. Calm
      BY <1>1, <2>8, Blame DEF PInv
    <3>2. ASSUME NEW x \in Running
          PROVE  \E y \in Running : /\ \A e : Holds(rm'[x], e) => Holds(rm[y], e)
                                    /\ \A e, f : Precedes(rm'[x], e, f) => Precedes(rm[y], e, f)
      <4>1. CASE x \in told
        BY <2>3, <2>5, <4>1
      <4>2. CASE x \notin told
        BY <2>4, <2>6, <4>2
      <4> QED
        BY <4>1, <4>2
    <3>3. OwnOK'
      <4> SUFFICES ASSUME NEW x \in Servers, phase[x] \in Followers \cup {"leader", "telling"},
                          NEW e, Holds(rm'[x], e)
                   PROVE  e.port # port[x]
        BY <1>1 DEF OwnOK
      <4>1. CASE x \in told
        BY <2>5, <4>1
      <4>2. CASE x \notin told
        BY <2>6, <3>1, <4>2 DEF Calm, OwnOK
      <4> QED
        BY <4>1, <4>2
    <3>4. OneContender' /\ Distinct'
      BY <1>1, <1>6, <2>4, <3>1 DEF Calm, OneContender, Distinct
    <3>5. NotYetOK'
      <4> SUFFICES ASSUME NEW x \in Running, NEW y \in Running, phase[x] = "announcing",
                          Holds(rm'[y], Entry(x))
                   PROVE  FALSE
        BY <1>1, <1>6, <2>4 DEF NotYetOK
      <4> QED
        BY <3>1, <3>2 DEF Calm, NotYetOK
    <3>6. SameOrder'
      <4> SUFFICES ASSUME NEW x \in Running, NEW y \in Running, NEW e, NEW f,
                          Precedes(rm'[x], e, f), Precedes(rm'[y], f, e)
                   PROVE  FALSE
        BY <1>6 DEF SameOrder
      <4>1. \E z \in Running : Precedes(rm[z], e, f)
        BY <3>2
      <4>2. \E z \in Running : Precedes(rm[z], f, e)
        BY <3>2
      <4> QED
        BY <3>1, <4>1, <4>2 DEF Calm, SameOrder
    <3>7. Together'
      <4> SUFFICES ASSUME NEW x \in Running, NEW y \in Running, NEW u \in Running, NEW e,
                          Precedes(rm'[x], Entry(u), e), port[u] = e.port, Holds(rm'[y], e)
                   PROVE  Holds(rm'[y], Entry(u))
        BY <1>1, <1>6, <2>4 DEF Together
      <4>1. PICK z \in Running : Precedes(rm[z], Entry(u), e)
        BY <3>2
      <4>2. CASE y \in told
        <5>1. Holds(rm[p], e) /\ e.port # port[y]
          BY <2>5, <4>2
        <5>2. Holds(rm[p], Entry(u))
          BY <2>3, <3>1, <4>1, <5>1 DEF Calm, Together
        <5>3. Entry(u).port # port[y]
          BY <2>4, <5>1, Entered
        <5> QED
          BY <2>5, <4>2, <5>2, <5>3
      <4>3. CASE y \notin told
        <5>1. rm'[y] = rm[y]
          BY <2>4, <2>6, <4>3
        <5> QED
          BY <3>1, <4>1, <5>1 DEF Calm, Together
      <4> QED
        BY <4>2, <4>3
    <3>8. AllListed'
      <4> SUFFICES ASSUME NEW x \in Running, NEW y \in Running, phase[x] = "primary",
                          port[x] = 0, port[y] # 0, phase[y] # "announcing"
                   PROVE  Holds(rm'[x], Entry(y))
        BY <1>1, <1>6, <2>4 DEF AllListed
      <4>1. rm'[x] = rm[x]
        BY <2>2, <2>4, <2>6
      <4> QED
        BY <3>1, <4>1 DEF Calm, AllListed
    <3>9. ASSUME NEW x \in told
          PROVE  Fresh(p, x)'
      <4>1. rm'[p] = rm[p] /\ phase'[x] = "backup"
        BY <1>1, <1>2, <2>2, <2>3, <2>6
      <4>2. ASSUME NEW e, NEW f, Holds(rm'[x], f), Precedes(rm[p], e, f), e.port # port[x]
            PROVE  Holds(rm'[x], e)
        BY <2>1, <2>5, <4>2, Ordered
      <4> QED
        BY <1>1, <4>1, <4>2 DEF Fresh
    <3>10. ASSUME NEW x \in Servers, x \notin told, Fresh(p, x)
           PROVE  Fresh(p, x)'
      <4>1. rm'[p] = rm[p] /\ rm'[x] = rm[x]
        BY <1>2, <2>3, <2>6, <3>10
      <4> QED
        BY <1>1, <3>10, <4>1 DEF Fresh
    <3>11. ASSUME NEW x \in Servers, NEW y \in Servers, x \notin told, y \notin told, Mutual(x, y)'
           PROVE  Mutual(x, y)
      <4>1. rm'[x] = rm[x] /\ rm'[y] = rm[y]
        BY <2>6, <3>11
      <4> QED
        BY <1>1, <1>6, <3>11, <4>1 DEF Mutual
    <3>12. ASSUME NEW x \in Servers, NEW y \in Servers, Mutual(x, y)', x \in told
           PROVE  /\ Holds(rm[p], Entry(x)) /\ Holds(rm[p], Entry(y))
                  /\ port[x] # port[y]
                  /\ \A e : Precedes(rm[p], e, Entry(y)) => e.port = port[x]
      <4>1. rm'[x] # << >> /\ Head(rm'[x]) = Entry(y)
        BY <1>6, <3>12 DEF Mutual
      <4>2. Holds(rm[p], Entry(x))
        BY <2>1, <2>2, <3>12
      <4>3. Holds(rm'[x], Entry(y))
        BY <2>5, <3>12, <4>1, HeadFirst
      <4>4. Holds(rm[p], Entry(y)) /\ port[x] # port[y]
        BY <2>5, <3>12, <4>3, Entered
      <4>5. ASSUME NEW e, Precedes(rm[p], e, Entry(y)), e.port # port[x]
            PROVE  FALSE
        <5>1. Holds(rm'[x], e)
          BY <2>1, <2>5, <3>12, <4>5, Ordered
        <5>2. e # Entry(y)
          BY <2>3, <3>1, <4>5 DEF Calm, SameOrder
        <5>3. Precedes(rm'[x], Entry(y), e)
          BY <2>5, <3>12, <4>1, <5>1, <5>2, HeadFirst
        <5>4. Precedes(rm[p], Entry(y), e)
          BY <2>5, <3>12, <5>3
        <5> QED
          BY <2>3, <3>1, <4>5, <5>4 DEF Calm, SameOrder
      <4> QED
        BY <4>2, <4>4, <4>5
    <3>13. ASSUME NEW x \in Servers, NEW y \in Servers, Mutual(x, y)'
           PROVE  /\ Mutual(y, x)' /\ x # y
                  /\ x \in Running /\ y \in Running
                  /\ port[x] # 0 /\ port[y] # 0
      <4>1. phase[x] \in Followers /\ phase[y] \in Followers
        BY <1>1, <3>13 DEF Mutual
      <4>2. Mutual(y, x)' /\ x # y
        BY <3>13 DEF Mutual
      <4>3. port[x] # 0 /\ port[y] # 0
        BY <1>0, <4>1 DEF HasPortOK
      <4> QED
        BY <4>1, <4>2, <4>3 DEF Running, In, Followers
    <3>14. Watched'
      <4> SUFFICES ASSUME NEW x \in Servers, NEW y \in Servers, NEW z \in Servers,
                          phase[x] \in Contenders, Mutual(y, z)'
                   PROVE  /\ Holds(rm'[x], Entry(y)) /\ Holds(rm'[x], Entry(z))
                          /\ Fresh(x, y)' \/ Fresh(x, z)'
        BY <1>1, <1>6 DEF Watched
      <4>1. x = p
        BY <1>2, <2>3, <3>1 DEF Calm, OneContender
      <4>2. rm'[p] = rm[p]
        BY <1>2, <2>3, <2>6
      <4>3. CASE y \in told
        BY <3>9, <3>12, <4>1, <4>2, <4>3
      <4>4. CASE z \in told
        BY <3>9, <3>12, <3>13, <4>1, <4>2, <4>4
      <4>5. CASE y \notin told /\ z \notin told
        <5>1. Mutual(y, z)
          BY <3>11, <4>5
        <5>2. /\ Holds(rm[p], Entry(y)) /\ Holds(rm[p], Entry(z))
              /\ Fresh(p, y) \/ Fresh(p, z)
          BY <1>2, <2>3, <3>1, <5>1 DEF Calm, Watched
        <5> QED
          BY <3>10, <4>1, <4>2, <4>5, <5>2
      <4> QED
        BY <4>3, <4>4, <4>5
    <3>15. ASSUME NEW x \in Running, NEW y \in Running, port[x] # 0, Entry(x) = Entry(y)
           PROVE  x = y
      BY <3>1, <3>15 DEF Calm, Distinct
    <3>16. \A x, y \in told : x = y
      <4> SUFFICES ASSUME NEW x \in told, NEW y \in told
                   PROVE  x = y
        OBVIOUS
      <4>1. /\ x \in Running /\ y \in Running /\ port[x] # 0 /\ Entry(x) = Entry(y)
        BY <1>0, <2>2 DEF Running, In, HasPortOK, Followers
      <4> QED
        BY <3>15, <4>1
    <3>17. ASSUME NEW t \in told, NEW x \in Servers, Mutual(t, x)',
                  NEW q \in Servers, NEW u \in Servers, Mutual(q, u)', q \notin {t, x}
           PROVE  FALSE
      <4>1. /\ t \in Running /\ x \in Running /\ q \in Running /\ u \in Running
            /\ port[t] # 0 /\ port[x] # 0 /\ port[q] # 0 /\ port[u] # 0
            /\ t \in Servers
        BY <2>2, <3>13, <3>17
      <4>2. /\ Head(rm'[t]) = Entry(x) /\ Head(rm'[x]) = Entry(t) /\ rm'[x] # << >>
            /\ Head(rm'[q]) = Entry(u) /\ Head(rm'[u]) = Entry(q) /\ t # x
        BY <1>6, <3>17, <4>1 DEF Mutual
      <4>3. u # t /\ u # x
        <5>1. u = t => Entry(q) = Entry(x)
          BY <4>2
        <5>2. u = x => Entry(q) = Entry(t)
          BY <4>2
        <5> QED
          BY <3>15, <3>17, <4>1, <5>1, <5>2
      <4>4. q \notin told /\ u \notin told /\ x \notin told
        BY <3>16, <3>17, <4>2, <4>3
      <4>5. Mutual(q, u) /\ Mutual(u, q)
        <5>1. Mutual(u, q)'
          BY <3>13, <3>17
        <5> QED
          BY <3>11, <3>17, <4>4, <5>1
      <4>6. rm'[x] = rm[x]
        BY <2>6, <4>4
      <4>7. /\ Entry(x) # Entry(q) /\ Entry(x) # Entry(u)
            /\ Entry(t) # Entry(q) /\ Entry(t) # Entry(u)
        BY <3>15, <3>17, <4>1, <4>3
      <4>8. /\ Holds(rm[p], Entry(t)) /\ Holds(rm[p], Entry(x)) /\ port[x] # port[t]
            /\ \A e : Precedes(rm[p], e, Entry(x)) => e.port = port[t]
        BY <3>12, <3>17, <4>1
      <4>9. /\ Holds(rm[p], Entry(q)) /\ Holds(rm[p], Entry(u))
            /\ Fresh(p, q) \/ Fresh(p, u)
        BY <1>2, <2>3, <3>1, <4>5 DEF Calm, Watched
      <4>10. SameOrder /\ Together /\ OwnOK
        BY <3>1 DEF Calm
      <4>11. CASE Fresh(p, u)
        BY <1>0, <2>3, <4>1, <4>2, <4>5, <4>6, <4>7, <4>8, <4>9, <4>10, <4>11, NoSecondPair
      <4>12. CASE Fresh(p, q)
        BY <1>0, <2>3, <4>1, <4>2, <4>5, <4>6, <4>7, <4>8, <4>9, <4>10, <4>12, NoSecondPair
      <4> QED
        BY <4>9, <4>11, <4>12
    <3>18. OnePair'
      <4> SUFFICES ASSUME NEW x \in Servers, NEW y \in Servers, NEW q \in Servers, NEW u \in Servers,
                          Mutual(x, y)', Mutual(q, u)', q \notin {x, y}
                   PROVE  FALSE
        BY DEF OnePair
      <4>1. CASE x \in told
        BY <3>17, <4>1
      <4>2. CASE y \in told
        BY <3>13, <3>17, <4>2
      <4>3. CASE q \in told
        BY <3>13, <3>17, <4>3
      <4>4. CASE u \in told
        BY <3>13, <3>17, <4>4
      <4>5. CASE x \notin told /\ y \notin told /\ q \notin told /\ u \notin told
        <5>1. Mutual(x, y) /\ Mutual(q, u)
          BY <3>11, <4>5
        <5> QED
          BY <3>1, <5>1 DEF Calm, OnePair
      <4> QED
        BY <4>1, <4>2, <4>3, <4>4, <4>5
    <3> QED
      BY <3>3, <3>4, <3>5, <3>6, <3>7, <3>8, <3>14, <3>18 DEF Calm
  <2> QED
    BY <1>4, <1>5, <2>7, <2>8 DEF PInv
<1> QED
  BY <1>7, <1>8 DEF Tell

LEMMA InitiallyCalm == Init => PInv
<1> SUFFICES ASSUME Init
             PROVE  PInv
  OBVIOUS
<1>1. /\ phase = [s \in Servers |-> "off"] /\ port = [s \in Servers |-> 0]
      /\ rm = [s \in Servers |-> << >>] /\ telling = [s \in Servers |-> Silent]
  BY DEF Init
<1>2. Running = {} /\ \A s \in Servers : phase[s] = "off"
  BY <1>1 DEF Running, In
<1>3. EmptyOK /\ HasPortOK
  BY <1>1 DEF EmptyOK, HasPortOK, Before, Followers
<1>4. ThreadsOK
  BY <1>1, NowhereAssumption DEF ThreadsOK, Silent
<1>5. OwnOK /\ OneContender /\ Watched /\ OnePair
  BY <1>2 DEF OwnOK, OneContender, Watched, OnePair, Mutual, Contenders, Tellers, Followers
<1>6. Distinct /\ NotYetOK /\ SameOrder /\ Together /\ AllListed
  BY <1>2 DEF Distinct, NotYetOK, SameOrder, Together, AllListed
<1> QED
  BY <1>3, <1>4, <1>5, <1>6 DEF PInv, Calm

LEMMA StaysCalm == TypeOK /\ PInv /\ [Next]_vars => PInv'
<1> SUFFICES ASSUME TypeOK, PInv, [Next]_vars
             PROVE  PInv'
  OBVIOUS
<1>1. ASSUME NEW s \in Servers, Step(s) \/ Start(s) \/ TimeoutLate(s) \/ Crash(s)
      PROVE  PInv'
  <2>1. CASE \/ Start(s) \/ HearPrimary(s) \/ HearGarbage(s) \/ Listen(s) \/ TimeoutLate(s)
             \/ Bind(s) \/ CallIgnored(s) \/ CallRefused(s) \/ Defer(s) \/ TellNoAddress(s)
    BY <2>1, LedSteps
  <2>2. CASE Timeout(s)
    BY <2>2, LedSteps, LastStep
  <2>3. CASE HearNone(s)
    BY <2>3, HearNoneStep
  <2>4. CASE Declare(s) \/ DeclareDisputed(s)
    BY <2>4, DeclaredStep
  <2>5. CASE TellAddress(s) \/ TakeOver(s) \/ Crash(s)
    BY <2>5, LeaderSteps
  <2>6. CASE ChoosePort(s)
    BY <2>6, ChosenStep
  <2>7. CASE Announce(s)
    BY <2>7, JoinedStep
  <2>8. CASE Tell(s)
    BY <2>8, ToldStep
  <2>9. CASE HeartbeatErase(s)
    BY <2>9, ErasedStep
  <2> QED
    BY <1>1, <2>1, <2>2, <2>3, <2>4, <2>5, <2>6, <2>7, <2>8, <2>9 DEF Step, MainThread
<1>2. CASE UNCHANGED vars
  <2>1. UNCHANGED << phase, port, rm, telling, faults >>
    BY <1>2 DEF vars
  <2>2. Still /\ EmptyOK' /\ HasPortOK' /\ ThreadsOK'
    BY <2>1 DEF Still, PInv, EmptyOK, HasPortOK, ThreadsOK
  <2>3. ASSUME Good'
        PROVE  Calm'
    <3>1. Calm
      BY <2>1, <2>3, Blame DEF PInv
    <3> QED
      BY <2>1, <2>2, <3>1, StillLed, Types DEF PInv
  <2> QED
    BY <2>2, <2>3 DEF PInv
<1> QED
  BY <1>1, <1>2 DEF Next

LEMMA PInvOne == PInv => OnePrimary
<1> SUFFICES ASSUME PInv, Good
             PROVE  ~ (Cardinality(Primaries) > 1)
  BY DEF OnePrimary, Good
<1>1. \A s, t \in Primaries : s = t
  BY DEF PInv, Calm, OneContender, Primaries, Contenders, Tellers
<1>2. CASE Primaries = {}
  BY <1>2, FS_EmptySet
<1>3. ASSUME NEW s \in Primaries
      PROVE  Cardinality(Primaries) = 1
  <2>1. Primaries = {s}
    BY <1>1
  <2> QED
    BY <2>1, FS_Singleton
<1> QED
  BY <1>2, <1>3

(***************************************************************************)
(* However many servers are started, join, crash, and elect one another:   *)
(* a second primary comes only of one of the causes that are named.  No    *)
(* two pairs of backups are ever about to elect each other at once, and    *)
(* none while somebody leads.                                              *)
(***************************************************************************)
THEOREM NoTwoPrimaries == Spec => []OnePrimary
<1>1. Spec => []TypeOK
  BY TypeCorrect
<1>2. Spec => []PInv
  BY <1>1, InitiallyCalm, StaysCalm, PTL DEF Spec
<1> QED
  BY <1>2, PInvOne, PTL

-----------------------------------------------------------------------------
(***************************************************************************)
(* That servers which survive go on.  What drives them is that a server    *)
(* calls somebody: of those in an election that can do nothing else, one   *)
(* of the highest pid calls one that it makes defer.                       *)
(***************************************************************************)
SilentOK == \A s \in Servers : telling[s].by = Nowhere => telling[s] = Silent

\* There is a highest pid: sets of finitely many pids have a smallest.
LEMMA HighestPid ==
  ASSUME NEW V \in SUBSET Servers, V # {}
  PROVE  \E u \in V : \A v \in V : Pid[v] <= Pid[u]
<1> DEFINE All == 0 .. MaxPid
           Above(u) == {pid \in All : Pid[u] < pid}
           T == {Above(u) : u \in V}
<1>1. IsFiniteSet(All) /\ \A u \in Servers : Pid[u] \in All /\ Pid[u] \in Int
  BY FS_Interval, PidAssumption
<1>2. T \subseteq FiniteSubsetsOf(All) /\ T # {}
  <2>1. \A u \in V : Above(u) \in SUBSET All
    OBVIOUS
  <2>2. \A u \in V : IsFiniteSet(Above(u))
    <3> HIDE DEF All, Above
    <3> QED
      BY <1>1, <2>1, FS_Subset
  <2>3. \A u \in V : Above(u) \in FiniteSubsetsOf(All)
    <3> HIDE DEF All, Above
    <3> QED
      BY <2>1, <2>2 DEF FiniteSubsetsOf
  <2> HIDE DEF All, Above
  <2> QED
    BY <2>3
<1>3. PICK A \in T : \A B \in T : << B, A >> \notin StrictSubsetOrdering(All)
  <2>1. IsWellFoundedOn(StrictSubsetOrdering(All), FiniteSubsetsOf(All))
    BY FS_StrictSubsetOrderingWellFounded
  <2> HIDE DEF All, T
  <2> QED
    BY <1>2, <2>1, WFMin
<1>4. PICK u \in V : A = Above(u)
  BY <1>3
<1>5. ASSUME NEW v \in V, Pid[u] < Pid[v]
      PROVE  FALSE
  <2>1. Above(v) \in SUBSET All /\ A \in SUBSET All /\ Above(v) \in T
    BY <1>4
  <2>2. Above(v) \subseteq A
    BY <1>1, <1>4, <1>5
  <2>3. Pid[v] \in A /\ Pid[v] \notin Above(v)
    BY <1>1, <1>4, <1>5
  <2>4. << Above(v), A >> \in StrictSubsetOrdering(All)
    <3> HIDE DEF All, Above, T
    <3> QED
      BY <2>1, <2>2, <2>3 DEF StrictSubsetOrdering
  <2> QED
    <3> HIDE DEF All, Above, T
    <3> QED
      BY <1>3, <2>1, <2>4
<1> HIDE DEF All, Above, T
<1>6. ASSUME NEW v \in V
      PROVE  Pid[v] <= Pid[u]
  <2>1. Pid[v] \in Int /\ Pid[u] \in Int
    BY <1>1
  <2> QED
    BY <1>5, <2>1
<1> QED
  BY <1>6

\* A thread that begins to send a list does so for some server.
LEMMA BegunStays ==
  ASSUME Typed, SilentOK, NEW s \in Servers, NEW p \in Servers,
         telling' = [telling EXCEPT ![s] = [by |-> p, at |-> 1]]
  PROVE  SilentOK'
<1>1. telling'[s] = [by |-> p, at |-> 1] /\ \A x \in Servers \ {s} : telling'[x] = telling[x]
  BY DEF Typed
<1>2. telling'[s].by # Nowhere
  BY <1>1, NowhereAssumption
<1> QED
  BY <1>1, <1>2 DEF SilentOK

LEMMA SilentStays ==
  ASSUME TypeOK, SilentOK, [Next]_vars
  PROVE  SilentOK'
<1>0. Typed
  BY Types
<1>1. ASSUME NEW s \in Servers, Announce(s)
      PROVE  SilentOK'
  <2>1. \/ telling' = telling
        \/ \E p \in Servers : telling' = [telling EXCEPT ![s] = [by |-> p, at |-> 1]]
    BY <1>1 DEF Announce, Primaries
  <2>2. CASE telling' = telling
    BY <2>2 DEF SilentOK
  <2>3. ASSUME NEW p \in Servers, telling' = [telling EXCEPT ![s] = [by |-> p, at |-> 1]]
        PROVE  SilentOK'
    BY <1>0, <2>3, BegunStays
  <2> QED
    BY <2>1, <2>2, <2>3
<1>2. ASSUME NEW s \in Servers, TellAddress(s)
      PROVE  SilentOK'
  <2>1. telling' = [telling EXCEPT ![s] = [by |-> s, at |-> 1]]
    BY <1>2 DEF TellAddress
  <2> QED
    BY <1>0, <2>1, BegunStays
<1>3. ASSUME NEW s \in Servers, Tell(s)
      PROVE  SilentOK'
  <2>1. /\ telling[s].by # Nowhere
        /\ \/ telling' = [telling EXCEPT ![s] = Silent]
           \/ telling' = [telling EXCEPT ![s].at = telling[s].at + 1]
    BY <1>3 DEF Tell
  <2>2. telling'[s] = Silent \/ telling'[s].by = telling[s].by
    BY <1>0, <2>1 DEF Typed
  <2>3. \A x \in Servers \ {s} : telling'[x] = telling[x]
    BY <1>0, <2>1 DEF Typed
  <2> QED
    BY <2>1, <2>2, <2>3 DEF SilentOK
<1>4. ASSUME NEW s \in Servers, Crash(s)
      PROVE  SilentOK'
  BY <1>4 DEF Crash, SilentOK
<1>5. ASSUME UNCHANGED telling
      PROVE  SilentOK'
  BY <1>5 DEF SilentOK
<1>6. ASSUME NEW s \in Servers,
             \/ MainThread(s) /\ ~ Announce(s) /\ ~ TellAddress(s)
             \/ HeartbeatErase(s) \/ Start(s) \/ TimeoutLate(s)
      PROVE  UNCHANGED telling
  BY <1>6 DEF MainThread, HearPrimary, HearNone, HearGarbage, ChoosePort, Listen, Timeout, Bind,
     CallIgnored, CallRefused, Defer, Declare, DeclareDisputed, TellNoAddress, TakeOver,
     HeartbeatErase, Start, TimeoutLate
<1>7. CASE UNCHANGED vars
  BY <1>5, <1>7 DEF vars
<1>8. CASE Next
  BY <1>1, <1>2, <1>3, <1>4, <1>5, <1>6, <1>8 DEF Next, Step
<1> QED
  BY <1>7, <1>8

LEMMA SomebodyGoesOn ==
  ASSUME TypeOK, SilentOK
  PROVE  TakesOver
<1>0. Typed
  BY Types
<1> SUFFICES ASSUME Running # {}, Primaries = {},
                    \A s \in Servers : ~ CanStep(s),
                    \A s \in Servers : ~ Stranded(s)
             PROVE  FALSE
  BY DEF TakesOver
<1>1. \A s \in Servers : telling[s] = Silent
  BY DEF CanStep, SilentOK
<1>2. ASSUME NEW s \in Servers
      PROVE  phase[s] \notin {"starting", "configuring", "announcing", "joined", "resting",
                              "telling", "deferring", "primary"}
  BY <1>1 DEF CanStep, In, Stranded, Primaries
<1>3. ASSUME NEW s \in Servers, phase[s] = "leader"
      PROVE  FALSE
  BY <1>1, <1>2, <1>3 DEF CanStep
<1>4. ASSUME NEW s \in Servers, phase[s] = "backup"
      PROVE  FALSE
  <2>1. PICK t \in Servers : Speaks(t, s)
    BY <1>4 DEF CanStep
  <2>2. phase[t] = "ignored" /\ s \in Neighbours(t)
    BY <1>2, <1>3, <2>1 DEF Speaks, In
  <2> QED
    BY <1>4, <2>2 DEF Stranded
<1> DEFINE V == {s \in Servers : phase[s] \in {"voting", "ignored"}}
<1>5. \A t \in Servers : Bound(t) => t \in V
  BY <1>2, <1>4 DEF Bound, Voting, In
<1>6. V # {}
  <2>1. ASSUME NEW h, NEW p, InUse(h, p)
        PROVE  V # {}
    BY <1>2, <1>3, <1>5, <2>1 DEF InUse, In
  <2>2. PICK s \in Servers : s \in Running
    BY DEF Running
  <2>3. phase[s] \in {"electing", "voting", "ignored"}
    BY <1>0, <1>2, <1>3, <1>4, <2>2
       DEF Running, In, Typed, Phases, Before, Followers, Tellers
  <2>4. CASE phase[s] = "electing"
    <3>1. InUse(Host[s], port[s])
      BY <2>4 DEF CanStep
    <3> QED
      BY <2>1, <3>1
  <2>5. CASE phase[s] \in {"voting", "ignored"}
    BY <2>5
  <2> QED
    BY <2>3, <2>4, <2>5
<1>7. ASSUME NEW u \in V
      PROVE  Neighbours(u) # {} /\ Neighbours(u) \subseteq V
  <2>1. Neighbours(u) # {}
    BY DEF CanStep, In
  <2>2. \A t \in Neighbours(u) : t \in Servers /\ Bound(t)
    BY DEF Neighbours
  <2> QED
    BY <1>5, <2>1, <2>2
<1>8. PICK u \in V : \A v \in V : Pid[v] <= Pid[u]
  BY <1>6, HighestPid
<1>9. PICK s \in V : s \in Neighbours(u)
  BY <1>7
<1>10. PICK t \in V : t \in Neighbours(s)
  BY <1>7
<1>11. \A v \in V : v \in Servers /\ Voting(v) /\ Pid[v] \in Int
  BY PidAssumption DEF Voting, In
<1>12. CASE Pid[s] < Pid[u]
  <2>1. Pid[u] \in Heard(s)
    BY <1>8, <1>9, <1>11 DEF Heard
  <2>2. HearsHigher(s)
    BY <1>10, <1>12, <2>1 DEF HearsHigher
  <2> QED
    BY <1>9, <2>2 DEF CanStep, In
<1>13. CASE Pid[s] = Pid[u]
  <2>1. Twin(s)
    BY <1>8, <1>9, <1>11, <1>13 DEF Twin
  <2> QED
    BY <1>9, <1>10, <1>11, <2>1 DEF CanStep
<1> QED
  BY <1>8, <1>9, <1>11, <1>12, <1>13

(***************************************************************************)
(* However many servers survive, at whatever they are when the last        *)
(* primary ends: one of them can go on, or one of them calls for ever at a *)
(* neighbour that it keeps from noticing the silence, or has deferred.     *)
(***************************************************************************)
THEOREM SurvivorsGoOn == Spec => []TakesOver
<1>1. Spec => []TypeOK
  BY TypeCorrect
<1>2. Init => SilentOK
  BY DEF Init, SilentOK
<1>3. TypeOK /\ SilentOK /\ [Next]_vars => SilentOK'
  BY SilentStays
<1>4. TypeOK /\ SilentOK => TakesOver
  BY SomebodyGoesOn
<1> QED
  BY <1>1, <1>2, <1>3, <1>4, PTL DEF Spec

=============================================================================

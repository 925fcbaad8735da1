--------------------------- MODULE ProfileOpsProofs ---------------------------
(***************************************************************************)
(* Lemmas about the lists the profiles are kept in, for the proofs of the  *)
(* modules that are built from ProfileOps.                                 *)
(***************************************************************************)
EXTENDS ProfileOps, FiniteSetTheorems, TLAPS

LEMMA ListElements ==
  ASSUME NEW S, NEW s \in Seq(S)
  PROVE  ToSet(s) \subseteq S
  BY DEF ToSet

(***************************************************************************)
(* A finite set can be listed.                                             *)
(***************************************************************************)
LEMMA SetListed ==
  ASSUME NEW S, IsFiniteSet(S)
  PROVE  SetToSeq(S) \in Seq(S)
<1>1. PICK f \in [1 .. Cardinality(S) -> S] : IsInjective(f)
  BY FS_CardinalityType DEF ExistsBijection, Bijection, Injection
<1>2. SetToSeq(S) \in [1 .. Cardinality(S) -> S]
  BY <1>1 DEF SetToSeq
<1> QED
  BY <1>2, FS_CardinalityType

(***************************************************************************)
(* Erasing a session leaves a list of sessions that is no longer.          *)
(***************************************************************************)
LEMMA EraseTypes ==
  ASSUME NEW S, NEW s \in Seq(S), NEW id
  PROVE  /\ EraseSession(s, id) \in Seq(S)
         /\ Len(EraseSession(s, id)) <= Len(s)
<1>1. CASE id \in ToSet(s)
  <2> DEFINE i == CHOOSE i \in DOMAIN s : s[i] = id
  <2>1. i \in 1 .. Len(s)
    BY <1>1 DEF ToSet
  <2>2. EraseSession(s, id) = SubSeq(s, 1, i - 1) \o SubSeq(s, i + 1, Len(s))
    BY <1>1 DEF EraseSession, RemoveAt
  <2> DEFINE left  == SubSeq(s, 1, i - 1)
             right == SubSeq(s, i + 1, Len(s))
  <2> HIDE DEF i
  <2>3. left \in Seq(S) /\ Len(left) = i - 1
    BY <2>1
  <2>4. right \in Seq(S) /\ Len(right) = Len(s) - i
    BY <2>1
  <2> HIDE DEF left, right
  <2>5. left \o right \in Seq(S) /\ Len(left \o right) = Len(s) - 1
    BY <2>1, <2>3, <2>4
  <2> QED BY <2>2, <2>5 DEF left, right
<1>2. CASE id \notin ToSet(s)
  BY <1>2 DEF EraseSession
<1> QED BY <1>1, <1>2

(***************************************************************************)
(* Appending adds one element, and keeps a list without repetitions so.    *)
(***************************************************************************)
LEMMA AppendElements ==
  ASSUME NEW S, NEW s \in Seq(S), NEW e \in S
  PROVE  /\ Append(s, e) \in Seq(S)
         /\ Len(Append(s, e)) = Len(s) + 1
         /\ ToSet(Append(s, e)) = ToSet(s) \cup {e}
         /\ IsInjective(s) /\ e \notin ToSet(s) => IsInjective(Append(s, e))
<1>1. /\ Append(s, e) \in Seq(S)
      /\ Len(Append(s, e)) = Len(s) + 1
      /\ DOMAIN s = 1 .. Len(s)
      /\ DOMAIN Append(s, e) = 1 .. Len(s) + 1
      /\ \A i \in 1 .. Len(s) : Append(s, e)[i] = s[i]
      /\ Append(s, e)[Len(s) + 1] = e
      /\ Len(s) \in Nat
  OBVIOUS
<1>2. ToSet(Append(s, e)) = ToSet(s) \cup {e}
  <2>1. ASSUME NEW x \in ToSet(Append(s, e)) PROVE x \in ToSet(s) \cup {e}
    <3>1. PICK i \in 1 .. Len(s) + 1 : x = Append(s, e)[i]
      BY <1>1 DEF ToSet
    <3> QED BY <1>1, <3>1 DEF ToSet
  <2>2. ASSUME NEW x \in ToSet(s) PROVE x \in ToSet(Append(s, e))
    <3>1. PICK i \in 1 .. Len(s) : x = s[i]
      BY <1>1, <2>2 DEF ToSet
    <3>2. i \in 1 .. Len(s) + 1 /\ x = Append(s, e)[i]
      BY <1>1, <3>1
    <3> QED BY <1>1, <3>2 DEF ToSet
  <2>3. e \in ToSet(Append(s, e))
    BY <1>1 DEF ToSet
  <2> QED BY <2>1, <2>2, <2>3
<1>3. ASSUME IsInjective(s), e \notin ToSet(s) PROVE IsInjective(Append(s, e))
  <2>1. ASSUME NEW i \in 1 .. Len(s) + 1, NEW j \in 1 .. Len(s) + 1,
               Append(s, e)[i] = Append(s, e)[j]
        PROVE  i = j
    <3>1. \A k \in 1 .. Len(s) : s[k] # e
      BY <1>1, <1>3 DEF ToSet
    <3> QED BY <1>1, <1>3, <2>1, <3>1 DEF IsInjective
  <2> QED BY <1>1, <2>1 DEF IsInjective
<1> QED BY <1>1, <1>2, <1>3

=============================================================================

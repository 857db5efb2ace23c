---------------------------- MODULE ListLemmas ------------------------------
(***************************************************************************)
(* What the operations on lists without duplicates return: push_front,     *)
(* push_back, pop_back, erase.                                             *)
(***************************************************************************)
EXTENDS Integers, Sequences, FiniteSets, SequencesExt, FiniteSetTheorems,
        SequenceTheorems, TLAPS

\* The empty list.
LEMMA EmptyList == Range(<<>>) = {} /\ IsInjective(<<>>)
  BY DEF Range, IsInjective

\* push_back of a new element.
LEMMA AppendNew ==
    ASSUME NEW S, NEW s \in Seq(S), NEW k \in S
    PROVE  /\ Append(s, k) \in Seq(S)
           /\ Range(Append(s, k)) = Range(s) \cup {k}
           /\ IsInjective(s) /\ k \notin Range(s) => IsInjective(Append(s, k))
<1> DEFINE t == Append(s, k)
<1>1. /\ t \in Seq(S) /\ Len(s) \in Nat
      /\ DOMAIN s = 1..Len(s) /\ DOMAIN t = 1..(Len(s) + 1)
      /\ \A i \in 1..Len(s) : t[i] = s[i]
      /\ t[Len(s) + 1] = k
  BY AppendProperties, LenProperties
<1> HIDE DEF t
<1>2. Range(t) \subseteq Range(s) \cup {k}
  BY <1>1 DEF Range
<1>3. Range(s) \subseteq Range(t)
  BY <1>1 DEF Range
<1>4. k \in Range(t)
  BY <1>1 DEF Range
<1>5. ASSUME IsInjective(s), k \notin Range(s) PROVE IsInjective(t)
  BY <1>1, <1>5 DEF IsInjective, Range
<1> QED BY <1>1, <1>2, <1>3, <1>4, <1>5 DEF t

\* push_front of a new element.
LEMMA PushFront ==
    ASSUME NEW S, NEW s \in Seq(S), NEW k \in S, IsInjective(s), k \notin Range(s)
    PROVE  /\ <<k>> \o s \in Seq(S)
           /\ Len(<<k>> \o s) = Len(s) + 1
           /\ (<<k>> \o s)[1] = k
           /\ \A i \in 1..Len(s) : (<<k>> \o s)[i + 1] = s[i]
           /\ Range(<<k>> \o s) = Range(s) \cup {k}
           /\ IsInjective(<<k>> \o s)
<1> DEFINE t == <<k>> \o s
<1>1. <<k>> \in Seq(S) /\ Len(<<k>>) = 1 /\ <<k>>[1] = k
  OBVIOUS
<1>2. /\ t \in Seq(S)
      /\ Len(t) = Len(s) + 1
      /\ \A i \in 1..(Len(s) + 1) : t[i] = IF i <= 1 THEN k ELSE s[i - 1]
  BY <1>1, ConcatProperties
<1> HIDE DEF t
<1>3. Len(s) \in Nat /\ DOMAIN s = 1..Len(s) /\ DOMAIN t = 1..(Len(s) + 1)
  BY <1>2, LenProperties
<1>4. t[1] = k /\ \A i \in 1..Len(s) : t[i + 1] = s[i]
  BY <1>2, <1>3
<1>5. Range(t) = Range(s) \cup {k}
  <2>1. Range(t) \subseteq Range(s) \cup {k}
    BY <1>2, <1>3 DEF Range
  <2>2. Range(s) \subseteq Range(t)
    <3> SUFFICES ASSUME NEW i \in 1..Len(s) PROVE s[i] \in Range(t)
      BY <1>3 DEF Range
    <3>1. i + 1 \in DOMAIN t /\ t[i + 1] = s[i]
      BY <1>3, <1>4
    <3> QED BY <3>1 DEF Range
  <2>3. k \in Range(t)
    BY <1>3, <1>4 DEF Range
  <2> QED BY <2>1, <2>2, <2>3
<1>6. IsInjective(t)
  <2> SUFFICES ASSUME NEW i \in 1..(Len(s) + 1), NEW j \in 1..(Len(s) + 1), t[i] = t[j]
               PROVE  i = j
    BY <1>3 DEF IsInjective
  <2>1. \A n \in 1..(Len(s) + 1) : n # 1 => n - 1 \in DOMAIN s /\ t[n] = s[n - 1] /\ t[n] # k
    <3> SUFFICES ASSUME NEW n \in 1..(Len(s) + 1), n # 1
                 PROVE  n - 1 \in DOMAIN s /\ t[n] = s[n - 1] /\ t[n] # k
      OBVIOUS
    <3>1. n - 1 \in 1..Len(s) /\ ~(n <= 1)
      BY <1>3
    <3>2. t[n] = s[n - 1]
      BY <3>1, <1>2
    <3>3. s[n - 1] \in Range(s)
      BY <3>1, <1>3 DEF Range
    <3> QED BY <3>1, <3>2, <3>3, <1>3
  <2>2. CASE i = 1 \/ j = 1
    BY <1>4, <2>1, <2>2
  <2>3. CASE i # 1 /\ j # 1
    <3>1. i - 1 = j - 1
      BY <2>1, <2>3 DEF IsInjective
    <3> QED BY <3>1
  <2> QED BY <2>2, <2>3
<1> QED BY <1>2, <1>4, <1>5, <1>6 DEF t

\* Removing the element at one place of a list without duplicates.
LEMMA RemoveAtProperties ==
    ASSUME NEW S, NEW s \in Seq(S), IsInjective(s), NEW p \in 1..Len(s)
    PROVE  /\ RemoveAt(s, p) \in Seq(S)
           /\ Len(RemoveAt(s, p)) = Len(s) - 1
           /\ Range(RemoveAt(s, p)) = Range(s) \ {s[p]}
           /\ IsInjective(RemoveAt(s, p))
<1> DEFINE a == SubSeq(s, 1, p - 1)
           b == SubSeq(s, p + 1, Len(s))
           t == RemoveAt(s, p)
<1>0. Len(s) \in Nat /\ DOMAIN s = 1..Len(s) /\ \A i \in 1..Len(s) : s[i] \in S
  BY LenProperties, ElementOfSeq
<1>1. a \in Seq(S) /\ Len(a) = p - 1 /\ \A i \in 1..(p - 1) : a[i] = s[i]
  <2>1. \A i \in 1..(p - 1) : s[i] \in S
    BY <1>0
  <2>2. /\ a \in Seq(S)
        /\ Len(a) = IF 1 <= p - 1 THEN p - 1 - 1 + 1 ELSE 0
        /\ \A i \in 1..(p - 1 - 1 + 1) : a[i] = s[1 + i - 1]
    BY <2>1, SubSeqProperties
  <2> QED BY <2>2, <1>0
<1>2. b \in Seq(S) /\ Len(b) = Len(s) - p /\ \A i \in 1..(Len(s) - p) : b[i] = s[p + i]
  <2>1. \A i \in (p + 1)..Len(s) : s[i] \in S
    BY <1>0
  <2>2. /\ b \in Seq(S)
        /\ Len(b) = IF p + 1 <= Len(s) THEN Len(s) - (p + 1) + 1 ELSE 0
        /\ \A i \in 1..(Len(s) - (p + 1) + 1) : b[i] = s[p + 1 + i - 1]
    BY <1>0, <2>1, SubSeqProperties
  <2> HIDE DEF b
  <2>3. Len(s) - (p + 1) + 1 = Len(s) - p /\ \A i \in 1..(Len(s) - p) : p + 1 + i - 1 = p + i
    BY <1>0
  <2>4. Len(b) = Len(s) - p
    <3>1. Len(b) = IF p + 1 <= Len(s) THEN Len(s) - (p + 1) + 1 ELSE 0
      BY <2>2
    <3>2. p <= Len(s) /\ p \in Int /\ Len(s) \in Int
      BY <1>0
    <3>3. (IF p + 1 <= Len(s) THEN Len(s) - (p + 1) + 1 ELSE 0) = Len(s) - p
      BY <3>2
    <3> QED BY <3>1, <3>3
  <2> QED BY <2>2, <2>3, <2>4
<1>3. t = a \o b
  BY DEF RemoveAt
<1> HIDE DEF a, b, t
<1>4. /\ t \in Seq(S)
      /\ Len(t) = Len(s) - 1
      /\ \A i \in 1..(Len(s) - 1) : t[i] = IF i < p THEN s[i] ELSE s[i + 1]
  <2>1. /\ t \in Seq(S)
        /\ Len(t) = Len(a) + Len(b)
        /\ \A i \in 1..(Len(a) + Len(b)) : t[i] = IF i <= Len(a) THEN a[i] ELSE b[i - Len(a)]
    BY <1>1, <1>2, <1>3, ConcatProperties
  <2>2. ASSUME NEW i \in 1..(Len(s) - 1) PROVE t[i] = IF i < p THEN s[i] ELSE s[i + 1]
    <3>0. i \in 1..(Len(a) + Len(b)) /\ (i <= Len(a) <=> i < p)
      BY <1>1, <1>2, <1>0
    <3>1. CASE i < p
      BY <2>1, <1>1, <1>0, <3>0, <3>1
    <3>2. CASE ~(i < p)
      <4>1. i - (p - 1) \in 1..(Len(s) - p) /\ p + (i - (p - 1)) = i + 1
        BY <3>2, <1>0
      <4>2. t[i] = b[i - (p - 1)]
        BY <2>1, <1>1, <3>0, <3>2
      <4> QED BY <4>1, <4>2, <1>2, <3>2
    <3> QED BY <3>1, <3>2
  <2> QED BY <2>1, <2>2, <1>1, <1>2, <1>0
<1>5. DOMAIN t = 1..(Len(s) - 1)
  BY <1>4, LenProperties
<1>6. \A i \in 1..(Len(s) - 1) : \E j \in 1..Len(s) : j # p /\ t[i] = s[j]
                                   /\ j = IF i < p THEN i ELSE i + 1
  BY <1>4, <1>0
<1>7. Range(t) = Range(s) \ {s[p]}
  <2>1. Range(t) \subseteq Range(s) \ {s[p]}
    <3> SUFFICES ASSUME NEW i \in 1..(Len(s) - 1) PROVE t[i] \in Range(s) \ {s[p]}
      BY <1>5 DEF Range
    <3> QED BY <1>6, <1>0 DEF Range, IsInjective
  <2>2. ASSUME NEW j \in 1..Len(s), s[j] # s[p] PROVE s[j] \in Range(t)
    <3>1. CASE j < p
      <4>1. j \in 1..(Len(s) - 1) /\ t[j] = s[j]
        BY <3>1, <1>4, <1>0
      <4> QED BY <4>1, <1>5 DEF Range
    <3>2. CASE j > p
      <4>1. j - 1 \in 1..(Len(s) - 1) /\ ~(j - 1 < p) /\ (j - 1) + 1 = j
        BY <3>2, <1>0
      <4>2. t[j - 1] = s[j]
        BY <4>1, <1>4
      <4> QED BY <4>1, <4>2, <1>5 DEF Range
    <3> QED BY <3>1, <3>2, <2>2, <1>0
  <2> QED BY <2>1, <2>2, <1>0 DEF Range
<1>8. IsInjective(t)
  <2> SUFFICES ASSUME NEW i \in 1..(Len(s) - 1), NEW j \in 1..(Len(s) - 1), t[i] = t[j]
               PROVE  i = j
    BY <1>5 DEF IsInjective
  <2>1. (IF i < p THEN i ELSE i + 1) = (IF j < p THEN j ELSE j + 1)
    BY <1>6, <1>0 DEF IsInjective
  <2> QED BY <2>1
<1> QED BY <1>4, <1>7, <1>8 DEF t

\* pop_back.
LEMMA PopBack ==
    ASSUME NEW S, NEW s \in Seq(S), IsInjective(s), s # <<>>
    PROVE  /\ Last(s) \in Range(s)
           /\ Front(s) \in Seq(S)
           /\ Len(Front(s)) = Len(s) - 1
           /\ Range(Front(s)) = Range(s) \ {Last(s)}
           /\ IsInjective(Front(s))
<1>1. Len(s) \in Nat /\ Len(s) \in 1..Len(s) /\ DOMAIN s = 1..Len(s)
  BY EmptySeq, LenProperties
<1>2. RemoveAt(s, Len(s)) = Front(s)
  <2>1. SubSeq(s, Len(s) + 1, Len(s)) = <<>>
    BY <1>1, SubSeqEmpty
  <2>2. SubSeq(s, 1, Len(s) - 1) \in Seq(S)
    BY <1>1, SubSeqProperties, ElementOfSeq
  <2> QED BY <2>1, <2>2, ConcatEmptySeq DEF RemoveAt, Front
<1>3. /\ RemoveAt(s, Len(s)) \in Seq(S)
      /\ Len(RemoveAt(s, Len(s))) = Len(s) - 1
      /\ Range(RemoveAt(s, Len(s))) = Range(s) \ {s[Len(s)]}
      /\ IsInjective(RemoveAt(s, Len(s)))
  BY <1>1, RemoveAtProperties
<1>4. Last(s) = s[Len(s)] /\ Last(s) \in Range(s)
  BY <1>1 DEF Last, Range
<1> QED BY <1>2, <1>3, <1>4, Zenon

\* A list without duplicates is as long as the set of its elements is large.
LEMMA InjectiveCardinality ==
    ASSUME NEW S, NEW s \in Seq(S), IsInjective(s)
    PROVE  IsFiniteSet(Range(s)) /\ Cardinality(Range(s)) = Len(s)
<1>1. Len(s) \in Nat /\ DOMAIN s = 1..Len(s) /\ s \in [1..Len(s) -> Range(s)]
  BY LenProperties, RangeEquality
<1>2. s \in Bijection(1..Len(s), Range(s))
  BY <1>1 DEF Bijection, Injection, Surjection, Range
<1>3. ExistsBijection(1..Len(s), Range(s))
  BY <1>2 DEF ExistsBijection
<1>4. IsFiniteSet(1..Len(s)) /\ Cardinality(1..Len(s)) = Len(s)
  BY <1>1, FS_Interval
<1> QED BY <1>3, <1>4, FS_Bijection
=============================================================================

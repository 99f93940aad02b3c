------------------------------ MODULE SeqLemmas ------------------------------
(***************************************************************************)
(* Facts about sequences without repetitions, the shape of the kernel's    *)
(* linked lists: what linking and unlinking an element does to the set of  *)
(* the elements.                                                           *)
(***************************************************************************)
EXTENDS Integers, Sequences, SequencesExt, SequenceTheorems, TLAPS

\* Appending a new element.
LEMMA AppendContains ==
  ASSUME NEW S, NEW s \in Seq(S), NEW e \in S
  PROVE  /\ \A x : Contains(Append(s, e), x) <=> Contains(s, x) \/ x = e
         /\ IsInjective(s) /\ ~Contains(s, e) => IsInjective(Append(s, e))
<1>1. \A x : Contains(Append(s, e), x) <=> Contains(s, x) \/ x = e
  BY AppendProperties DEF Contains
<1>2. IsInjective(s) /\ ~Contains(s, e) => IsInjective(Append(s, e))
  BY AppendProperties, LenProperties DEF Contains, IsInjective
<1> QED BY <1>1, <1>2

\* Dropping the head.
LEMMA TailContains ==
  ASSUME NEW S, NEW s \in Seq(S), s # << >>, IsInjective(s)
  PROVE  /\ \A x : Contains(Tail(s), x) <=> Contains(s, x) /\ x # Head(s)
         /\ IsInjective(Tail(s))
         /\ Contains(s, Head(s))
<1>1. /\ Len(s) \in Nat /\ Len(s) > 0 /\ DOMAIN s = 1..Len(s) /\ Head(s) = s[1]
      /\ Tail(s) \in Seq(S)
      /\ Len(Tail(s)) = Len(s) - 1
      /\ \A i \in 1..Len(Tail(s)) : Tail(s)[i] = s[i + 1]
  BY HeadTailProperties, LenProperties, EmptySeq
<1>2. ASSUME NEW x
      PROVE  Contains(Tail(s), x) <=> Contains(s, x) /\ x # Head(s)
  <2>1. ASSUME Contains(Tail(s), x) PROVE Contains(s, x) /\ x # Head(s)
    BY <1>1, <2>1 DEF Contains, IsInjective
  <2>2. ASSUME Contains(s, x), x # Head(s) PROVE Contains(Tail(s), x)
    <3>1. PICK i \in 1..Len(s) : s[i] = x
      BY <2>2 DEF Contains
    <3>2. i - 1 \in 1..Len(Tail(s)) /\ Tail(s)[i - 1] = x
      BY <1>1, <2>2, <3>1
    <3> QED BY <3>2 DEF Contains
  <2> QED BY <2>1, <2>2
<1>3. IsInjective(Tail(s))
  BY <1>1, LenProperties DEF IsInjective
<1> QED BY <1>1, <1>2, <1>3 DEF Contains

\* Removing an element from the middle.
LEMMA RemoveContains ==
  ASSUME NEW S, NEW s \in Seq(S), NEW e, Contains(s, e), IsInjective(s)
  PROVE  /\ RemoveFirst(s, e) \in Seq(S)
         /\ \A x : Contains(RemoveFirst(s, e), x) <=> Contains(s, x) /\ x # e
         /\ IsInjective(RemoveFirst(s, e))
<1>1. Len(s) \in Nat /\ DOMAIN s = 1..Len(s) /\ \A i \in 1..Len(s) : s[i] \in S
  BY LenProperties, ElementOfSeq
<1>2. PICK n \in 1..Len(s) : s[n] = e
  BY DEF Contains
<1>3. {i \in 1..Len(s) : s[i] = e} = {n}
  BY <1>1, <1>2 DEF IsInjective
<1>4. Min({n}) = n
  BY DEF Min
<1>5. RemoveFirst(s, e) = SubSeq(s, 1, n - 1) \o SubSeq(s, n + 1, Len(s))
  BY <1>2, <1>3, <1>4, Zenon DEF RemoveFirst, RemoveAt, SelectInSeq
<1> DEFINE l == SubSeq(s, 1, n - 1)
           r == SubSeq(s, n + 1, Len(s))
<1>6. /\ l \in Seq(S) /\ Len(l) = n - 1
      /\ \A i \in 1..n - 1 : l[i] = s[i]
  <2>1. 1 \in Int /\ n - 1 \in Int /\ \A i \in 1..n - 1 : s[i] \in S
    BY <1>1
  <2>2. /\ l \in Seq(S)
        /\ Len(l) = IF 1 <= n - 1 THEN (n - 1) - 1 + 1 ELSE 0
        /\ \A i \in 1..(n - 1) - 1 + 1 : l[i] = s[1 + i - 1]
    BY <2>1, SubSeqProperties
  <2> HIDE DEF l
  <2> QED BY <2>2, <1>1
<1>7. /\ r \in Seq(S) /\ Len(r) = Len(s) - n
      /\ \A i \in 1..Len(s) - n : r[i] = s[n + i]
  <2>1. n + 1 \in Int /\ Len(s) \in Int /\ \A i \in n + 1..Len(s) : s[i] \in S
    BY <1>1
  <2>2. /\ r \in Seq(S)
        /\ Len(r) = IF n + 1 <= Len(s) THEN Len(s) - (n + 1) + 1 ELSE 0
        /\ \A i \in 1..Len(s) - (n + 1) + 1 : r[i] = s[(n + 1) + i - 1]
    BY <2>1, SubSeqProperties, SMTT(30)
  <2> HIDE DEF r
  <2>3. Len(r) = Len(s) - n
    <3>1. Len(r) = IF n + 1 <= Len(s) THEN Len(s) - (n + 1) + 1 ELSE 0
      BY <2>2
    <3>2. Len(s) \in Nat /\ n \in 1..Len(s)
      BY <1>1
    <3> QED BY <3>1, <3>2
  <2>4. ASSUME NEW i \in 1..Len(s) - n PROVE r[i] = s[n + i]
    <3>1. i \in 1..Len(s) - (n + 1) + 1 /\ (n + 1) + i - 1 = n + i
      BY <1>1
    <3> QED BY <2>2, <3>1
  <2> QED BY <2>2, <2>3, <2>4
<1> HIDE DEF l, r
<1> DEFINE w == l \o r
<1>8. /\ w \in Seq(S)
      /\ Len(w) = Len(s) - 1
      /\ \A i \in 1..Len(s) - 1 : w[i] = IF i < n THEN s[i] ELSE s[i + 1]
  <2>1. /\ w \in Seq(S)
        /\ Len(w) = Len(l) + Len(r)
        /\ \A i \in 1..Len(l) + Len(r) :
             w[i] = IF i <= Len(l) THEN l[i] ELSE r[i - Len(l)]
    BY <1>6, <1>7, ConcatProperties, Zenon
  <2>2. Len(l) + Len(r) = Len(s) - 1
    BY <1>1, <1>6, <1>7
  <2>3. ASSUME NEW i \in 1..Len(s) - 1, i < n PROVE w[i] = s[i]
    BY <1>1, <1>6, <2>1, <2>2, <2>3
  <2>4. ASSUME NEW i \in 1..Len(s) - 1, ~(i < n) PROVE w[i] = s[i + 1]
    <3>1. ~(i <= Len(l)) /\ i - Len(l) \in 1..Len(s) - n /\ n + (i - Len(l)) = i + 1
      BY <1>1, <1>6, <2>4
    <3> QED BY <1>7, <2>1, <2>2, <3>1, Zenon
  <2> QED BY <2>1, <2>2, <2>3, <2>4
<1> HIDE DEF w
<1>9. ASSUME NEW x PROVE Contains(w, x) <=> Contains(s, x) /\ x # e
  <2>1. ASSUME Contains(w, x) PROVE Contains(s, x) /\ x # e
    <3>1. PICK i \in 1..Len(s) - 1 : w[i] = x
      BY <2>1, <1>8 DEF Contains
    <3>2. CASE i < n
      <4>1. i \in 1..Len(s) /\ i # n /\ s[i] = x
        BY <3>1, <3>2, <1>1, <1>8
      <4> QED BY <4>1, <1>1, <1>2 DEF Contains, IsInjective
    <3>3. CASE i >= n
      <4>1. i + 1 \in 1..Len(s) /\ i + 1 # n /\ s[i + 1] = x
        BY <3>1, <3>3, <1>1, <1>8
      <4> QED BY <4>1, <1>1, <1>2 DEF Contains, IsInjective
    <3> QED BY <3>2, <3>3, <1>1
  <2>2. ASSUME Contains(s, x), x # e PROVE Contains(w, x)
    <3>1. PICK i \in 1..Len(s) : s[i] = x
      BY <2>2 DEF Contains
    <3>2. CASE i < n
      BY <3>1, <3>2, <1>1, <1>8 DEF Contains
    <3>3. CASE i > n
      <4>1. i - 1 \in 1..Len(s) - 1 /\ w[i - 1] = x
        BY <3>1, <3>3, <1>1, <1>8
      <4> QED BY <4>1, <1>8 DEF Contains
    <3> QED BY <3>1, <3>2, <3>3, <2>2, <1>2
  <2> QED BY <2>1, <2>2
<1>10. IsInjective(w)
  <2>1. DOMAIN w = 1..Len(s) - 1
    BY <1>8, LenProperties
  <2> DEFINE old(i) == IF i < n THEN i ELSE i + 1
  <2>2. \A i \in 1..Len(s) - 1 : old(i) \in 1..Len(s) /\ w[i] = s[old(i)]
    BY <1>1, <1>8
  <2>3. \A i, j \in 1..Len(s) - 1 : old(i) = old(j) => i = j
    BY <1>1
  <2> HIDE DEF old
  <2> QED BY <2>1, <2>2, <2>3, <1>1 DEF IsInjective
<1> QED BY <1>5, <1>8, <1>9, <1>10, Zenon DEF w, l, r

\* Concatenating two sequences that have nothing in common.
LEMMA ConcatContains ==
  ASSUME NEW S, NEW s \in Seq(S), NEW r \in Seq(S)
  PROVE  /\ \A x : Contains(s \o r, x) <=> Contains(s, x) \/ Contains(r, x)
         /\ IsInjective(s) /\ IsInjective(r) /\ (\A x \in S : ~(Contains(s, x) /\ Contains(r, x)))
              => IsInjective(s \o r)
<1>1. /\ s \o r \in Seq(S) /\ Len(s) \in Nat /\ Len(r) \in Nat
      /\ Len(s \o r) = Len(s) + Len(r)
      /\ DOMAIN s = 1..Len(s) /\ DOMAIN r = 1..Len(r)
      /\ DOMAIN (s \o r) = 1..Len(s) + Len(r)
      /\ \A i \in 1..Len(s) + Len(r) :
           (s \o r)[i] = IF i <= Len(s) THEN s[i] ELSE r[i - Len(s)]
  BY ConcatProperties, LenProperties
<1>2. ASSUME NEW x PROVE Contains(s \o r, x) <=> Contains(s, x) \/ Contains(r, x)
  <2>1. ASSUME Contains(s \o r, x) PROVE Contains(s, x) \/ Contains(r, x)
    <3>1. PICK i \in 1..Len(s) + Len(r) : (s \o r)[i] = x
      BY <1>1, <2>1 DEF Contains
    <3>2. i <= Len(s) \/ i - Len(s) \in 1..Len(r)
      BY <1>1
    <3> QED BY <1>1, <3>1, <3>2 DEF Contains
  <2>2. ASSUME Contains(s, x) PROVE Contains(s \o r, x)
    BY <1>1, <2>2 DEF Contains
  <2>3. ASSUME Contains(r, x) PROVE Contains(s \o r, x)
    <3>1. PICK i \in 1..Len(r) : r[i] = x
      BY <2>3 DEF Contains
    <3>2. Len(s) + i \in 1..Len(s \o r) /\ (s \o r)[Len(s) + i] = x
      BY <1>1, <3>1
    <3> QED BY <3>2 DEF Contains
  <2> QED BY <2>1, <2>2, <2>3
<1>3. ASSUME IsInjective(s), IsInjective(r), \A x \in S : ~(Contains(s, x) /\ Contains(r, x)),
             NEW i \in 1..Len(s) + Len(r), NEW j \in 1..Len(s) + Len(r),
             (s \o r)[i] = (s \o r)[j]
      PROVE  i = j
  <2>1. CASE i <= Len(s) /\ j <= Len(s)
    BY <1>1, <1>3, <2>1 DEF IsInjective
  <2>2. CASE i > Len(s) /\ j > Len(s)
    <3>1. i - Len(s) \in 1..Len(r) /\ j - Len(s) \in 1..Len(r)
      BY <1>1, <2>2
    <3>2. i - Len(s) = j - Len(s)
      BY <1>1, <1>3, <2>2, <3>1, SMTT(30) DEF IsInjective
    <3> QED BY <1>1, <3>2
  <2>3. ASSUME NEW m \in 1..Len(s) + Len(r), NEW n \in 1..Len(s) + Len(r),
               m <= Len(s), n > Len(s), (s \o r)[m] = (s \o r)[n]
        PROVE  FALSE
    <3>1. n - Len(s) \in 1..Len(r) /\ s[m] = r[n - Len(s)] /\ m \in 1..Len(s)
      BY <1>1, <2>3
    <3>2. Contains(s, s[m]) /\ Contains(r, s[m]) /\ s[m] \in S
      BY <3>1, ElementOfSeq DEF Contains
    <3> QED BY <1>3, <3>2
  <2> QED BY <2>1, <2>2, <2>3, <1>1, <1>3
<1> QED BY <1>1, <1>2, <1>3 DEF IsInjective
=============================================================================

----------------------------- MODULE ListsProofs -----------------------------
(***************************************************************************)
(* What the operations on lists do, for lists of any length: the lemmas    *)
(* that the proofs about the kernel and about the timers share.            *)
(***************************************************************************)
EXTENDS Lists, SequenceTheorems, FiniteSetTheorems, WellFoundedInduction, TLAPS

-----------------------------------------------------------------------------
(* Natural numbers.                                                        *)

\* A set of numbers has a least one.
LEMMA LeastElement ==
    ASSUME NEW B \in SUBSET Nat, B # {}
    PROVE  \E m \in B : \A q \in B : m <= q
<1>1. PICK m \in B : \A q \in B : <<q, m>> \notin OpToRel(<, Nat)
  <2>1. IsWellFoundedOn(OpToRel(<, Nat), Nat)  BY NatLessThanWellFounded
  <2> HIDE DEF OpToRel
  <2> QED BY <2>1, WFMin
<1>2. ASSUME NEW q \in B PROVE m <= q
  <2>1. <<q, m>> \in Nat \X Nat /\ <<q, m>>[1] = q /\ <<q, m>>[2] = m
    OBVIOUS
  <2>2. ~(q < m)
    BY <1>1, <2>1 DEF OpToRel
  <2> QED BY <2>2
<1> QED BY <1>2

\* Induction up to n: a set of numbers that contains 0, and with i also i + 1.
LEMMA InductionUpTo ==
    ASSUME NEW n \in Nat, NEW G, 0 \in G,
           \A i \in 0 .. n - 1 : i \in G => i + 1 \in G
    PROVE  0 .. n \subseteq G
<1> SUFFICES ASSUME (0 .. n) \ G # {} PROVE FALSE
  OBVIOUS
<1>1. PICK m \in (0 .. n) \ G : \A q \in (0 .. n) \ G : m <= q
  <2>1. (0 .. n) \ G \in SUBSET Nat  OBVIOUS
  <2> QED BY <2>1, LeastElement
<1>2. m # 0 /\ m - 1 \in 0 .. n - 1 /\ (m - 1) + 1 = m /\ ~(m <= m - 1)
  BY <1>1
<1>3. m - 1 \in G
  BY <1>1, <1>2
<1> QED BY <1>1, <1>2, <1>3

\* An index that has gone round the end of a ring of S places, once at most.
LEMMA RingIndex ==
    ASSUME NEW S \in Nat \ {0}, NEW x \in Int
    PROVE  /\ x % S \in 0..S - 1
           /\ 0 <= x /\ x < S => x % S = x
           /\ S <= x /\ x < 2 * S => x % S = x - S
           /\ -S <= x /\ x < 0 => x % S = x + S
OBVIOUS

-----------------------------------------------------------------------------
(* Sequences without repetition.                                           *)

\* Taking element i out of a sequence.
LEMMA RemoveAtElements ==
    ASSUME NEW S, NEW s \in Seq(S), NEW i \in 1 .. Len(s)
    PROVE  /\ RemoveAt(s, i) \in Seq(S)
           /\ Len(RemoveAt(s, i)) = Len(s) - 1
           /\ \A j \in 1 .. Len(s) - 1 :
                  RemoveAt(s, i)[j] = IF j < i THEN s[j] ELSE s[j + 1]
<1> DEFINE f == SubSeq(s, 1, i - 1)
           g == SubSeq(s, i + 1, Len(s))
<1>0. Len(s) \in Nat /\ DOMAIN s = 1 .. Len(s) /\ s \in [1 .. Len(s) -> S] /\ i \in Nat
  BY LenProperties
<1>1. /\ f \in Seq(S) /\ Len(f) = i - 1
      /\ \A j \in 1 .. i - 1 : f[j] = s[j]
  BY <1>0, SubSeqProperties
<1>2. /\ g \in Seq(S) /\ Len(g) = Len(s) - i
      /\ \A j \in 1 .. Len(s) - i : g[j] = s[i + j]
  <2>1. \A j \in i + 1 .. Len(s) : s[j] \in S
    BY <1>0
  <2>2. /\ g \in Seq(S)
        /\ Len(g) = IF i + 1 <= Len(s) THEN Len(s) - (i + 1) + 1 ELSE 0
        /\ \A j \in 1 .. Len(s) - (i + 1) + 1 : g[j] = s[(i + 1) + j - 1]
    BY <1>0, <2>1, SubSeqProperties
  <2>3. Len(s) - (i + 1) + 1 = Len(s) - i
    BY <1>0
  <2> HIDE DEF g
  <2>4. Len(g) = Len(s) - i
    <3>1. Len(g) = IF i + 1 <= Len(s) THEN Len(s) - i ELSE 0  BY <2>2, <2>3
    <3>2. \A n \in Nat : \A m \in 1 .. n : (IF m + 1 <= n THEN n - m ELSE 0) = n - m
      OBVIOUS
    <3> QED BY <1>0, <3>1, <3>2
  <2>5. ASSUME NEW j \in 1 .. Len(s) - i PROVE g[j] = s[i + j]
    <3>1. j \in 1 .. Len(s) - (i + 1) + 1 /\ (i + 1) + j - 1 = i + j  BY <1>0
    <3> QED BY <2>2, <3>1
  <2> QED BY <2>2, <2>4, <2>5
<1> HIDE DEF f, g
<1>3. /\ f \o g \in Seq(S) /\ Len(f \o g) = Len(f) + Len(g)
      /\ \A j \in 1 .. Len(f) + Len(g) :
             (f \o g)[j] = IF j <= Len(f) THEN f[j] ELSE g[j - Len(f)]
  BY <1>1, <1>2, ConcatProperties
<1>4. Len(f) + Len(g) = Len(s) - 1
  BY <1>0, <1>1, <1>2
<1>5. ASSUME NEW j \in 1 .. Len(s) - 1
      PROVE  (f \o g)[j] = IF j < i THEN s[j] ELSE s[j + 1]
  <2>0. (f \o g)[j] = IF j <= i - 1 THEN f[j] ELSE g[j - (i - 1)]
    BY <1>1, <1>3, <1>4
  <2>1. CASE j < i
    <3>1. j <= i - 1 /\ j \in 1 .. i - 1  BY <2>1, <1>0
    <3> QED BY <2>0, <2>1, <3>1, <1>1
  <2>2. CASE ~(j < i)
    <3>1. ~(j <= i - 1) /\ j - (i - 1) \in 1 .. Len(s) - i
      BY <2>2, <1>0
    <3>2. g[j - (i - 1)] = s[i + (j - (i - 1))]
      BY <3>1, <1>2
    <3>3. i + (j - (i - 1)) = j + 1  BY <1>0
    <3> QED BY <2>0, <2>2, <3>1, <3>2, <3>3
  <2> QED BY <2>1, <2>2
<1>6. Len(f \o g) = Len(s) - 1
  BY <1>3, <1>4
<1> QED BY <1>3, <1>5, <1>6 DEF RemoveAt, f, g

\* rt_list_remove on one list: exactly the node goes.
LEMMA WithoutElements ==
    ASSUME NEW S, NEW s \in Seq(S), IsInjective(s), NEW t
    PROVE  /\ Without(s, t) \in Seq(S)
           /\ IsInjective(Without(s, t))
           /\ ToSet(Without(s, t)) = ToSet(s) \ {t}
           /\ t \notin ToSet(s) => Without(s, t) = s
<1>1. CASE t \notin ToSet(s)
  BY <1>1 DEF Without
<1>2. CASE t \in ToSet(s)
  <2> DEFINE i == CHOOSE i \in DOMAIN s : s[i] = t
             r == RemoveAt(s, i)
  <2>1. DOMAIN s = 1 .. Len(s) /\ Len(s) \in Nat
    BY LenProperties
  <2>2. i \in 1 .. Len(s) /\ s[i] = t
    BY <1>2, <2>1 DEF ToSet
  <2> HIDE DEF i
  <2>3. /\ r \in Seq(S) /\ Len(r) = Len(s) - 1 /\ DOMAIN r = 1 .. Len(s) - 1
        /\ \A j \in 1 .. Len(s) - 1 : r[j] = IF j < i THEN s[j] ELSE s[j + 1]
    <3>1. /\ r \in Seq(S) /\ Len(r) = Len(s) - 1
          /\ \A j \in 1 .. Len(s) - 1 : r[j] = IF j < i THEN s[j] ELSE s[j + 1]
      BY <2>2, RemoveAtElements
    <3> QED BY <3>1, LenProperties
  <2>4. Without(s, t) = r
    BY <1>2 DEF Without, i
  <2> HIDE DEF r
  <2>5. IsInjective(r)
    <3> SUFFICES ASSUME NEW m \in 1 .. Len(s) - 1, NEW n \in 1 .. Len(s) - 1,
                        r[m] = r[n]
                 PROVE  m = n
      BY <2>3 DEF IsInjective
    <3> DEFINE at(x) == IF x < i THEN x ELSE x + 1
    <3>1. r[m] = s[at(m)] /\ r[n] = s[at(n)]
      BY <2>3
    <3>2. at(m) \in DOMAIN s /\ at(n) \in DOMAIN s
      BY <2>1, <2>2
    <3>3. at(m) = at(n)
      <4> HIDE DEF at
      <4> QED BY <3>1, <3>2 DEF IsInjective
    <3> QED BY <3>3, <2>1, <2>2
  <2>6. ToSet(r) \subseteq ToSet(s) \ {t}
    <3> SUFFICES ASSUME NEW j \in 1 .. Len(s) - 1
                 PROVE  r[j] \in ToSet(s) /\ r[j] # t
      BY <2>3 DEF ToSet
    <3> DEFINE n == IF j < i THEN j ELSE j + 1
    <3>1. r[j] = s[n]  BY <2>3
    <3>2. n \in DOMAIN s /\ n # i /\ i \in DOMAIN s  BY <2>1, <2>2
    <3> HIDE DEF n
    <3> QED BY <3>1, <3>2, <2>2 DEF IsInjective, ToSet
  <2>7. ToSet(s) \ {t} \subseteq ToSet(r)
    <3> SUFFICES ASSUME NEW j \in 1 .. Len(s), s[j] # t
                 PROVE  \E m \in 1 .. Len(s) - 1 : r[m] = s[j]
      <4>1. DOMAIN r = 1 .. Len(s) - 1  BY <2>3
      <4> QED BY <2>1, <4>1 DEF ToSet
    <3>1. CASE j < i
      <4>1. j \in 1 .. Len(s) - 1 /\ r[j] = s[j]  BY <3>1, <2>1, <2>2, <2>3
      <4> QED BY <4>1
    <3>2. CASE j > i
      <4>1. j - 1 \in 1 .. Len(s) - 1 /\ r[j - 1] = s[j]  BY <3>2, <2>1, <2>2, <2>3
      <4> QED BY <4>1
    <3> QED BY <3>1, <3>2, <2>1, <2>2
  <2> QED BY <1>2, <2>3, <2>4, <2>5, <2>6, <2>7
<1> QED BY <1>1, <1>2

\* Linking a node at the tail.
LEMMA AppendElements ==
    ASSUME NEW S, NEW s \in Seq(S), IsInjective(s), NEW t \in S, t \notin ToSet(s)
    PROVE  /\ Append(s, t) \in Seq(S)
           /\ IsInjective(Append(s, t))
           /\ ToSet(Append(s, t)) = ToSet(s) \cup {t}
           /\ Append(s, t) # << >>
<1> DEFINE r == Append(s, t)
<1>1. /\ r \in Seq(S) /\ Len(r) = Len(s) + 1 /\ DOMAIN r = 1 .. Len(s) + 1
      /\ r[Len(s) + 1] = t /\ \A j \in 1 .. Len(s) : r[j] = s[j]
      /\ DOMAIN s = 1 .. Len(s) /\ Len(s) \in Nat
  BY AppendProperties, LenProperties
<1> HIDE DEF r
<1>2. ASSUME NEW j \in 1 .. Len(s) + 1
      PROVE  j \in 1 .. Len(s) \/ j = Len(s) + 1
  BY <1>1
<1>3. \A j \in 1 .. Len(s) : s[j] # t
  BY <1>1 DEF ToSet
<1>4. IsInjective(r)
  <2> SUFFICES ASSUME NEW m \in 1 .. Len(s) + 1, NEW n \in 1 .. Len(s) + 1,
                      r[m] = r[n]
               PROVE  m = n
    BY <1>1 DEF IsInjective
  <2>1. CASE m \in 1 .. Len(s) /\ n \in 1 .. Len(s)
    BY <2>1, <1>1 DEF IsInjective
  <2>2. CASE m = Len(s) + 1 \/ n = Len(s) + 1
    BY <2>2, <1>1, <1>2, <1>3
  <2> QED BY <2>1, <2>2, <1>2
<1>6. ToSet(r) = ToSet(s) \cup {t}
  <2>1. ASSUME NEW j \in 1 .. Len(s) + 1 PROVE r[j] \in ToSet(s) \cup {t}
    BY <1>1, <1>2 DEF ToSet
  <2>2. t \in ToSet(r)
    <3>1. Len(s) + 1 \in DOMAIN r  BY <1>1
    <3> QED BY <1>1, <3>1 DEF ToSet
  <2>3. ASSUME NEW j \in 1 .. Len(s) PROVE s[j] \in ToSet(r)
    <3>1. j \in DOMAIN r  BY <1>1
    <3> QED BY <1>1, <3>1 DEF ToSet
  <2> QED BY <1>1, <2>1, <2>2, <2>3 DEF ToSet
<1>5. r # << >>
  BY <1>1, EmptySeq
<1> QED BY <1>1, <1>4, <1>5, <1>6 DEF r

\* Linking a node at the head.
LEMMA PrependElements ==
    ASSUME NEW S, NEW s \in Seq(S), IsInjective(s), NEW t \in S, t \notin ToSet(s)
    PROVE  /\ <<t>> \o s \in Seq(S)
           /\ IsInjective(<<t>> \o s)
           /\ ToSet(<<t>> \o s) = ToSet(s) \cup {t}
<1> DEFINE r == <<t>> \o s
<1>1. <<t>> \in Seq(S) /\ Len(<<t>>) = 1 /\ <<t>>[1] = t
  OBVIOUS
<1>2. /\ DOMAIN s = 1 .. Len(s) /\ Len(s) \in Nat
      /\ r \in Seq(S) /\ Len(r) = 1 + Len(s)
      /\ \A j \in 1 .. 1 + Len(s) :
             r[j] = IF j <= 1 THEN <<t>>[j] ELSE s[j - 1]
  BY <1>1, ConcatProperties, LenProperties
<1> HIDE DEF r
<1>3. DOMAIN r = 1 .. Len(s) + 1 /\ r[1] = t
  <2>1. DOMAIN r = 1 .. Len(r)  BY <1>2, LenProperties
  <2> QED BY <1>1, <1>2, <2>1
<1>4. ASSUME NEW j \in 1 .. Len(s) + 1
      PROVE  j = 1 \/ (j - 1 \in 1 .. Len(s) /\ r[j] = s[j - 1])
  BY <1>2
<1>5. \A j \in 1 .. Len(s) : s[j] # t
  BY <1>2 DEF ToSet
<1>6. IsInjective(r)
  <2> SUFFICES ASSUME NEW m \in 1 .. Len(s) + 1, NEW n \in 1 .. Len(s) + 1,
                      r[m] = r[n]
               PROVE  m = n
    BY <1>3 DEF IsInjective
  <2>1. CASE m # 1 /\ n # 1
    <3>1. /\ m - 1 \in DOMAIN s /\ n - 1 \in DOMAIN s
          /\ s[m - 1] = s[n - 1]
      BY <2>1, <1>2, <1>4
    <3>2. m - 1 = n - 1
      BY <3>1 DEF IsInjective
    <3> QED BY <3>2, <1>2
  <2>2. CASE m = 1 \/ n = 1
    BY <2>2, <1>3, <1>4, <1>5
  <2> QED BY <2>1, <2>2
<1>7. ToSet(r) = ToSet(s) \cup {t}
  <2>1. ASSUME NEW j \in 1 .. Len(s) + 1 PROVE r[j] \in ToSet(s) \cup {t}
    BY <1>2, <1>3, <1>4 DEF ToSet
  <2>2. t \in ToSet(r)
    <3>1. 1 \in DOMAIN r  BY <1>2, <1>3
    <3> QED BY <1>3, <3>1 DEF ToSet
  <2>3. ASSUME NEW j \in 1 .. Len(s) PROVE s[j] \in ToSet(r)
    <3>1. j + 1 \in 1 .. Len(s) + 1 /\ ~(j + 1 <= 1) /\ (j + 1) - 1 = j  BY <1>2
    <3>2. r[j + 1] = s[j]  BY <1>2, <3>1
    <3> QED BY <1>3, <3>1, <3>2 DEF ToSet
  <2> QED BY <1>2, <1>3, <2>1, <2>2, <2>3 DEF ToSet
<1> QED BY <1>2, <1>6, <1>7 DEF r

\* Linking a node before another one, or at the tail.
LEMMA InsertAtElements ==
    ASSUME NEW S, NEW s \in Seq(S), NEW i \in 1 .. Len(s) + 1, NEW t \in S
    PROVE  /\ InsertAt(s, i, t) \in Seq(S)
           /\ Len(InsertAt(s, i, t)) = Len(s) + 1
           /\ DOMAIN InsertAt(s, i, t) = 1 .. Len(s) + 1
           /\ \A j \in 1 .. Len(s) + 1 :
                  InsertAt(s, i, t)[j] = IF j < i THEN s[j]
                                         ELSE IF j = i THEN t ELSE s[j - 1]
<1> DEFINE f == SubSeq(s, 1, i - 1)
           g == SubSeq(s, i, Len(s))
           h == f \o <<t>>
<1>0. /\ Len(s) \in Nat /\ DOMAIN s = 1 .. Len(s) /\ i \in Nat
      /\ \A j \in 1 .. Len(s) : s[j] \in S
  BY LenProperties
<1>1. /\ f \in Seq(S) /\ Len(f) = i - 1
      /\ \A j \in 1 .. i - 1 : f[j] = s[j]
  <2>1. \A j \in 1 .. i - 1 : s[j] \in S
    BY <1>0
  <2> QED BY <1>0, <2>1, SubSeqProperties
<1>2. /\ g \in Seq(S)
      /\ Len(g) = IF i <= Len(s) THEN Len(s) - i + 1 ELSE 0
      /\ \A j \in 1 .. Len(s) - i + 1 : g[j] = s[i + j - 1]
  <2>1. \A j \in i .. Len(s) : s[j] \in S
    BY <1>0
  <2> QED BY <1>0, <2>1, SubSeqProperties
<1>3. Len(g) = Len(s) - i + 1
  BY <1>0, <1>2
<1> HIDE DEF f, g
<1>4. /\ h \in Seq(S) /\ Len(h) = i
      /\ \A j \in 1 .. i : h[j] = IF j < i THEN s[j] ELSE t
  <2>1. <<t>> \in Seq(S) /\ Len(<<t>>) = 1 /\ <<t>>[1] = t
    OBVIOUS
  <2>2. /\ h \in Seq(S) /\ Len(h) = Len(f) + 1
        /\ \A j \in 1 .. Len(f) + 1 :
               h[j] = IF j <= Len(f) THEN f[j] ELSE <<t>>[j - Len(f)]
    BY <1>1, <2>1, ConcatProperties
  <2> HIDE DEF h
  <2>3. ASSUME NEW j \in 1 .. i PROVE h[j] = IF j < i THEN s[j] ELSE t
    <3>1. CASE j < i
      <4>1. j \in 1 .. i - 1 /\ j <= Len(f) /\ j \in 1 .. Len(f) + 1
        BY <1>0, <1>1, <3>1
      <4> QED BY <1>1, <2>2, <3>1, <4>1
    <3>2. CASE ~(j < i)
      <4>1. ~(j <= Len(f)) /\ j \in 1 .. Len(f) + 1 /\ j - Len(f) = 1
        BY <1>0, <1>1, <3>2
      <4> QED BY <2>1, <2>2, <3>2, <4>1
    <3> QED BY <3>1, <3>2
  <2>4. Len(h) = i
    BY <1>0, <1>1, <2>2
  <2> QED BY <2>2, <2>3, <2>4
<1>5. InsertAt(s, i, t) = h \o g
  BY DEF InsertAt, f, g
<1> HIDE DEF h
<1>6. /\ h \o g \in Seq(S) /\ Len(h \o g) = Len(h) + Len(g)
      /\ \A j \in 1 .. Len(h) + Len(g) :
             (h \o g)[j] = IF j <= Len(h) THEN h[j] ELSE g[j - Len(h)]
  BY <1>2, <1>4, ConcatProperties
<1>7. Len(h) + Len(g) = Len(s) + 1
  BY <1>0, <1>3, <1>4
<1>8. ASSUME NEW j \in 1 .. Len(s) + 1
      PROVE  (h \o g)[j] = IF j < i THEN s[j] ELSE IF j = i THEN t ELSE s[j - 1]
  <2>1. CASE j <= i
    <3>1. j \in 1 .. i  BY <1>0, <2>1
    <3>2. (h \o g)[j] = h[j]  BY <1>4, <1>6, <1>7, <2>1
    <3> QED BY <1>0, <1>4, <2>1, <3>1, <3>2
  <2>2. CASE ~(j <= i)
    <3>1. j - i \in 1 .. Len(s) - i + 1 /\ i + (j - i) - 1 = j - 1
      BY <1>0, <2>2
    <3>2. (h \o g)[j] = g[j - i]  BY <1>4, <1>6, <1>7, <2>2
    <3>3. g[j - i] = s[j - 1]  BY <1>2, <3>1
    <3> QED BY <1>0, <2>2, <3>2, <3>3
  <2> QED BY <2>1, <2>2
<1>9. DOMAIN (h \o g) = 1 .. Len(s) + 1
  BY <1>6, <1>7, LenProperties
<1> QED BY <1>5, <1>6, <1>7, <1>8, <1>9

\* The list then holds the node as well, once.
LEMMA InsertAtHolds ==
    ASSUME NEW S, NEW s \in Seq(S), IsInjective(s), NEW i \in 1 .. Len(s) + 1,
           NEW t \in S, t \notin ToSet(s)
    PROVE  /\ InsertAt(s, i, t) \in Seq(S)
           /\ IsInjective(InsertAt(s, i, t))
           /\ ToSet(InsertAt(s, i, t)) = ToSet(s) \cup {t}
<1> DEFINE r == InsertAt(s, i, t)
           at(j) == IF j < i THEN j ELSE j - 1
<1>1. /\ r \in Seq(S) /\ DOMAIN r = 1 .. Len(s) + 1
      /\ \A j \in 1 .. Len(s) + 1 :
             r[j] = IF j < i THEN s[j] ELSE IF j = i THEN t ELSE s[j - 1]
      /\ DOMAIN s = 1 .. Len(s) /\ Len(s) \in Nat
  BY InsertAtElements, LenProperties
<1> HIDE DEF r
<1>2. \A j \in 1 .. Len(s) : s[j] # t /\ s[j] \in ToSet(s)
  BY <1>1 DEF ToSet
<1>3. r[i] = t
  BY <1>1
<1>4. ASSUME NEW j \in 1 .. Len(s) + 1, j # i
      PROVE  at(j) \in 1 .. Len(s) /\ r[j] = s[at(j)]
  BY <1>1, <1>4
<1>5. IsInjective(r)
  <2> SUFFICES ASSUME NEW m \in 1 .. Len(s) + 1, NEW n \in 1 .. Len(s) + 1,
                      r[m] = r[n]
               PROVE  m = n
    BY <1>1 DEF IsInjective
  <2>1. CASE m # i /\ n # i
    <3>1. at(m) \in DOMAIN s /\ at(n) \in DOMAIN s /\ s[at(m)] = s[at(n)]
      BY <1>1, <1>4, <2>1
    <3>2. at(m) = at(n)
      <4> HIDE DEF at
      <4> QED BY <3>1 DEF IsInjective
    <3> QED BY <1>1, <2>1, <3>2
  <2>2. CASE m = i \/ n = i
    <3> HIDE DEF at
    <3> QED BY <1>2, <1>3, <1>4, <2>2
  <2> QED BY <2>1, <2>2
<1>6. ToSet(r) \subseteq ToSet(s) \cup {t}
  <2> SUFFICES ASSUME NEW j \in 1 .. Len(s) + 1 PROVE r[j] \in ToSet(s) \cup {t}
    BY <1>1 DEF ToSet
  <2> HIDE DEF at
  <2> QED BY <1>2, <1>3, <1>4
<1>7. t \in ToSet(r)
  BY <1>1, <1>3 DEF ToSet
<1>8. ToSet(s) \subseteq ToSet(r)
  <2> SUFFICES ASSUME NEW j \in 1 .. Len(s)
               PROVE  \E m \in 1 .. Len(s) + 1 : r[m] = s[j]
    BY <1>1 DEF ToSet
  <2>1. CASE j < i
    BY <1>1, <2>1
  <2>2. CASE ~(j < i)
    <3>1. j + 1 \in 1 .. Len(s) + 1 /\ ~(j + 1 < i) /\ j + 1 # i /\ (j + 1) - 1 = j
      BY <1>1, <2>2
    <3> QED BY <1>1, <3>1
  <2> QED BY <2>1, <2>2
<1> QED BY <1>1, <1>5, <1>6, <1>7, <1>8 DEF r

\* The list gets shorter by the node that is taken out.
LEMMA WithoutLength ==
    ASSUME NEW S, NEW s \in Seq(S), NEW t \in ToSet(s)
    PROVE  Len(Without(s, t)) = Len(s) - 1
<1> DEFINE i == CHOOSE i \in DOMAIN s : s[i] = t
<1>1. i \in 1 .. Len(s)
  BY LenProperties DEF ToSet
<1>2. Without(s, t) = RemoveAt(s, i)
  BY DEF Without
<1> HIDE DEF i
<1> QED BY <1>1, <1>2, RemoveAtElements

\* A list in the order of a rank of its elements: the waiters of an object in
\* the order of their priorities, the timers in that of the ticks left.
SortedBy(s, rank) == \A i, j \in DOMAIN s : i < j => rank[s[i]] <= rank[s[j]]

\* Taking an element out keeps the order.
LEMMA WithoutOrder ==
    ASSUME NEW S, NEW s \in Seq(S), NEW t, NEW rank, SortedBy(s, rank)
    PROVE  SortedBy(Without(s, t), rank)
<1>1. CASE t \notin ToSet(s)
  BY <1>1 DEF Without
<1>2. CASE t \in ToSet(s)
  <2> DEFINE i == CHOOSE i \in DOMAIN s : s[i] = t
             r == RemoveAt(s, i)
             at(j) == IF j < i THEN j ELSE j + 1
  <2>0. DOMAIN s = 1 .. Len(s) /\ Len(s) \in Nat  BY LenProperties
  <2>1. i \in 1 .. Len(s)
    BY <1>2, <2>0 DEF ToSet
  <2>2. Without(s, t) = r
    BY <1>2 DEF Without
  <2> HIDE DEF i
  <2>3. /\ r \in Seq(S) /\ Len(r) = Len(s) - 1
        /\ \A j \in 1 .. Len(s) - 1 : r[j] = IF j < i THEN s[j] ELSE s[j + 1]
    BY <2>1, RemoveAtElements
  <2> HIDE DEF r
  <2>4. DOMAIN r = 1 .. Len(s) - 1
    BY <2>3, LenProperties
  <2> SUFFICES ASSUME NEW m \in 1 .. Len(s) - 1, NEW n \in 1 .. Len(s) - 1, m < n
               PROVE  rank[r[m]] <= rank[r[n]]
    BY <2>2, <2>4 DEF SortedBy
  <2>5. /\ at(m) \in DOMAIN s /\ at(n) \in DOMAIN s /\ at(m) < at(n)
        /\ r[m] = s[at(m)] /\ r[n] = s[at(n)]
    BY <2>0, <2>1, <2>3
  <2> HIDE DEF at
  <2> QED BY <2>5 DEF SortedBy
<1> QED BY <1>1, <1>2

\* The first of a list in order is outranked by nobody in it.
LEMMA HeadIsBest ==
    ASSUME NEW S, NEW s \in Seq(S), NEW rank, SortedBy(s, rank),
           \A u \in S : rank[u] \in Int, NEW u \in ToSet(s)
    PROVE  rank[Head(s)] <= rank[u]
<1>1. DOMAIN s = 1 .. Len(s) /\ Len(s) \in Nat /\ \A j \in DOMAIN s : s[j] \in S
  BY LenProperties
<1>2. PICK j \in DOMAIN s : u = s[j]
  BY DEF ToSet
<1>3. Head(s) = s[1] /\ 1 \in DOMAIN s
  BY <1>1, <1>2
<1>4. CASE j = 1
  BY <1>1, <1>2, <1>3, <1>4
<1>5. CASE j # 1
  BY <1>1, <1>2, <1>3, <1>5 DEF SortedBy
<1> QED BY <1>4, <1>5

\* A list is empty exactly when it links nothing.
LEMMA EmptyList ==
    ASSUME NEW S, NEW s \in Seq(S)
    PROVE  /\ s = << >> <=> ToSet(s) = {}
           /\ s # << >> => Head(s) \in ToSet(s)
<1>1. DOMAIN s = 1 .. Len(s) /\ Len(s) \in Nat  BY LenProperties
<1>2. s = << >> <=> Len(s) = 0  BY EmptySeq
<1>3. s # << >> => Head(s) = s[1] /\ 1 \in DOMAIN s
  BY <1>1, <1>2
<1>4. CASE s = << >>
  BY <1>1, <1>2, <1>4 DEF ToSet
<1>5. CASE s # << >>
  <2>1. s[1] \in ToSet(s)  BY <1>3, <1>5 DEF ToSet
  <2> QED BY <1>3, <1>5, <2>1
<1> QED BY <1>4, <1>5

\* There is a place before the first element of a set, or at the tail.
LEMMA PlaceExists ==
    ASSUME NEW S, NEW s \in Seq(S), NEW B \in SUBSET (1 .. Len(s))
    PROVE  \E i \in 1 .. Len(s) + 1 :
               /\ \A j \in 1 .. i - 1 : j \notin B
               /\ i <= Len(s) => i \in B
<1>1. Len(s) \in Nat
  BY LenProperties
<1>2. CASE B = {}
  <2>1. Len(s) + 1 \in 1 .. Len(s) + 1 /\ ~(Len(s) + 1 <= Len(s))  BY <1>1
  <2> QED BY <1>2, <2>1
<1>3. CASE B # {}
  <2>1. PICK i \in B : \A j \in B : i <= j
    <3>1. B \in SUBSET Nat  BY <1>1
    <3> QED BY <1>3, <3>1, LeastElement
  <2>2. i \in 1 .. Len(s) + 1
    BY <1>1, <2>1
  <2>3. ASSUME NEW j \in 1 .. i - 1 PROVE j \notin B
    <3>1. ~(i <= j)  BY <1>1, <2>1
    <3> QED BY <2>1, <3>1
  <2> QED BY <2>1, <2>2, <2>3
<1> QED BY <1>2, <1>3

\* An element that is put behind those that it does not rank before, and before
\* the first that it does, leaves the list in order.
LEMMA InsertInOrder ==
    ASSUME NEW S, NEW s \in Seq(S), NEW rank, NEW t \in S, SortedBy(s, rank),
           \A u \in ToSet(s) \cup {t} : rank[u] \in Int,
           NEW i \in 1 .. Len(s) + 1,
           \A j \in 1 .. i - 1 : rank[s[j]] <= rank[t],
           i <= Len(s) => rank[t] < rank[s[i]]
    PROVE  SortedBy(InsertAt(s, i, t), rank)
<1> DEFINE r == InsertAt(s, i, t)
<1>1. /\ DOMAIN r = 1 .. Len(s) + 1
      /\ \A j \in 1 .. Len(s) + 1 :
             r[j] = IF j < i THEN s[j] ELSE IF j = i THEN t ELSE s[j - 1]
  BY InsertAtElements
<1> HIDE DEF r
<1>2. DOMAIN s = 1 .. Len(s) /\ Len(s) \in Nat
  BY LenProperties
<1>3. rank[t] \in Int /\ \A j \in 1 .. Len(s) : rank[s[j]] \in Int
  BY <1>2 DEF ToSet
<1>4. ASSUME NEW j \in i .. Len(s) PROVE rank[t] <= rank[s[j]]
  <2>1. i \in 1 .. Len(s) /\ j \in 1 .. Len(s)
    BY <1>2
  <2>2. i = j \/ rank[s[i]] <= rank[s[j]]
    BY <1>2, <2>1 DEF SortedBy
  <2> QED BY <1>3, <2>1, <2>2
<1> SUFFICES ASSUME NEW m \in 1 .. Len(s) + 1, NEW n \in 1 .. Len(s) + 1, m < n
             PROVE  rank[r[m]] <= rank[r[n]]
  BY <1>1 DEF SortedBy, r
<1>5. CASE m = i
  <2>1. n - 1 \in i .. Len(s) /\ r[m] = t /\ r[n] = s[n - 1]
    BY <1>1, <1>2, <1>5
  <2> QED BY <1>4, <2>1
<1>6. CASE n = i
  <2>1. m \in 1 .. i - 1 /\ r[m] = s[m] /\ r[n] = t
    BY <1>1, <1>2, <1>6
  <2> QED BY <2>1
<1>7. CASE m # i /\ n # i
  <2> DEFINE at(j) == IF j < i THEN j ELSE j - 1
  <2>1. /\ at(m) \in DOMAIN s /\ at(n) \in DOMAIN s /\ at(m) < at(n)
        /\ r[m] = s[at(m)] /\ r[n] = s[at(n)]
    BY <1>1, <1>2, <1>7
  <2> HIDE DEF at
  <2> QED BY <2>1 DEF SortedBy
<1> QED BY <1>5, <1>6, <1>7

-----------------------------------------------------------------------------
(* Parts of a list: some of its elements, in their order.                  *)

PartOf(q, s) ==
    \E at \in [DOMAIN q -> DOMAIN s] :
        /\ \A i, j \in DOMAIN q : i < j => at[i] < at[j]
        /\ \A i \in DOMAIN q : q[i] = s[at[i]]

\* The elements of a part are elements of the list, as often at most.
LEMMA PartElements ==
    ASSUME NEW S, NEW s \in Seq(S), NEW q \in Seq(S), PartOf(q, s)
    PROVE  /\ ToSet(q) \subseteq ToSet(s)
           /\ IsInjective(s) => IsInjective(q)
<1>0. DOMAIN q = 1 .. Len(q) /\ DOMAIN s = 1 .. Len(s) /\ Len(q) \in Nat /\ Len(s) \in Nat
  BY LenProperties
<1>1. PICK at \in [DOMAIN q -> DOMAIN s] :
          /\ \A i, j \in DOMAIN q : i < j => at[i] < at[j]
          /\ \A i \in DOMAIN q : q[i] = s[at[i]]
  BY DEF PartOf
<1>2. \A i \in DOMAIN q : at[i] \in DOMAIN s /\ q[i] = s[at[i]]
  BY <1>1
<1>3. ToSet(q) \subseteq ToSet(s)
  BY <1>2 DEF ToSet
<1>4. ASSUME IsInjective(s), NEW i \in DOMAIN q, NEW j \in DOMAIN q, q[i] = q[j]
      PROVE  i = j
  <2>1. at[i] = at[j]
    BY <1>2, <1>4 DEF IsInjective
  <2>2. at[i] \in Int /\ i \in Int /\ j \in Int
    BY <1>0, <1>2
  <2>3. ~(i < j) /\ ~(j < i)
    BY <1>1, <2>1, <2>2
  <2> QED BY <2>2, <2>3
<1> QED BY <1>3, <1>4 DEF IsInjective

\* Cutting the elements from place p up to place n, n left in, out of a list.
LEMMA CutIsPart ==
    ASSUME NEW S, NEW s \in Seq(S), NEW p \in 1 .. Len(s) + 1, NEW n \in p .. Len(s) + 1
    PROVE  LET q == SubSeq(s, 1, p - 1) \o SubSeq(s, n, Len(s)) IN
           q \in Seq(S) /\ PartOf(q, s)
<1> DEFINE f == SubSeq(s, 1, p - 1)
           g == SubSeq(s, n, Len(s))
           q == f \o g
<1>0. Len(s) \in Nat /\ DOMAIN s = 1 .. Len(s) /\ p \in Nat /\ n \in Nat
      /\ \A j \in 1 .. Len(s) : s[j] \in S
  BY LenProperties
<1>1. f \in Seq(S) /\ Len(f) = p - 1 /\ \A j \in 1 .. p - 1 : f[j] = s[j]
  BY <1>0, SubSeqProperties
<1>2. /\ g \in Seq(S) /\ Len(g) = Len(s) - n + 1
      /\ \A j \in 1 .. Len(s) - n + 1 : g[j] = s[n + j - 1]
  <2>1. \A j \in n .. Len(s) : s[j] \in S
    BY <1>0
  <2>2. /\ g \in Seq(S)
        /\ Len(g) = IF n <= Len(s) THEN Len(s) - n + 1 ELSE 0
        /\ \A j \in 1 .. Len(s) - n + 1 : g[j] = s[n + j - 1]
    BY <1>0, <2>1, SubSeqProperties
  <2>3. (IF n <= Len(s) THEN Len(s) - n + 1 ELSE 0) = Len(s) - n + 1
    BY <1>0
  <2> QED BY <2>2, <2>3
<1> HIDE DEF f, g
<1>3. /\ q \in Seq(S) /\ Len(q) = Len(f) + Len(g)
      /\ \A j \in 1 .. Len(f) + Len(g) :
             q[j] = IF j <= Len(f) THEN f[j] ELSE g[j - Len(f)]
  BY <1>1, <1>2, ConcatProperties
<1>4. DOMAIN q = 1 .. Len(s) - n + p
  <2>1. Len(f) + Len(g) = Len(s) - n + p
    BY <1>0, <1>1, <1>2
  <2> QED BY <1>3, <2>1, LenProperties
<1> HIDE DEF q
<1> DEFINE at == [i \in DOMAIN q |-> IF i < p THEN i ELSE i - p + n]
<1>5. at \in [DOMAIN q -> DOMAIN s]
  BY <1>0, <1>4
<1>6. \A i, j \in DOMAIN q : i < j => at[i] < at[j]
  BY <1>0, <1>4
<1>7. ASSUME NEW i \in DOMAIN q PROVE q[i] = s[at[i]]
  <2>1. q[i] = IF i <= p - 1 THEN f[i] ELSE g[i - (p - 1)]
    <3>1. Len(f) + Len(g) = Len(s) - n + p
      BY <1>0, <1>1, <1>2
    <3>2. i \in 1 .. Len(f) + Len(g)
      BY <1>4, <3>1
    <3> QED BY <1>1, <1>3, <3>2
  <2>2. CASE i < p
    <3>1. i \in 1 .. p - 1 /\ i <= p - 1  BY <2>2, <1>0, <1>4
    <3> QED BY <2>1, <2>2, <3>1, <1>1
  <2>3. CASE ~(i < p)
    <3>1. ~(i <= p - 1) /\ i - (p - 1) \in 1 .. Len(s) - n + 1
      BY <2>3, <1>0, <1>4
    <3>2. n + (i - (p - 1)) - 1 = i - p + n
      BY <1>0, <1>4
    <3>3. g[i - (p - 1)] = s[n + (i - (p - 1)) - 1]
      BY <3>1, <1>2
    <3> QED BY <2>1, <2>3, <3>1, <3>2, <3>3
  <2> QED BY <2>2, <2>3
<1>8. PartOf(q, s)
  <2> HIDE DEF at
  <2> QED BY <1>5, <1>6, <1>7 DEF PartOf
<1> QED BY <1>3, <1>8 DEF q, f, g

\* Removing an element leaves a part.
LEMMA WithoutIsPart ==
    ASSUME NEW S, NEW s \in Seq(S), NEW t
    PROVE  Without(s, t) \in Seq(S) /\ PartOf(Without(s, t), s)
<1>0. DOMAIN s = 1 .. Len(s) /\ Len(s) \in Nat
  BY LenProperties
<1>1. CASE t \notin ToSet(s)
  <2> DEFINE at == [i \in DOMAIN s |-> i]
  <2>1. at \in [DOMAIN s -> DOMAIN s] /\ \A i \in DOMAIN s : at[i] = i
    OBVIOUS
  <2> HIDE DEF at
  <2>2. PartOf(s, s)
    BY <2>1 DEF PartOf
  <2> QED BY <1>1, <2>2 DEF Without
<1>2. CASE t \in ToSet(s)
  <2> DEFINE i == CHOOSE i \in DOMAIN s : s[i] = t
  <2>1. i \in 1 .. Len(s)
    BY <1>2, <1>0 DEF ToSet
  <2>2. Without(s, t) = RemoveAt(s, i)
    BY <1>2 DEF Without
  <2> HIDE DEF i
  <2>3. i \in 1 .. Len(s) + 1 /\ i + 1 \in i .. Len(s) + 1
    BY <2>1, <1>0
  <2> DEFINE n == i + 1
  <2> HIDE DEF n
  <2>4. LET q == SubSeq(s, 1, i - 1) \o SubSeq(s, n, Len(s)) IN q \in Seq(S) /\ PartOf(q, s)
    BY <2>3, CutIsPart DEF n
  <2>5. RemoveAt(s, i) = SubSeq(s, 1, i - 1) \o SubSeq(s, n, Len(s))
    BY DEF RemoveAt, n
  <2> QED BY <2>2, <2>4, <2>5
<1> QED BY <1>1, <1>2

-----------------------------------------------------------------------------
(* Sequences from one end or the other, and from a set.                    *)

\* Taking the first element out of a sequence.
LEMMA TailElements ==
    ASSUME NEW S, NEW l \in Seq(S), IsInjective(l), l # << >>
    PROVE  /\ Tail(l) \in Seq(S) /\ Head(l) \in S /\ Head(l) \in ToSet(l)
           /\ Len(Tail(l)) = Len(l) - 1 /\ IsInjective(Tail(l))
           /\ ToSet(Tail(l)) = ToSet(l) \ {Head(l)}
           /\ \A i \in 1 .. Len(l) - 1 : Tail(l)[i] = l[i + 1]
<1> DEFINE q == Tail(l)
<1>1. /\ q \in Seq(S) /\ Len(q) = Len(l) - 1 /\ Len(l) \in Nat \ {0}
      /\ \A i \in 1 .. Len(l) - 1 : q[i] = l[i + 1]
      /\ Head(l) = l[1] /\ Head(l) \in S
      /\ DOMAIN q = 1 .. Len(l) - 1 /\ DOMAIN l = 1 .. Len(l)
  OBVIOUS
<1> HIDE DEF q
<1>2. IsInjective(q)
  BY SMTT(30), <1>1 DEF IsInjective
<1>3. ToSet(q) \subseteq ToSet(l) \ {Head(l)}
  <2> SUFFICES ASSUME NEW x \in ToSet(q) PROVE x \in ToSet(l) \ {Head(l)}
    OBVIOUS
  <2>1. PICK i \in 1 .. Len(l) - 1 : x = q[i]
    BY <1>1 DEF ToSet
  <2>2. i + 1 \in 1 .. Len(l) /\ 1 \in 1 .. Len(l) /\ i + 1 # 1 /\ x = l[i + 1]
    BY <1>1, <2>1
  <2> QED BY <1>1, <2>2 DEF ToSet, IsInjective
<1>4. ASSUME NEW x \in ToSet(l) \ {Head(l)} PROVE x \in ToSet(q)
  <2>1. PICK i \in 1 .. Len(l) : x = l[i]
    BY <1>1, <1>4 DEF ToSet
  <2>2. i # 1
    BY <1>1, <1>4, <2>1
  <2>3. i - 1 \in 1 .. Len(l) - 1 /\ (i - 1) + 1 = i
    BY <1>1, <2>1, <2>2
  <2> QED BY <1>1, <2>1, <2>3 DEF ToSet
<1>5. Head(l) \in ToSet(l)
  BY <1>1 DEF ToSet
<1> QED BY <1>1, <1>2, <1>3, <1>4, <1>5 DEF q

\* Two sequences that have nothing in common, one behind the other.
LEMMA ConcatHolds ==
    ASSUME NEW S, NEW l \in Seq(S), NEW r \in Seq(S)
    PROVE  /\ l \o r \in Seq(S) /\ Len(l \o r) = Len(l) + Len(r)
           /\ ToSet(l \o r) = ToSet(l) \cup ToSet(r)
           /\ IsInjective(l) /\ IsInjective(r) /\ ToSet(l) \cap ToSet(r) = {}
                => IsInjective(l \o r)
<1> DEFINE c == l \o r
<1>1. /\ c \in Seq(S) /\ Len(c) = Len(l) + Len(r) /\ Len(l) \in Nat /\ Len(r) \in Nat
      /\ \A i \in 1 .. Len(l) + Len(r) : c[i] = IF i <= Len(l) THEN l[i] ELSE r[i - Len(l)]
      /\ DOMAIN c = 1 .. Len(l) + Len(r) /\ DOMAIN l = 1 .. Len(l) /\ DOMAIN r = 1 .. Len(r)
  OBVIOUS
<1> HIDE DEF c
<1>2. \A i \in 1 .. Len(l) : i \in 1 .. Len(l) + Len(r) /\ c[i] = l[i]
  BY <1>1
<1>3. ASSUME NEW i \in 1 .. Len(r) PROVE Len(l) + i \in DOMAIN c /\ c[Len(l) + i] = r[i]
  <2>1. Len(l) + i \in 1 .. Len(l) + Len(r) /\ ~(Len(l) + i <= Len(l)) /\ Len(l) + i - Len(l) = i
    BY <1>1
  <2> QED BY <1>1, <2>1
<1>4. \A i \in DOMAIN c : \/ i \in 1 .. Len(l) /\ c[i] = l[i]
                          \/ i - Len(l) \in 1 .. Len(r) /\ c[i] = r[i - Len(l)]
  BY <1>1
<1>5. ToSet(c) = ToSet(l) \cup ToSet(r)
  <2>1. ToSet(l) \subseteq ToSet(c)
    BY <1>1, <1>2 DEF ToSet
  <2>2. ToSet(r) \subseteq ToSet(c)
    <3> SUFFICES ASSUME NEW x \in ToSet(r) PROVE x \in ToSet(c)
      OBVIOUS
    <3>1. PICK i \in 1 .. Len(r) : x = r[i]
      BY <1>1 DEF ToSet
    <3> QED BY <1>3, <3>1 DEF ToSet
  <2>3. ToSet(c) \subseteq ToSet(l) \cup ToSet(r)
    BY <1>1, <1>4 DEF ToSet
  <2> QED BY <2>1, <2>2, <2>3
<1>6. ASSUME IsInjective(l), IsInjective(r), ToSet(l) \cap ToSet(r) = {}
      PROVE  IsInjective(c)
  <2> SUFFICES ASSUME NEW i \in DOMAIN c, NEW k \in DOMAIN c, c[i] = c[k]
               PROVE  i = k
    BY DEF IsInjective
  <2>1. \A x \in 1 .. Len(l), y \in 1 .. Len(r) : l[x] # r[y]
    BY <1>1, <1>6 DEF ToSet
  <2>2. CASE i \in 1 .. Len(l) /\ c[i] = l[i]
    <3>1. k \in 1 .. Len(l) /\ c[k] = l[k]
      BY <1>4, <2>1, <2>2
    <3> QED BY <1>1, <1>6, <2>2, <3>1 DEF IsInjective
  <2>3. CASE i - Len(l) \in 1 .. Len(r) /\ c[i] = r[i - Len(l)]
    <3>1. k - Len(l) \in 1 .. Len(r) /\ c[k] = r[k - Len(l)]
      BY <1>4, <2>1, <2>3
    <3>2. i - Len(l) = k - Len(l)
      BY <1>1, <1>6, <2>3, <3>1 DEF IsInjective
    <3> QED BY <1>1, <3>2
  <2> QED BY <1>4, <2>2, <2>3
<1> QED BY <1>1, <1>5, <1>6 DEF c

\* A sequence backwards.
LEMMA ReverseHolds ==
    ASSUME NEW S, NEW l \in Seq(S), IsInjective(l)
    PROVE  /\ Reverse(l) \in Seq(S) /\ Len(Reverse(l)) = Len(l)
           /\ IsInjective(Reverse(l)) /\ ToSet(Reverse(l)) = ToSet(l)
<1> DEFINE n == Len(l)
           r == Reverse(l)
<1>1. n \in Nat /\ l \in [1 .. n -> S] /\ DOMAIN l = 1 .. n
  OBVIOUS
<1>2. r = [i \in 1 .. n |-> l[n - i + 1]]
  BY DEF Reverse
<1> HIDE DEF n, r
<1>3. \A i \in 1 .. n : n - i + 1 \in 1 .. n /\ n - (n - i + 1) + 1 = i
  BY <1>1
<1>4. r \in [1 .. n -> S] /\ \A i \in 1 .. n : r[i] = l[n - i + 1]
  BY <1>1, <1>2, <1>3
<1>5. r \in Seq(S) /\ Len(r) = n /\ DOMAIN r = 1 .. n
  BY <1>1, <1>4
<1>6. IsInjective(r)
  <2> SUFFICES ASSUME NEW i \in 1 .. n, NEW k \in 1 .. n, r[i] = r[k] PROVE i = k
    BY <1>5 DEF IsInjective
  <2>1. n - i + 1 = n - k + 1
    BY <1>1, <1>3, <1>4 DEF IsInjective
  <2> QED BY <1>1, <2>1
<1>7. ToSet(r) \subseteq ToSet(l)
  BY <1>1, <1>3, <1>4, <1>5 DEF ToSet
<1>8. ASSUME NEW x \in ToSet(l) PROVE x \in ToSet(r)
  <2>1. PICK i \in 1 .. n : x = l[i]
    BY <1>1, <1>8 DEF ToSet
  <2>2. n - i + 1 \in 1 .. n /\ r[n - i + 1] = l[i]
    <3>1. n - i + 1 \in 1 .. n /\ n - (n - i + 1) + 1 = i
      BY <1>3
    <3> QED BY <1>4, <3>1
  <2> QED BY <1>5, <2>1, <2>2 DEF ToSet
<1> QED BY <1>5, <1>6, <1>7, <1>8 DEF n, r

\* A sequence without repetition that leaves an element of S out is shorter
\* than S is large.
LEMMA LeavesOut ==
    ASSUME NEW S, IsFiniteSet(S), NEW l \in Seq(S), IsInjective(l), NEW x \in S, x \notin ToSet(l)
    PROVE  Len(l) < Cardinality(S)
<1> DEFINE n == Len(l)
           R == S \ {x}
<1>1. n \in Nat /\ l \in [1 .. n -> S] /\ DOMAIN l = 1 .. n
  OBVIOUS
<1>2. l \in [1 .. n -> R]
  <2> HIDE DEF n
  <2> QED BY <1>1 DEF ToSet
<1>3. l \in Injection(1 .. n, R)
  <2> HIDE DEF n, R
  <2> QED BY <1>1, <1>2 DEF Injection, IsInjective
<1>4. IsFiniteSet(R) /\ Cardinality(R) = Cardinality(S) - 1 /\ Cardinality(S) \in Nat
  BY FS_RemoveElement, FS_CardinalityType
<1>5. Cardinality(1 .. n) = n
  <2>1. 1 \in Int /\ n \in Int  BY <1>1
  <2>2. Cardinality(1 .. n) = IF 1 > n THEN 0 ELSE n - 1 + 1
    <3> HIDE DEF n
    <3> QED BY <2>1, FS_Interval
  <2> HIDE DEF n
  <2> QED BY <1>1, <2>2
<1> HIDE DEF n, R
<1>6. Cardinality(1 .. n) <= Cardinality(R)
  BY <1>3, <1>4, FS_Injection
<1> QED BY <1>1, <1>4, <1>5, <1>6 DEF n

\* The elements of a finite set, in some order.
LEMMA SetToSeqElements ==
    ASSUME NEW S, IsFiniteSet(S)
    PROVE  /\ SetToSeq(S) \in Seq(S) /\ IsInjective(SetToSeq(S))
           /\ ToSet(SetToSeq(S)) = S /\ Len(SetToSeq(S)) = Cardinality(S)
<1> DEFINE n == Cardinality(S)
           f == SetToSeq(S)
<1>1. n \in Nat /\ ExistsBijection(1 .. n, S)
  BY FS_CardinalityType
<1>2. \E g \in [1 .. n -> S] : IsInjective(g)
  BY <1>1 DEF ExistsBijection, Bijection, Injection
<1>3. f \in [1 .. n -> S] /\ IsInjective(f)
  <2>1. f = CHOOSE g \in [1 .. n -> S] : IsInjective(g)  BY DEF SetToSeq
  <2> HIDE DEF n, f
  <2> QED BY <1>2, <2>1
<1> HIDE DEF f
<1>4. f \in Injection(1 .. n, S)
  BY <1>3 DEF Injection
<1>5. Cardinality(1 .. n) = n
  <2>1. 1 \in Int /\ n \in Int  BY <1>1
  <2>2. Cardinality(1 .. n) = IF 1 > n THEN 0 ELSE n - 1 + 1
    <3> HIDE DEF n
    <3> QED BY <2>1, FS_Interval
  <2> HIDE DEF n
  <2> QED BY <1>1, <2>2
<1>6. f \in Surjection(1 .. n, S)
  BY <1>4, <1>5, FS_Injection
<1>7. ToSet(f) = S
  BY <1>3, <1>6 DEF Surjection, ToSet
<1>8. f \in Seq(S) /\ Len(f) = n
  <2> HIDE DEF n
  <2> QED BY <1>1, <1>3
<1> QED BY <1>3, <1>7, <1>8 DEF f
=============================================================================

--------------------------- MODULE LRUCacheProofs ---------------------------
(***************************************************************************)
(* Invariance proofs for LRUCacheSpec, for every set of keys and values,   *)
(* every capacity and every bound on pins.                                 *)
(***************************************************************************)
EXTENDS LRUCacheSpec, SequenceTheorems, FiniteSetTheorems, TLAPS

-----------------------------------------------------------------------------
(* Lists *)

\* Erasing a node from a list of distinct keys (list::erase, splice) keeps the
\* others distinct and takes exactly that key out.
LEMMA UnlinkLemma ==
  ASSUME NEW S, NEW s \in Seq(S), NEW k, IsInjective(s)
  PROVE  /\ Unlink(s, k) \in Seq(S)
         /\ IsInjective(Unlink(s, k))
         /\ ToSet(Unlink(s, k)) = ToSet(s) \ {k}
<1>1. CASE k \notin ToSet(s)
  BY <1>1, ZenonT(30) DEF Unlink
<1>2. CASE k \in ToSet(s)
  <2> DEFINE i == CHOOSE j \in DOMAIN s : s[j] = k
             t == RemoveAt(s, i)
  <2>1. i \in 1..Len(s) /\ s[i] = k
    BY <1>2 DEF ToSet
  <2>2. Unlink(s, k) = t
    BY <1>2, ZenonT(30) DEF Unlink
  <2> HIDE DEF i
  <2>3. /\ t \in Seq(S)
        /\ Len(t) = Len(s) - 1
        /\ \A j \in 1..Len(t) : t[j] = IF j < i THEN s[j] ELSE s[j+1]
    <3> DEFINE a == SubSeq(s, 1, i-1)
               b == SubSeq(s, i+1, Len(s))
    <3>1. /\ a \in Seq(S)
          /\ Len(a) = i - 1
          /\ \A j \in 1..i-1 : a[j] = s[j]
      BY <2>1, SubSeqProperties, LenProperties
    <3>2. /\ b \in Seq(S)
          /\ Len(b) = Len(s) - i
          /\ \A j \in 1..Len(s)-i : b[j] = s[i+j]
      BY <2>1, SubSeqProperties, LenProperties
    <3>3. t = a \o b
      BY ZenonT(30) DEF RemoveAt
    <3> HIDE DEF a, b, t
    <3>4. t \in Seq(S) /\ Len(t) = Len(a) + Len(b)
      BY <3>1, <3>2, <3>3, ConcatProperties, ZenonT(30)
    <3>5. ASSUME NEW j \in 1..Len(t)
          PROVE  t[j] = IF j < i THEN s[j] ELSE s[j+1]
      <4>1. j \in 1..Len(a) + Len(b)
        BY <3>4, ZenonT(30)
      <4>2. t[j] = IF j <= Len(a) THEN a[j] ELSE b[j - Len(a)]
        BY <3>1, <3>2, <3>3, <4>1, ConcatProperties, ZenonT(30)
      <4>3. CASE j < i
        BY <2>1, <3>1, <3>2, <4>2, <4>3
      <4>4. CASE j >= i
        <5>1. j - Len(a) \in 1..Len(s) - i /\ i + (j - Len(a)) = j + 1
          BY <2>1, <3>1, <3>2, <4>1, <4>4
        <5>2. ~(j <= Len(a))
          BY <2>1, <3>1, <4>4
        <5>3. b[j - Len(a)] = s[j + 1]
          BY <3>2, <5>1, ZenonT(30)
        <5> QED BY <2>1, <4>2, <4>4, <5>2, <5>3
      <4> QED BY <2>1, <4>3, <4>4
    <3> QED BY <2>1, <3>1, <3>2, <3>4, <3>5
  <2> HIDE DEF t
  <2>4. IsInjective(t)
    <3>1. SUFFICES ASSUME NEW a \in 1..Len(t), NEW b \in 1..Len(t), t[a] = t[b]
                   PROVE  a = b
      BY <2>3 DEF IsInjective
    <3>2. \A x, y \in 1..Len(s) : s[x] = s[y] => x = y
      BY DEF IsInjective
    <3> DEFINE pos(j) == IF j < i THEN j ELSE j+1
    <3>3. \A j \in 1..Len(t) : t[j] = s[pos(j)] /\ pos(j) \in 1..Len(s)
      BY <2>1, <2>3
    <3>4. pos(a) = pos(b)
      BY <3>1, <3>2, <3>3, ZenonT(30)
    <3> QED BY <2>1, <2>3, <3>4
  <2>5. ToSet(t) \subseteq ToSet(s) \ {k}
    BY <2>1, <2>3 DEF ToSet, IsInjective
  <2>6. ASSUME NEW x \in ToSet(s) \ {k} PROVE x \in ToSet(t)
    <3>1. PICK j \in 1..Len(s) : s[j] = x
      BY DEF ToSet
    <3>2. CASE j < i
      <4>1. j \in 1..Len(t) /\ t[j] = x
        BY <2>1, <2>3, <3>1, <3>2
      <4> QED BY <4>1, <2>3 DEF ToSet
    <3>3. CASE j > i
      <4>1. j-1 \in 1..Len(t) /\ t[j-1] = x
        BY <2>1, <2>3, <3>1, <3>3
      <4> QED BY <4>1, <2>3 DEF ToSet
    <3> QED BY <2>1, <3>1, <3>2, <3>3
  <2> QED BY <2>2, <2>3, <2>4, <2>5, <2>6, ZenonT(30)
<1> QED BY <1>1, <1>2, ZenonT(30)

\* emplace_front, and splice to the front: one more key, still distinct.
LEMMA PushFrontLemma ==
  ASSUME NEW S, NEW s \in Seq(S), NEW k \in S, IsInjective(s), k \notin ToSet(s)
  PROVE  /\ <<k>> \o s \in Seq(S)
         /\ IsInjective(<<k>> \o s)
         /\ ToSet(<<k>> \o s) = ToSet(s) \cup {k}
<1> DEFINE t == <<k>> \o s
<1>1. /\ t \in Seq(S)
      /\ Len(t) = Len(s) + 1
      /\ \A j \in 1..Len(t) : t[j] = IF j = 1 THEN k ELSE s[j-1]
  OBVIOUS
<1> HIDE DEF t
<1>2. IsInjective(t)
  <2>1. DOMAIN t = 1..Len(t) /\ DOMAIN s = 1..Len(s) /\ Len(s) \in Nat
    BY <1>1
  <2>2. ASSUME NEW n \in 1..Len(t), n # 1 PROVE n - 1 \in 1..Len(s) /\ t[n] = s[n - 1]
    BY <1>1, <2>1, <2>2
  <2>3. ASSUME NEW n \in 1..Len(t), n # 1 PROVE t[n] # k
    BY <2>1, <2>2, <2>3, ZenonT(30) DEF ToSet
  <2>4. 1 \in 1..Len(t) => t[1] = k
    BY <1>1, ZenonT(30)
  <2>5. ASSUME NEW i \in DOMAIN t, NEW j \in DOMAIN t, t[i] = t[j] PROVE i = j
    <3>1. CASE i = 1 \/ j = 1
      BY <2>1, <2>3, <2>4, <2>5, <3>1, ZenonT(30)
    <3>2. CASE i # 1 /\ j # 1
      <4>1. i - 1 = j - 1
        BY <2>1, <2>2, <2>5, <3>2, ZenonT(30) DEF IsInjective
      <4> QED
        BY <2>1, <2>5, <4>1
    <3> QED
      BY <3>1, <3>2, ZenonT(30)
  <2> QED
    BY <2>5, ZenonT(30) DEF IsInjective
<1>3. ToSet(t) \subseteq ToSet(s) \cup {k}
  BY <1>1 DEF ToSet
<1>4. k \in ToSet(t)
  <2>1. 1 \in DOMAIN t /\ t[1] = k
    BY <1>1
  <2> QED BY <2>1, ZenonT(30) DEF ToSet
<1>5. ASSUME NEW x \in ToSet(s) PROVE x \in ToSet(t)
  <2>1. PICK j \in 1..Len(s) : s[j] = x
    BY DEF ToSet
  <2>2. j+1 \in DOMAIN t /\ t[j+1] = x
    BY <1>1, <2>1
  <2> QED BY <2>2, ZenonT(30) DEF ToSet
<1> QED BY <1>1, <1>2, <1>3, <1>4, <1>5, ZenonT(30) DEF t

\* emplace_back, and splice to the back: one more key, still distinct.
LEMMA PushBackLemma ==
  ASSUME NEW S, NEW s \in Seq(S), NEW k \in S, IsInjective(s), k \notin ToSet(s)
  PROVE  /\ Append(s, k) \in Seq(S)
         /\ IsInjective(Append(s, k))
         /\ ToSet(Append(s, k)) = ToSet(s) \cup {k}
<1> DEFINE t == Append(s, k)
<1>1. /\ t \in Seq(S)
      /\ Len(t) = Len(s) + 1
      /\ \A j \in 1..Len(t) : t[j] = IF j = Len(s) + 1 THEN k ELSE s[j]
  OBVIOUS
<1> HIDE DEF t
<1>2. IsInjective(t)
  BY <1>1 DEF IsInjective, ToSet
<1>3. ToSet(t) \subseteq ToSet(s) \cup {k}
  BY <1>1 DEF ToSet
<1>4. k \in ToSet(t)
  <2>1. Len(s) + 1 \in DOMAIN t /\ t[Len(s) + 1] = k
    BY <1>1
  <2> QED BY <2>1, ZenonT(30) DEF ToSet
<1>5. ASSUME NEW x \in ToSet(s) PROVE x \in ToSet(t)
  <2>1. PICK j \in 1..Len(s) : s[j] = x
    BY DEF ToSet
  <2>2. j \in DOMAIN t /\ t[j] = x
    BY <1>1, <2>1
  <2> QED BY <2>2, ZenonT(30) DEF ToSet
<1> QED BY <1>1, <1>2, <1>3, <1>4, <1>5, ZenonT(30) DEF t

\* Taking the last node off a list of distinct keys.
LEMMA PopBackLemma ==
  ASSUME NEW S, NEW s \in Seq(S), IsInjective(s), s # <<>>
  PROVE  /\ Front(s) \in Seq(S)
         /\ IsInjective(Front(s))
         /\ Last(s) \in ToSet(s)
         /\ Last(s) \in S
         /\ ToSet(Front(s)) = ToSet(s) \ {Last(s)}
<1> DEFINE t == Front(s)
<1>0. Len(s) \in Nat /\ Len(s) >= 1
  OBVIOUS
<1>1. Len(s) \in Nat \ {0} /\ Last(s) = s[Len(s)] /\ Last(s) \in S
  BY <1>0 DEF Last
<1>2. /\ t \in Seq(S)
      /\ Len(t) = Len(s) - 1
      /\ \A j \in 1..Len(t) : t[j] = s[j]
  <2>1. \A j \in 1..Len(s)-1 : s[j] \in S
    BY <1>1
  <2>2. 1 \in Int /\ Len(s)-1 \in Int
    BY <1>1
  <2>3. t \in Seq(S)
    BY <2>1, <2>2, SubSeqProperties, ZenonT(30) DEF Front
  <2>4. Len(t) = IF 1 <= Len(s)-1 THEN (Len(s)-1)-1+1 ELSE 0
    BY <2>1, <2>2, SubSeqProperties DEF Front
  <2>5. \A j \in 1..(Len(s)-1)-1+1 : t[j] = s[1+j-1]
    BY <2>1, <2>2, SubSeqProperties DEF Front
  <2> HIDE DEF t
  <2>6. Len(t) = Len(s) - 1
    <3> DEFINE n == Len(s)
    <3>1. n \in Nat /\ n >= 1 /\ Len(t) = IF 1 <= n-1 THEN (n-1)-1+1 ELSE 0
      BY <1>0, <2>4, ZenonT(30)
    <3> HIDE DEF n
    <3>2. CASE n = 1
      BY <3>1, <3>2 DEF n
    <3>3. CASE n > 1
      BY <3>1, <3>3 DEF n
    <3> QED BY <3>1, <3>2, <3>3
  <2>7. ASSUME NEW j \in 1..Len(t) PROVE t[j] = s[j]
    <3>1. j \in 1..(Len(s)-1)-1+1 /\ 1+j-1 = j
      BY <1>0, <2>6
    <3> QED BY <2>5, <3>1, ZenonT(30)
  <2> QED BY <2>3, <2>6, <2>7, ZenonT(30)
<1>3. IsInjective(t)
  BY <1>1, <1>2 DEF IsInjective
<1>4. ToSet(t) \subseteq ToSet(s) \ {Last(s)}
  BY <1>1, <1>2 DEF ToSet, IsInjective
<1>5. ASSUME NEW x \in ToSet(s) \ {Last(s)} PROVE x \in ToSet(t)
  <2>1. PICK j \in 1..Len(s) : s[j] = x
    BY DEF ToSet
  <2>2. j \in DOMAIN t /\ t[j] = x
    BY <1>1, <1>2, <2>1
  <2> QED BY <2>2, ZenonT(30) DEF ToSet
<1>6. Last(s) \in ToSet(s)
  BY <1>1 DEF ToSet
<1> QED BY <1>1, <1>2, <1>3, <1>4, <1>5, <1>6, ZenonT(30) DEF t

-----------------------------------------------------------------------------
(* Operations *)

\* A well-formed cache: the inductive invariant, of one cache.
WellFormed(c) ==
  c \in Caches /\ Partitioned(c) /\ c.evictable = Cardinality(EvictableSet(c))

\* Sizes of sets of keys, as the counter hooks change them.
LEMMA CountLemma ==
  ASSUME NEW A \in SUBSET Keys, NEW k \in Keys
  PROVE  /\ Cardinality(A) \in Nat
         /\ k \in A => Cardinality(A) > 0
         /\ Cardinality(A \cup {k}) = IF k \in A THEN Cardinality(A) ELSE Cardinality(A) + 1
         /\ Cardinality(A \ {k}) = IF k \in A THEN Cardinality(A) - 1 ELSE Cardinality(A)
<1>1. IsFiniteSet(A)
  BY LRUAssumption, FS_Subset, ZenonT(30)
<1>2. Cardinality(A) \in Nat
  BY <1>1, FS_CardinalityType, ZenonT(30)
<1>3. IsFiniteSet(A \ {k}) /\ Cardinality(A \ {k}) = IF k \in A THEN Cardinality(A) - 1 ELSE Cardinality(A)
  BY <1>1, FS_RemoveElement, ZenonT(30)
<1>4. Cardinality(A \ {k}) \in Nat
  BY <1>3, FS_CardinalityType, ZenonT(30)
<1>5. Cardinality(A \cup {k}) = IF k \in A THEN Cardinality(A) ELSE Cardinality(A) + 1
  BY <1>1, FS_AddElement, ZenonT(30)
<1> QED BY <1>2, <1>3, <1>4, <1>5

\* Overwriting the value of an entry keeps the counter exact, pinned or not.
LEMMA SetValueLemma ==
  ASSUME NEW c, WellFormed(c), NEW k \in Keys, Present(c, k), NEW v \in Values
  PROVE  /\ WellFormed(SetValue(c, k, v))
         /\ Present(SetValue(c, k, v), k)
         /\ SetValue(c, k, v).pins = c.pins
<1> DEFINE d == SetValue(c, k, v)
           E == EvictableSet(c)
<1>1. c \in Caches /\ Partitioned(c) /\ c.evictable = Cardinality(E)
  BY ZenonT(30) DEF WellFormed
<1>2. /\ d.lru = c.lru /\ d.cand = c.cand /\ d.pins = c.pins
      /\ d.val = [c.val EXCEPT ![k] = v]
      /\ d.evictable = Recount(c, k, v)
  BY <1>1, ZenonT(30) DEF SetValue, Caches
<1>3. E \in SUBSET Keys /\ (k \in E <=> c.pins[k] = 0 /\ c.val[k] \in Resident)
  BY ZenonT(30) DEF EvictableSet
<1>4. Cardinality(E) \in Nat /\ (k \in E => Cardinality(E) > 0)
  BY <1>3, CountLemma, ZenonT(30)
<1>5. EvictableSet(d) = IF c.pins[k] = 0 /\ v \in Resident THEN E \cup {k} ELSE E \ {k}
  BY <1>1, <1>2, ZenonT(30) DEF EvictableSet, Caches
<1>6. d.evictable = Cardinality(EvictableSet(d)) /\ d.evictable \in Nat
  <2>1. /\ Cardinality(E \cup {k}) = IF k \in E THEN Cardinality(E) ELSE Cardinality(E) + 1
        /\ Cardinality(E \ {k}) = IF k \in E THEN Cardinality(E) - 1 ELSE Cardinality(E)
    BY <1>3, CountLemma, ZenonT(30)
  <2>2. Recount(c, k, v) =
          IF c.pins[k] # 0 THEN Cardinality(E)
          ELSE IF v \in Resident THEN Cardinality(E \cup {k}) ELSE Cardinality(E \ {k})
    <3> HIDE DEF E
    <3> QED BY <1>1, <1>3, <1>4, <2>1
            DEF Recount, OnUnpinnedNodeAdded, OnUnpinnedNodeRemoved, One
  <2>3. c.pins[k] # 0 => E \ {k} = E
    BY <1>3, ZenonT(30)
  <2> HIDE DEF d, E
  <2> QED BY <1>2, <1>3, <1>4, <1>5, <2>1, <2>2, <2>3
<1>7. d \in Caches
  BY <1>1, <1>2, <1>6, ZenonT(30) DEF Caches, SetValue
<1> HIDE DEF d
<1>8. Present(d, k) /\ \A x \in Keys : Present(d, x) <=> Present(c, x)
  BY <1>1, <1>2, LRUAssumption, ZenonT(30) DEF Present, Caches
<1>9. Partitioned(d)
  BY <1>1, <1>2, <1>8, ZenonT(30) DEF Partitioned
<1> QED BY <1>2, <1>6, <1>7, <1>8, <1>9, ZenonT(30) DEF WellFormed, d

Relisted(c, lru, cand) == [c EXCEPT !.lru = lru, !.cand = cand]

\* Moving keys between and within the two lists changes nothing else.
LEMMA RelistLemma ==
  ASSUME NEW c, WellFormed(c), NEW lru \in Seq(Keys), NEW cand \in Seq(Keys),
         IsInjective(lru), IsInjective(cand),
         ToSet(lru) \cap ToSet(cand) = {},
         ToSet(lru) \cup ToSet(cand) = ToSet(c.lru) \cup ToSet(c.cand)
  PROVE  WellFormed(Relisted(c, lru, cand))
<1> DEFINE d == Relisted(c, lru, cand)
<1>1. c \in Caches /\ Partitioned(c)
  BY ZenonT(30) DEF WellFormed
<1>2. /\ d.lru = lru /\ d.cand = cand /\ d.pins = c.pins /\ d.val = c.val
      /\ d.evictable = c.evictable /\ d \in Caches
  BY <1>1, ZenonT(30) DEF Caches, Relisted
<1> HIDE DEF d
<1>3. Partitioned(d)
  BY <1>1, <1>2, ZenonT(30) DEF Partitioned, Present
<1>4. EvictableSet(d) = EvictableSet(c)
  BY <1>2, ZenonT(30) DEF EvictableSet
<1> QED BY <1>2, <1>3, <1>4, ZenonT(30) DEF WellFormed, d

\* Promotion (Get, Put of an existing key): a candidate leaves its list.
LEMMA PromoteLemma ==
  ASSUME NEW c, WellFormed(c), NEW k \in Keys, Present(c, k)
  PROVE  WellFormed(Promote(c, k)) /\ WellFormed(PromoteBack(c, k))
<1>1. c \in Caches /\ Partitioned(c)
  BY ZenonT(30) DEF WellFormed
<1>2. c.lru \in Seq(Keys) /\ c.cand \in Seq(Keys) /\ c.pins[k] \in Nat
  BY <1>1, ZenonT(30) DEF Caches
<1>3. CASE c.pins[k] > 0
  BY <1>3, ZenonT(30) DEF Promote, PromoteBack
<1>4. CASE c.pins[k] = 0
  <2> DEFINE l == Unlink(c.lru, k)
             r == Unlink(c.cand, k)
  <2>1. /\ l \in Seq(Keys) /\ IsInjective(l) /\ ToSet(l) = ToSet(c.lru) \ {k}
        /\ r \in Seq(Keys) /\ IsInjective(r) /\ ToSet(r) = ToSet(c.cand) \ {k}
    BY <1>1, <1>2, UnlinkLemma, ZenonT(30) DEF Partitioned
  <2>2. k \in ToSet(c.lru) \cup ToSet(c.cand)
    BY <1>1, <1>4, ZenonT(30) DEF Partitioned
  <2> DEFINE f == <<k>> \o l
             b == Append(l, k)
  <2>3. Promote(c, k) = Relisted(c, f, r)
    BY <1>4 DEF Promote, Relisted
  <2>4. PromoteBack(c, k) = Relisted(c, b, r)
    BY <1>4 DEF PromoteBack, Relisted
  <2> HIDE DEF l, r
  <2>5. f \in Seq(Keys) /\ IsInjective(f) /\ ToSet(f) = ToSet(l) \cup {k}
    BY <2>1, PushFrontLemma
  <2>6. b \in Seq(Keys) /\ IsInjective(b) /\ ToSet(b) = ToSet(l) \cup {k}
    BY <2>1, PushBackLemma
  <2> HIDE DEF f, b
  <2>7. /\ (ToSet(l) \cup {k}) \cap ToSet(r) = {}
        /\ (ToSet(l) \cup {k}) \cup ToSet(r) = ToSet(c.lru) \cup ToSet(c.cand)
    BY <1>1, <2>1, <2>2, ZenonT(30) DEF Partitioned
  <2>8. WellFormed(Promote(c, k))
    BY <2>1, <2>3, <2>5, <2>7, RelistLemma
  <2>9. WellFormed(PromoteBack(c, k))
    BY <2>1, <2>4, <2>6, <2>7, RelistLemma
  <2> QED BY <2>8, <2>9, ZenonT(30)
<1> QED BY <1>2, <1>3, <1>4

\* Demotion of the LRU entry (Evict) keeps its value and the counter; no pin
\* or value changes, and only an unpinned key becomes a candidate.
LEMMA EvictLemma ==
  ASSUME NEW c, WellFormed(c)
  PROVE  /\ WellFormed(Evict(c))
         /\ Evict(c).pins = c.pins /\ Evict(c).val = c.val
<1>1. c \in Caches /\ Partitioned(c)
  BY ZenonT(30) DEF WellFormed
<1>2. CASE c.lru = <<>>
  BY <1>2, ZenonT(30) DEF Evict
<1>3. CASE c.lru # <<>>
  <2> DEFINE l == Front(c.lru)
             x == Last(c.lru)
             r == Append(c.cand, x)
  <2>1. c.lru \in Seq(Keys) /\ c.cand \in Seq(Keys)
    BY <1>1, ZenonT(30) DEF Caches
  <2>2. /\ l \in Seq(Keys) /\ IsInjective(l) /\ x \in ToSet(c.lru) /\ x \in Keys
        /\ ToSet(l) = ToSet(c.lru) \ {x}
    BY <1>1, <1>3, <2>1, PopBackLemma, ZenonT(30) DEF Partitioned
  <2>3. Evict(c) = Relisted(c, l, r)
    BY <1>3, ZenonT(30) DEF Evict, Relisted
  <2> HIDE DEF l, x
  <2>4. r \in Seq(Keys) /\ IsInjective(r) /\ ToSet(r) = ToSet(c.cand) \cup {x}
    BY <1>1, <2>1, <2>2, PushBackLemma DEF Partitioned
  <2> HIDE DEF r
  <2>5. /\ ToSet(l) \cap ToSet(r) = {}
        /\ ToSet(l) \cup ToSet(r) = ToSet(c.lru) \cup ToSet(c.cand)
    BY <1>1, <2>2, <2>4, ZenonT(30) DEF Partitioned
  <2>6. WellFormed(Evict(c))
    BY <2>2, <2>3, <2>4, <2>5, RelistLemma
  <2>7. Evict(c).pins = c.pins /\ Evict(c).val = c.val
    BY <1>1, <2>3, ZenonT(30) DEF Caches, Relisted
  <2> QED BY <2>6, <2>7, ZenonT(30)
<1> QED BY <1>2, <1>3, ZenonT(30)

\* A step from c to d that changes nothing about keys other than k, with k on
\* a list and in the counter exactly when it should be.
OneKeyStep(c, d, k) ==
  /\ IsInjective(d.lru)
  /\ IsInjective(d.cand)
  /\ ToSet(d.lru) \cap ToSet(d.cand) = {}
  /\ \A x \in Keys \ {k} : d.pins[x] = c.pins[x] /\ d.val[x] = c.val[x]
  /\ (ToSet(d.lru) \cup ToSet(d.cand)) \ {k} = (ToSet(c.lru) \cup ToSet(c.cand)) \ {k}
  /\ k \in ToSet(d.lru) \cup ToSet(d.cand) <=> d.pins[k] = 0 /\ d.val[k] # Absent
  /\ d.pins[k] > 0 => d.val[k] # Absent
  /\ d.evictable = IF d.pins[k] = 0 /\ d.val[k] \in Resident
                   THEN Cardinality(EvictableSet(c) \cup {k})
                   ELSE Cardinality(EvictableSet(c) \ {k})

\* Such a step keeps a cache well formed.
LEMMA OneKeyLemma ==
  ASSUME NEW c, WellFormed(c), NEW d \in Caches, NEW k \in Keys, OneKeyStep(c, d, k)
  PROVE  WellFormed(d)
<1> USE DEF OneKeyStep
<1>1. c \in Caches /\ Partitioned(c)
  BY ZenonT(30) DEF WellFormed
<1>2. ToSet(d.lru) \cup ToSet(d.cand) \subseteq Keys
  BY DEF Caches, ToSet
<1>3. ToSet(d.lru) \cup ToSet(d.cand) = {x \in Keys : d.pins[x] = 0 /\ Present(d, x)}
  BY <1>1, <1>2 DEF Partitioned, Present
<1>4. \A x \in Keys : d.pins[x] > 0 => Present(d, x)
  BY <1>1, ZenonT(30) DEF Partitioned, Present
<1>5. Partitioned(d)
  BY <1>3, <1>4, ZenonT(30) DEF Partitioned
<1>6. EvictableSet(d) =
        IF d.pins[k] = 0 /\ d.val[k] \in Resident
        THEN EvictableSet(c) \cup {k} ELSE EvictableSet(c) \ {k}
  BY ZenonT(30) DEF EvictableSet
<1> QED BY <1>5, <1>6, ZenonT(30) DEF WellFormed

\* The counter hooks compute the size of the set they maintain.
LEMMA HookLemma ==
  ASSUME NEW c, WellFormed(c), NEW k \in Keys
  PROVE  LET E == EvictableSet(c) IN
         /\ c.pins[k] = 0 =>
              OnUnpinnedNodeRemoved(c.evictable, c.val[k]) = Cardinality(E \ {k})
         /\ \A v : k \notin E => OnUnpinnedNodeAdded(c.evictable, v) =
              IF v \in Resident THEN Cardinality(E \cup {k}) ELSE Cardinality(E \ {k})
         /\ k \notin E => c.evictable = Cardinality(E \ {k})
         /\ Cardinality(E \cup {k}) \in Nat /\ Cardinality(E \ {k}) \in Nat
<1> DEFINE E == EvictableSet(c)
<1>1. E \in SUBSET Keys /\ (k \in E <=> c.pins[k] = 0 /\ c.val[k] \in Resident)
  BY ZenonT(30) DEF EvictableSet
<1>2. c.evictable = Cardinality(E)
  BY ZenonT(30) DEF WellFormed
<1> HIDE DEF E
<1>3. Cardinality(E) \in Nat /\ (k \in E => Cardinality(E) > 0)
  BY <1>1, CountLemma, ZenonT(30)
<1>4. /\ Cardinality(E \cup {k}) = IF k \in E THEN Cardinality(E) ELSE Cardinality(E) + 1
      /\ Cardinality(E \ {k}) = IF k \in E THEN Cardinality(E) - 1 ELSE Cardinality(E)
  BY <1>1, CountLemma, ZenonT(30)
<1>5. c.pins[k] = 0 =>
        OnUnpinnedNodeRemoved(c.evictable, c.val[k]) = Cardinality(E \ {k})
  BY <1>1, <1>2, <1>3, <1>4 DEF OnUnpinnedNodeRemoved, One
<1>6. \A v : k \notin E => OnUnpinnedNodeAdded(c.evictable, v) =
        IF v \in Resident THEN Cardinality(E \cup {k}) ELSE Cardinality(E \ {k})
  BY <1>1, <1>2, <1>3, <1>4 DEF OnUnpinnedNodeAdded, One
<1>7. k \notin E => c.evictable = Cardinality(E \ {k})
  BY <1>2, <1>4, ZenonT(30)
<1>8. Cardinality(E \cup {k}) \in Nat /\ Cardinality(E \ {k}) \in Nat
  BY <1>3, <1>4
<1> QED BY <1>5, <1>6, <1>7, <1>8, ZenonT(30) DEF E

\* Pin (GetAndPin): the first pin takes the entry off its list and out of the
\* counter; later ones only count.
LEMMA PinLemma ==
  ASSUME NEW c, WellFormed(c), NEW k \in Keys
  PROVE  WellFormed(Pin(c, k))
<1> DEFINE d == Pin(c, k)
           E == EvictableSet(c)
<1>1. c \in Caches /\ Partitioned(c)
  BY ZenonT(30) DEF WellFormed
<1>2. c.lru \in Seq(Keys) /\ c.cand \in Seq(Keys) /\ c.pins \in [Keys -> Nat]
  BY <1>1, ZenonT(30) DEF Caches
<1>3. CASE ~Present(c, k)
  BY <1>3, ZenonT(30) DEF Pin
<1>4. CASE Present(c, k) /\ c.pins[k] > 0
  <2>1. /\ d.lru = c.lru /\ d.cand = c.cand /\ d.val = c.val
        /\ d.pins = [c.pins EXCEPT ![k] = c.pins[k] + 1]
        /\ d.evictable = c.evictable /\ d \in Caches
    <3> DEFINE p == [c.pins EXCEPT ![k] = c.pins[k] + 1]
    <3>1. p \in [Keys -> Nat]
      BY <1>2
    <3>2. d = [c EXCEPT !.pins = p]
      BY <1>4, ZenonT(30) DEF Pin
    <3> HIDE DEF p, d
    <3> QED BY <1>1, <3>1, <3>2, ZenonT(30) DEF Caches, p
  <2>2. k \notin E
    BY <1>4 DEF EvictableSet
  <2> HIDE DEF d
  <2>3. d.pins[k] > 0 /\ \A x \in Keys \ {k} : d.pins[x] = c.pins[x]
    BY <1>2, <2>1
  <2>4. d.evictable = Cardinality(E \ {k})
    BY <2>1, <2>2, HookLemma, ZenonT(30)
  <2>5. k \notin ToSet(c.lru) \cup ToSet(c.cand) /\ Present(d, k)
    BY <1>1, <1>4, <2>1 DEF Partitioned, Present
  <2>6. OneKeyStep(c, d, k)
    BY <1>1, <2>1, <2>3, <2>4, <2>5 DEF Partitioned, Present, OneKeyStep
  <2>7. WellFormed(d)
    BY <2>1, <2>6, OneKeyLemma, ZenonT(30)
  <2> QED BY <2>7, ZenonT(30) DEF d
<1>5. CASE Present(c, k) /\ c.pins[k] = 0
  <2> DEFINE l == Unlink(c.lru, k)
             r == Unlink(c.cand, k)
  <2>1. /\ l \in Seq(Keys) /\ IsInjective(l) /\ ToSet(l) = ToSet(c.lru) \ {k}
        /\ r \in Seq(Keys) /\ IsInjective(r) /\ ToSet(r) = ToSet(c.cand) \ {k}
    BY <1>1, <1>2, UnlinkLemma, ZenonT(30) DEF Partitioned
  <2>2. /\ OnUnpinnedNodeRemoved(c.evictable, c.val[k]) = Cardinality(E \ {k})
        /\ Cardinality(E \ {k}) \in Nat
    BY <1>5, HookLemma, ZenonT(30)
  <2> HIDE DEF l, r, E
  <2>3. /\ d.lru = l /\ d.cand = r /\ d.val = c.val
        /\ d.pins = [c.pins EXCEPT ![k] = 1]
        /\ d.evictable = Cardinality(E \ {k}) /\ d \in Caches
    <3> DEFINE p == [c.pins EXCEPT ![k] = 1]
               n == Cardinality(E \ {k})
    <3>1. p \in [Keys -> Nat] /\ n \in Nat
      BY <1>2, <2>2, ZenonT(30)
    <3>2. d = [c EXCEPT !.pins = p, !.lru = l, !.cand = r, !.evictable = n]
      BY <1>5, <2>2 DEF Pin, l, r
    <3> HIDE DEF p, n, d
    <3> QED BY <1>1, <2>1, <3>1, <3>2, ZenonT(30) DEF Caches, p, n
  <2> HIDE DEF d
  <2>4. d.pins[k] = 1 /\ \A x \in Keys \ {k} : d.pins[x] = c.pins[x]
    BY <1>2, <2>3, ZenonT(30)
  <2>5. k \notin ToSet(l) \cup ToSet(r) /\ Present(d, k)
    BY <1>5, <2>1, <2>3, ZenonT(30) DEF Present
  <2>6. ToSet(l) \cap ToSet(r) = {}
    BY <1>1, <2>1, ZenonT(30) DEF Partitioned
  <2>7. OneKeyStep(c, d, k)
    BY <2>1, <2>3, <2>4, <2>5, <2>6 DEF E, Present, OneKeyStep
  <2>8. WellFormed(d)
    BY <2>3, <2>7, OneKeyLemma, ZenonT(30)
  <2> QED BY <2>8, ZenonT(30) DEF d
<1> QED BY <1>2, <1>3, <1>4, <1>5

\* Unpin: the last one returns the entry to the MRU end and to the counter.
LEMMA UnpinLemma ==
  ASSUME NEW c, WellFormed(c), NEW k \in Keys
  PROVE  WellFormed(Unpin(c, k))
<1> DEFINE d == Unpin(c, k)
           E == EvictableSet(c)
<1>1. c \in Caches /\ Partitioned(c)
  BY ZenonT(30) DEF WellFormed
<1>2. c.lru \in Seq(Keys) /\ c.cand \in Seq(Keys) /\ c.pins \in [Keys -> Nat]
  BY <1>1, ZenonT(30) DEF Caches
<1>3. CASE ~Present(c, k) \/ c.pins[k] = 0
  BY <1>3, ZenonT(30) DEF Unpin
<1>4. CASE Present(c, k) /\ c.pins[k] > 1
  <2>1. /\ d.lru = c.lru /\ d.cand = c.cand /\ d.val = c.val
        /\ d.pins = [c.pins EXCEPT ![k] = c.pins[k] - 1]
        /\ d.evictable = c.evictable /\ d \in Caches
    <3> DEFINE p == [c.pins EXCEPT ![k] = c.pins[k] - 1]
    <3>1. p \in [Keys -> Nat]
      BY <1>2, <1>4
    <3>2. d = [c EXCEPT !.pins = p]
      BY <1>2, <1>4 DEF Unpin
    <3> HIDE DEF p, d
    <3> QED BY <1>1, <3>1, <3>2, ZenonT(30) DEF Caches, p
  <2>2. k \notin E
    BY <1>4 DEF EvictableSet
  <2> HIDE DEF d
  <2>3. d.pins[k] > 0 /\ \A x \in Keys \ {k} : d.pins[x] = c.pins[x]
    BY <1>2, <1>4, <2>1
  <2>4. d.evictable = Cardinality(E \ {k})
    BY <2>1, <2>2, HookLemma, ZenonT(30)
  <2>5. k \notin ToSet(c.lru) \cup ToSet(c.cand) /\ Present(d, k)
    BY <1>1, <1>4, <2>1 DEF Partitioned, Present
  <2>6. OneKeyStep(c, d, k)
    BY <1>1, <2>1, <2>3, <2>4, <2>5 DEF Partitioned, Present, OneKeyStep
  <2>7. WellFormed(d)
    BY <2>1, <2>6, OneKeyLemma, ZenonT(30)
  <2> QED BY <2>7, ZenonT(30) DEF d
<1>5. CASE Present(c, k) /\ c.pins[k] = 1
  <2> DEFINE l == <<k>> \o c.lru
  <2>1. k \notin ToSet(c.lru) \cup ToSet(c.cand)
    BY <1>1, <1>5 DEF Partitioned
  <2>2. l \in Seq(Keys) /\ IsInjective(l) /\ ToSet(l) = ToSet(c.lru) \cup {k}
    BY <1>1, <1>2, <2>1, PushFrontLemma DEF Partitioned
  <2>3. k \notin E
    BY <1>5 DEF EvictableSet
  <2>4. OnUnpinnedNodeAdded(c.evictable, c.val[k]) =
          IF c.val[k] \in Resident THEN Cardinality(E \cup {k}) ELSE Cardinality(E \ {k})
    BY <2>3, HookLemma, ZenonT(30)
  <2>5. Cardinality(E \cup {k}) \in Nat /\ Cardinality(E \ {k}) \in Nat
    BY HookLemma, ZenonT(30)
  <2> HIDE DEF l, E
  <2>6. /\ d.lru = l /\ d.cand = c.cand /\ d.val = c.val
        /\ d.pins = [c.pins EXCEPT ![k] = 0]
        /\ d.evictable = OnUnpinnedNodeAdded(c.evictable, c.val[k]) /\ d \in Caches
    <3> DEFINE p == [c.pins EXCEPT ![k] = 0]
               n == OnUnpinnedNodeAdded(c.evictable, c.val[k])
    <3>1. p \in [Keys -> Nat] /\ n \in Nat
      BY <1>2, <2>4, <2>5, ZenonT(30)
    <3>2. d = [c EXCEPT !.pins = p, !.lru = l, !.evictable = n]
      BY <1>5 DEF Unpin, l
    <3> HIDE DEF p, n, d
    <3> QED BY <1>1, <2>2, <3>1, <3>2, ZenonT(30) DEF Caches, p, n
  <2> HIDE DEF d
  <2>7. d.pins[k] = 0 /\ \A x \in Keys \ {k} : d.pins[x] = c.pins[x]
    BY <1>2, <2>6, ZenonT(30)
  <2>8. Present(d, k) /\ ToSet(l) \cap ToSet(c.cand) = {}
    BY <1>1, <1>5, <2>1, <2>2, <2>6, ZenonT(30) DEF Partitioned, Present
  <2>9. IsInjective(c.cand)
    BY <1>1, ZenonT(30) DEF Partitioned
  <2>10. OneKeyStep(c, d, k)
    BY <2>1, <2>2, <2>4, <2>6, <2>7, <2>8, <2>9, ZenonT(30) DEF E, Present, OneKeyStep
  <2>11. WellFormed(d)
    BY <2>6, <2>10, OneKeyLemma, ZenonT(30)
  <2> QED BY <2>11, ZenonT(30) DEF d
<1> QED BY <1>2, <1>3, <1>4, <1>5

\* Erase takes an unpinned entry out of its list, the map and the counter.
LEMMA EraseLemma ==
  ASSUME NEW c, WellFormed(c), NEW k \in Keys
  PROVE  WellFormed(Erase(c, k))
<1> DEFINE d == Erase(c, k)
           E == EvictableSet(c)
           l == Unlink(c.lru, k)
           r == Unlink(c.cand, k)
<1>1. c \in Caches /\ Partitioned(c)
  BY ZenonT(30) DEF WellFormed
<1>2. /\ c.lru \in Seq(Keys) /\ c.cand \in Seq(Keys)
      /\ c.pins \in [Keys -> Nat] /\ c.val \in [Keys -> Values \cup {Absent}]
  BY <1>1, ZenonT(30) DEF Caches
<1>3. CASE ~Present(c, k) \/ c.pins[k] > 0
  BY <1>3, ZenonT(30) DEF Erase
<1>4. CASE Present(c, k) /\ c.pins[k] = 0
  <2>1. /\ l \in Seq(Keys) /\ IsInjective(l) /\ ToSet(l) = ToSet(c.lru) \ {k}
        /\ r \in Seq(Keys) /\ IsInjective(r) /\ ToSet(r) = ToSet(c.cand) \ {k}
    BY <1>1, <1>2, UnlinkLemma, ZenonT(30) DEF Partitioned
  <2>2. /\ OnUnpinnedNodeRemoved(c.evictable, c.val[k]) = Cardinality(E \ {k})
        /\ Cardinality(E \ {k}) \in Nat
    BY <1>4, HookLemma, ZenonT(30)
  <2> HIDE DEF l, r, E
  <2>3. /\ d.lru = l /\ d.cand = r /\ d.pins = c.pins
        /\ d.val = [c.val EXCEPT ![k] = Absent]
        /\ d.evictable = Cardinality(E \ {k}) /\ d \in Caches
    <3> DEFINE v == [c.val EXCEPT ![k] = Absent]
               n == Cardinality(E \ {k})
    <3>1. v \in [Keys -> Values \cup {Absent}] /\ n \in Nat
      BY <1>2, <2>2, ZenonT(30)
    <3>2. d = [c EXCEPT !.val = v, !.lru = l, !.cand = r, !.evictable = n]
      BY <1>4, <2>2 DEF Erase, l, r
    <3> HIDE DEF v, n, d
    <3> QED BY <1>1, <2>1, <3>1, <3>2, ZenonT(30) DEF Caches, v, n
  <2> HIDE DEF d
  <2>4. d.val[k] = Absent /\ \A x \in Keys \ {k} : d.val[x] = c.val[x]
    BY <1>2, <2>3, ZenonT(30)
  <2>5. ~Present(d, k) /\ d.pins[k] = 0 /\ d.val[k] \notin Resident
    BY <1>4, <2>3, <2>4, LRUAssumption, ZenonT(30) DEF Present
  <2>6. ToSet(l) \cap ToSet(r) = {} /\ k \notin ToSet(l) \cup ToSet(r)
    BY <1>1, <2>1, ZenonT(30) DEF Partitioned
  <2>7. OneKeyStep(c, d, k)
    BY <2>1, <2>3, <2>4, <2>5, <2>6 DEF E, Present, OneKeyStep
  <2>8. WellFormed(d)
    BY <2>3, <2>7, OneKeyLemma, ZenonT(30)
  <2> QED BY <2>8, ZenonT(30) DEF d
<1> QED BY <1>2, <1>3, <1>4

Inserted(c, k, v, lru) ==
  [c EXCEPT !.lru = lru, !.val[k] = v, !.evictable = OnUnpinnedNodeAdded(c.evictable, v)]

\* A new entry at either end of the active list is counted once.
LEMMA InsertLemma ==
  ASSUME NEW c, WellFormed(c), NEW k \in Keys, ~Present(c, k), NEW v \in Values,
         NEW l \in {<<k>> \o c.lru, Append(c.lru, k)}
  PROVE  WellFormed(Inserted(c, k, v, l))
<1> DEFINE d == Inserted(c, k, v, l)
           E == EvictableSet(c)
<1>1. c \in Caches /\ Partitioned(c)
  BY ZenonT(30) DEF WellFormed
<1>2. /\ c.lru \in Seq(Keys) /\ c.cand \in Seq(Keys)
      /\ c.pins \in [Keys -> Nat] /\ c.val \in [Keys -> Values \cup {Absent}]
  BY <1>1, ZenonT(30) DEF Caches
<1>3. k \notin ToSet(c.lru) \cup ToSet(c.cand) /\ c.pins[k] = 0 /\ k \notin E
  BY <1>1, <1>2, LRUAssumption DEF Partitioned, Present, EvictableSet
<1>4. l \in Seq(Keys) /\ IsInjective(l) /\ ToSet(l) = ToSet(c.lru) \cup {k}
  <2>1. IsInjective(c.lru)
    BY <1>1, ZenonT(30) DEF Partitioned
  <2>2. CASE l = <<k>> \o c.lru
    BY <1>2, <1>3, <2>1, <2>2, PushFrontLemma
  <2>3. CASE l = Append(c.lru, k)
    BY <1>2, <1>3, <2>1, <2>3, PushBackLemma
  <2> QED BY <2>2, <2>3, ZenonT(30)
<1>5. /\ OnUnpinnedNodeAdded(c.evictable, v) =
           IF v \in Resident THEN Cardinality(E \cup {k}) ELSE Cardinality(E \ {k})
      /\ Cardinality(E \cup {k}) \in Nat /\ Cardinality(E \ {k}) \in Nat
  BY <1>3, HookLemma, ZenonT(30)
<1> HIDE DEF E
<1>6. /\ d.lru = l /\ d.cand = c.cand /\ d.pins = c.pins
      /\ d.val = [c.val EXCEPT ![k] = v]
      /\ d.evictable = OnUnpinnedNodeAdded(c.evictable, v) /\ d \in Caches
  <2> DEFINE w == [c.val EXCEPT ![k] = v]
             n == OnUnpinnedNodeAdded(c.evictable, v)
  <2>1. w \in [Keys -> Values \cup {Absent}] /\ n \in Nat
    BY <1>2, <1>5, ZenonT(30)
  <2>2. d = [c EXCEPT !.lru = l, !.val = w, !.evictable = n]
    BY ZenonT(30) DEF Inserted
  <2> HIDE DEF w, n, d
  <2> QED BY <1>1, <1>4, <2>1, <2>2, ZenonT(30) DEF Caches, w, n
<1> HIDE DEF d
<1>7. d.val[k] = v /\ v # Absent /\ \A x \in Keys \ {k} : d.val[x] = c.val[x]
  BY <1>2, <1>6, LRUAssumption, ZenonT(30)
<1>8. IsInjective(c.cand) /\ ToSet(l) \cap ToSet(c.cand) = {}
  BY <1>1, <1>3, <1>4, ZenonT(30) DEF Partitioned
<1>9. OneKeyStep(c, d, k)
  BY <1>3, <1>4, <1>5, <1>6, <1>7, <1>8, ZenonT(30) DEF OneKeyStep, E
<1>10. WellFormed(d)
  BY <1>6, <1>9, OneKeyLemma, ZenonT(30)
<1> QED BY <1>10, ZenonT(30) DEF d

\* Put and PutBack, through demotion and promotion.
LEMMA PutLemma ==
  ASSUME NEW c, WellFormed(c), NEW k \in Keys, NEW v \in Values
  PROVE  WellFormed(Put(c, k, v)) /\ WellFormed(PutBack(c, k, v))
<1>1. CASE Present(c, k)
  BY <1>1, SetValueLemma, PromoteLemma, ZenonT(30) DEF Put, PutBack
<1>2. CASE ~Present(c, k)
  <2> DEFINE d == MakeRoom(c)
  <2>1. WellFormed(d) /\ d.val = c.val
    BY EvictLemma, ZenonT(30) DEF MakeRoom
  <2>2. ~Present(d, k)
    BY <1>2, <2>1, ZenonT(30) DEF Present
  <2> HIDE DEF d
  <2>3. WellFormed(Inserted(d, k, v, <<k>> \o d.lru))
    BY <2>1, <2>2, InsertLemma, ZenonT(30)
  <2>4. WellFormed(Inserted(d, k, v, Append(d.lru, k)))
    BY <2>1, <2>2, InsertLemma, ZenonT(30)
  <2>5. Put(c, k, v) = c \/ Put(c, k, v) = Inserted(d, k, v, <<k>> \o d.lru)
    BY <1>2, ZenonT(30) DEF Put, Inserted, d
  <2>6. PutBack(c, k, v) = Inserted(d, k, v, Append(d.lru, k))
    BY <1>2, ZenonT(30) DEF PutBack, Inserted, d
  <2> QED BY <2>3, <2>4, <2>5, <2>6, ZenonT(30)
<1> QED BY <1>1, <1>2, ZenonT(30)

-----------------------------------------------------------------------------
(* The specification *)

\* A fresh or cleared cache is well formed.
LEMMA EmptyLemma == WellFormed(EmptyCache)
<1> DEFINE c == EmptyCache
<1>1. c \in Caches
  BY DEF EmptyCache, Caches
<1>2. ToSet(c.lru) = {} /\ ToSet(c.cand) = {}
  BY DEF EmptyCache, ToSet
<1>3. Partitioned(c)
  BY <1>2 DEF Partitioned, Present, EmptyCache, IsInjective
<1>4. EvictableSet(c) = {}
  BY LRUAssumption, ZenonT(30) DEF EvictableSet, EmptyCache
<1>5. c.evictable = Cardinality(EvictableSet(c))
  BY <1>4, FS_EmptySet, ZenonT(30) DEF EmptyCache
<1> QED BY <1>1, <1>3, <1>5, ZenonT(30) DEF WellFormed

\* Every public mutator of LRUCache keeps the cache well formed.
THEOREM WellFormedInvariant == CacheSpec => []WellFormed(cache)
<1>1. CacheInit => WellFormed(cache)
  BY EmptyLemma, ZenonT(30) DEF CacheInit
<1>2. WellFormed(cache) /\ [CacheNext]_cache => WellFormed(cache)'
  <2> SUFFICES ASSUME WellFormed(cache), [CacheNext]_cache
               PROVE  WellFormed(cache')
    BY ZenonT(30)
  <2>1. ASSUME NEW k \in Keys, NEW v \in Values, DoPut(k, v) PROVE WellFormed(cache')
    BY <2>1, PutLemma, ZenonT(30) DEF DoPut
  <2>2. ASSUME NEW k \in Keys, NEW v \in Values, DoPutBack(k, v) PROVE WellFormed(cache')
    BY <2>2, PutLemma, ZenonT(30) DEF DoPutBack
  <2>3. ASSUME NEW k \in Keys, NEW v \in Values, DoUpdateValue(k, v) PROVE WellFormed(cache')
    BY <2>3, SetValueLemma, ZenonT(30) DEF DoUpdateValue, UpdateValue, Active
  <2>4. ASSUME NEW k \in Keys, DoGet(k) PROVE WellFormed(cache')
    BY <2>4, PromoteLemma, ZenonT(30) DEF DoGet, Get
  <2>5. ASSUME NEW k \in Keys, DoPin(k) PROVE WellFormed(cache')
    BY <2>5, PinLemma, ZenonT(30) DEF DoPin
  <2>6. ASSUME NEW k \in Keys, DoUnpin(k) PROVE WellFormed(cache')
    BY <2>6, UnpinLemma, ZenonT(30) DEF DoUnpin
  <2>7. ASSUME NEW k \in Keys, DoErase(k) PROVE WellFormed(cache')
    BY <2>7, EraseLemma, ZenonT(30) DEF DoErase
  <2>8. CASE DoEvict
    BY <2>8, EvictLemma, ZenonT(30) DEF DoEvict
  <2>9. CASE ClearCache
    BY <2>9, EmptyLemma, ZenonT(30) DEF ClearCache
  <2>10. CASE UNCHANGED cache
    BY <2>10, ZenonT(30)
  <2> QED BY <2>1, <2>2, <2>3, <2>4, <2>5, <2>6, <2>7, <2>8, <2>9, <2>10, ZenonT(30) DEF CacheNext
<1> QED BY <1>1, <1>2, PTL DEF CacheSpec

\* The type invariant, for every instance.
THEOREM TypeCorrect == CacheSpec => []CacheTypeOK
<1>1. WellFormed(cache) => CacheTypeOK
  BY ZenonT(30) DEF WellFormed, CacheTypeOK
<1> QED BY <1>1, WellFormedInvariant, PTL

\* The location of every node agrees with its list, for every instance.
THEOREM ListsPartitionInvariant == CacheSpec => []ListsPartition
<1>1. WellFormed(cache) => ListsPartition
  BY ZenonT(30) DEF WellFormed, ListsPartition
<1> QED BY <1>1, WellFormedInvariant, PTL

\* The evictable-block counter behind NumEvictableHostBlocks is exact, for
\* every instance.
THEOREM EvictableExactInvariant == CacheSpec => []EvictableExact
<1>1. WellFormed(cache) => EvictableExact
  BY ZenonT(30) DEF WellFormed, EvictableExact
<1> QED BY <1>1, WellFormedInvariant, PTL

\* What a single operation may do to a key that is pinned before it.
PinKept(c, d, k) ==
  /\ d.pins[k] >= c.pins[k] - 1
  /\ d.val[k] # Absent
  /\ d.pins[k] = 0 => k \in ToSet(d.lru)

\* Operations that leave pins alone and overwrite at most one value keep it.
LEMMA PinKeptLemma ==
  ASSUME NEW c, WellFormed(c), NEW k \in Keys, c.pins[k] > 0,
         NEW d, d.pins = c.pins,
         d.val[k] = c.val[k] \/ d.val[k] \in Values
  PROVE  PinKept(c, d, k)
<1>1. c.pins[k] \in Nat /\ c.val[k] # Absent
  BY ZenonT(30) DEF WellFormed, Caches, Partitioned, Present
<1> QED BY <1>1, LRUAssumption DEF PinKept

\* Put, PutBack, UpdateValue, Get and Evict never touch a pin, nor the value
\* of another key.
LEMMA ValueOpsLemma ==
  ASSUME NEW c, WellFormed(c), NEW j \in Keys, NEW v \in Values,
         NEW d \in {Put(c, j, v), PutBack(c, j, v), UpdateValue(c, j, v),
                    Get(c, j), Evict(c)}
  PROVE  /\ d.pins = c.pins
         /\ \A k \in Keys : d.val[k] = c.val[k] \/ d.val[k] \in Values
<1> DEFINE Same(e) == /\ e \in Caches /\ e.pins = c.pins
                      /\ \A k \in Keys : e.val[k] = c.val[k] \/ e.val[k] \in Values
<1>1. Same(c)
  BY ZenonT(30) DEF WellFormed
<1>2. ASSUME NEW e, Same(e) PROVE /\ Promote(e, j).pins = c.pins /\ Promote(e, j).val = e.val
                                  /\ PromoteBack(e, j).pins = c.pins /\ PromoteBack(e, j).val = e.val
  BY <1>2, ZenonT(30) DEF Promote, PromoteBack, Caches
<1>3. CASE Present(c, j)
  <2>1. WellFormed(SetValue(c, j, v)) /\ SetValue(c, j, v).pins = c.pins
    BY <1>3, SetValueLemma, ZenonT(30)
  <2>2. SetValue(c, j, v).val = [c.val EXCEPT ![j] = v]
    BY <1>1, ZenonT(30) DEF SetValue, Caches
  <2>3. Same(SetValue(c, j, v))
    BY <1>1, <2>1, <2>2, ZenonT(30) DEF WellFormed, Caches
  <2>4. Evict(c).pins = c.pins /\ Evict(c).val = c.val
    BY EvictLemma, ZenonT(30)
  <2> HIDE DEF Same
  <2>5. ASSUME NEW e, Same(e)
        PROVE  /\ Promote(e, j).pins = c.pins /\ PromoteBack(e, j).pins = c.pins
               /\ \A k \in Keys : Promote(e, j).val[k] = c.val[k] \/ Promote(e, j).val[k] \in Values
               /\ \A k \in Keys : PromoteBack(e, j).val[k] = c.val[k] \/ PromoteBack(e, j).val[k] \in Values
    BY <1>2, <2>5, ZenonT(30) DEF Same
  <2>6. d \in {Promote(SetValue(c, j, v), j), PromoteBack(SetValue(c, j, v), j), Promote(c, j)}
        \/ d \in {SetValue(c, j, v), c} \/ d = Evict(c)
    BY <1>3, ZenonT(30) DEF Put, PutBack, UpdateValue, Get
  <2>7. CASE d \in {Promote(SetValue(c, j, v), j), PromoteBack(SetValue(c, j, v), j), Promote(c, j)}
    BY <1>1, <2>3, <2>5, <2>7
  <2>8. CASE d \in {SetValue(c, j, v), c}
    BY <1>1, <2>3, <2>8, ZenonT(30) DEF Same
  <2>9. CASE d = Evict(c)
    BY <2>4, <2>9, ZenonT(30)
  <2> QED BY <2>6, <2>7, <2>8, <2>9, ZenonT(30)
<1>4. CASE ~Present(c, j)
  <2> DEFINE m == MakeRoom(c)
  <2>1. WellFormed(m) /\ m.pins = c.pins /\ m.val = c.val
    BY EvictLemma, ZenonT(30) DEF MakeRoom
  <2>2. Evict(c).pins = c.pins /\ Evict(c).val = c.val
    BY EvictLemma, ZenonT(30)
  <2> HIDE DEF m
  <2>3. ASSUME NEW l PROVE /\ Inserted(m, j, v, l).pins = c.pins
                           /\ Inserted(m, j, v, l).val = [c.val EXCEPT ![j] = v]
    BY <2>1, ZenonT(30) DEF Inserted, WellFormed, Caches
  <2>4. \A k \in Keys : [c.val EXCEPT ![j] = v][k] = c.val[k] \/ [c.val EXCEPT ![j] = v][k] \in Values
    BY <1>1, ZenonT(30) DEF Caches
  <2>5. Put(c, j, v) = c \/ Put(c, j, v) = Inserted(m, j, v, <<j>> \o m.lru)
    BY <1>4, ZenonT(30) DEF Put, Inserted, m
  <2>6. PutBack(c, j, v) = Inserted(m, j, v, Append(m.lru, j))
    BY <1>4, ZenonT(30) DEF PutBack, Inserted, m
  <2>7. UpdateValue(c, j, v) = c /\ Get(c, j) = c
    BY <1>4, ZenonT(30) DEF UpdateValue, Get, Active
  <2>8. CASE d.pins = c.pins /\ d.val = c.val
    BY <2>8, ZenonT(30)
  <2>9. CASE d.pins = c.pins /\ d.val = [c.val EXCEPT ![j] = v]
    BY <2>4, <2>9, ZenonT(30)
  <2>10. CASE d \in {Put(c, j, v), PutBack(c, j, v)}
    <3>1. d = c \/ \E l : d = Inserted(m, j, v, l)
      BY <2>5, <2>6, <2>10, ZenonT(30)
    <3> QED BY <2>3, <2>8, <2>9, <3>1, ZenonT(30)
  <2>11. CASE d \in {UpdateValue(c, j, v), Get(c, j), Evict(c)}
    BY <2>2, <2>7, <2>8, <2>11, ZenonT(30)
  <2> QED BY <2>10, <2>11, ZenonT(30)
<1> QED BY <1>3, <1>4, ZenonT(30)

\* Pin, Unpin and Erase of any key.
LEMMA PinOpsLemma ==
  ASSUME NEW c, WellFormed(c), NEW j \in Keys, NEW k \in Keys, c.pins[k] > 0
  PROVE  /\ PinKept(c, Pin(c, j), k)
         /\ PinKept(c, Unpin(c, j), k)
         /\ PinKept(c, Erase(c, j), k)
<1>1. c \in Caches /\ c.val[k] # Absent
  BY ZenonT(30) DEF WellFormed, Partitioned, Present
<1>2. /\ c.pins \in [Keys -> Nat] /\ c.val \in [Keys -> Values \cup {Absent}]
      /\ c.lru \in Seq(Keys)
  BY <1>1, ZenonT(30) DEF Caches
<1>3. PinKept(c, c, k)
  BY <1>1, <1>2 DEF PinKept
<1>4. PinKept(c, Pin(c, j), k)
  <2>1. CASE ~Present(c, j)
    BY <1>3, <2>1, ZenonT(30) DEF Pin
  <2>2. CASE Present(c, j) /\ c.pins[j] > 0
    <3>1. Pin(c, j) = [c EXCEPT !.pins = [c.pins EXCEPT ![j] = c.pins[j] + 1]]
      BY <2>2, ZenonT(30) DEF Pin
    <3>2. Pin(c, j).val = c.val /\ Pin(c, j).pins = [c.pins EXCEPT ![j] = c.pins[j] + 1]
      BY <1>1, <3>1, ZenonT(30) DEF Caches
    <3>3. Pin(c, j).pins[k] >= c.pins[k] /\ Pin(c, j).pins[k] \in Nat
      BY <1>2, <3>2
    <3> QED BY <1>1, <1>2, <3>2, <3>3 DEF PinKept
  <2>3. CASE Present(c, j) /\ c.pins[j] = 0
    <3>1. j # k
      BY <2>3
    <3>2. Pin(c, j).val = c.val /\ Pin(c, j).pins = [c.pins EXCEPT ![j] = 1]
      BY <1>1, <2>3 DEF Pin, Caches
    <3>3. Pin(c, j).pins[k] = c.pins[k]
      BY <1>2, <3>1, <3>2, ZenonT(30)
    <3> QED BY <1>1, <1>2, <3>2, <3>3 DEF PinKept
  <2> QED BY <1>2, <2>1, <2>2, <2>3
<1>5. PinKept(c, Unpin(c, j), k)
  <2>1. CASE ~Present(c, j) \/ c.pins[j] = 0
    BY <1>3, <2>1, ZenonT(30) DEF Unpin
  <2>2. CASE Present(c, j) /\ c.pins[j] > 1
    <3>1. Unpin(c, j) = [c EXCEPT !.pins = [c.pins EXCEPT ![j] = c.pins[j] - 1]]
      BY <1>2, <2>2 DEF Unpin
    <3>2. Unpin(c, j).val = c.val /\ Unpin(c, j).pins = [c.pins EXCEPT ![j] = c.pins[j] - 1]
      BY <1>1, <3>1, ZenonT(30) DEF Caches
    <3>3. Unpin(c, j).pins[k] >= c.pins[k] - 1 /\ Unpin(c, j).pins[k] > 0
      BY <1>2, <2>2, <3>2
    <3> QED BY <1>1, <3>2, <3>3 DEF PinKept
  <2>3. CASE Present(c, j) /\ c.pins[j] = 1
    <3> DEFINE n == OnUnpinnedNodeAdded(c.evictable, c.val[j])
    <3>1. Unpin(c, j) = [c EXCEPT !.pins = [c.pins EXCEPT ![j] = 0], !.lru = <<j>> \o c.lru, !.evictable = n]
      BY <2>3 DEF Unpin
    <3> HIDE DEF n
    <3>2. /\ Unpin(c, j).val = c.val /\ Unpin(c, j).pins = [c.pins EXCEPT ![j] = 0]
          /\ Unpin(c, j).lru = <<j>> \o c.lru
      BY <1>1, <3>1, ZenonT(30) DEF Caches
    <3>3. Unpin(c, j).pins[k] = IF j = k THEN 0 ELSE c.pins[k]
      BY <1>2, <3>2, ZenonT(30)
    <3>4. j \in ToSet(<<j>> \o c.lru)
      <4>1. 1 \in DOMAIN (<<j>> \o c.lru) /\ (<<j>> \o c.lru)[1] = j
        BY <1>2
      <4> QED BY <4>1, ZenonT(30) DEF ToSet
    <3> QED BY <1>1, <1>2, <2>3, <3>2, <3>3, <3>4 DEF PinKept
  <2> QED BY <1>2, <2>1, <2>2, <2>3
<1>6. PinKept(c, Erase(c, j), k)
  <2>1. CASE ~Present(c, j) \/ c.pins[j] > 0
    BY <1>3, <2>1, ZenonT(30) DEF Erase
  <2>2. CASE Present(c, j) /\ c.pins[j] = 0
    <3>1. Erase(c, j).pins = c.pins /\ Erase(c, j).val = [c.val EXCEPT ![j] = Absent]
      BY <1>1, <2>2 DEF Erase, Caches
    <3> QED BY <1>1, <1>2, <2>2, <3>1 DEF PinKept
  <2> QED BY <1>2, <2>1, <2>2
<1> QED BY <1>4, <1>5, <1>6, ZenonT(30)

\* "Pinned items are protected": no operation but ClearCache removes a pinned
\* entry, demotes it, or loses more than one of its pins.
THEOREM PinsProtect == CacheSpec => PinProtects
<1> DEFINE Protected == \A k \in Keys :
             cache.pins[k] > 0 /\ cache' # EmptyCache =>
               /\ cache'.pins[k] >= cache.pins[k] - 1
               /\ cache'.val[k] # Absent
               /\ k \notin ToSet(cache'.cand)
<1>1. ASSUME WellFormed(cache), WellFormed(cache)', CacheNext
      PROVE  Protected
  <2> SUFFICES ASSUME NEW k \in Keys, cache.pins[k] > 0, cache' # EmptyCache
               PROVE  /\ cache'.pins[k] >= cache.pins[k] - 1
                      /\ cache'.val[k] # Absent
                      /\ k \notin ToSet(cache'.cand)
    BY ZenonT(30)
  <2> USE <1>1
  <2>1. ASSUME NEW j \in Keys, NEW v \in Values,
               cache' \in {Put(cache, j, v), PutBack(cache, j, v),
                          UpdateValue(cache, j, v), Get(cache, j), Evict(cache)}
        PROVE  PinKept(cache, cache', k)
    BY <2>1, ValueOpsLemma, PinKeptLemma
  <2>2. ASSUME NEW j \in Keys, cache' \in {Pin(cache, j), Unpin(cache, j), Erase(cache, j)}
        PROVE  PinKept(cache, cache', k)
    BY <2>2, PinOpsLemma, ZenonT(30)
  <2>3. k \in Keys /\ cache.val[k] \in Values
    BY ZenonT(30) DEF WellFormed, Partitioned, Present, Caches
  <2>4. PinKept(cache, cache', k)
    <3>1. CASE \E j \in Keys, v \in Values :
                 DoPut(j, v) \/ DoPutBack(j, v) \/ DoUpdateValue(j, v)
      BY <2>1, <3>1, ZenonT(30) DEF DoPut, DoPutBack, DoUpdateValue
    <3>2. CASE (\E j \in Keys : DoGet(j)) \/ DoEvict
      BY <2>1, <2>3, <3>2, ZenonT(30) DEF DoGet, DoEvict
    <3>3. CASE \E j \in Keys : DoPin(j) \/ DoUnpin(j) \/ DoErase(j)
      BY <2>2, <3>3, ZenonT(30) DEF DoPin, DoUnpin, DoErase
    <3> QED BY <3>1, <3>2, <3>3, ZenonT(30) DEF CacheNext, ClearCache
  <2>5. k \in ToSet(cache'.cand) => cache'.pins[k] = 0 /\ k \notin ToSet(cache'.lru)
    BY ZenonT(30) DEF WellFormed, Partitioned
  <2> QED BY <2>4, <2>5, ZenonT(30) DEF PinKept
<1>2. ASSUME WellFormed(cache), WellFormed(cache)', [CacheNext]_cache
      PROVE  [Protected]_cache
  BY <1>1, <1>2, ZenonT(30)
<1> QED BY <1>2, WellFormedInvariant, PTL DEF CacheSpec, PinProtects
=============================================================================

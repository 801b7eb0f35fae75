--------------------------- MODULE L1CacheProofs ---------------------------
(***************************************************************************)
(* Proofs about L1Cache, for any keys, limits and lifetimes: the list and  *)
(* the map describe the same entries, the list is in the order of use, and *)
(* nothing is evicted that is recent enough for every limit.               *)
(***************************************************************************)
EXTENDS L1Cache, FiniteSetTheorems, TLAPS

USE LimitsAssumption, MaxTTLAssumption

\* s lists each key of S once.
Lists(s, S) ==
    /\ \A i \in 1..Len(s) : s[i] \in S
    /\ \A k \in S : \E i \in 1..Len(s) : s[i] = k
    /\ \A i, j \in 1..Len(s) : s[i] = s[j] => i = j

\* list.PushFront of a key that is not listed.
LEMMA PushFrontLists ==
    ASSUME NEW S, S \subseteq Keys, NEW s \in Seq(Keys), Lists(s, S), NEW k \in Keys, k \notin S
    PROVE  PushFront(s, k) \in Seq(Keys) /\ Lists(PushFront(s, k), S \cup {k})
<1> DEFINE t == PushFront(s, k)
<1>1. t \in Seq(Keys) /\ Len(t) = Len(s) + 1
  BY DEF PushFront
<1>2. \A i \in 1..Len(t) : t[i] = IF i = 1 THEN k ELSE s[i - 1]
  BY <1>1 DEF PushFront
<1> HIDE DEF t
<1>3. \A i \in 1..Len(t) : t[i] \in S \cup {k}
  BY <1>1, <1>2 DEF Lists
<1>4. ASSUME NEW q \in S \cup {k} PROVE \E i \in 1..Len(t) : t[i] = q
  <2>1. CASE q = k
    <3>1. 1 \in 1..Len(t) /\ t[1] = k
      BY <1>1, <1>2
    <3> QED BY <2>1, <3>1
  <2>2. CASE q \in S
    <3>1. PICK i \in 1..Len(s) : s[i] = q
      BY <2>2 DEF Lists
    <3>2. i + 1 \in 1..Len(t) /\ t[i + 1] = q
      BY <1>1, <1>2, <3>1
    <3> QED BY <3>2
  <2> QED BY <2>1, <2>2
<1>5. \A i, j \in 1..Len(t) : t[i] = t[j] => i = j
  BY <1>1, <1>2 DEF Lists
<1> QED BY <1>1, <1>3, <1>4, <1>5 DEF Lists, t

\* list.Remove of one element.
LEMMA RemoveElementLists ==
    ASSUME NEW S, S \subseteq Keys, NEW s \in Seq(Keys), Lists(s, S), NEW n \in 1..Len(s)
    PROVE  /\ RemoveElement(s, n) \in Seq(Keys)
           /\ Lists(RemoveElement(s, n), S \ {s[n]})
<1> DEFINE t == RemoveElement(s, n)
<1>1. t \in Seq(Keys) /\ Len(t) = Len(s) - 1
  BY DEF RemoveElement
<1>2. \A i \in 1..Len(t) : t[i] = IF i < n THEN s[i] ELSE s[i + 1]
  BY <1>1 DEF RemoveElement
<1> HIDE DEF t
<1>3. \A i \in 1..Len(t) : t[i] \in S \ {s[n]}
  BY <1>1, <1>2 DEF Lists
<1>4. ASSUME NEW q \in S \ {s[n]} PROVE \E i \in 1..Len(t) : t[i] = q
  <2>1. PICK i \in 1..Len(s) : s[i] = q
    BY DEF Lists
  <2>2. CASE i < n
    <3>1. i \in 1..Len(t) /\ t[i] = q
      BY <1>1, <1>2, <2>1, <2>2
    <3> QED BY <3>1
  <2>3. CASE i > n
    <3>1. i - 1 \in 1..Len(t) /\ t[i - 1] = q
      BY <1>1, <1>2, <2>1, <2>3
    <3> QED BY <3>1
  <2> QED BY <2>1, <2>2, <2>3
<1>5. \A i, j \in 1..Len(t) : t[i] = t[j] => i = j
  BY <1>1, <1>2 DEF Lists
<1> QED BY <1>1, <1>3, <1>4, <1>5 DEF Lists, t

\* list.MoveToFront keeps the listed keys.
LEMMA MoveToFrontLists ==
    ASSUME NEW S, S \subseteq Keys, NEW s \in Seq(Keys), Lists(s, S), NEW n \in 1..Len(s)
    PROVE  MoveToFront(s, n) \in Seq(Keys) /\ Lists(MoveToFront(s, n), S)
<1> DEFINE t == RemoveElement(s, n)
<1>1. s[n] \in Keys /\ s[n] \in S
  BY DEF Lists
<1>2. t \in Seq(Keys) /\ Lists(t, S \ {s[n]})
  BY RemoveElementLists
<1> HIDE DEF t
<1>3. S \ {s[n]} \subseteq Keys /\ s[n] \notin S \ {s[n]} /\ (S \ {s[n]}) \cup {s[n]} = S
  BY <1>1
<1>4. PushFront(t, s[n]) \in Seq(Keys) /\ Lists(PushFront(t, s[n]), (S \ {s[n]}) \cup {s[n]})
  BY <1>1, <1>2, <1>3, PushFrontLists
<1> QED BY <1>3, <1>4 DEF MoveToFront, t

\* The list operations stay within the sequences of keys.
LEMMA ListTypes ==
    ASSUME NEW s \in Seq(Keys), NEW k \in Keys, NEW n \in 1..Len(s)
    PROVE  /\ MoveToFront(s, n) \in Seq(Keys)
           /\ RemoveElement(s, n) \in Seq(Keys)
<1>1. RemoveElement(s, n) \in Seq(Keys) /\ s[n] \in Keys
  BY DEF RemoveElement
<1> HIDE DEF RemoveElement
<1>2. PushFront(RemoveElement(s, n), s[n]) \in Seq(Keys)
  BY <1>1 DEF PushFront
<1> QED BY <1>1, <1>2 DEF MoveToFront

\* The element that h.cache points to is the list element of its key.
LEMMA ElementOfKey ==
    ASSUME NEW s \in Seq(Keys), NEW k, \E i \in 1..Len(s) : s[i] = k
    PROVE  ElementOf(s, k) \in 1..Len(s) /\ s[ElementOf(s, k)] = k
  BY DEF ElementOf

\* A use of a key keeps the use order a sequence of keys.
LEMMA UseType ==
    ASSUME NEW k \in Keys, used \in Seq(Keys), lapsed \subseteq Keys, Use(k)
    PROVE  used' \in Seq(Keys) /\ lapsed' \subseteq Keys
<1>1. CASE \E i \in 1..Len(used) : used[i] = k
  BY <1>1, ElementOfKey, ListTypes DEF Use
<1>2. CASE ~\E i \in 1..Len(used) : used[i] = k
  BY <1>2 DEF Use, PushFront
<1> QED BY <1>1, <1>2

L1Inv == TypeOK /\ ListMatchesMap /\ IsFiniteSet(DOMAIN cache) /\ WithinLargestLimit

\* ListMatchesMap says that the list lists the domain of the map.
LEMMA ListMatchesMapMeaning == ListMatchesMap <=> Lists(cacheOrder, DOMAIN cache)
  BY DEF ListMatchesMap, Lists

\* A hit moves the entry to the front, and it has not expired.
LEMMA GetHitInv == ASSUME L1Inv, NEW k \in Keys, GetHit(k) PROVE L1Inv'
<1> DEFINE n == ElementOf(cacheOrder, k)
<1>1. n \in 1..Len(cacheOrder)
  BY ElementOfKey DEF L1Inv, TypeOK, ListMatchesMap, GetHit
<1>2. cacheOrder' \in Seq(Keys) /\ Lists(cacheOrder', DOMAIN cache)
  BY <1>1, MoveToFrontLists, ListMatchesMapMeaning DEF L1Inv, TypeOK, GetHit
<1>3. TypeOK'
  BY <1>2, UseType DEF L1Inv, TypeOK, GetHit
<1>5. cacheOrder # << >> /\ cache' = cache
  <2>1. Len(cacheOrder) > 0
    BY <1>1 DEF L1Inv, TypeOK
  <2> QED BY <2>1 DEF GetHit, L1Inv, TypeOK
<1> QED BY <1>2, <1>3, <1>5 DEF L1Inv, ListMatchesMap, Lists, WithinLargestLimit

\* An expired entry leaves the map and the list.
LEMMA GetExpiredInv == ASSUME L1Inv, NEW k \in Keys, GetExpired(k) PROVE L1Inv'
<1> DEFINE n == ElementOf(cacheOrder, k)
<1>1. n \in 1..Len(cacheOrder) /\ cacheOrder[n] = k
  BY ElementOfKey DEF L1Inv, TypeOK, ListMatchesMap, GetExpired
<1>2. cacheOrder' \in Seq(Keys) /\ Lists(cacheOrder', DOMAIN cache \ {k})
  BY <1>1, RemoveElementLists, ListMatchesMapMeaning DEF L1Inv, TypeOK, GetExpired
<1>3. cache' \in [DOMAIN cache \ {k} -> Values] /\ DOMAIN cache' = DOMAIN cache \ {k}
  BY DEF GetExpired, Without, L1Inv, TypeOK
<1>4. IsFiniteSet(DOMAIN cache') /\ Cardinality(DOMAIN cache') <= Cardinality(DOMAIN cache)
  BY <1>3, FS_Subset DEF L1Inv
<1>5. Cardinality(DOMAIN cache) \in Nat /\ Cardinality(DOMAIN cache') \in Nat
  BY <1>4, FS_CardinalityType DEF L1Inv
<1>6. \E m \in Limits : Cardinality(DOMAIN cache') <= m
  <2>1. Len(cacheOrder) > 0
    BY <1>1 DEF L1Inv, TypeOK
  <2>2. PICK m \in Limits : Cardinality(DOMAIN cache) <= m
    BY <2>1 DEF L1Inv, WithinLargestLimit
  <2> QED BY <1>4, <1>5, <2>2
<1>7. TypeOK'
  BY <1>2, <1>3 DEF L1Inv, TypeOK, GetExpired
<1> QED BY <1>2, <1>3, <1>4, <1>6, <1>7 DEF L1Inv, ListMatchesMap, Lists, WithinLargestLimit

\* An update of a cached key keeps the set of entries.
LEMMA SetExistingInv ==
    ASSUME L1Inv, NEW k \in Keys, NEW v \in Values, NEW m \in Limits, SetExisting(k, v, m)
    PROVE  L1Inv'
<1> DEFINE n == ElementOf(cacheOrder, k)
<1>1. n \in 1..Len(cacheOrder)
  BY ElementOfKey DEF L1Inv, TypeOK, ListMatchesMap, SetExisting
<1>2. cacheOrder' \in Seq(Keys) /\ Lists(cacheOrder', DOMAIN cache)
  BY <1>1, MoveToFrontLists, ListMatchesMapMeaning DEF L1Inv, TypeOK, SetExisting
<1>4. cache' \in [DOMAIN cache -> Values] /\ DOMAIN cache' = DOMAIN cache
  BY DEF SetExisting, With, L1Inv, TypeOK
<1>5. TypeOK'
  BY <1>2, <1>4, UseType DEF L1Inv, TypeOK, SetExisting
<1>6. Len(cacheOrder) > 0
  BY <1>1 DEF L1Inv, TypeOK
<1> QED BY <1>2, <1>4, <1>5, <1>6 DEF L1Inv, ListMatchesMap, Lists, WithinLargestLimit

\* A new entry takes the place of the last one once the cache is full.
LEMMA SetNewInv ==
    ASSUME L1Inv, NEW k \in Keys, NEW v \in Values, NEW m \in Limits, SetNew(k, v, m)
    PROVE  L1Inv'
<1> DEFINE D == DOMAIN cache
<1> DEFINE last == cacheOrder[Len(cacheOrder)]
<1>2. /\ D \subseteq Keys /\ k \notin D /\ cacheOrder \in Seq(Keys) /\ Lists(cacheOrder, D)
      /\ IsFiniteSet(D) /\ Cardinality(D) \in Nat /\ m \in Int /\ m > 0
  BY FS_CardinalityType DEF L1Inv, TypeOK, ListMatchesMap, Lists, SetNew
<1>3. CASE Full(m) /\ cacheOrder # << >>
  <2>1. Len(cacheOrder) \in 1..Len(cacheOrder)
    BY <1>2, <1>3
  <2>2. last \in D
    BY <1>2, <2>1 DEF Lists
  <2> DEFINE s == RemoveElement(cacheOrder, Len(cacheOrder))
  <2> DEFINE E == D \ {last}
  <2>3. s \in Seq(Keys) /\ Lists(s, E)
    BY <1>2, <2>1, RemoveElementLists
  <2>4. cacheOrder' = PushFront(s, k) /\ cache' = With(Without(cache, last), k, v)
    BY <1>3 DEF SetNew
  <2> HIDE DEF s
  <2>5. cacheOrder' \in Seq(Keys) /\ Lists(cacheOrder', E \cup {k})
    BY <1>2, <2>3, <2>4, PushFrontLists
  <2>6. cache' \in [E \cup {k} -> Values] /\ DOMAIN cache' = E \cup {k}
    BY <2>4 DEF With, Without, L1Inv, TypeOK
  <2>7. IsFiniteSet(E) /\ Cardinality(E) = Cardinality(D) - 1
    BY <1>2, <2>2, FS_RemoveElement
  <2>8. IsFiniteSet(E \cup {k}) /\ Cardinality(E \cup {k}) = Cardinality(E) + 1
    BY <1>2, <2>7, FS_AddElement
  <2>9. PICK b \in Limits : Cardinality(D) <= b
    BY <1>3 DEF L1Inv, WithinLargestLimit
  <2>10. Cardinality(DOMAIN cache') <= b
    BY <1>2, <2>6, <2>7, <2>8, <2>9
  <2>11. TypeOK'
    BY <1>2, <2>5, <2>6, UseType DEF L1Inv, TypeOK, SetNew
  <2> QED BY <2>5, <2>6, <2>8, <2>10, <2>11 DEF L1Inv, ListMatchesMap, Lists, WithinLargestLimit
<1>4. CASE ~(Full(m) /\ cacheOrder # << >>)
  <2>1. cacheOrder' = PushFront(cacheOrder, k) /\ cache' = With(cache, k, v)
    BY <1>4 DEF SetNew
  <2>2. cacheOrder' \in Seq(Keys) /\ Lists(cacheOrder', D \cup {k})
    BY <1>2, <2>1, PushFrontLists
  <2>3. cache' \in [D \cup {k} -> Values] /\ DOMAIN cache' = D \cup {k}
    BY <2>1 DEF With, L1Inv, TypeOK
  <2>4. IsFiniteSet(D \cup {k}) /\ Cardinality(D \cup {k}) = Cardinality(D) + 1
    BY <1>2, FS_AddElement
  <2>5. Cardinality(D) < m
    <3>1. CASE cacheOrder = << >>
      <4>1. \A q \in D : \E i \in 1..Len(cacheOrder) : TRUE
        BY <1>2 DEF Lists
      <4>2. 1..Len(cacheOrder) = {}
        BY <3>1
      <4>3. D = {}
        BY <4>1, <4>2
      <4> QED BY <1>2, <4>3, FS_EmptySet
    <3>2. CASE ~Full(m)
      BY <1>2, <3>2 DEF Full
    <3> QED BY <1>4, <3>1, <3>2
  <2>6. Cardinality(DOMAIN cache') <= m
    BY <1>2, <2>3, <2>4, <2>5
  <2>7. TypeOK'
    BY <1>2, <2>2, <2>3, UseType DEF L1Inv, TypeOK, SetNew
  <2> QED BY <2>2, <2>3, <2>4, <2>6, <2>7 DEF L1Inv, ListMatchesMap, Lists, WithinLargestLimit
<1> QED BY <1>3, <1>4

\* Time only shortens what is left of a lifetime.
LEMMA TickInv == ASSUME L1Inv, Tick PROVE L1Inv'
<1>1. DOMAIN cache' = DOMAIN cache /\ UNCHANGED <<cacheOrder, used, lapsed>>
  BY DEF Tick
<1>2. ASSUME NEW k \in DOMAIN cache PROVE cache'[k] \in Values
  <2>1. cache[k] \in Values
    BY DEF L1Inv, TypeOK
  <2> QED BY <2>1 DEF Tick, Values, TimeLeft, Sooner
<1>3. cache' \in [DOMAIN cache' -> Values]
  BY <1>1, <1>2 DEF Tick
<1> QED BY <1>1, <1>3 DEF L1Inv, TypeOK, ListMatchesMap, WithinLargestLimit

\* Every operation keeps the invariant.
THEOREM L1Invariant == Spec => []L1Inv
<1>1. Init => L1Inv
  BY FS_EmptySet DEF Init, L1Inv, TypeOK, ListMatchesMap, WithinLargestLimit,
     Values, TimeLeft
<1>2. L1Inv /\ [Next]_vars => L1Inv'
  <2> SUFFICES ASSUME L1Inv, [Next]_vars PROVE L1Inv'
    OBVIOUS
  <2>1. ASSUME NEW k \in Keys, GetMiss(k) \/ GetHit(k) \/ GetExpired(k) PROVE L1Inv'
    <3>1. CASE GetMiss(k)
      BY <3>1 DEF GetMiss, vars, L1Inv, TypeOK, ListMatchesMap, WithinLargestLimit
    <3> QED BY <2>1, <3>1, GetHitInv, GetExpiredInv
  <2>2. ASSUME NEW k \in Keys, NEW v \in Values, NEW m \in Limits,
               SetExisting(k, v, m) \/ SetNew(k, v, m)
        PROVE  L1Inv'
    BY <2>2, SetExistingInv, SetNewInv
  <2>3. CASE ClearL1
    BY <2>3, FS_EmptySet DEF ClearL1, L1Inv, TypeOK, ListMatchesMap,
       WithinLargestLimit
  <2>4. CASE UNCHANGED vars
    BY <2>4 DEF vars, L1Inv, TypeOK, ListMatchesMap, WithinLargestLimit
  <2> QED BY <2>1, <2>2, <2>3, <2>4, TickInv DEF Next, SetDisabled
<1> QED BY <1>1, <1>2, PTL DEF Spec

\* The map and the list of getL1, setL1, removeL1LRU and clearL1 describe the
\* same entries, for any number of keys and any sequence of limits.
THEOREM ListAndMapAgree == Spec => []ListMatchesMap
  BY L1Invariant, PTL DEF L1Inv

\* setL1 evicts one entry at most, and that is enough to stay within the
\* largest limit that any request works with.
THEOREM SizeIsBounded == Spec => []WithinLargestLimit
  BY L1Invariant, PTL DEF L1Inv

---------------------------------------------------------------------------
(* RecencyOrder                                                            *)

\* k is an element of s.
Has(s, k) == \E i \in 1..Len(s) : s[i] = k

\* No key is listed twice.
Distinct(s) == \A i, j \in 1..Len(s) : s[i] = s[j] => i = j

\* list.PushFront puts a key in front of all others.
LEMMA PushFrontOrder ==
    ASSUME NEW s \in Seq(Keys), Distinct(s), NEW k \in Keys, ~Has(s, k)
    PROVE  /\ Distinct(PushFront(s, k)) /\ PushFront(s, k) \in Seq(Keys)
           /\ \A a : Has(PushFront(s, k), a) <=> a = k \/ Has(s, a)
           /\ \A a, b : Before(PushFront(s, k), a, b) <=> (a = k /\ Has(s, b)) \/ Before(s, a, b)
<1> DEFINE t == PushFront(s, k)
<1>1. t \in Seq(Keys) /\ Len(t) = Len(s) + 1 /\ Len(s) \in Nat
  BY DEF PushFront
<1>2. /\ \A i \in 1..Len(t) : t[i] = IF i = 1 THEN k ELSE s[i - 1]
      /\ \A i \in 1..Len(s) : t[i + 1] = s[i]
  BY <1>1 DEF PushFront
<1> HIDE DEF t
<1>3. Distinct(t)
  <2> SUFFICES ASSUME NEW i \in 1..Len(t), NEW j \in 1..Len(t), t[i] = t[j] PROVE i = j
    BY DEF Distinct
  <2>1. ASSUME NEW m \in 1..Len(t), m # 1 PROVE m - 1 \in 1..Len(s) /\ t[m] = s[m - 1] /\ t[m] # k
    <3>1. m - 1 \in 1..Len(s) /\ t[m] = s[m - 1]
      BY <1>1, <1>2, <2>1
    <3> QED BY <3>1 DEF Has
  <2>2. t[1] = k
    BY <1>1, <1>2
  <2>3. CASE i = 1 \/ j = 1
    BY <2>1, <2>2, <2>3
  <2>4. CASE i # 1 /\ j # 1
    <3>1. i - 1 \in 1..Len(s) /\ j - 1 \in 1..Len(s) /\ s[i - 1] = s[j - 1]
      BY <2>1, <2>4
    <3>2. i - 1 = j - 1
      BY <3>1 DEF Distinct
    <3> QED BY <1>1, <3>2
  <2> QED BY <2>3, <2>4
<1>4. ASSUME NEW a PROVE Has(t, a) <=> a = k \/ Has(s, a)
  <2>1. ASSUME Has(t, a) PROVE a = k \/ Has(s, a)
    <3>1. PICK i \in 1..Len(t) : t[i] = a
      BY <2>1 DEF Has
    <3>2. CASE i = 1
      BY <1>2, <3>1, <3>2
    <3>3. CASE i > 1
      <4>1. i - 1 \in 1..Len(s) /\ s[i - 1] = a
        BY <1>1, <1>2, <3>1, <3>3
      <4> QED BY <4>1 DEF Has
    <3> QED BY <3>1, <3>2, <3>3
  <2>2. ASSUME Has(s, a) PROVE Has(t, a)
    <3>1. PICK i \in 1..Len(s) : s[i] = a
      BY <2>2 DEF Has
    <3>2. i + 1 \in 1..Len(t) /\ t[i + 1] = a
      BY <1>1, <1>2, <3>1
    <3> QED BY <3>2 DEF Has
  <2>3. Has(t, k)
    <3>1. 1 \in 1..Len(t) /\ t[1] = k
      BY <1>1, <1>2
    <3> QED BY <3>1 DEF Has
  <2> QED BY <2>1, <2>2, <2>3
<1>5. ASSUME NEW a, NEW b PROVE Before(t, a, b) <=> (a = k /\ Has(s, b)) \/ Before(s, a, b)
  <2>1. ASSUME Before(t, a, b) PROVE (a = k /\ Has(s, b)) \/ Before(s, a, b)
    <3>1. PICK i \in 1..Len(t), j \in 1..Len(t) : i < j /\ t[i] = a /\ t[j] = b
      BY <2>1 DEF Before
    <3>2. j - 1 \in 1..Len(s) /\ s[j - 1] = b
      BY <1>1, <1>2, <3>1
    <3>3. CASE i = 1
      BY <1>2, <3>1, <3>2, <3>3 DEF Has
    <3>4. CASE i > 1
      <4>1. i - 1 \in 1..Len(s) /\ s[i - 1] = a /\ i - 1 < j - 1
        BY <1>1, <1>2, <3>1, <3>4
      <4> QED BY <3>2, <4>1 DEF Before
    <3> QED BY <3>1, <3>3, <3>4
  <2>2. ASSUME a = k, Has(s, b) PROVE Before(t, a, b)
    <3>1. PICK j \in 1..Len(s) : s[j] = b
      BY <2>2 DEF Has
    <3>2. j + 1 \in 1..Len(t) /\ t[j + 1] = b /\ 1 \in 1..Len(t) /\ t[1] = a /\ 1 < j + 1
      BY <1>1, <1>2, <2>2, <3>1
    <3> QED BY <3>2 DEF Before
  <2>3. ASSUME Before(s, a, b) PROVE Before(t, a, b)
    <3>1. PICK i \in 1..Len(s), j \in 1..Len(s) : i < j /\ s[i] = a /\ s[j] = b
      BY <2>3 DEF Before
    <3>2. /\ i + 1 \in 1..Len(t) /\ t[i + 1] = a /\ j + 1 \in 1..Len(t) /\ t[j + 1] = b
          /\ i + 1 < j + 1
      BY <1>1, <1>2, <3>1
    <3> QED BY <3>2 DEF Before
  <2> QED BY <2>1, <2>2, <2>3
<1> QED BY <1>1, <1>3, <1>4, <1>5 DEF t

\* list.Remove keeps the order of the others.
LEMMA RemoveElementOrder ==
    ASSUME NEW s \in Seq(Keys), Distinct(s), NEW n \in 1..Len(s)
    PROVE  /\ Distinct(RemoveElement(s, n)) /\ RemoveElement(s, n) \in Seq(Keys)
           /\ \A a : Has(RemoveElement(s, n), a) <=> Has(s, a) /\ a # s[n]
           /\ \A a, b : Before(RemoveElement(s, n), a, b) <=> Before(s, a, b) /\ a # s[n] /\ b # s[n]
<1> DEFINE t == RemoveElement(s, n)
           At(i) == IF i < n THEN i ELSE i + 1
           From(i) == IF i < n THEN i ELSE i - 1
<1>1. t \in Seq(Keys) /\ Len(t) = Len(s) - 1 /\ Len(s) \in Nat
  BY DEF RemoveElement
<1>2. \A i \in 1..Len(t) : At(i) \in 1..Len(s) /\ t[i] = s[At(i)] /\ At(i) # n
  BY <1>1 DEF RemoveElement
<1>3. \A i \in 1..Len(s) : i # n => From(i) \in 1..Len(t) /\ t[From(i)] = s[i]
  BY <1>1 DEF RemoveElement
<1>4. \A i, j \in 1..Len(t) : i < j => At(i) < At(j)
  BY <1>1
<1>5. \A i, j \in 1..Len(s) : i < j /\ i # n /\ j # n => From(i) < From(j)
  BY <1>1
<1>6. \A i \in 1..Len(s) : s[i] = s[n] <=> i = n
  BY DEF Distinct
<1>7. \A i, j \in 1..Len(t) : At(i) = At(j) => i = j
  BY <1>1
<1> HIDE DEF t, At, From
<1>8. Distinct(t)
  BY <1>2, <1>7 DEF Distinct
<1>9. ASSUME NEW a PROVE Has(t, a) <=> Has(s, a) /\ a # s[n]
  BY <1>2, <1>3, <1>6 DEF Has
<1>10. ASSUME NEW a, NEW b PROVE Before(t, a, b) <=> Before(s, a, b) /\ a # s[n] /\ b # s[n]
  <2>1. ASSUME Before(t, a, b) PROVE Before(s, a, b) /\ a # s[n] /\ b # s[n]
    <3>1. PICK i \in 1..Len(t), j \in 1..Len(t) : i < j /\ t[i] = a /\ t[j] = b
      BY <2>1 DEF Before
    <3> QED BY <1>2, <1>4, <1>6, <3>1 DEF Before
  <2>2. ASSUME Before(s, a, b), a # s[n], b # s[n] PROVE Before(t, a, b)
    <3>1. PICK i \in 1..Len(s), j \in 1..Len(s) : i < j /\ s[i] = a /\ s[j] = b
      BY <2>2 DEF Before
    <3> QED BY <1>3, <1>5, <1>6, <2>2, <3>1 DEF Before
  <2> QED BY <2>1, <2>2
<1> QED BY <1>1, <1>8, <1>9, <1>10 DEF t

\* list.MoveToFront does both.
LEMMA MoveToFrontOrder ==
    ASSUME NEW s \in Seq(Keys), Distinct(s), NEW k \in Keys, Has(s, k)
    PROVE  LET t == MoveToFront(s, ElementOf(s, k)) IN
           /\ Distinct(t) /\ t \in Seq(Keys)
           /\ \A a : Has(t, a) <=> Has(s, a)
           /\ \A a, b : Before(t, a, b) <=>
                 (a = k /\ b # k /\ Has(s, b)) \/ (Before(s, a, b) /\ a # k /\ b # k)
<1> DEFINE n == ElementOf(s, k)
           u == RemoveElement(s, n)
<1>1. n \in 1..Len(s) /\ s[n] = k
  BY ElementOfKey DEF Has
<1> HIDE DEF n
<1>2. /\ Distinct(u) /\ u \in Seq(Keys)
      /\ \A a : Has(u, a) <=> Has(s, a) /\ a # k
      /\ \A a, b : Before(u, a, b) <=> Before(s, a, b) /\ a # k /\ b # k
  BY <1>1, RemoveElementOrder
<1> HIDE DEF u
<1>3. ~Has(u, k)
  BY <1>2
<1>4. /\ Distinct(PushFront(u, k)) /\ PushFront(u, k) \in Seq(Keys)
      /\ \A a : Has(PushFront(u, k), a) <=> a = k \/ Has(u, a)
      /\ \A a, b : Before(PushFront(u, k), a, b) <=> (a = k /\ Has(u, b)) \/ Before(u, a, b)
  BY <1>2, <1>3, PushFrontOrder
<1>5. MoveToFront(s, n) = PushFront(u, k)
  BY <1>1 DEF MoveToFront, u
<1> HIDE DEF Before, Has
<1> QED BY <1>2, <1>4, <1>5 DEF n

\* The use order has every cached key once, and the list agrees with it.
Recency ==
    /\ Distinct(used)
    /\ \A k \in DOMAIN cache : Has(used, k)
    /\ RecencyOrder

\* What a use does to the use order.
LEMMA UseOrder ==
    ASSUME used \in Seq(Keys), Distinct(used), NEW k \in Keys, Use(k)
    PROVE  /\ Distinct(used')
           /\ \A a : Has(used', a) <=> a = k \/ Has(used, a)
           /\ \A a, b : Before(used', a, b) <=>
                 (a = k /\ b # k /\ Has(used, b)) \/ (Before(used, a, b) /\ a # k /\ b # k)
<1>1. CASE Has(used, k)
  <2>1. used' = MoveToFront(used, ElementOf(used, k))
    BY <1>1 DEF Use, Has
  <2> QED BY <1>1, <2>1, MoveToFrontOrder
<1>2. CASE ~Has(used, k)
  <2>1. used' = PushFront(used, k)
    BY <1>2 DEF Use, Has
  <2>2. \A b : ~Before(used, k, b) /\ ~Before(used, b, k)
    BY <1>2 DEF Before, Has
  <2> QED BY <1>2, <2>1, <2>2, PushFrontOrder
<1> QED BY <1>1, <1>2

\* What L1Inv says of the list.
LEMMA CachedKeys ==
    ASSUME L1Inv
    PROVE  /\ cacheOrder \in Seq(Keys) /\ used \in Seq(Keys) /\ Distinct(cacheOrder)
           /\ DOMAIN cache \subseteq Keys
           /\ \A k : k \in DOMAIN cache <=> Has(cacheOrder, k)
  BY DEF L1Inv, TypeOK, ListMatchesMap, Distinct, Has

\* A key that is cached and used becomes the first in both orders.
LEMMA MoveRecency ==
    ASSUME L1Inv, Recency, NEW k \in DOMAIN cache, Use(k), DOMAIN cache' = DOMAIN cache,
           cacheOrder' = MoveToFront(cacheOrder, ElementOf(cacheOrder, k))
    PROVE  Recency'
<1>0. /\ cacheOrder \in Seq(Keys) /\ used \in Seq(Keys) /\ Distinct(cacheOrder) /\ k \in Keys
      /\ \A q : q \in DOMAIN cache <=> Has(cacheOrder, q)
  BY CachedKeys
<1>1. \A a, b : Before(cacheOrder', a, b) <=>
          (a = k /\ b # k /\ Has(cacheOrder, b)) \/ (Before(cacheOrder, a, b) /\ a # k /\ b # k)
  BY <1>0, MoveToFrontOrder
<1>2. /\ Distinct(used')
      /\ \A a : Has(used', a) <=> a = k \/ Has(used, a)
      /\ \A a, b : Before(used', a, b) <=>
            (a = k /\ b # k /\ Has(used, b)) \/ (Before(used, a, b) /\ a # k /\ b # k)
  BY <1>0, UseOrder DEF Recency
<1>3. RecencyOrder'
  BY <1>0, <1>1, <1>2 DEF Recency, RecencyOrder
<1> QED BY <1>2, <1>3 DEF Recency

\* Removing a key leaves the others in order.
LEMMA RemoveRecency ==
    ASSUME L1Inv, Recency, NEW k \in DOMAIN cache, DOMAIN cache' = DOMAIN cache \ {k}, used' = used,
           cacheOrder' = RemoveElement(cacheOrder, ElementOf(cacheOrder, k))
    PROVE  Recency'
<1>0. /\ cacheOrder \in Seq(Keys) /\ Distinct(cacheOrder) /\ Has(cacheOrder, k)
  BY CachedKeys
<1>1. ElementOf(cacheOrder, k) \in 1..Len(cacheOrder) /\ cacheOrder[ElementOf(cacheOrder, k)] = k
  BY <1>0, ElementOfKey DEF Has
<1>2. \A a, b : Before(cacheOrder', a, b) <=> Before(cacheOrder, a, b) /\ a # k /\ b # k
  BY <1>0, <1>1, RemoveElementOrder
<1>3. RecencyOrder'
  BY <1>2 DEF Recency, RecencyOrder
<1> QED BY <1>3 DEF Recency

\* A new key becomes the first in both orders, whether the last one goes or not.
LEMMA PushRecency ==
    ASSUME L1Inv, Recency, NEW k \in Keys, k \notin DOMAIN cache, Use(k),
           NEW s \in Seq(Keys), Distinct(s), NEW Gone, k \notin Gone,
           \A a : Has(s, a) <=> Has(cacheOrder, a) /\ a \notin Gone,
           \A a, b : Before(s, a, b) <=> Before(cacheOrder, a, b) /\ a \notin Gone /\ b \notin Gone,
           cacheOrder' = PushFront(s, k), DOMAIN cache' = (DOMAIN cache \ Gone) \cup {k}
    PROVE  Recency'
<1>0. used \in Seq(Keys) /\ \A q : q \in DOMAIN cache <=> Has(cacheOrder, q)
  BY CachedKeys
<1>1. ~Has(s, k)
  BY <1>0
<1>2. \A a, b : Before(cacheOrder', a, b) <=> (a = k /\ Has(s, b)) \/ Before(s, a, b)
  BY <1>1, PushFrontOrder
<1>3. /\ Distinct(used')
      /\ \A a : Has(used', a) <=> a = k \/ Has(used, a)
      /\ \A a, b : Before(used', a, b) <=>
            (a = k /\ b # k /\ Has(used, b)) \/ (Before(used, a, b) /\ a # k /\ b # k)
  BY <1>0, UseOrder DEF Recency
<1>4. \A a : ~Before(cacheOrder, k, a) /\ ~Before(cacheOrder, a, k)
  BY <1>0 DEF Before, Has
<1>5. RecencyOrder'
  BY <1>0, <1>1, <1>2, <1>3, <1>4 DEF Recency, RecencyOrder
<1> QED BY <1>3, <1>5 DEF Recency

\* setL1 of a new key.
LEMMA SetNewRecency ==
    ASSUME L1Inv, Recency, NEW k \in Keys, NEW v \in Values, NEW m \in Limits, SetNew(k, v, m)
    PROVE  Recency'
<1> DEFINE last == cacheOrder[Len(cacheOrder)]
<1>0. /\ cacheOrder \in Seq(Keys) /\ Distinct(cacheOrder) /\ k \notin DOMAIN cache /\ Use(k)
      /\ \A q : q \in DOMAIN cache <=> Has(cacheOrder, q)
  BY CachedKeys DEF SetNew
<1>1. CASE Full(m) /\ cacheOrder # << >>
  <2> DEFINE s == RemoveElement(cacheOrder, Len(cacheOrder))
  <2>1. Len(cacheOrder) \in 1..Len(cacheOrder)
    BY <1>0, <1>1
  <2>2. /\ Distinct(s) /\ s \in Seq(Keys)
        /\ \A a : Has(s, a) <=> Has(cacheOrder, a) /\ a \notin {last}
        /\ \A a, b : Before(s, a, b) <=> Before(cacheOrder, a, b) /\ a \notin {last} /\ b \notin {last}
    BY <1>0, <2>1, RemoveElementOrder
  <2>3. k \notin {last}
    BY <1>0, <2>1 DEF Has
  <2>4. cacheOrder' = PushFront(s, k) /\ DOMAIN cache' = (DOMAIN cache \ {last}) \cup {k}
    BY <1>1 DEF SetNew, With, Without
  <2> HIDE DEF s, last
  <2> QED BY <1>0, <2>2, <2>3, <2>4, PushRecency
<1>2. CASE ~(Full(m) /\ cacheOrder # << >>)
  <2>1. cacheOrder' = PushFront(cacheOrder, k) /\ DOMAIN cache' = (DOMAIN cache \ {}) \cup {k}
    BY <1>2 DEF SetNew, With
  <2> QED BY <1>0, <2>1, PushRecency
<1> QED BY <1>1, <1>2

\* Every operation keeps both orders.
LEMMA RecencyStep == L1Inv /\ Recency /\ [Next]_vars => Recency'
<1> SUFFICES ASSUME L1Inv, Recency, [Next]_vars PROVE Recency'
  OBVIOUS
<1>1. ASSUME UNCHANGED <<cacheOrder, used>>, DOMAIN cache' = DOMAIN cache PROVE Recency'
  BY <1>1 DEF Recency, RecencyOrder
<1>2. ASSUME NEW k \in Keys, GetMiss(k) \/ GetHit(k) \/ GetExpired(k) PROVE Recency'
  <2>1. CASE GetHit(k)
    BY <2>1, MoveRecency DEF GetHit
  <2>2. CASE GetExpired(k)
    BY <2>2, RemoveRecency DEF GetExpired, Without
  <2> QED BY <1>1, <1>2, <2>1, <2>2 DEF GetMiss, vars
<1>3. ASSUME NEW k \in Keys, NEW v \in Values, NEW m \in Limits, SetExisting(k, v, m)
      PROVE  Recency'
  <2>1. DOMAIN cache' = DOMAIN cache
    BY <1>3 DEF SetExisting, With
  <2> QED BY <1>3, <2>1, MoveRecency DEF SetExisting
<1>4. CASE ClearL1
  BY <1>4 DEF ClearL1, Recency, RecencyOrder, Distinct
<1>5. CASE Tick
  BY <1>1, <1>5 DEF Tick
<1> QED BY <1>1, <1>2, <1>3, <1>4, <1>5, SetNewRecency DEF Next, SetDisabled, vars

\* RecencyOrder, for any keys and limits: the list is ordered by last use
\* after every hit, update, expiry, eviction and clear.
THEOREM ListIsInUseOrder == Spec => []RecencyOrder
<1>1. Init => Recency
  BY DEF Init, Recency, RecencyOrder, Distinct
<1>2. L1Inv /\ Recency /\ [Next]_vars => Recency'
  BY RecencyStep
<1> QED BY <1>1, <1>2, L1Invariant, PTL DEF Spec, Recency

---------------------------------------------------------------------------
(* KeepsRecentlyUsed                                                       *)

\* Where a use of k leaves the other keys: one place further back, unless k
\* was in front of them.
LEMMA UsePositions ==
    ASSUME used \in Seq(Keys), Distinct(used), NEW k \in Keys, Use(k)
    PROVE  /\ used'[1] = k
           /\ \A j \in 1..Len(used') \ {1} : \E i \in 1..Len(used) :
                 /\ used'[j] = used[i] /\ used[i] # k
                 /\ i = j - 1 \/ (i = j /\ \E n \in 1..Len(used) : n < i /\ used[n] = k)
<1>1. CASE Has(used, k)
  <2> DEFINE n == ElementOf(used, k)
  <2>1. n \in 1..Len(used) /\ used[n] = k
    BY <1>1, ElementOfKey DEF Has
  <2>2. used' = MoveToFront(used, n)
    BY <1>1 DEF Use, Has
  <2> HIDE DEF n
  <2> DEFINE s == RemoveElement(used, n)
  <2>3. s \in Seq(Keys) /\ Len(s) = Len(used) - 1 /\ Len(used) \in Nat
    BY <2>1 DEF RemoveElement
  <2>4. \A j \in 1..Len(s) : s[j] = IF j < n THEN used[j] ELSE used[j + 1]
    BY <2>1, <2>3 DEF RemoveElement
  <2> HIDE DEF s
  <2>5. used' = PushFront(s, k)
    BY <2>1, <2>2 DEF MoveToFront, s
  <2>6. /\ Len(used') = Len(s) + 1 /\ used'[1] = k
        /\ \A j \in 1..Len(used') \ {1} : used'[j] = s[j - 1]
    BY <2>3, <2>5 DEF PushFront
  <2>7. ASSUME NEW j \in 1..Len(used') \ {1}
        PROVE  \E i \in 1..Len(used) :
                 /\ used'[j] = used[i] /\ used[i] # k
                 /\ i = j - 1 \/ (i = j /\ \E l \in 1..Len(used) : l < i /\ used[l] = k)
    <3>1. j - 1 \in 1..Len(s) /\ used'[j] = s[j - 1] /\ j \in Nat
      BY <2>3, <2>6
    <3>2. CASE j - 1 < n
      <4>1. j - 1 \in 1..Len(used) /\ used'[j] = used[j - 1] /\ j - 1 # n
        BY <2>1, <2>3, <2>4, <3>1, <3>2
      <4>2. used[j - 1] # k
        BY <2>1, <4>1 DEF Distinct
      <4> QED BY <4>1, <4>2
    <3>3. CASE ~(j - 1 < n)
      <4>1. s[j - 1] = used[(j - 1) + 1]
        BY <2>4, <3>1, <3>3
      <4>2. j \in 1..Len(used) /\ used'[j] = used[j] /\ n < j
        BY <2>1, <2>3, <3>1, <3>3, <4>1
      <4>3. used[j] # k
        BY <2>1, <4>2 DEF Distinct
      <4> QED BY <2>1, <4>2, <4>3
    <3> QED BY <3>2, <3>3
  <2> QED BY <2>6, <2>7
<1>2. CASE ~Has(used, k)
  <2>1. used' = PushFront(used, k) /\ Len(used) \in Nat
    BY <1>2 DEF Use, Has
  <2>2. /\ Len(used') = Len(used) + 1 /\ used'[1] = k
        /\ \A j \in 1..Len(used') \ {1} : used'[j] = used[j - 1]
    BY <2>1 DEF PushFront
  <2>3. ASSUME NEW j \in 1..Len(used') \ {1}
        PROVE  j - 1 \in 1..Len(used) /\ used'[j] = used[j - 1] /\ used[j - 1] # k
    <3>1. j - 1 \in 1..Len(used) /\ used'[j] = used[j - 1]
      BY <2>1, <2>2
    <3> QED BY <1>2, <3>1 DEF Has
  <2> QED BY <2>2, <2>3
<1> QED BY <1>1, <1>2

\* Keys that all stand among the first p elements are at most p.
LEMMA FewInFront ==
    ASSUME NEW s, NEW S, IsFiniteSet(S), NEW p \in Nat,
           \A x \in S : \E i \in 1..p : s[i] = x
    PROVE  Cardinality(S) <= p
<1> DEFINE f == [x \in S |-> CHOOSE i \in 1..p : s[i] = x]
<1>1. ASSUME NEW x \in S PROVE f[x] \in 1..p /\ s[f[x]] = x
  OBVIOUS
<1>2. f \in [S -> 1..p]
  BY <1>1
<1>3. IsFiniteSet(1..p) /\ Cardinality(1..p) = p
  BY FS_Interval
<1>4. Cardinality(S) \in Nat
  BY FS_CardinalityType
<1> HIDE DEF f
<1>5. ~(p < Cardinality(S))
  <2> SUFFICES ASSUME p < Cardinality(S) PROVE FALSE
    OBVIOUS
  <2>1. \E x, y \in S : x # y /\ f[x] = f[y]
    BY <1>2, <1>3, FS_PigeonHole
  <2> QED BY <1>1, <2>1
<1> QED BY <1>4, <1>5

\* The entry at the back of the list is as far back in the use order as there
\* are entries, and further if a key that is not cached stands in front of it.
LEMMA LastIsFarBack ==
    ASSUME L1Inv, Recency, NEW p \in 1..Len(used), cacheOrder # << >>,
           used[p] = cacheOrder[Len(cacheOrder)]
    PROVE  /\ Cardinality(DOMAIN cache) <= p
           /\ \A n \in 1..Len(used) :
                 n < p /\ used[n] \notin DOMAIN cache => Cardinality(DOMAIN cache) + 1 <= p
<1> DEFINE last == cacheOrder[Len(cacheOrder)]
<1>0. /\ cacheOrder \in Seq(Keys) /\ used \in Seq(Keys) /\ Distinct(used) /\ p \in Nat
      /\ IsFiniteSet(DOMAIN cache) /\ Cardinality(DOMAIN cache) \in Nat
      /\ \A q : q \in DOMAIN cache <=> Has(cacheOrder, q)
  BY CachedKeys, FS_CardinalityType DEF Recency, L1Inv
<1>1. Len(cacheOrder) \in 1..Len(cacheOrder) /\ last \in DOMAIN cache
  <2>1. Len(cacheOrder) \in 1..Len(cacheOrder)
    BY <1>0
  <2> QED BY <1>0, <2>1 DEF Has
<1>2. ASSUME NEW x \in DOMAIN cache PROVE \E i \in 1..p : used[i] = x
  <2>1. CASE x = last
    BY <1>0, <2>1
  <2>2. CASE x # last
    <3>1. PICK a \in 1..Len(cacheOrder) : cacheOrder[a] = x
      BY <1>0 DEF Has
    <3>2. a < Len(cacheOrder)
      BY <1>0, <2>2, <3>1
    <3>3. Before(cacheOrder, x, last)
      BY <1>1, <3>1, <3>2 DEF Before
    <3>4. Before(used, x, last)
      BY <1>1, <3>3 DEF Recency, RecencyOrder
    <3>5. PICK i \in 1..Len(used), j \in 1..Len(used) : i < j /\ used[i] = x /\ used[j] = last
      BY <3>4 DEF Before
    <3>6. j = p
      BY <1>0, <3>5 DEF Distinct
    <3> QED BY <1>0, <3>5, <3>6
  <2> QED BY <2>1, <2>2
<1>3. Cardinality(DOMAIN cache) <= p
  BY <1>0, <1>2, FewInFront
<1>4. ASSUME NEW n \in 1..Len(used), n < p, used[n] \notin DOMAIN cache
      PROVE  Cardinality(DOMAIN cache) + 1 <= p
  <2> DEFINE S == DOMAIN cache \cup {used[n]}
  <2>1. IsFiniteSet(S) /\ Cardinality(S) = Cardinality(DOMAIN cache) + 1
    BY <1>0, <1>4, FS_AddElement
  <2>2. n \in 1..p
    BY <1>0, <1>4
  <2>3. \A x \in S : \E i \in 1..p : used[i] = x
    BY <1>2, <2>2
  <2> HIDE DEF S
  <2>4. Cardinality(S) <= p
    BY <1>0, <2>1, <2>3, FewInFront
  <2> QED BY <2>1, <2>4
<1> QED BY <1>3, <1>4

\* A use keeps the recent keys as long as it drops none of them.
LEMMA UseKeepsRecent ==
    ASSUME L1Inv, Recency, KeepsRecentlyUsed, NEW k \in Keys, Use(k), k \in DOMAIN cache',
           DOMAIN cache \subseteq DOMAIN cache'
    PROVE  KeepsRecentlyUsed'
<1>0. used \in Seq(Keys) /\ Distinct(used) /\ used' \in Seq(Keys) /\ lapsed' = lapsed \ {k}
  BY UseType DEF L1Inv, TypeOK, Recency, Use
<1> SUFFICES ASSUME NEW j \in 1..Len(used'), \A m \in Limits : m > 0 => j <= m
             PROVE  used'[j] \in DOMAIN cache' \cup lapsed'
  BY DEF KeepsRecentlyUsed
<1>1. CASE j = 1
  BY <1>0, <1>1, UsePositions
<1>2. CASE j # 1
  <2>1. PICK i \in 1..Len(used) :
          /\ used'[j] = used[i] /\ used[i] # k
          /\ i = j - 1 \/ (i = j /\ \E n \in 1..Len(used) : n < i /\ used[n] = k)
    BY <1>0, <1>2, UsePositions
  <2>a. i <= j /\ i \in Nat /\ j \in Nat
    BY <1>0, <2>1
  <2>2. \A m \in Limits : m > 0 => i <= m
    BY <2>a
  <2>3. used[i] \in DOMAIN cache \cup lapsed
    BY <2>2 DEF KeepsRecentlyUsed
  <2> QED BY <1>0, <2>1, <2>3
<1> QED BY <1>1, <1>2

\* removeL1LRU drops a key that is, after the new one was pushed, behind all
\* the places that the limit at hand has room for.
LEMMA EvictionKeepsRecent ==
    ASSUME L1Inv, Recency, KeepsRecentlyUsed, NEW k \in Keys, k \notin DOMAIN cache, Use(k),
           NEW m \in Limits, m > 0, Full(m), cacheOrder # << >>,
           DOMAIN cache' = (DOMAIN cache \ {cacheOrder[Len(cacheOrder)]}) \cup {k}
    PROVE  KeepsRecentlyUsed'
<1> DEFINE last == cacheOrder[Len(cacheOrder)]
<1>0. /\ used \in Seq(Keys) /\ Distinct(used) /\ used' \in Seq(Keys) /\ lapsed' = lapsed \ {k}
      /\ Cardinality(DOMAIN cache) \in Nat /\ m \in Int /\ Cardinality(DOMAIN cache) >= m
  BY UseType, FS_CardinalityType DEF L1Inv, TypeOK, Recency, Use, Full
<1> SUFFICES ASSUME NEW j \in 1..Len(used'), \A l \in Limits : l > 0 => j <= l
             PROVE  used'[j] \in DOMAIN cache' \cup lapsed'
  BY DEF KeepsRecentlyUsed
<1>1. CASE j = 1
  BY <1>0, <1>1, UsePositions
<1>2. CASE j # 1
  <2>1. PICK i \in 1..Len(used) :
          /\ used'[j] = used[i] /\ used[i] # k
          /\ i = j - 1 \/ (i = j /\ \E n \in 1..Len(used) : n < i /\ used[n] = k)
    BY <1>0, <1>2, UsePositions
  <2>a. i <= j /\ i \in Nat /\ j \in Nat
    BY <1>0, <2>1
  <2>2. \A l \in Limits : l > 0 => i <= l
    BY <2>a
  <2>3. used[i] \in DOMAIN cache \cup lapsed
    BY <2>2 DEF KeepsRecentlyUsed
  <2>4. used[i] # last
    <3> SUFFICES ASSUME used[i] = last PROVE FALSE
      OBVIOUS
    <3>1. Cardinality(DOMAIN cache) <= i
      BY LastIsFarBack
    <3>2. j <= m /\ i \in Nat /\ j \in Nat
      BY <1>0
    <3>3. CASE i = j - 1
      BY <1>0, <3>1, <3>2, <3>3
    <3>4. CASE i = j /\ \E n \in 1..Len(used) : n < i /\ used[n] = k
      <4>1. Cardinality(DOMAIN cache) + 1 <= i
        BY <3>4, LastIsFarBack
      <4> QED BY <1>0, <3>2, <3>4, <4>1
    <3> QED BY <2>1, <3>3, <3>4
  <2> QED BY <1>0, <2>1, <2>3, <2>4
<1> QED BY <1>1, <1>2

\* What removeL1LRU takes is never among the most recently used keys, as many
\* as the smallest limit in use has room for, for any keys and limits and any
\* interleaving of stores, hits, expiries and clears.
THEOREM RecentKeysStay == Spec => []KeepsRecentlyUsed
<1>1. Init => Recency /\ KeepsRecentlyUsed
  BY DEF Init, Recency, RecencyOrder, Distinct, KeepsRecentlyUsed
<1>2. L1Inv /\ Recency /\ KeepsRecentlyUsed /\ [Next]_vars => KeepsRecentlyUsed'
  <2> SUFFICES ASSUME L1Inv, Recency, KeepsRecentlyUsed, [Next]_vars PROVE KeepsRecentlyUsed'
    OBVIOUS
  <2>1. ASSUME UNCHANGED used, DOMAIN cache \cup lapsed \subseteq (DOMAIN cache)' \cup lapsed'
        PROVE  KeepsRecentlyUsed'
    BY <2>1 DEF KeepsRecentlyUsed
  <2>2. ASSUME NEW k \in Keys, GetMiss(k) \/ GetHit(k) \/ GetExpired(k) PROVE KeepsRecentlyUsed'
    <3>1. CASE GetHit(k)
      BY <3>1, UseKeepsRecent DEF GetHit
    <3>2. CASE GetExpired(k)
      BY <2>1, <3>2 DEF GetExpired, Without
    <3> QED BY <2>1, <2>2, <3>1, <3>2 DEF GetMiss, vars
  <2>3. ASSUME NEW k \in Keys, NEW v \in Values, NEW m \in Limits, SetExisting(k, v, m)
        PROVE  KeepsRecentlyUsed'
    <3>1. DOMAIN cache' = DOMAIN cache /\ k \in DOMAIN cache /\ Use(k)
      BY <2>3 DEF SetExisting, With
    <3> QED BY <3>1, UseKeepsRecent
  <2>4. ASSUME NEW k \in Keys, NEW v \in Values, NEW m \in Limits, SetNew(k, v, m)
        PROVE  KeepsRecentlyUsed'
    <3>1. CASE Full(m) /\ cacheOrder # << >>
      <4>1. /\ DOMAIN cache' = (DOMAIN cache \ {cacheOrder[Len(cacheOrder)]}) \cup {k}
            /\ m > 0 /\ k \notin DOMAIN cache /\ Use(k)
        BY <2>4, <3>1 DEF SetNew, With, Without
      <4> QED BY <3>1, <4>1, EvictionKeepsRecent
    <3>2. CASE ~(Full(m) /\ cacheOrder # << >>)
      <4>1. DOMAIN cache' = DOMAIN cache \cup {k} /\ Use(k)
        BY <2>4, <3>2 DEF SetNew, With
      <4> QED BY <4>1, UseKeepsRecent
    <3> QED BY <3>1, <3>2
  <2>5. CASE ClearL1
    BY <2>5 DEF ClearL1, KeepsRecentlyUsed
  <2>6. CASE Tick
    BY <2>1, <2>6 DEF Tick
  <2> QED BY <2>1, <2>2, <2>3, <2>4, <2>5, <2>6 DEF Next, SetDisabled, vars
<1>3. L1Inv /\ Recency /\ [Next]_vars => Recency'
  BY RecencyStep
<1> QED BY <1>1, <1>2, <1>3, L1Invariant, PTL DEF Spec

=============================================================================

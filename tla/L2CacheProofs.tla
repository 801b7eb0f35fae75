--------------------------- MODULE L2CacheProofs ---------------------------
(***************************************************************************)
(* Proofs about L2Cache, for any clients, keys, values and limits.         *)
(*                                                                         *)
(* L2Cache implements LossyStore, with skewed clocks and faults.  The      *)
(* index plays no part: only the commands on the values and the GET of     *)
(* getL2 are visible to LossyStore, and each of them is one step of it.    *)
(*                                                                         *)
(* As long as operations do not overlap and nothing fails, the index has   *)
(* every value, in the order of use, and is no longer than the limit.  The *)
(* invariant, Undisturbed, says what remains of this between two commands  *)
(* of the one operation that runs: a used key that is yet to be moved, an  *)
(* index that is yet to be cut, popped keys that are yet to be deleted.    *)
(***************************************************************************)
EXTENDS L2Cache, FiniteSetTheorems, TLAPS

\* The part of the type invariant that the refinement needs.
StoreInv ==
    /\ val \in [Keys -> Values \cup {NoValue, Garbled}]
    /\ key \in [Clients -> Keys]
    /\ got \in [Clients -> Values \cup {NoValue}]

USE ValuesAssumption
USE DEF Goto

AbstractStep == Abstract!Next \/ UNCHANGED Abstract!vars

\* Storing a value is a Put.
LEMMA PutStep ==
    ASSUME StoreInv, NEW k \in Keys, NEW v \in Values, val' = [val EXCEPT ![k] = v], got' = got
    PROVE  AbstractStep
<1>1. Stored' = [Stored EXCEPT ![k] = v]
  BY DEF Stored, StoreInv
<1> QED BY <1>1 DEF AbstractStep, Abstract!Next, Abstract!Put

\* Deleting or losing values is a Drop.
LEMMA DropStep ==
    ASSUME StoreInv, NEW S \in SUBSET Keys, got' = got,
           val' = [k \in Keys |-> IF k \in S THEN NoValue ELSE val[k]]
    PROVE  AbstractStep
<1>1. Stored' = [k \in Keys |-> IF k \in S THEN NoValue ELSE Stored[k]]
  BY DEF Stored, StoreInv
<1>2. Abstract!Drop(S)
  BY <1>1 DEF Abstract!Drop
<1> QED BY <1>2 DEF AbstractStep, Abstract!Next

\* Deleting one Redis key drops at most that key.
LEMMA DropOneStep ==
    ASSUME StoreInv, NEW q, val' = [val EXCEPT ![q] = NoValue], got' = got
    PROVE  AbstractStep
<1>1. val' = [k \in Keys |-> IF k \in {q} \cap Keys THEN NoValue ELSE val[k]]
  BY DEF StoreInv
<1> QED BY <1>1, DropStep

\* A GET is a Read that takes effect at once.
LEMMA ReadStep ==
    ASSUME StoreInv, NEW c \in Clients, NEW k \in Keys, val' = val,
           \/ got' = [got EXCEPT ![c] = NoValue]
           \/ got' = [got EXCEPT ![c] = val[k]] /\ val[k] \in Values
    PROVE  AbstractStep
<1>1. Stored' = Stored
  BY DEF Stored
<1>2. got' \in {[got EXCEPT ![c] = Stored[k]], [got EXCEPT ![c] = NoValue]}
  BY DEF Stored
<1>3. Abstract!Read(c, k)
  BY <1>1, <1>2 DEF Abstract!Read
<1> QED BY <1>3 DEF AbstractStep, Abstract!Next

\* The commands on the index are invisible.
LEMMA IndexStep == ASSUME val' = val, got' = got PROVE AbstractStep
  BY DEF AbstractStep, Abstract!vars, Stored

\* Every step of L2Cache is a step of LossyStore or invisible, and keeps the
\* types.
LEMMA StepSimulation ==
    ASSUME StoreInv, [Next]_vars PROVE StoreInv' /\ AbstractStep
<1>1. ASSUME NEW c \in Clients, NEW k \in Keys,
             GetNil(c, k) \/ GetFound(c, k) \/ GetGarbled(c, k)
      PROVE  StoreInv' /\ AbstractStep
  <2>1. StoreInv'
    BY <1>1 DEF StoreInv, GetNil, GetFound, GetGarbled
  <2>2. \/ got' = [got EXCEPT ![c] = NoValue]
        \/ got' = [got EXCEPT ![c] = val[k]] /\ val[k] \in Values
    BY <1>1 DEF GetNil, GetFound, GetGarbled
  <2>3. val' = val
    BY <1>1 DEF GetNil, GetFound, GetGarbled
  <2> QED BY <2>1, <2>2, <2>3, ReadStep
<1>2. ASSUME NEW c \in Clients, NEW k \in Keys, NEW v \in Values, NEW m \in Limits,
             SetValue(c, k, v, m)
      PROVE  StoreInv' /\ AbstractStep
  BY <1>2, PutStep DEF StoreInv, SetValue
<1>3. ASSUME NEW c \in Clients,
             \/ PurgeFails(c) \/ ZRem(c) \/ Touch(c) \/ Index(c) \/ Count(c) \/ Pop(c)
             \/ EvictFails(c) \/ ClearList(c) \/ Unindex(c) \/ Abandon(c)
      PROVE  StoreInv' /\ AbstractStep
  <2>1. UNCHANGED <<val, key, got>>
    BY <1>3 DEF PurgeFails, ZRem, Touch, Index, Count, Pop, EvictFails, ClearList, Unindex, Abandon
  <2> QED BY <2>1, IndexStep DEF StoreInv
<1>4. ASSUME NEW c \in Clients, GetFails(c) PROVE StoreInv' /\ AbstractStep
  <2>1. PICK k \in Keys : k = key[c]
    BY DEF StoreInv
  <2>2. StoreInv' /\ val' = val /\ got' = [got EXCEPT ![c] = NoValue]
    BY <1>4 DEF StoreInv, GetFails
  <2> QED BY <2>2, ReadStep
<1>5. ASSUME NEW c \in Clients, Purge(c) PROVE StoreInv' /\ AbstractStep
  BY <1>5, DropOneStep DEF StoreInv, Purge
<1>6. ASSUME NEW c \in Clients, Evict(c) PROVE StoreInv' /\ AbstractStep
  BY <1>6, DropOneStep DEF StoreInv, Evict
<1>7. ASSUME NEW c \in Clients, DeleteListed(c) PROVE StoreInv' /\ AbstractStep
  <2>1. val' = [k \in Keys |-> IF k \in Listed(c) \cap Keys THEN NoValue ELSE val[k]]
    BY <1>7 DEF DeleteListed
  <2>2. StoreInv' /\ got' = got
    BY <1>7 DEF StoreInv, DeleteListed
  <2> QED BY <2>1, <2>2, DropStep
<1>8. ASSUME NEW k \in Keys, Expire(k) PROVE StoreInv' /\ AbstractStep
  BY <1>8, DropOneStep DEF StoreInv, Expire
<1>9. CASE UNCHANGED vars
  BY <1>9, IndexStep DEF StoreInv, vars
<1>10. ASSUME UNCHANGED <<val, lru, pc, key, limit, excess, todo, got, used, doomed, survivors>>
       PROVE  StoreInv' /\ AbstractStep
  BY <1>10, IndexStep DEF StoreInv
<1>11. CASE Command
  BY <1>1, <1>2, <1>3, <1>5, <1>6, <1>7, <1>8, <1>10, <1>11 DEF Command, SetDisabled
<1>12. CASE Fault
  BY <1>3, <1>4, <1>10, <1>12 DEF Fault, ClocksDisagree
<1> QED BY <1>9, <1>11, <1>12 DEF Next

\* getL2, setL2, removeL2LRU and clearL2 implement a lossy store: reads are
\* atomic at their GET whatever runs between the Redis commands.
THEOREM L2ImplementsLossyStore == Spec => ImplementsLossyStore
<1>1. Init => StoreInv /\ Abstract!Init
  BY DEF Init, StoreInv, Abstract!Init, Stored
<1>2. StoreInv /\ [Next]_vars => StoreInv' /\ [Abstract!Next]_(Abstract!vars)
  BY StepSimulation DEF AbstractStep
<1> QED BY <1>1, <1>2, PTL DEF Spec, ImplementsLossyStore, Abstract!Spec

---------------------------------------------------------------------------
(* The index                                                               *)

\* No member is listed twice.
Distinct(s) == \A i, j \in 1..Len(s) : s[i] = s[j] => i = j

\* The key of c is in use, and has yet to be moved in the index.
Pending(c) == pc[c] \in {"touch", "index"}

\* The key is on its way into the index or has just been taken out of it.
Carries(c, k) ==
    \/ pc[c] = "index" /\ key[c] = k
    \/ pc[c] = "evict" /\ k \in Listed(c)

Away(k) == \E c \in Clients : Carries(c, k)

\* k has a value and its place in the index.
Settled(k) == Holds(k) /\ Has(lru, k) /\ \A c \in Clients : Pending(c) => key[c] # k

\* What the index is as long as nothing has disturbed the clients.
Indexed ==
    /\ Distinct(lru) /\ Distinct(used)
    /\ \A k \in Keys : Holds(k) => Has(used, k) /\ (Has(lru, k) \/ Away(k))
    /\ \A a, b \in Keys : Settled(a) /\ Settled(b) => (Before(lru, a, b) <=> Before(used, a, b))

\* What a client knows in the middle of its operation.
Knows(c) ==
    /\ Pending(c) => \A k \in Keys \ {key[c]} : Has(used, k) => Before(used, k, key[c])
    /\ pc[c] = "touch" => Has(lru, key[c])
    /\ pc[c] \in {"zrem", "purge"} => ~Holds(key[c])
    /\ pc[c] = "pop" => bound < Len(lru) /\ excess[c] = Len(lru) - bound
    /\ pc[c] = "delete" => doomed[c] \subseteq Listed(c) /\ \A k \in Keys : Holds(k) => k \in Listed(c)
    /\ pc[c] = "unindex" => doomed[c] \cap Live = {} /\ \A k \in Keys : ~Holds(k)

\* One client at a time has left its place.
Solo == ~Overlap

\* The index is no longer than the last limit, until the next one is applied.
Bounded == (\A c \in Clients : pc[c] \notin {"count", "pop"}) => Len(lru) <= bound

Calm == Indexed /\ (\A c \in Clients : Knows(c)) /\ Solo /\ Bounded /\ survivors = {}

\* The inductive invariant of a time without overlaps, faults and skewed clocks.
Undisturbed == ~disturbed => Calm

\* The type invariant, and that an eviction has something to evict.
TypeInv == TypeOK /\ \A c \in Clients : pc[c] = "evict" => todo[c] # << >>

\* ZREM keeps the order of the other members.
LEMMA RemoveOrder ==
    ASSUME NEW s \in Seq(Keys), NEW k
    PROVE  /\ Remove(s, k) \in Seq(Keys)
           /\ Len(Remove(s, k)) = IF Has(s, k) THEN Len(s) - 1 ELSE Len(s)
           /\ Distinct(s) =>
                 /\ Distinct(Remove(s, k))
                 /\ \A a : Has(Remove(s, k), a) <=> Has(s, a) /\ a # k
                 /\ \A a, b : Before(Remove(s, k), a, b) <=> Before(s, a, b) /\ a # k /\ b # k
<1>1. CASE ~Has(s, k)
  <2>1. Remove(s, k) = s
    BY <1>1 DEF Remove
  <2> QED BY <1>1, <2>1 DEF Has, Before
<1>2. CASE Has(s, k)
  <2> DEFINE n == CHOOSE i \in 1..Len(s) : s[i] = k
             t == [j \in 1..Len(s) - 1 |-> IF j < n THEN s[j] ELSE s[j + 1]]
             At(i) == IF i < n THEN i ELSE i + 1
             From(i) == IF i < n THEN i ELSE i - 1
  <2>1. n \in 1..Len(s) /\ s[n] = k
    BY <1>2 DEF Has
  <2>2. Remove(s, k) = t
    BY <1>2 DEF Remove
  <2> HIDE DEF n
  <2>3. t \in Seq(Keys) /\ Len(t) = Len(s) - 1 /\ Len(s) \in Nat
    BY <2>1
  <2>4. \A i \in 1..Len(t) : At(i) \in 1..Len(s) /\ t[i] = s[At(i)] /\ At(i) # n
    BY <2>1, <2>3
  <2>5. \A i \in 1..Len(s) : i # n => From(i) \in 1..Len(t) /\ t[From(i)] = s[i]
    BY <2>1, <2>3
  <2>6. \A i, j \in 1..Len(t) : /\ i < j => At(i) < At(j)
                                /\ At(i) = At(j) => i = j
    BY <2>1, <2>3
  <2>7. \A i, j \in 1..Len(s) : i < j /\ i # n /\ j # n => From(i) < From(j)
    BY <2>1, <2>3
  <2> HIDE DEF t, At, From
  <2>8. ASSUME Distinct(s)
        PROVE  /\ Distinct(t)
               /\ \A a : Has(t, a) <=> Has(s, a) /\ a # k
               /\ \A a, b : Before(t, a, b) <=> Before(s, a, b) /\ a # k /\ b # k
    <3>1. \A i \in 1..Len(s) : s[i] = k <=> i = n
      BY <2>1, <2>8 DEF Distinct
    <3>2. Distinct(t)
      BY <2>4, <2>6, <2>8 DEF Distinct
    <3>3. ASSUME NEW a PROVE Has(t, a) <=> Has(s, a) /\ a # k
      BY <2>4, <2>5, <3>1 DEF Has
    <3>4. ASSUME NEW a, NEW b, Before(t, a, b) PROVE Before(s, a, b) /\ a # k /\ b # k
      <4>1. PICK i \in 1..Len(t), j \in 1..Len(t) : i < j /\ t[i] = a /\ t[j] = b
        BY <3>4 DEF Before
      <4> QED BY <2>4, <2>6, <3>1, <4>1 DEF Before
    <3>5. ASSUME NEW a, NEW b, Before(s, a, b), a # k, b # k PROVE Before(t, a, b)
      <4>1. PICK i \in 1..Len(s), j \in 1..Len(s) : i < j /\ s[i] = a /\ s[j] = b
        BY <3>5 DEF Before
      <4> QED BY <2>5, <2>7, <3>1, <3>5, <4>1 DEF Before
    <3> QED BY <3>2, <3>3, <3>4, <3>5
  <2> QED BY <1>2, <2>2, <2>3, <2>8
<1> QED BY <1>1, <1>2

\* ZADD leaves a sequence of keys.
LEMMA InsertType ==
    ASSUME NEW s \in Seq(Keys), NEW k \in Keys, NEW i \in 0..Len(s)
    PROVE  InsertAfter(s, i, k) \in Seq(Keys) /\ Len(InsertAfter(s, i, k)) = Len(s) + 1
<1>1. \A j \in 1..Len(s) + 1 :
          (IF j <= i THEN s[j] ELSE IF j = i + 1 THEN k ELSE s[j - 1]) \in Keys
  OBVIOUS
<1> QED BY <1>1 DEF InsertAfter

\* ZADD of a new member with the highest score.
LEMMA AppendOrder ==
    ASSUME NEW s \in Seq(Keys), Distinct(s), NEW k \in Keys, ~Has(s, k)
    PROVE  LET t == InsertAfter(s, Len(s), k) IN
           /\ Distinct(t)
           /\ \A a : Has(t, a) <=> a = k \/ Has(s, a)
           /\ \A a, b : Before(t, a, b) <=> Before(s, a, b) \/ (b = k /\ Has(s, a))
<1> DEFINE t == InsertAfter(s, Len(s), k)
           n == Len(s) + 1
<1>1. Len(t) = n /\ Len(s) \in Nat
  BY InsertType
<1>2. /\ \A i \in 1..Len(s) : i \in 1..Len(t) /\ t[i] = s[i] /\ t[i] # k /\ i < n
      /\ n \in 1..Len(t) /\ t[n] = k
  BY <1>1 DEF InsertAfter, Has
<1>3. \A i \in 1..Len(t) : i = n \/ i \in 1..Len(s)
  BY <1>1
<1> HIDE DEF t
<1>4. Distinct(t)
  BY <1>2, <1>3 DEF Distinct
<1>5. ASSUME NEW a PROVE Has(t, a) <=> a = k \/ Has(s, a)
  BY <1>2, <1>3 DEF Has
<1>6. ASSUME NEW a, NEW b, Before(t, a, b) PROVE Before(s, a, b) \/ (b = k /\ Has(s, a))
  <2>1. PICK i \in 1..Len(t), j \in 1..Len(t) : i < j /\ t[i] = a /\ t[j] = b
    BY <1>6 DEF Before
  <2>2. i \in 1..Len(s)
    BY <1>1, <2>1
  <2> QED BY <1>2, <1>3, <2>1, <2>2 DEF Before, Has
<1>7. ASSUME NEW a, NEW b, Before(s, a, b) PROVE Before(t, a, b)
  <2>1. PICK i \in 1..Len(s), j \in 1..Len(s) : i < j /\ s[i] = a /\ s[j] = b
    BY <1>7 DEF Before
  <2> QED BY <1>2, <2>1 DEF Before
<1>8. ASSUME NEW a, Has(s, a) PROVE Before(t, a, k)
  <2>1. PICK i \in 1..Len(s) : s[i] = a
    BY <1>8 DEF Has
  <2> QED BY <1>2, <2>1 DEF Before
<1> QED BY <1>4, <1>5, <1>6, <1>7, <1>8 DEF t

\* A member that gets the highest score.
ToEnd(s, k) == InsertAfter(Remove(s, k), Len(Remove(s, k)), k)

\* It comes after all others, whose order stays.
LEMMA ToEndOrder ==
    ASSUME NEW s \in Seq(Keys), Distinct(s), NEW k \in Keys
    PROVE  /\ Distinct(ToEnd(s, k)) /\ ToEnd(s, k) \in Seq(Keys)
           /\ Len(ToEnd(s, k)) = IF Has(s, k) THEN Len(s) ELSE Len(s) + 1
           /\ \A a : Has(ToEnd(s, k), a) <=> a = k \/ Has(s, a)
           /\ \A a, b : Before(ToEnd(s, k), a, b) <=>
                 (Before(s, a, b) /\ a # k /\ b # k) \/ (b = k /\ a # k /\ Has(s, a))
<1> DEFINE t == Remove(s, k)
<1>1. /\ t \in Seq(Keys) /\ Distinct(t) /\ Len(t) = IF Has(s, k) THEN Len(s) - 1 ELSE Len(s)
      /\ \A a : Has(t, a) <=> Has(s, a) /\ a # k
      /\ \A a, b : Before(t, a, b) <=> Before(s, a, b) /\ a # k /\ b # k
  BY RemoveOrder
<1> HIDE DEF t
<1>2. /\ Distinct(InsertAfter(t, Len(t), k))
      /\ \A a : Has(InsertAfter(t, Len(t), k), a) <=> a = k \/ Has(t, a)
      /\ \A a, b : Before(InsertAfter(t, Len(t), k), a, b) <=> Before(t, a, b) \/ (b = k /\ Has(t, a))
  BY <1>1, AppendOrder
<1>3. InsertAfter(t, Len(t), k) \in Seq(Keys) /\ Len(InsertAfter(t, Len(t), k)) = Len(t) + 1
  <2>1. Len(t) \in 0..Len(t)
    BY <1>1
  <2> QED BY <1>1, <2>1, InsertType
<1>4. ToEnd(s, k) = InsertAfter(t, Len(t), k)
  BY DEF ToEnd, t
<1>5. Len(ToEnd(s, k)) = IF Has(s, k) THEN Len(s) ELSE Len(s) + 1
  BY <1>1, <1>3, <1>4
<1> QED BY <1>1, <1>2, <1>3, <1>4, <1>5

\* ZPOPMIN splits the members in two.
LEMMA SplitOrder ==
    ASSUME NEW s \in Seq(Keys), Distinct(s), NEW n \in 0..Len(s)
    PROVE  LET p == SubSeq(s, 1, n)
               t == SubSeq(s, n + 1, Len(s)) IN
           /\ p \in Seq(Keys) /\ t \in Seq(Keys) /\ Len(p) = n /\ Len(t) = Len(s) - n
           /\ Distinct(t)
           /\ \A a : Has(s, a) <=> Has(p, a) \/ Has(t, a)
           /\ \A a, b : Before(t, a, b) <=> Before(s, a, b) /\ Has(t, a) /\ Has(t, b)
<1> DEFINE p == SubSeq(s, 1, n)
           t == SubSeq(s, n + 1, Len(s))
<1>1. /\ p \in Seq(Keys) /\ t \in Seq(Keys) /\ Len(p) = n /\ Len(t) = Len(s) - n
      /\ Len(s) \in Nat /\ n \in Nat
  OBVIOUS
<1>2. /\ \A i \in 1..Len(p) : i \in 1..Len(s) /\ p[i] = s[i]
      /\ \A i \in 1..Len(t) : i + n \in 1..Len(s) /\ t[i] = s[i + n]
      /\ \A i \in 1..Len(s) : \/ i \in 1..Len(p) /\ p[i] = s[i]
                              \/ i - n \in 1..Len(t) /\ t[i - n] = s[i]
  <2>1. \A i \in 1..Len(p) : i \in 1..Len(s) /\ p[i] = s[i]
    BY <1>1
  <2>2. ASSUME NEW i \in 1..Len(t) PROVE i + n \in 1..Len(s) /\ t[i] = s[i + n]
    BY <1>1
  <2>3. ASSUME NEW i \in 1..Len(s), i > n PROVE i - n \in 1..Len(t) /\ t[i - n] = s[i]
    <3>1. i - n \in 1..Len(t) /\ (i - n) + n = i
      BY <1>1, <2>3
    <3> HIDE DEF t
    <3> QED BY <2>2, <3>1
  <2>4. ASSUME NEW i \in 1..Len(s), i <= n PROVE i \in 1..Len(p)
    BY <1>1, <2>4
  <2> HIDE DEF p, t
  <2> QED BY <1>1, <2>1, <2>2, <2>3, <2>4
<1> HIDE DEF p, t
<1>3. ASSUME NEW i \in 1..Len(t), NEW j \in 1..Len(t), t[i] = t[j] PROVE i = j
  <2>1. i + n = j + n
    BY <1>2, <1>3 DEF Distinct
  <2> QED BY <1>1, <2>1
<1>4. ASSUME NEW a PROVE Has(s, a) <=> Has(p, a) \/ Has(t, a)
  BY <1>2 DEF Has
<1>5. ASSUME NEW a, NEW b, Before(t, a, b) PROVE Before(s, a, b) /\ Has(t, a) /\ Has(t, b)
  <2>1. PICK i \in 1..Len(t), j \in 1..Len(t) : i < j /\ t[i] = a /\ t[j] = b
    BY <1>5 DEF Before
  <2>2. i + n \in 1..Len(s) /\ j + n \in 1..Len(s) /\ s[i + n] = a /\ s[j + n] = b /\ i + n < j + n
    BY <1>1, <1>2, <2>1
  <2> QED BY <2>1, <2>2 DEF Before, Has
<1>6. ASSUME NEW a, NEW b, Before(s, a, b), Has(t, a), Has(t, b) PROVE Before(t, a, b)
  <2>1. PICK i \in 1..Len(s), j \in 1..Len(s) : i < j /\ s[i] = a /\ s[j] = b
    BY <1>6 DEF Before
  <2>2. PICK m \in 1..Len(t), q \in 1..Len(t) : t[m] = a /\ t[q] = b
    BY <1>6 DEF Has
  <2>3. i = m + n /\ j = q + n
    BY <1>2, <2>1, <2>2 DEF Distinct
  <2>4. m < q
    BY <1>1, <2>1, <2>2, <2>3
  <2> QED BY <2>2, <2>4 DEF Before
<1> QED BY <1>1, <1>3, <1>4, <1>5, <1>6 DEF p, t, Distinct

\* ZADD and the use order stay sequences of keys.
LEMMA IndexTypes ==
    ASSUME lru \in Seq(Keys), used \in Seq(Keys), NEW k \in Keys
    PROVE  /\ ZAdd(k) => lru' \in Seq(Keys)
           /\ Use(k) => used' \in Seq(Keys)
<1>1. Remove(lru, k) \in Seq(Keys) /\ Remove(used, k) \in Seq(Keys)
  BY RemoveOrder
<1>2. ASSUME ZAdd(k) PROVE lru' \in Seq(Keys)
  <2>1. PICK i \in 0..Len(Remove(lru, k)) : lru' = InsertAfter(Remove(lru, k), i, k)
    BY <1>2 DEF ZAdd
  <2> QED BY <1>1, <2>1, InsertType
<1>3. ASSUME Use(k) PROVE used' \in Seq(Keys)
  <2>1. Len(Remove(used, k)) \in 0..Len(Remove(used, k))
    BY <1>1
  <2> QED BY <1>1, <1>3, <2>1, InsertType DEF Use
<1> QED BY <1>2, <1>3

\* Every command and every fault keeps the types.
LEMMA StepTyped == ASSUME TypeInv, [Next]_vars PROVE TypeInv'
<1> USE LimitsAssumption
<1>0. /\ val \in [Keys -> Values \cup {NoValue, Garbled}] /\ lru \in Seq(Keys) /\ used \in Seq(Keys)
      /\ pc \in [Clients -> {"idle", "zrem", "touch", "purge", "index", "count", "pop",
                             "evict", "delete", "unindex"}]
      /\ key \in [Clients -> Keys] /\ limit \in [Clients -> Nat] /\ excess \in [Clients -> Nat]
      /\ todo \in [Clients -> Seq(Keys)] /\ got \in [Clients -> Values \cup {NoValue}]
      /\ doomed \in [Clients -> SUBSET Keys] /\ survivors \in SUBSET Keys /\ bound \in Nat
  BY DEF TypeInv, TypeOK
<1>1. ASSUME Next PROVE bound' \in Nat /\ disturbed' \in BOOLEAN
  <2>1. bound' \in Nat
    <3>1. CASE \E c \in Clients : Counts(c)
      <4>1. (CHOOSE c \in Clients : Counts(c)) \in Clients
        BY <3>1
      <4> QED BY <1>0, <1>1, <4>1 DEF Next
    <3>2. CASE ~\E c \in Clients : Counts(c)
      BY <1>0, <1>1, <3>2 DEF Next
    <3> QED BY <3>1, <3>2
  <2>2. disturbed' \in BOOLEAN
    BY <1>1 DEF Next
  <2> QED BY <2>1, <2>2
<1> DEFINE Rest == bound' \in Nat /\ disturbed' \in BOOLEAN
<1> HIDE DEF Rest
<1>2. ASSUME Rest, NEW c \in Clients, NEW k \in Keys, GetNil(c, k) \/ GetFound(c, k) \/ GetGarbled(c, k)
      PROVE  TypeInv'
  <2>1. used' \in Seq(Keys)
    BY <1>0, <1>2, IndexTypes DEF GetNil, GetFound, GetGarbled
  <2>2. PICK g \in Values \cup {NoValue} : got' = [got EXCEPT ![c] = g]
    BY <1>2 DEF GetNil, GetFound, GetGarbled
  <2>3. PICK to \in {"zrem", "touch", "purge"} : pc' = [pc EXCEPT ![c] = to]
    BY <1>2 DEF GetNil, GetFound, GetGarbled
  <2>4. /\ key' = [key EXCEPT ![c] = k]
        /\ UNCHANGED <<val, lru, limit, excess, todo, doomed, survivors>>
    BY <1>2 DEF GetNil, GetFound, GetGarbled
  <2> QED BY <1>0, <1>2, <2>1, <2>2, <2>3, <2>4 DEF TypeInv, TypeOK, Rest
<1>3. ASSUME Rest, NEW c \in Clients, NEW k \in Keys, NEW v \in Values, NEW m \in Limits,
             SetValue(c, k, v, m)
      PROVE  TypeInv'
  <2>1. used' \in Seq(Keys)
    BY <1>0, <1>3, IndexTypes DEF SetValue
  <2> QED BY <1>0, <1>3, <2>1 DEF TypeInv, TypeOK, Rest, SetValue
<1>4. ASSUME Rest, NEW c \in Clients, ZRem(c) \/ Touch(c) \/ Index(c) PROVE TypeInv'
  <2>1. lru' \in Seq(Keys)
    BY <1>0, <1>4, IndexTypes, RemoveOrder DEF ZRem, Touch, Index
  <2> QED BY <1>0, <1>4, <2>1 DEF TypeInv, TypeOK, Rest, ZRem, Touch, Index
<1>5. ASSUME Rest, NEW c \in Clients, Purge(c) \/ PurgeFails(c) \/ GetFails(c) PROVE TypeInv'
  BY <1>0, <1>5 DEF TypeInv, TypeOK, Rest, Purge, PurgeFails, GetFails
<1>6. ASSUME Rest, NEW c \in Clients, Count(c) PROVE TypeInv'
  <2>1. (IF OverLimit(c) THEN Len(lru) - limit[c] ELSE 0) \in Nat
    BY <1>0 DEF OverLimit
  <2> QED BY <1>0, <1>6, <2>1 DEF TypeInv, TypeOK, Rest, Count
<1>7. ASSUME Rest, NEW c \in Clients, Pop(c) PROVE TypeInv'
  <2> DEFINE n == IF excess[c] < Len(lru) THEN excess[c] ELSE Len(lru)
  <2>1. n \in 0..Len(lru)
    BY <1>0
  <2>2. /\ pc' = [pc EXCEPT ![c] = IF n = 0 THEN "idle" ELSE "evict"]
        /\ todo' = [todo EXCEPT ![c] = SubSeq(lru, 1, n)]
        /\ lru' = SubSeq(lru, n + 1, Len(lru))
        /\ excess' = [excess EXCEPT ![c] = 0]
        /\ UNCHANGED <<val, key, limit, got, used, doomed, survivors>>
    BY <1>7 DEF Pop
  <2> HIDE DEF n
  <2>3. SubSeq(lru, 1, n) \in Seq(Keys) /\ Len(SubSeq(lru, 1, n)) = n /\ lru' \in Seq(Keys)
    BY <1>0, <2>1, <2>2
  <2>4. n # 0 => SubSeq(lru, 1, n) # << >>
    BY <2>3
  <2>5. TypeOK'
    BY <1>0, <1>7, <2>2, <2>3 DEF TypeOK, Rest
  <2> QED BY <1>0, <2>2, <2>4, <2>5 DEF TypeInv
<1>8. ASSUME Rest, NEW c \in Clients, Evict(c) \/ EvictFails(c) PROVE TypeInv'
  <2>1. todo[c] # << >> /\ todo[c] \in Seq(Keys)
    BY <1>0, <1>8 DEF TypeInv, Evict, EvictFails, NextVictim
  <2>2. Tail(todo[c]) \in Seq(Keys) /\ Len(Tail(todo[c])) = Len(todo[c]) - 1
    BY <2>1
  <2>3. /\ pc' = [pc EXCEPT ![c] = IF Len(todo[c]) = 1 THEN "idle" ELSE "evict"]
        /\ todo' = [todo EXCEPT ![c] = Tail(todo[c])]
        /\ val' \in [Keys -> Values \cup {NoValue, Garbled}]
        /\ UNCHANGED <<lru, key, limit, excess, got, used, doomed, survivors>>
    BY <1>0, <1>8 DEF Evict, EvictFails, NextVictim
  <2>4. Len(todo[c]) # 1 => Tail(todo[c]) # << >>
    <3>1. Len(todo[c]) \in Nat
      BY <2>1
    <3> DEFINE t == Tail(todo[c])
               n == Len(todo[c])
    <3>2. Len(t) = n - 1 /\ n \in Nat
      BY <2>2, <3>1
    <3> HIDE DEF t, n
    <3>3. ASSUME t = << >> PROVE n = 1
      <4>1. Len(t) = 0
        BY <3>3
      <4> QED BY <3>2, <4>1
    <3> QED BY <3>3 DEF t, n
  <2>5. TypeOK'
    BY <1>0, <1>8, <2>2, <2>3 DEF TypeOK, Rest
  <2> QED BY <1>0, <2>3, <2>4, <2>5 DEF TypeInv
<1>9. ASSUME Rest, NEW c \in Clients, ClearList(c) \/ DeleteListed(c) \/ Unindex(c) \/ Abandon(c)
      PROVE  TypeInv'
  <2>1. CASE ClearList(c)
    BY <1>0, <1>9, <2>1 DEF TypeInv, TypeOK, Rest, ClearList
  <2>2. CASE DeleteListed(c)
    BY <1>0, <1>9, <2>2 DEF TypeInv, TypeOK, Rest, DeleteListed
  <2>3. CASE Unindex(c)
    BY <1>0, <1>9, <2>3 DEF TypeInv, TypeOK, Rest, Unindex
  <2>4. CASE Abandon(c)
    BY <1>0, <1>9, <2>4 DEF TypeInv, TypeOK, Rest, Abandon
  <2> QED BY <1>9, <2>1, <2>2, <2>3, <2>4
<1>10. ASSUME Rest, NEW k \in Keys, Expire(k) PROVE TypeInv'
  BY <1>0, <1>10 DEF TypeInv, TypeOK, Rest, Expire
<1>11. ASSUME Rest, UNCHANGED <<val, lru, pc, key, limit, excess, todo, got, used, doomed, survivors>>
       PROVE  TypeInv'
  BY <1>11 DEF TypeInv, TypeOK, Rest
<1>12. CASE UNCHANGED vars
  BY <1>12 DEF vars, TypeInv, TypeOK
<1>13. CASE Next
  <2>1. Rest
    BY <1>1, <1>13 DEF Rest
  <2>2. CASE Command
    BY <1>2, <1>3, <1>4, <1>5, <1>6, <1>7, <1>8, <1>9, <1>10, <1>11, <2>1, <2>2 DEF Command, SetDisabled
  <2>3. CASE Fault
    BY <1>5, <1>8, <1>9, <1>11, <2>1, <2>3 DEF Fault, ClocksDisagree
  <2> QED BY <1>13, <2>2, <2>3 DEF Next
<1> QED BY <1>12, <1>13

\* The variables of L2Cache have their types, also with faults.
THEOREM L2Typed == Spec => []TypeInv
<1>1. Init => TypeInv
  <2> SUFFICES ASSUME Init PROVE TypeInv
    OBVIOUS
  <2>1. lru \in Seq(Keys) /\ used \in Seq(Keys) /\ todo \in [Clients -> Seq(Keys)]
    BY DEF Init
  <2>2. val \in [Keys -> Values \cup {NoValue, Garbled}]
    BY DEF Init
  <2>3. /\ pc \in [Clients -> {"idle", "zrem", "touch", "purge", "index", "count", "pop",
                               "evict", "delete", "unindex"}]
        /\ \A c \in Clients : pc[c] # "evict"
    BY DEF Init
  <2> QED BY <2>1, <2>2, <2>3 DEF Init, TypeInv, TypeOK
<1> QED BY <1>1, StepTyped, PTL DEF Spec

---------------------------------------------------------------------------
(* One operation at a time                                                 *)

\* A member does not come both before and after another one, or itself.
LEMMA BeforeOnce ==
    ASSUME NEW s \in Seq(Keys), Distinct(s), NEW a, NEW b, Before(s, a, b)
    PROVE  ~Before(s, b, a)
<1> SUFFICES ASSUME Before(s, b, a) PROVE FALSE
  OBVIOUS
<1>1. PICK i \in 1..Len(s), j \in 1..Len(s) : i < j /\ s[i] = a /\ s[j] = b
  BY DEF Before
<1>2. PICK m \in 1..Len(s), n \in 1..Len(s) : m < n /\ s[m] = b /\ s[n] = a
  BY DEF Before
<1>3. i = n /\ j = m
  BY <1>1, <1>2 DEF Distinct
<1> QED BY <1>1, <1>2, <1>3

\* c is the only client with a running operation.
Runs(c) == \A d \in Clients \ {c} : pc[d] = "idle"

\* What Calm says when only c runs.
Alone(c) ==
    /\ Distinct(lru) /\ Distinct(used)
    /\ \A k \in Keys : Holds(k) => Has(used, k) /\ (Has(lru, k) \/ Carries(c, k))
    /\ \A a, b \in Keys :
          Holds(a) /\ Holds(b) /\ Has(lru, a) /\ Has(lru, b) /\ (Pending(c) => key[c] \notin {a, b})
          => (Before(lru, a, b) <=> Before(used, a, b))
    /\ Knows(c)
    /\ pc[c] \notin {"count", "pop"} => Len(lru) <= bound
    /\ survivors = {}

\* The acting client may take Calm to be about itself.
LEMMA Focus == ASSUME Calm, NEW c \in Clients, Runs(c) PROVE Alone(c)
<1>1. \A k \in Keys : Away(k) <=> Carries(c, k)
  BY DEF Away, Carries, Runs
<1>2. \A d \in Clients : Pending(d) => d = c
  BY DEF Pending, Runs
<1>3. pc[c] \notin {"count", "pop"} => Len(lru) <= bound
  BY DEF Calm, Bounded, Runs
<1> QED BY <1>1, <1>2, <1>3 DEF Calm, Indexed, Settled, Alone

\* And what it keeps of itself holds for all.
LEMMA Unfocus == ASSUME NEW c \in Clients, Alone(c)', Runs(c)', Solo' PROVE Calm'
<1>1. \A k \in Keys : Carries(c, k)' => Away(k)'
  BY DEF Away
<1>2. \A d \in Clients : Pending(d)' => d = c
  BY DEF Pending, Runs
<1>3. Indexed'
  BY <1>1, <1>2 DEF Indexed, Settled, Alone
<1>4. \A d \in Clients : Knows(d)'
  BY DEF Knows, Pending, Runs, Alone
<1>5. Bounded'
  BY DEF Bounded, Alone
<1> QED BY <1>3, <1>4, <1>5 DEF Calm, Alone

\* A client that begins or goes on with an operation is the only one that runs.
LEMMA ActsAlone ==
    ASSUME TypeInv, Solo, Solo', NEW c \in Clients, NEW to, pc' = [pc EXCEPT ![c] = to],
           pc[c] # "idle" \/ to # "idle"
    PROVE  Runs(c) /\ Runs(c)'
<1>1. pc'[c] = to /\ \A d \in Clients \ {c} : pc'[d] = pc[d]
  BY DEF TypeInv, TypeOK
<1> QED BY <1>1 DEF Solo, Overlap, Runs

\* A miss is about to remove an entry that no value stands behind.
LEMMA GetAlone ==
    ASSUME TypeInv, ~disturbed, NEW c \in Clients, NEW k \in Keys, Alone(c), bound' = bound,
           GetNil(c, k) \/ GetGarbled(c, k)
    PROVE  Alone(c)'
<1>1. pc[c] = "idle" /\ pc'[c] \in {"zrem", "purge"} /\ key'[c] = k /\ ~Holds(k)
  BY DEF TypeInv, TypeOK, GetNil, GetGarbled, Holds
<1>2. UNCHANGED <<val, lru, todo, used, doomed, survivors, bound>>
  BY DEF GetNil, GetGarbled
<1>3. \A q : Holds(q)' <=> Holds(q)
  BY <1>2 DEF Holds
<1>4. Knows(c)'
  BY <1>1, <1>3 DEF Knows, Pending
<1> QED BY <1>1, <1>2, <1>3, <1>4 DEF Alone, Carries, Pending

\* A hit puts the key last in the order of use, and the index has it.
LEMMA GetFoundAlone ==
    ASSUME TypeInv, ~disturbed, NEW c \in Clients, NEW k \in Keys, Alone(c), bound' = bound,
           GetFound(c, k)
    PROVE  Alone(c)'
<1>1. pc[c] = "idle" /\ pc'[c] = "touch" /\ key'[c] = k /\ Holds(k)
  BY DEF TypeInv, TypeOK, GetFound, Holds
<1>2. UNCHANGED <<val, lru, todo, doomed, survivors, bound>> /\ used' = ToEnd(used, k)
  BY DEF GetFound, Use, ToEnd
<1>3. \A q : Holds(q)' <=> Holds(q)
  BY <1>2 DEF Holds
<1>4. /\ Distinct(used')
      /\ \A a : Has(used', a) <=> a = k \/ Has(used, a)
      /\ \A a, b : Before(used', a, b) <=>
            (Before(used, a, b) /\ a # k /\ b # k) \/ (b = k /\ a # k /\ Has(used, a))
  <2>1. used \in Seq(Keys) /\ Distinct(used)
    BY DEF TypeInv, TypeOK, Alone
  <2> QED BY <1>2, <2>1, ToEndOrder
<1>5. Has(lru, k)
  BY <1>1 DEF Alone, Carries
<1>6. Knows(c)'
  BY <1>1, <1>2, <1>4, <1>5 DEF Knows, Pending
<1> QED BY <1>1, <1>2, <1>3, <1>4, <1>6 DEF Alone, Carries, Pending

\* Storing a value puts the key last in the order of use; the index follows.
LEMMA SetValueAlone ==
    ASSUME TypeInv, ~disturbed, NEW c \in Clients, NEW k \in Keys, NEW v \in Values, NEW m \in Limits,
           Alone(c), bound' = bound, SetValue(c, k, v, m)
    PROVE  Alone(c)'
<1>1. pc[c] = "idle" /\ pc'[c] = "index" /\ key'[c] = k
  BY DEF TypeInv, TypeOK, SetValue
<1>2. UNCHANGED <<lru, todo, survivors, bound>> /\ used' = ToEnd(used, k)
  BY DEF SetValue, Use, ToEnd
<1>3. \A q \in Keys : q # k => (Holds(q)' <=> Holds(q))
  BY DEF Holds, SetValue, TypeInv, TypeOK
<1>4. /\ Distinct(used')
      /\ \A a : Has(used', a) <=> a = k \/ Has(used, a)
      /\ \A a, b : Before(used', a, b) <=>
            (Before(used, a, b) /\ a # k /\ b # k) \/ (b = k /\ a # k /\ Has(used, a))
  <2>1. used \in Seq(Keys) /\ Distinct(used)
    BY DEF TypeInv, TypeOK, Alone
  <2> QED BY <1>2, <2>1, ToEndOrder
<1>5. Knows(c)'
  BY <1>1, <1>2, <1>4 DEF Knows, Pending
<1> QED BY <1>1, <1>2, <1>3, <1>4, <1>5 DEF Alone, Carries, Pending

\* The key of an operation that has used it moves to the end of the index: the
\* orders agree on it again.
LEMMA ZAddAlone ==
    ASSUME TypeInv, ~disturbed, NEW c \in Clients, Alone(c), bound' = bound, Touch(c) \/ Index(c)
    PROVE  Alone(c)'
<1> DEFINE k == key[c]
<1>0. k \in Keys /\ lru \in Seq(Keys) /\ used \in Seq(Keys) /\ Distinct(lru) /\ Distinct(used)
  BY DEF TypeInv, TypeOK, Alone
<1>1. /\ \/ pc[c] = "touch" /\ pc'[c] = "idle"
         \/ pc[c] = "index" /\ pc'[c] = "count"
      /\ UNCHANGED <<val, key, todo, used, doomed, survivors, bound>>
  <2>1. pc \in [Clients -> {"idle", "zrem", "touch", "purge", "index", "count", "pop",
                            "evict", "delete", "unindex"}]
    BY DEF TypeInv, TypeOK
  <2>2. CASE Touch(c)
    BY <2>1, <2>2 DEF Touch
  <2>3. CASE Index(c)
    BY <2>1, <2>3 DEF Index
  <2> QED BY <2>2, <2>3
<1>2. lru' = ToEnd(lru, k)
  <2>1. ZAdd(k)
    BY DEF Touch, Index
  <2> QED BY <2>1 DEF ZAdd, ToEnd
<1> HIDE DEF k
<1>3. \A q : Holds(q)' <=> Holds(q)
  BY <1>1 DEF Holds
<1>4. /\ Distinct(lru')
      /\ Len(lru') = IF Has(lru, k) THEN Len(lru) ELSE Len(lru) + 1
      /\ \A a : Has(lru', a) <=> a = k \/ Has(lru, a)
      /\ \A a, b : Before(lru', a, b) <=>
            (Before(lru, a, b) /\ a # k /\ b # k) \/ (b = k /\ a # k /\ Has(lru, a))
  <2> DEFINE t == ToEnd(lru, k)
  <2>1. /\ Distinct(t)
        /\ Len(t) = IF Has(lru, k) THEN Len(lru) ELSE Len(lru) + 1
        /\ \A a : Has(t, a) <=> a = k \/ Has(lru, a)
        /\ \A a, b : Before(t, a, b) <=>
              (Before(lru, a, b) /\ a # k /\ b # k) \/ (b = k /\ a # k /\ Has(lru, a))
    BY <1>0, ToEndOrder
  <2> HIDE DEF t
  <2>2. lru' = t
    BY <1>2 DEF t
  <2> QED BY <2>1, <2>2
<1>5. /\ \A q \in Keys : Holds(q) => Has(used, q) /\ (Has(lru, q) \/ q = k)
      /\ \A q \in Keys \ {k} : Has(used, q) => Before(used, q, k)
      /\ \A a, b \in Keys \ {k} : Holds(a) /\ Holds(b) /\ Has(lru, a) /\ Has(lru, b)
                                  => (Before(lru, a, b) <=> Before(used, a, b))
      /\ pc[c] = "touch" => Has(lru, k) /\ Len(lru) <= bound
  BY <1>0, <1>1 DEF Alone, Carries, Knows, Pending, k
<1>6. ASSUME NEW a \in Keys, NEW b \in Keys, Holds(a), Holds(b)
      PROVE  Before(lru', a, b) <=> Before(used, a, b)
  <2>1. CASE a # k /\ b # k
    BY <1>4, <1>5, <1>6, <2>1
  <2>2. CASE a # k /\ b = k
    BY <1>4, <1>5, <1>6, <2>2
  <2>3. CASE a = k /\ b # k
    BY <1>0, <1>4, <1>5, <1>6, <2>3, BeforeOnce
  <2>4. CASE a = k /\ b = k
    BY <1>0, <1>4, <2>4, BeforeOnce
  <2> QED BY <2>1, <2>2, <2>3, <2>4
<1>7. Knows(c)'
  BY <1>1 DEF Knows, Pending
<1>8. pc'[c] \notin {"count", "pop"} => Len(lru') <= bound'
  BY <1>1, <1>4, <1>5
<1>9. \A q \in Keys : Holds(q)' => Has(used', q) /\ Has(lru', q)
  BY <1>1, <1>3, <1>4, <1>5
<1> QED BY <1>0, <1>1, <1>3, <1>4, <1>6, <1>7, <1>8, <1>9 DEF Alone

\* The entry of a key without a value goes.
LEMMA ZRemAlone ==
    ASSUME TypeInv, ~disturbed, NEW c \in Clients, Alone(c), bound' = bound, ZRem(c)
    PROVE  Alone(c)'
<1> DEFINE k == key[c]
<1>0. lru \in Seq(Keys) /\ Distinct(lru) /\ bound \in Nat /\ Len(lru) \in Nat
  BY DEF TypeInv, TypeOK, Alone
<1>1. /\ pc[c] = "zrem" /\ pc'[c] = "idle" /\ lru' = Remove(lru, k)
      /\ UNCHANGED <<val, used, survivors, bound>>
  BY DEF TypeInv, TypeOK, ZRem
<1>2. ~Holds(k) /\ Len(lru) <= bound
  BY <1>1 DEF Alone, Knows
<1> HIDE DEF k
<1>3. \A q : Holds(q)' <=> Holds(q)
  BY <1>1 DEF Holds
<1>4. /\ Distinct(lru') /\ Len(lru') = IF Has(lru, k) THEN Len(lru) - 1 ELSE Len(lru)
      /\ \A a : Has(lru', a) <=> Has(lru, a) /\ a # k
      /\ \A a, b : Before(lru', a, b) <=> Before(lru, a, b) /\ a # k /\ b # k
  BY <1>0, <1>1, RemoveOrder
<1>5. Knows(c)'
  BY <1>1 DEF Knows, Pending
<1>6. Len(lru') <= bound'
  BY <1>0, <1>1, <1>2, <1>4
<1> QED BY <1>1, <1>2, <1>3, <1>4, <1>5, <1>6 DEF Alone, Carries, Pending

\* Deleting values takes nothing from the index.
LEMMA PurgeAlone ==
    ASSUME TypeInv, ~disturbed, NEW c \in Clients, Alone(c), bound' = bound, Purge(c)
    PROVE  Alone(c)'
<1>1. /\ pc[c] = "purge" /\ pc'[c] = "zrem" /\ val' = [val EXCEPT ![key[c]] = NoValue]
      /\ UNCHANGED <<lru, key, used, survivors, bound>> /\ key[c] \in Keys
  BY DEF TypeInv, TypeOK, Purge
<1>2. ~Holds(key[c])' /\ \A q \in Keys : Holds(q)' => Holds(q)
  BY <1>1 DEF Holds, TypeInv, TypeOK
<1>3. Knows(c)'
  BY <1>1, <1>2 DEF Knows, Pending
<1> QED BY <1>1, <1>2, <1>3 DEF Alone, Carries, Pending

\* ZCARD finds the index within the limit, or tells how far it is beyond it.
LEMMA CountAlone ==
    ASSUME TypeInv, ~disturbed, NEW c \in Clients, Alone(c), bound' = limit[c], Count(c)
    PROVE  Alone(c)'
<1>0. Len(lru) \in Nat /\ limit[c] \in Nat /\ excess \in [Clients -> Nat]
  BY DEF TypeInv, TypeOK
<1>1. /\ pc[c] = "count" /\ pc'[c] = IF OverLimit(c) THEN "pop" ELSE "idle"
      /\ excess'[c] = IF OverLimit(c) THEN Len(lru) - limit[c] ELSE 0
      /\ UNCHANGED <<val, lru, key, used, survivors>>
  BY DEF TypeInv, TypeOK, Count
<1>2. \A q : Holds(q)' <=> Holds(q)
  BY <1>1 DEF Holds
<1>3. Knows(c)'
  <2>1. CASE OverLimit(c)
    BY <1>0, <1>1, <2>1 DEF Knows, Pending, OverLimit
  <2>2. CASE ~OverLimit(c)
    BY <1>1, <2>2 DEF Knows, Pending
  <2> QED BY <2>1, <2>2
<1>4. pc'[c] \notin {"count", "pop"} => Len(lru') <= bound'
  BY <1>0, <1>1 DEF OverLimit
<1>5. pc'[c] \in {"pop", "idle"}
  BY <1>1
<1> QED BY <1>1, <1>2, <1>3, <1>4, <1>5 DEF Alone, Carries, Pending

\* ZPOPMIN leaves as many entries as the limit allows; the others are in the
\* hands of c.
LEMMA PopAlone ==
    ASSUME TypeInv, ~disturbed, NEW c \in Clients, Alone(c), bound' = bound, Pop(c)
    PROVE  Alone(c)'
<1> DEFINE n == IF excess[c] < Len(lru) THEN excess[c] ELSE Len(lru)
<1>0. lru \in Seq(Keys) /\ Distinct(lru) /\ bound \in Nat /\ Len(lru) \in Nat /\ excess[c] \in Nat
  BY DEF TypeInv, TypeOK, Alone
<1>1. /\ pc[c] = "pop" /\ pc'[c] = IF n = 0 THEN "idle" ELSE "evict"
      /\ todo'[c] = SubSeq(lru, 1, n) /\ lru' = SubSeq(lru, n + 1, Len(lru))
      /\ UNCHANGED <<val, key, used, survivors, bound>>
  BY DEF TypeInv, TypeOK, Pop
<1>2. bound < Len(lru) /\ excess[c] = Len(lru) - bound
  BY <1>1 DEF Alone, Knows
<1>3. n = Len(lru) - bound /\ n \in 0..Len(lru) /\ n # 0
  BY <1>0, <1>2
<1> HIDE DEF n
<1> DEFINE p == SubSeq(lru, 1, n)
           t == SubSeq(lru, n + 1, Len(lru))
<1>4. /\ Len(t) = Len(lru) - n /\ Distinct(t)
      /\ \A a : Has(lru, a) <=> Has(p, a) \/ Has(t, a)
      /\ \A a, b : Before(t, a, b) <=> Before(lru, a, b) /\ Has(t, a) /\ Has(t, b)
  BY <1>0, <1>3, SplitOrder
<1>5. todo'[c] = p /\ lru' = t
  BY <1>1
<1> HIDE DEF p, t
<1>6. pc'[c] = "evict" /\ Len(lru') = bound
  BY <1>0, <1>1, <1>3, <1>4, <1>5
<1>7. \A q : Has(lru, q) => Has(lru', q) \/ q \in Listed(c)'
  BY <1>4, <1>5 DEF Has, Listed
<1>8. \A q : Holds(q)' <=> Holds(q)
  BY <1>1 DEF Holds
<1>9. Knows(c)'
  BY <1>6 DEF Knows, Pending
<1>10. \A q \in Keys : Holds(q)' => Has(used', q) /\ (Has(lru', q) \/ Carries(c, q)')
  BY <1>1, <1>6, <1>7, <1>8 DEF Alone, Carries
<1>11. \A a, b \in Keys :
          Holds(a)' /\ Holds(b)' /\ Has(lru', a) /\ Has(lru', b)
          => (Before(lru', a, b) <=> Before(used', a, b))
  BY <1>1, <1>4, <1>5, <1>8 DEF Alone, Pending
<1>12. Distinct(lru') /\ Distinct(used') /\ survivors' = {}
  BY <1>1, <1>4, <1>5 DEF Alone
<1>13. Len(lru') <= bound'
  BY <1>0, <1>6
<1> QED BY <1>9, <1>10, <1>11, <1>12, <1>13 DEF Alone

\* Each DEL leaves c with one entry less that has a value and no place.
LEMMA EvictAlone ==
    ASSUME TypeInv, ~disturbed, NEW c \in Clients, Alone(c), bound' = bound, Evict(c)
    PROVE  Alone(c)'
<1> DEFINE s == todo[c]
           h == Head(todo[c])
           t == Tail(todo[c])
<1>0. s \in Seq(Keys) /\ s # << >>
  BY DEF TypeInv, TypeOK, Evict, NextVictim
<1>1. /\ pc[c] = "evict" /\ pc'[c] = IF Len(s) = 1 THEN "idle" ELSE "evict"
      /\ todo'[c] = t /\ val' = [val EXCEPT ![h] = NoValue]
      /\ UNCHANGED <<lru, key, used, survivors, bound>>
  BY DEF TypeInv, TypeOK, Evict, NextVictim
<1>2. /\ h \in Keys /\ Len(s) \in Nat /\ Len(t) = Len(s) - 1 /\ h = s[1]
      /\ \A i \in 1..Len(s) : i # 1 => i - 1 \in 1..Len(t) /\ t[i - 1] = s[i]
  <2>1. h \in Keys /\ Len(s) \in Nat /\ Len(t) = Len(s) - 1 /\ h = s[1] /\ Len(s) # 0
    BY <1>0
  <2>2. \A j \in 1..Len(t) : t[j] = s[j + 1]
    BY <1>0
  <2>3. ASSUME NEW i \in 1..Len(s), i # 1 PROVE i - 1 \in 1..Len(t) /\ t[i - 1] = s[i]
    <3>1. i - 1 \in 1..Len(t) /\ (i - 1) + 1 = i
      BY <2>1, <2>3
    <3> HIDE DEF s, t
    <3> QED BY <2>2, <3>1
  <2> QED BY <2>1, <2>3
<1> HIDE DEF s, h, t
<1>3. \A q \in Keys : Holds(q)' => Holds(q) /\ q # h
  <2>1. val'[h] = NoValue /\ \A q \in Keys : q # h => val'[q] = val[q]
    BY <1>1, <1>2 DEF TypeInv, TypeOK
  <2> QED BY <2>1 DEF Holds
<1>4. \A q \in Keys : q \in Listed(c) => q = h \/ q \in Listed(c)'
  BY <1>1, <1>2 DEF Listed, s
<1>5. ASSUME Len(s) = 1 PROVE \A q \in Keys : q \in Listed(c) => q = h
  BY <1>2, <1>5 DEF Listed, s
<1>6. ASSUME NEW q \in Keys, Holds(q)' PROVE Has(used', q) /\ (Has(lru', q) \/ Carries(c, q)')
  <2>1. Holds(q) /\ q # h
    BY <1>3, <1>6
  <2>2. Has(used, q) /\ (Has(lru, q) \/ q \in Listed(c))
    BY <1>1, <2>1 DEF Alone, Carries
  <2>3. CASE Len(s) = 1
    BY <1>1, <1>5, <2>1, <2>2, <2>3
  <2>4. CASE Len(s) # 1
    BY <1>1, <1>4, <2>1, <2>2, <2>4 DEF Carries
  <2> QED BY <2>3, <2>4
<1>7. pc'[c] \in {"idle", "evict"}
  BY <1>1
<1>8. Knows(c)'
  BY <1>7 DEF Knows, Pending
<1> QED BY <1>1, <1>3, <1>6, <1>7, <1>8 DEF Alone, Pending

\* A clear lists every key with a value: the index has them all.
LEMMA ClearListAlone ==
    ASSUME TypeInv, ~disturbed, NEW c \in Clients, Alone(c), bound' = bound, ClearList(c)
    PROVE  Alone(c)'
<1>1. /\ pc[c] = "idle" /\ pc'[c] = IF lru = << >> THEN "unindex" ELSE "delete"
      /\ todo'[c] = lru /\ doomed'[c] = {k \in Keys : Holds(k)}
      /\ UNCHANGED <<val, lru, key, used, survivors, bound>>
  BY DEF TypeInv, TypeOK, ClearList, Holds
<1>2. \A q : Holds(q)' <=> Holds(q)
  BY <1>1 DEF Holds
<1>3. \A q \in Keys : Holds(q) => Has(lru, q)
  BY <1>1 DEF Alone, Carries
<1>4. \A q \in Keys : Holds(q)' => q \in Listed(c)'
  BY <1>1, <1>2, <1>3 DEF Has, Listed
<1>5. CASE lru = << >>
  <2>1. pc'[c] = "unindex" /\ \A q \in Keys : ~Holds(q)'
    BY <1>1, <1>2, <1>3, <1>5 DEF Has
  <2>2. doomed'[c] = {}
    BY <1>1, <1>2, <2>1
  <2>3. Knows(c)'
    BY <2>1, <2>2 DEF Knows, Pending
  <2> QED BY <1>1, <2>1, <2>3 DEF Alone
<1>6. CASE lru # << >>
  <2>1. pc'[c] = "delete"
    BY <1>1, <1>6
  <2>2. doomed'[c] \subseteq Listed(c)'
    BY <1>1, <1>2, <1>4
  <2>3. Knows(c)'
    BY <1>4, <2>1, <2>2 DEF Knows, Pending
  <2> QED BY <1>1, <1>2, <2>1, <2>3 DEF Alone, Carries, Pending
<1> QED BY <1>5, <1>6

\* Its DEL leaves no value that was there when it began.
LEMMA DeleteListedAlone ==
    ASSUME TypeInv, ~disturbed, NEW c \in Clients, Alone(c), bound' = bound, DeleteListed(c)
    PROVE  Alone(c)'
<1>1. /\ pc[c] = "delete" /\ pc'[c] = "unindex"
      /\ \A k \in Keys : val'[k] = IF k \in Listed(c) THEN NoValue ELSE val[k]
      /\ UNCHANGED <<lru, used, doomed, survivors, bound>>
  BY DEF TypeInv, TypeOK, DeleteListed
<1>2. doomed[c] \subseteq Listed(c) /\ \A k \in Keys : Holds(k) => k \in Listed(c)
  BY <1>1 DEF Alone, Knows
<1>3. \A k \in Keys : ~Holds(k)'
  BY <1>1, <1>2 DEF Holds
<1>4. (doomed[c] \cap Live)' = {}
  BY <1>1, <1>2 DEF Live
<1>5. Knows(c)'
  BY <1>1, <1>3, <1>4 DEF Knows, Pending
<1> QED BY <1>1, <1>3, <1>5 DEF Alone

\* Nothing has survived when it drops the index.
LEMMA UnindexAlone ==
    ASSUME TypeInv, ~disturbed, NEW c \in Clients, Alone(c), bound' = bound, Unindex(c)
    PROVE  Alone(c)'
<1>1. /\ pc[c] = "unindex" /\ pc'[c] = "idle" /\ lru' = << >>
      /\ survivors' = survivors \cup (doomed[c] \cap Live)
      /\ UNCHANGED <<val, used, bound>>
  BY DEF TypeInv, TypeOK, Unindex
<1>2. doomed[c] \cap Live = {} /\ \A k \in Keys : ~Holds(k)
  BY <1>1 DEF Alone, Knows
<1>3. survivors' = {} /\ \A k \in Keys : ~Holds(k)'
  BY <1>1, <1>2 DEF Alone, Holds
<1>4. Distinct(lru') /\ Len(lru') <= bound'
  <2>1. Len(lru') = 0 /\ bound' \in Nat
    BY <1>1 DEF TypeInv, TypeOK
  <2> QED BY <2>1 DEF Distinct
<1>5. Knows(c)'
  BY <1>1 DEF Knows, Pending
<1> QED BY <1>1, <1>3, <1>4, <1>5 DEF Alone

\* A value that expires leaves its entry: no order and no bound is about it.
LEMMA ExpireCalm ==
    ASSUME TypeInv, Calm, NEW k \in Keys, Expire(k), bound' = bound
    PROVE  Calm'
<1>1. UNCHANGED <<lru, pc, key, limit, excess, todo, used, doomed, survivors, bound>>
  BY DEF Expire
<1>2. \A q \in Keys : (Holds(q)' => Holds(q)) /\ (q \in Live' => q \in Live)
  <2>1. \A q \in Keys : val'[q] = NoValue \/ val'[q] = val[q]
    BY DEF Expire, TypeInv, TypeOK
  <2> QED BY <2>1 DEF Holds, Live
<1>3. \A c \in Clients : /\ \A q : Carries(c, q)' <=> Carries(c, q)
                         /\ Pending(c)' <=> Pending(c)
                         /\ Listed(c)' = Listed(c)
  BY <1>1 DEF Carries, Pending, Listed
<1>4. Indexed'
  BY <1>1, <1>2, <1>3 DEF Calm, Indexed, Settled, Away
<1>5. ASSUME NEW c \in Clients PROVE Knows(c)'
  <2>1. Knows(c) /\ key[c] \in Keys /\ doomed[c] \subseteq Keys
    BY DEF Calm, TypeInv, TypeOK
  <2> QED BY <1>1, <1>2, <1>3, <2>1 DEF Knows
<1> QED BY <1>1, <1>4, <1>5 DEF Calm, Solo, Overlap, Bounded

\* The bound changes only where c counts, to the limit of c.
LEMMA BoundStep ==
    ASSUME TypeInv, NEW c \in Clients, NEW to, pc' = [pc EXCEPT ![c] = to],
           bound' = IF \E d \in Clients : Counts(d)
                    THEN limit[CHOOSE d \in Clients : Counts(d)] ELSE bound
    PROVE  /\ pc[c] # "count" => bound' = bound
           /\ pc[c] = "count" /\ to # "count" => bound' = limit[c]
<1>1. pc'[c] = to /\ \A d \in Clients \ {c} : pc'[d] = pc[d]
  BY DEF TypeInv, TypeOK
<1>2. \A d \in Clients : Counts(d) <=> d = c /\ pc[c] = "count" /\ to # "count"
  BY <1>1 DEF Counts
<1>3. CASE pc[c] = "count" /\ to # "count"
  <2>1. (CHOOSE d \in Clients : Counts(d)) = c
    BY <1>2, <1>3
  <2> QED BY <1>2, <1>3, <2>1
<1>4. CASE ~(pc[c] = "count" /\ to # "count")
  BY <1>2, <1>4
<1> QED BY <1>3, <1>4

\* Every command keeps Undisturbed.
LEMMA StepUndisturbed == ASSUME TypeInv, Undisturbed, [Next]_vars PROVE Undisturbed'
<1> SUFFICES ASSUME ~disturbed' PROVE Calm'
  BY DEF Undisturbed
<1> DEFINE BoundNext == bound' = IF \E d \in Clients : Counts(d)
                                 THEN limit[CHOOSE d \in Clients : Counts(d)] ELSE bound
<1>1. CASE UNCHANGED vars
  <2>1. Calm
    BY <1>1 DEF Undisturbed, vars
  <2> QED BY <1>1, <2>1 DEF vars, Calm, Indexed, Settled, Holds, Away, Carries, Pending, Listed,
             Knows, Live, Solo, Overlap, Bounded
<1>2. CASE Next
  <2>1. Command /\ ~disturbed /\ Solo' /\ BoundNext
    BY <1>2 DEF Next, Solo
  <2>2. Calm /\ Solo
    BY <2>1 DEF Undisturbed, Calm
  <2> HIDE DEF BoundNext
  <2>3. ASSUME NEW c \in Clients, NEW to, pc' = [pc EXCEPT ![c] = to], pc[c] # "idle" \/ to # "idle"
        PROVE  /\ Alone(c) /\ (Alone(c)' => Calm')
               /\ pc[c] # "count" => bound' = bound
               /\ pc[c] = "count" /\ to # "count" => bound' = limit[c]
    <3>1. Runs(c) /\ Runs(c)'
      BY <2>1, <2>2, <2>3, ActsAlone
    <3>2. /\ pc[c] # "count" => bound' = bound
          /\ pc[c] = "count" /\ to # "count" => bound' = limit[c]
      BY <2>1, <2>3, BoundStep DEF BoundNext
    <3> QED BY <2>1, <2>2, <3>1, <3>2, Focus, Unfocus
  <2>4. ASSUME NEW c \in Clients, NEW k \in Keys, GetNil(c, k) \/ GetFound(c, k) \/ GetGarbled(c, k)
        PROVE  Calm'
    <3>1. PICK to \in {"zrem", "touch", "purge"} : pc[c] = "idle" /\ pc' = [pc EXCEPT ![c] = to]
      BY <2>4 DEF GetNil, GetFound, GetGarbled
    <3>2. Alone(c) /\ (Alone(c)' => Calm') /\ bound' = bound
      BY <2>3, <3>1
    <3> QED BY <2>1, <2>4, <3>2, GetAlone, GetFoundAlone
  <2>5. ASSUME NEW c \in Clients, NEW k \in Keys, NEW v \in Values, NEW m \in Limits, SetValue(c, k, v, m)
        PROVE  Calm'
    <3>1. pc[c] = "idle" /\ pc' = [pc EXCEPT ![c] = "index"]
      BY <2>5 DEF SetValue
    <3>2. Alone(c) /\ (Alone(c)' => Calm') /\ bound' = bound
      BY <2>3, <3>1
    <3> QED BY <2>1, <2>5, <3>2, SetValueAlone
  <2>6. ASSUME NEW c \in Clients, Purge(c) \/ ZRem(c) \/ Touch(c) \/ Index(c) PROVE Calm'
    <3>1. PICK to \in {"zrem", "idle", "count"} :
             pc[c] \in {"purge", "zrem", "touch", "index"} /\ pc' = [pc EXCEPT ![c] = to]
      BY <2>6 DEF Purge, ZRem, Touch, Index
    <3>2. Alone(c) /\ (Alone(c)' => Calm') /\ bound' = bound
      BY <2>3, <3>1
    <3> QED BY <2>1, <2>6, <3>2, PurgeAlone, ZRemAlone, ZAddAlone
  <2>7. ASSUME NEW c \in Clients, Count(c) PROVE Calm'
    <3>1. PICK to \in {"pop", "idle"} : pc[c] = "count" /\ pc' = [pc EXCEPT ![c] = to]
      BY <2>7 DEF Count
    <3>2. Alone(c) /\ (Alone(c)' => Calm') /\ bound' = limit[c]
      BY <2>3, <3>1
    <3> QED BY <2>1, <2>7, <3>2, CountAlone
  <2>8. ASSUME NEW c \in Clients, Pop(c) \/ Evict(c) PROVE Calm'
    <3>1. PICK to \in {"idle", "evict"} :
             pc[c] \in {"pop", "evict"} /\ pc' = [pc EXCEPT ![c] = to]
      BY <2>8 DEF Pop, Evict, NextVictim
    <3>2. Alone(c) /\ (Alone(c)' => Calm') /\ bound' = bound
      BY <2>3, <3>1
    <3> QED BY <2>1, <2>8, <3>2, PopAlone, EvictAlone
  <2>9. ASSUME NEW c \in Clients, ClearList(c) \/ DeleteListed(c) \/ Unindex(c) PROVE Calm'
    <3>1. PICK to \in {"unindex", "delete", "idle"} :
             /\ pc' = [pc EXCEPT ![c] = to]
             /\ (pc[c] = "idle" /\ to # "idle") \/ pc[c] \in {"delete", "unindex"}
      BY <2>9 DEF ClearList, DeleteListed, Unindex
    <3>2. Alone(c) /\ (Alone(c)' => Calm') /\ bound' = bound
      BY <2>3, <3>1
    <3> QED BY <2>1, <2>9, <3>2, ClearListAlone, DeleteListedAlone, UnindexAlone
  <2>10. ASSUME pc' = pc PROVE bound' = bound
    BY <2>1, <2>10 DEF BoundNext, Counts
  <2>11. ASSUME NEW k \in Keys, Expire(k) PROVE Calm'
    BY <2>2, <2>10, <2>11, ExpireCalm DEF Expire
  <2>12. ASSUME NEW c \in Clients, NEW m \in Limits, SetDisabled(c, m) PROVE Calm'
    <3>1. UNCHANGED <<val, lru, pc, key, limit, excess, todo, got, used, doomed, survivors, bound>>
      BY <2>10, <2>12 DEF SetDisabled
    <3> QED BY <2>2, <3>1 DEF Calm, Indexed, Settled, Holds, Away, Carries, Pending, Listed,
               Knows, Live, Solo, Overlap, Bounded
  <2> QED BY <2>1, <2>4, <2>5, <2>6, <2>7, <2>8, <2>9, <2>11, <2>12 DEF Command
<1> QED BY <1>1, <1>2

\* While nothing disturbs the clients, the index knows every value and its use.
THEOREM L2Undisturbed == Spec => [](TypeInv /\ Undisturbed)
<1>1. Init => Undisturbed
  <2> SUFFICES ASSUME Init PROVE Calm
    BY DEF Undisturbed
  <2>1. \A k \in Keys : ~Holds(k)
    BY DEF Init, Holds
  <2>2. Len(lru) = 0 /\ Len(used) = 0 /\ bound = 0 /\ survivors = {}
    BY DEF Init
  <2>3. \A c \in Clients : pc[c] = "idle"
    BY DEF Init
  <2>4. Indexed
    BY <2>1, <2>2 DEF Indexed, Settled, Distinct
  <2>5. (\A c \in Clients : Knows(c)) /\ Solo /\ Bounded
    BY <2>2, <2>3 DEF Knows, Pending, Solo, Overlap, Bounded
  <2> QED BY <2>2, <2>4, <2>5 DEF Calm
<1>2. TypeInv /\ Undisturbed /\ [Next]_vars => Undisturbed'
  BY StepUndisturbed
<1> QED BY <1>1, <1>2, L2Typed, PTL DEF Spec

\* As long as operations do not overlap, ZPOPMIN of removeL2LRU evicts by least
\* recent use: the scores order the stored values as getL2 and setL2 used them.
THEOREM IndexIsInUseOrder == Spec => []EvictionOrder
<1>1. TypeInv /\ Undisturbed => EvictionOrder
  <2> SUFFICES ASSUME TypeInv, Undisturbed, Quiescent, ~disturbed
               PROVE  /\ \A k \in Keys : Holds(k) => Has(lru, k)
                      /\ \A k, q \in Keys : Holds(k) /\ Holds(q) =>
                            (Before(lru, k, q) <=> Before(used, k, q))
    BY DEF EvictionOrder
  <2>1. Indexed
    BY DEF Undisturbed, Calm
  <2>2. \A c \in Clients : ~Pending(c) /\ \A k \in Keys : ~Carries(c, k)
    BY DEF Quiescent, Pending, Carries
  <2> QED BY <2>1, <2>2 DEF Indexed, Settled, Away
<1> QED BY <1>1, L2Undisturbed, PTL

\* As long as operations do not overlap, a clearL2 that succeeds has removed
\* every value that existed when it began.
THEOREM ClearIsComplete == Spec => []ClearRemovesExisting
<1>1. Undisturbed => ClearRemovesExisting
  BY DEF Undisturbed, Calm, ClearRemovesExisting
<1> QED BY <1>1, L2Undisturbed, PTL

\* A sequence has at most as many different members as places.
LEMMA MembersWithinLength ==
    ASSUME NEW s \in Seq(Keys), NEW S \in SUBSET Keys, \A k \in S : Has(s, k)
    PROVE  Cardinality(S) \in Nat /\ Cardinality(S) <= Len(s)
<1> DEFINE D == 1..Len(s)
           T == {s[i] : i \in D}
<1>1. Len(s) \in Nat /\ IsFiniteSet(D) /\ Cardinality(D) = Len(s)
  <2>1. Len(s) \in Nat /\ Len(s) \in Int /\ 1 \in Int
    OBVIOUS
  <2>2. /\ IsFiniteSet(1..Len(s))
        /\ Cardinality(1..Len(s)) = IF 1 > Len(s) THEN 0 ELSE Len(s) - 1 + 1
    BY <2>1, FS_Interval
  <2> QED BY <2>1, <2>2
<1>2. IsFiniteSet(T) /\ Cardinality(T) <= Cardinality(D)
  <2>1. [i \in D |-> s[i]] \in Surjection(D, T)
    BY DEF Surjection
  <2> QED BY <1>1, <2>1, FS_Surjection
<1>3. S \subseteq T
  BY DEF Has
<1>4. IsFiniteSet(S) /\ Cardinality(S) <= Cardinality(T)
  BY <1>2, <1>3, FS_Subset
<1>5. Cardinality(S) \in Nat /\ Cardinality(T) \in Nat
  BY <1>2, <1>4, FS_CardinalityType
<1> HIDE DEF D, T
<1> QED BY <1>1, <1>2, <1>4, <1>5

\* As long as operations do not overlap, setL2 leaves at most L2MaxEntries
\* values, also after the setting was lowered.
THEOREM CapacityHolds == Spec => []CapacityUndisturbed
<1>1. TypeInv /\ Undisturbed /\ EvictionOrder => CapacityUndisturbed
  <2> SUFFICES ASSUME TypeInv, Undisturbed, EvictionOrder, Quiescent, ~disturbed
               PROVE  Cardinality({k \in Keys : Holds(k)}) <= bound
    BY DEF CapacityUndisturbed, WithinCapacity
  <2> DEFINE S == {k \in Keys : Holds(k)}
  <2>1. \A k \in S : Has(lru, k)
    BY DEF EvictionOrder
  <2>2. Len(lru) <= bound /\ lru \in Seq(Keys) /\ Len(lru) \in Nat /\ bound \in Nat
    BY DEF Undisturbed, Calm, Bounded, Quiescent, TypeInv, TypeOK
  <2>3. Cardinality(S) \in Nat /\ Cardinality(S) <= Len(lru)
    BY <2>1, <2>2, MembersWithinLength
  <2> QED BY <2>2, <2>3
<1> QED BY <1>1, L2Undisturbed, IndexIsInUseOrder, PTL

=============================================================================

--------------------------- MODULE TTLCache_proofs ---------------------------
(***************************************************************************)
(* Machine-checked proofs about TTLCache, for any keys, values, capacity   *)
(* and time to live: the size bound, the guarantee of least-recently-used  *)
(* eviction, and that the cache implements LossyStore.                     *)
(***************************************************************************)
EXTENDS TTLCache, FiniteSetTheorems, WellFoundedInduction, TLAPS

(***************************************************************************)
(* Lemmas about the eviction loop.                                         *)
(***************************************************************************)

\* A non-empty set of naturals has a least element.
LEMMA LeastNat ==
    ASSUME NEW T, T \subseteq Nat, T # {}
    PROVE  \E m \in T : \A n \in T : m =< n
<1>1. PICK m \in T : \A n \in T : ~ (<<n, m>> \in OpToRel(<, Nat))
  BY WFMin, NatLessThanWellFounded
<1>2. \A n \in T : n \in Nat /\ m \in Nat /\ ~ (n < m)  BY <1>1 DEF OpToRel
<1>3. \A n \in T : m =< n  BY <1>2
<1>4. QED  BY <1>3

\* Positions of live entries are naturals, and no two entries share one.
Ordered(s) ==
    /\ \A k \in Live(s) : s[k].at \in Nat
    /\ \A j, k \in Live(s) : s[j].at = s[k].at => j = k

LEMMA LiveFinite ==
    ASSUME NEW s
    PROVE  IsFiniteSet(Live(s)) /\ Cardinality(Live(s)) \in Nat
BY FS_Subset, FS_CardinalityType, CacheConstants DEF Live

\* A store that is too long loses its oldest entry, and nothing else.
LEMMA TrimOldest ==
    ASSUME NEW s, Ordered(s), Cardinality(Live(s)) > Max
    PROVE  \E o \in Live(s) :
             /\ \A j \in Live(s) \ {o} : s[o].at < s[j].at
             /\ Trim(s) = [k \in Keys |-> IF k = o THEN None ELSE s[k]]
<1>1. Live(s) # {}  BY FS_EmptySet, CacheConstants
<1> DEFINE T == {s[k].at : k \in Live(s)}
<1>2. T # {} /\ T \subseteq Nat  BY <1>1 DEF Ordered
<1> HIDE DEF T
<1>3. PICK m \in T : \A n \in T : m =< n  BY <1>2, LeastNat
<1>4. PICK o \in Live(s) : s[o].at = m  BY <1>3 DEF T
<1>5. \A j \in Live(s) : s[j].at \in T  BY DEF T
<1>6. \A j \in Live(s) : s[o].at =< s[j].at  BY <1>3, <1>4, <1>5
<1>7. \A j \in Live(s) \ {o} : s[o].at < s[j].at  BY <1>6 DEF Ordered
<1>8. \A k \in Keys : (\A j \in Live(s) : s[k] # None /\ s[k].at =< s[j].at) <=> k = o
  BY <1>1, <1>4, <1>6, <1>7 DEF Ordered, Live
<1>9. Trim(s) = [k \in Keys |-> IF k = o THEN None ELSE s[k]]  BY <1>8 DEF Trim
<1>10. QED  BY <1>7, <1>9

\* A store that is not too long is left alone.
LEMMA TrimShort ==
    ASSUME NEW s, ~ (Cardinality(Live(s)) > Max)
    PROVE  Trim(s) = s
BY DEF Trim

(***************************************************************************)
(* The inductive invariant.                                                *)
(*                                                                         *)
(* The guarantee RecentlyUsedKept counts the keys used after k; eviction   *)
(* looks at positions.  Newer ties the two together: every entry in front  *)
(* of k was used after k, so when k is the oldest of more than Max live    *)
(* entries, at least Max other keys were used after it.                    *)
(***************************************************************************)
Stamped == Ordered(store) /\ \A k \in Live(store) : store[k].at =< moves
Newer == \A j, k \in Live(store) : store[k].at < store[j].at => j \in since[k]
Deadlines == \A k \in Live(store) : due[k] = store[k].until

IInv ==
    /\ TypeOK /\ Stamped /\ SizeBound /\ Newer /\ Deadlines /\ RecentlyUsedKept

LEMMA InvInit == Init => IInv
<1> SUFFICES ASSUME Init PROVE IInv  OBVIOUS
<1>1. Live(store) = {}  BY DEF Init, Live
<1>2. TypeOK  BY DEF Init, TypeOK
<1>3. SizeBound  BY <1>1, FS_EmptySet, CacheConstants DEF SizeBound
<1>4. RecentlyUsedKept  BY DEF Init, RecentlyUsedKept
<1>5. QED  BY <1>1, <1>2, <1>3, <1>4 DEF IInv, Stamped, Ordered, Newer, Deadlines

\* Dropping entries that are past their deadline, or that nobody is owed,
\* keeps the invariant.
LEMMA InvDrop ==
    ASSUME IInv, NEW D \in SUBSET Keys,
           store' = [k \in Keys |-> IF k \in D THEN None ELSE store[k]],
           due' \in [Keys -> Nat \cup {None}],
           \A k \in Keys \ D : due'[k] = due[k],
           \A k \in D : due'[k] # None => due'[k] < now,
           got' \in Values \cup {None},
           UNCHANGED <<now, moves, since>>
    PROVE  IInv'
<1> USE DEF IInv
<1>1. TypeOK'  BY DEF TypeOK
<1>2. /\ Live(store)' = Live(store) \ D
      /\ \A k \in Live(store)' : store'[k] = store[k] /\ due'[k] = due[k]
  BY DEF Live
<1>3. Stamped'  BY <1>2 DEF Stamped, Ordered
<1>4. SizeBound'
  <2>1. Cardinality(Live(store)') =< Cardinality(Live(store))
    BY <1>2, LiveFinite, FS_Subset
  <2>2. Cardinality(Live(store)') \in Nat  BY LiveFinite
  <2>3. QED  BY <2>1, <2>2, LiveFinite, CacheConstants DEF SizeBound
<1>5. Newer' /\ Deadlines'  BY <1>2 DEF Newer, Deadlines
<1>6. RecentlyUsedKept'
  <2> SUFFICES ASSUME NEW k \in Keys, due'[k] # None, now =< due'[k], Cardinality(since[k]) < Max
               PROVE  store'[k] # None /\ store'[k].until = due'[k]
    BY DEF RecentlyUsedKept
  <2>1. k \notin D  BY DEF TypeOK
  <2>2. due'[k] = due[k] /\ store'[k] = store[k]  BY <2>1
  <2>3. QED  BY <2>2 DEF RecentlyUsedKept
<1>7. QED  BY <1>1, <1>3, <1>4, <1>5, <1>6

\* The bookkeeping of a use of k: the other keys only gain users.
LEMMA UsedGrows ==
    ASSUME TypeOK, NEW k \in Keys, Used(k)
    PROVE  /\ since' \in [Keys -> SUBSET Keys]
           /\ since'[k] = {}
           /\ \A j \in Keys \ {k} : since[j] \subseteq since'[j] /\ k \in since'[j]
           /\ \A j \in Keys : Cardinality(since'[j]) < Max /\ j # k => Cardinality(since[j]) < Max
<1>1. /\ since' \in [Keys -> SUBSET Keys] /\ since'[k] = {}
      /\ \A j \in Keys \ {k} : since'[j] = since[j] \cup {k}
  BY DEF Used, TypeOK
<1>2. ASSUME NEW j \in Keys, j # k, Cardinality(since'[j]) < Max
      PROVE  Cardinality(since[j]) < Max
  <2>1. since[j] \subseteq since'[j] /\ since'[j] \subseteq Keys  BY <1>1, <1>2 DEF TypeOK
  <2>2. IsFiniteSet(since'[j])  BY <2>1, FS_Subset, CacheConstants
  <2>3. Cardinality(since[j]) =< Cardinality(since'[j])  BY <2>1, <2>2, FS_Subset
  <2>4. Cardinality(since[j]) \in Nat /\ Cardinality(since'[j]) \in Nat
    BY <2>1, <2>2, FS_Subset, FS_CardinalityType
  <2>5. QED  BY <1>2, <2>3, <2>4, CacheConstants
<1>3. QED  BY <1>1, <1>2

\* A new or moved entry k, before any eviction, in the newest position.
LEMMA FrontEntry ==
    ASSUME IInv, NEW k \in Keys, NEW e \in Entries, e.at = moves + 1, Used(k)
    PROVE  LET s == [store EXCEPT ![k] = e]
           IN  /\ s \in [Keys -> Entries \cup {None}]
               /\ Live(s) = Live(store) \cup {k}
               /\ Ordered(s) /\ \A j \in Live(s) : s[j].at =< moves + 1
               /\ \A i, j \in Live(s) : s[i].at < s[j].at => i # k /\ j \in since'[i]
<1> DEFINE s == [store EXCEPT ![k] = e]
<1>1. s \in [Keys -> Entries \cup {None}] /\ s[k] = e /\ \A j \in Keys \ {k} : s[j] = store[j]
  BY DEF IInv, TypeOK
<1> HIDE DEF s
<1>2. e # None  BY CacheConstants
<1>3. Live(s) = Live(store) \cup {k}  BY <1>1, <1>2 DEF Live
<1>4. \A j \in Live(s) : j # k => j \in Live(store) /\ s[j] = store[j]  BY <1>1, <1>3 DEF Live
<1>5. moves \in Nat  BY DEF IInv, TypeOK
<1>6. \A j \in Live(s) : j # k => s[j].at \in Nat /\ s[j].at =< moves
  BY <1>4 DEF IInv, Stamped, Ordered
<1>7. \A j \in Live(s) : s[j].at \in Nat /\ s[j].at =< moves + 1
  BY <1>1, <1>5, <1>6
<1>8. Ordered(s)
  <2> SUFFICES ASSUME NEW i \in Live(s), NEW j \in Live(s), s[i].at = s[j].at PROVE i = j
    BY <1>7 DEF Ordered
  <2>1. CASE i # k /\ j # k  BY <2>1, <1>4 DEF IInv, Stamped, Ordered
  <2>2. CASE i = k \/ j = k  BY <2>2, <1>1, <1>5, <1>6
  <2>3. QED  BY <2>1, <2>2
<1>9. ASSUME NEW i \in Live(s), NEW j \in Live(s), s[i].at < s[j].at
      PROVE  i # k /\ j \in since'[i]
  <2>1. i # k  BY <1>9, <1>1, <1>5, <1>7
  <2>2. i \in Keys \ {k}  BY <2>1 DEF Live
  <2>3. since[i] \subseteq since'[i] /\ k \in since'[i]  BY <2>2, UsedGrows DEF IInv
  <2>4. CASE j = k  BY <2>1, <2>3, <2>4
  <2>5. CASE j # k
    <3>1. j \in since[i]  BY <2>1, <2>5, <1>4, <1>9 DEF IInv, Newer
    <3>2. QED  BY <2>1, <2>3, <3>1
  <2>6. QED  BY <2>4, <2>5
<1>10. QED  BY <1>1, <1>3, <1>7, <1>8, <1>9 DEF s

LEMMA InvHit ==
    ASSUME IInv, NEW k \in Keys, Hit(k)
    PROVE  IInv'
<1> DEFINE e == [store[k] EXCEPT !.at = moves + 1]
<1>1. store[k] \in Entries /\ k \in Live(store)  BY DEF Hit, IInv, TypeOK, Live
<1>2. moves \in Nat  BY DEF IInv, TypeOK
<1>3. /\ e \in Entries /\ e.at = moves + 1 /\ e.until = store[k].until
      /\ store[k].value \in Values
  BY <1>1, <1>2 DEF Entries
<1>4. store' = [store EXCEPT ![k] = e]  BY DEF Hit, MovedToEnd
<1>5. Used(k) /\ UNCHANGED <<now, due>> /\ moves' = moves + 1 /\ got' = store[k].value
  BY DEF Hit, MovedToEnd
<1> HIDE DEF e
<1>6. /\ store' \in [Keys -> Entries \cup {None}]
      /\ Live(store') = Live(store) \cup {k}
      /\ Ordered(store') /\ \A j \in Live(store') : store'[j].at =< moves + 1
      /\ \A i, j \in Live(store') : store'[i].at < store'[j].at => i # k /\ j \in since'[i]
  BY <1>3, <1>4, <1>5, FrontEntry
<1>7. Live(store') = Live(store)  BY <1>1, <1>6
<1>8. store'[k] = e /\ \A j \in Keys \ {k} : store'[j] = store[j]
  BY <1>4 DEF IInv, TypeOK
<1>9. TypeOK'  BY <1>2, <1>3, <1>5, <1>6, UsedGrows DEF IInv, TypeOK
<1>10. Stamped' /\ Newer'  BY <1>5, <1>6 DEF Stamped, Newer
<1>11. SizeBound'  BY <1>7 DEF IInv, SizeBound
<1>12. Deadlines'
  <2> SUFFICES ASSUME NEW j \in Live(store) PROVE due[j] = store'[j].until
    BY <1>5, <1>7 DEF Deadlines
  <2>1. j \in Keys /\ due[j] = store[j].until  BY DEF IInv, Deadlines, Live
  <2>2. QED  BY <2>1, <1>3, <1>8
<1>13. RecentlyUsedKept'
  <2> SUFFICES ASSUME NEW j \in Keys, due'[j] # None, now' =< due'[j], Cardinality(since'[j]) < Max
               PROVE  store'[j] # None /\ store'[j].until = due'[j]
    BY DEF RecentlyUsedKept
  <2>1. j \in Live(store)
    <3>1. CASE j = k  BY <3>1, <1>1
    <3>2. CASE j # k  BY <3>2, <1>5, UsedGrows DEF IInv, RecentlyUsedKept, Live
    <3>3. QED  BY <3>1, <3>2
  <2>2. j \in Live(store')  BY <2>1, <1>7
  <2>3. due'[j] = store'[j].until  BY <2>2, <1>12, <1>7 DEF Deadlines
  <2>4. QED  BY <2>2, <2>3 DEF Live
<1>14. QED  BY <1>9, <1>10, <1>11, <1>12, <1>13 DEF IInv

LEMMA InvSet ==
    ASSUME IInv, NEW k \in Keys, NEW v \in Values, Set(k, v)
    PROVE  IInv'
<1> DEFINE e == [value |-> v, until |-> now + TTL, at |-> moves + 1]
           s == [store EXCEPT ![k] = e]
<1>1. now \in Nat /\ moves \in Nat /\ now + TTL \in Nat
  BY CacheConstants DEF IInv, TypeOK
<1>2. e \in Entries /\ e.at = moves + 1 /\ e.until = now + TTL  BY <1>1 DEF Entries
<1>3. /\ store' = Trim(s) /\ moves' = moves + 1 /\ due' = [due EXCEPT ![k] = now + TTL]
      /\ Used(k) /\ UNCHANGED <<now, got>>
  BY DEF Set, Deadline, MovedToEnd
<1>4. s[k] = e /\ \A j \in Keys \ {k} : s[j] = store[j]  BY DEF IInv, TypeOK
<1> HIDE DEF e
<1>5. /\ s \in [Keys -> Entries \cup {None}]
      /\ Live(s) = Live(store) \cup {k}
      /\ Ordered(s) /\ \A j \in Live(s) : s[j].at =< moves + 1
      /\ \A i, j \in Live(s) : s[i].at < s[j].at => i # k /\ j \in since'[i]
  BY <1>2, <1>3, FrontEntry
<1> HIDE DEF s
\* either nothing is evicted, or the oldest entry o is
<1>6. \E D \in SUBSET Keys :
        /\ store' = [j \in Keys |-> IF j \in D THEN None ELSE s[j]]
        /\ Cardinality(Live(s) \ D) =< Max
        /\ \A o \in D : ~ (Cardinality(since'[o]) < Max)
  <2>1. CASE ~ (Cardinality(Live(s)) > Max)
    <3>1. store' = [j \in Keys |-> IF j \in {} THEN None ELSE s[j]]
      BY <2>1, <1>3, <1>5, TrimShort
    <3>2. Live(s) \ {} = Live(s) /\ Cardinality(Live(s)) =< Max
      BY <2>1, LiveFinite, CacheConstants, SMTT(30)
    <3>3. QED  BY <3>1, <3>2
  <2>2. CASE Cardinality(Live(s)) > Max
    <3>1. PICK o \in Live(s) : /\ \A j \in Live(s) \ {o} : s[o].at < s[j].at
                               /\ Trim(s) = [j \in Keys |-> IF j = o THEN None ELSE s[j]]
      BY <2>2, <1>5, TrimOldest
    <3>2. o \in Keys  BY DEF Live
    <3>3. store' = [j \in Keys |-> IF j \in {o} THEN None ELSE s[j]]  BY <3>1, <1>3
    <3>4. Cardinality(Live(s) \ {o}) = Cardinality(Live(s)) - 1
      BY LiveFinite, FS_RemoveElement
    <3>5. Cardinality(Live(s)) =< Max + 1
      <4>1. IsFiniteSet(Live(store)) /\ Cardinality(Live(store)) \in Nat  BY LiveFinite
      <4>2. Cardinality(Live(store) \cup {k}) =< Cardinality(Live(store)) + 1
        BY <4>1, FS_AddElement
      <4>3. Cardinality(Live(s)) \in Nat  BY LiveFinite
      <4>4. QED  BY <4>1, <4>2, <4>3, <1>5, CacheConstants DEF IInv, SizeBound
    <3>6. Cardinality(Live(s) \ {o}) =< Max  BY <3>4, <3>5, LiveFinite, CacheConstants
    <3>7. ~ (Cardinality(since'[o]) < Max)
      <4>1. Live(s) \ {o} \subseteq since'[o]  BY <3>1, <1>5
      <4>2. since'[o] \subseteq Keys  BY <3>2, <1>3, UsedGrows DEF IInv
      <4>3. IsFiniteSet(since'[o])  BY <4>2, FS_Subset, CacheConstants
      <4>4. Cardinality(Live(s) \ {o}) =< Cardinality(since'[o])  BY <4>1, <4>3, FS_Subset
      <4>5. Cardinality(since'[o]) \in Nat  BY <4>3, FS_CardinalityType
      <4>6. Cardinality(Live(s)) \in Nat  BY LiveFinite
      <4>7. Cardinality(Live(s)) - 1 =< Cardinality(since'[o])  BY <3>4, <4>4
      <4>8. QED  BY <2>2, <4>5, <4>6, <4>7, CacheConstants
    <3>8. {o} \in SUBSET Keys  BY <3>2
    <3>9. ASSUME NEW i \in {o} PROVE ~ (Cardinality(since'[i]) < Max)
      <4>1. i = o  OBVIOUS
      <4>2. QED  BY <4>1, <3>7
    <3>10. WITNESS {o} \in SUBSET Keys
    <3>11. QED  BY <3>3, <3>6, <3>9
  <2>3. QED  BY <2>1, <2>2
<1>7. PICK D \in SUBSET Keys :
        /\ store' = [j \in Keys |-> IF j \in D THEN None ELSE s[j]]
        /\ Cardinality(Live(s) \ D) =< Max
        /\ \A o \in D : ~ (Cardinality(since'[o]) < Max)
  BY <1>6
<1>8. Live(store') = Live(s) \ D /\ \A j \in Live(store') : store'[j] = s[j]
  BY <1>7 DEF Live
<1>9. TypeOK'
  <2>1. store' \in [Keys -> Entries \cup {None}]  BY <1>5, <1>7
  <2>2. QED  BY <2>1, <1>1, <1>3, UsedGrows DEF IInv, TypeOK
<1>10. Stamped' /\ Newer'  BY <1>3, <1>5, <1>8 DEF Stamped, Ordered, Newer
<1>11. SizeBound'  BY <1>7, <1>8 DEF SizeBound
<1>12. \A j \in Live(s) : due'[j] = s[j].until
  <2> TAKE j \in Live(s)
  <2>1. CASE j = k  BY <2>1, <1>2, <1>3, <1>4 DEF IInv, TypeOK, Live
  <2>2. CASE j # k
    <3>1. j \in Live(store) /\ s[j] = store[j] /\ due'[j] = due[j]
      BY <2>2, <1>3, <1>4, <1>5 DEF IInv, TypeOK, Live
    <3>2. QED  BY <3>1 DEF IInv, Deadlines
  <2>3. QED  BY <2>1, <2>2
<1>13. Deadlines'  BY <1>8, <1>12 DEF Deadlines
<1>14. RecentlyUsedKept'
  <2> SUFFICES ASSUME NEW j \in Keys, due'[j] # None, now' =< due'[j], Cardinality(since'[j]) < Max
               PROVE  store'[j] # None /\ store'[j].until = due'[j]
    BY DEF RecentlyUsedKept
  <2>1. j \in Live(s)
    <3>1. CASE j = k  BY <3>1, <1>5
    <3>2. CASE j # k
      <4>1. due[j] = due'[j] /\ now' = now  BY <3>2, <1>3 DEF IInv, TypeOK
      <4>2. Cardinality(since[j]) < Max  BY <3>2, <1>3, UsedGrows DEF IInv
      <4>3. j \in Live(store)  BY <4>1, <4>2 DEF IInv, RecentlyUsedKept, Live
      <4>4. QED  BY <4>3, <1>5
    <3>3. QED  BY <3>1, <3>2
  <2>2. j \notin D  BY <1>7
  <2>3. QED  BY <2>1, <2>2, <1>8, <1>12 DEF Live
<1>15. QED  BY <1>9, <1>10, <1>11, <1>13, <1>14 DEF IInv

LEMMA InvNext == IInv /\ [Next]_vars => IInv'
<1> SUFFICES ASSUME IInv, [Next]_vars PROVE IInv'  OBVIOUS
<1> USE DEF IInv
<1>1. store \in [Keys -> Entries \cup {None}] /\ due \in [Keys -> Nat \cup {None}] /\ now \in Nat
  BY DEF TypeOK
<1>2. ASSUME NEW k \in Keys, Miss(k) PROVE IInv'
  <2>1. store' = [j \in Keys |-> IF j \in {} THEN None ELSE store[j]]  BY <1>1, <1>2 DEF Miss
  <2>2. got' \in Values \cup {None} /\ UNCHANGED <<now, moves, since, due>>  BY <1>2 DEF Miss
  <2>3. {} \in SUBSET Keys  OBVIOUS
  <2>4. QED  BY <1>1, <2>1, <2>2, <2>3, InvDrop
<1>3. ASSUME NEW k \in Keys, Expire(k) PROVE IInv'
  <2>1. store' = [j \in Keys |-> IF j \in {k} THEN None ELSE store[j]]  BY <1>1, <1>3 DEF Expire
  <2>2. due'[k] < now  BY <1>3 DEF Expire, Expired, Deadlines, Live
  <2>3. QED  BY <1>1, <1>3, <2>1, <2>2, InvDrop DEF Expire
<1>4. ASSUME NEW k \in Keys, Hit(k) PROVE IInv'  BY <1>4, InvHit
<1>5. ASSUME NEW k \in Keys, Delete(k) PROVE IInv'
  <2>1. store' = [j \in Keys |-> IF j \in {k} THEN None ELSE store[j]]  BY <1>1, <1>5 DEF Delete
  <2>2. due' \in [Keys -> Nat \cup {None}] /\ due'[k] = None /\ \A j \in Keys \ {k} : due'[j] = due[j]
    BY <1>1, <1>5 DEF Delete
  <2>3. got' \in Values \cup {None} /\ UNCHANGED <<now, moves, since>>
    BY <1>5 DEF Delete, TypeOK
  <2>4. {k} \in SUBSET Keys  OBVIOUS
  <2>5. QED  BY <2>1, <2>2, <2>3, <2>4, InvDrop
<1>6. ASSUME NEW k \in Keys, NEW v \in Values, Set(k, v) PROVE IInv'  BY <1>6, InvSet
<1>7. CASE Clear
  <2>1. store' = [j \in Keys |-> IF j \in Keys THEN None ELSE store[j]]  BY <1>7 DEF Clear
  <2>2. QED  BY <1>7, <2>1, InvDrop DEF Clear, TypeOK
<1>8. CASE Tick
  <2>1. now' = now + 1 /\ UNCHANGED <<store, moves, got, due, since>>  BY <1>8 DEF Tick
  <2>2. TypeOK' /\ Stamped' /\ SizeBound' /\ Newer' /\ Deadlines'
    BY <1>1, <2>1 DEF TypeOK, Stamped, Ordered, Live, SizeBound, Newer, Deadlines
  <2>3. \A n \in Nat : now' =< n => now =< n  BY <1>1, <2>1
  <2>4. RecentlyUsedKept'  BY <1>1, <2>1, <2>3 DEF RecentlyUsedKept
  <2>5. QED  BY <2>2, <2>4
<1>9. CASE UNCHANGED vars
  BY <1>9 DEF vars, TypeOK, Stamped, Ordered, Live, SizeBound, Newer, Deadlines, RecentlyUsedKept
<1>10. QED  BY <1>2, <1>3, <1>4, <1>5, <1>6, <1>7, <1>8, <1>9 DEF Next

LEMMA Invariance == Spec => []IInv
<1>1. QED  BY InvInit, InvNext, PTL DEF Spec

\* Neither cache ever holds more than max_entries entries.
THEOREM BoundedSize == Spec => []SizeBound
<1>1. IInv => SizeBound  BY DEF IInv
<1>2. QED  BY <1>1, Invariance, PTL

\* An entry is lost early only after max_entries other keys were used.
THEOREM LruGuarantee == Spec => []RecentlyUsedKept
<1>1. IInv => RecentlyUsedKept  BY DEF IInv
<1>2. QED  BY <1>1, Invariance, PTL

(***************************************************************************)
(* TTLCache implements LossyStore.                                         *)
(***************************************************************************)
Held(s) == [k \in Keys |-> IF s[k] = None THEN None
                           ELSE [value |-> s[k].value, until |-> s[k].until]]

LEMMA HeldType ==
    ASSUME NEW s \in [Keys -> Entries \cup {None}]
    PROVE  Held(s) \in [Keys -> Promise!Entries \cup {None}]
BY DEF Held, Entries, Promise!Entries

\* A step that only loses entries, or none, is a Lose or a Get of the promise.
LEMMA HeldDrop ==
    ASSUME TypeOK, NEW D \in SUBSET Keys,
           store' = [k \in Keys |-> IF k \in D THEN None ELSE store[k]]
    PROVE  Promise!Lossy(Held(store), Held(store'))
<1>1. store' \in [Keys -> Entries \cup {None}]  BY DEF TypeOK
<1>2. Held(store') \in [Keys -> Promise!Entries \cup {None}]  BY <1>1, HeldType
<1>3. \A k \in Keys : Held(store')[k] \in {Held(store)[k], None}  BY DEF Held
<1>4. QED  BY <1>2, <1>3 DEF Promise!Lossy

\* The deadline test of get decides as the promise does.
LEMMA SameAnswer ==
    ASSUME TypeOK, NEW k \in Keys
    PROVE  (Held(store)[k] # None /\ now =< Held(store)[k].until)
             <=> (store[k] # None /\ ~ Expired(k))
<1>1. store[k] # None => store[k] \in Entries  BY DEF TypeOK
<1>2. store[k] # None => store[k].until \in Nat /\ store[k].value \in Values
  BY <1>1 DEF Entries
<1>3. store[k] # None => Held(store)[k] = [value |-> store[k].value, until |-> store[k].until]
  BY DEF Held
<1>4. store[k] # None => Held(store)[k] # None /\ Held(store)[k].until = store[k].until
  BY <1>2, <1>3, CacheConstants
<1>5. store[k] = None => Held(store)[k] = None  BY DEF Held
<1>6. QED  BY <1>2, <1>4, <1>5 DEF Expired, TypeOK

LEMMA PromiseGet ==
    ASSUME TypeOK, NEW k \in Keys, Miss(k) \/ Expire(k) \/ Hit(k)
    PROVE  /\ got' = IF Held(store)[k] # None /\ now =< Held(store)[k].until
                       THEN Held(store)[k].value ELSE None
           /\ Promise!Lossy(Held(store), Held(store'))
           /\ UNCHANGED now
<1>1. CASE Miss(k)
  <2>1. store' = [j \in Keys |-> IF j \in {} THEN None ELSE store[j]]  BY <1>1 DEF Miss, TypeOK
  <2>2. {} \in SUBSET Keys  OBVIOUS
  <2>3. Promise!Lossy(Held(store), Held(store'))  BY <2>1, <2>2, HeldDrop
  <2>4. QED  BY <1>1, <2>3, SameAnswer DEF Miss
<1>2. CASE Expire(k)
  <2>1. store' = [j \in Keys |-> IF j \in {k} THEN None ELSE store[j]]  BY <1>2 DEF Expire, TypeOK
  <2>2. QED  BY <1>2, <2>1, HeldDrop, SameAnswer DEF Expire
<1>3. CASE Hit(k)
  <2>1. Held(store)[k].value = store[k].value  BY <1>3 DEF Hit, Held
  <2>2. store[k] \in Entries /\ moves \in Nat  BY <1>3 DEF Hit, TypeOK
  <2>3. /\ [store[k] EXCEPT !.at = moves + 1] \in Entries
        /\ [store[k] EXCEPT !.at = moves + 1].value = store[k].value
        /\ [store[k] EXCEPT !.at = moves + 1].until = store[k].until
    BY <2>2 DEF Entries
  <2>4. store' = [store EXCEPT ![k] = [store[k] EXCEPT !.at = moves + 1]]  BY <1>3 DEF Hit, MovedToEnd
  <2>5. store' \in [Keys -> Entries \cup {None}]  BY <2>3, <2>4 DEF TypeOK
  <2>6. Held(store') = Held(store)
    <3>1. store'[k] # None /\ store[k] # None  BY <2>2, <2>3, <2>4, CacheConstants DEF TypeOK
    <3>2. \A j \in Keys : (store'[j] = None <=> store[j] = None)
                           /\ (store[j] # None => /\ store'[j].value = store[j].value
                                                  /\ store'[j].until = store[j].until)
      BY <2>3, <2>4, <3>1 DEF TypeOK
    <3>3. QED  BY <3>2 DEF Held
  <2>7. Promise!Lossy(Held(store), Held(store'))
    BY <2>5, <2>6, HeldType DEF Promise!Lossy
  <2>8. QED  BY <1>3, <2>1, <2>7, SameAnswer DEF Hit, MovedToEnd
<1>4. QED  BY <1>1, <1>2, <1>3

LEMMA PromiseInit == Init => Promise!Init
<1> SUFFICES ASSUME Init PROVE Promise!Init  OBVIOUS
<1>1. [k \in Keys |-> IF store[k] = None THEN None
                      ELSE [value |-> store[k].value, until |-> store[k].until]]
        = [k \in Keys |-> None]
  BY DEF Init
<1>2. QED  BY <1>1 DEF Init, Promise!Init

LEMMA PromiseSet ==
    ASSUME IInv, NEW k \in Keys, NEW v \in Values, Set(k, v)
    PROVE  Promise!Lossy([Held(store) EXCEPT ![k] = [value |-> v, until |-> now + TTL]],
                         Held(store'))
<1> DEFINE e == [value |-> v, until |-> now + TTL, at |-> moves + 1]
           s == [store EXCEPT ![k] = e]
<1>1. now + TTL \in Nat /\ e \in Entries
  BY CacheConstants DEF IInv, TypeOK, Entries
<1>2. store' = Trim(s)  BY DEF Set, Deadline, MovedToEnd
<1>3. store' \in [Keys -> Entries \cup {None}]  BY InvSet DEF IInv, TypeOK
<1>4. \A j \in Keys : store'[j] \in {s[j], None}  BY <1>2 DEF Trim, IInv, TypeOK
<1>5. Held(s) = [Held(store) EXCEPT ![k] = [value |-> v, until |-> now + TTL]]
  BY <1>1, CacheConstants DEF Held, IInv, TypeOK
<1> HIDE DEF s
<1>6. \A j \in Keys : Held(store')[j] \in {Held(s)[j], None}  BY <1>4 DEF Held
<1>7. Held(store') \in [Keys -> Promise!Entries \cup {None}]  BY <1>3, HeldType
<1>8. QED  BY <1>5, <1>6, <1>7 DEF Promise!Lossy

LEMMA PromiseNext == IInv /\ [Next]_vars => [Promise!Next]_<<now, Held(store), got>>
<1> SUFFICES ASSUME IInv, [Next]_vars PROVE [Promise!Next]_<<now, Held(store), got>>
  OBVIOUS
<1>0. TypeOK  BY DEF IInv
<1>1. ASSUME NEW k \in Keys, Miss(k) \/ Expire(k) \/ Hit(k) PROVE Promise!Get(k)
  BY <1>0, <1>1, PromiseGet DEF Promise!Get, Held
<1>2. ASSUME NEW k \in Keys, NEW v \in Values, Set(k, v) PROVE Promise!Put(k, v)
  <2>1. UNCHANGED <<now, got>>  BY <1>2 DEF Set
  <2>2. QED  BY <1>2, <2>1, PromiseSet DEF Promise!Put, Held
<1>3. ASSUME NEW D \in SUBSET Keys, UNCHANGED <<now, got>>,
             store' = [j \in Keys |-> IF j \in D THEN None ELSE store[j]]
      PROVE  Promise!Lose
  BY <1>0, <1>3, HeldDrop DEF Promise!Lose, Held
<1>4. ASSUME NEW k \in Keys, Delete(k) PROVE Promise!Lose
  <2>1. store' = [j \in Keys |-> IF j \in {k} THEN None ELSE store[j]] /\ UNCHANGED <<now, got>>
    BY <1>0, <1>4 DEF Delete, TypeOK
  <2>2. {k} \in SUBSET Keys  OBVIOUS
  <2>3. QED  BY <1>3, <2>1, <2>2
<1>5. CASE Clear
  <2>1. store' = [j \in Keys |-> IF j \in Keys THEN None ELSE store[j]] /\ UNCHANGED <<now, got>>
    BY <1>5 DEF Clear
  <2>2. Promise!Lose  BY <1>3, <2>1
  <2>3. QED  BY <2>2 DEF Promise!Next
<1>6. CASE Tick  BY <1>6 DEF Tick, Promise!Next, Promise!Tick
<1>7. CASE UNCHANGED vars  BY <1>7 DEF vars
<1>8. QED  BY <1>1, <1>2, <1>4, <1>5, <1>6, <1>7 DEF Next, Promise!Next

\* For any keys, values, capacity and time to live, TTLCache implements
\* LossyStore: a get never returns another key's, an overwritten or an expired
\* value.
THEOREM CacheKeepsPromise == Spec => KeepsPromise
<1>1. IInv /\ [Next]_vars => [Promise!Next]_<<now, Held(store), got>>  BY PromiseNext
<1>2. Spec => Promise!Spec  BY <1>1, PromiseInit, Invariance, PTL DEF Spec, Promise!Spec, Held
<1>3. QED  BY <1>2 DEF KeepsPromise
=============================================================================

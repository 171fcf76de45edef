-------------------------- MODULE LockServerProofs --------------------------
(***************************************************************************)
(* The two lock servers of the repository, for all names, uids and lengths *)
(* of arrays.                                                              *)
(***************************************************************************)
EXTENDS LockServers, FiniteSetTheorems, SequenceTheorems, WellFoundedInduction, TLAPS

\* A set of array indices that is not empty has a least member.
LEMMA LeastIndex ==
    ASSUME NEW I \in SUBSET Nat, I # {}
    PROVE  Min(I) \in I /\ \A i \in I : Min(I) <= i
  <1>1. \E x \in I : \A y \in I : ~(<<y, x>> \in OpToRel(<, Nat))
    BY NatLessThanWellFounded, WFMin
  <1>2. \E x \in I : \A y \in I : x <= y
    <2>1. PICK x \in I : \A y \in I : ~(<<y, x>> \in OpToRel(<, Nat))
      BY <1>1
    <2>2. ASSUME NEW y \in I PROVE x <= y
      <3>1. x \in Nat /\ y \in Nat
        OBVIOUS
      <3>2. ~(<<y, x>> \in OpToRel(<, Nat))
        BY <2>1
      <3>3. y < x => <<y, x>> \in OpToRel(<, Nat)
        BY <3>1 DEF OpToRel
      <3>4. ~(y < x)
        BY <3>2, <3>3
      <3> QED BY <3>1, <3>4
    <2> QED BY <2>2
  <1> QED BY <1>2 DEF Min

-----------------------------------------------------------------------------
(* One array: appending an entry and removing one. *)

\* The positions of the entries with uid u, and of the entries that equal e.
Mine(a, u) == {i \in 1..Len(a) : a[i].uid = u}
Positions(a, e) == {i \in 1..Len(a) : a[i] = e}

\* The loop of removeEntry finds the first entry of its uid, if there is one.
Index(a, u) == IF Mine(a, u) # {} THEN Min(Mine(a, u)) ELSE 0

\* Index is the position of such an entry, or 0.
LEMMA FirstMine ==
    ASSUME NEW a \in Seq(lockRequesterInfo), NEW u
    PROVE  /\ Index(a, u) = 0 <=> Mine(a, u) = {}
           /\ Index(a, u) # 0 => Index(a, u) \in Mine(a, u)
  <1>1. Len(a) \in Nat /\ Mine(a, u) \in SUBSET Nat
    BY DEF Mine
  <1>2. Mine(a, u) # {} => Min(Mine(a, u)) \in Mine(a, u)
    BY <1>1, LeastIndex
  <1>3. ~(0 \in Mine(a, u))
    BY <1>1 DEF Mine
  <1> QED BY <1>2, <1>3 DEF Index

\* append(lri[:index], lri[index+1:]...)
LEMMA RemoveAtFacts ==
    ASSUME NEW S, NEW a \in Seq(S), NEW k \in 1..Len(a)
    PROVE  /\ RemoveAt(a, k) \in Seq(S)
           /\ Len(RemoveAt(a, k)) = Len(a) - 1
           /\ \A i \in 1..Len(a) - 1 : RemoveAt(a, k)[i] = IF i < k THEN a[i] ELSE a[i + 1]
  <1> DEFINE l == SubSeq(a, 1, k - 1)
             r == SubSeq(a, k + 1, Len(a))
  <1>0. Len(a) \in Nat /\ k \in Int /\ \A i \in 1..Len(a) : a[i] \in S
    OBVIOUS
  <1>1. l \in Seq(S) /\ Len(l) = k - 1 /\ \A i \in 1..k - 1 : l[i] = a[i]
    BY <1>0, SubSeqProperties
  <1>2. r \in Seq(S) /\ Len(r) = Len(a) - k /\ \A i \in 1..Len(a) - k : r[i] = a[k + i]
    BY <1>0, SubSeqProperties
  <1> HIDE DEF l, r
  <1>3. /\ l \o r \in Seq(S) /\ Len(l \o r) = Len(a) - 1
        /\ \A i \in 1..Len(a) - 1 : (l \o r)[i] = IF i <= Len(l) THEN l[i] ELSE r[i - Len(l)]
    <2>1. /\ l \o r \in Seq(S) /\ Len(l \o r) = Len(l) + Len(r)
          /\ \A i \in 1..Len(l) + Len(r) : (l \o r)[i] = IF i <= Len(l) THEN l[i] ELSE r[i - Len(l)]
      BY <1>1, <1>2, ConcatProperties
    <2>2. Len(l) + Len(r) = Len(a) - 1
      BY <1>0, <1>1, <1>2
    <2> QED BY <2>1, <2>2
  <1>4. ASSUME NEW i \in 1..Len(a) - 1
        PROVE  (l \o r)[i] = IF i < k THEN a[i] ELSE a[i + 1]
    <2>1. CASE i < k
      BY <1>0, <1>1, <1>3, <2>1
    <2>2. CASE ~(i < k)
      <3>1. (l \o r)[i] = r[i - (k - 1)] /\ i - (k - 1) \in 1..Len(a) - k
        BY <1>0, <1>1, <1>3, <2>2
      <3> QED BY <1>0, <1>2, <2>2, <3>1
    <2> QED BY <2>1, <2>2
  <1>5. RemoveAt(a, k) = l \o r
    BY DEF RemoveAt, l, r
  <1> QED BY <1>3, <1>4, <1>5

\* The positions of an entry are finitely many.
LEMMA PositionsFinite ==
    ASSUME NEW S, NEW a \in Seq(S), NEW e
    PROVE  IsFiniteSet(Positions(a, e)) /\ Cardinality(Positions(a, e)) \in Nat
  <1>1. Len(a) \in Nat /\ Positions(a, e) \in SUBSET (1..Len(a))
    BY DEF Positions
  <1>2. IsFiniteSet(1..Len(a))
    BY <1>1, FS_Interval
  <1>3. IsFiniteSet(Positions(a, e))
    BY <1>1, <1>2, FS_Subset
  <1> QED BY <1>3, FS_CardinalityType

\* An array with one more entry.
LEMMA CountAppend ==
    ASSUME NEW S, NEW a \in Seq(S), NEW e \in S, NEW f
    PROVE  Cardinality(Positions(Append(a, e), f)) = Cardinality(Positions(a, f)) + (IF e = f THEN 1 ELSE 0)
  <1> DEFINE b == Append(a, e)
  <1>1. /\ Len(a) \in Nat /\ Len(b) = Len(a) + 1 /\ b[Len(a) + 1] = e
        /\ \A i \in 1..Len(a) : b[i] = a[i]
    BY AppendProperties
  <1> HIDE DEF b
  <1>2. CASE e = f
    <2>1. Positions(b, f) = Positions(a, f) \cup {Len(a) + 1} /\ ~(Len(a) + 1 \in Positions(a, f))
      BY <1>1, <1>2 DEF Positions
    <2>2. Cardinality(Positions(a, f) \cup {Len(a) + 1}) = Cardinality(Positions(a, f)) + 1
      BY <2>1, PositionsFinite, FS_AddElement
    <2> QED BY <1>2, <2>1, <2>2 DEF b
  <1>3. CASE e # f
    <2>1. Positions(b, f) = Positions(a, f)
      BY <1>1, <1>3 DEF Positions
    <2> QED BY <1>3, <2>1, PositionsFinite DEF b
  <1> QED BY <1>2, <1>3

\* An array with one entry less: the positions after it move down by one.
LEMMA CountRemove ==
    ASSUME NEW S, NEW a \in Seq(S), NEW k \in 1..Len(a), NEW f
    PROVE  Cardinality(Positions(RemoveAt(a, k), f)) = Cardinality(Positions(a, f)) - (IF a[k] = f THEN 1 ELSE 0)
  <1> DEFINE b == RemoveAt(a, k)
             P == Positions(b, f)
             Q == Positions(a, f) \ {k}
             up1 == [i \in P |-> IF i < k THEN i ELSE i + 1]
  <1>0. Len(a) \in Nat /\ k \in Nat
    OBVIOUS
  <1>1. /\ b \in Seq(S) /\ Len(b) = Len(a) - 1
        /\ \A i \in 1..Len(a) - 1 : b[i] = IF i < k THEN a[i] ELSE a[i + 1]
    BY RemoveAtFacts
  <1> HIDE DEF b
  <1>2. \A i \in P : i \in Nat /\ (IF i < k THEN i ELSE i + 1) \in Q
    BY <1>0, <1>1 DEF Positions
  <1>3. \A j \in Q : \E i \in P : j = IF i < k THEN i ELSE i + 1
    <2> SUFFICES ASSUME NEW j \in Q PROVE \E i \in P : j = IF i < k THEN i ELSE i + 1
      OBVIOUS
    <2>1. j \in Nat /\ j # k /\ j \in 1..Len(a) /\ a[j] = f
      BY <1>0 DEF Positions
    <2>2. CASE j < k
      <3>1. j \in P
        BY <1>0, <1>1, <2>1, <2>2 DEF Positions
      <3> QED BY <2>2, <3>1
    <2>3. CASE ~(j < k)
      <3>1. j - 1 \in P /\ ~(j - 1 < k) /\ j = (j - 1) + 1
        BY <1>0, <1>1, <2>1, <2>3 DEF Positions
      <3> QED BY <3>1
    <2> QED BY <2>2, <2>3
  <1>4. \A i, j \in P : (IF i < k THEN i ELSE i + 1) = (IF j < k THEN j ELSE j + 1) => i = j
    BY <1>0, <1>2
  <1> HIDE DEF P, Q
  <1>5. up1 \in Bijection(P, Q)
    BY <1>2, <1>3, <1>4 DEF Bijection, Injection, Surjection, IsInjective
  <1>6. IsFiniteSet(P)
    BY <1>1, PositionsFinite DEF P
  <1>7. Cardinality(Q) = Cardinality(P)
    BY <1>5, <1>6, FS_Bijection DEF ExistsBijection
  <1>8. IsFiniteSet(Positions(a, f)) /\ Cardinality(Positions(a, f)) \in Nat
    BY PositionsFinite
  <1>9. CASE a[k] = f
    <2>1. k \in Positions(a, f)
      BY <1>9 DEF Positions
    <2>2. Cardinality(Q) = Cardinality(Positions(a, f)) - 1
      BY <1>8, <2>1, FS_RemoveElement DEF Q
    <2> QED BY <1>7, <1>9, <2>2 DEF P, b
  <1>10. CASE a[k] # f
    <2>1. Q = Positions(a, f)
      BY <1>10 DEF Q, Positions
    <2> QED BY <1>7, <1>8, <1>10, <2>1 DEF P, b
  <1> QED BY <1>9, <1>10

-----------------------------------------------------------------------------
(* The server of chaos/: its arrays. *)

\* An array that a key may have.
ArraySound(a) ==
    /\ a \in Seq(lockRequesterInfo) \ {<<>>}
    /\ (\E i \in DOMAIN a : a[i].writer) => Len(a) = 1

\* ArraysSound, array by array, before a step and after it.
LEMMA SoundArrays ==
    ArraysSound <=> /\ \A x \in DOMAIN lockMap : x \in Resource /\ ArraySound(lockMap[x])
                    /\ reply \in BOOLEAN /\ err \in BOOLEAN
  BY DEF ArraysSound, ArraySound

\* The same after a step.
LEMMA SoundArraysNext ==
    ArraysSound' <=> /\ \A x \in DOMAIN lockMap' : x \in Resource /\ ArraySound(lockMap'[x])
                     /\ reply' \in BOOLEAN /\ err' \in BOOLEAN
  BY DEF ArraysSound, ArraySound

\* The array of a name that is locked for the first time.
LEMMA SoundSingle ==
    ASSUME NEW e \in lockRequesterInfo
    PROVE  ArraySound(<<e>>) /\ Len(<<e>>) = 1 /\ <<e>>[1] = e
  BY DEF ArraySound

\* An array has entries, and readers only unless isWriteLock.
LEMMA SoundFacts ==
    ASSUME NEW a, ArraySound(a)
    PROVE  /\ a \in Seq(lockRequesterInfo) /\ Len(a) \in Nat /\ Len(a) >= 1 /\ DOMAIN a = 1..Len(a)
           /\ \A i \in 1..Len(a) : a[i] \in lockRequesterInfo
           /\ ~isWriteLock(a) => \A i \in 1..Len(a) : a[i].writer = FALSE
  <1>1. /\ a \in Seq(lockRequesterInfo) /\ Len(a) \in Nat /\ Len(a) >= 1 /\ DOMAIN a = 1..Len(a)
        /\ \A i \in 1..Len(a) : a[i] \in lockRequesterInfo
    BY DEF ArraySound
  <1>2. ASSUME ~isWriteLock(a), NEW i \in 1..Len(a) PROVE a[i].writer = FALSE
    <2>1. a[i].writer \in BOOLEAN
      BY <1>1 DEF lockRequesterInfo
    <2>2. a[i].writer => Len(a) = 1 /\ i = 1
      BY <1>1 DEF ArraySound
    <2> QED BY <1>2, <2>1, <2>2 DEF isWriteLock
  <1> QED BY <1>1, <1>2

\* A read lock is appended to an array of read locks.
LEMMA SoundAppend ==
    ASSUME NEW a, ArraySound(a), ~isWriteLock(a), NEW e \in lockRequesterInfo, e.writer = FALSE
    PROVE  /\ ArraySound(Append(a, e)) /\ ~isWriteLock(Append(a, e))
           /\ Len(Append(a, e)) = Len(a) + 1
  <1>1. /\ a \in Seq(lockRequesterInfo) /\ Len(a) \in Nat /\ Len(a) >= 1
        /\ \A i \in 1..Len(a) : a[i].writer = FALSE
    BY SoundFacts
  <1>2. /\ Append(a, e) \in Seq(lockRequesterInfo) /\ Append(a, e) # <<>>
        /\ Len(Append(a, e)) = Len(a) + 1
        /\ \A i \in 1..Len(a) : Append(a, e)[i] = a[i]
        /\ Append(a, e)[Len(a) + 1] = e
    BY <1>1, AppendProperties
  <1>3. ASSUME NEW i \in 1..Len(a) + 1 PROVE Append(a, e)[i].writer = FALSE
    <2>1. i \in 1..Len(a) \/ i = Len(a) + 1
      BY <1>1
    <2> QED BY <1>1, <1>2, <2>1
  <1>4. DOMAIN Append(a, e) = 1..Len(a) + 1
    BY <1>2, LenProperties
  <1> QED BY <1>1, <1>2, <1>3, <1>4 DEF ArraySound, isWriteLock

\* An entry is removed from an array of several.
LEMMA SoundRemove ==
    ASSUME NEW a, ArraySound(a), Len(a) # 1, NEW k \in 1..Len(a)
    PROVE  /\ ArraySound(RemoveAt(a, k)) /\ ~isWriteLock(RemoveAt(a, k))
           /\ Len(RemoveAt(a, k)) = Len(a) - 1
  <1> DEFINE b == RemoveAt(a, k)
  <1>1. /\ a \in Seq(lockRequesterInfo) /\ Len(a) \in Nat /\ Len(a) >= 1
        /\ \A i \in 1..Len(a) : a[i].writer = FALSE
    BY SoundFacts DEF isWriteLock
  <1>2. /\ b \in Seq(lockRequesterInfo) /\ Len(b) = Len(a) - 1
        /\ \A i \in 1..Len(a) - 1 : b[i] = IF i < k THEN a[i] ELSE a[i + 1]
    BY <1>1, RemoveAtFacts
  <1> HIDE DEF b
  <1>3. ASSUME NEW i \in 1..Len(a) - 1 PROVE b[i].writer = FALSE
    <2>1. i \in 1..Len(a) /\ i + 1 \in 1..Len(a)
      BY <1>1
    <2> QED BY <1>1, <1>2, <2>1
  <1>4. DOMAIN b = 1..Len(a) - 1 /\ b # <<>>
    BY <1>1, <1>2, LenProperties
  <1>5. ArraySound(b) /\ ~isWriteLock(b)
    BY <1>1, <1>2, <1>3, <1>4 DEF ArraySound, isWriteLock
  <1> QED BY <1>2, <1>5 DEF b

\* What removeEntry does to the array of its name.
LEMMA EntryRemoved ==
    ASSUME NEW x \in DOMAIN lockMap, NEW uid, ArraySound(lockMap[x]), removeEntry(x, uid)
    PROVE  /\ err' = (Mine(lockMap[x], uid) = {})
           /\ \/ Mine(lockMap[x], uid) = {} /\ lockMap' = lockMap
              \/ Mine(lockMap[x], uid) # {} /\ Len(lockMap[x]) = 1 /\ lockMap' = Delete(x)
              \/ /\ Len(lockMap[x]) # 1
                 /\ \E k \in Mine(lockMap[x], uid) : lockMap' = Put(x, RemoveAt(lockMap[x], k))
  <1> DEFINE index == Index(lockMap[x], uid)
  <1>1. lockMap[x] \in Seq(lockRequesterInfo)
    BY DEF ArraySound
  <1>2. (index = 0 <=> Mine(lockMap[x], uid) = {}) /\ (index # 0 => index \in Mine(lockMap[x], uid))
    BY <1>1, FirstMine
  <1>3. /\ lockMap' = IF index = 0 THEN lockMap
                      ELSE IF Len(lockMap[x]) = 1 THEN Delete(x)
                      ELSE Put(x, RemoveAt(lockMap[x], index))
        /\ err' = (index = 0)
    BY DEF removeEntry, SelectInSeq, Index, Mine
  <1> HIDE DEF index
  <1> QED BY <1>2, <1>3

\* The arrays of the map are such arrays.
MapSound == \A x \in DOMAIN lockMap : x \in Resource /\ ArraySound(lockMap[x])

\* lockMap[x] = lri, with a sound array.
LEMMA PutSound ==
    ASSUME MapSound, NEW x \in Resource, NEW a, ArraySound(a), lockMap' = Put(x, a)
    PROVE  MapSound'
  <1>1. DOMAIN lockMap' = DOMAIN lockMap \cup {x}
    BY DEF Put
  <1>2. \A y \in DOMAIN lockMap' : lockMap'[y] = IF y = x THEN a ELSE lockMap[y]
    BY DEF Put
  <1>3. ASSUME NEW y \in DOMAIN lockMap' PROVE y \in Resource /\ ArraySound(lockMap'[y])
    <2>1. CASE y = x
      BY <1>2, <2>1
    <2>2. CASE y # x
      <3>1. y \in DOMAIN lockMap /\ lockMap'[y] = lockMap[y]
        BY <1>1, <1>2, <2>2
      <3> QED BY <3>1 DEF MapSound
    <2> QED BY <2>1, <2>2
  <1> QED BY <1>3 DEF MapSound, ArraySound

\* delete(lockMap, x).
LEMMA DeleteSound ==
    ASSUME MapSound, NEW x, lockMap' = Delete(x)
    PROVE  MapSound'
  <1>1. DOMAIN lockMap' = DOMAIN lockMap \ {x} /\ \A y \in DOMAIN lockMap' : lockMap'[y] = lockMap[y]
    BY DEF Delete
  <1>2. ASSUME NEW y \in DOMAIN lockMap' PROVE y \in Resource /\ ArraySound(lockMap'[y])
    BY <1>1 DEF MapSound
  <1> QED BY <1>2 DEF MapSound, ArraySound

\* removeEntry leaves sound arrays behind.
LEMMA RemovedSound ==
    ASSUME MapSound, NEW x \in DOMAIN lockMap, NEW uid, removeEntry(x, uid)
    PROVE  MapSound' /\ err' \in BOOLEAN
  <1>1. x \in Resource /\ ArraySound(lockMap[x])
    BY DEF MapSound
  <1>2. /\ err' = (Mine(lockMap[x], uid) = {})
        /\ \/ Mine(lockMap[x], uid) = {} /\ lockMap' = lockMap
           \/ Mine(lockMap[x], uid) # {} /\ Len(lockMap[x]) = 1 /\ lockMap' = Delete(x)
           \/ /\ Len(lockMap[x]) # 1
              /\ \E k \in Mine(lockMap[x], uid) : lockMap' = Put(x, RemoveAt(lockMap[x], k))
    BY <1>1, EntryRemoved
  <1>3. CASE lockMap' = lockMap
    BY <1>2, <1>3 DEF MapSound, ArraySound
  <1>4. CASE lockMap' = Delete(x)
    BY <1>2, <1>4, DeleteSound
  <1>5. ASSUME NEW k \in Mine(lockMap[x], uid), Len(lockMap[x]) # 1,
               lockMap' = Put(x, RemoveAt(lockMap[x], k))
        PROVE  MapSound'
    <2>1. k \in 1..Len(lockMap[x])
      BY DEF Mine
    <2>2. ArraySound(RemoveAt(lockMap[x], k))
      BY <1>1, <1>5, <2>1, SoundRemove
    <2> QED BY <1>1, <1>5, <2>2, PutSound
  <1>6. err' \in BOOLEAN
    BY <1>2
  <1> QED BY <1>2, <1>3, <1>4, <1>5, <1>6

\* ArraysSound is inductive.
LEMMA ArraysStep ==
    ASSUME ArraysSound, [Next]_vars
    PROVE  ArraysSound'
  <1>0. MapSound /\ reply \in BOOLEAN /\ err \in BOOLEAN
    BY SoundArrays DEF MapSound
  <1> SUFFICES MapSound' /\ reply' \in BOOLEAN /\ err' \in BOOLEAN
    BY SoundArraysNext DEF MapSound, ArraySound
  <1>1. ASSUME NEW x \in Resource, NEW uid \in Uid, Lock(x, uid)
        PROVE  MapSound' /\ reply' \in BOOLEAN /\ err' \in BOOLEAN
    <2> DEFINE e == [writer |-> TRUE, uid |-> uid]
    <2>1. ArraySound(<<e>>)
      BY SoundSingle DEF lockRequesterInfo
    <2>2. reply' \in BOOLEAN /\ err' \in BOOLEAN
      BY <1>1 DEF Lock
    <2>3. CASE x \notin DOMAIN lockMap
      <3>1. lockMap' = Put(x, <<e>>)
        BY <1>1, <2>3 DEF Lock
      <3> HIDE DEF e
      <3> QED BY <1>0, <2>1, <2>2, <3>1, PutSound
    <2>4. CASE x \in DOMAIN lockMap
      <3>1. lockMap' = lockMap
        BY <1>1, <2>4 DEF Lock
      <3> QED BY <1>0, <2>2, <3>1 DEF MapSound, ArraySound
    <2> QED BY <2>3, <2>4
  <1>2. ASSUME NEW x \in Resource, NEW uid \in Uid, RLock(x, uid)
        PROVE  MapSound' /\ reply' \in BOOLEAN /\ err' \in BOOLEAN
    <2> DEFINE e == [writer |-> FALSE, uid |-> uid]
    <2>1. e \in lockRequesterInfo /\ e.writer = FALSE
      BY DEF lockRequesterInfo
    <2>2. reply' \in BOOLEAN /\ err' \in BOOLEAN
      BY <1>2 DEF RLock
    <2>3. CASE x \notin DOMAIN lockMap
      <3>1. lockMap' = Put(x, <<e>>)
        BY <1>2, <2>3 DEF RLock
      <3> HIDE DEF e
      <3>2. ArraySound(<<e>>)
        BY <2>1, SoundSingle
      <3> QED BY <1>0, <2>2, <3>1, <3>2, PutSound
    <2>4. CASE x \in DOMAIN lockMap /\ ~isWriteLock(lockMap[x])
      <3>1. lockMap' = Put(x, Append(lockMap[x], e))
        BY <1>2, <2>4 DEF RLock
      <3> HIDE DEF e
      <3>2. ArraySound(Append(lockMap[x], e))
        BY <1>0, <2>1, <2>4, SoundAppend DEF MapSound
      <3> QED BY <1>0, <2>2, <3>1, <3>2, PutSound
    <2>5. CASE x \in DOMAIN lockMap /\ isWriteLock(lockMap[x])
      <3>1. lockMap' = lockMap
        BY <1>2, <2>5 DEF RLock
      <3> QED BY <1>0, <2>2, <3>1 DEF MapSound, ArraySound
    <2> QED BY <2>3, <2>4, <2>5
  <1>3. ASSUME NEW x \in Resource, NEW uid \in Uid, Unlock(x, uid) \/ RUnlock(x, uid)
        PROVE  MapSound' /\ reply' \in BOOLEAN /\ err' \in BOOLEAN
    <2>1. \/ x \in DOMAIN lockMap /\ removeEntry(x, uid) /\ reply' = TRUE
          \/ lockMap' = lockMap /\ reply' = FALSE /\ err' = TRUE
      BY <1>3 DEF Unlock, RUnlock
    <2>2. CASE x \in DOMAIN lockMap /\ removeEntry(x, uid) /\ reply' = TRUE
      BY <1>0, <2>2, RemovedSound
    <2>3. CASE lockMap' = lockMap /\ reply' = FALSE /\ err' = TRUE
      BY <1>0, <2>3 DEF MapSound, ArraySound
    <2> QED BY <2>1, <2>2, <2>3
  <1>4. CASE Restart
    BY <1>4 DEF Restart, MapSound
  <1>5. CASE UNCHANGED vars
    BY <1>0, <1>5 DEF vars, MapSound, ArraySound
  <1> QED BY <1>1, <1>2, <1>3, <1>4, <1>5 DEF Next

\* At the start there is no array.
LEMMA ArraysInit == Init => ArraysSound
  BY DEF Init, ArraysSound

(***************************************************************************)
(* The arrays of the chaos server never degenerate, for all names and uids *)
(* and whatever the bound on their length: no key is left with an empty    *)
(* array by removeEntry, and no reader ever shares the array of a writer.  *)
(***************************************************************************)
THEOREM ArraysStaySound == Spec => []ArraysSound
  <1>1. Init => ArraysSound
    BY ArraysInit
  <1>2. ArraysSound /\ [Next]_vars => ArraysSound'
    BY ArraysStep
  <1> QED BY <1>1, <1>2, PTL DEF Spec

-----------------------------------------------------------------------------
(* The two servers on the same requests. *)

\* The count that stands for an array.
CountOf(a) == IF isWriteLock(a) THEN -1 ELSE Len(a)

SameMaps ==
    /\ DOMAIN lockMap = DOMAIN counts
    /\ \A x \in DOMAIN lockMap : counts[x] = CountOf(lockMap[x])

\* ServersAgree, and what it says after a step.
LEMMA AgreeParts ==
    ServersAgree <=> (~foreign => reply = countReply /\ err = countErr /\ SameMaps)
  BY DEF ServersAgree, SameMaps, CountOf, Counting!WriteLock, isWriteLock

\* The same after a step.
LEMMA AgreePartsNext ==
    ServersAgree' <=> (~foreign' => reply' = countReply' /\ err' = countErr' /\ SameMaps')
  BY DEF ServersAgree, SameMaps, CountOf, Counting!WriteLock, isWriteLock

\* Both maps get an entry, the one for the other.
LEMMA PutSame ==
    ASSUME SameMaps, NEW x, NEW a, lockMap' = Put(x, a), counts' = Counting!Put(x, CountOf(a))
    PROVE  SameMaps'
  <1>1. /\ DOMAIN lockMap' = DOMAIN lockMap \cup {x}
        /\ \A y \in DOMAIN lockMap' : lockMap'[y] = IF y = x THEN a ELSE lockMap[y]
    BY DEF Put
  <1>2. /\ DOMAIN counts' = DOMAIN counts \cup {x}
        /\ \A y \in DOMAIN counts' : counts'[y] = IF y = x THEN CountOf(a) ELSE counts[y]
    BY DEF Counting!Put
  <1>3. DOMAIN lockMap' = DOMAIN counts'
    BY <1>1, <1>2 DEF SameMaps
  <1>4. ASSUME NEW y \in DOMAIN lockMap' PROVE counts'[y] = CountOf(lockMap'[y])
    <2>1. CASE y = x
      BY <1>1, <1>2, <1>3, <2>1
    <2>2. CASE y # x
      <3>1. y \in DOMAIN lockMap /\ lockMap'[y] = lockMap[y] /\ counts'[y] = counts[y]
        BY <1>1, <1>2, <1>3, <2>2
      <3> QED BY <3>1 DEF SameMaps
    <2> QED BY <2>1, <2>2
  <1> QED BY <1>3, <1>4 DEF SameMaps, CountOf, isWriteLock

\* Both maps lose a key.
LEMMA DeleteSame ==
    ASSUME SameMaps, NEW x, lockMap' = Delete(x), counts' = Counting!Delete(x)
    PROVE  SameMaps'
  <1>1. DOMAIN lockMap' = DOMAIN lockMap \ {x} /\ \A y \in DOMAIN lockMap' : lockMap'[y] = lockMap[y]
    BY DEF Delete
  <1>2. DOMAIN counts' = DOMAIN counts \ {x} /\ \A y \in DOMAIN counts' : counts'[y] = counts[y]
    BY DEF Counting!Delete
  <1>3. DOMAIN lockMap' = DOMAIN counts'
    BY <1>1, <1>2 DEF SameMaps
  <1>4. ASSUME NEW y \in DOMAIN lockMap' PROVE counts'[y] = CountOf(lockMap'[y])
    <2>1. y \in DOMAIN lockMap /\ lockMap'[y] = lockMap[y] /\ counts'[y] = counts[y]
      BY <1>1, <1>2, <1>3
    <2> QED BY <2>1 DEF SameMaps
  <1> QED BY <1>3, <1>4 DEF SameMaps, CountOf, isWriteLock

\* Neither map changes.
LEMMA StaySame ==
    ASSUME SameMaps, lockMap' = lockMap, counts' = counts
    PROVE  SameMaps'
  BY DEF SameMaps, CountOf, isWriteLock

\* Lock writes where the other server writes.
LEMMA LockAgrees ==
    ASSUME MapSound, SameMaps, NEW x \in Resource, NEW uid \in Uid, Lock(x, uid), Counting!Lock(x)
    PROVE  reply' = countReply' /\ err' = countErr' /\ SameMaps'
  <1> DEFINE e == [writer |-> TRUE, uid |-> uid]
  <1>1. DOMAIN lockMap = DOMAIN counts
    BY DEF SameMaps
  <1>2. reply' = countReply' /\ err' = countErr'
    BY <1>1 DEF Lock, Counting!Lock
  <1>3. CASE x \notin DOMAIN lockMap
    <2>1. lockMap' = Put(x, <<e>>)
      BY <1>3 DEF Lock
    <2>2. CountOf(<<e>>) = -1
      BY DEF CountOf, isWriteLock
    <2> HIDE DEF e
    <2>3. counts' = Counting!Put(x, CountOf(<<e>>))
      BY <1>1, <1>3, <2>2 DEF Counting!Lock, Counting!WriteLock
    <2> QED BY <1>2, <2>1, <2>3, PutSame
  <1>4. CASE x \in DOMAIN lockMap
    <2>1. lockMap' = lockMap /\ counts' = counts
      BY <1>1, <1>4 DEF Lock, Counting!Lock
    <2> QED BY <1>2, <2>1, StaySame
  <1> QED BY <1>3, <1>4

\* RLock appends where the other server adds one.
LEMMA RLockAgrees ==
    ASSUME MapSound, SameMaps, NEW x \in Resource, NEW uid \in Uid, RLock(x, uid), Counting!RLock(x)
    PROVE  reply' = countReply' /\ err' = countErr' /\ SameMaps'
  <1> DEFINE e == [writer |-> FALSE, uid |-> uid]
  <1>1. DOMAIN lockMap = DOMAIN counts
    BY DEF SameMaps
  <1>2. e \in lockRequesterInfo /\ e.writer = FALSE
    BY DEF lockRequesterInfo
  <1>3. CASE x \notin DOMAIN lockMap
    <2>1. lockMap' = Put(x, <<e>>) /\ reply' = TRUE /\ err' = FALSE
      BY <1>3 DEF RLock
    <2>2. counts' = Counting!Put(x, 1) /\ countReply' = TRUE /\ countErr' = FALSE
      BY <1>1, <1>3 DEF Counting!RLock, Counting!ReadLock
    <2>3. CountOf(<<e>>) = 1
      BY DEF CountOf, isWriteLock
    <2> HIDE DEF e
    <2> QED BY <2>1, <2>2, <2>3, PutSame
  <1>4. CASE x \in DOMAIN lockMap
    <2>1. ArraySound(lockMap[x]) /\ Len(lockMap[x]) \in Nat
      BY <1>4, SoundFacts DEF MapSound
    <2>2. counts[x] = CountOf(lockMap[x])
      BY <1>4 DEF SameMaps
    <2>3. CASE isWriteLock(lockMap[x])
      <3>1. lockMap' = lockMap /\ reply' = FALSE /\ err' = FALSE
        BY <1>4, <2>3 DEF RLock
      <3>2. counts[x] = -1
        BY <2>2, <2>3 DEF CountOf
      <3>3. counts' = counts /\ countReply' = FALSE /\ countErr' = FALSE
        BY <1>1, <1>4, <3>2 DEF Counting!RLock, Counting!WriteLock
      <3> QED BY <3>1, <3>3, StaySame
    <2>4. CASE ~isWriteLock(lockMap[x])
      <3>1. lockMap' = Put(x, Append(lockMap[x], e)) /\ reply' = TRUE /\ err' = FALSE
        BY <1>4, <2>4 DEF RLock
      <3>2. counts[x] = Len(lockMap[x]) /\ counts[x] # -1
        BY <2>1, <2>2, <2>4 DEF CountOf
      <3>3. counts' = Counting!Put(x, counts[x] + 1) /\ countReply' = TRUE /\ countErr' = FALSE
        BY <1>1, <1>4, <3>2 DEF Counting!RLock, Counting!WriteLock, Counting!ReadLock
      <3> HIDE DEF e
      <3>4. CountOf(Append(lockMap[x], e)) = counts[x] + 1
        BY <1>2, <2>1, <2>4, <3>2, SoundAppend DEF CountOf
      <3> QED BY <3>1, <3>3, <3>4, PutSame
    <2> QED BY <2>3, <2>4
  <1> QED BY <1>3, <1>4

\* Unlock deletes where the other server deletes, unless the lock is one of others.
LEMMA UnlockAgrees ==
    ASSUME MapSound, SameMaps, NEW x \in Resource, NEW uid \in Uid, Unlock(x, uid), Counting!Unlock(x),
           ~Foreign(x, uid, TRUE)
    PROVE  reply' = countReply' /\ err' = countErr' /\ SameMaps'
  <1>1. DOMAIN lockMap = DOMAIN counts
    BY DEF SameMaps
  <1>2. CASE x \in DOMAIN lockMap /\ isWriteLock(lockMap[x])
    <2>1. ArraySound(lockMap[x]) /\ Len(lockMap[x]) = 1 /\ counts[x] = -1 /\ DOMAIN lockMap[x] = 1..Len(lockMap[x])
      BY <1>2, SoundFacts DEF MapSound, SameMaps, CountOf, isWriteLock
    <2>2. counts' = Counting!Delete(x) /\ countReply' = TRUE /\ countErr' = FALSE
      BY <1>1, <1>2, <2>1 DEF Counting!Unlock, Counting!Release, Counting!WriteLock
    <2>3. removeEntry(x, uid) /\ reply' = TRUE
      BY <1>2 DEF Unlock
    <2>4. isWriteLock(lockMap[x]) = TRUE
      BY <1>2 DEF isWriteLock
    <2>5. Mine(lockMap[x], uid) # {}
      BY <1>2, <2>1, <2>4 DEF Foreign, Mine
    <2>6. lockMap' = Delete(x) /\ err' = FALSE
      BY <1>2, <2>1, <2>3, <2>5, EntryRemoved
    <2> QED BY <2>2, <2>3, <2>6, DeleteSame
  <1>3. CASE ~(x \in DOMAIN lockMap /\ isWriteLock(lockMap[x]))
    <2>1. lockMap' = lockMap /\ reply' = FALSE /\ err' = TRUE
      BY <1>3 DEF Unlock
    <2>2. ~(x \in DOMAIN counts /\ counts[x] = -1)
      <3>1. CASE x \in DOMAIN lockMap
        <4>1. counts[x] = Len(lockMap[x]) /\ Len(lockMap[x]) \in Nat
          BY <1>3, <3>1, SoundFacts DEF MapSound, SameMaps, CountOf
        <4> QED BY <4>1
      <3> QED BY <1>1, <3>1
    <2>3. counts' = counts /\ countReply' = FALSE /\ countErr' = TRUE
      BY <2>2 DEF Counting!Unlock, Counting!Release, Counting!WriteLock
    <2> QED BY <2>1, <2>3, StaySame
  <1> QED BY <1>2, <1>3

\* RUnlock removes where the other server takes one off.
LEMMA RUnlockAgrees ==
    ASSUME MapSound, SameMaps, NEW x \in Resource, NEW uid \in Uid, RUnlock(x, uid), Counting!RUnlock(x),
           ~Foreign(x, uid, FALSE)
    PROVE  reply' = countReply' /\ err' = countErr' /\ SameMaps'
  <1>1. DOMAIN lockMap = DOMAIN counts
    BY DEF SameMaps
  <1>2. CASE x \in DOMAIN lockMap /\ ~isWriteLock(lockMap[x])
    <2> DEFINE a == lockMap[x]
    <2>1. /\ ArraySound(a) /\ Len(a) \in Nat /\ Len(a) >= 1 /\ counts[x] = Len(a)
          /\ DOMAIN a = 1..Len(a)
      BY <1>2, SoundFacts DEF MapSound, SameMaps, CountOf
    <2>2. /\ counts' = IF counts[x] > 1 THEN Counting!Put(x, counts[x] - 1) ELSE Counting!Delete(x)
          /\ countReply' = TRUE /\ countErr' = FALSE
      <3>1. x \in DOMAIN counts /\ counts[x] \in Nat /\ counts[x] # -1
        BY <1>1, <1>2, <2>1
      <3>2. Counting!Release(TRUE, IF counts[x] > 1 THEN Counting!Put(x, counts[x] - 1) ELSE Counting!Delete(x))
        BY <3>1 DEF Counting!RUnlock, Counting!WriteLock, Counting!ReadLock, Counting!Release
      <3> QED BY <3>2 DEF Counting!Release
    <2>3. removeEntry(x, uid) /\ reply' = TRUE
      BY <1>2 DEF RUnlock
    <2>4. isWriteLock(a) = FALSE
      BY <1>2 DEF isWriteLock
    <2>5. Mine(a, uid) # {}
      BY <1>2, <2>1, <2>4 DEF Foreign, Mine
    <2>6. /\ err' = FALSE
          /\ \/ Len(a) = 1 /\ lockMap' = Delete(x)
             \/ Len(a) # 1 /\ \E k \in Mine(a, uid) : lockMap' = Put(x, RemoveAt(a, k))
      BY <1>2, <2>1, <2>3, <2>5, EntryRemoved
    <2>7. CASE Len(a) = 1
      <3>1. lockMap' = Delete(x) /\ counts' = Counting!Delete(x)
        BY <2>1, <2>2, <2>6, <2>7
      <3> QED BY <2>2, <2>3, <2>6, <3>1, DeleteSame
    <2>8. CASE Len(a) # 1
      <3>0. counts[x] > 1
        <4> HIDE DEF a
        <4> QED BY <2>1, <2>8
      <3>1. PICK k \in Mine(a, uid) : lockMap' = Put(x, RemoveAt(a, k))
        BY <2>6, <2>8
      <3>2. k \in 1..Len(a)
        BY DEF Mine
      <3>3. CountOf(RemoveAt(a, k)) = counts[x] - 1
        BY <2>1, <2>8, <3>2, SoundRemove DEF CountOf
      <3>4. counts' = Counting!Put(x, counts[x] - 1)
        BY <2>2, <3>0, Zenon
      <3> QED BY <2>2, <2>3, <2>6, <3>1, <3>3, <3>4, PutSame
    <2> QED BY <2>7, <2>8
  <1>3. CASE ~(x \in DOMAIN lockMap /\ ~isWriteLock(lockMap[x]))
    <2>1. lockMap' = lockMap /\ reply' = FALSE /\ err' = TRUE
      BY <1>3 DEF RUnlock
    <2>2. ~(x \in DOMAIN counts /\ counts[x] # -1)
      BY <1>1, <1>3 DEF SameMaps, CountOf
    <2>3. counts' = counts /\ countReply' = FALSE /\ countErr' = TRUE
      BY <2>2 DEF Counting!RUnlock, Counting!Release, Counting!WriteLock
    <2> QED BY <2>1, <2>3, StaySame
  <1> QED BY <1>2, <1>3

\* A step of both servers is a step of the one.
LEMMA BothSteps == [BothNext]_bothVars => [Next]_vars
  BY DEF BothNext, Next, bothVars, vars

\* ServersAgree is inductive relative to ArraysSound.
LEMMA AgreeStep ==
    ASSUME ArraysSound, ServersAgree, [BothNext]_bothVars
    PROVE  ServersAgree'
  <1>0. MapSound
    BY SoundArrays DEF MapSound
  <1>1. ~foreign => reply = countReply /\ err = countErr /\ SameMaps
    BY AgreeParts
  <1> SUFFICES ASSUME ~foreign' PROVE reply' = countReply' /\ err' = countErr' /\ SameMaps'
    BY AgreePartsNext
  <1>2. ASSUME NEW x \in Resource, NEW uid \in Uid, Lock(x, uid), Counting!Lock(x), UNCHANGED foreign
        PROVE  reply' = countReply' /\ err' = countErr' /\ SameMaps'
    BY <1>0, <1>1, <1>2, LockAgrees
  <1>3. ASSUME NEW x \in Resource, NEW uid \in Uid, RLock(x, uid), Counting!RLock(x), UNCHANGED foreign
        PROVE  reply' = countReply' /\ err' = countErr' /\ SameMaps'
    BY <1>0, <1>1, <1>3, RLockAgrees
  <1>4. ASSUME NEW x \in Resource, NEW uid \in Uid, Unlock(x, uid), Counting!Unlock(x),
               foreign' = (foreign \/ Foreign(x, uid, TRUE))
        PROVE  reply' = countReply' /\ err' = countErr' /\ SameMaps'
    <2>1. ~foreign /\ ~Foreign(x, uid, TRUE)
      BY <1>4
    <2> QED BY <1>0, <1>1, <1>4, <2>1, UnlockAgrees
  <1>5. ASSUME NEW x \in Resource, NEW uid \in Uid, RUnlock(x, uid), Counting!RUnlock(x),
               foreign' = (foreign \/ Foreign(x, uid, FALSE))
        PROVE  reply' = countReply' /\ err' = countErr' /\ SameMaps'
    <2>1. ~foreign /\ ~Foreign(x, uid, FALSE)
      BY <1>5
    <2> QED BY <1>0, <1>1, <1>5, <2>1, RUnlockAgrees
  <1>6. CASE Restart /\ Counting!Restart
    BY <1>6 DEF Restart, Counting!Restart, SameMaps
  <1>7. CASE UNCHANGED bothVars
    <2>1. UNCHANGED <<lockMap, reply, err, counts, countReply, countErr, foreign>>
      BY <1>7 DEF bothVars, vars
    <2> QED BY <1>1, <2>1, StaySame
  <1> QED BY <1>2, <1>3, <1>4, <1>5, <1>6, <1>7 DEF BothNext

(***************************************************************************)
(* The arrays of the chaos server and the counts of the performance server *)
(* agree, key by key and answer by answer, for all names, uids and lengths *)
(* of arrays, until a client releases a lock that only others hold.        *)
(***************************************************************************)
THEOREM ServersStayAlike == BothSpec => []ServersAgree
  <1>1. BothInit => ArraysSound /\ ServersAgree
    <2>1. BothInit => ServersAgree
      BY DEF BothInit, Init, Counting!Init, ServersAgree
    <2> QED BY <2>1, ArraysInit DEF BothInit
  <1>2. ArraysSound /\ ServersAgree /\ [BothNext]_bothVars => (ArraysSound /\ ServersAgree)'
    BY ArraysStep, BothSteps, AgreeStep
  <1> QED BY <1>1, <1>2, PTL DEF BothSpec

-----------------------------------------------------------------------------
(* The table that an array stands for. *)

ReadEntry(u) == [writer |-> FALSE, uid |-> u]
ReadsOf(a) == [u \in Uid |-> Cardinality(Positions(a, ReadEntry(u)))]
View(a) == [writer |-> IF isWriteLock(a) THEN a[1].uid ELSE NoUid, readers |-> ReadsOf(a)]

\* An array of read locks, perhaps the empty one of a name without a key.
ReadArray(a) == a \in Seq(lockRequesterInfo) /\ \A i \in 1..Len(a) : a[i].writer = FALSE

\* An entry is a read lock of its uid or a write lock.
LEMMA EntryFacts ==
    ASSUME NEW e \in lockRequesterInfo
    PROVE  /\ e.uid \in Uid /\ e.writer \in BOOLEAN
           /\ e = [writer |-> e.writer, uid |-> e.uid]
           /\ \A u : e = ReadEntry(u) <=> e.writer = FALSE /\ e.uid = u
  BY DEF lockRequesterInfo, ReadEntry

\* The empty array stands for no lock.
LEMMA ViewEmpty == View(<<>>) = NoLock /\ ReadArray(<<>>)
  <1>1. \A u : Positions(<<>>, ReadEntry(u)) = {}
    BY DEF Positions
  <1>2. ReadsOf(<<>>) = [u \in Uid |-> 0]
    BY <1>1, FS_EmptySet DEF ReadsOf
  <1>3. ~isWriteLock(<<>>)
    BY DEF isWriteLock
  <1> QED BY <1>2, <1>3 DEF View, NoLock, ReadArray

\* In an array of read locks the entries of a uid are its read locks.
LEMMA ReadArrayFacts ==
    ASSUME NEW a, ReadArray(a), NEW u \in Uid
    PROVE  /\ ~isWriteLock(a) /\ View(a).writer = NoUid /\ View(a).readers = ReadsOf(a)
           /\ Mine(a, u) = Positions(a, ReadEntry(u))
           /\ ReadsOf(a)[u] \in Nat /\ (ReadsOf(a)[u] = 0 <=> Mine(a, u) = {})
  <1>1. a \in Seq(lockRequesterInfo) /\ Len(a) \in Nat /\ \A i \in 1..Len(a) : a[i] \in lockRequesterInfo /\ a[i].writer = FALSE
    BY DEF ReadArray
  <1>2. ~isWriteLock(a)
    <2> SUFFICES ASSUME Len(a) = 1 PROVE ~a[1].writer
      BY DEF isWriteLock
    <2>1. 1 \in 1..Len(a)
      OBVIOUS
    <2> QED BY <1>1, <2>1
  <1>3. \A i \in 1..Len(a) : a[i] = ReadEntry(u) <=> a[i].uid = u
    BY <1>1, EntryFacts
  <1>4. Mine(a, u) = Positions(a, ReadEntry(u))
    BY <1>3 DEF Mine, Positions
  <1>5. IsFiniteSet(Positions(a, ReadEntry(u))) /\ Cardinality(Positions(a, ReadEntry(u))) \in Nat
    BY <1>1, PositionsFinite
  <1>6. Cardinality(Positions(a, ReadEntry(u))) = 0 <=> Positions(a, ReadEntry(u)) = {}
    BY <1>5, FS_EmptySet
  <1> QED BY <1>2, <1>4, <1>5, <1>6 DEF View, ReadsOf

\* The sound arrays without a writer are arrays of read locks.
LEMMA SoundReads ==
    ASSUME NEW a, ArraySound(a), ~isWriteLock(a)
    PROVE  ReadArray(a) /\ ~Vacant(View(a))
  <1>1. /\ a \in Seq(lockRequesterInfo) /\ Len(a) \in Nat /\ Len(a) >= 1
        /\ \A i \in 1..Len(a) : a[i] \in lockRequesterInfo /\ a[i].writer = FALSE
    BY SoundFacts
  <1>2. ReadArray(a)
    BY <1>1 DEF ReadArray
  <1>3. 1 \in 1..Len(a) /\ a[1].uid \in Uid
    <2>1. 1 \in 1..Len(a)
      BY <1>1
    <2> QED BY <1>1, <2>1, EntryFacts
  <1>4. 1 \in Mine(a, a[1].uid)
    BY <1>3 DEF Mine
  <1>5. ReadsOf(a)[a[1].uid] # 0 /\ View(a).readers = ReadsOf(a)
    BY <1>2, <1>3, <1>4, ReadArrayFacts
  <1> QED BY <1>2, <1>3, <1>5 DEF Vacant

\* An array with a writer has nothing else.
LEMMA SoundWrites ==
    ASSUME NEW a, ArraySound(a), isWriteLock(a)
    PROVE  /\ Len(a) = 1 /\ a[1].uid \in Uid /\ a = <<[writer |-> TRUE, uid |-> a[1].uid]>>
           /\ \A u : Mine(a, u) = IF a[1].uid = u THEN {1} ELSE {}
  <1>1. /\ a \in Seq(lockRequesterInfo) /\ Len(a) = 1 /\ DOMAIN a = 1..Len(a)
        /\ a[1] \in lockRequesterInfo /\ a[1].writer
    <2>1. /\ a \in Seq(lockRequesterInfo) /\ DOMAIN a = 1..Len(a)
          /\ \A i \in 1..Len(a) : a[i] \in lockRequesterInfo
      BY SoundFacts
    <2>2. Len(a) = 1 /\ a[1].writer
      BY DEF isWriteLock
    <2>3. 1 \in 1..Len(a)
      BY <2>2
    <2> QED BY <2>1, <2>2, <2>3
  <1>2. a[1] = [writer |-> a[1].writer, uid |-> a[1].uid] /\ a[1].writer = TRUE /\ a[1].uid \in Uid
    BY <1>1, EntryFacts
  <1>3. a = <<a[1]>>
    BY <1>1
  <1>4. \A u : Mine(a, u) = IF a[1].uid = u THEN {1} ELSE {}
    BY <1>1 DEF Mine
  <1> QED BY <1>1, <1>2, <1>3, <1>4

\* The table of a writer.
LEMMA ViewWriter ==
    ASSUME NEW u \in Uid
    PROVE  View(<<[writer |-> TRUE, uid |-> u]>>) = [NoLock EXCEPT !.writer = u]
  <1> DEFINE e == [writer |-> TRUE, uid |-> u]
  <1>1. \A v : Positions(<<e>>, ReadEntry(v)) = {}
    <2>1. \A v : e # ReadEntry(v)
      BY DEF ReadEntry
    <2>2. <<e>>[1] = e /\ Len(<<e>>) = 1
      OBVIOUS
    <2> HIDE DEF e
    <2> QED BY <2>1, <2>2 DEF Positions
  <1>2. ReadsOf(<<e>>) = [v \in Uid |-> 0]
    BY <1>1, FS_EmptySet DEF ReadsOf
  <1>3. isWriteLock(<<e>>) /\ <<e>>[1].uid = u
    BY DEF isWriteLock
  <1>4. View(<<e>>) = [writer |-> u, readers |-> [v \in Uid |-> 0]]
    <2> HIDE DEF e
    <2> QED BY <1>2, <1>3 DEF View
  <1> QED BY <1>4 DEF NoLock

\* One more read lock.
LEMMA ViewAppend ==
    ASSUME NEW a, ReadArray(a), NEW u \in Uid
    PROVE  View(Append(a, ReadEntry(u))) = [View(a) EXCEPT !.readers[u] = @ + 1]
  <1> DEFINE e == ReadEntry(u)
             b == Append(a, e)
  <1>0. /\ a \in Seq(lockRequesterInfo) /\ Len(a) \in Nat /\ e \in lockRequesterInfo /\ e.writer = FALSE
        /\ \A i \in 1..Len(a) : a[i].writer = FALSE
    BY DEF ReadArray, ReadEntry, lockRequesterInfo
  <1> HIDE DEF e
  <1>1. ReadArray(b)
    <2>1. /\ b \in Seq(lockRequesterInfo) /\ Len(b) = Len(a) + 1
          /\ \A i \in 1..Len(a) : b[i] = a[i]
          /\ b[Len(a) + 1] = e
      BY <1>0, AppendProperties
    <2> HIDE DEF b
    <2>2. ASSUME NEW i \in 1..Len(b) PROVE b[i].writer = FALSE
      <3>1. i \in 1..Len(a) \/ i = Len(a) + 1
        BY <1>0, <2>1
      <3> QED BY <1>0, <2>1, <3>1
    <2> QED BY <2>1, <2>2 DEF ReadArray
  <1>2. ASSUME NEW v \in Uid PROVE ReadsOf(b)[v] = IF v = u THEN ReadsOf(a)[v] + 1 ELSE ReadsOf(a)[v]
    <2>1. e = ReadEntry(v) <=> v = u
      BY DEF e, ReadEntry
    <2>2. Cardinality(Positions(b, ReadEntry(v))) = Cardinality(Positions(a, ReadEntry(v))) + (IF e = ReadEntry(v) THEN 1 ELSE 0)
      BY <1>0, CountAppend
    <2>3. ReadsOf(a)[v] \in Nat
      BY ReadArrayFacts
    <2> QED BY <2>1, <2>2, <2>3 DEF ReadsOf
  <1> HIDE DEF b
  <1>3. ReadsOf(b) = [ReadsOf(a) EXCEPT ![u] = @ + 1]
    BY <1>2 DEF ReadsOf
  <1>4. View(b) = [writer |-> NoUid, readers |-> ReadsOf(b)] /\ View(a) = [writer |-> NoUid, readers |-> ReadsOf(a)]
    BY <1>1, ReadArrayFacts DEF View
  <1> QED BY <1>3, <1>4 DEF b, e

\* One read lock less.
LEMMA ViewRemove ==
    ASSUME NEW a, ReadArray(a), NEW u \in Uid, NEW k \in Mine(a, u)
    PROVE  View(RemoveAt(a, k)) = [View(a) EXCEPT !.readers[u] = @ - 1]
  <1> DEFINE b == RemoveAt(a, k)
  <1>0. /\ a \in Seq(lockRequesterInfo) /\ Len(a) \in Nat /\ k \in 1..Len(a) /\ a[k] = ReadEntry(u)
        /\ \A i \in 1..Len(a) : a[i].writer = FALSE
    <2>1. k \in Positions(a, ReadEntry(u))
      BY ReadArrayFacts
    <2> QED BY <2>1 DEF Positions, ReadArray
  <1>1. ReadArray(b)
    <2>1. /\ b \in Seq(lockRequesterInfo) /\ Len(b) = Len(a) - 1
          /\ \A i \in 1..Len(a) - 1 : b[i] = IF i < k THEN a[i] ELSE a[i + 1]
      BY <1>0, RemoveAtFacts
    <2> HIDE DEF b
    <2>2. ASSUME NEW i \in 1..Len(b) PROVE b[i].writer = FALSE
      <3>1. i \in 1..Len(a) /\ i + 1 \in 1..Len(a) /\ i \in 1..Len(a) - 1
        BY <1>0, <2>1
      <3> QED BY <1>0, <2>1, <3>1
    <2> QED BY <2>1, <2>2 DEF ReadArray
  <1>2. ASSUME NEW v \in Uid PROVE ReadsOf(b)[v] = IF v = u THEN ReadsOf(a)[v] - 1 ELSE ReadsOf(a)[v]
    <2>1. a[k] = ReadEntry(v) <=> v = u
      <3>1. ReadEntry(u) = ReadEntry(v) <=> v = u
        BY DEF ReadEntry
      <3> QED BY <1>0, <3>1
    <2>2. Cardinality(Positions(b, ReadEntry(v))) = Cardinality(Positions(a, ReadEntry(v))) - (IF a[k] = ReadEntry(v) THEN 1 ELSE 0)
      BY <1>0, CountRemove
    <2>3. ReadsOf(a)[v] \in Nat
      BY ReadArrayFacts
    <2> QED BY <2>1, <2>2, <2>3 DEF ReadsOf
  <1> HIDE DEF b
  <1>3. ReadsOf(b) = [ReadsOf(a) EXCEPT ![u] = @ - 1]
    BY <1>2 DEF ReadsOf
  <1>4. View(b) = [writer |-> NoUid, readers |-> ReadsOf(b)] /\ View(a) = [writer |-> NoUid, readers |-> ReadsOf(a)]
    BY <1>1, ReadArrayFacts DEF View
  <1> QED BY <1>3, <1>4 DEF b

-----------------------------------------------------------------------------
(* The chaos server implements the lock service. *)

\* The array of a name, empty for a name without a key.
ArrayOf(x) == IF x \in DOMAIN lockMap THEN lockMap[x] ELSE <<>>

\* Tables is the view of these arrays, before a step and after it.
LEMMA TablesView ==
    ASSUME MapSound
    PROVE  Tables = [x \in Resource |-> View(ArrayOf(x))]
  <1>1. ASSUME NEW x \in Resource, x \in DOMAIN lockMap
        PROVE  View(lockMap[x]) = [writer |-> IF isWriteLock(lockMap[x]) THEN lockMap[x][1].uid ELSE NoUid,
                  readers |-> [u \in Uid |->
                     Cardinality({i \in DOMAIN lockMap[x] : lockMap[x][i] = [writer |-> FALSE, uid |-> u]})]]
    <2>1. DOMAIN lockMap[x] = 1..Len(lockMap[x])
      BY <1>1, SoundFacts DEF MapSound
    <2> QED BY <2>1 DEF View, ReadsOf, Positions, ReadEntry
  <1> QED BY <1>1, ViewEmpty DEF Tables, ArrayOf

\* The same after a step.
LEMMA TablesViewNext ==
    ASSUME MapSound'
    PROVE  Tables' = [x \in Resource |-> View(ArrayOf(x)')]
  <1>1. ASSUME NEW x \in Resource, x \in DOMAIN lockMap'
        PROVE  View(lockMap'[x]) = [writer |-> IF isWriteLock(lockMap'[x]) THEN lockMap'[x][1].uid ELSE NoUid,
                  readers |-> [u \in Uid |->
                     Cardinality({i \in DOMAIN lockMap'[x] : lockMap'[x][i] = [writer |-> FALSE, uid |-> u]})]]
    <2>1. ArraySound(lockMap'[x])
      BY <1>1 DEF MapSound, ArraySound
    <2>2. DOMAIN lockMap'[x] = 1..Len(lockMap'[x])
      BY <2>1, SoundFacts
    <2> QED BY <2>2 DEF View, ReadsOf, Positions, ReadEntry
  <1> QED BY <1>1, ViewEmpty DEF Tables, ArrayOf, isWriteLock

\* A step that changes the array of one name changes the table of that name.
LEMMA OneTable ==
    ASSUME MapSound, MapSound', NEW x \in Resource, NEW t, View(ArrayOf(x)') = t,
           \A y \in Resource : y # x => ArrayOf(y)' = ArrayOf(y)
    PROVE  Tables' = [Tables EXCEPT ![x] = t] /\ Tables[x] = View(ArrayOf(x)) /\ Tables'[x] = t
  <1>1. Tables = [y \in Resource |-> View(ArrayOf(y))] /\ Tables' = [y \in Resource |-> View(ArrayOf(y)')]
    BY TablesView, TablesViewNext
  <1> QED BY <1>1

\* The array of every name after the three ways to write to the map.
LEMMA ArrayPut ==
    ASSUME NEW x, NEW a, lockMap' = Put(x, a)
    PROVE  ArrayOf(x)' = a /\ \A y : y # x => ArrayOf(y)' = ArrayOf(y)
  <1>1. /\ DOMAIN lockMap' = DOMAIN lockMap \cup {x}
        /\ \A y \in DOMAIN lockMap' : lockMap'[y] = IF y = x THEN a ELSE lockMap[y]
    BY DEF Put
  <1> QED BY <1>1 DEF ArrayOf

\* After delete(lockMap, x) the array of x is the empty one.
LEMMA ArrayDelete ==
    ASSUME NEW x, lockMap' = Delete(x)
    PROVE  ArrayOf(x)' = <<>> /\ \A y : y # x => ArrayOf(y)' = ArrayOf(y)
  <1>1. DOMAIN lockMap' = DOMAIN lockMap \ {x} /\ \A y \in DOMAIN lockMap' : lockMap'[y] = lockMap[y]
    BY DEF Delete
  <1> QED BY <1>1 DEF ArrayOf

\* Without a write all arrays stay.
LEMMA ArrayStays ==
    ASSUME lockMap' = lockMap
    PROVE  \A y : ArrayOf(y)' = ArrayOf(y)
  BY DEF ArrayOf

\* A key has a table that is not vacant.
LEMMA KeyNotVacant ==
    ASSUME NEW a, ArraySound(a)
    PROVE  ~Vacant(View(a)) /\ (isWriteLock(a) => View(a).writer = a[1].uid /\ View(a).writer # NoUid)
  <1>1. CASE isWriteLock(a)
    <2>1. a[1].uid \in Uid
      BY <1>1, SoundWrites
    <2>2. View(a).writer = a[1].uid
      BY <1>1 DEF View
    <2> QED BY <2>1, <2>2, NoUidAssumption DEF Vacant
  <1>2. CASE ~isWriteLock(a)
    BY <1>2, SoundReads
  <1> QED BY <1>1, <1>2

\* Lock is an Acquire of a write lock.
LEMMA LockServes ==
    ASSUME MapSound, MapSound', NEW x \in Resource, NEW uid \in Uid, Lock(x, uid)
    PROVE  Service!Acquire(x, uid, FALSE)
  <1> DEFINE e == [writer |-> TRUE, uid |-> uid]
  <1>0. call' = <<"Lock", x, uid>> /\ err' = FALSE /\ reply' = (x \notin DOMAIN lockMap)
    BY DEF Lock
  <1>1. CASE x \notin DOMAIN lockMap
    <2>1. lockMap' = Put(x, <<e>>)
      BY <1>1 DEF Lock
    <2>2. View(<<e>>) = [NoLock EXCEPT !.writer = uid]
      BY ViewWriter
    <2> HIDE DEF e
    <2>3. ArrayOf(x)' = <<e>> /\ \A y : y # x => ArrayOf(y)' = ArrayOf(y)
      BY <2>1, ArrayPut
    <2>4. /\ Tables' = [Tables EXCEPT ![x] = [NoLock EXCEPT !.writer = uid]]
          /\ Tables[x] = NoLock
      <3>1. View(ArrayOf(x)) = NoLock
        BY <1>1, ViewEmpty DEF ArrayOf
      <3> QED BY <2>2, <2>3, <3>1, OneTable
    <2>5. Service!Grants(NoLock, FALSE)
      BY DEF Service!Grants, Service!Vacant, NoLock
    <2>6. Service!AfterLock(NoLock, uid, FALSE) = [NoLock EXCEPT !.writer = uid]
      BY <2>5 DEF Service!AfterLock
    <2>7. (reply' /\ ~err') = TRUE
      BY <1>0, <1>1
    <2>8. Tables' = [Tables EXCEPT ![x] = Service!AfterLock(@, uid, FALSE)]
      BY <2>4, <2>6
    <2>9. (reply' /\ ~err') = Service!Grants(Tables[x], FALSE)
      BY <2>4, <2>5, <2>7 DEF Service!Grants, Service!Vacant
    <2> QED BY <1>0, <2>8, <2>9 DEF Service!Acquire
  <1>2. CASE x \in DOMAIN lockMap
    <2>1. \A y : ArrayOf(y)' = ArrayOf(y)
      BY <1>0, <1>2, ArrayStays DEF Lock
    <2>2. Tables' = [Tables EXCEPT ![x] = Tables[x]] /\ Tables[x] = View(lockMap[x])
      <3>1. ArrayOf(x) = lockMap[x]
        BY <1>2 DEF ArrayOf
      <3> QED BY <2>1, <3>1, OneTable
    <2>3. ~Service!Grants(Tables[x], FALSE)
      <3>1. ~Vacant(View(lockMap[x]))
        BY <1>2, KeyNotVacant DEF MapSound
      <3> QED BY <2>2, <3>1 DEF Service!Grants, Service!Vacant, Vacant
    <2>4. Service!AfterLock(Tables[x], uid, FALSE) = Tables[x]
      BY <2>3 DEF Service!AfterLock
    <2>5. (reply' /\ ~err') = FALSE
      BY <1>0, <1>2
    <2>6. Tables' = [Tables EXCEPT ![x] = Service!AfterLock(@, uid, FALSE)]
      BY <2>2, <2>4
    <2>7. (reply' /\ ~err') = Service!Grants(Tables[x], FALSE)
      BY <2>3, <2>5 DEF Service!Grants, Service!Vacant
    <2> QED BY <1>0, <2>6, <2>7 DEF Service!Acquire
  <1> QED BY <1>1, <1>2

\* RLock is an Acquire of a read lock.
LEMMA RLockServes ==
    ASSUME MapSound, MapSound', NEW x \in Resource, NEW uid \in Uid, RLock(x, uid)
    PROVE  Service!Acquire(x, uid, TRUE)
  <1> DEFINE a == ArrayOf(x)
             e == ReadEntry(uid)
  <1>0. call' = <<"RLock", x, uid>> /\ err' = FALSE
    BY DEF RLock
  <1>1. CASE ~(x \in DOMAIN lockMap /\ isWriteLock(lockMap[x]))
    <2>1. ReadArray(a)
      BY <1>1, SoundReads, ViewEmpty DEF MapSound, ArrayOf
    <2>2. ArrayOf(x)' = Append(a, e) /\ \A y : y # x => ArrayOf(y)' = ArrayOf(y)
      <3>1. CASE x \in DOMAIN lockMap
        <4>1. lockMap' = Put(x, Append(lockMap[x], e))
          BY <1>1, <3>1 DEF RLock, ReadEntry
        <4> QED BY <3>1, <4>1, ArrayPut DEF ArrayOf
      <3>2. CASE x \notin DOMAIN lockMap
        <4>1. lockMap' = Put(x, <<e>>)
          BY <3>2 DEF RLock, ReadEntry
        <4>2. a = <<>>
          BY <3>2 DEF ArrayOf
        <4>3. Append(<<>>, e) = <<e>>
          OBVIOUS
        <4> HIDE DEF a, e
        <4> QED BY <4>1, <4>2, <4>3, ArrayPut
      <3> QED BY <3>1, <3>2
    <2>3. View(Append(a, e)) = [View(a) EXCEPT !.readers[uid] = @ + 1]
      BY <2>1, ViewAppend
    <2>4. View(a).writer = NoUid
      BY <2>1, ReadArrayFacts
    <2> HIDE DEF e
    <2>5. /\ Tables' = [Tables EXCEPT ![x] = [View(a) EXCEPT !.readers[uid] = @ + 1]]
          /\ Tables[x] = View(a)
      BY <2>2, <2>3, OneTable
    <2> HIDE DEF a
    <2>6. Service!Grants(View(a), TRUE)
      BY <2>4 DEF Service!Grants
    <2>7. Service!AfterLock(View(a), uid, TRUE) = [View(a) EXCEPT !.readers[uid] = @ + 1]
      BY <2>6 DEF Service!AfterLock
    <2>8. (reply' /\ ~err') = TRUE
      BY <1>0, <1>1 DEF RLock
    <2>9. Tables' = [Tables EXCEPT ![x] = Service!AfterLock(@, uid, TRUE)]
      BY <2>5, <2>7
    <2>10. (reply' /\ ~err') = Service!Grants(Tables[x], TRUE)
      BY <2>5, <2>6, <2>8 DEF Service!Grants
    <2> QED BY <1>0, <2>9, <2>10 DEF Service!Acquire
  <1>2. CASE x \in DOMAIN lockMap /\ isWriteLock(lockMap[x])
    <2>1. lockMap' = lockMap /\ reply' = FALSE
      BY <1>2 DEF RLock
    <2>2. \A y : ArrayOf(y)' = ArrayOf(y)
      BY <2>1, ArrayStays
    <2>3. Tables' = [Tables EXCEPT ![x] = Tables[x]] /\ Tables[x] = View(lockMap[x])
      <3>1. ArrayOf(x) = lockMap[x]
        BY <1>2 DEF ArrayOf
      <3> QED BY <2>2, <3>1, OneTable
    <2>4. ~Service!Grants(Tables[x], TRUE)
      BY <1>2, <2>3, KeyNotVacant DEF MapSound, Service!Grants
    <2>5. Service!AfterLock(Tables[x], uid, TRUE) = Tables[x]
      BY <2>4 DEF Service!AfterLock
    <2>6. Tables' = [Tables EXCEPT ![x] = Service!AfterLock(@, uid, TRUE)]
      BY <2>3, <2>5
    <2>7. (reply' /\ ~err') = Service!Grants(Tables[x], TRUE)
      BY <2>1, <2>4 DEF Service!Grants
    <2> QED BY <1>0, <2>6, <2>7 DEF Service!Acquire
  <1> QED BY <1>1, <1>2

\* removeEntry, seen in the array of its name: the first entry of the uid goes.
LEMMA ArrayRemoved ==
    ASSUME NEW x \in DOMAIN lockMap, NEW uid, ArraySound(lockMap[x]), removeEntry(x, uid)
    PROVE  /\ err' = (Mine(lockMap[x], uid) = {})
           /\ Mine(lockMap[x], uid) = {} => lockMap' = lockMap
           /\ Mine(lockMap[x], uid) # {} =>
                 /\ \E k \in Mine(lockMap[x], uid) : ArrayOf(x)' = RemoveAt(lockMap[x], k)
                 /\ \A y : y # x => ArrayOf(y)' = ArrayOf(y)
  <1> DEFINE a == lockMap[x]
  <1>1. /\ err' = (Mine(a, uid) = {})
        /\ \/ Mine(a, uid) = {} /\ lockMap' = lockMap
           \/ Mine(a, uid) # {} /\ Len(a) = 1 /\ lockMap' = Delete(x)
           \/ Len(a) # 1 /\ \E k \in Mine(a, uid) : lockMap' = Put(x, RemoveAt(a, k))
    BY EntryRemoved
  <1>2. ASSUME Mine(a, uid) # {}, Len(a) = 1, lockMap' = Delete(x)
        PROVE  /\ \E k \in Mine(a, uid) : ArrayOf(x)' = RemoveAt(a, k)
               /\ \A y : y # x => ArrayOf(y)' = ArrayOf(y)
    <2>1. PICK k \in Mine(a, uid) : TRUE
      BY <1>2
    <2>2. a \in Seq(lockRequesterInfo) /\ k \in 1..Len(a)
      BY SoundFacts DEF Mine
    <2> HIDE DEF a
    <2>3. RemoveAt(a, k) \in Seq(lockRequesterInfo) /\ Len(RemoveAt(a, k)) = Len(a) - 1
      BY <2>2, RemoveAtFacts
    <2>4. RemoveAt(a, k) = <<>>
      BY <1>2, <2>3, EmptySeq
    <2>5. ArrayOf(x)' = <<>> /\ \A y : y # x => ArrayOf(y)' = ArrayOf(y)
      BY <1>2, ArrayDelete
    <2> QED BY <2>4, <2>5
  <1>3. ASSUME NEW k \in Mine(a, uid), lockMap' = Put(x, RemoveAt(a, k))
        PROVE  ArrayOf(x)' = RemoveAt(a, k) /\ \A y : y # x => ArrayOf(y)' = ArrayOf(y)
    BY <1>3, ArrayPut
  <1> HIDE DEF a
  <1>4. Mine(a, uid) = {} => lockMap' = lockMap
    BY <1>1
  <1>5. Mine(a, uid) # {} =>
           /\ \E k \in Mine(a, uid) : ArrayOf(x)' = RemoveAt(a, k)
           /\ \A y : y # x => ArrayOf(y)' = ArrayOf(y)
    BY <1>1, <1>2, <1>3
  <1> QED BY <1>1, <1>4, <1>5 DEF a

\* A release that changes no array and answers with an error.
LEMMA NothingReleased ==
    ASSUME MapSound, MapSound', NEW x \in Resource, NEW uid \in Uid, NEW k \in BOOLEAN,
           lockMap' = lockMap, err' = TRUE,
           call' = <<IF k THEN "RUnlock" ELSE "Unlock", x, uid>>,
           Service!AfterUnlock(View(ArrayOf(x)), uid, k) = View(ArrayOf(x))
    PROVE  Service!Release(x, uid, k)
  <1>1. \A y : ArrayOf(y)' = ArrayOf(y)
    BY ArrayStays
  <1>2. Tables' = [Tables EXCEPT ![x] = View(ArrayOf(x))] /\ Tables[x] = View(ArrayOf(x))
    BY <1>1, OneTable
  <1>3. Tables' = Tables
    BY <1>1, TablesView, TablesViewNext
  <1>4. Tables' = [Tables EXCEPT ![x] = Service!AfterUnlock(@, uid, k)]
    BY <1>2
  <1>5. (reply' /\ ~err') = (Tables' # Tables)
    BY <1>3
  <1> QED BY <1>4, <1>5 DEF Service!Release

\* A release that takes one lock away.
LEMMA OneReleased ==
    ASSUME MapSound, MapSound', NEW x \in Resource, NEW uid \in Uid, NEW k \in BOOLEAN, NEW t,
           View(ArrayOf(x)') = t, \A y : y # x => ArrayOf(y)' = ArrayOf(y),
           reply' = TRUE, err' = FALSE,
           call' = <<IF k THEN "RUnlock" ELSE "Unlock", x, uid>>,
           Service!AfterUnlock(View(ArrayOf(x)), uid, k) = t, t # View(ArrayOf(x))
    PROVE  Service!Release(x, uid, k)
  <1>1. Tables' = [Tables EXCEPT ![x] = t] /\ Tables[x] = View(ArrayOf(x)) /\ Tables'[x] = t
    BY OneTable
  <1>2. Tables' # Tables
    BY <1>1
  <1>3. Tables' = [Tables EXCEPT ![x] = Service!AfterUnlock(@, uid, k)]
    BY <1>1
  <1>4. (reply' /\ ~err') = (Tables' # Tables)
    BY <1>2
  <1> QED BY <1>3, <1>4 DEF Service!Release

\* Unlock is a Release of a write lock.
LEMMA UnlockServes ==
    ASSUME MapSound, MapSound', NEW x \in Resource, NEW uid \in Uid, Unlock(x, uid)
    PROVE  Service!Release(x, uid, FALSE)
  <1> DEFINE a == lockMap[x]
  <1>0. call' = <<IF FALSE THEN "RUnlock" ELSE "Unlock", x, uid>>
    BY DEF Unlock
  <1>1. CASE x \in DOMAIN lockMap /\ isWriteLock(a)
    <2>1. removeEntry(x, uid) /\ reply' = TRUE
      BY <1>1 DEF Unlock
    <2>2. ArraySound(a) /\ ArrayOf(x) = a
      BY <1>1 DEF MapSound, ArrayOf
    <2>3. /\ Len(a) = 1 /\ a[1].uid \in Uid /\ a = <<[writer |-> TRUE, uid |-> a[1].uid]>>
          /\ Mine(a, uid) = IF a[1].uid = uid THEN {1} ELSE {}
      BY <1>1, <2>2, SoundWrites
    <2>4. View(a) = [NoLock EXCEPT !.writer = a[1].uid]
      BY <2>3, ViewWriter
    <2>5. View(a).writer = a[1].uid
      BY <1>1 DEF View
    <2>6. CASE a[1].uid = uid
      <3>1. lockMap' = Delete(x) /\ err' = FALSE
        BY <1>1, <2>1, <2>2, <2>3, <2>6, EntryRemoved
      <3>2. ArrayOf(x)' = <<>> /\ \A y : y # x => ArrayOf(y)' = ArrayOf(y)
        BY <3>1, ArrayDelete
      <3>3. View(ArrayOf(x)') = NoLock
        BY <3>2, ViewEmpty
      <3>4. Service!AfterUnlock(View(a), uid, FALSE) = [View(a) EXCEPT !.writer = NoUid]
        BY <2>5, <2>6 DEF Service!AfterUnlock
      <3>5. [View(a) EXCEPT !.writer = NoUid] = NoLock
        <4>1. View(a) = [writer |-> uid, readers |-> [u \in Uid |-> 0]]
          BY <2>4, <2>6 DEF NoLock
        <4> HIDE DEF a
        <4> QED BY <4>1 DEF NoLock
      <3>6. NoLock # View(a)
        BY <2>5, <2>6, NoUidAssumption DEF NoLock
      <3> HIDE DEF a
      <3> QED BY <1>0, <2>1, <2>2, <3>1, <3>2, <3>3, <3>4, <3>5, <3>6, OneReleased
    <2>7. CASE a[1].uid # uid
      <3>1. lockMap' = lockMap /\ err' = TRUE
        BY <1>1, <2>1, <2>2, <2>3, <2>7, ArrayRemoved
      <3>2. Service!AfterUnlock(View(a), uid, FALSE) = View(a)
        BY <2>5, <2>7 DEF Service!AfterUnlock
      <3> QED BY <1>0, <2>2, <3>1, <3>2, NothingReleased
    <2> QED BY <2>6, <2>7
  <1>2. CASE ~(x \in DOMAIN lockMap /\ isWriteLock(a))
    <2>1. lockMap' = lockMap /\ err' = TRUE
      BY <1>2 DEF Unlock
    <2>2. ReadArray(ArrayOf(x))
      BY <1>2, SoundReads, ViewEmpty DEF MapSound, ArrayOf
    <2>3. View(ArrayOf(x)).writer # uid
      BY <2>2, ReadArrayFacts, NoUidAssumption
    <2>4. Service!AfterUnlock(View(ArrayOf(x)), uid, FALSE) = View(ArrayOf(x))
      BY <2>3 DEF Service!AfterUnlock
    <2> QED BY <1>0, <2>1, <2>4, NothingReleased
  <1> QED BY <1>1, <1>2

\* RUnlock is a Release of a read lock.
LEMMA RUnlockServes ==
    ASSUME MapSound, MapSound', NEW x \in Resource, NEW uid \in Uid, RUnlock(x, uid)
    PROVE  Service!Release(x, uid, TRUE)
  <1> DEFINE a == lockMap[x]
  <1>0. call' = <<IF TRUE THEN "RUnlock" ELSE "Unlock", x, uid>>
    BY DEF RUnlock
  <1>1. CASE x \in DOMAIN lockMap /\ ~isWriteLock(a)
    <2>1. removeEntry(x, uid) /\ reply' = TRUE
      BY <1>1 DEF RUnlock
    <2>2. ArraySound(a) /\ ArrayOf(x) = a /\ ReadArray(a)
      BY <1>1, SoundReads DEF MapSound, ArrayOf
    <2>3. /\ View(a).writer = NoUid /\ View(a).readers = ReadsOf(a)
          /\ ReadsOf(a)[uid] \in Nat /\ (ReadsOf(a)[uid] = 0 <=> Mine(a, uid) = {})
      BY <2>2, ReadArrayFacts
    <2>4. CASE Mine(a, uid) # {}
      <3>1. /\ err' = FALSE
            /\ \E k \in Mine(a, uid) : ArrayOf(x)' = RemoveAt(a, k)
            /\ \A y : y # x => ArrayOf(y)' = ArrayOf(y)
        BY <1>1, <2>1, <2>2, <2>4, ArrayRemoved
      <3> HIDE DEF a
      <3> DEFINE t == [View(a) EXCEPT !.readers[uid] = @ - 1]
      <3>2. View(ArrayOf(x)') = t
        BY <2>2, <3>1, ViewRemove
      <3>3. View(a).readers[uid] > 0
        BY <2>3, <2>4
      <3>4. Service!AfterUnlock(View(a), uid, TRUE) = t
        BY <2>3, <3>3 DEF Service!AfterUnlock
      <3>5. t # View(a)
        <4>1. View(a) = [writer |-> NoUid, readers |-> ReadsOf(a)]
          BY <2>3 DEF View
        <4>2. t.readers = [ReadsOf(a) EXCEPT ![uid] = @ - 1]
          BY <4>1
        <4>3. t.readers[uid] = ReadsOf(a)[uid] - 1
          BY <4>2 DEF ReadsOf
        <4> HIDE DEF t
        <4> QED BY <2>3, <4>3
      <3> HIDE DEF t
      <3> QED BY <1>0, <2>1, <2>2, <3>1, <3>2, <3>4, <3>5, OneReleased
    <2>5. CASE Mine(a, uid) = {}
      <3>1. lockMap' = lockMap /\ err' = TRUE
        BY <1>1, <2>1, <2>2, <2>5, ArrayRemoved
      <3>2. Service!AfterUnlock(View(a), uid, TRUE) = View(a)
        <4>1. ~(View(a).readers[uid] > 0)
          BY <2>3, <2>5
        <4> QED BY <4>1 DEF Service!AfterUnlock
      <3> QED BY <1>0, <2>2, <3>1, <3>2, NothingReleased
    <2> QED BY <2>4, <2>5
  <1>2. CASE ~(x \in DOMAIN lockMap /\ ~isWriteLock(a))
    <2>1. lockMap' = lockMap /\ err' = TRUE
      BY <1>2 DEF RUnlock
    <2>2. Service!AfterUnlock(View(ArrayOf(x)), uid, TRUE) = View(ArrayOf(x))
      <3>1. CASE x \in DOMAIN lockMap
        <4>1. View(ArrayOf(x)).writer # NoUid
          BY <1>2, <3>1, KeyNotVacant DEF MapSound, ArrayOf
        <4> QED BY <4>1 DEF Service!AfterUnlock
      <3>2. CASE x \notin DOMAIN lockMap
        <4>1. View(ArrayOf(x)) = NoLock
          BY <3>2, ViewEmpty DEF ArrayOf
        <4>2. ~(NoLock.readers[uid] > 0)
          BY DEF NoLock
        <4> QED BY <4>1, <4>2 DEF Service!AfterUnlock
      <3> QED BY <3>1, <3>2
    <2> QED BY <1>0, <2>1, <2>2, NothingReleased
  <1> QED BY <1>1, <1>2

\* Every step of the server is a step of the lock service, or none.
LEMMA ServiceStep ==
    ASSUME ArraysSound, ArraysSound', [Next]_vars
    PROVE  [Service!Next]_<<Tables, call, reply /\ ~err>>
  <1>0. MapSound /\ MapSound'
    BY SoundArrays, SoundArraysNext DEF MapSound, ArraySound
  <1>1. ASSUME NEW x \in Resource, NEW uid \in Uid,
               Lock(x, uid) \/ Unlock(x, uid) \/ RLock(x, uid) \/ RUnlock(x, uid)
        PROVE  Service!Next
    <2>1. \E isReadLock \in BOOLEAN : Service!Acquire(x, uid, isReadLock) \/ Service!Release(x, uid, isReadLock)
      BY <1>0, <1>1, LockServes, RLockServes, UnlockServes, RUnlockServes
    <2> QED BY <2>1 DEF Service!Next
  <1>2. CASE Restart
    <2>1. DOMAIN lockMap' = {}
      BY <1>2 DEF Restart
    <2>2. \A x : ArrayOf(x)' = <<>>
      BY <2>1 DEF ArrayOf
    <2>3. Tables' = [x \in Resource |-> NoLock]
      BY <1>0, <2>2, TablesViewNext, ViewEmpty
    <2>4. Service!Restart
      BY <1>2, <2>3 DEF Restart, Service!Restart, Service!NoLock, NoLock
    <2> QED BY <2>4 DEF Service!Next
  <1>3. CASE UNCHANGED vars
    <2>1. lockMap' = lockMap /\ call' = call /\ reply' = reply /\ err' = err
      BY <1>3 DEF vars
    <2>2. Tables' = Tables
      BY <1>0, <2>1, ArrayStays, TablesView, TablesViewNext
    <2> QED BY <2>1, <2>2
  <1> QED BY <1>1, <1>2, <1>3 DEF Next

(***************************************************************************)
(* The handlers of the chaos server implement the lock service that the    *)
(* model of the client builds on: with arrays of any length, every request *)
(* gets the answer of the tables, and RUnlock takes exactly one of the     *)
(* locks of its own uid away, whichever entry the loop finds.              *)
(***************************************************************************)
THEOREM LockServiceImplemented == Spec => ImplementsLockService
  <1>1. Init => Service!Init
    <2>1. Init => Tables = [x \in Resource |-> NoLock]
      BY DEF Init, Tables
    <2> QED BY <2>1 DEF Init, Service!Init, Service!NoLock, NoLock
  <1>2. ArraysSound /\ ArraysSound' /\ [Next]_vars => [Service!Next]_<<Tables, call, reply /\ ~err>>
    BY ServiceStep
  <1>3. Spec => []ArraysSound
    BY ArraysStaySound
  <1> QED BY <1>1, <1>2, <1>3, PTL DEF Spec, ImplementsLockService, Service!Spec

-----------------------------------------------------------------------------
(* The server of performance/ implements the lock service as well. *)

\* A key has a write lock or at least one read lock.
CountsSound == \A x \in DOMAIN counts : x \in Resource /\ (counts[x] = -1 \/ counts[x] \in Nat \ {0})

\* The table of a count, and the count of a name, zero without a key.
CountTable(n) ==
    [writer |-> IF n = -1 THEN OneUid ELSE NoUid,
     readers |-> [u \in Uid |-> IF u = OneUid /\ n # -1 THEN n ELSE 0]]
CountAt(x) == IF x \in DOMAIN counts THEN counts[x] ELSE 0

\* CountingServer's Tables is made of these, before a step and after it.
LEMMA CountTables ==
    /\ Counting!Tables = [x \in Resource |-> CountTable(CountAt(x))]
    /\ Counting!Tables' = [x \in Resource |-> CountTable(CountAt(x)')]
  BY DEF Counting!Tables, Counting!WriteLock, CountTable, CountAt

\* The count of every name after a write to the map.
LEMMA CountPut ==
    ASSUME NEW x, NEW n, counts' = Counting!Put(x, n)
    PROVE  /\ DOMAIN counts' = DOMAIN counts \cup {x}
           /\ CountAt(x)' = n /\ \A y : y # x => CountAt(y)' = CountAt(y)
  <1>1. /\ DOMAIN counts' = DOMAIN counts \cup {x}
        /\ \A y \in DOMAIN counts' : counts'[y] = IF y = x THEN n ELSE counts[y]
    BY DEF Counting!Put
  <1> QED BY <1>1 DEF CountAt

\* After delete(lockMap, x) the count of x is zero.
LEMMA CountDelete ==
    ASSUME NEW x, counts' = Counting!Delete(x)
    PROVE  /\ DOMAIN counts' = DOMAIN counts \ {x}
           /\ CountAt(x)' = 0 /\ \A y : y # x => CountAt(y)' = CountAt(y)
  <1>1. DOMAIN counts' = DOMAIN counts \ {x} /\ \A y \in DOMAIN counts' : counts'[y] = counts[y]
    BY DEF Counting!Delete
  <1> QED BY <1>1 DEF CountAt

\* A name without a key counts zero, and no other name does.
LEMMA CountFacts ==
    ASSUME CountsSound, NEW x
    PROVE  /\ CountAt(x) = -1 \/ CountAt(x) \in Nat
           /\ x \in DOMAIN counts <=> CountAt(x) # 0
           /\ x \in DOMAIN counts => counts[x] = CountAt(x)
  BY DEF CountsSound, CountAt

\* A handler that leaves the count m for name x and nothing else.
Moves(x, m) ==
    /\ DOMAIN counts' \in SUBSET (DOMAIN counts \cup {x})
    /\ x \in DOMAIN counts' => m # 0
    /\ CountAt(x)' = m
    /\ \A y : y # x => CountAt(y)' = CountAt(y)

\* Such a handler keeps the counts sound.
LEMMA MovesSound ==
    ASSUME CountsSound, NEW x \in Resource, NEW m, m = -1 \/ m \in Nat, Moves(x, m)
    PROVE  CountsSound'
  <1>1. ASSUME NEW y \in DOMAIN counts'
        PROVE  y \in Resource /\ (counts'[y] = -1 \/ counts'[y] \in Nat \ {0})
    <2>1. CountAt(y)' = counts'[y]
      BY DEF CountAt
    <2>2. CASE y = x
      BY <2>1, <2>2 DEF Moves
    <2>3. CASE y # x
      <3>1. y \in DOMAIN counts /\ CountAt(y)' = CountAt(y)
        BY <2>3 DEF Moves
      <3>2. CountAt(y) = counts[y]
        BY <3>1 DEF CountAt
      <3> QED BY <2>1, <3>1, <3>2 DEF CountsSound
    <2> QED BY <2>2, <2>3
  <1> QED BY <1>1 DEF CountsSound

\* The three ways to write to the map.
LEMMA MovesPut ==
    ASSUME NEW x, NEW n, n # 0, counts' = Counting!Put(x, n)
    PROVE  Moves(x, n)
  BY CountPut DEF Moves

\* The key goes.
LEMMA MovesDelete ==
    ASSUME NEW x, counts' = Counting!Delete(x)
    PROVE  Moves(x, 0)
  BY CountDelete DEF Moves

\* Nothing is written.
LEMMA MovesNot ==
    ASSUME CountsSound, NEW x, counts' = counts
    PROVE  Moves(x, CountAt(x))
  <1>1. x \in DOMAIN counts => CountAt(x) # 0
    BY CountFacts
  <1> QED BY <1>1 DEF Moves, CountAt

\* What the handlers do to the count of their name: Lock needs a name without a key.
LEMMA CountLock ==
    ASSUME CountsSound, NEW x \in Resource, Counting!Lock(x)
    PROVE  /\ Moves(x, IF CountAt(x) = 0 THEN -1 ELSE CountAt(x))
           /\ countReply' = (CountAt(x) = 0) /\ countErr' = FALSE
  <1>1. CASE x \notin DOMAIN counts
    <2>1. counts' = Counting!Put(x, -1) /\ countReply' = TRUE /\ countErr' = FALSE
      BY <1>1 DEF Counting!Lock, Counting!WriteLock
    <2>2. CountAt(x) = 0
      BY <1>1 DEF CountAt
    <2>3. Moves(x, -1)
      BY <2>1, MovesPut
    <2> QED BY <2>1, <2>2, <2>3
  <1>2. CASE x \in DOMAIN counts
    <2>1. counts' = counts /\ countReply' = FALSE /\ countErr' = FALSE
      BY <1>2 DEF Counting!Lock
    <2>2. CountAt(x) # 0
      BY <1>2, CountFacts
    <2>3. Moves(x, CountAt(x))
      BY <2>1, MovesNot
    <2> QED BY <2>1, <2>2, <2>3
  <1> QED BY <1>1, <1>2

\* RLock counts one more unless the name is write locked.
LEMMA CountRLock ==
    ASSUME CountsSound, NEW x \in Resource, Counting!RLock(x)
    PROVE  /\ Moves(x, IF CountAt(x) = -1 THEN -1 ELSE CountAt(x) + 1)
           /\ countReply' = (CountAt(x) # -1) /\ countErr' = FALSE
  <1>0. (CountAt(x) = -1 \/ CountAt(x) \in Nat) /\ (x \in DOMAIN counts => counts[x] = CountAt(x) /\ CountAt(x) # 0)
    BY CountFacts
  <1>1. CASE x \notin DOMAIN counts
    <2>1. counts' = Counting!Put(x, 1) /\ countReply' = TRUE /\ countErr' = FALSE
      BY <1>1 DEF Counting!RLock, Counting!ReadLock
    <2>2. CountAt(x) = 0
      BY <1>1 DEF CountAt
    <2>3. Moves(x, 1)
      BY <2>1, MovesPut
    <2>4. CountAt(x) + 1 = 1 /\ CountAt(x) # -1
      BY <2>2
    <2> QED BY <2>1, <2>3, <2>4
  <1>2. CASE x \in DOMAIN counts /\ counts[x] # -1
    <2>1. counts' = Counting!Put(x, counts[x] + 1) /\ countReply' = TRUE /\ countErr' = FALSE
      BY <1>2 DEF Counting!RLock, Counting!ReadLock, Counting!WriteLock
    <2>2. CountAt(x) \in Nat /\ counts[x] = CountAt(x) /\ CountAt(x) # -1
      BY <1>0, <1>2
    <2>3. counts[x] + 1 # 0
      BY <2>2
    <2>4. Moves(x, counts[x] + 1)
      BY <2>1, <2>3, MovesPut
    <2> QED BY <2>1, <2>2, <2>4
  <1>3. CASE x \in DOMAIN counts /\ counts[x] = -1
    <2>1. counts' = counts /\ countReply' = FALSE /\ countErr' = FALSE
      BY <1>3 DEF Counting!RLock, Counting!WriteLock
    <2>2. CountAt(x) = -1
      BY <1>3 DEF CountAt
    <2>3. Moves(x, CountAt(x))
      BY <2>1, MovesNot
    <2> QED BY <2>1, <2>2, <2>3
  <1> QED BY <1>1, <1>2, <1>3

\* Unlock frees a name that is write locked.
LEMMA CountUnlock ==
    ASSUME CountsSound, NEW x \in Resource, Counting!Unlock(x)
    PROVE  /\ Moves(x, IF CountAt(x) = -1 THEN 0 ELSE CountAt(x))
           /\ countReply' = (CountAt(x) = -1) /\ countErr' = (CountAt(x) # -1)
  <1>1. CASE x \in DOMAIN counts /\ counts[x] = -1
    <2>1. counts' = Counting!Delete(x) /\ countReply' = TRUE /\ countErr' = FALSE
      BY <1>1 DEF Counting!Unlock, Counting!Release, Counting!WriteLock
    <2>2. CountAt(x) = -1
      BY <1>1 DEF CountAt
    <2>3. Moves(x, 0)
      BY <2>1, MovesDelete
    <2> QED BY <2>1, <2>2, <2>3
  <1>2. CASE ~(x \in DOMAIN counts /\ counts[x] = -1)
    <2>1. counts' = counts /\ countReply' = FALSE /\ countErr' = TRUE
      BY <1>2 DEF Counting!Unlock, Counting!Release, Counting!WriteLock
    <2>2. CountAt(x) # -1 /\ (x \in DOMAIN counts => CountAt(x) # 0)
      BY <1>2, CountFacts DEF CountAt
    <2>3. Moves(x, CountAt(x))
      BY <2>1, MovesNot
    <2> QED BY <2>1, <2>2, <2>3
  <1> QED BY <1>1, <1>2

\* RUnlock counts one less, down to no key.
LEMMA CountRUnlock ==
    ASSUME CountsSound, NEW x \in Resource, Counting!RUnlock(x)
    PROVE  LET may == CountAt(x) # -1 /\ CountAt(x) # 0
           IN  /\ Moves(x, IF may THEN CountAt(x) - 1 ELSE CountAt(x))
               /\ countReply' = may /\ countErr' = ~may
  <1>0. /\ CountAt(x) = -1 \/ CountAt(x) \in Nat
        /\ x \in DOMAIN counts => counts[x] = CountAt(x) /\ CountAt(x) # 0
        /\ x \notin DOMAIN counts => CountAt(x) = 0
    BY CountFacts
  <1>1. CASE x \in DOMAIN counts /\ counts[x] # -1
    <2>1. CountAt(x) \in Nat /\ CountAt(x) # 0 /\ counts[x] = CountAt(x) /\ CountAt(x) # -1
      BY <1>0, <1>1
    <2>2. Counting!Release(TRUE, IF counts[x] > 1 THEN Counting!Put(x, counts[x] - 1) ELSE Counting!Delete(x))
      BY <1>1 DEF Counting!RUnlock, Counting!WriteLock, Counting!ReadLock, Counting!Release
    <2>3. /\ counts' = IF counts[x] > 1 THEN Counting!Put(x, counts[x] - 1) ELSE Counting!Delete(x)
          /\ countReply' = TRUE /\ countErr' = FALSE
      BY <2>2 DEF Counting!Release
    <2>4. CASE counts[x] > 1
      <3>1. counts' = Counting!Put(x, counts[x] - 1) /\ counts[x] - 1 # 0
        BY <2>1, <2>3, <2>4
      <3>2. Moves(x, counts[x] - 1)
        BY <3>1, MovesPut
      <3> QED BY <2>1, <2>3, <3>2
    <2>5. CASE ~(counts[x] > 1)
      <3>1. counts' = Counting!Delete(x)
        BY <2>3, <2>5
      <3>2. Moves(x, 0)
        BY <3>1, MovesDelete
      <3>3. CountAt(x) - 1 = 0
        BY <2>1, <2>5
      <3> QED BY <2>1, <2>3, <3>2, <3>3
    <2> QED BY <2>4, <2>5
  <1>2. CASE ~(x \in DOMAIN counts /\ counts[x] # -1)
    <2>1. counts' = counts /\ countReply' = FALSE /\ countErr' = TRUE
      BY <1>2 DEF Counting!RUnlock, Counting!Release, Counting!WriteLock
    <2>2. (CountAt(x) = -1 \/ CountAt(x) = 0) /\ (x \in DOMAIN counts => CountAt(x) # 0)
      BY <1>0, <1>2
    <2>3. Moves(x, CountAt(x))
      BY <2>1, MovesNot
    <2> QED BY <2>1, <2>2, <2>3
  <1> QED BY <1>1, <1>2

\* The table of one name follows its count.
LEMMA OneCount ==
    ASSUME NEW x \in Resource, NEW m, Moves(x, m)
    PROVE  /\ Counting!Tables' = [Counting!Tables EXCEPT ![x] = CountTable(m)]
           /\ Counting!Tables[x] = CountTable(CountAt(x)) /\ Counting!Tables'[x] = CountTable(m)
  <1>1. CountAt(x)' = m /\ \A y \in Resource : y # x => CountAt(y)' = CountAt(y)
    BY DEF Moves
  <1>2. /\ Counting!Tables = [y \in Resource |-> CountTable(CountAt(y))]
        /\ Counting!Tables' = [y \in Resource |-> CountTable(CountAt(y)')]
    BY CountTables
  <1> QED BY <1>1, <1>2

\* What Append makes of any sequence.
LEMMA AppendFacts ==
    ASSUME NEW S, NEW a \in Seq(S), NEW e \in S, NEW c, c = Append(a, e)
    PROVE  /\ c \in Seq(S) /\ Len(c) = Len(a) + 1 /\ c[Len(a) + 1] = e
           /\ \A i \in 1..Len(a) : c[i] = a[i]
  BY AppendProperties

\* A third argument at the end of two.
LEMMA AppendThird ==
    ASSUME NEW S, NEW a \in Seq(S), NEW b \in Seq(S), NEW e \in S,
           Len(a) = 2, Len(b) = 3, b[1] = a[1], b[2] = a[2], b[3] = e
    PROVE  Append(a, e) = b
  <1> DEFINE c == Append(a, e)
  <1>0. c = Append(a, e)
    OBVIOUS
  <1> HIDE DEF c
  <1>1. /\ c \in Seq(S) /\ Len(c) = Len(a) + 1 /\ c[Len(a) + 1] = e
        /\ \A i \in 1..Len(a) : c[i] = a[i]
    BY <1>0, AppendFacts
  <1>2. Len(c) = 3 /\ c[3] = e
    BY <1>1
  <1>3. ASSUME NEW i \in 1..Len(c) PROVE c[i] = b[i]
    <2>1. i = 1 \/ i = 2 \/ i = 3
      BY <1>2
    <2>2. 1 \in 1..Len(a) /\ 2 \in 1..Len(a)
      OBVIOUS
    <2> QED BY <1>1, <1>2, <2>1, <2>2
  <1>4. c = b
    BY <1>1, <1>2, <1>3, SeqEqual
  <1> QED BY <1>4 DEF c

\* The request that the service sees: the uid of every client is OneUid.
LEMMA Asked ==
    ASSUME NEW name, NEW x, countCall' = <<name, x>>
    PROVE  (IF countCall' = <<"start">> THEN countCall' ELSE Append(countCall', OneUid)) = <<name, x, OneUid>>
  <1>1. <<name, x>> # <<"start">>
    <2>1. Len(<<name, x>>) = 2 /\ Len(<<"start">>) = 1
      OBVIOUS
    <2> QED BY <2>1
  <1>2. Append(<<name, x>>, OneUid) = <<name, x, OneUid>>
    <2> DEFINE S == {name, x, OneUid}
               a == <<name, x>>
               b == <<name, x, OneUid>>
    <2>1. a \in Seq(S) /\ Len(a) = 2 /\ a[1] = name /\ a[2] = x /\ OneUid \in S
      OBVIOUS
    <2>2. b \in Seq(S) /\ Len(b) = 3 /\ b[1] = name /\ b[2] = x /\ b[3] = OneUid
      OBVIOUS
    <2> HIDE DEF S, a, b
    <2>3. Append(a, OneUid) = b
      BY <2>1, <2>2, AppendThird
    <2> QED BY <2>3 DEF a, b
  <1> QED BY <1>1, <1>2

\* The tables of the counts that occur.
LEMMA CountTableFacts ==
    /\ CountTable(0) = NoLock
    /\ CountTable(-1) = [NoLock EXCEPT !.writer = OneUid]
    /\ CountTable(-1).writer = OneUid
    /\ [CountTable(-1) EXCEPT !.writer = NoUid] = NoLock
    /\ \A n \in Nat :
          /\ CountTable(n).writer = NoUid /\ CountTable(n).readers[OneUid] = n
          /\ CountTable(n + 1) = [CountTable(n) EXCEPT !.readers[OneUid] = @ + 1]
          /\ n # 0 => CountTable(n - 1) = [CountTable(n) EXCEPT !.readers[OneUid] = @ - 1]
  <1>1. CountTable(0) = NoLock
    BY DEF CountTable, NoLock
  <1>2. CountTable(-1) = [writer |-> OneUid, readers |-> [u \in Uid |-> 0]]
    BY DEF CountTable
  <1>3. CountTable(-1).writer = OneUid /\ CountTable(-1) = [NoLock EXCEPT !.writer = OneUid]
        /\ [CountTable(-1) EXCEPT !.writer = NoUid] = NoLock
    BY <1>2 DEF NoLock
  <1>4. ASSUME NEW n \in Nat
        PROVE  /\ CountTable(n) = [writer |-> NoUid, readers |-> [u \in Uid |-> IF u = OneUid THEN n ELSE 0]]
               /\ CountTable(n + 1) = [writer |-> NoUid, readers |-> [u \in Uid |-> IF u = OneUid THEN n + 1 ELSE 0]]
               /\ n # 0 => CountTable(n - 1) = [writer |-> NoUid, readers |-> [u \in Uid |-> IF u = OneUid THEN n - 1 ELSE 0]]
    BY DEF CountTable
  <1>5. ASSUME NEW n \in Nat
        PROVE  /\ CountTable(n).writer = NoUid /\ CountTable(n).readers[OneUid] = n
               /\ CountTable(n + 1) = [CountTable(n) EXCEPT !.readers[OneUid] = @ + 1]
               /\ n # 0 => CountTable(n - 1) = [CountTable(n) EXCEPT !.readers[OneUid] = @ - 1]
    <2> DEFINE R(m) == [u \in Uid |-> IF u = OneUid THEN m ELSE 0]
    <2>1. R(n)[OneUid] = n
      BY OneUidAssumption
    <2>2. R(n + 1) = [R(n) EXCEPT ![OneUid] = @ + 1] /\ (n # 0 => R(n - 1) = [R(n) EXCEPT ![OneUid] = @ - 1])
      BY OneUidAssumption
    <2>3. /\ CountTable(n) = [writer |-> NoUid, readers |-> R(n)]
          /\ CountTable(n + 1) = [writer |-> NoUid, readers |-> R(n + 1)]
          /\ n # 0 => CountTable(n - 1) = [writer |-> NoUid, readers |-> R(n - 1)]
      BY <1>4
    <2> HIDE DEF R
    <2>4. CountTable(n).writer = NoUid /\ CountTable(n).readers = R(n)
      BY <2>3
    <2>5. [CountTable(n) EXCEPT !.readers[OneUid] = @ + 1] = [writer |-> NoUid, readers |-> [R(n) EXCEPT ![OneUid] = @ + 1]]
      BY <2>3
    <2>6. [CountTable(n) EXCEPT !.readers[OneUid] = @ - 1] = [writer |-> NoUid, readers |-> [R(n) EXCEPT ![OneUid] = @ - 1]]
      BY <2>3
    <2>7. CountTable(n + 1) = [CountTable(n) EXCEPT !.readers[OneUid] = @ + 1]
      BY <2>2, <2>3, <2>5
    <2>8. n # 0 => CountTable(n - 1) = [CountTable(n) EXCEPT !.readers[OneUid] = @ - 1]
      BY <2>2, <2>3, <2>6
    <2> QED BY <2>1, <2>4, <2>7, <2>8
  <1> QED BY <1>1, <1>3, <1>5

\* A step with the answer and the table of an Acquire is one.
LEMMA CountAcquires ==
    ASSUME NEW x \in Resource, NEW k \in BOOLEAN, NEW m, Moves(x, m),
           countCall' = <<IF k THEN "RLock" ELSE "Lock", x>>,
           (countReply' /\ ~countErr') = Counting!Service!Grants(CountTable(CountAt(x)), k),
           CountTable(m) = Counting!Service!AfterLock(CountTable(CountAt(x)), OneUid, k)
    PROVE  Counting!Service!Acquire(x, OneUid, k)
  <1>1. Counting!Tables' = [Counting!Tables EXCEPT ![x] = CountTable(m)] /\ Counting!Tables[x] = CountTable(CountAt(x))
    BY OneCount
  <1>2. (IF countCall' = <<"start">> THEN countCall' ELSE Append(countCall', OneUid))
           = <<IF k THEN "RLock" ELSE "Lock", x, OneUid>>
    BY Asked
  <1>3. Counting!Tables' = [Counting!Tables EXCEPT ![x] = Counting!Service!AfterLock(@, OneUid, k)]
    BY <1>1
  <1>4. (countReply' /\ ~countErr') = Counting!Service!Grants(Counting!Tables[x], k)
    BY <1>1
  <1> QED BY <1>2, <1>3, <1>4 DEF Counting!Service!Acquire

\* The same for the releases.
LEMMA CountReleases ==
    ASSUME NEW x \in Resource, NEW k \in BOOLEAN, NEW m, Moves(x, m),
           countCall' = <<IF k THEN "RUnlock" ELSE "Unlock", x>>,
           (countReply' /\ ~countErr') = (CountTable(m) # CountTable(CountAt(x))),
           CountTable(m) = Counting!Service!AfterUnlock(CountTable(CountAt(x)), OneUid, k)
    PROVE  Counting!Service!Release(x, OneUid, k)
  <1>1. /\ Counting!Tables' = [Counting!Tables EXCEPT ![x] = CountTable(m)]
        /\ Counting!Tables[x] = CountTable(CountAt(x)) /\ Counting!Tables'[x] = CountTable(m)
    BY OneCount
  <1>2. (IF countCall' = <<"start">> THEN countCall' ELSE Append(countCall', OneUid))
           = <<IF k THEN "RUnlock" ELSE "Unlock", x, OneUid>>
    BY Asked
  <1>3. Counting!Tables' = [Counting!Tables EXCEPT ![x] = Counting!Service!AfterUnlock(@, OneUid, k)]
    BY <1>1
  <1>4. Counting!Tables' = Counting!Tables <=> CountTable(m) = CountTable(CountAt(x))
    <2>1. Counting!Tables = [y \in Resource |-> CountTable(CountAt(y))]
      BY CountTables
    <2> QED BY <1>1, <2>1
  <1>5. (countReply' /\ ~countErr') = (Counting!Tables' # Counting!Tables)
    BY <1>4
  <1> QED BY <1>2, <1>3, <1>5 DEF Counting!Service!Release

\* Lock is an Acquire of a write lock.
LEMMA CountLockServes ==
    ASSUME CountsSound, NEW x \in Resource, Counting!Lock(x)
    PROVE  Counting!Service!Acquire(x, OneUid, FALSE)
  <1> DEFINE n == CountAt(x)
             m == IF n = 0 THEN -1 ELSE n
  <1>1. Moves(x, m) /\ countReply' = (n = 0) /\ countErr' = FALSE
    BY CountLock
  <1>2. countCall' = <<IF FALSE THEN "RLock" ELSE "Lock", x>>
    BY DEF Counting!Lock
  <1>3. n = -1 \/ n \in Nat
    BY CountFacts
  <1> HIDE DEF n
  <1>4. CASE n = 0
    <2>1. Counting!Service!Grants(NoLock, FALSE) = TRUE
      BY DEF Counting!Service!Grants, Counting!Service!Vacant, NoLock
    <2>2. Counting!Service!AfterLock(NoLock, OneUid, FALSE) = [NoLock EXCEPT !.writer = OneUid]
      BY <2>1 DEF Counting!Service!AfterLock
    <2>3. CountTable(n) = NoLock /\ CountTable(m) = [NoLock EXCEPT !.writer = OneUid]
      BY <1>4, CountTableFacts
    <2>4. (countReply' /\ ~countErr') = TRUE
      BY <1>1, <1>4
    <2> HIDE DEF m
    <2> QED BY <1>1, <1>2, <2>1, <2>2, <2>3, <2>4, CountAcquires DEF n
  <1>5. CASE n # 0
    <2>1. Counting!Service!Grants(CountTable(n), FALSE) = FALSE
      <3>1. CASE n = -1
        <4>1. CountTable(n).writer = OneUid
          BY <3>1, CountTableFacts
        <4> QED BY <4>1, OneUidAssumption, NoUidAssumption DEF Counting!Service!Grants, Counting!Service!Vacant
      <3>2. CASE n \in Nat
        <4>1. CountTable(n).readers[OneUid] = n
          BY <3>2, CountTableFacts
        <4> QED BY <1>5, <4>1, OneUidAssumption DEF Counting!Service!Grants, Counting!Service!Vacant
      <3> QED BY <1>3, <3>1, <3>2
    <2>2. Counting!Service!AfterLock(CountTable(n), OneUid, FALSE) = CountTable(n)
      BY <2>1 DEF Counting!Service!AfterLock
    <2>3. (countReply' /\ ~countErr') = FALSE /\ Moves(x, n)
      BY <1>1, <1>5
    <2> QED BY <1>2, <2>1, <2>2, <2>3, CountAcquires DEF n
  <1> QED BY <1>4, <1>5

\* RLock is an Acquire of a read lock.
LEMMA CountRLockServes ==
    ASSUME CountsSound, NEW x \in Resource, Counting!RLock(x)
    PROVE  Counting!Service!Acquire(x, OneUid, TRUE)
  <1> DEFINE n == CountAt(x)
             m == IF n = -1 THEN -1 ELSE n + 1
  <1>1. Moves(x, m) /\ countReply' = (n # -1) /\ countErr' = FALSE
    BY CountRLock
  <1>2. countCall' = <<IF TRUE THEN "RLock" ELSE "Lock", x>>
    BY DEF Counting!RLock
  <1>3. n = -1 \/ n \in Nat
    BY CountFacts
  <1> HIDE DEF n
  <1>4. CASE n \in Nat
    <2>1. CountTable(n).writer = NoUid /\ CountTable(n + 1) = [CountTable(n) EXCEPT !.readers[OneUid] = @ + 1]
      BY <1>4, CountTableFacts
    <2>2. Counting!Service!Grants(CountTable(n), TRUE) = TRUE
      BY <2>1 DEF Counting!Service!Grants
    <2>3. Counting!Service!AfterLock(CountTable(n), OneUid, TRUE) = CountTable(n + 1)
      BY <2>1, <2>2 DEF Counting!Service!AfterLock
    <2>4. (countReply' /\ ~countErr') = TRUE /\ m = n + 1
      <3>1. n # -1
        BY <1>4
      <3>2. (countReply' /\ ~countErr') = TRUE
        BY <1>1, <1>4, <3>1
      <3> QED BY <1>4, <3>1, <3>2
    <2> HIDE DEF m
    <2> QED BY <1>1, <1>2, <2>2, <2>3, <2>4, CountAcquires DEF n
  <1>5. CASE n = -1
    <2>1. CountTable(n).writer = OneUid
      BY <1>5, CountTableFacts
    <2>2. Counting!Service!Grants(CountTable(n), TRUE) = FALSE
      BY <2>1, OneUidAssumption, NoUidAssumption DEF Counting!Service!Grants
    <2>3. Counting!Service!AfterLock(CountTable(n), OneUid, TRUE) = CountTable(n)
      BY <2>2 DEF Counting!Service!AfterLock
    <2>4. (countReply' /\ ~countErr') = FALSE /\ m = n
      BY <1>1, <1>5
    <2> HIDE DEF m
    <2> QED BY <1>1, <1>2, <2>2, <2>3, <2>4, CountAcquires DEF n
  <1> QED BY <1>3, <1>4, <1>5

\* Unlock is a Release of a write lock.
LEMMA CountUnlockServes ==
    ASSUME CountsSound, NEW x \in Resource, Counting!Unlock(x)
    PROVE  Counting!Service!Release(x, OneUid, FALSE)
  <1> DEFINE n == CountAt(x)
             m == IF n = -1 THEN 0 ELSE n
  <1>1. Moves(x, m) /\ countReply' = (n = -1) /\ countErr' = (n # -1)
    BY CountUnlock
  <1>2. countCall' = <<IF FALSE THEN "RUnlock" ELSE "Unlock", x>>
    BY DEF Counting!Unlock
  <1>3. n = -1 \/ n \in Nat
    BY CountFacts
  <1> HIDE DEF n
  <1>4. CASE n = -1
    <2>1. CountTable(n).writer = OneUid /\ [CountTable(n) EXCEPT !.writer = NoUid] = NoLock /\ CountTable(0) = NoLock
      BY <1>4, CountTableFacts
    <2>2. Counting!Service!AfterUnlock(CountTable(n), OneUid, FALSE) = CountTable(0)
      BY <2>1 DEF Counting!Service!AfterUnlock
    <2>3. CountTable(0) # CountTable(n)
      BY <2>1, OneUidAssumption, NoUidAssumption DEF NoLock
    <2>4. (countReply' /\ ~countErr') = TRUE /\ m = 0
      BY <1>1, <1>4
    <2> HIDE DEF m
    <2> QED BY <1>1, <1>2, <2>2, <2>3, <2>4, CountReleases DEF n
  <1>5. CASE n \in Nat
    <2>1. CountTable(n).writer = NoUid
      BY <1>5, CountTableFacts
    <2>2. Counting!Service!AfterUnlock(CountTable(n), OneUid, FALSE) = CountTable(n)
      BY <2>1, OneUidAssumption, NoUidAssumption DEF Counting!Service!AfterUnlock
    <2>3. (countReply' /\ ~countErr') = FALSE /\ m = n
      <3>1. n # -1
        BY <1>5
      <3>2. (countReply' /\ ~countErr') = FALSE
        BY <1>1, <1>5, <3>1
      <3> QED BY <1>5, <3>1, <3>2
    <2> HIDE DEF m
    <2> QED BY <1>1, <1>2, <2>2, <2>3, CountReleases DEF n
  <1> QED BY <1>3, <1>4, <1>5

\* RUnlock is a Release of a read lock.
LEMMA CountRUnlockServes ==
    ASSUME CountsSound, NEW x \in Resource, Counting!RUnlock(x)
    PROVE  Counting!Service!Release(x, OneUid, TRUE)
  <1> DEFINE n == CountAt(x)
             may == n # -1 /\ n # 0
             m == IF may THEN n - 1 ELSE n
  <1>1. Moves(x, m) /\ countReply' = may /\ countErr' = ~may
    BY CountRUnlock
  <1>2. countCall' = <<IF TRUE THEN "RUnlock" ELSE "Unlock", x>>
    BY DEF Counting!RUnlock
  <1>3. n = -1 \/ n \in Nat
    BY CountFacts
  <1> HIDE DEF n
  <1>4. CASE n \in Nat /\ n # 0
    <2>1. /\ CountTable(n).writer = NoUid /\ CountTable(n).readers[OneUid] = n
          /\ CountTable(n - 1) = [CountTable(n) EXCEPT !.readers[OneUid] = @ - 1]
      BY <1>4, CountTableFacts
    <2>2. Counting!Service!AfterUnlock(CountTable(n), OneUid, TRUE) = CountTable(n - 1)
      <3>1. CountTable(n).readers[OneUid] > 0
        BY <1>4, <2>1
      <3> QED BY <2>1, <3>1 DEF Counting!Service!AfterUnlock
    <2>3. CountTable(n - 1) # CountTable(n)
      <3>1. n - 1 \in Nat /\ n - 1 # n
        BY <1>4
      <3>2. CountTable(n - 1).readers[OneUid] = n - 1
        BY <3>1, CountTableFacts
      <3> QED BY <2>1, <3>1, <3>2
    <2>4. (countReply' /\ ~countErr') = TRUE /\ m = n - 1
      <3>1. n # -1
        BY <1>4
      <3>2. (countReply' /\ ~countErr') = TRUE
        BY <1>1, <1>4, <3>1
      <3> QED BY <1>4, <3>1, <3>2
    <2> HIDE DEF m, may
    <2> QED BY <1>1, <1>2, <2>2, <2>3, <2>4, CountReleases DEF n
  <1>5. CASE n = -1 \/ n = 0
    <2>1. Counting!Service!AfterUnlock(CountTable(n), OneUid, TRUE) = CountTable(n)
      <3>1. CASE n = -1
        <4>1. CountTable(n).writer = OneUid
          BY <3>1, CountTableFacts
        <4> QED BY <4>1, OneUidAssumption, NoUidAssumption DEF Counting!Service!AfterUnlock
      <3>2. CASE n = 0
        <4>1. CountTable(n).readers[OneUid] = 0
          BY <3>2, CountTableFacts
        <4>2. ~(CountTable(n).readers[OneUid] > 0)
          BY <4>1
        <4> QED BY <4>2 DEF Counting!Service!AfterUnlock
      <3> QED BY <1>5, <3>1, <3>2
    <2>2. (countReply' /\ ~countErr') = FALSE /\ m = n
      BY <1>1, <1>5
    <2> HIDE DEF m, may
    <2> QED BY <1>1, <1>2, <2>1, <2>2, CountReleases DEF n
  <1> QED BY <1>3, <1>4, <1>5

\* The counts stay sound, and every step is one of the service, or none.
LEMMA CountsStep ==
    ASSUME CountsSound, [BothNext]_bothVars
    PROVE  /\ CountsSound'
           /\ [Counting!Service!Next]_<<Counting!Tables,
                 IF countCall = <<"start">> THEN countCall ELSE Append(countCall, OneUid), countReply /\ ~countErr>>
  <1>1. ASSUME NEW x \in Resource, Counting!Lock(x) \/ Counting!RLock(x) \/ Counting!Unlock(x) \/ Counting!RUnlock(x)
        PROVE  CountsSound' /\ Counting!Service!Next
    <2>1. \E k \in BOOLEAN : Counting!Service!Acquire(x, OneUid, k) \/ Counting!Service!Release(x, OneUid, k)
      BY <1>1, CountLockServes, CountRLockServes, CountUnlockServes, CountRUnlockServes
    <2>2. Counting!Service!Next
      BY <2>1, OneUidAssumption DEF Counting!Service!Next
    <2>3. CountAt(x) = -1 \/ CountAt(x) \in Nat
      BY CountFacts
    <2>4. \E m : (m = -1 \/ m \in Nat) /\ Moves(x, m)
      <3>1. CASE Counting!Lock(x)
        <4>1. Moves(x, IF CountAt(x) = 0 THEN -1 ELSE CountAt(x))
          BY <3>1, CountLock
        <4> QED BY <2>3, <4>1
      <3>2. CASE Counting!RLock(x)
        <4>1. Moves(x, IF CountAt(x) = -1 THEN -1 ELSE CountAt(x) + 1)
          BY <3>2, CountRLock
        <4> QED BY <2>3, <4>1
      <3>3. CASE Counting!Unlock(x)
        <4>1. Moves(x, IF CountAt(x) = -1 THEN 0 ELSE CountAt(x))
          BY <3>3, CountUnlock
        <4> QED BY <2>3, <4>1
      <3>4. CASE Counting!RUnlock(x)
        <4>1. Moves(x, IF CountAt(x) # -1 /\ CountAt(x) # 0 THEN CountAt(x) - 1 ELSE CountAt(x))
          BY <3>4, CountRUnlock
        <4> QED BY <2>3, <4>1
      <3> QED BY <1>1, <3>1, <3>2, <3>3, <3>4
    <2>5. CountsSound'
      BY <2>4, MovesSound
    <2> QED BY <2>2, <2>5
  <1>2. CASE Counting!Restart
    <2>1. DOMAIN counts' = {} /\ countCall' = <<"start">> /\ countReply' = FALSE /\ countErr' = FALSE
      BY <1>2 DEF Counting!Restart
    <2>2. CountsSound'
      BY <2>1 DEF CountsSound
    <2>3. \A x : CountAt(x)' = 0
      BY <2>1 DEF CountAt
    <2>4. Counting!Tables' = [x \in Resource |-> NoLock]
      BY <2>3, CountTables, CountTableFacts
    <2>5. Counting!Service!Restart
      BY <2>1, <2>4 DEF Counting!Service!Restart, Counting!Service!NoLock, NoLock
    <2> QED BY <2>2, <2>5 DEF Counting!Service!Next
  <1>3. CASE UNCHANGED bothVars
    <2>1. counts' = counts /\ countCall' = countCall /\ countReply' = countReply /\ countErr' = countErr
      BY <1>3 DEF bothVars
    <2>2. CountsSound' /\ Counting!Tables' = Counting!Tables
      BY <2>1 DEF CountsSound, Counting!Tables
    <2> QED BY <2>1, <2>2
  <1> QED BY <1>1, <1>2, <1>3 DEF BothNext

(***************************************************************************)
(* The handlers of the performance server implement the lock service for   *)
(* clients that all have one uid: for every count, a write lock excludes   *)
(* the read locks, and the last RUnlock is the one that frees the name.    *)
(***************************************************************************)
THEOREM CountingServiceImplemented == BothSpec => CountingImplementsLockService
  <1>1. BothInit => CountsSound /\ Counting!Service!Init
    <2> SUFFICES ASSUME BothInit PROVE CountsSound /\ Counting!Service!Init
      OBVIOUS
    <2>1. DOMAIN counts = {} /\ countCall = <<"start">> /\ countReply = FALSE /\ countErr = FALSE
      BY DEF BothInit, Counting!Init
    <2>2. CountsSound
      BY <2>1 DEF CountsSound
    <2>3. \A x : CountAt(x) = 0
      BY <2>1 DEF CountAt
    <2>4. Counting!Tables = [x \in Resource |-> NoLock]
      BY <2>3, CountTables, CountTableFacts
    <2> QED BY <2>1, <2>2, <2>4 DEF Counting!Service!Init, Counting!Service!NoLock, NoLock
  <1>2. CountsSound /\ [BothNext]_bothVars =>
           /\ CountsSound'
           /\ [Counting!Service!Next]_<<Counting!Tables,
                 IF countCall = <<"start">> THEN countCall ELSE Append(countCall, OneUid), countReply /\ ~countErr>>
    BY CountsStep
  <1> QED BY <1>1, <1>2, PTL DEF BothSpec, CountingImplementsLockService, Counting!Service!Spec
=============================================================================

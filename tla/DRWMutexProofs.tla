--------------------------- MODULE DRWMutexProofs ---------------------------
(***************************************************************************)
(* Proofs about DRWMutex, for every number of nodes, callers, attempts,    *)
(* DRWMutex objects and faults: the invariant IInv is inductive, and it    *)
(* implies the mutual exclusion properties that TLC checks.                *)
(***************************************************************************)
EXTENDS DRWMutex, FiniteSetTheorems, TLAPS

-----------------------------------------------------------------------------
(* Numbers of nodes and of locks. *)

\* The node count fixes the quorums of New as naturals.
LEMMA QuorumNat ==
    /\ dNodeCount \in Nat /\ dquorum \in Nat /\ dquorumReads \in Nat
    /\ CrashMargin \in {1, 2}
    /\ 2 * dquorum - dNodeCount >= CrashMargin
    /\ dquorum + dquorumReads - dNodeCount >= 1
  BY NewAssumption, SMT DEF dquorum, dquorumReads, CrashMargin

\* The servers of restClnts are finitely many, dNodeCount in all.
LEMMA NodeFinite == IsFiniteSet(Node) /\ Cardinality(Node) = dNodeCount
  <1>1. dNodeCount \in Nat /\ dNodeCount >= 1
    BY NewAssumption
  <1>2. IsFiniteSet(1..dNodeCount)
        /\ Cardinality(1..dNodeCount) = IF 1 > dNodeCount THEN 0 ELSE dNodeCount - 1 + 1
    BY <1>1, FS_Interval
  <1> QED
    BY <1>1, <1>2 DEF Node

\* Two sets of nodes overlap in at least as many nodes as their sizes exceed
\* the number of nodes.
LEMMA Overlap ==
    ASSUME NEW A \in SUBSET Node, NEW B \in SUBSET Node
    PROVE  /\ IsFiniteSet(A \cap B)
           /\ Cardinality(A) + Cardinality(B) - dNodeCount <= Cardinality(A \cap B)
  <1>1. IsFiniteSet(A) /\ IsFiniteSet(B) /\ IsFiniteSet(A \cap B)
    BY NodeFinite, FS_Subset, A \cap B \in SUBSET Node
  <1>2. Cardinality(A \cup B) = Cardinality(A) + Cardinality(B) - Cardinality(A \cap B)
    BY <1>1, FS_Union
  <1>3. IsFiniteSet(A \cup B) /\ Cardinality(A \cup B) <= dNodeCount
    BY NodeFinite, FS_Subset, A \cup B \in SUBSET Node
  <1>4. /\ Cardinality(A) \in Nat /\ Cardinality(B) \in Nat
        /\ Cardinality(A \cap B) \in Nat /\ Cardinality(A \cup B) \in Nat
    BY <1>1, <1>3, FS_CardinalityType
  <1> QED
    BY <1>1, <1>2, <1>3, <1>4, QuorumNat

-----------------------------------------------------------------------------
(* The tables of the lock servers. *)

\* The Lock and RLock handlers keep a table a table with at most one writer.
LEMMA LockSound ==
    ASSUME NEW t \in Table, TableSound(t), NEW u \in Uid, NEW k \in BOOLEAN
    PROVE  AfterLock(t, u, k) \in Table /\ TableSound(AfterLock(t, u, k))
  BY NoUidAssumption DEF AfterLock, Grants, Vacant, Table, TableSound

\* So do the Unlock and RUnlock handlers.
LEMMA UnlockSound ==
    ASSUME NEW t \in Table, TableSound(t), NEW u \in Uid, NEW k \in BOOLEAN
    PROVE  AfterUnlock(t, u, k) \in Table /\ TableSound(AfterUnlock(t, u, k))
  BY NoUidAssumption DEF AfterUnlock, Table, TableSound

\* A fresh lock server has an empty table.
LEMMA NoLockSound == NoLock \in Table /\ TableSound(NoLock)
  BY DEF NoLock, Table, TableSound

\* The read locks of uid u among the attempts O.
ReadsOf(O, u) == {r \in O : IsReadLock(r) /\ UidOf(r) = u}

\* Sets of attempts are finite, and so are their read locks.
LEMMA ReadsFinite ==
    ASSUME NEW O \in SUBSET Req, NEW u
    PROVE  IsFiniteSet(ReadsOf(O, u)) /\ Cardinality(ReadsOf(O, u)) \in Nat
  BY ProcAssumption, FS_Subset, FS_CardinalityType DEF ReadsOf

\* Forgetting attempts, as a crash of their client does, breaks no belief.
LEMMA BackedShrink ==
    ASSUME NEW O \in SUBSET Req, NEW P \in SUBSET O, NEW t \in Table, Backed(O, t)
    PROVE  Backed(P, t)
  <1>1. \A r \in P : ~IsReadLock(r) => t.writer = UidOf(r) /\ P = {r}
    BY DEF Backed
  <1>2. ASSUME NEW u \in Uid PROVE Cardinality(ReadsOf(P, u)) <= t.readers[u]
    <2>1. Cardinality(ReadsOf(P, u)) <= Cardinality(ReadsOf(O, u))
      <3>1. IsFiniteSet(ReadsOf(O, u)) /\ ReadsOf(P, u) \in SUBSET ReadsOf(O, u)
        BY ReadsFinite DEF ReadsOf
      <3> QED BY <3>1, FS_Subset
    <2>2. Cardinality(ReadsOf(O, u)) <= t.readers[u]
      BY DEF Backed, ReadsOf
    <2>3. t.readers[u] \in Nat
      BY DEF Table
    <2> QED
      BY <2>1, <2>2, <2>3, ReadsFinite, P \in SUBSET Req
  <1> QED
    BY <1>1, <1>2 DEF Backed, ReadsOf

\* A lock that no attempt knows of (its answer was lost) breaks no belief.
LEMMA BackedGrow ==
    ASSUME NEW O \in SUBSET Req, NEW t \in Table, Backed(O, t),
           NEW u \in Uid, NEW k \in BOOLEAN
    PROVE  Backed(O, AfterLock(t, u, k))
  <1> DEFINE s == AfterLock(t, u, k)
  <1>1. CASE ~Grants(t, k)
    BY <1>1 DEF AfterLock
  <1>2. CASE Grants(t, k) /\ k
    <2>1. s.writer = t.writer /\ \A v \in Uid : s.readers[v] \in Nat /\ t.readers[v] \in Nat /\ t.readers[v] <= s.readers[v]
      BY <1>2 DEF AfterLock, Table
    <2>2. ASSUME NEW v \in Uid PROVE Cardinality(ReadsOf(O, v)) <= s.readers[v]
      <3>1. Cardinality(ReadsOf(O, v)) <= t.readers[v]
        BY DEF Backed, ReadsOf
      <3> QED BY <2>1, <3>1, ReadsFinite
    <2> QED
      BY <2>1, <2>2 DEF Backed, ReadsOf
  <1>3. CASE Grants(t, k) /\ ~k
    <2>1. t.writer = NoUid /\ s.readers = t.readers
      BY <1>3 DEF AfterLock, Grants, Vacant, Table
    <2>2. \A r \in O : IsReadLock(r)
      BY <2>1, NoUidAssumption, ProcAssumption DEF Backed, UidOf
    <2> QED
      BY <2>1, <2>2 DEF Backed
  <1> QED
    BY <1>1, <1>2, <1>3

\* A grant puts exactly the new belief into the table.
LEMMA BackedGrant ==
    ASSUME NEW O \in SUBSET Req, NEW t \in Table, Backed(O, t), TableSound(t),
           NEW r \in Req, r \notin O, Grants(t, IsReadLock(r))
    PROVE  Backed(O \cup {r}, AfterLock(t, UidOf(r), IsReadLock(r)))
  <1> DEFINE s == AfterLock(t, UidOf(r), IsReadLock(r))
             P == O \cup {r}
  <1>0. UidOf(r) \in Uid /\ t.writer = NoUid /\ P \in SUBSET Req
    BY ProcAssumption DEF UidOf, Grants, Vacant
  <1>1. \A q \in O : IsReadLock(q)
    BY <1>0, NoUidAssumption, ProcAssumption DEF Backed, UidOf
  <1>2. CASE IsReadLock(r)
    <2>1. ASSUME NEW u \in Uid PROVE Cardinality(ReadsOf(P, u)) <= s.readers[u]
      <3>1. Cardinality(ReadsOf(O, u)) <= t.readers[u] /\ t.readers[u] \in Nat
        BY DEF Backed, ReadsOf, Table
      <3>2. CASE u = UidOf(r)
        <4>1. ReadsOf(P, u) = ReadsOf(O, u) \cup {r} /\ r \notin ReadsOf(O, u)
          BY <1>2, <3>2 DEF ReadsOf
        <4>2. Cardinality(ReadsOf(P, u)) = Cardinality(ReadsOf(O, u)) + 1
          BY <4>1, ReadsFinite, FS_AddElement
        <4>3. s.readers[u] = t.readers[u] + 1
          BY <1>0, <1>2, <3>2 DEF AfterLock, Table
        <4> QED BY <3>1, <4>2, <4>3, ReadsFinite
      <3>3. CASE u # UidOf(r)
        <4>1. ReadsOf(P, u) = ReadsOf(O, u)
          BY <3>3 DEF ReadsOf
        <4>2. s.readers[u] = t.readers[u]
          BY <1>0, <1>2, <3>3 DEF AfterLock, Table
        <4> QED BY <3>1, <4>1, <4>2
      <3> QED BY <3>2, <3>3
    <2> QED
      BY <1>1, <1>2, <2>1 DEF Backed, ReadsOf
  <1>3. CASE ~IsReadLock(r)
    <2>1. s.writer = UidOf(r) /\ \A u \in Uid : s.readers[u] = 0 /\ t.readers[u] = 0
      BY <1>3 DEF AfterLock, Grants, Vacant, Table
    <2>2. O = {}
      <3> SUFFICES ASSUME NEW q \in O PROVE FALSE
        OBVIOUS
      <3>1. UidOf(q) \in Uid /\ q \in ReadsOf(O, UidOf(q))
        BY <1>1, ProcAssumption DEF ReadsOf, UidOf
      <3>2. Cardinality(ReadsOf(O, UidOf(q))) <= 0
        BY <2>1, <3>1 DEF Backed, ReadsOf
      <3>3. ReadsOf(O, UidOf(q)) = {}
        BY <3>2, ReadsFinite, FS_EmptySet
      <3> QED BY <3>1, <3>3
    <2>3. ASSUME NEW u \in Uid PROVE Cardinality(ReadsOf(P, u)) <= s.readers[u]
      <3>1. ReadsOf(P, u) = {}
        BY <1>3, <2>2 DEF ReadsOf
      <3> QED BY <2>1, <3>1, FS_EmptySet
    <2> QED
      BY <2>1, <2>2, <2>3 DEF Backed, ReadsOf
  <1> QED
    BY <1>2, <1>3

\* A release takes exactly the released belief out of the table.
LEMMA BackedRelease ==
    ASSUME NEW O \in SUBSET Req, NEW t \in Table, Backed(O, t), TableSound(t), NEW r \in O
    PROVE  Backed(O \ {r}, AfterUnlock(t, UidOf(r), IsReadLock(r)))
  <1> DEFINE s == AfterUnlock(t, UidOf(r), IsReadLock(r))
             P == O \ {r}
  <1>0. UidOf(r) \in Uid /\ P \in SUBSET Req
    BY ProcAssumption DEF UidOf
  <1>1. CASE IsReadLock(r)
    <2>1. \A q \in O : IsReadLock(q)
      BY <1>1 DEF Backed
    <2>2. r \in ReadsOf(O, UidOf(r)) /\ Cardinality(ReadsOf(O, UidOf(r))) <= t.readers[UidOf(r)]
      BY <1>0, <1>1 DEF ReadsOf, Backed
    <2>3. ReadsOf(P, UidOf(r)) = ReadsOf(O, UidOf(r)) \ {r}
      BY DEF ReadsOf
    <2>4. Cardinality(ReadsOf(P, UidOf(r))) = Cardinality(ReadsOf(O, UidOf(r))) - 1
      <3>1. IsFiniteSet(ReadsOf(O, UidOf(r)))
        BY ReadsFinite
      <3>2. Cardinality(ReadsOf(O, UidOf(r)) \ {r}) = Cardinality(ReadsOf(O, UidOf(r))) - 1
        BY <2>2, <3>1, FS_RemoveElement
      <3> QED BY <2>3, <3>2
    <2>5. t.readers[UidOf(r)] \in Nat /\ t.readers[UidOf(r)] > 0 /\ t.writer = NoUid
      BY <1>0, <2>2, <2>4, ReadsFinite DEF Table, TableSound
    <2>6. s = [t EXCEPT !.readers[UidOf(r)] = @ - 1]
      BY <1>1, <2>5 DEF AfterUnlock
    <2>7. ASSUME NEW u \in Uid PROVE Cardinality(ReadsOf(P, u)) <= s.readers[u]
      <3>1. CASE u = UidOf(r)
        <4>1. s.readers[u] = t.readers[u] - 1
          BY <1>0, <2>6, <3>1 DEF Table
        <4> QED BY <2>2, <2>4, <2>5, <3>1, <4>1, ReadsFinite
      <3>2. CASE u # UidOf(r)
        <4>1. ReadsOf(P, u) = ReadsOf(O, u)
          BY <3>2 DEF ReadsOf
        <4>2. s.readers[u] = t.readers[u]
          BY <1>0, <2>6, <3>2 DEF Table
        <4> QED BY <4>1, <4>2 DEF Backed, ReadsOf
      <3> QED BY <3>1, <3>2
    <2> QED
      BY <2>1, <2>7 DEF Backed, ReadsOf
  <1>2. CASE ~IsReadLock(r)
    <2>1. O = {r} /\ P = {} /\ t.writer = UidOf(r)
      BY <1>2 DEF Backed
    <2>2. \A u \in Uid : ReadsOf(P, u) = {} /\ s.readers[u] \in Nat
      BY <1>0, <1>2, <2>1 DEF ReadsOf, AfterUnlock, Table
    <2> QED
      BY <2>1, <2>2, FS_EmptySet DEF Backed, ReadsOf
  <1> QED
    BY <1>1, <1>2
-----------------------------------------------------------------------------
(* The servers: their types, and that a writer has its table to itself. *)

ServersOK ==
    /\ lockMap \in [Node -> Table]
    /\ up \subseteq Node
    /\ forgot \subseteq Node
    /\ died \subseteq Mutex
    /\ faults \in Nat
    /\ stray \in [Req -> [Node -> Stray]]
    /\ TablesSound

\* A release call leaves the servers sound.
LEMMA ReleaseTypes ==
    ASSUME TypeOK, TablesSound, NEW r \in Req, NEW n \in Node, sendRelease(r, n)
    PROVE  ServersOK'
  <1>1. UidOf(r) \in Uid /\ IsReadLock(r) \in BOOLEAN
    BY ProcAssumption DEF UidOf, IsReadLock
  <1>2. AfterUnlock(lockMap[n], UidOf(r), IsReadLock(r)) \in Table
        /\ TableSound(AfterUnlock(lockMap[n], UidOf(r), IsReadLock(r)))
    BY <1>1, UnlockSound DEF TypeOK, TablesSound
  <1>3. CASE lockMap' = [lockMap EXCEPT ![n] = AfterUnlock(@, UidOf(r), IsReadLock(r))]
             /\ UNCHANGED <<up, forgot, died, faults, stray>>
    BY <1>2, <1>3 DEF ServersOK, TypeOK, TablesSound
  <1>4. CASE UNCHANGED <<lockMap, up, forgot, died, stray>> /\ faults' \in {faults, faults + 1}
    BY <1>4 DEF ServersOK, TypeOK, TablesSound
  <1>5. CASE UNCHANGED <<lockMap, up, forgot, died>> /\ faults' = faults + 1
             /\ stray' = [stray EXCEPT ![r][n] = "unlock"]
    BY <1>5 DEF ServersOK, TypeOK, TablesSound, Stray
  <1> QED
    BY <1>3, <1>4, <1>5 DEF sendRelease, serverVars

\* A lock call that reaches its server leaves the servers sound.
LEMMA ServeTypes ==
    ASSUME TypeOK, TablesSound, NEW r \in Req, NEW n \in Node,
           lockMap' = [lockMap EXCEPT ![n] = AfterLock(@, UidOf(r), IsReadLock(r))],
           up' = up, forgot' = forgot, died' = died, faults' \in Nat, stray' \in [Req -> [Node -> Stray]]
    PROVE  ServersOK'
  <1>1. UidOf(r) \in Uid /\ IsReadLock(r) \in BOOLEAN
    BY ProcAssumption DEF UidOf, IsReadLock
  <1>2. AfterLock(lockMap[n], UidOf(r), IsReadLock(r)) \in Table
        /\ TableSound(AfterLock(lockMap[n], UidOf(r), IsReadLock(r)))
    BY <1>1, LockSound DEF TypeOK, TablesSound
  <1> QED
    BY <1>2 DEF ServersOK, TypeOK, TablesSound

\* Every step keeps the types of the servers and their tables sound.
LEMMA ServersStep ==
    ASSUME IInv, Next
    PROVE  ServersOK'
  <1>1. ASSUME NEW p \in Proc, CallLock(p) \/ NextAttempt(p) PROVE ServersOK'
    BY <1>1 DEF IInv, TypeOK, TablesSound, ServersOK, serverVars, CallLock, NextAttempt, Broadcast
  <1>2. ASSUME NEW p \in Proc, LockSucceeds(p) PROVE ServersOK'
    BY <1>2 DEF IInv, TypeOK, TablesSound, ServersOK, serverVars, LockSucceeds
  <1>3. ASSUME NEW p \in Proc, LockFails(p) \/ GiveUp(p) PROVE ServersOK'
    BY <1>3 DEF IInv, TypeOK, TablesSound, ServersOK, serverVars, LockFails, GiveUp, AttemptFails
  <1>4. ASSUME NEW p \in Proc, CopyLocks(p) PROVE ServersOK'
    BY <1>4 DEF IInv, TypeOK, TablesSound, ServersOK, serverVars, CopyLocks
  <1>5. ASSUME NEW p \in Proc, Unlock(p) PROVE ServersOK'
    BY <1>5 DEF IInv, TypeOK, TablesSound, ServersOK, serverVars, Unlock, TakeOut, Panic
  <1>6. ASSUME NEW p \in Proc, RUnlock(p) PROVE ServersOK'
    BY <1>6 DEF IInv, TypeOK, TablesSound, ServersOK, serverVars, RUnlock, TakeOut, Panic
  <1>7. ASSUME NEW p \in Proc, unlock(p) PROVE ServersOK'
    <2>1. CASE \E n \in Node : sendRelease(req[p], n)
      <3>1. req[p] \in Req
        BY <1>7 DEF unlock, IInv, AttemptsLinked
      <3> QED BY <2>1, <3>1, ReleaseTypes DEF IInv
    <2>2. CASE UNCHANGED serverVars
      BY <2>2 DEF IInv, TypeOK, TablesSound, ServersOK, serverVars
    <2> QED BY <1>7, <2>1, <2>2 DEF unlock
  <1>8. ASSUME NEW r \in Req, releaseAll(r) PROVE ServersOK'
    <2>1. CASE \E n \in Node : sendRelease(r, n)
      BY <2>1, ReleaseTypes DEF IInv
    <2>2. CASE UNCHANGED serverVars
      BY <2>2 DEF IInv, TypeOK, TablesSound, ServersOK, serverVars
    <2> QED BY <1>8, <2>1, <2>2 DEF releaseAll
  <1>9. ASSUME NEW r \in Req, CollectTimeout(r) PROVE ServersOK'
    BY <1>9 DEF IInv, TypeOK, TablesSound, ServersOK, serverVars, CollectTimeout
  <1>10. ASSUME NEW r \in Req, NEW n \in Node, ReceiveGrant(r, n) PROVE ServersOK'
    BY <1>10 DEF IInv, TypeOK, TablesSound, ServersOK, serverVars, ReceiveGrant
  <1>11. ASSUME NEW r \in Req, NEW n \in Node, ReceiveDenial(r, n) PROVE ServersOK'
    BY <1>11 DEF IInv, TypeOK, TablesSound, ServersOK, serverVars, ReceiveDenial
  <1>12. ASSUME NEW r \in Req, NEW n \in Node, Drain(r, n) PROVE ServersOK'
    <2>1. CASE sendRelease(r, n)
      BY <2>1, ReleaseTypes DEF IInv
    <2>2. CASE UNCHANGED serverVars
      BY <2>2 DEF IInv, TypeOK, TablesSound, ServersOK, serverVars
    <2> QED BY <1>12, <2>1, <2>2 DEF Drain
  <1>13. ASSUME NEW r \in Req, NEW n \in Node, ServeLock(r, n) PROVE ServersOK'
    <2>1. /\ faults' \in Nat /\ up' = up /\ forgot' = forgot /\ died' = died /\ TypeOK /\ TablesSound
          /\ stray' \in [Req -> [Node -> Stray]]
      BY <1>13 DEF IInv, TypeOK, ServeLock
    <2>2. lockMap' = [lockMap EXCEPT ![n] = AfterLock(@, UidOf(r), IsReadLock(r))]
      BY <1>13 DEF ServeLock
    <2> QED BY <2>1, <2>2, ServeTypes
  <1>14. ASSUME NEW r \in Req, NEW n \in Node, CallFails(r, n) PROVE ServersOK'
    BY <1>14 DEF IInv, TypeOK, TablesSound, ServersOK, serverVars, CallFails
  <1>15. ASSUME NEW r \in Req, NEW n \in Node, ReplyLost(r, n) PROVE ServersOK'
    <2>1. /\ faults' \in Nat /\ up' = up /\ forgot' = forgot /\ died' = died /\ TypeOK /\ TablesSound
          /\ stray' \in [Req -> [Node -> Stray]]
      BY <1>15 DEF IInv, TypeOK, ReplyLost
    <2>2. lockMap' = [lockMap EXCEPT ![n] = AfterLock(@, UidOf(r), IsReadLock(r))]
      BY <1>15 DEF ReplyLost
    <2> QED BY <2>1, <2>2, ServeTypes
  <1>16. ASSUME NEW n \in Node, ServerCrash(n) PROVE ServersOK'
    BY <1>16, NoLockSound DEF IInv, TypeOK, TablesSound, ServersOK, serverVars, ServerCrash, Stray
  <1>17. ASSUME NEW n \in Node, ServerRestart(n) PROVE ServersOK'
    BY <1>17 DEF IInv, TypeOK, TablesSound, ServersOK, serverVars, ServerRestart
  <1>18. ASSUME NEW d \in Mutex, ClientCrash(d) PROVE ServersOK'
    BY <1>18 DEF IInv, TypeOK, TablesSound, ServersOK, serverVars, ClientCrash
  <1>19. ASSUME NEW r \in Req, NEW n \in Node, CallDelayed(r, n) PROVE ServersOK'
    BY <1>19 DEF IInv, TypeOK, TablesSound, ServersOK, CallDelayed, Stray
  <1>20. ASSUME NEW r \in Req, NEW n \in Node, ServeStray(r, n) PROVE ServersOK'
    <2>1. /\ faults' \in Nat /\ up' = up /\ forgot' = forgot /\ died' = died /\ TypeOK /\ TablesSound
          /\ stray' \in [Req -> [Node -> Stray]]
      BY <1>20 DEF IInv, TypeOK, ServeStray, Stray
    <2>2. CASE lockMap' = [lockMap EXCEPT ![n] = AfterLock(@, UidOf(r), IsReadLock(r))]
      BY <2>1, <2>2, ServeTypes
    <2>3. CASE lockMap' = [lockMap EXCEPT ![n] = AfterUnlock(@, UidOf(r), IsReadLock(r))]
      <3>1. UidOf(r) \in Uid /\ IsReadLock(r) \in BOOLEAN
        BY ProcAssumption DEF UidOf, IsReadLock
      <3>2. AfterUnlock(lockMap[n], UidOf(r), IsReadLock(r)) \in Table
            /\ TableSound(AfterUnlock(lockMap[n], UidOf(r), IsReadLock(r)))
        BY <2>1, <3>1, UnlockSound DEF TypeOK, TablesSound
      <3> QED BY <2>1, <2>3, <3>2 DEF ServersOK, TypeOK, TablesSound
    <2> QED BY <1>20, <2>2, <2>3 DEF ServeStray
  <1> QED
    BY <1>1, <1>2, <1>3, <1>4, <1>5, <1>6, <1>7, <1>8, <1>9, <1>10, <1>11, <1>12, <1>13, <1>14, <1>15, <1>16, <1>17, <1>18, <1>19, <1>20
       DEF Next, Goroutine, Collector, Call, Crash

-----------------------------------------------------------------------------
(* The attempts: their types, and that a won attempt keeps its quorum. *)

AttemptsOK ==
    /\ stage \in [Req -> Stage]
    /\ st \in [Req -> [Node -> Status]]
    /\ QuorumKept

\* What a step changes of attempt s leaves its locks alone if it is won or held.
LocksKept(s) ==
    stage'[s] \in {"won", "held"} =>
        /\ stage[s] \in {"won", "held"}
        /\ \A n \in Node : st'[s][n] = "locked" <=> st[s][n] = "locked"

\* Steps that leave the locks of won attempts alone keep their quorums.
LEMMA QuorumFrame ==
    ASSUME QuorumKept, \A x \in Req : LocksKept(x)
    PROVE  QuorumKept'
  <1> SUFFICES ASSUME NEW s \in Req, stage'[s] \in {"won", "held"}
               PROVE  quorumMet(s)'
    BY DEF QuorumKept
  <1>1. LockedNodes(s)' = LockedNodes(s)
    BY DEF LocksKept, LockedNodes
  <1>2. quorumMet(s)
    BY DEF LocksKept, QuorumKept
  <1> QED
    BY <1>1, <1>2 DEF quorumMet, Quorum, IsReadLock

\* The status of one node, and the end of the collector's loop, keep the types.
LEMMA StatusTypes ==
    ASSUME NEW s \in [Node -> Status], NEW n \in Node, NEW v \in Status
    PROVE  /\ [s EXCEPT ![n] = v] \in [Node -> Status]
           /\ DropFailed(s) \in [Node -> Status]
           /\ \A k \in Node : DropFailed(s)[k] = "locked" <=> s[k] = "locked"
  BY DEF DropFailed, Status

\* The slot of a new attempt is a free one.
LEMMA FreeSlotChosen ==
    ASSUME NEW p \in Proc, FreeSlots(p) # {}
    PROVE  LET r == CHOOSE r \in FreeSlots(p) : TRUE
           IN  /\ r \in Req /\ ownerOf[r] = p /\ stage[r] = "idle"
               /\ \A n \in Node : st[r][n] = "none" /\ stray[r][n] = "none"
  BY DEF FreeSlots, LeftOver

\* There are servers.
LEMMA NodeNonEmpty == 1 \in Node
  BY NewAssumption DEF Node

\* Every step keeps the types of the attempts and the quorums of the won ones.
LEMMA AttemptsStep ==
    ASSUME IInv, Next
    PROVE  AttemptsOK'
  <1>1. ASSUME NEW p \in Proc, CallLock(p) \/ NextAttempt(p) PROVE AttemptsOK'
    <2> DEFINE a == CHOOSE r \in FreeSlots(p) : TRUE
    <2>0. /\ a \in Req /\ stage[a] = "idle"
          /\ stage' = [stage EXCEPT ![a] = "collect"]
          /\ st' = [st EXCEPT ![a] = [n \in Node |-> "sent"]]
      BY <1>1, FreeSlotChosen DEF CallLock, NextAttempt, Broadcast
    <2> HIDE DEF a
    <2>1. stage' \in [Req -> Stage] /\ st' \in [Req -> [Node -> Status]]
      BY <2>0 DEF IInv, TypeOK, Stage, Status
    <2>2. \A x \in Req : LocksKept(x)
      BY <2>0 DEF IInv, TypeOK, LocksKept
    <2> QED BY <2>1, <2>2, QuorumFrame DEF IInv, AttemptsOK
  <1>2. ASSUME NEW p \in Proc, LockSucceeds(p) PROVE AttemptsOK'
    <2>0. req[p] \in Req /\ quorumMet(req[p]) /\ st' = st
          /\ stage' = [stage EXCEPT ![req[p]] = "won"]
      BY <1>2 DEF LockSucceeds, IInv, AttemptsLinked
    <2>1. stage' \in [Req -> Stage] /\ st' \in [Req -> [Node -> Status]]
      BY <2>0 DEF IInv, TypeOK, Stage
    <2>2. ASSUME NEW s \in Req, stage'[s] \in {"won", "held"} PROVE quorumMet(s)'
      <3>1. quorumMet(s)
        BY <2>0, <2>2 DEF IInv, TypeOK, QuorumKept
      <3> QED BY <2>0, <3>1 DEF quorumMet, LockedNodes, Quorum, IsReadLock
    <2> QED BY <2>1, <2>2 DEF AttemptsOK, QuorumKept
  <1>3. ASSUME NEW p \in Proc, LockFails(p) \/ GiveUp(p) PROVE AttemptsOK'
    <2>1. stage' \in [Req -> Stage] /\ st' \in [Req -> [Node -> Status]]
      BY <1>3 DEF IInv, TypeOK, Stage, Status, LockFails, GiveUp, AttemptFails
    <2>2. \A x \in Req : LocksKept(x)
      BY <1>3 DEF IInv, TypeOK, LocksKept, AttemptsLinked, LockFails, GiveUp, AttemptFails
    <2> QED BY <2>1, <2>2, QuorumFrame DEF IInv, AttemptsOK
  <1>4. ASSUME NEW p \in Proc, CopyLocks(p) PROVE AttemptsOK'
    <2>1. stage' \in [Req -> Stage] /\ st' \in [Req -> [Node -> Status]]
      BY <1>4 DEF IInv, TypeOK, Stage, Status, CopyLocks
    <2>2. \A x \in Req : LocksKept(x)
      BY <1>4 DEF IInv, TypeOK, LocksKept, AttemptsLinked, CopyLocks
    <2> QED BY <2>1, <2>2, QuorumFrame DEF IInv, AttemptsOK
  <1>5. ASSUME NEW p \in Proc, Unlock(p) PROVE AttemptsOK'
    <2>1. stage' \in [Req -> Stage] /\ st' \in [Req -> [Node -> Status]]
      BY <1>5 DEF IInv, TypeOK, Stage, Status, Unlock, TakeOut, Panic
    <2>2. \A x \in Req : LocksKept(x)
      BY <1>5 DEF IInv, TypeOK, LocksKept, AttemptsLinked, Unlock, TakeOut, Panic
    <2> QED BY <2>1, <2>2, QuorumFrame DEF IInv, AttemptsOK
  <1>6. ASSUME NEW p \in Proc, RUnlock(p) PROVE AttemptsOK'
    <2>1. stage' \in [Req -> Stage] /\ st' \in [Req -> [Node -> Status]]
      BY <1>6 DEF IInv, TypeOK, Stage, Status, RUnlock, TakeOut, Panic
    <2>2. \A x \in Req : LocksKept(x)
      BY <1>6 DEF IInv, TypeOK, LocksKept, AttemptsLinked, RUnlock, TakeOut, Panic
    <2> QED BY <2>1, <2>2, QuorumFrame DEF IInv, AttemptsOK
  <1>7. ASSUME NEW p \in Proc, unlock(p) PROVE AttemptsOK'
    <2>0. /\ req[p] \in Req /\ stage[req[p]] = "unlock"
          /\ \/ stage' = stage /\ \E n \in Node : st' = [st EXCEPT ![req[p]][n] = "none"]
             \/ stage' = [stage EXCEPT ![req[p]] = "idle"] /\ st' = st
      BY <1>7 DEF unlock, IInv, AttemptsLinked
    <2>1. stage' \in [Req -> Stage] /\ st' \in [Req -> [Node -> Status]]
      <3>1. CASE stage' = stage /\ \E n \in Node : st' = [st EXCEPT ![req[p]][n] = "none"]
        BY <2>0, <3>1 DEF IInv, TypeOK, Status
      <3>2. CASE stage' = [stage EXCEPT ![req[p]] = "idle"] /\ st' = st
        BY <3>2 DEF IInv, TypeOK, Stage
      <3> QED BY <2>0, <3>1, <3>2
    <2>2. \A x \in Req : LocksKept(x)
      BY <2>0 DEF IInv, TypeOK, LocksKept
    <2> QED BY <2>1, <2>2, QuorumFrame DEF IInv, AttemptsOK
  <1>8. ASSUME NEW r \in Req, releaseAll(r) PROVE AttemptsOK'
    <2>0. /\ r \in Req /\ stage[r] = "release"
          /\ \/ stage' = stage /\ \E n \in Node : st' = [st EXCEPT ![r][n] = "none"]
             \/ stage' = [stage EXCEPT ![r] = "decided"] /\ st' = st
      BY <1>8 DEF releaseAll
    <2>1. stage' \in [Req -> Stage] /\ st' \in [Req -> [Node -> Status]]
      <3>1. CASE stage' = stage /\ \E n \in Node : st' = [st EXCEPT ![r][n] = "none"]
        BY <2>0, <3>1 DEF IInv, TypeOK, Status
      <3>2. CASE stage' = [stage EXCEPT ![r] = "decided"] /\ st' = st
        BY <3>2 DEF IInv, TypeOK, Stage
      <3> QED BY <2>0, <3>1, <3>2
    <2>2. \A x \in Req : LocksKept(x)
      BY <2>0 DEF IInv, TypeOK, LocksKept
    <2> QED BY <2>1, <2>2, QuorumFrame DEF IInv, AttemptsOK
  <1>9. ASSUME NEW r \in Req, CollectTimeout(r) PROVE AttemptsOK'
    <2>0. /\ stage[r] = "collect"
          /\ st' = [st EXCEPT ![r] = DropFailed(st[r])]
          /\ stage' \in {[stage EXCEPT ![r] = "decided"], [stage EXCEPT ![r] = "release"]}
      BY <1>9 DEF CollectTimeout
    <2>a. DropFailed(st[r]) \in [Node -> Status]
      BY StatusTypes, NodeNonEmpty DEF IInv, TypeOK, Status
    <2>1. stage' \in [Req -> Stage] /\ st' \in [Req -> [Node -> Status]]
      BY <2>0, <2>a DEF IInv, TypeOK, Stage
    <2>2. \A x \in Req : LocksKept(x)
      BY <2>0 DEF IInv, TypeOK, LocksKept
    <2> QED BY <2>1, <2>2, QuorumFrame DEF IInv, AttemptsOK
  <1>10. ASSUME NEW r \in Req, NEW n \in Node, ReceiveGrant(r, n) PROVE AttemptsOK'
    <2> DEFINE s == [st[r] EXCEPT ![n] = "locked"]
    <2>a. s \in [Node -> Status] /\ DropFailed(s) \in [Node -> Status]
      BY StatusTypes DEF IInv, TypeOK, Status
    <2> HIDE DEF s
    <2>0. /\ stage[r] = "collect"
          /\ st' \in {[st EXCEPT ![r] = s], [st EXCEPT ![r] = DropFailed(s)]}
          /\ stage' \in {stage, [stage EXCEPT ![r] = "decided"], [stage EXCEPT ![r] = "release"]}
      BY <1>10 DEF s, ReceiveGrant, Collected
    <2>1. stage' \in [Req -> Stage] /\ st' \in [Req -> [Node -> Status]]
      BY <2>0, <2>a DEF IInv, TypeOK, Stage
    <2>2. \A x \in Req : LocksKept(x)
      BY <2>0 DEF IInv, TypeOK, LocksKept
    <2> QED BY <2>1, <2>2, QuorumFrame DEF IInv, AttemptsOK
  <1>11. ASSUME NEW r \in Req, NEW n \in Node, ReceiveDenial(r, n) PROVE AttemptsOK'
    <2> DEFINE s == [st[r] EXCEPT ![n] = "failed"]
    <2>a. s \in [Node -> Status] /\ DropFailed(s) \in [Node -> Status]
      BY StatusTypes DEF IInv, TypeOK, Status
    <2> HIDE DEF s
    <2>0. /\ stage[r] = "collect"
          /\ st' \in {[st EXCEPT ![r] = s], [st EXCEPT ![r] = DropFailed(s)]}
          /\ stage' \in {stage, [stage EXCEPT ![r] = "decided"], [stage EXCEPT ![r] = "release"]}
      BY <1>11 DEF s, ReceiveDenial, Collected
    <2>1. stage' \in [Req -> Stage] /\ st' \in [Req -> [Node -> Status]]
      BY <2>0, <2>a DEF IInv, TypeOK, Stage
    <2>2. \A x \in Req : LocksKept(x)
      BY <2>0 DEF IInv, TypeOK, LocksKept
    <2> QED BY <2>1, <2>2, QuorumFrame DEF IInv, AttemptsOK
  <1>12. ASSUME NEW r \in Req, NEW n \in Node, Drain(r, n) PROVE AttemptsOK'
    <2>0. /\ stage' = stage /\ st[r][n] \in {"granted", "denied"}
          /\ \E v \in {"none", "granted", "denied"} : st' = [st EXCEPT ![r][n] = v]
      BY <1>12 DEF Drain
    <2>1. stage' \in [Req -> Stage] /\ st' \in [Req -> [Node -> Status]]
      BY <2>0 DEF IInv, TypeOK, Status
    <2>2. \A x \in Req : LocksKept(x)
      BY <2>0 DEF IInv, TypeOK, LocksKept
    <2> QED BY <2>1, <2>2, QuorumFrame DEF IInv, AttemptsOK
  <1>13. ASSUME NEW r \in Req, NEW n \in Node, ServeLock(r, n) PROVE AttemptsOK'
    <2>0. /\ stage' = stage /\ st[r][n] \in {"sent"}
          /\ \E v \in {"none", "granted", "denied"} : st' = [st EXCEPT ![r][n] = v]
      BY <1>13 DEF ServeLock
    <2>1. stage' \in [Req -> Stage] /\ st' \in [Req -> [Node -> Status]]
      BY <2>0 DEF IInv, TypeOK, Status
    <2>2. \A x \in Req : LocksKept(x)
      BY <2>0 DEF IInv, TypeOK, LocksKept
    <2> QED BY <2>1, <2>2, QuorumFrame DEF IInv, AttemptsOK
  <1>14. ASSUME NEW r \in Req, NEW n \in Node, CallFails(r, n) PROVE AttemptsOK'
    <2>0. /\ stage' = stage /\ st[r][n] \in {"sent"}
          /\ \E v \in {"none", "granted", "denied"} : st' = [st EXCEPT ![r][n] = v]
      BY <1>14 DEF CallFails
    <2>1. stage' \in [Req -> Stage] /\ st' \in [Req -> [Node -> Status]]
      BY <2>0 DEF IInv, TypeOK, Status
    <2>2. \A x \in Req : LocksKept(x)
      BY <2>0 DEF IInv, TypeOK, LocksKept
    <2> QED BY <2>1, <2>2, QuorumFrame DEF IInv, AttemptsOK
  <1>15. ASSUME NEW r \in Req, NEW n \in Node, ReplyLost(r, n) PROVE AttemptsOK'
    <2>0. /\ stage' = stage /\ st[r][n] \in {"sent"}
          /\ \E v \in {"none", "granted", "denied"} : st' = [st EXCEPT ![r][n] = v]
      BY <1>15 DEF ReplyLost
    <2>1. stage' \in [Req -> Stage] /\ st' \in [Req -> [Node -> Status]]
      BY <2>0 DEF IInv, TypeOK, Status
    <2>2. \A x \in Req : LocksKept(x)
      BY <2>0 DEF IInv, TypeOK, LocksKept
    <2> QED BY <2>1, <2>2, QuorumFrame DEF IInv, AttemptsOK
  <1>16. ASSUME NEW n \in Node, ServerCrash(n) PROVE AttemptsOK'
    <2>1. stage' \in [Req -> Stage] /\ st' \in [Req -> [Node -> Status]]
      BY <1>16 DEF IInv, TypeOK, Stage, Status, ServerCrash
    <2>2. \A x \in Req : LocksKept(x)
      BY <1>16 DEF IInv, TypeOK, LocksKept, AttemptsLinked, ServerCrash
    <2> QED BY <2>1, <2>2, QuorumFrame DEF IInv, AttemptsOK
  <1>17. ASSUME NEW n \in Node, ServerRestart(n) PROVE AttemptsOK'
    <2>1. stage' \in [Req -> Stage] /\ st' \in [Req -> [Node -> Status]]
      BY <1>17 DEF IInv, TypeOK, Stage, Status, ServerRestart
    <2>2. \A x \in Req : LocksKept(x)
      BY <1>17 DEF IInv, TypeOK, LocksKept, AttemptsLinked, ServerRestart
    <2> QED BY <2>1, <2>2, QuorumFrame DEF IInv, AttemptsOK
  <1>18. ASSUME NEW d \in Mutex, ClientCrash(d) PROVE AttemptsOK'
    <2>1. stage' \in [Req -> Stage] /\ st' \in [Req -> [Node -> Status]]
      BY <1>18 DEF IInv, TypeOK, Stage, Status, ClientCrash
    <2>2. \A x \in Req : LocksKept(x)
      BY <1>18 DEF IInv, TypeOK, LocksKept, AttemptsLinked, ClientCrash
    <2> QED BY <2>1, <2>2, QuorumFrame DEF IInv, AttemptsOK
  <1>19. ASSUME NEW r \in Req, NEW n \in Node, CallDelayed(r, n) PROVE AttemptsOK'
    <2>0. /\ stage' = stage /\ st[r][n] \in {"sent"}
          /\ \E v \in {"none", "granted", "denied"} : st' = [st EXCEPT ![r][n] = v]
      BY <1>19 DEF CallDelayed
    <2>1. stage' \in [Req -> Stage] /\ st' \in [Req -> [Node -> Status]]
      BY <2>0 DEF IInv, TypeOK, Status
    <2>2. \A x \in Req : LocksKept(x)
      BY <2>0 DEF IInv, TypeOK, LocksKept
    <2> QED BY <2>1, <2>2, QuorumFrame DEF IInv, AttemptsOK
  <1>20. ASSUME NEW r \in Req, NEW n \in Node, ServeStray(r, n) PROVE AttemptsOK'
    <2>1. stage' \in [Req -> Stage] /\ st' \in [Req -> [Node -> Status]]
      BY <1>20 DEF IInv, TypeOK, ServeStray
    <2>2. \A x \in Req : LocksKept(x)
      BY <1>20 DEF LocksKept, ServeStray
    <2> QED BY <2>1, <2>2, QuorumFrame DEF IInv, AttemptsOK
  <1> QED
    BY <1>1, <1>2, <1>3, <1>4, <1>5, <1>6, <1>7, <1>8, <1>9, <1>10, <1>11, <1>12, <1>13, <1>14, <1>15, <1>16, <1>17, <1>18, <1>19, <1>20
       DEF Next, Goroutine, Collector, Call, Crash

-----------------------------------------------------------------------------
(* The callers: their types, and how they are linked to their attempts. *)

ClientsOK ==
    /\ pc \in [Proc -> Control]
    /\ req \in [Proc -> Req \cup {NoReq}]
    /\ writeLocks \in [Mutex -> Req \cup {NoReq}]
    /\ readersLocks \in [Mutex -> Seq(Req)]
    /\ AttemptsLinked
    /\ ArraysLinked

\* The array that lockBlocking appends is the last of readersLocks.
LEMMA AppendFacts ==
    ASSUME NEW s \in Seq(Req), NEW e \in Req
    PROVE  /\ Append(s, e) \in Seq(Req) /\ Len(Append(s, e)) = Len(s) + 1
           /\ \A i \in 1..Len(s) : Append(s, e)[i] = s[i]
           /\ Append(s, e)[Len(s) + 1] = e
  OBVIOUS

\* The array that RUnlock takes is the first of readersLocks.
LEMMA TailFacts ==
    ASSUME NEW s \in Seq(Req), s # <<>>
    PROVE  /\ Len(s) \in Nat /\ Len(s) >= 1 /\ Head(s) = s[1] /\ Head(s) \in Req
           /\ Tail(s) \in Seq(Req) /\ Len(Tail(s)) = Len(s) - 1
           /\ \A i \in 1..Len(Tail(s)) : Tail(s)[i] = s[i + 1]
  OBVIOUS

\* Steps that leave the DRWMutex objects and the attempts in them alone.
LEMMA StagesFrame ==
    ASSUME TypeOK, ArraysLinked, UNCHANGED mutexVars,
           \A s \in Req : stage[s] = "held" => stage'[s] = "held"
    PROVE  ArraysLinked'
  <1>1. ASSUME NEW d \in Mutex
        PROVE  /\ writeLocks'[d] = writeLocks[d] /\ readersLocks'[d] = readersLocks[d]
               /\ writeLocks[d] # NoReq => writeLocks[d] \in Req
               /\ \A i \in 1..Len(readersLocks[d]) : readersLocks[d][i] \in Req
    BY DEF mutexVars, TypeOK
  <1>2. ASSUME NEW s \in Req, NEW d \in Mutex, HeldIn(s, d) PROVE HeldIn(s, d)'
    BY <1>2 DEF HeldIn
  <1> QED
    BY <1>1, <1>2 DEF ArraysLinked, IsReadLock

\* Steps of a collector and of the servers move attempts inside lock() only.
LEMMA ClientsFrame ==
    ASSUME IInv, UNCHANGED <<pc, req, mutexVars>>,
           \A s \in Req : \/ stage'[s] = stage[s]
                          \/ {stage[s], stage'[s]} \subseteq {"collect", "release", "decided"}
    PROVE  ClientsOK'
  <1>1. AttemptsLinked'
    BY DEF IInv, AttemptsLinked
  <1>3. ArraysLinked'
    BY StagesFrame DEF IInv
  <1> QED
    BY <1>1, <1>3 DEF IInv, TypeOK, ClientsOK, mutexVars

\* Every step keeps the callers, the attempts and the DRWMutex objects linked.
LEMMA ClientsStep ==
    ASSUME IInv, Next
    PROVE  ClientsOK'
  <1>1. ASSUME NEW p \in Proc, CallLock(p) \/ NextAttempt(p) PROVE ClientsOK'
    <2> DEFINE a == CHOOSE r \in FreeSlots(p) : TRUE
    <2>0. /\ a \in Req /\ ownerOf[a] = p /\ stage[a] = "idle"
          /\ stage' = [stage EXCEPT ![a] = "collect"]
          /\ req' = [req EXCEPT ![p] = a]
          /\ pc' = [pc EXCEPT ![p] = "lock"]
          /\ pc[p] \in {"idle", "backoff"}
          /\ UNCHANGED mutexVars
      BY <1>1, FreeSlotChosen DEF CallLock, NextAttempt, Broadcast
    <2> HIDE DEF a
    <2>1. /\ pc' \in [Proc -> Control] /\ req' \in [Proc -> Req \cup {NoReq}]
          /\ writeLocks' \in [Mutex -> Req \cup {NoReq}] /\ readersLocks' \in [Mutex -> Seq(Req)]
      BY <2>0 DEF mutexVars, IInv, TypeOK, Control
    <2>2. AttemptsLinked'
      BY <2>0 DEF IInv, TypeOK, AttemptsLinked
    <2>3. ArraysLinked'
      BY <2>0, StagesFrame DEF IInv, TypeOK, mutexVars
    <2> QED BY <2>1, <2>2, <2>3 DEF ClientsOK
  <1>2. ASSUME NEW p \in Proc, LockSucceeds(p) PROVE ClientsOK'
    <2>0. /\ req[p] \in Req /\ ownerOf[req[p]] = p /\ stage[req[p]] = "decided"
          /\ stage' = [stage EXCEPT ![req[p]] = "won"]
          /\ pc' = [pc EXCEPT ![p] = "won"] /\ pc[p] = "lock"
          /\ UNCHANGED <<req, mutexVars>>
      BY <1>2 DEF LockSucceeds, Returned, IInv, AttemptsLinked
    <2>1. /\ pc' \in [Proc -> Control] /\ req' \in [Proc -> Req \cup {NoReq}]
          /\ writeLocks' \in [Mutex -> Req \cup {NoReq}] /\ readersLocks' \in [Mutex -> Seq(Req)]
      BY <2>0 DEF mutexVars, IInv, TypeOK, Control
    <2>2. AttemptsLinked'
      BY <2>0 DEF IInv, TypeOK, AttemptsLinked
    <2>3. ArraysLinked'
      BY <2>0, StagesFrame DEF IInv, TypeOK, mutexVars
    <2> QED BY <2>1, <2>2, <2>3 DEF ClientsOK
  <1>3. ASSUME NEW p \in Proc, LockFails(p) \/ GiveUp(p) PROVE ClientsOK'
    <2>0. /\ req[p] \in Req /\ ownerOf[req[p]] = p /\ stage[req[p]] = "decided"
          /\ stage' = [stage EXCEPT ![req[p]] = "idle"]
          /\ req' = [req EXCEPT ![p] = NoReq]
          /\ \E next \in {"backoff", "idle"} : pc' = [pc EXCEPT ![p] = next]
          /\ pc[p] = "lock"
          /\ UNCHANGED mutexVars
      BY <1>3 DEF LockFails, GiveUp, AttemptFails, Returned, IInv, AttemptsLinked
    <2>1. /\ pc' \in [Proc -> Control] /\ req' \in [Proc -> Req \cup {NoReq}]
          /\ writeLocks' \in [Mutex -> Req \cup {NoReq}] /\ readersLocks' \in [Mutex -> Seq(Req)]
      BY <2>0 DEF mutexVars, IInv, TypeOK, Control
    <2>2. AttemptsLinked'
      BY <2>0 DEF IInv, TypeOK, AttemptsLinked
    <2>3. ArraysLinked'
      BY <2>0, StagesFrame DEF IInv, TypeOK, mutexVars
    <2> QED BY <2>1, <2>2, <2>3 DEF ClientsOK
  <1>4. ASSUME NEW p \in Proc, CopyLocks(p) PROVE ClientsOK'
    <2> PICK r \in Req, d \in Mutex : r = req[p] /\ d = dmOf[p]
      BY <1>4, ProcAssumption DEF CopyLocks, IInv, AttemptsLinked
    <2>0. /\ ownerOf[r] = p /\ stage[r] = "won"
          /\ stage' = [stage EXCEPT ![r] = "held"]
          /\ req' = [req EXCEPT ![p] = NoReq]
          /\ pc' = [pc EXCEPT ![p] = "held"]
          /\ pc[p] = "won"
      BY <1>4 DEF CopyLocks, IInv, AttemptsLinked
    <2>a. \/ /\ p \in Reader /\ writeLocks' = writeLocks
             /\ readersLocks' = [readersLocks EXCEPT ![d] = Append(@, r)]
          \/ /\ p \notin Reader /\ readersLocks' = readersLocks
             /\ writeLocks' = [writeLocks EXCEPT ![d] = r]
      BY <1>4 DEF CopyLocks
    <2>1. /\ pc' \in [Proc -> Control] /\ req' \in [Proc -> Req \cup {NoReq}]
          /\ writeLocks' \in [Mutex -> Req \cup {NoReq}] /\ readersLocks' \in [Mutex -> Seq(Req)]
      <3>1. Append(readersLocks[d], r) \in Seq(Req)
        BY <2>0, AppendFacts DEF IInv, TypeOK
      <3>2. pc' \in [Proc -> Control] /\ req' \in [Proc -> Req \cup {NoReq}]
        BY <2>0 DEF IInv, TypeOK, Control
      <3>3. writeLocks' \in [Mutex -> Req \cup {NoReq}]
        BY <2>a DEF IInv, TypeOK
      <3>4. readersLocks' \in [Mutex -> Seq(Req)]
        BY <2>a, <3>1 DEF IInv, TypeOK
      <3> QED BY <3>2, <3>3, <3>4
    <2>2. AttemptsLinked'
      BY <2>0 DEF IInv, TypeOK, AttemptsLinked
    <2>3. ArraysLinked'
      <3> SUFFICES ASSUME NEW e \in Mutex
                   PROVE  /\ writeLocks'[e] # NoReq =>
                                HeldIn(writeLocks[e], e)' /\ ~IsReadLock(writeLocks'[e])
                          /\ \A i \in 1..Len(readersLocks'[e]) :
                                /\ HeldIn(readersLocks[e][i], e)' /\ IsReadLock(readersLocks'[e][i])
                                /\ \A j \in 1..Len(readersLocks'[e]) :
                                      readersLocks'[e][i] = readersLocks'[e][j] => i = j
        BY DEF ArraysLinked, IsReadLock
      <3>1. HeldIn(r, d)' /\ (IsReadLock(r) <=> p \in Reader)
        BY <2>0 DEF HeldIn, IsReadLock, IInv, TypeOK
      <3>2. \A s \in Req : HeldIn(s, e) => s # r /\ HeldIn(s, e)'
        BY <2>0 DEF HeldIn, IInv, TypeOK
      <3>3. writeLocks[e] \in Req \cup {NoReq} /\ readersLocks[e] \in Seq(Req)
        BY DEF IInv, TypeOK
      <3>4. writeLocks'[e] # NoReq => HeldIn(writeLocks[e], e)' /\ ~IsReadLock(writeLocks'[e])
        <4>1. CASE writeLocks'[e] = writeLocks[e]
          BY <3>2, <3>3, <4>1 DEF IInv, ArraysLinked, HeldIn
        <4>2. CASE writeLocks'[e] # writeLocks[e]
          <5>1. e = d /\ writeLocks'[e] = r /\ p \notin Reader
            BY <2>0, <2>a, <4>2 DEF IInv, TypeOK
          <5> QED BY <3>1, <5>1 DEF HeldIn
        <4> QED BY <4>1, <4>2
      <3>5. ASSUME NEW i \in 1..Len(readersLocks'[e])
            PROVE  /\ HeldIn(readersLocks[e][i], e)' /\ IsReadLock(readersLocks'[e][i])
                   /\ \A j \in 1..Len(readersLocks'[e]) :
                         readersLocks'[e][i] = readersLocks'[e][j] => i = j
        <4>1. CASE readersLocks'[e] = readersLocks[e]
          BY <3>2, <3>3, <3>5, <4>1 DEF IInv, ArraysLinked, HeldIn
        <4>2. CASE readersLocks'[e] # readersLocks[e]
          <5>1. e = d /\ readersLocks'[e] = Append(readersLocks[e], r) /\ p \in Reader
            BY <2>0, <2>a, <4>2 DEF IInv, TypeOK
          <5>2. /\ \A k \in 1..Len(readersLocks[e]) :
                      /\ readersLocks'[e][k] = readersLocks[e][k]
                      /\ readersLocks[e][k] \in Req /\ HeldIn(readersLocks[e][k], e)
                      /\ IsReadLock(readersLocks[e][k])
                /\ Len(readersLocks'[e]) = Len(readersLocks[e]) + 1
                /\ readersLocks'[e][Len(readersLocks[e]) + 1] = r
                /\ Len(readersLocks[e]) \in Nat
            BY <2>0, <3>3, <5>1, AppendFacts DEF IInv, ArraysLinked
          <5>3. HeldIn(readersLocks[e][i], e)' /\ IsReadLock(readersLocks'[e][i])
            <6>1. i \in 1..Len(readersLocks[e]) \/ i = Len(readersLocks[e]) + 1
              BY <5>2
            <6>2. CASE i \in 1..Len(readersLocks[e])
              BY <3>2, <5>2, <6>2 DEF HeldIn
            <6>3. CASE i = Len(readersLocks[e]) + 1
              BY <3>1, <5>1, <5>2, <6>3 DEF HeldIn
            <6> QED BY <6>1, <6>2, <6>3
          <5>4. ASSUME NEW j \in 1..Len(readersLocks'[e]), readersLocks'[e][i] = readersLocks'[e][j]
                PROVE  i = j
            <6> DEFINE last == Len(readersLocks[e]) + 1
            <6>1. \A k \in 1..Len(readersLocks[e]) : readersLocks'[e][k] # r
              BY <3>2, <5>2
            <6>2. CASE i # last /\ j # last
              <7>1. i \in 1..Len(readersLocks[e]) /\ j \in 1..Len(readersLocks[e])
                BY <5>2, <6>2
              <7>2. readersLocks[e][i] = readersLocks[e][j]
                BY <5>2, <5>4, <7>1
              <7> QED BY <7>1, <7>2 DEF IInv, ArraysLinked
            <6>3. CASE i = last \/ j = last
              BY <5>2, <5>4, <6>1, <6>3
            <6> QED BY <6>2, <6>3
          <5> QED BY <5>3, <5>4
        <4> QED BY <4>1, <4>2
      <3> QED BY <3>4, <3>5
    <2> QED BY <2>1, <2>2, <2>3 DEF ClientsOK
  <1>5. ASSUME NEW p \in Proc, Unlock(p) PROVE ClientsOK'
    <2> DEFINE d == dmOf[p]
                r == writeLocks[d]
    <2>a. d \in Mutex /\ pc[p] = "held" /\ MutexFree(d)
      BY <1>5, ProcAssumption DEF Unlock
    <2>b. CASE writeLocks[d] = NoReq
      <3>1. pc' = [pc EXCEPT ![p] = "panic"] /\ UNCHANGED <<stage, req, mutexVars>>
        BY <1>5, <2>b DEF Unlock, Panic
      <3>2. pc' \in [Proc -> Control] /\ AttemptsLinked'
        BY <2>a, <3>1 DEF IInv, TypeOK, Control, AttemptsLinked
      <3>3. ArraysLinked'
        BY <3>1, StagesFrame DEF IInv
      <3> QED BY <3>1, <3>2, <3>3 DEF ClientsOK, IInv, TypeOK, mutexVars
    <2>c. CASE ~(writeLocks[d] = NoReq)
      <3>1. r \in Req /\ HeldIn(r, d) /\ ~IsReadLock(r)
        BY <2>a, <2>c DEF IInv, TypeOK, ArraysLinked
      <3>2. /\ pc' = [pc EXCEPT ![p] = "unlock"] /\ req' = [req EXCEPT ![p] = r]
            /\ stage' = [stage EXCEPT ![r] = "unlock"]
            /\ writeLocks' = [writeLocks EXCEPT ![d] = NoReq] /\ readersLocks' = readersLocks
        BY <1>5, <2>c DEF Unlock, TakeOut
      <3>3. /\ pc' \in [Proc -> Control] /\ req' \in [Proc -> Req \cup {NoReq}]
            /\ writeLocks' \in [Mutex -> Req \cup {NoReq}] /\ readersLocks' \in [Mutex -> Seq(Req)]
        BY <2>a, <3>1, <3>2 DEF IInv, TypeOK, Control
      <3> HIDE DEF r
      <3>4. AttemptsLinked'
        BY <2>a, <3>1, <3>2 DEF IInv, TypeOK, AttemptsLinked, MutexFree, HeldIn
      <3>5. ArraysLinked'
        <4>1. ASSUME NEW e \in Mutex, NEW s \in Req, HeldIn(s, e), s # r PROVE HeldIn(s, e)'
          BY <3>1, <3>2, <4>1 DEF HeldIn, IInv, TypeOK
        <4>2. \A e \in Mutex : /\ writeLocks'[e] # NoReq => writeLocks'[e] = writeLocks[e] /\ e # d
                               /\ writeLocks[e] \in Req \cup {NoReq}
                               /\ \A k \in 1..Len(readersLocks[e]) : readersLocks[e][k] \in Req
          BY <2>a, <3>2 DEF IInv, TypeOK
        <4>3. ASSUME NEW e \in Mutex, writeLocks'[e] # NoReq
              PROVE  HeldIn(writeLocks[e], e)' /\ ~IsReadLock(writeLocks'[e])
          <5>1. writeLocks'[e] = writeLocks[e] /\ writeLocks[e] \in Req /\ writeLocks[e] # r
                /\ HeldIn(writeLocks[e], e) /\ ~IsReadLock(writeLocks[e])
            BY <3>1, <4>2, <4>3 DEF IInv, ArraysLinked, HeldIn
          <5> QED BY <4>1, <5>1 DEF HeldIn
        <4>4. ASSUME NEW e \in Mutex, NEW k \in 1..Len(readersLocks[e])
              PROVE  HeldIn(readersLocks[e][k], e)' /\ IsReadLock(readersLocks[e][k])
          <5>1. readersLocks[e][k] \in Req /\ readersLocks[e][k] # r
                /\ HeldIn(readersLocks[e][k], e) /\ IsReadLock(readersLocks[e][k])
            BY <3>1, <4>2, <4>4 DEF IInv, ArraysLinked
          <5> QED BY <3>2, <4>1, <5>1 DEF HeldIn
        <4> QED BY <3>2, <4>3, <4>4 DEF IInv, ArraysLinked, HeldIn, IsReadLock
      <3> QED BY <3>3, <3>4, <3>5 DEF ClientsOK
    <2> QED BY <2>b, <2>c
  <1>6. ASSUME NEW p \in Proc, RUnlock(p) PROVE ClientsOK'
    <2> DEFINE d == dmOf[p]
                r == Head(readersLocks[d])
    <2>a. d \in Mutex /\ pc[p] = "held" /\ MutexFree(d)
      BY <1>6, ProcAssumption DEF RUnlock
    <2>b. CASE readersLocks[d] = <<>>
      <3>1. pc' = [pc EXCEPT ![p] = "panic"] /\ UNCHANGED <<stage, req, mutexVars>>
        BY <1>6, <2>b DEF RUnlock, Panic
      <3>2. pc' \in [Proc -> Control] /\ AttemptsLinked'
        BY <2>a, <3>1 DEF IInv, TypeOK, Control, AttemptsLinked
      <3>3. ArraysLinked'
        BY <3>1, StagesFrame DEF IInv
      <3> QED BY <3>1, <3>2, <3>3 DEF ClientsOK, IInv, TypeOK, mutexVars
    <2>c. CASE ~(readersLocks[d] = <<>>)
      <3>1. r \in Req /\ HeldIn(r, d) /\ IsReadLock(r)
        BY <2>a, <2>c, TailFacts DEF IInv, TypeOK, ArraysLinked
      <3>2. /\ pc' = [pc EXCEPT ![p] = "unlock"] /\ req' = [req EXCEPT ![p] = r]
            /\ stage' = [stage EXCEPT ![r] = "unlock"]
            /\ readersLocks' = [readersLocks EXCEPT ![d] = Tail(@)] /\ writeLocks' = writeLocks
        BY <1>6, <2>c DEF RUnlock, TakeOut
      <3>3. /\ pc' \in [Proc -> Control] /\ req' \in [Proc -> Req \cup {NoReq}]
            /\ writeLocks' \in [Mutex -> Req \cup {NoReq}] /\ readersLocks' \in [Mutex -> Seq(Req)]
        BY <2>a, <2>c, <3>1, <3>2, TailFacts DEF IInv, TypeOK, Control
      <3> HIDE DEF r
      <3>4. AttemptsLinked'
        BY <2>a, <3>1, <3>2 DEF IInv, TypeOK, AttemptsLinked, MutexFree, HeldIn
      <3>5. ArraysLinked'
        <4>1. ASSUME NEW e \in Mutex, NEW s \in Req, HeldIn(s, e), s # r PROVE HeldIn(s, e)'
          BY <3>1, <3>2, <4>1 DEF HeldIn, IInv, TypeOK
        <4>2. \A e \in Mutex : writeLocks[e] \in Req \cup {NoReq} /\ readersLocks[e] \in Seq(Req)
          BY DEF IInv, TypeOK
        <4>3. ASSUME NEW e \in Mutex, writeLocks[e] # NoReq
              PROVE  HeldIn(writeLocks[e], e)' /\ ~IsReadLock(writeLocks[e])
          <5>1. writeLocks[e] \in Req /\ writeLocks[e] # r
                /\ HeldIn(writeLocks[e], e) /\ ~IsReadLock(writeLocks[e])
            BY <3>1, <4>2, <4>3 DEF IInv, ArraysLinked
          <5> QED BY <3>2, <4>1, <5>1 DEF HeldIn
        <4>4. ASSUME NEW e \in Mutex, NEW k \in 1..Len(readersLocks'[e])
              PROVE  /\ HeldIn(readersLocks[e][k], e)' /\ IsReadLock(readersLocks'[e][k])
                     /\ \A j \in 1..Len(readersLocks'[e]) :
                           readersLocks'[e][k] = readersLocks'[e][j] => k = j
          <5>1. CASE e = d
            <6>1. /\ readersLocks'[d] = Tail(readersLocks[d]) /\ r = readersLocks[d][1]
                  /\ Len(readersLocks[d]) \in Nat /\ Len(readersLocks'[d]) = Len(readersLocks[d]) - 1
                  /\ \A j \in 1..Len(readersLocks'[d]) :
                        /\ readersLocks'[d][j] = readersLocks[d][j + 1]
                        /\ j + 1 \in 1..Len(readersLocks[d]) /\ j + 1 # 1
                        /\ readersLocks[d][j + 1] \in Req
                  /\ 1 \in 1..Len(readersLocks[d])
              BY <2>a, <2>c, <3>2, <4>2, TailFacts DEF IInv, TypeOK, r
            <6>2. readersLocks[d][k + 1] # r /\ HeldIn(readersLocks[d][k + 1], d)
                  /\ IsReadLock(readersLocks[d][k + 1])
              BY <2>a, <5>1, <6>1 DEF IInv, ArraysLinked
            <6>3. HeldIn(readersLocks[e][k], e)' /\ IsReadLock(readersLocks'[e][k])
              BY <4>1, <5>1, <6>1, <6>2 DEF HeldIn
            <6>4. ASSUME NEW j \in 1..Len(readersLocks'[e]), readersLocks'[e][k] = readersLocks'[e][j]
                  PROVE  k = j
              <7>1. k + 1 = j + 1
                BY <2>a, <5>1, <6>1, <6>4 DEF IInv, ArraysLinked
              <7> QED BY <7>1, <5>1, <6>1
            <6> QED BY <6>3, <6>4
          <5>2. CASE e # d
            <6>1. readersLocks'[e] = readersLocks[e] /\ readersLocks[e][k] \in Req
                  /\ HeldIn(readersLocks[e][k], e) /\ IsReadLock(readersLocks[e][k])
              BY <2>a, <3>2, <4>2, <5>2 DEF IInv, TypeOK, ArraysLinked
            <6>2. readersLocks[e][k] # r
              BY <3>1, <5>2, <6>1 DEF HeldIn
            <6> QED BY <4>1, <6>1, <6>2 DEF IInv, ArraysLinked, HeldIn
          <5> QED BY <5>1, <5>2
        <4> QED BY <3>2, <4>3, <4>4 DEF ArraysLinked, HeldIn, IsReadLock
      <3> QED BY <3>3, <3>4, <3>5 DEF ClientsOK
    <2> QED BY <2>b, <2>c
  <1>7. ASSUME NEW p \in Proc, unlock(p) PROVE ClientsOK'
    <2>0. /\ req[p] \in Req /\ stage[req[p]] = "unlock" /\ pc[p] = "unlock"
          /\ dmOf[ownerOf[req[p]]] = dmOf[p]
          /\ \/ UNCHANGED <<pc, req, stage>>
             \/ /\ stage' = [stage EXCEPT ![req[p]] = "idle"]
                /\ req' = [req EXCEPT ![p] = NoReq]
                /\ pc' = [pc EXCEPT ![p] = "idle"]
          /\ UNCHANGED mutexVars
      BY <1>7 DEF unlock, IInv, AttemptsLinked
    <2>1. /\ pc' \in [Proc -> Control] /\ req' \in [Proc -> Req \cup {NoReq}]
          /\ writeLocks' \in [Mutex -> Req \cup {NoReq}] /\ readersLocks' \in [Mutex -> Seq(Req)]
      BY <2>0 DEF mutexVars, IInv, TypeOK, Control
    <2>2. AttemptsLinked'
      BY <2>0 DEF IInv, TypeOK, AttemptsLinked
    <2>3. ArraysLinked'
      BY <2>0, StagesFrame DEF IInv, TypeOK, mutexVars
    <2> QED BY <2>1, <2>2, <2>3 DEF ClientsOK
  <1>8. ASSUME NEW r \in Req, releaseAll(r) PROVE ClientsOK'
    BY <1>8, ClientsFrame DEF releaseAll, IInv, TypeOK
  <1>9. ASSUME NEW r \in Req, CollectTimeout(r) PROVE ClientsOK'
    BY <1>9, ClientsFrame DEF CollectTimeout, IInv, TypeOK
  <1>10. ASSUME NEW r \in Req, NEW n \in Node, ReceiveGrant(r, n) PROVE ClientsOK'
    BY <1>10, ClientsFrame DEF ReceiveGrant, Collected, IInv, TypeOK
  <1>11. ASSUME NEW r \in Req, NEW n \in Node, ReceiveDenial(r, n) PROVE ClientsOK'
    BY <1>11, ClientsFrame DEF ReceiveDenial, Collected, IInv, TypeOK
  <1>12. ASSUME NEW r \in Req, NEW n \in Node, Drain(r, n) PROVE ClientsOK'
    BY <1>12, ClientsFrame DEF Drain, IInv, TypeOK
  <1>13. ASSUME NEW r \in Req, NEW n \in Node, ServeLock(r, n) PROVE ClientsOK'
    BY <1>13, ClientsFrame DEF ServeLock, IInv, TypeOK
  <1>14. ASSUME NEW r \in Req, NEW n \in Node, CallFails(r, n) PROVE ClientsOK'
    BY <1>14, ClientsFrame DEF CallFails, IInv, TypeOK
  <1>15. ASSUME NEW r \in Req, NEW n \in Node, ReplyLost(r, n) PROVE ClientsOK'
    BY <1>15, ClientsFrame DEF ReplyLost, IInv, TypeOK
  <1>16. ASSUME NEW n \in Node, ServerCrash(n) PROVE ClientsOK'
    BY <1>16, ClientsFrame DEF ServerCrash, IInv, TypeOK
  <1>17. ASSUME NEW n \in Node, ServerRestart(n) PROVE ClientsOK'
    BY <1>17, ClientsFrame DEF ServerRestart, IInv, TypeOK
  <1>18. ASSUME NEW d \in Mutex, ClientCrash(d) PROVE ClientsOK'
    <2>1. /\ pc' \in [Proc -> Control] /\ req' \in [Proc -> Req \cup {NoReq}]
          /\ writeLocks' \in [Mutex -> Req \cup {NoReq}] /\ readersLocks' \in [Mutex -> Seq(Req)]
      BY <1>18 DEF ClientCrash, IInv, TypeOK, Control
    <2>2. AttemptsLinked'
      <3>1. \A q \in Proc : pc'[q] # "idle" =>
              /\ dmOf[q] # d /\ pc'[q] = pc[q] /\ req'[q] = req[q]
              /\ req[q] \in Req /\ dmOf[ownerOf[req[q]]] # d => stage'[req[q]] = stage[req[q]]
        BY <1>18 DEF ClientCrash, IInv, TypeOK
      <3> QED BY <3>1 DEF IInv, TypeOK, AttemptsLinked
    <2>3. ArraysLinked'
      <3>1. \A e \in Mutex :
              /\ e = d => writeLocks'[e] = NoReq /\ readersLocks'[e] = <<>>
              /\ e # d => writeLocks'[e] = writeLocks[e] /\ readersLocks'[e] = readersLocks[e]
              /\ writeLocks[e] # NoReq => writeLocks[e] \in Req
              /\ \A k \in 1..Len(readersLocks[e]) : readersLocks[e][k] \in Req
        BY <1>18 DEF ClientCrash, IInv, TypeOK
      <3>2. ASSUME NEW e \in Mutex, e # d, NEW s \in Req, HeldIn(s, e) PROVE HeldIn(s, e)'
        BY <1>18, <3>2 DEF ClientCrash, HeldIn
      <3> QED BY <3>1, <3>2 DEF IInv, ArraysLinked, IsReadLock, HeldIn
    <2> QED BY <2>1, <2>2, <2>3 DEF ClientsOK
  <1>19. ASSUME NEW r \in Req, NEW n \in Node, CallDelayed(r, n) PROVE ClientsOK'
    BY <1>19, ClientsFrame DEF CallDelayed, IInv, TypeOK
  <1>20. ASSUME NEW r \in Req, NEW n \in Node, ServeStray(r, n) PROVE ClientsOK'
    BY <1>20, ClientsFrame DEF ServeStray, IInv, TypeOK
  <1> QED
    BY <1>1, <1>2, <1>3, <1>4, <1>5, <1>6, <1>7, <1>8, <1>9, <1>10, <1>11, <1>12, <1>13, <1>14, <1>15, <1>16, <1>17, <1>18, <1>19, <1>20
       DEF Next, Goroutine, Collector, Call, Crash

-----------------------------------------------------------------------------
(* The strays: an attempt gives up on a node before it leaves one there. *)

\* What an attempt may have at a node where it has left a stray request.
Quiet == {"none", "denied", "failed"}

\* Steps that leave no new stray and take nothing up where there is one.
LEMMA StraysFrame ==
    ASSUME IInv,
           \A s \in Req, k \in Node :
               stray'[s][k] # "none" =>
                   stray[s][k] # "none" /\ (st[s][k] \in Quiet => st'[s][k] \in Quiet)
    PROVE  StraysApart'
  BY DEF IInv, StraysApart, Quiet

\* A release, delayed or not, ends what its attempt has at the node.
LEMMA StraysRelease ==
    ASSUME IInv, NEW r \in Req, NEW n \in Node, sendRelease(r, n),
           st' = [st EXCEPT ![r][n] = "none"]
    PROVE  StraysApart'
  <1>1. \A s \in Req, k \in Node : st'[s][k] = IF s = r /\ k = n THEN "none" ELSE st[s][k]
    BY DEF IInv, TypeOK
  <1>2. \A s \in Req, k \in Node : s # r \/ k # n => stray'[s][k] = stray[s][k]
    BY DEF sendRelease, serverVars, IInv, TypeOK
  <1> QED
    BY <1>1, <1>2 DEF IInv, StraysApart

\* Every step keeps strays apart from what an attempt has or waits for.
LEMMA StraysStep ==
    ASSUME IInv, Next
    PROVE  StraysApart'
  <1>1. ASSUME NEW p \in Proc, CallLock(p) \/ NextAttempt(p) PROVE StraysApart'
    <2> DEFINE a == CHOOSE r \in FreeSlots(p) : TRUE
    <2>0. /\ a \in Req /\ \A n \in Node : stray[a][n] = "none"
          /\ st' = [st EXCEPT ![a] = [n \in Node |-> "sent"]] /\ stray' = stray
      BY <1>1, FreeSlotChosen DEF CallLock, NextAttempt, Broadcast, serverVars
    <2> HIDE DEF a
    <2> QED BY <2>0, StraysFrame DEF IInv, TypeOK
  <1>2. ASSUME NEW p \in Proc, LockSucceeds(p) PROVE StraysApart'
    BY <1>2, StraysFrame DEF LockSucceeds, serverVars
  <1>3. ASSUME NEW p \in Proc, LockFails(p) \/ GiveUp(p) PROVE StraysApart'
    BY <1>3, StraysFrame DEF LockFails, GiveUp, AttemptFails, serverVars
  <1>4. ASSUME NEW p \in Proc, CopyLocks(p) PROVE StraysApart'
    BY <1>4, StraysFrame DEF CopyLocks, serverVars
  <1>5. ASSUME NEW p \in Proc, Unlock(p) PROVE StraysApart'
    BY <1>5, StraysFrame DEF Unlock, TakeOut, Panic, serverVars
  <1>6. ASSUME NEW p \in Proc, RUnlock(p) PROVE StraysApart'
    BY <1>6, StraysFrame DEF RUnlock, TakeOut, Panic, serverVars
  <1>7. ASSUME NEW p \in Proc, unlock(p) PROVE StraysApart'
    <2>0. req[p] \in Req
      BY <1>7 DEF unlock, IInv, AttemptsLinked
    <2>1. ASSUME NEW n \in Node, sendRelease(req[p], n), st' = [st EXCEPT ![req[p]][n] = "none"]
          PROVE  StraysApart'
      BY <2>0, <2>1, StraysRelease
    <2>2. ASSUME UNCHANGED <<serverVars, st>> PROVE StraysApart'
      BY <2>2, StraysFrame DEF serverVars
    <2> QED BY <1>7, <2>1, <2>2 DEF unlock
  <1>8. ASSUME NEW r \in Req, releaseAll(r) PROVE StraysApart'
    <2>1. ASSUME NEW n \in Node, sendRelease(r, n), st' = [st EXCEPT ![r][n] = "none"]
          PROVE  StraysApart'
      BY <2>1, StraysRelease
    <2>2. ASSUME UNCHANGED <<serverVars, st>> PROVE StraysApart'
      BY <2>2, StraysFrame DEF serverVars
    <2> QED BY <1>8, <2>1, <2>2 DEF releaseAll
  <1>9. ASSUME NEW r \in Req, CollectTimeout(r) PROVE StraysApart'
    <2>1. \A k \in Node : st[r][k] \in Quiet => DropFailed(st[r])[k] \in Quiet
      BY DEF DropFailed, Quiet
    <2> QED BY <1>9, <2>1, StraysFrame DEF CollectTimeout, serverVars, IInv, TypeOK
  <1>10. ASSUME NEW r \in Req, NEW n \in Node, ReceiveGrant(r, n) PROVE StraysApart'
    <2> DEFINE s == [st[r] EXCEPT ![n] = "locked"]
    <2>1. \A k \in Node : st[r][k] \in Quiet => s[k] \in Quiet /\ DropFailed(s)[k] \in Quiet
      BY <1>10 DEF ReceiveGrant, DropFailed, Quiet, IInv, TypeOK
    <2>2. /\ st' \in {[st EXCEPT ![r] = s], [st EXCEPT ![r] = DropFailed(s)]}
          /\ stray' = stray
      BY <1>10 DEF ReceiveGrant, Collected, serverVars
    <2> HIDE DEF s
    <2> QED BY <2>1, <2>2, StraysFrame DEF IInv, TypeOK
  <1>11. ASSUME NEW r \in Req, NEW n \in Node, ReceiveDenial(r, n) PROVE StraysApart'
    <2> DEFINE s == [st[r] EXCEPT ![n] = "failed"]
    <2>1. \A k \in Node : st[r][k] \in Quiet => s[k] \in Quiet /\ DropFailed(s)[k] \in Quiet
      BY <1>11 DEF ReceiveDenial, DropFailed, Quiet, IInv, TypeOK
    <2>2. /\ st' \in {[st EXCEPT ![r] = s], [st EXCEPT ![r] = DropFailed(s)]}
          /\ stray' = stray
      BY <1>11 DEF ReceiveDenial, Collected, serverVars
    <2> HIDE DEF s
    <2> QED BY <2>1, <2>2, StraysFrame DEF IInv, TypeOK
  <1>12. ASSUME NEW r \in Req, NEW n \in Node, Drain(r, n) PROVE StraysApart'
    <2>1. CASE sendRelease(r, n)
      BY <1>12, <2>1, StraysRelease DEF Drain
    <2>2. CASE UNCHANGED serverVars
      <3>1. st' = [st EXCEPT ![r][n] = "none"] /\ stray' = stray
        BY <1>12, <2>2 DEF Drain, serverVars
      <3> QED BY <3>1, StraysFrame DEF IInv, TypeOK, Quiet
    <2> QED BY <1>12, <2>1, <2>2 DEF Drain
  <1>13. ASSUME NEW r \in Req, NEW n \in Node, ServeLock(r, n) PROVE StraysApart'
    <2>1. /\ st[r][n] = "sent" /\ stray' = stray
          /\ \A s \in Req, k \in Node : s # r \/ k # n => st'[s][k] = st[s][k]
      BY <1>13 DEF ServeLock, IInv, TypeOK
    <2> QED BY <2>1, StraysFrame DEF Quiet
  <1>14. ASSUME NEW r \in Req, NEW n \in Node, CallFails(r, n) PROVE StraysApart'
    <2>1. /\ st[r][n] = "sent" /\ stray' = stray
          /\ \A s \in Req, k \in Node : s # r \/ k # n => st'[s][k] = st[s][k]
      BY <1>14 DEF CallFails, IInv, TypeOK
    <2> QED BY <2>1, StraysFrame DEF Quiet
  <1>15. ASSUME NEW r \in Req, NEW n \in Node, ReplyLost(r, n) PROVE StraysApart'
    <2>1. /\ st[r][n] = "sent" /\ stray' = stray
          /\ \A s \in Req, k \in Node : s # r \/ k # n => st'[s][k] = st[s][k]
      BY <1>15 DEF ReplyLost, IInv, TypeOK
    <2> QED BY <2>1, StraysFrame DEF Quiet
  <1>16. ASSUME NEW n \in Node, ServerCrash(n) PROVE StraysApart'
    BY <1>16, StraysFrame DEF ServerCrash, IInv, TypeOK
  <1>17. ASSUME NEW n \in Node, ServerRestart(n) PROVE StraysApart'
    BY <1>17, StraysFrame DEF ServerRestart
  <1>18. ASSUME NEW d \in Mutex, ClientCrash(d) PROVE StraysApart'
    <2>1. \A s \in Req, k \in Node : st[s][k] \in Quiet => st'[s][k] \in Quiet
      BY <1>18 DEF ClientCrash, Quiet, IInv, TypeOK
    <2> QED BY <1>18, <2>1, StraysFrame DEF ClientCrash
  <1>19. ASSUME NEW r \in Req, NEW n \in Node, CallDelayed(r, n) PROVE StraysApart'
    <2>1. \A s \in Req, k \in Node :
            IF s = r /\ k = n THEN st'[s][k] = "denied"
            ELSE st'[s][k] = st[s][k] /\ stray'[s][k] = stray[s][k]
      BY <1>19 DEF CallDelayed, IInv, TypeOK
    <2> QED BY <2>1 DEF IInv, StraysApart
  <1>20. ASSUME NEW r \in Req, NEW n \in Node, ServeStray(r, n) PROVE StraysApart'
    BY <1>20, StraysFrame DEF ServeStray, IInv, TypeOK
  <1> QED
    BY <1>1, <1>2, <1>3, <1>4, <1>5, <1>6, <1>7, <1>8, <1>9, <1>10, <1>11, <1>12, <1>13, <1>14, <1>15, <1>16, <1>17, <1>18, <1>19, <1>20
       DEF Next, Goroutine, Collector, Call, Crash

-----------------------------------------------------------------------------
(* The grants: what the clients believe, the servers have. *)

\* Steps that change no table and add no belief.
LEMMA BackedFrame ==
    ASSUME IInv, lockMap' = lockMap, forgot' = forgot,
           \A s \in Req, k \in Node :
               /\ st'[s][k] \in {"granted", "locked"} => st[s][k] \in {"granted", "locked"}
               /\ stray'[s][k] = "unlock" => stray[s][k] = "unlock"
    PROVE  GrantsBacked'
  <1> SUFFICES ASSUME NEW k \in Node \ forgot PROVE Backed(Outstanding(k), lockMap[k])'
    BY DEF GrantsBacked
  <1>1. Outstanding(k)' \in SUBSET Outstanding(k) /\ Outstanding(k) \in SUBSET Req
    BY DEF Outstanding
  <1>2. Backed(Outstanding(k), lockMap[k]) /\ lockMap[k] \in Table
    BY DEF IInv, GrantsBacked, TypeOK
  <1>3. Backed(Outstanding(k)', lockMap[k])
    BY <1>1, <1>2, BackedShrink
  <1> QED
    BY <1>3 DEF Backed, IsReadLock, UidOf

\* Steps that change no table and no belief.
LEMMA BackedSame ==
    ASSUME IInv, NEW k \in Node \ forgot, Outstanding(k)' = Outstanding(k), lockMap'[k] = lockMap[k]
    PROVE  Backed(Outstanding(k), lockMap[k])'
  BY DEF IInv, GrantsBacked, Backed, IsReadLock, UidOf

\* A server that handles a release takes one belief out of its table.
LEMMA BackedHandled ==
    ASSUME IInv, NEW r \in Req, NEW n \in Node \ forgot, r \in Outstanding(n),
           Outstanding(n)' = Outstanding(n) \ {r},
           lockMap' = [lockMap EXCEPT ![n] = AfterUnlock(@, UidOf(r), IsReadLock(r))]
    PROVE  Backed(Outstanding(n), lockMap[n])'
  <1>1. Outstanding(n) \in SUBSET Req /\ lockMap[n] \in Table /\ TableSound(lockMap[n])
        /\ Backed(Outstanding(n), lockMap[n])
    BY DEF Outstanding, IInv, TypeOK, TablesSound, GrantsBacked
  <1>2. lockMap'[n] = AfterUnlock(lockMap[n], UidOf(r), IsReadLock(r))
    BY DEF IInv, TypeOK
  <1>3. Backed(Outstanding(n)', lockMap'[n])
    BY <1>1, <1>2, BackedRelease
  <1> QED
    BY <1>3 DEF Backed, IsReadLock, UidOf

\* A release call for a grant of its attempt, delivered, lost or delayed.
LEMMA BackedSendRelease ==
    ASSUME IInv, NEW r \in Req, NEW n \in Node, sendRelease(r, n),
           st[r][n] \in {"granted", "locked"}, st' = [st EXCEPT ![r][n] = "none"]
    PROVE  GrantsBacked'
  <1>0. /\ \A s \in Req, k \in Node :
              st'[s][k] = IF s = r /\ k = n THEN "none" ELSE st[s][k]
        /\ forgot' = forgot
        /\ stray[r][n] = "none"
    BY DEF IInv, TypeOK, StraysApart, sendRelease, serverVars
  <1>1. CASE lockMap' = lockMap /\ stray' = stray
    BY <1>0, <1>1, BackedFrame
  <1>2. CASE /\ lockMap' = [lockMap EXCEPT ![n] = AfterUnlock(@, UidOf(r), IsReadLock(r))]
             /\ stray' = stray
    <2> SUFFICES ASSUME NEW k \in Node \ forgot PROVE Backed(Outstanding(k), lockMap[k])'
      BY <1>0 DEF GrantsBacked
    <2>1. CASE k = n
      <3>1. r \in Outstanding(n) /\ Outstanding(n)' = Outstanding(n) \ {r}
        BY <1>0, <1>2 DEF Outstanding
      <3> QED BY <1>2, <2>1, <3>1, BackedHandled
    <2>2. CASE k # n
      <3>1. Outstanding(k)' = Outstanding(k) /\ lockMap'[k] = lockMap[k]
        BY <1>0, <1>2, <2>2 DEF Outstanding, IInv, TypeOK
      <3> QED BY <3>1, BackedSame
    <2> QED BY <2>1, <2>2
  <1>3. CASE lockMap' = lockMap /\ stray' = [stray EXCEPT ![r][n] = "unlock"]
    <2> SUFFICES ASSUME NEW k \in Node \ forgot PROVE Backed(Outstanding(k), lockMap[k])'
      BY <1>0 DEF GrantsBacked
    <2>1. \A s \in Req : stray'[s][k] = IF s = r /\ k = n THEN "unlock" ELSE stray[s][k]
      BY <1>3 DEF IInv, TypeOK
    <2>2. Outstanding(k)' = Outstanding(k) /\ lockMap'[k] = lockMap[k]
      BY <1>0, <1>3, <2>1 DEF Outstanding
    <2> QED BY <2>2, BackedSame
  <1> QED
    BY <1>1, <1>2, <1>3 DEF sendRelease, serverVars

\* A lock call or a release that its server handles when its caller is gone.
LEMMA BackedStray ==
    ASSUME IInv, NEW r \in Req, NEW n \in Node, ServeStray(r, n)
    PROVE  GrantsBacked'
  <1>0. /\ st' = st /\ forgot' = forgot /\ stray' = [stray EXCEPT ![r][n] = "none"]
        /\ \A s \in Req, k \in Node :
              stray'[s][k] = IF s = r /\ k = n THEN "none" ELSE stray[s][k]
        /\ stray[r][n] \in {"lock", "unlock"}
        /\ st[r][n] \notin {"granted", "locked"}
    BY DEF ServeStray, IInv, TypeOK, Stray, StraysApart
  <1> SUFFICES ASSUME NEW k \in Node \ forgot PROVE Backed(Outstanding(k), lockMap[k])'
    BY <1>0 DEF GrantsBacked
  <1>1. CASE k # n
    <2>1. Outstanding(k)' = Outstanding(k) /\ lockMap'[k] = lockMap[k]
      BY <1>0, <1>1 DEF Outstanding, ServeStray, IInv, TypeOK
    <2> QED BY <2>1, BackedSame
  <1>2. CASE k = n /\ stray[r][n] = "unlock"
    <2>1. r \in Outstanding(n) /\ Outstanding(n)' = Outstanding(n) \ {r}
      BY <1>0, <1>2 DEF Outstanding
    <2>2. lockMap' = [lockMap EXCEPT ![n] = AfterUnlock(@, UidOf(r), IsReadLock(r))]
      BY <1>2 DEF ServeStray
    <2> QED BY <1>2, <2>1, <2>2, BackedHandled
  <1>3. CASE k = n /\ stray[r][n] = "lock"
    <2>1. Outstanding(k)' = Outstanding(k)
      BY <1>0, <1>3 DEF Outstanding
    <2>2. lockMap'[k] = AfterLock(lockMap[k], UidOf(r), IsReadLock(r))
      BY <1>3 DEF ServeStray, IInv, TypeOK
    <2>3. UidOf(r) \in Uid /\ IsReadLock(r) \in BOOLEAN
      BY ProcAssumption DEF UidOf, IsReadLock
    <2>4. Outstanding(k) \in SUBSET Req /\ lockMap[k] \in Table /\ Backed(Outstanding(k), lockMap[k])
      BY DEF Outstanding, IInv, TypeOK, GrantsBacked
    <2>5. Backed(Outstanding(k)', lockMap'[k])
      BY <2>1, <2>2, <2>3, <2>4, BackedGrow
    <2> QED BY <2>5 DEF Backed, IsReadLock, UidOf
  <1> QED
    BY <1>0, <1>1, <1>2, <1>3

\* A lock call that reaches its server, and whose answer is received or lost.
LEMMA BackedServe ==
    ASSUME IInv, NEW r \in Req, NEW n \in Node, st[r][n] = "sent", forgot' = forgot,
           lockMap' = [lockMap EXCEPT ![n] = AfterLock(@, UidOf(r), IsReadLock(r))],
           stray' = stray, NEW v \in {"granted", "denied"}, st' = [st EXCEPT ![r][n] = v],
           v = "granted" => Grants(lockMap[n], IsReadLock(r))
    PROVE  GrantsBacked'
  <1>0. \A s \in Req, k \in Node : st'[s][k] = IF s = r /\ k = n THEN v ELSE st[s][k]
    BY DEF IInv, TypeOK
  <1> SUFFICES ASSUME NEW k \in Node \ forgot PROVE Backed(Outstanding(k), lockMap[k])'
    BY <1>0 DEF GrantsBacked
  <1>1. Outstanding(k) \in SUBSET Req /\ lockMap[k] \in Table /\ TableSound(lockMap[k])
        /\ Backed(Outstanding(k), lockMap[k])
    BY DEF Outstanding, IInv, TypeOK, TablesSound, GrantsBacked
  <1>2. CASE k = n
    <2>1. lockMap'[k] = AfterLock(lockMap[k], UidOf(r), IsReadLock(r)) /\ r \notin Outstanding(k)
      BY <1>2 DEF IInv, TypeOK, StraysApart, Outstanding
    <2>2. CASE v = "granted"
      <3>1. Outstanding(k)' = Outstanding(k) \cup {r}
        BY <1>0, <1>2, <2>2 DEF Outstanding
      <3>2. Backed(Outstanding(k)', lockMap'[k])
        BY <1>1, <1>2, <2>1, <2>2, <3>1, BackedGrant
      <3> QED BY <3>2 DEF Backed, IsReadLock, UidOf
    <2>3. CASE v = "denied"
      <3>1. Outstanding(k)' = Outstanding(k)
        BY <1>0, <1>2, <2>3 DEF Outstanding
      <3>2. UidOf(r) \in Uid /\ IsReadLock(r) \in BOOLEAN
        BY ProcAssumption DEF UidOf, IsReadLock
      <3>3. Backed(Outstanding(k)', lockMap'[k])
        BY <1>1, <2>1, <3>1, <3>2, BackedGrow
      <3> QED BY <3>3 DEF Backed, IsReadLock, UidOf
    <2> QED BY <2>2, <2>3
  <1>3. CASE k # n
    <2>1. Outstanding(k)' = Outstanding(k) /\ lockMap'[k] = lockMap[k]
      BY <1>0, <1>3 DEF Outstanding, IInv, TypeOK
    <2> QED BY <2>1, BackedSame
  <1> QED
    BY <1>2, <1>3

\* Every step keeps the grants of servers that never crashed backed.
LEMMA GrantsStep ==
    ASSUME IInv, Next
    PROVE  GrantsBacked'
  <1>1. ASSUME NEW p \in Proc, CallLock(p) \/ NextAttempt(p) PROVE GrantsBacked'
    <2> DEFINE a == CHOOSE r \in FreeSlots(p) : TRUE
    <2>0. st' = [st EXCEPT ![a] = [n \in Node |-> "sent"]] /\ lockMap' = lockMap /\ forgot' = forgot /\ stray' = stray
      BY <1>1 DEF CallLock, NextAttempt, Broadcast, serverVars
    <2> HIDE DEF a
    <2>1. \A s \in Req, k \in Node :
              st'[s][k] \in {"granted", "locked"} => st[s][k] \in {"granted", "locked"}
      BY <2>0 DEF IInv, TypeOK
    <2> QED BY <2>0, <2>1, BackedFrame
  <1>2. ASSUME NEW p \in Proc, LockSucceeds(p) PROVE GrantsBacked'
    BY <1>2, BackedFrame DEF LockSucceeds, serverVars
  <1>3. ASSUME NEW p \in Proc, LockFails(p) \/ GiveUp(p) PROVE GrantsBacked'
    BY <1>3, BackedFrame DEF LockFails, GiveUp, AttemptFails, serverVars
  <1>4. ASSUME NEW p \in Proc, CopyLocks(p) PROVE GrantsBacked'
    BY <1>4, BackedFrame DEF CopyLocks, serverVars
  <1>5. ASSUME NEW p \in Proc, Unlock(p) PROVE GrantsBacked'
    BY <1>5, BackedFrame DEF Unlock, TakeOut, Panic, serverVars
  <1>6. ASSUME NEW p \in Proc, RUnlock(p) PROVE GrantsBacked'
    BY <1>6, BackedFrame DEF RUnlock, TakeOut, Panic, serverVars
  <1>7. ASSUME NEW p \in Proc, unlock(p) PROVE GrantsBacked'
    <2>0. req[p] \in Req
      BY <1>7 DEF unlock, IInv, AttemptsLinked
    <2>1. ASSUME NEW n \in Node, FirstLocked(req[p], n), sendRelease(req[p], n),
                 st' = [st EXCEPT ![req[p]][n] = "none"]
          PROVE  GrantsBacked'
      BY <2>0, <2>1, BackedSendRelease DEF FirstLocked, LockedNodes
    <2>2. ASSUME UNCHANGED <<serverVars, st>> PROVE GrantsBacked'
      BY <2>2, BackedFrame DEF serverVars
    <2> QED BY <1>7, <2>1, <2>2 DEF unlock
  <1>8. ASSUME NEW r \in Req, releaseAll(r) PROVE GrantsBacked'
    <2>0. r \in Req
      BY <1>8 DEF releaseAll, IInv, AttemptsLinked
    <2>1. ASSUME NEW n \in Node, FirstLocked(r, n), sendRelease(r, n),
                 st' = [st EXCEPT ![r][n] = "none"]
          PROVE  GrantsBacked'
      BY <2>0, <2>1, BackedSendRelease DEF FirstLocked, LockedNodes
    <2>2. ASSUME UNCHANGED <<serverVars, st>> PROVE GrantsBacked'
      BY <2>2, BackedFrame DEF serverVars
    <2> QED BY <1>8, <2>1, <2>2 DEF releaseAll
  <1>9. ASSUME NEW r \in Req, CollectTimeout(r) PROVE GrantsBacked'
    <2>1. \A k \in Node : DropFailed(st[r])[k] \in {"granted", "locked"} => st[r][k] \in {"granted", "locked"}
      BY DEF DropFailed
    <2> QED BY <1>9, <2>1, BackedFrame DEF CollectTimeout, serverVars, IInv, TypeOK
  <1>10. ASSUME NEW r \in Req, NEW n \in Node, ReceiveGrant(r, n) PROVE GrantsBacked'
    <2> DEFINE s == [st[r] EXCEPT ![n] = "locked"]
    <2>1. \A k \in Node : /\ s[k] \in {"granted", "locked"} => st[r][k] \in {"granted", "locked"}
                          /\ DropFailed(s)[k] \in {"granted", "locked"} => st[r][k] \in {"granted", "locked"}
      BY <1>10 DEF ReceiveGrant, DropFailed, IInv, TypeOK
    <2>2. /\ st' \in {[st EXCEPT ![r] = s], [st EXCEPT ![r] = DropFailed(s)]}
          /\ lockMap' = lockMap /\ forgot' = forgot /\ stray' = stray
      BY <1>10 DEF ReceiveGrant, Collected, serverVars
    <2> HIDE DEF s
    <2> QED BY <2>1, <2>2, BackedFrame DEF IInv, TypeOK
  <1>11. ASSUME NEW r \in Req, NEW n \in Node, ReceiveDenial(r, n) PROVE GrantsBacked'
    <2> DEFINE s == [st[r] EXCEPT ![n] = "failed"]
    <2>1. \A k \in Node : /\ s[k] \in {"granted", "locked"} => st[r][k] \in {"granted", "locked"}
                          /\ DropFailed(s)[k] \in {"granted", "locked"} => st[r][k] \in {"granted", "locked"}
      BY <1>11 DEF ReceiveDenial, DropFailed, IInv, TypeOK
    <2>2. /\ st' \in {[st EXCEPT ![r] = s], [st EXCEPT ![r] = DropFailed(s)]}
          /\ lockMap' = lockMap /\ forgot' = forgot /\ stray' = stray
      BY <1>11 DEF ReceiveDenial, Collected, serverVars
    <2> HIDE DEF s
    <2> QED BY <2>1, <2>2, BackedFrame DEF IInv, TypeOK
  <1>12. ASSUME NEW r \in Req, NEW n \in Node, Drain(r, n) PROVE GrantsBacked'
    <2>1. CASE st[r][n] = "granted" /\ sendRelease(r, n)
      BY <1>12, <2>1, BackedSendRelease DEF Drain
    <2>2. CASE UNCHANGED serverVars
      <3>1. st' = [st EXCEPT ![r][n] = "none"] /\ lockMap' = lockMap /\ forgot' = forgot /\ stray' = stray
        BY <1>12, <2>2 DEF Drain, serverVars
      <3> QED BY <3>1, BackedFrame DEF IInv, TypeOK
    <2> QED BY <1>12, <2>1, <2>2 DEF Drain
  <1>13. ASSUME NEW r \in Req, NEW n \in Node, ServeLock(r, n) PROVE GrantsBacked'
    <2> DEFINE v == IF Grants(lockMap[n], IsReadLock(r)) THEN "granted" ELSE "denied"
    <2>1. st' = [st EXCEPT ![r][n] = v]
      BY <1>13 DEF ServeLock
    <2>2. v \in {"granted", "denied"} /\ (v = "granted" => Grants(lockMap[n], IsReadLock(r)))
      OBVIOUS
    <2> HIDE DEF v
    <2> QED BY <1>13, <2>1, <2>2, BackedServe DEF ServeLock
  <1>14. ASSUME NEW r \in Req, NEW n \in Node, CallFails(r, n) PROVE GrantsBacked'
    <2>1. st' = [st EXCEPT ![r][n] = "denied"] /\ lockMap' = lockMap /\ forgot' = forgot /\ stray' = stray
      BY <1>14 DEF CallFails
    <2> QED BY <2>1, BackedFrame DEF IInv, TypeOK
  <1>15. ASSUME NEW r \in Req, NEW n \in Node, ReplyLost(r, n) PROVE GrantsBacked'
    BY <1>15, BackedServe DEF ReplyLost
  <1>16. ASSUME NEW n \in Node, ServerCrash(n) PROVE GrantsBacked'
    <2> SUFFICES ASSUME NEW k \in Node \ forgot' PROVE Backed(Outstanding(k), lockMap[k])'
      BY DEF GrantsBacked
    <2>1. k \in Node \ forgot /\ lockMap'[k] = lockMap[k] /\ Outstanding(k)' = Outstanding(k)
      BY <1>16 DEF ServerCrash, IInv, TypeOK, Outstanding
    <2> QED BY <2>1, BackedSame
  <1>17. ASSUME NEW n \in Node, ServerRestart(n) PROVE GrantsBacked'
    BY <1>17, BackedFrame DEF ServerRestart, serverVars
  <1>18. ASSUME NEW d \in Mutex, ClientCrash(d) PROVE GrantsBacked'
    <2>1. \A s \in Req, k \in Node :
              st'[s][k] \in {"granted", "locked"} => st[s][k] \in {"granted", "locked"}
      BY <1>18 DEF ClientCrash, IInv, TypeOK
    <2> QED BY <1>18, <2>1, BackedFrame DEF ClientCrash
  <1>19. ASSUME NEW r \in Req, NEW n \in Node, CallDelayed(r, n) PROVE GrantsBacked'
    <2>1. /\ st' = [st EXCEPT ![r][n] = "denied"] /\ stray' = [stray EXCEPT ![r][n] = "lock"]
          /\ lockMap' = lockMap /\ forgot' = forgot
      BY <1>19 DEF CallDelayed
    <2> QED BY <2>1, BackedFrame DEF IInv, TypeOK
  <1>20. ASSUME NEW r \in Req, NEW n \in Node, ServeStray(r, n) PROVE GrantsBacked'
    BY <1>20, BackedStray
  <1> QED
    BY <1>1, <1>2, <1>3, <1>4, <1>5, <1>6, <1>7, <1>8, <1>9, <1>10, <1>11, <1>12, <1>13, <1>14, <1>15, <1>16, <1>17, <1>18, <1>19, <1>20
       DEF Next, Goroutine, Collector, Call, Crash

-----------------------------------------------------------------------------
(* The holders: quorums intersect, so writers and readers exclude each other. *)

\* Two attempts with quorums, one of them a writer's, can only exist when
\* servers that they share have crashed.
LEMMA Conflict ==
    ASSUME IInv, NEW r \in Req, NEW s \in Req, r # s,
           ~IsReadLock(r), quorumMet(r), quorumMet(s)
    PROVE  /\ ~IsReadLock(s) => ~(Cardinality(forgot) < CrashMargin)
           /\ forgot # {}
  <1> DEFINE A == LockedNodes(r)
             B == LockedNodes(s)
  <1>1. A \in SUBSET Node /\ B \in SUBSET Node
    BY DEF LockedNodes
  <1>2. A \cap B \subseteq forgot
    <2> SUFFICES ASSUME NEW n \in A \cap B, n \notin forgot PROVE FALSE
      OBVIOUS
    <2>1. n \in Node /\ r \in Outstanding(n) /\ s \in Outstanding(n)
      BY DEF LockedNodes, Outstanding
    <2> QED BY <2>1 DEF IInv, GrantsBacked, Backed
  <1>3. IsFiniteSet(A \cap B) /\ Cardinality(A) + Cardinality(B) - dNodeCount <= Cardinality(A \cap B)
    BY <1>1, Overlap
  <1>4. IsFiniteSet(forgot) /\ Cardinality(forgot) \in Nat
    BY NodeFinite, FS_Subset, FS_CardinalityType DEF IInv, TypeOK
  <1>5. Cardinality(A \cap B) <= Cardinality(forgot)
    BY <1>2, <1>4, FS_Subset
  <1>6. Cardinality(A) >= dquorum /\ Cardinality(B) >= IF IsReadLock(s) THEN dquorumReads ELSE dquorum
    BY DEF quorumMet, Quorum
  <1>7. Cardinality(A) \in Nat /\ Cardinality(B) \in Nat /\ Cardinality(A \cap B) \in Nat
    <2>1. IsFiniteSet(A) /\ IsFiniteSet(B)
      BY <1>1, NodeFinite, FS_Subset
    <2> QED BY <1>3, <2>1, FS_CardinalityType
  <1> HIDE DEF A, B
  <1>8. ~IsReadLock(s) => Cardinality(forgot) >= CrashMargin
    BY <1>3, <1>4, <1>5, <1>6, <1>7, QuorumNat
  <1>9. Cardinality(forgot) >= 1
    <2>1. CASE IsReadLock(s)
      BY <1>3, <1>4, <1>5, <1>6, <1>7, <2>1, QuorumNat
    <2>2. CASE ~IsReadLock(s)
      BY <1>4, <1>8, <2>2, QuorumNat
    <2> QED BY <2>1, <2>2
  <1>10. forgot # {}
    BY <1>9, FS_EmptySet
  <1> QED
    BY <1>4, <1>8, <1>10, QuorumNat

\* A writer that is in has a write quorum somewhere.
LEMMA WriterAttempt ==
    ASSUME IInv, Cardinality(forgot) < CrashMargin, NEW q \in Proc \ Reader, Holding(q)
    PROVE  \E s \in Req : ~IsReadLock(s) /\ quorumMet(s) /\ stage[s] \in {"won", "held"}
  <1>1. CASE pc[q] = "won"
    <2>1. req[q] \in Req /\ ownerOf[req[q]] = q /\ stage[req[q]] = "won"
      BY <1>1 DEF IInv, AttemptsLinked
    <2> QED BY <2>1 DEF IInv, QuorumKept, IsReadLock
  <1>2. CASE pc[q] = "held"
    <2>1. dmOf[q] \in Mutex /\ writeLocks[dmOf[q]] \in Req
      BY <1>2, ProcAssumption DEF IInv, WriterStored, TypeOK
    <2>2. stage[writeLocks[dmOf[q]]] = "held" /\ ~IsReadLock(writeLocks[dmOf[q]])
      BY <2>1, ProcAssumption DEF IInv, ArraysLinked, HeldIn
    <2> QED BY <2>1, <2>2 DEF IInv, QuorumKept
  <1> QED
    BY <1>1, <1>2 DEF Holding

\* The readers of DRWMutex d that are in.
ReadersIn(d) == {p \in Reader : dmOf[p] = d /\ pc[p] = "held"}

\* They are finitely many.
LEMMA ReadersFinite ==
    ASSUME NEW S \in SUBSET Reader
    PROVE  IsFiniteSet(S) /\ Cardinality(S) \in Nat
  <1>1. S \in SUBSET Proc
    BY ProcAssumption
  <1> QED
    BY <1>1, ProcAssumption, FS_Subset, FS_CardinalityType

\* With a reader in, readersLocks is not empty.
LEMMA ReadersStored ==
    ASSUME IInv, NEW q \in Reader, pc[q] = "held"
    PROVE  dmOf[q] \in Mutex /\ readersLocks[dmOf[q]] # <<>> /\ Len(readersLocks[dmOf[q]]) >= 1
  <1> DEFINE d == dmOf[q]
  <1>1. d \in Mutex
    BY ProcAssumption
  <1>2. ReadersIn(d) \in SUBSET Reader /\ q \in ReadersIn(d)
    BY DEF ReadersIn
  <1>3. Cardinality(ReadersIn(d)) \in Nat /\ Cardinality(ReadersIn(d)) # 0
    BY <1>2, ReadersFinite, FS_EmptySet
  <1>4. Cardinality(ReadersIn(d)) = Len(readersLocks[d])
    BY <1>1 DEF IInv, ReadersCounted, ReadersIn
  <1> QED
    BY <1>1, <1>3, <1>4 DEF IInv, TypeOK

\* A reader that is in has a read quorum somewhere, its own or that of another
\* reader with the same DRWMutex whose RUnlock took the older array.
LEMMA ReaderAttempt ==
    ASSUME IInv, NEW q \in Reader, Holding(q)
    PROVE  \E s \in Req : IsReadLock(s) /\ quorumMet(s) /\ stage[s] \in {"won", "held"}
  <1>1. CASE pc[q] = "won"
    <2>1. req[q] \in Req /\ ownerOf[req[q]] = q /\ stage[req[q]] = "won"
      BY <1>1, ProcAssumption DEF IInv, AttemptsLinked
    <2> QED BY <2>1 DEF IInv, QuorumKept, IsReadLock
  <1>2. CASE pc[q] = "held"
    <2> DEFINE s == readersLocks[dmOf[q]][1]
    <2>1. dmOf[q] \in Mutex /\ 1 \in 1..Len(readersLocks[dmOf[q]])
      BY <1>2, ReadersStored DEF IInv, TypeOK
    <2>2. s \in Req /\ stage[s] = "held" /\ IsReadLock(s)
      BY <2>1 DEF IInv, TypeOK, ArraysLinked, HeldIn
    <2> QED BY <2>2 DEF IInv, QuorumKept
  <1> QED
    BY <1>1, <1>2 DEF Holding

\* A server that lost its table stays marked.
LEMMA ForgotGrows ==
    ASSUME IInv, Next
    PROVE  forgot \subseteq forgot'
  <1>1. ASSUME NEW p \in Proc, CallLock(p) \/ NextAttempt(p) PROVE forgot \subseteq forgot'
    BY <1>1 DEF CallLock, NextAttempt, Broadcast, serverVars
  <1>2. ASSUME NEW p \in Proc, LockSucceeds(p) PROVE forgot \subseteq forgot'
    BY <1>2 DEF LockSucceeds, serverVars
  <1>3. ASSUME NEW p \in Proc, LockFails(p) \/ GiveUp(p) PROVE forgot \subseteq forgot'
    BY <1>3 DEF LockFails, GiveUp, AttemptFails, serverVars
  <1>4. ASSUME NEW p \in Proc, CopyLocks(p) PROVE forgot \subseteq forgot'
    BY <1>4 DEF CopyLocks, serverVars
  <1>5. ASSUME NEW p \in Proc, Unlock(p) PROVE forgot \subseteq forgot'
    BY <1>5 DEF Unlock, TakeOut, Panic, serverVars
  <1>6. ASSUME NEW p \in Proc, RUnlock(p) PROVE forgot \subseteq forgot'
    BY <1>6 DEF RUnlock, TakeOut, Panic, serverVars
  <1>7. ASSUME NEW p \in Proc, unlock(p) PROVE forgot \subseteq forgot'
    BY <1>7 DEF unlock, sendRelease, serverVars
  <1>8. ASSUME NEW r \in Req, releaseAll(r) PROVE forgot \subseteq forgot'
    BY <1>8 DEF releaseAll, sendRelease, serverVars
  <1>9. ASSUME NEW r \in Req, CollectTimeout(r) PROVE forgot \subseteq forgot'
    BY <1>9 DEF CollectTimeout, serverVars
  <1>10. ASSUME NEW r \in Req, NEW n \in Node, ReceiveGrant(r, n) PROVE forgot \subseteq forgot'
    BY <1>10 DEF ReceiveGrant, Collected, serverVars
  <1>11. ASSUME NEW r \in Req, NEW n \in Node, ReceiveDenial(r, n) PROVE forgot \subseteq forgot'
    BY <1>11 DEF ReceiveDenial, Collected, serverVars
  <1>12. ASSUME NEW r \in Req, NEW n \in Node, Drain(r, n) PROVE forgot \subseteq forgot'
    BY <1>12 DEF Drain, sendRelease, serverVars
  <1>13. ASSUME NEW r \in Req, NEW n \in Node, ServeLock(r, n) PROVE forgot \subseteq forgot'
    BY <1>13 DEF ServeLock, serverVars
  <1>14. ASSUME NEW r \in Req, NEW n \in Node, CallFails(r, n) PROVE forgot \subseteq forgot'
    BY <1>14 DEF CallFails, serverVars
  <1>15. ASSUME NEW r \in Req, NEW n \in Node, ReplyLost(r, n) PROVE forgot \subseteq forgot'
    BY <1>15 DEF ReplyLost, serverVars
  <1>16. ASSUME NEW n \in Node, ServerCrash(n) PROVE forgot \subseteq forgot'
    BY <1>16 DEF ServerCrash, serverVars
  <1>17. ASSUME NEW n \in Node, ServerRestart(n) PROVE forgot \subseteq forgot'
    BY <1>17 DEF ServerRestart, serverVars
  <1>18. ASSUME NEW d \in Mutex, ClientCrash(d) PROVE forgot \subseteq forgot'
    BY <1>18 DEF ClientCrash, serverVars
  <1>19. ASSUME NEW r \in Req, NEW n \in Node, CallDelayed(r, n) PROVE forgot \subseteq forgot'
    BY <1>19 DEF CallDelayed
  <1>20. ASSUME NEW r \in Req, NEW n \in Node, ServeStray(r, n) PROVE forgot \subseteq forgot'
    BY <1>20 DEF ServeStray
  <1> QED
    BY <1>1, <1>2, <1>3, <1>4, <1>5, <1>6, <1>7, <1>8, <1>9, <1>10, <1>11, <1>12, <1>13, <1>14, <1>15, <1>16, <1>17, <1>18, <1>19, <1>20
       DEF Next, Goroutine, Collector, Call, Crash

\* Later on, no fewer servers have crashed.
LEMMA MarginShrinks ==
    ASSUME IInv, Next, Cardinality(forgot') < CrashMargin
    PROVE  Cardinality(forgot) < CrashMargin
  <1>1. IsFiniteSet(forgot') /\ forgot \in SUBSET forgot'
    BY ServersStep, ForgotGrows, NodeFinite, FS_Subset DEF ServersOK
  <1>2. Cardinality(forgot) <= Cardinality(forgot') /\ IsFiniteSet(forgot)
    BY <1>1, FS_Subset
  <1> QED
    BY <1>1, <1>2, FS_CardinalityType, QuorumNat

\* Steps in which no reader comes in or leaves.
LEMMA CountFrame ==
    ASSUME IInv, readersLocks' = readersLocks,
           \A q \in Reader : pc'[q] = "held" <=> pc[q] = "held"
    PROVE  ReadersCounted'
  <1>1. \A d \in Mutex : ReadersIn(d)' = ReadersIn(d)
    BY DEF ReadersIn
  <1> QED
    BY <1>1 DEF IInv, ReadersCounted, ReadersIn

\* Every step keeps one array of readersLocks per reader.
LEMMA CountStep ==
    ASSUME IInv, Next
    PROVE  ReadersCounted'
  <1>1. ASSUME NEW p \in Proc, CallLock(p) \/ NextAttempt(p) PROVE ReadersCounted'
    <2>1. readersLocks' = readersLocks /\ \A q \in Reader : pc'[q] = "held" <=> pc[q] = "held"
      BY <1>1, ProcAssumption DEF CallLock, NextAttempt, Broadcast, IInv, TypeOK, mutexVars
    <2> QED BY <2>1, CountFrame
  <1>2. ASSUME NEW p \in Proc, LockSucceeds(p) PROVE ReadersCounted'
    <2>1. readersLocks' = readersLocks /\ \A q \in Reader : pc'[q] = "held" <=> pc[q] = "held"
      BY <1>2, ProcAssumption DEF LockSucceeds, IInv, TypeOK, mutexVars
    <2> QED BY <2>1, CountFrame
  <1>3. ASSUME NEW p \in Proc, LockFails(p) \/ GiveUp(p) PROVE ReadersCounted'
    <2>1. readersLocks' = readersLocks /\ \A q \in Reader : pc'[q] = "held" <=> pc[q] = "held"
      BY <1>3, ProcAssumption DEF LockFails, GiveUp, AttemptFails, IInv, TypeOK, mutexVars
    <2> QED BY <2>1, CountFrame
  <1>4. ASSUME NEW p \in Proc, CopyLocks(p) PROVE ReadersCounted'
    <2>0. pc' = [pc EXCEPT ![p] = "held"] /\ pc[p] = "won" /\ req[p] \in Req
      BY <1>4 DEF CopyLocks, IInv, AttemptsLinked
    <2>1. CASE p \notin Reader
      <3>1. readersLocks' = readersLocks /\ \A q \in Reader : pc'[q] = "held" <=> pc[q] = "held"
        BY <1>4, <2>0, <2>1, ProcAssumption DEF CopyLocks, IInv, TypeOK
      <3> QED BY <3>1, CountFrame
    <2>2. CASE p \in Reader
      <3> SUFFICES ASSUME NEW e \in Mutex
                   PROVE  Cardinality(ReadersIn(e)') = Len(readersLocks'[e])
        BY DEF ReadersCounted, ReadersIn
      <3>1. readersLocks' = [readersLocks EXCEPT ![dmOf[p]] = Append(@, req[p])]
        BY <1>4, <2>2 DEF CopyLocks
      <3>2. Cardinality(ReadersIn(e)) = Len(readersLocks[e]) /\ readersLocks[e] \in Seq(Req)
        BY DEF IInv, ReadersCounted, ReadersIn, TypeOK
      <3>3. CASE e = dmOf[p]
        <4>1. ReadersIn(e)' = ReadersIn(e) \cup {p} /\ p \notin ReadersIn(e) /\ ReadersIn(e) \in SUBSET Reader
          BY <2>0, <2>2, <3>3, ProcAssumption DEF ReadersIn, IInv, TypeOK
        <4>2. Cardinality(ReadersIn(e)') = Cardinality(ReadersIn(e)) + 1
          BY <4>1, ReadersFinite, FS_AddElement
        <4>3. Len(readersLocks'[e]) = Len(readersLocks[e]) + 1
          BY <2>0, <3>1, <3>2, <3>3, AppendFacts DEF IInv, TypeOK
        <4> QED BY <3>2, <4>2, <4>3
      <3>4. CASE e # dmOf[p]
        <4>1. ReadersIn(e)' = ReadersIn(e)
          BY <2>0, <3>4 DEF ReadersIn, IInv, TypeOK
        <4>2. readersLocks'[e] = readersLocks[e]
          BY <3>1, <3>4 DEF IInv, TypeOK
        <4> QED BY <3>2, <4>1, <4>2
      <3> QED BY <3>3, <3>4
    <2> QED BY <2>1, <2>2
  <1>5. ASSUME NEW p \in Proc, Unlock(p) PROVE ReadersCounted'
    <2>1. readersLocks' = readersLocks /\ \A q \in Reader : pc'[q] = "held" <=> pc[q] = "held"
      BY <1>5, ProcAssumption DEF Unlock, TakeOut, Panic, mutexVars, IInv, TypeOK
    <2> QED BY <2>1, CountFrame
  <1>6. ASSUME NEW p \in Proc, RUnlock(p) PROVE ReadersCounted'
    <2>0. p \in Reader /\ pc[p] = "held" /\ dmOf[p] \in Mutex /\ readersLocks[dmOf[p]] # <<>>
      BY <1>6, ReadersStored DEF RUnlock
    <2>1. /\ pc' = [pc EXCEPT ![p] = "unlock"]
          /\ readersLocks' = [readersLocks EXCEPT ![dmOf[p]] = Tail(@)]
      BY <1>6, <2>0 DEF RUnlock, TakeOut
    <2> SUFFICES ASSUME NEW e \in Mutex
                 PROVE  Cardinality(ReadersIn(e)') = Len(readersLocks'[e])
      BY DEF ReadersCounted, ReadersIn
    <2>2. Cardinality(ReadersIn(e)) = Len(readersLocks[e]) /\ readersLocks[e] \in Seq(Req)
      BY DEF IInv, ReadersCounted, ReadersIn, TypeOK
    <2>3. CASE e = dmOf[p]
      <3>1. ReadersIn(e)' = ReadersIn(e) \ {p} /\ p \in ReadersIn(e) /\ ReadersIn(e) \in SUBSET Reader
        BY <2>0, <2>1, <2>3 DEF ReadersIn, IInv, TypeOK
      <3>2. Cardinality(ReadersIn(e)') = Cardinality(ReadersIn(e)) - 1
        BY <3>1, ReadersFinite, FS_RemoveElement
      <3>3. Len(readersLocks'[e]) = Len(readersLocks[e]) - 1
        BY <2>0, <2>1, <2>2, <2>3, TailFacts DEF IInv, TypeOK
      <3> QED BY <2>2, <3>2, <3>3
    <2>4. CASE e # dmOf[p]
      <3>1. ReadersIn(e)' = ReadersIn(e)
        BY <2>1, <2>4 DEF ReadersIn, IInv, TypeOK
      <3>2. readersLocks'[e] = readersLocks[e]
        BY <2>1, <2>4 DEF IInv, TypeOK
      <3> QED BY <2>2, <3>1, <3>2
    <2> QED BY <2>3, <2>4
  <1>7. ASSUME NEW p \in Proc, unlock(p) PROVE ReadersCounted'
    <2>1. readersLocks' = readersLocks /\ \A q \in Reader : pc'[q] = "held" <=> pc[q] = "held"
      BY <1>7, ProcAssumption DEF unlock, IInv, TypeOK, mutexVars
    <2> QED BY <2>1, CountFrame
  <1>8. ASSUME NEW r \in Req, releaseAll(r) PROVE ReadersCounted'
    <2>1. readersLocks' = readersLocks /\ \A q \in Reader : pc'[q] = "held" <=> pc[q] = "held"
      BY <1>8, ProcAssumption DEF releaseAll, mutexVars
    <2> QED BY <2>1, CountFrame
  <1>9. ASSUME NEW r \in Req, CollectTimeout(r) PROVE ReadersCounted'
    <2>1. readersLocks' = readersLocks /\ \A q \in Reader : pc'[q] = "held" <=> pc[q] = "held"
      BY <1>9, ProcAssumption DEF CollectTimeout, mutexVars
    <2> QED BY <2>1, CountFrame
  <1>10. ASSUME NEW r \in Req, NEW n \in Node, ReceiveGrant(r, n) PROVE ReadersCounted'
    <2>1. readersLocks' = readersLocks /\ \A q \in Reader : pc'[q] = "held" <=> pc[q] = "held"
      BY <1>10, ProcAssumption DEF ReceiveGrant, Collected, mutexVars
    <2> QED BY <2>1, CountFrame
  <1>11. ASSUME NEW r \in Req, NEW n \in Node, ReceiveDenial(r, n) PROVE ReadersCounted'
    <2>1. readersLocks' = readersLocks /\ \A q \in Reader : pc'[q] = "held" <=> pc[q] = "held"
      BY <1>11, ProcAssumption DEF ReceiveDenial, Collected, mutexVars
    <2> QED BY <2>1, CountFrame
  <1>12. ASSUME NEW r \in Req, NEW n \in Node, Drain(r, n) PROVE ReadersCounted'
    <2>1. readersLocks' = readersLocks /\ \A q \in Reader : pc'[q] = "held" <=> pc[q] = "held"
      BY <1>12, ProcAssumption DEF Drain, mutexVars
    <2> QED BY <2>1, CountFrame
  <1>13. ASSUME NEW r \in Req, NEW n \in Node, ServeLock(r, n) PROVE ReadersCounted'
    <2>1. readersLocks' = readersLocks /\ \A q \in Reader : pc'[q] = "held" <=> pc[q] = "held"
      BY <1>13, ProcAssumption DEF ServeLock, mutexVars
    <2> QED BY <2>1, CountFrame
  <1>14. ASSUME NEW r \in Req, NEW n \in Node, CallFails(r, n) PROVE ReadersCounted'
    <2>1. readersLocks' = readersLocks /\ \A q \in Reader : pc'[q] = "held" <=> pc[q] = "held"
      BY <1>14, ProcAssumption DEF CallFails, mutexVars
    <2> QED BY <2>1, CountFrame
  <1>15. ASSUME NEW r \in Req, NEW n \in Node, ReplyLost(r, n) PROVE ReadersCounted'
    <2>1. readersLocks' = readersLocks /\ \A q \in Reader : pc'[q] = "held" <=> pc[q] = "held"
      BY <1>15, ProcAssumption DEF ReplyLost, mutexVars
    <2> QED BY <2>1, CountFrame
  <1>16. ASSUME NEW n \in Node, ServerCrash(n) PROVE ReadersCounted'
    <2>1. readersLocks' = readersLocks /\ \A q \in Reader : pc'[q] = "held" <=> pc[q] = "held"
      BY <1>16, ProcAssumption DEF ServerCrash, mutexVars
    <2> QED BY <2>1, CountFrame
  <1>17. ASSUME NEW n \in Node, ServerRestart(n) PROVE ReadersCounted'
    <2>1. readersLocks' = readersLocks /\ \A q \in Reader : pc'[q] = "held" <=> pc[q] = "held"
      BY <1>17, ProcAssumption DEF ServerRestart, mutexVars
    <2> QED BY <2>1, CountFrame
  <1>18. ASSUME NEW d \in Mutex, ClientCrash(d) PROVE ReadersCounted'
    <2> SUFFICES ASSUME NEW e \in Mutex
                 PROVE  Cardinality(ReadersIn(e)') = Len(readersLocks'[e])
      BY DEF ReadersCounted, ReadersIn
    <2>1. CASE e = d
      <3>1. ReadersIn(e)' = {} /\ readersLocks'[e] = <<>>
        BY <1>18, <2>1, ProcAssumption DEF ClientCrash, ReadersIn, IInv, TypeOK
      <3> QED BY <3>1, FS_EmptySet
    <2>2. CASE e # d
      <3>1. ReadersIn(e)' = ReadersIn(e) /\ readersLocks'[e] = readersLocks[e]
        BY <1>18, <2>2, ProcAssumption DEF ClientCrash, ReadersIn, IInv, TypeOK
      <3> QED BY <3>1 DEF IInv, ReadersCounted, ReadersIn
    <2> QED BY <2>1, <2>2
  <1>19. ASSUME NEW r \in Req, NEW n \in Node, CallDelayed(r, n) PROVE ReadersCounted'
    <2>1. readersLocks' = readersLocks /\ \A q \in Reader : pc'[q] = "held" <=> pc[q] = "held"
      BY <1>19, ProcAssumption DEF CallDelayed, mutexVars
    <2> QED BY <2>1, CountFrame
  <1>20. ASSUME NEW r \in Req, NEW n \in Node, ServeStray(r, n) PROVE ReadersCounted'
    <2>1. readersLocks' = readersLocks /\ \A q \in Reader : pc'[q] = "held" <=> pc[q] = "held"
      BY <1>20, ProcAssumption DEF ServeStray, mutexVars
    <2> QED BY <2>1, CountFrame
  <1> QED
    BY <1>1, <1>2, <1>3, <1>4, <1>5, <1>6, <1>7, <1>8, <1>9, <1>10, <1>11, <1>12, <1>13, <1>14, <1>15, <1>16, <1>17, <1>18, <1>19, <1>20
       DEF Next, Goroutine, Collector, Call, Crash

\* Writers are in one at a time, their array is stored, and nobody has panicked.
HoldersOK == WriterStored /\ WritersExclude /\ NoPanic

\* Steps in which no writer comes in, nobody panics and writeLocks stays.
LEMMA HoldersFrame ==
    ASSUME IInv, Next, writeLocks' = writeLocks,
           \A q \in Proc : /\ pc'[q] = "won" => Holding(q)
                           /\ pc'[q] = "held" => pc[q] = "held"
                           /\ pc'[q] = "panic" => pc[q] = "panic"
    PROVE  HoldersOK'
  <1>1. ASSUME Cardinality(forgot') < CrashMargin PROVE Cardinality(forgot) < CrashMargin
    BY <1>1, MarginShrinks
  <1>2. WriterStored' /\ NoPanic'
    BY <1>1 DEF IInv, WriterStored, NoPanic
  <1>3. WritersExclude'
    BY <1>1 DEF IInv, WritersExclude, Holding
  <1> QED
    BY <1>2, <1>3 DEF HoldersOK

\* Every step keeps the writers apart.
LEMMA HoldersStep ==
    ASSUME IInv, Next
    PROVE  HoldersOK'
  <1>1. ASSUME NEW p \in Proc, CallLock(p) \/ NextAttempt(p) PROVE HoldersOK'
    <2>1. writeLocks' = writeLocks
          /\ \A q \in Proc : pc'[q] \in {"won", "held", "panic"} => pc'[q] = pc[q]
      BY <1>1 DEF CallLock, NextAttempt, Broadcast, IInv, TypeOK, mutexVars
    <2> QED BY <2>1, HoldersFrame DEF Holding
  <1>2. ASSUME NEW p \in Proc, LockSucceeds(p) PROVE HoldersOK'
    <2>0. /\ pc' = [pc EXCEPT ![p] = "won"] /\ pc[p] = "lock" /\ writeLocks' = writeLocks
          /\ req[p] \in Req /\ ownerOf[req[p]] = p /\ stage[req[p]] = "decided" /\ quorumMet(req[p])
      BY <1>2 DEF LockSucceeds, Returned, mutexVars, IInv, AttemptsLinked
    <2>1. ASSUME Cardinality(forgot') < CrashMargin PROVE Cardinality(forgot) < CrashMargin
      BY <2>1, MarginShrinks
    <2>2. WriterStored' /\ NoPanic'
      BY <2>0, <2>1 DEF IInv, TypeOK, WriterStored, NoPanic
    <2>3. ASSUME Cardinality(forgot) < CrashMargin, p \notin Reader, NEW q \in Proc \ Reader, Holding(q)
          PROVE  FALSE
      <3>1. PICK s \in Req : ~IsReadLock(s) /\ quorumMet(s) /\ stage[s] \in {"won", "held"}
        BY <2>3, WriterAttempt
      <3>2. req[p] # s /\ ~IsReadLock(req[p])
        BY <2>0, <2>3, <3>1 DEF IsReadLock
      <3> QED BY <2>0, <2>3, <3>1, <3>2, Conflict
    <2>4. WritersExclude'
      <3> SUFFICES ASSUME Cardinality(forgot') < CrashMargin, NEW q1 \in Proc \ Reader, NEW q2 \in Proc \ Reader,
                          Holding(q1)', Holding(q2)'
                   PROVE  q1 = q2
        BY DEF WritersExclude
      <3>1. (q1 # p => Holding(q1)) /\ (q2 # p => Holding(q2))
        BY <2>0 DEF Holding, IInv, TypeOK
      <3>2. CASE q1 # p /\ q2 # p
        BY <2>1, <3>1, <3>2 DEF IInv, WritersExclude
      <3>3. CASE q1 = p \/ q2 = p
        BY <2>1, <2>3, <3>1, <3>3
      <3> QED BY <3>2, <3>3
    <2> QED BY <2>2, <2>4 DEF HoldersOK
  <1>3. ASSUME NEW p \in Proc, LockFails(p) \/ GiveUp(p) PROVE HoldersOK'
    <2>1. writeLocks' = writeLocks
          /\ \A q \in Proc : pc'[q] \in {"won", "held", "panic"} => pc'[q] = pc[q]
      BY <1>3 DEF LockFails, GiveUp, AttemptFails, IInv, TypeOK, mutexVars
    <2> QED BY <2>1, HoldersFrame DEF Holding
  <1>4. ASSUME NEW p \in Proc, CopyLocks(p) PROVE HoldersOK'
    <2>0. pc' = [pc EXCEPT ![p] = "held"] /\ pc[p] = "won" /\ req[p] \in Req /\ dmOf[p] \in Mutex
      BY <1>4, ProcAssumption DEF CopyLocks, IInv, AttemptsLinked
    <2>1. ASSUME Cardinality(forgot') < CrashMargin PROVE Cardinality(forgot) < CrashMargin
      BY <2>1, MarginShrinks
    <2>2. writeLocks' = IF p \in Reader THEN writeLocks ELSE [writeLocks EXCEPT ![dmOf[p]] = req[p]]
      BY <1>4 DEF CopyLocks
    <2>3. WriterStored'
      BY <2>0, <2>1, <2>2, ProcAssumption DEF IInv, TypeOK, WriterStored
    <2>4. WritersExclude' /\ NoPanic'
      BY <2>0, <2>1 DEF IInv, TypeOK, WritersExclude, NoPanic, Holding
    <2> QED BY <2>3, <2>4 DEF HoldersOK
  <1>5. ASSUME NEW p \in Proc, Unlock(p) PROVE HoldersOK'
    <2>0. p \in Proc \ Reader /\ pc[p] = "held"
      BY <1>5 DEF Unlock
    <2>1. ASSUME Cardinality(forgot') < CrashMargin PROVE Cardinality(forgot) < CrashMargin
      BY <2>1, MarginShrinks
    <2>2. CASE writeLocks[dmOf[p]] = NoReq
      <3>1. ~(Cardinality(forgot') < CrashMargin)
        BY <2>0, <2>1, <2>2 DEF IInv, WriterStored
      <3> QED BY <3>1 DEF HoldersOK, WriterStored, WritersExclude, NoPanic
    <2>3. CASE writeLocks[dmOf[p]] # NoReq
      <3>1. pc' = [pc EXCEPT ![p] = "unlock"] /\ writeLocks' = [writeLocks EXCEPT ![dmOf[p]] = NoReq]
        BY <1>5, <2>3 DEF Unlock, TakeOut
      <3>2. WriterStored'
        <4> SUFFICES ASSUME Cardinality(forgot') < CrashMargin, NEW q \in Proc \ Reader, pc'[q] = "held"
                     PROVE  writeLocks'[dmOf[q]] # NoReq
          BY DEF WriterStored
        <4>1. q # p /\ pc[q] = "held"
          BY <3>1 DEF IInv, TypeOK
        <4>2. FALSE
          BY <2>0, <2>1, <4>1 DEF IInv, WritersExclude, Holding
        <4> QED BY <4>2
      <3>3. WritersExclude' /\ NoPanic'
        BY <2>1, <3>1 DEF IInv, TypeOK, WritersExclude, NoPanic, Holding
      <3> QED BY <3>2, <3>3 DEF HoldersOK
    <2> QED BY <2>2, <2>3
  <1>6. ASSUME NEW p \in Proc, RUnlock(p) PROVE HoldersOK'
    <2>1. writeLocks' = writeLocks
          /\ \A q \in Proc : pc'[q] \in {"won", "held", "panic"} => pc'[q] = pc[q]
      BY <1>6, ReadersStored DEF RUnlock, TakeOut, IInv, TypeOK
    <2> QED BY <2>1, HoldersFrame DEF Holding
  <1>7. ASSUME NEW p \in Proc, unlock(p) PROVE HoldersOK'
    <2>1. writeLocks' = writeLocks
          /\ \A q \in Proc : pc'[q] \in {"won", "held", "panic"} => pc'[q] = pc[q]
      BY <1>7 DEF unlock, IInv, TypeOK, mutexVars
    <2> QED BY <2>1, HoldersFrame DEF Holding
  <1>8. ASSUME NEW r \in Req, releaseAll(r) PROVE HoldersOK'
    <2>1. writeLocks' = writeLocks
          /\ \A q \in Proc : pc'[q] \in {"won", "held", "panic"} => pc'[q] = pc[q]
      BY <1>8 DEF releaseAll, mutexVars
    <2> QED BY <2>1, HoldersFrame DEF Holding
  <1>9. ASSUME NEW r \in Req, CollectTimeout(r) PROVE HoldersOK'
    <2>1. writeLocks' = writeLocks
          /\ \A q \in Proc : pc'[q] \in {"won", "held", "panic"} => pc'[q] = pc[q]
      BY <1>9 DEF CollectTimeout, mutexVars
    <2> QED BY <2>1, HoldersFrame DEF Holding
  <1>10. ASSUME NEW r \in Req, NEW n \in Node, ReceiveGrant(r, n) PROVE HoldersOK'
    <2>1. writeLocks' = writeLocks
          /\ \A q \in Proc : pc'[q] \in {"won", "held", "panic"} => pc'[q] = pc[q]
      BY <1>10 DEF ReceiveGrant, Collected, mutexVars
    <2> QED BY <2>1, HoldersFrame DEF Holding
  <1>11. ASSUME NEW r \in Req, NEW n \in Node, ReceiveDenial(r, n) PROVE HoldersOK'
    <2>1. writeLocks' = writeLocks
          /\ \A q \in Proc : pc'[q] \in {"won", "held", "panic"} => pc'[q] = pc[q]
      BY <1>11 DEF ReceiveDenial, Collected, mutexVars
    <2> QED BY <2>1, HoldersFrame DEF Holding
  <1>12. ASSUME NEW r \in Req, NEW n \in Node, Drain(r, n) PROVE HoldersOK'
    <2>1. writeLocks' = writeLocks
          /\ \A q \in Proc : pc'[q] \in {"won", "held", "panic"} => pc'[q] = pc[q]
      BY <1>12 DEF Drain, mutexVars
    <2> QED BY <2>1, HoldersFrame DEF Holding
  <1>13. ASSUME NEW r \in Req, NEW n \in Node, ServeLock(r, n) PROVE HoldersOK'
    <2>1. writeLocks' = writeLocks
          /\ \A q \in Proc : pc'[q] \in {"won", "held", "panic"} => pc'[q] = pc[q]
      BY <1>13 DEF ServeLock, mutexVars
    <2> QED BY <2>1, HoldersFrame DEF Holding
  <1>14. ASSUME NEW r \in Req, NEW n \in Node, CallFails(r, n) PROVE HoldersOK'
    <2>1. writeLocks' = writeLocks
          /\ \A q \in Proc : pc'[q] \in {"won", "held", "panic"} => pc'[q] = pc[q]
      BY <1>14 DEF CallFails, mutexVars
    <2> QED BY <2>1, HoldersFrame DEF Holding
  <1>15. ASSUME NEW r \in Req, NEW n \in Node, ReplyLost(r, n) PROVE HoldersOK'
    <2>1. writeLocks' = writeLocks
          /\ \A q \in Proc : pc'[q] \in {"won", "held", "panic"} => pc'[q] = pc[q]
      BY <1>15 DEF ReplyLost, mutexVars
    <2> QED BY <2>1, HoldersFrame DEF Holding
  <1>16. ASSUME NEW n \in Node, ServerCrash(n) PROVE HoldersOK'
    <2>1. writeLocks' = writeLocks
          /\ \A q \in Proc : pc'[q] \in {"won", "held", "panic"} => pc'[q] = pc[q]
      BY <1>16 DEF ServerCrash, mutexVars
    <2> QED BY <2>1, HoldersFrame DEF Holding
  <1>17. ASSUME NEW n \in Node, ServerRestart(n) PROVE HoldersOK'
    <2>1. writeLocks' = writeLocks
          /\ \A q \in Proc : pc'[q] \in {"won", "held", "panic"} => pc'[q] = pc[q]
      BY <1>17 DEF ServerRestart, mutexVars
    <2> QED BY <2>1, HoldersFrame DEF Holding
  <1>18. ASSUME NEW d \in Mutex, ClientCrash(d) PROVE HoldersOK'
    <2>0. /\ \A q \in Proc : pc'[q] # "idle" => dmOf[q] # d /\ pc'[q] = pc[q]
          /\ \A e \in Mutex : e # d => writeLocks'[e] = writeLocks[e]
      BY <1>18 DEF ClientCrash, IInv, TypeOK
    <2>1. ASSUME Cardinality(forgot') < CrashMargin PROVE Cardinality(forgot) < CrashMargin
      BY <2>1, MarginShrinks
    <2>2. WriterStored'
      BY <2>0, <2>1, ProcAssumption DEF IInv, WriterStored
    <2>3. WritersExclude' /\ NoPanic'
      BY <2>0, <2>1 DEF IInv, WritersExclude, NoPanic, Holding
    <2> QED BY <2>2, <2>3 DEF HoldersOK
  <1>19. ASSUME NEW r \in Req, NEW n \in Node, CallDelayed(r, n) PROVE HoldersOK'
    <2>1. writeLocks' = writeLocks
          /\ \A q \in Proc : pc'[q] \in {"won", "held", "panic"} => pc'[q] = pc[q]
      BY <1>19 DEF CallDelayed, mutexVars
    <2> QED BY <2>1, HoldersFrame DEF Holding
  <1>20. ASSUME NEW r \in Req, NEW n \in Node, ServeStray(r, n) PROVE HoldersOK'
    <2>1. writeLocks' = writeLocks
          /\ \A q \in Proc : pc'[q] \in {"won", "held", "panic"} => pc'[q] = pc[q]
      BY <1>20 DEF ServeStray, mutexVars
    <2> QED BY <2>1, HoldersFrame DEF Holding
  <1> QED
    BY <1>1, <1>2, <1>3, <1>4, <1>5, <1>6, <1>7, <1>8, <1>9, <1>10, <1>11, <1>12, <1>13, <1>14, <1>15, <1>16, <1>17, <1>18, <1>19, <1>20
       DEF Next, Goroutine, Collector, Call, Crash

-----------------------------------------------------------------------------
(* The theorems. *)

\* The invariant holds when New and NewDRWMutex have returned.
LEMMA InitIInv == Init => IInv
  <1> SUFFICES ASSUME Init PROVE IInv
    OBVIOUS
  <1>1. TypeOK
    BY NoLockSound DEF Init, TypeOK, Stage, Status, Stray, Control
  <1>2. AttemptsLinked /\ QuorumKept /\ StraysApart /\ WriterStored /\ WritersExclude /\ NoPanic
    BY DEF Init, AttemptsLinked, QuorumKept, StraysApart, WriterStored, WritersExclude, NoPanic, Holding
  <1>3. ArraysLinked
    BY DEF Init, ArraysLinked
  <1>4. TablesSound
    BY NoLockSound DEF Init, TablesSound
  <1>5. GrantsBacked
    <2> SUFFICES ASSUME NEW n \in Node PROVE Backed(Outstanding(n), lockMap[n])
      BY DEF GrantsBacked
    <2>1. Outstanding(n) = {} /\ lockMap[n] = NoLock
      BY DEF Init, Outstanding
    <2>2. \A u \in Uid : {r \in Outstanding(n) : IsReadLock(r) /\ UidOf(r) = u} = {}
                         /\ lockMap[n].readers[u] = 0
      BY <2>1 DEF NoLock
    <2> QED BY <2>1, <2>2, FS_EmptySet DEF Backed
  <1>6. ReadersCounted
    <2>1. \A d \in Mutex : ReadersIn(d) = {} /\ readersLocks[d] = <<>>
      BY ProcAssumption DEF Init, ReadersIn
    <2> SUFFICES ASSUME NEW d \in Mutex PROVE Cardinality(ReadersIn(d)) = Len(readersLocks[d])
      BY DEF ReadersCounted, ReadersIn
    <2>2. Len(readersLocks[d]) = 0
      BY <2>1
    <2>3. Cardinality(ReadersIn(d)) = 0
      BY <2>1, FS_EmptySet
    <2> QED BY <2>2, <2>3
  <1> QED
    BY <1>1, <1>2, <1>3, <1>4, <1>5, <1>6 DEF IInv

\* Every step of the program keeps the invariant.
LEMMA StepIInv == IInv /\ [Next]_vars => IInv'
  <1>1. ASSUME IInv, Next PROVE IInv'
    <2>1. /\ ServersOK' /\ AttemptsOK' /\ ClientsOK' /\ StraysApart'
          /\ GrantsBacked' /\ ReadersCounted' /\ HoldersOK'
      BY <1>1, ServersStep, AttemptsStep, ClientsStep, StraysStep, GrantsStep, CountStep, HoldersStep
    <2>2. TypeOK'
      BY <2>1 DEF ServersOK, AttemptsOK, ClientsOK, TypeOK
    <2> QED
      BY <2>1, <2>2 DEF ServersOK, AttemptsOK, ClientsOK, HoldersOK, IInv
  <1>2. ASSUME IInv, UNCHANGED vars PROVE IInv'
    <2>0. UNCHANGED <<lockMap, up, forgot, died, faults, stage, st, stray, pc, req, writeLocks, readersLocks>>
      BY <1>2 DEF vars
    <2>1. TypeOK' /\ AttemptsLinked' /\ TablesSound' /\ StraysApart'
      BY <1>2, <2>0 DEF IInv, TypeOK, AttemptsLinked, TablesSound, StraysApart
    <2>2. ArraysLinked'
      BY <1>2, <2>0, StagesFrame DEF IInv, mutexVars
    <2>3. QuorumKept'
      BY <1>2, <2>0, QuorumFrame DEF IInv, LocksKept
    <2>4. GrantsBacked'
      BY <1>2, <2>0, BackedFrame
    <2>5. ReadersCounted'
      BY <1>2, <2>0, CountFrame
    <2>6. WriterStored' /\ WritersExclude' /\ NoPanic'
      BY <1>2, <2>0 DEF IInv, WriterStored, WritersExclude, Holding, NoPanic
    <2> QED
      BY <2>1, <2>2, <2>3, <2>4, <2>5, <2>6 DEF IInv
  <1> QED
    BY <1>1, <1>2

(***************************************************************************)
(* The inductive invariant: whatever the interleaving of goroutines,       *)
(* collectors, servers and faults, drwmutex.go keeps its arrays, its       *)
(* attempts and the tables of the servers consistent.                      *)
(***************************************************************************)
THEOREM Invariance == Spec => []IInv
  BY InitIInv, StepIInv, PTL DEF Spec

(***************************************************************************)
(* Type correctness: every variable keeps the shape of its Go declaration. *)
(***************************************************************************)
THEOREM TypeCorrect == Spec => []TypeOK
  <1>1. IInv => TypeOK
    BY DEF IInv
  <1> QED
    BY <1>1, Invariance, PTL

(***************************************************************************)
(* Two calls of Lock or GetLock are never granted at once, unless as many  *)
(* servers as the README warns of have lost their tables.                  *)
(***************************************************************************)
THEOREM WriterExclusion == Spec => []WritersExclude
  <1>1. IInv => WritersExclude
    BY DEF IInv
  <1> QED
    BY <1>1, Invariance, PTL

(***************************************************************************)
(* RLock and GetRLock are never granted beside Lock or GetLock, unless a   *)
(* server has lost its table.                                              *)
(***************************************************************************)
THEOREM ReaderWriterExclusion == Spec => []ReadersExcludeWriter
  <1>1. ASSUME IInv, forgot = {}, NEW p \in Proc \ Reader, NEW q \in Reader, Holding(p), Holding(q)
        PROVE  FALSE
    <2>1. Cardinality(forgot) < CrashMargin
      BY <1>1, FS_EmptySet, QuorumNat
    <2>2. PICK r \in Req : ~IsReadLock(r) /\ quorumMet(r)
      BY <1>1, <2>1, WriterAttempt
    <2>3. PICK s \in Req : IsReadLock(s) /\ quorumMet(s)
      BY <1>1, ReaderAttempt
    <2> QED
      BY <1>1, <2>2, <2>3, Conflict
  <1>2. IInv => ReadersExcludeWriter
    BY <1>1 DEF ReadersExcludeWriter
  <1> QED
    BY <1>2, Invariance, PTL

(***************************************************************************)
(* A lock that an attempt believes in is in the table of its server, as    *)
(* long as the server does not crash: releases that come late or out of    *)
(* order take nothing away from another attempt.                           *)
(***************************************************************************)
THEOREM GrantsAreBacked == Spec => []GrantsBacked
  <1>1. IInv => GrantsBacked
    BY DEF IInv
  <1> QED
    BY <1>1, Invariance, PTL

(***************************************************************************)
(* Unlock and RUnlock do not panic for a caller that holds the lock.       *)
(***************************************************************************)
THEOREM PanicFreedom == Spec => []NoPanic
  <1>1. IInv => NoPanic
    BY DEF IInv
  <1> QED
    BY <1>1, Invariance, PTL
=============================================================================

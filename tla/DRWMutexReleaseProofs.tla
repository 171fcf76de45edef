----------------------- MODULE DRWMutexReleaseProofs -----------------------
(***************************************************************************)
(* The other half of GrantsBacked: which locks a server has that nobody    *)
(* will release.  Without a lost message or a crashed client there are     *)
(* none (NoStaleLocks); in general every fault accounts for those of one   *)
(* client or one server (StaleLocksBounded).  A server is clean as long as *)
(* its table is covered by attempts that know of their locks, and no lock  *)
(* call has outlived its caller there; Clean(n, U) says so of the uids of  *)
(* U.  A step makes at most one server unclean, and only as a fault that   *)
(* loses a message, except for the crash of a client, whose uid is struck  *)
(* from U instead.  A server that is down has no table (DownForgets), so a *)
(* release that is refused misses nothing.                                 *)
(***************************************************************************)
EXTENDS DRWMutexProofs

\* The faults that leave a lock behind: a call, its answer or a release is lost,
\* or a call is handled when its caller has given up on it.
Losses == {"call", "release", "delay"}

\* No call, answer or release is lost, and no client crashes.
NothingLost == FaultKinds \cap (Losses \cup {"client"}) = {}

DownForgets == \A n \in Node \ up : lockMap[n] = NoLock

\* Table t has no locks with uids of U but those of the attempts of O.
Covered(O, t, U) ==
    \A u \in U :
        /\ t.writer = u => \E r \in O : ~IsReadLock(r) /\ UidOf(r) = u
        /\ t.readers[u] <= Cardinality(ReadsOf(O, u))

\* Whoever has a lock at node n, with a uid of U, will release it or has done so.
Clean(n, U) ==
    /\ Covered(Outstanding(n), lockMap[n], U)
    /\ \A r \in Req : stray[r][n] = "lock" => UidOf(r) \notin U

\* A step leaves every clean server clean, or it is a loss at one server.
CleanStep(U) ==
    \/ \A k \in Node : Clean(k, U) => Clean(k, U)'
    \/ \E n \in Node : /\ FaultKinds \cap Losses # {} /\ faults' = faults + 1
                       /\ \A k \in Node \ {n} : Clean(k, U) => Clean(k, U)'

\* What it means for a server to be clean.
LEMMA CleanKnown ==
    ASSUME NEW U \in SUBSET Uid, NEW n \in Node, Clean(n, U)
    PROVE  \A u \in U : LocksKnown(n, u)
  BY DEF Clean, LocksKnown, Covered, ReadsOf

\* The set of read locks of a table does not depend on the state.
LEMMA CleanNext ==
    ASSUME NEW U \in SUBSET Uid, NEW n \in Node
    PROVE  Clean(n, U)' <=> /\ Covered(Outstanding(n)', lockMap'[n], U)
                            /\ \A r \in Req : stray'[r][n] = "lock" => UidOf(r) \notin U
  BY DEF Clean, Covered, ReadsOf, IsReadLock, UidOf

\* An empty table needs nobody.
LEMMA CoveredNoLock ==
    ASSUME NEW U \in SUBSET Uid, NEW O \in SUBSET Req
    PROVE  Covered(O, NoLock, U)
  <1>1. \A u \in Uid : NoLock.writer # u /\ NoLock.readers[u] = 0
    BY NoUidAssumption DEF NoLock
  <1> QED BY <1>1, ReadsFinite DEF Covered

\* More attempts cover the same table.
LEMMA CoveredMore ==
    ASSUME NEW U \in SUBSET Uid,
           NEW P \in SUBSET Req, NEW O \in SUBSET P, NEW t \in Table, Covered(O, t, U)
    PROVE  Covered(P, t, U)
  <1> SUFFICES ASSUME NEW u \in U PROVE t.readers[u] <= Cardinality(ReadsOf(P, u))
    BY DEF Covered
  <1>1. ReadsOf(O, u) \in SUBSET ReadsOf(P, u) /\ IsFiniteSet(ReadsOf(P, u))
    BY ReadsFinite DEF ReadsOf
  <1>2. Cardinality(ReadsOf(O, u)) <= Cardinality(ReadsOf(P, u))
    BY <1>1, FS_Subset
  <1>3. t.readers[u] <= Cardinality(ReadsOf(O, u)) /\ t.readers[u] \in Nat
    BY DEF Covered, Table
  <1>4. Cardinality(ReadsOf(O, u)) \in Nat /\ Cardinality(ReadsOf(P, u)) \in Nat
    BY ReadsFinite, O \in SUBSET Req
  <1> QED BY <1>2, <1>3, <1>4

\* The Lock and RLock handlers add a lock for the attempt that is granted only.
LEMMA CoveredGrant ==
    ASSUME NEW U \in SUBSET Uid, NEW O \in SUBSET Req, NEW t \in Table, Covered(O, t, U),
           NEW r \in Req, r \notin O, Grants(t, IsReadLock(r))
    PROVE  Covered(O \cup {r}, AfterLock(t, UidOf(r), IsReadLock(r)), U)
  <1> DEFINE s == AfterLock(t, UidOf(r), IsReadLock(r))
             P == O \cup {r}
  <1>0. UidOf(r) \in Uid /\ P \in SUBSET Req /\ Covered(P, t, U)
    BY ProcAssumption, CoveredMore DEF UidOf
  <1>1. CASE ~IsReadLock(r)
    <2>1. s.writer = UidOf(r) /\ s.readers = t.readers
      BY <1>1 DEF AfterLock, Table
    <2> QED BY <1>0, <1>1, <2>1 DEF Covered
  <1>2. CASE IsReadLock(r)
    <2>1. s.writer = t.writer /\ \A u \in Uid :
              s.readers[u] = IF u = UidOf(r) THEN t.readers[u] + 1 ELSE t.readers[u]
      BY <1>0, <1>2 DEF AfterLock, Table
    <2>2. ReadsOf(P, UidOf(r)) = ReadsOf(O, UidOf(r)) \cup {r} /\ r \notin ReadsOf(O, UidOf(r))
      BY <1>2 DEF ReadsOf
    <2>3. Cardinality(ReadsOf(P, UidOf(r))) = Cardinality(ReadsOf(O, UidOf(r))) + 1
      BY <2>2, ReadsFinite, FS_AddElement
    <2>4. UidOf(r) \in U => s.readers[UidOf(r)] <= Cardinality(ReadsOf(P, UidOf(r)))
      BY <1>0, <2>1, <2>3, ReadsFinite DEF Covered, Table
    <2> QED BY <1>0, <2>1, <2>4 DEF Covered
  <1> QED BY <1>1, <1>2

\* A lock call concerns its own uid only.
LEMMA CoveredOther ==
    ASSUME NEW U \in SUBSET Uid, NEW O \in SUBSET Req, NEW t \in Table, Covered(O, t, U),
           NEW r \in Req, UidOf(r) \notin U
    PROVE  Covered(O, AfterLock(t, UidOf(r), IsReadLock(r)), U)
  <1> DEFINE s == AfterLock(t, UidOf(r), IsReadLock(r))
  <1>1. \A u \in U : s.readers[u] = t.readers[u] /\ (s.writer = u => t.writer = u)
    BY DEF AfterLock, Table
  <1> QED BY <1>1 DEF Covered

\* The Unlock and RUnlock handlers leave no lock of the attempt behind.
LEMMA CoveredRelease ==
    ASSUME NEW U \in SUBSET Uid,
           NEW O \in SUBSET Req, NEW t \in Table, TableSound(t), Covered(O, t, U), NEW r \in O
    PROVE  Covered(O \ {r}, AfterUnlock(t, UidOf(r), IsReadLock(r)), U)
  <1> DEFINE s == AfterUnlock(t, UidOf(r), IsReadLock(r))
             P == O \ {r}
  <1>0. UidOf(r) \in Uid /\ P \in SUBSET Req
    BY ProcAssumption DEF UidOf
  <1>1. CASE ~IsReadLock(r)
    <2>1. s.readers = t.readers /\ (s.writer = NoUid \/ (s.writer = t.writer /\ t.writer # UidOf(r)))
      BY <1>1 DEF AfterUnlock, Table
    <2>2. \A u \in Uid : ReadsOf(P, u) = ReadsOf(O, u)
      BY <1>1 DEF ReadsOf
    <2> QED BY <2>1, <2>2, NoUidAssumption DEF Covered
  <1>2. CASE IsReadLock(r)
    <2>1. s.writer = t.writer
      BY <1>2 DEF AfterUnlock, Table
    <2>2. ASSUME NEW u \in U PROVE s.readers[u] <= Cardinality(ReadsOf(P, u))
      <3>1. CASE u # UidOf(r)
        <4>1. ReadsOf(P, u) = ReadsOf(O, u) /\ s.readers[u] = t.readers[u]
          BY <1>0, <1>2, <3>1 DEF ReadsOf, AfterUnlock, Table
        <4> QED BY <4>1 DEF Covered
      <3>2. CASE u = UidOf(r)
        <4>1. ReadsOf(P, u) = ReadsOf(O, u) \ {r} /\ r \in ReadsOf(O, u)
          BY <1>2, <3>2 DEF ReadsOf
        <4>2. Cardinality(ReadsOf(P, u)) = Cardinality(ReadsOf(O, u)) - 1
          <5>1. IsFiniteSet(ReadsOf(O, u))
            BY ReadsFinite
          <5>2. Cardinality(ReadsOf(O, u) \ {r}) = Cardinality(ReadsOf(O, u)) - 1
            BY <4>1, <5>1, FS_RemoveElement
          <5> QED BY <4>1, <5>2
        <4>3. t.readers[u] \in Nat /\ s.readers[u] = IF t.readers[u] > 0 THEN t.readers[u] - 1 ELSE 0
          BY <1>0, <1>2, <3>2 DEF AfterUnlock, Table, TableSound
        <4>4. t.readers[u] <= Cardinality(ReadsOf(O, u))
          BY DEF Covered
        <4>5. Cardinality(ReadsOf(O, u)) \in Nat /\ Cardinality(ReadsOf(P, u)) \in Nat
          BY <1>0, ReadsFinite
        <4> QED BY <4>2, <4>3, <4>4, <4>5
      <3> QED BY <3>1, <3>2
    <2> QED BY <1>2, <2>1, <2>2 DEF Covered
  <1> QED BY <1>1, <1>2

-----------------------------------------------------------------------------
\* A server whose table a step leaves alone, and no grant of which it forgets.
LEMMA CleanFrame ==
    ASSUME NEW U \in SUBSET Uid, IInv, NEW k \in Node, Clean(k, U), lockMap'[k] = lockMap[k],
           \A s \in Req :
               /\ st[s][k] \in {"granted", "locked"} => st'[s][k] \in {"granted", "locked"}
               /\ stray[s][k] = "unlock" => stray'[s][k] = "unlock"
               /\ stray'[s][k] = "lock" => stray[s][k] = "lock"
    PROVE  Clean(k, U)'
  <1>1. Outstanding(k) \in SUBSET Outstanding(k)' /\ Outstanding(k)' \in SUBSET Req
    BY DEF Outstanding
  <1>2. Covered(Outstanding(k), lockMap[k], U) /\ lockMap[k] \in Table
    BY DEF Clean, IInv, TypeOK
  <1>3. Covered(Outstanding(k)', lockMap'[k], U)
    BY <1>1, <1>2, CoveredMore
  <1> QED BY <1>3, CleanNext DEF Clean

\* A server that handles a release for a grant that is outstanding.
LEMMA CleanHandled ==
    ASSUME NEW U \in SUBSET Uid,
           IInv, NEW r \in Req, NEW n \in Node, r \in Outstanding(n), Clean(n, U),
           lockMap'[n] = AfterUnlock(lockMap[n], UidOf(r), IsReadLock(r)),
           Outstanding(n)' = Outstanding(n) \ {r},
           \A s \in Req : stray'[s][n] = "lock" => UidOf(s) \notin U
    PROVE  Clean(n, U)'
  <1>1. Covered(Outstanding(n), lockMap[n], U) /\ lockMap[n] \in Table /\ TableSound(lockMap[n])
        /\ Outstanding(n) \in SUBSET Req
    BY DEF Clean, IInv, TypeOK, TablesSound, Outstanding
  <1>2. Covered(Outstanding(n) \ {r}, AfterUnlock(lockMap[n], UidOf(r), IsReadLock(r)), U)
    BY <1>1, CoveredRelease
  <1>3. Covered(Outstanding(n)', lockMap'[n], U)
    BY <1>2
  <1> QED BY <1>3, CleanNext

\* A server with an empty table, with no lock call to come.
LEMMA CleanEmpty ==
    ASSUME NEW U \in SUBSET Uid, NEW n \in Node, lockMap'[n] = NoLock,
           \A s \in Req : stray'[s][n] = "lock" => UidOf(s) \notin U
    PROVE  Clean(n, U)'
  <1>1. Outstanding(n)' \in SUBSET Req
    BY DEF Outstanding
  <1> QED BY <1>1, CoveredNoLock, CleanNext

\* One release call: the other servers do not notice, and its own stays clean
\* unless the release is lost.
LEMMA CleanSendRelease ==
    ASSUME NEW U \in SUBSET Uid,
           IInv, DownForgets, NEW r \in Req, NEW n \in Node, sendRelease(r, n),
           st[r][n] \in {"granted", "locked"}, st' = [st EXCEPT ![r][n] = "none"]
    PROVE  CleanStep(U)
  <1>0. /\ \A s \in Req, k \in Node :
              st'[s][k] = IF s = r /\ k = n THEN "none" ELSE st[s][k]
        /\ stray[r][n] = "none" /\ r \in Outstanding(n)
    BY DEF IInv, TypeOK, StraysApart, Outstanding
  <1>1. ASSUME NEW k \in Node, k # n, Clean(k, U) PROVE Clean(k, U)'
    <2>1. lockMap'[k] = lockMap[k] /\ \A s \in Req : stray'[s][k] = stray[s][k]
      BY <1>1 DEF sendRelease, serverVars, IInv, TypeOK
    <2> QED BY <1>0, <1>1, <2>1, CleanFrame
  <1>2. ASSUME Clean(n, U), n \in up, stray' = stray,
               lockMap' = [lockMap EXCEPT ![n] = AfterUnlock(@, UidOf(r), IsReadLock(r))]
        PROVE  Clean(n, U)'
    <2>1. Outstanding(n)' = Outstanding(n) \ {r}
      BY <1>0, <1>2 DEF Outstanding
    <2>2. lockMap'[n] = AfterUnlock(lockMap[n], UidOf(r), IsReadLock(r))
          /\ \A s \in Req : stray'[s][n] = "lock" => UidOf(s) \notin U
      BY <1>2 DEF Clean, IInv, TypeOK
    <2> QED BY <1>0, <1>2, <2>1, <2>2, CleanHandled
  <1>3. ASSUME Clean(n, U), n \notin up, stray' = stray, lockMap' = lockMap
        PROVE  Clean(n, U)'
    BY <1>3, CleanEmpty DEF DownForgets, Clean
  <1>4. ASSUME Clean(n, U), lockMap' = lockMap, stray' = [stray EXCEPT ![r][n] = "unlock"]
        PROVE  Clean(n, U)'
    <2>1. \A s \in Req : stray'[s][n] = IF s = r THEN "unlock" ELSE stray[s][n]
      BY <1>4 DEF IInv, TypeOK
    <2>2. Outstanding(n)' = Outstanding(n)
      BY <1>0, <2>1 DEF Outstanding
    <2> QED BY <1>4, <2>1, <2>2, CleanNext DEF Clean
  <1>5. ASSUME MayFail("release"), faults' = faults + 1 PROVE CleanStep(U)
    BY <1>1, <1>5 DEF CleanStep, MayFail, Losses
  <1>6. ASSUME Clean(n, U) => Clean(n, U)' PROVE CleanStep(U)
    BY <1>1, <1>6 DEF CleanStep
  <1> QED
    BY <1>2, <1>3, <1>4, <1>5, <1>6 DEF sendRelease, serverVars

\* A lock call that its server handles, the answer on its way.
LEMMA CleanServe ==
    ASSUME NEW U \in SUBSET Uid, IInv, NEW r \in Req, NEW n \in Node, ServeLock(r, n)
    PROVE  CleanStep(U)
  <1> DEFINE v == IF Grants(lockMap[n], IsReadLock(r)) THEN "granted" ELSE "denied"
  <1>0. /\ \A s \in Req, k \in Node : st'[s][k] = IF s = r /\ k = n THEN v ELSE st[s][k]
        /\ stray' = stray /\ r \notin Outstanding(n)
        /\ \A k \in Node : lockMap'[k] = IF k = n THEN AfterLock(lockMap[n], UidOf(r), IsReadLock(r))
                                         ELSE lockMap[k]
    BY DEF ServeLock, IInv, TypeOK, StraysApart, Outstanding
  <1>1. ASSUME NEW k \in Node, Clean(k, U) PROVE Clean(k, U)'
    <2>0. Covered(Outstanding(k), lockMap[k], U) /\ lockMap[k] \in Table /\ Outstanding(k) \in SUBSET Req
      BY <1>1 DEF Clean, IInv, TypeOK, Outstanding
    <2>1. CASE k = n /\ Grants(lockMap[n], IsReadLock(r))
      <3>1. Outstanding(k)' = Outstanding(k) \cup {r}
        BY <1>0, <2>1 DEF Outstanding
      <3>2. Covered(Outstanding(k)', lockMap'[k], U)
        BY <1>0, <2>0, <2>1, <3>1, CoveredGrant
      <3> QED BY <1>0, <1>1, <3>2, CleanNext DEF Clean
    <2>2. CASE k # n \/ ~Grants(lockMap[n], IsReadLock(r))
      <3>1. Outstanding(k)' = Outstanding(k) /\ lockMap'[k] = lockMap[k]
        BY <1>0, <2>2 DEF Outstanding, AfterLock
      <3> QED BY <1>0, <1>1, <2>0, <3>1, CleanNext DEF Clean
    <2> QED BY <2>1, <2>2
  <1> QED BY <1>1 DEF CleanStep

\* A call that comes back with an error: the lock of one server may be lost.
LEMMA CleanFailure ==
    ASSUME NEW U \in SUBSET Uid, IInv, NEW r \in Req, NEW n \in Node,
           CallFails(r, n) \/ ReplyLost(r, n) \/ CallDelayed(r, n)
    PROVE  CleanStep(U)
  <1>1. /\ st[r][n] = "sent" /\ st' = [st EXCEPT ![r][n] = "denied"]
        /\ \/ lockMap' = lockMap
           \/ lockMap' = [lockMap EXCEPT ![n] = AfterLock(@, UidOf(r), IsReadLock(r))]
        /\ stray' = stray \/ stray' = [stray EXCEPT ![r][n] = "lock"]
    BY DEF CallFails, ReplyLost, CallDelayed
  <1>2. /\ \A s \in Req, k \in Node :
              st[s][k] \in {"granted", "locked"} => st'[s][k] = st[s][k]
        /\ \A s \in Req, k \in Node \ {n} : stray'[s][k] = stray[s][k]
        /\ \A k \in Node \ {n} : lockMap'[k] = lockMap[k]
    <2>1. lockMap \in [Node -> Table] /\ st \in [Req -> [Node -> Status]]
          /\ stray \in [Req -> [Node -> Stray]]
      BY DEF IInv, TypeOK
    <2>2. \A s \in Req, k \in Node :
              st[s][k] \in {"granted", "locked"} => st'[s][k] = st[s][k]
      BY <1>1, <2>1
    <2>3. \A s \in Req, k \in Node \ {n} : stray'[s][k] = stray[s][k]
      BY <1>1, <2>1
    <2>4. \A k \in Node \ {n} : lockMap'[k] = lockMap[k]
      BY <1>1, <2>1
    <2> QED BY <2>2, <2>3, <2>4
  <1>3. \A k \in Node \ {n} : Clean(k, U) => Clean(k, U)'
    BY <1>2, CleanFrame
  <1>4. CASE CallFails(r, n)
    <2>1. lockMap' = lockMap /\ stray' = stray
      BY <1>4 DEF CallFails
    <2>2. Clean(n, U) => Clean(n, U)'
      BY <1>2, <2>1, CleanFrame
    <2> QED BY <1>3, <2>2 DEF CleanStep
  <1>5. CASE ReplyLost(r, n) \/ CallDelayed(r, n)
    <2>1. FaultKinds \cap Losses # {} /\ faults' = faults + 1
      BY <1>5 DEF ReplyLost, CallDelayed, MayFail, Losses
    <2> QED BY <1>3, <2>1 DEF CleanStep
  <1> QED BY <1>4, <1>5

\* A server gets to a request whose caller was told that it had failed.
LEMMA CleanStray ==
    ASSUME NEW U \in SUBSET Uid, IInv, NEW r \in Req, NEW n \in Node, ServeStray(r, n)
    PROVE  CleanStep(U)
  <1>0. /\ \A s \in Req, k \in Node : stray'[s][k] = IF s = r /\ k = n THEN "none" ELSE stray[s][k]
        /\ st' = st /\ stray[r][n] \in {"lock", "unlock"}
        /\ st[r][n] \notin {"granted", "locked"}
        /\ \A k \in Node \ {n} : lockMap'[k] = lockMap[k]
    BY DEF ServeStray, IInv, TypeOK, Stray, StraysApart
  <1>1. ASSUME NEW k \in Node, k # n, Clean(k, U) PROVE Clean(k, U)'
    BY <1>0, <1>1, CleanFrame
  <1>2. ASSUME Clean(n, U), stray[r][n] = "unlock" PROVE Clean(n, U)'
    <2>1. r \in Outstanding(n)
      BY <1>2 DEF Outstanding
    <2>2. lockMap'[n] = AfterUnlock(lockMap[n], UidOf(r), IsReadLock(r))
      BY <1>2 DEF ServeStray, IInv, TypeOK
    <2>3. Outstanding(n)' = Outstanding(n) \ {r}
      BY <1>0 DEF Outstanding
    <2>4. \A s \in Req : stray'[s][n] = "lock" => UidOf(s) \notin U
      BY <1>0, <1>2 DEF Clean
    <2> QED BY <1>2, <2>1, <2>2, <2>3, <2>4, CleanHandled
  <1>3. ASSUME Clean(n, U), stray[r][n] = "lock" PROVE Clean(n, U)'
    <2>1. Covered(Outstanding(n), lockMap[n], U) /\ lockMap[n] \in Table /\ UidOf(r) \notin U
      BY <1>3 DEF Clean, IInv, TypeOK
    <2>2. lockMap'[n] = AfterLock(lockMap[n], UidOf(r), IsReadLock(r))
      BY <1>3 DEF ServeStray, IInv, TypeOK
    <2>3. Outstanding(n)' = Outstanding(n)
      BY <1>0, <1>3 DEF Outstanding
    <2>4. Covered(Outstanding(n)', lockMap'[n], U)
      <3>1. Outstanding(n) \in SUBSET Req
        BY DEF Outstanding
      <3> QED BY <2>1, <2>2, <2>3, <3>1, CoveredOther
    <2> QED BY <1>0, <1>3, <2>4, CleanNext DEF Clean
  <1> QED BY <1>0, <1>1, <1>2, <1>3 DEF CleanStep

\* A server that crashes has no locks any more.
LEMMA CleanCrash ==
    ASSUME NEW U \in SUBSET Uid, IInv, NEW n \in Node, ServerCrash(n)
    PROVE  CleanStep(U)
  <1>0. /\ \A k \in Node : lockMap'[k] = IF k = n THEN NoLock ELSE lockMap[k]
        /\ \A s \in Req, k \in Node : stray'[s][k] = IF k = n THEN "none" ELSE stray[s][k]
        /\ st' = st
    BY DEF ServerCrash, IInv, TypeOK
  <1>1. Clean(n, U)'
    BY <1>0, CleanEmpty
  <1>2. ASSUME NEW k \in Node, k # n, Clean(k, U) PROVE Clean(k, U)'
    BY <1>0, <1>2, CleanFrame
  <1> QED BY <1>1, <1>2 DEF CleanStep

\* Steps that change no table and release nothing keep every server clean.
LEMMA CleanQuiet ==
    ASSUME NEW U \in SUBSET Uid, IInv, lockMap' = lockMap, stray' = stray,
           \A s \in Req, k \in Node :
               st[s][k] \in {"granted", "locked"} => st'[s][k] \in {"granted", "locked"}
    PROVE  CleanStep(U)
  BY CleanFrame DEF CleanStep

\* What a collector has received it does not forget.
LEMMA GrantsKept ==
    ASSUME NEW U \in SUBSET Uid, IInv, NEW r \in Req, NEW s \in [Node -> Status],
           \A k \in Node : st[r][k] \in {"granted", "locked"} => s[k] \in {"granted", "locked"},
           st' \in {[st EXCEPT ![r] = s], [st EXCEPT ![r] = DropFailed(s)]}
    PROVE  \A q \in Req, k \in Node :
               st[q][k] \in {"granted", "locked"} => st'[q][k] \in {"granted", "locked"}
  <1>1. \A k \in Node : s[k] \in {"granted", "locked"} => DropFailed(s)[k] = s[k]
    BY DEF DropFailed
  <1>2. PICK x \in {s, DropFailed(s)} : st' = [st EXCEPT ![r] = x]
    OBVIOUS
  <1>3. \A k \in Node : st[r][k] \in {"granted", "locked"} => x[k] \in {"granted", "locked"}
    BY <1>1
  <1>4. \A q \in Req : st'[q] = IF q = r THEN x ELSE st[q]
    BY <1>2 DEF IInv, TypeOK
  <1> QED BY <1>3, <1>4

\* The steps of every goroutine.
LEMMA CleanGoroutine ==
    ASSUME NEW U \in SUBSET Uid, IInv, DownForgets, NEW p \in Proc, Goroutine(p)
    PROVE  CleanStep(U)
  <1>1. CASE CallLock(p) \/ NextAttempt(p)
    <2> DEFINE a == CHOOSE r \in FreeSlots(p) : TRUE
    <2>0. /\ st' = [st EXCEPT ![a] = [n \in Node |-> "sent"]]
          /\ lockMap' = lockMap /\ stray' = stray /\ FreeSlots(p) # {}
      BY <1>1 DEF CallLock, NextAttempt, Broadcast, serverVars
    <2>1. \A n \in Node : st[a][n] = "none"
      BY <2>0, FreeSlotChosen
    <2> HIDE DEF a
    <2>2. \A s \in Req, k \in Node : st[s][k] \in {"granted", "locked"} => st'[s][k] = st[s][k]
      BY <2>0, <2>1 DEF IInv, TypeOK
    <2> QED BY <2>0, <2>2, CleanQuiet
  <1>2. CASE LockSucceeds(p) \/ LockFails(p) \/ GiveUp(p) \/ CopyLocks(p) \/ Unlock(p) \/ RUnlock(p)
    <2>1. st' = st /\ lockMap' = lockMap /\ stray' = stray
      BY <1>2 DEF LockSucceeds, LockFails, GiveUp, AttemptFails, CopyLocks, Unlock, RUnlock,
                  TakeOut, Panic, serverVars
    <2> QED BY <2>1, CleanQuiet
  <1>3. CASE unlock(p)
    <2>0. req[p] \in Req
      BY <1>3 DEF unlock, IInv, AttemptsLinked
    <2>1. ASSUME NEW n \in Node, FirstLocked(req[p], n), sendRelease(req[p], n),
                 st' = [st EXCEPT ![req[p]][n] = "none"]
          PROVE  CleanStep(U)
      BY <2>0, <2>1, CleanSendRelease DEF FirstLocked, LockedNodes
    <2>2. ASSUME UNCHANGED <<serverVars, st>> PROVE CleanStep(U)
      BY <2>2, CleanQuiet DEF serverVars
    <2> QED BY <1>3, <2>1, <2>2 DEF unlock
  <1> QED BY <1>1, <1>2, <1>3 DEF Goroutine

\* The steps of every collector, the drain of late answers included.
LEMMA CleanCollector ==
    ASSUME NEW U \in SUBSET Uid,
           IInv, DownForgets, NEW r \in Req, Collector(r) \/ CollectTimeout(r)
    PROVE  CleanStep(U)
  <1>0. st[r] \in [Node -> Status]
    BY DEF IInv, TypeOK
  <1>1. CASE CollectTimeout(r)
    <2>1. lockMap' = lockMap /\ stray' = stray /\ st' = [st EXCEPT ![r] = DropFailed(st[r])]
      BY <1>1 DEF CollectTimeout, serverVars
    <2> QED BY <1>0, <2>1, GrantsKept, CleanQuiet
  <1>2. CASE releaseAll(r)
    <2>1. ASSUME NEW n \in Node, FirstLocked(r, n), sendRelease(r, n),
                 st' = [st EXCEPT ![r][n] = "none"]
          PROVE  CleanStep(U)
      BY <2>1, CleanSendRelease DEF FirstLocked, LockedNodes
    <2>2. ASSUME UNCHANGED <<serverVars, st>> PROVE CleanStep(U)
      BY <2>2, CleanQuiet DEF serverVars
    <2> QED BY <1>2, <2>1, <2>2 DEF releaseAll
  <1>3. ASSUME NEW n \in Node, ReceiveGrant(r, n) PROVE CleanStep(U)
    <2> DEFINE s == [st[r] EXCEPT ![n] = "locked"]
    <2>1. lockMap' = lockMap /\ stray' = stray
          /\ st' \in {[st EXCEPT ![r] = s], [st EXCEPT ![r] = DropFailed(s)]}
      BY <1>3 DEF ReceiveGrant, Collected, serverVars
    <2>2. s \in [Node -> Status]
          /\ \A k \in Node : st[r][k] \in {"granted", "locked"} => s[k] \in {"granted", "locked"}
      BY <1>0 DEF Status
    <2> HIDE DEF s
    <2> QED BY <2>1, <2>2, GrantsKept, CleanQuiet
  <1>4. ASSUME NEW n \in Node, ReceiveDenial(r, n) PROVE CleanStep(U)
    <2> DEFINE s == [st[r] EXCEPT ![n] = "failed"]
    <2>1. lockMap' = lockMap /\ stray' = stray
          /\ st' \in {[st EXCEPT ![r] = s], [st EXCEPT ![r] = DropFailed(s)]}
      BY <1>4 DEF ReceiveDenial, Collected, serverVars
    <2>2. s \in [Node -> Status]
          /\ \A k \in Node : st[r][k] \in {"granted", "locked"} => s[k] \in {"granted", "locked"}
      BY <1>0, <1>4 DEF Status, ReceiveDenial
    <2> HIDE DEF s
    <2> QED BY <2>1, <2>2, GrantsKept, CleanQuiet
  <1>5. ASSUME NEW n \in Node, Drain(r, n) PROVE CleanStep(U)
    <2>1. CASE st[r][n] = "granted" /\ sendRelease(r, n)
      BY <1>5, <2>1, CleanSendRelease DEF Drain
    <2>2. CASE st[r][n] = "denied" /\ UNCHANGED serverVars
      <3>1. st' = [st EXCEPT ![r][n] = "none"] /\ lockMap' = lockMap /\ stray' = stray
        BY <1>5, <2>2 DEF Drain, serverVars
      <3>2. \A s \in Req, k \in Node :
                st[s][k] \in {"granted", "locked"} => st'[s][k] \in {"granted", "locked"}
        BY <2>2, <3>1 DEF IInv, TypeOK
      <3> QED BY <3>1, <3>2, CleanQuiet
    <2> QED BY <1>5, <2>1, <2>2 DEF Drain
  <1> QED BY <1>1, <1>2, <1>3, <1>4, <1>5 DEF Collector

\* Every step that is not the crash of a client.
LEMMA StepClean ==
    ASSUME NEW U \in SUBSET Uid,
           IInv, DownForgets, [Next]_vars, \A d \in Mutex : ~ClientCrash(d)
    PROVE  CleanStep(U)
  <1>1. ASSUME NEW n \in Node, ServerRestart(n) PROVE CleanStep(U)
    BY <1>1, CleanQuiet DEF ServerRestart
  <1>2. CASE UNCHANGED vars
    BY <1>2, CleanQuiet DEF vars
  <1>3. ASSUME NEW r \in Req, NEW n \in Node, Call(r, n) PROVE CleanStep(U)
    BY <1>3, CleanServe, CleanFailure, CleanStray DEF Call
  <1> QED
    BY <1>1, <1>2, <1>3, CleanGoroutine, CleanCollector, CleanCrash DEF Next, Crash

\* A client that dies leaves the locks of the others to them.
LEMMA CleanBeside ==
    ASSUME NEW C, NEW d \in Mutex, IInv, ClientCrash(d), NEW n \in Node, Clean(n, UidsBeside(C))
    PROVE  Clean(n, UidsBeside(C \cup {d}))'
  <1> DEFINE U == UidsBeside(C \cup {d})
  <1>0. U \in SUBSET Uid /\ U \in SUBSET UidsBeside(C)
        /\ \A r \in Req : dmOf[ownerOf[r]] = d => UidOf(r) \notin U
    BY ProcAssumption DEF UidsBeside, UidOf
  <1>1. /\ \A r \in Req, k \in Node :
              dmOf[ownerOf[r]] # d => st'[r][k] = st[r][k]
        /\ \A r \in Req, k \in Node : stray'[r][k] = stray[r][k]
        /\ lockMap' = lockMap
    BY DEF ClientCrash
  <1> HIDE DEF U
  <1>2. Covered(Outstanding(n), lockMap[n], U)
    BY <1>0 DEF Clean, Covered
  <1>3. ASSUME NEW u \in U
        PROVE  /\ ReadsOf(Outstanding(n)', u) = ReadsOf(Outstanding(n), u)
               /\ \A r \in Req : UidOf(r) = u => (r \in Outstanding(n) <=> r \in Outstanding(n)')
    <2>1. \A r \in Req : UidOf(r) = u => (r \in Outstanding(n) <=> r \in Outstanding(n)')
      BY <1>0, <1>1 DEF Outstanding
    <2>2. Outstanding(n) \in SUBSET Req /\ Outstanding(n)' \in SUBSET Req
      BY DEF Outstanding
    <2> QED BY <2>1, <2>2 DEF ReadsOf
  <1>4. Covered(Outstanding(n)', lockMap'[n], U)
    <2>1. Outstanding(n) \in SUBSET Req
      BY DEF Outstanding
    <2> QED BY <1>1, <1>2, <1>3, <2>1 DEF Covered
  <1>5. \A r \in Req : stray'[r][n] = "lock" => UidOf(r) \notin U
    BY <1>0, <1>1 DEF Clean
  <1>6. Clean(n, U)'
    BY <1>0, <1>4, <1>5, CleanNext
  <1> QED BY <1>6 DEF U, UidsBeside

\* Nothing locks a server that is down.
LEMMA StepDown ==
    ASSUME IInv, DownForgets, [Next]_vars
    PROVE  DownForgets'
  <1>1. ASSUME up \subseteq up', lockMap' = lockMap PROVE DownForgets'
    BY <1>1 DEF DownForgets
  <1>2. ASSUME NEW n \in up, NEW t, up' = up, lockMap' = [lockMap EXCEPT ![n] = t]
        PROVE  DownForgets'
    BY <1>2 DEF DownForgets, IInv, TypeOK
  <1>3. ASSUME NEW r, NEW n \in Node, sendRelease(r, n) PROVE DownForgets'
    BY <1>1, <1>2, <1>3 DEF sendRelease, serverVars
  <1>4. ASSUME NEW p \in Proc, Goroutine(p) PROVE DownForgets'
    BY <1>1, <1>3, <1>4
       DEF Goroutine, CallLock, NextAttempt, Broadcast, LockSucceeds, LockFails, GiveUp,
           AttemptFails, CopyLocks, Unlock, RUnlock, TakeOut, Panic, unlock, serverVars
  <1>5. ASSUME NEW r \in Req, Collector(r) \/ CollectTimeout(r) PROVE DownForgets'
    BY <1>1, <1>3, <1>5
       DEF Collector, CollectTimeout, releaseAll, ReceiveGrant, ReceiveDenial, Drain, serverVars
  <1>6. ASSUME NEW r \in Req, NEW n \in Node, Call(r, n) PROVE DownForgets'
    BY <1>1, <1>2, <1>6
       DEF Call, ServeLock, CallFails, ReplyLost, CallDelayed, ServeStray
  <1>7. CASE Crash
    <2>1. ASSUME NEW n \in Node, ServerCrash(n) PROVE DownForgets'
      BY <2>1 DEF ServerCrash, DownForgets, IInv, TypeOK
    <2>2. ASSUME NEW n \in Node, ServerRestart(n) PROVE DownForgets'
      BY <1>1, <2>2 DEF ServerRestart
    <2>3. ASSUME NEW d \in Mutex, ClientCrash(d) PROVE DownForgets'
      BY <1>1, <2>3 DEF ClientCrash
    <2> QED BY <1>7, <2>1, <2>2, <2>3 DEF Crash
  <1>8. CASE UNCHANGED vars
    BY <1>1, <1>8 DEF vars
  <1> QED
    BY <1>4, <1>5, <1>6, <1>7, <1>8 DEF Next

\* Faults are counted one by one.
LEMMA StepFaults ==
    ASSUME IInv, [Next]_vars
    PROVE  faults' \in {faults, faults + 1}
  <1>1. ASSUME NEW r, NEW n \in Node, sendRelease(r, n) PROVE faults' \in {faults, faults + 1}
    BY <1>1 DEF sendRelease, serverVars
  <1>2. ASSUME NEW p \in Proc, Goroutine(p) PROVE faults' \in {faults, faults + 1}
    BY <1>1, <1>2
       DEF Goroutine, CallLock, NextAttempt, Broadcast, LockSucceeds, LockFails, GiveUp,
           AttemptFails, CopyLocks, Unlock, RUnlock, TakeOut, Panic, unlock, serverVars
  <1>3. ASSUME NEW r \in Req, Collector(r) \/ CollectTimeout(r)
        PROVE  faults' \in {faults, faults + 1}
    BY <1>1, <1>3
       DEF Collector, CollectTimeout, releaseAll, ReceiveGrant, ReceiveDenial, Drain, serverVars
  <1>4. ASSUME NEW r \in Req, NEW n \in Node, Call(r, n) PROVE faults' \in {faults, faults + 1}
    BY <1>4 DEF Call, ServeLock, CallFails, ReplyLost, CallDelayed, ServeStray
  <1>5. CASE Crash
    BY <1>5 DEF Crash, ServerCrash, ServerRestart, ClientCrash
  <1>6. CASE UNCHANGED vars
    BY <1>6 DEF vars
  <1> QED
    BY <1>2, <1>3, <1>4, <1>5, <1>6 DEF Next

\* Only the crash of its process makes a client a dead one.
LEMMA StepDied ==
    ASSUME [Next]_vars, \A d \in Mutex : ~ClientCrash(d)
    PROVE  died' = died
  <1>1. ASSUME NEW r, NEW n \in Node, sendRelease(r, n) PROVE died' = died
    BY <1>1 DEF sendRelease, serverVars
  <1>2. ASSUME NEW p \in Proc, Goroutine(p) PROVE died' = died
    BY <1>1, <1>2
       DEF Goroutine, CallLock, NextAttempt, Broadcast, LockSucceeds, LockFails, GiveUp,
           AttemptFails, CopyLocks, Unlock, RUnlock, TakeOut, Panic, unlock, serverVars
  <1>3. ASSUME NEW r \in Req, Collector(r) \/ CollectTimeout(r) PROVE died' = died
    BY <1>1, <1>3
       DEF Collector, CollectTimeout, releaseAll, ReceiveGrant, ReceiveDenial, Drain, serverVars
  <1>4. ASSUME NEW r \in Req, NEW n \in Node, Call(r, n) PROVE died' = died
    BY <1>4 DEF Call, ServeLock, CallFails, ReplyLost, CallDelayed, ServeStray
  <1>5. CASE Crash
    BY <1>5 DEF Crash, ServerCrash, ServerRestart
  <1>6. CASE UNCHANGED vars
    BY <1>6 DEF vars
  <1> QED
    BY <1>2, <1>3, <1>4, <1>5, <1>6 DEF Next

\* The servers are clean when the program starts.
LEMMA InitClean ==
    ASSUME NEW U \in SUBSET Uid, Init
    PROVE  DownForgets /\ \A n \in Node : Clean(n, U)
  <1>1. ASSUME NEW n \in Node PROVE Clean(n, U)
    <2>1. lockMap[n] = NoLock /\ Outstanding(n) \in SUBSET Req
      BY DEF Init, Outstanding
    <2>2. \A r \in Req : stray[r][n] = "none"
      BY DEF Init
    <2> QED BY <2>1, <2>2, CoveredNoLock DEF Clean
  <1> QED BY <1>1 DEF Init, DownForgets

(***************************************************************************)
(* Without a lost message or a crashed client no server keeps a lock that  *)
(* its attempt does not know of and release, however late the answers come *)
(* in, whatever releases are handled late and whatever servers restart.    *)
(***************************************************************************)
THEOREM StaleLockFreedom == NothingLost /\ Spec => []NoStaleLocks
  <1> DEFINE AllClean == DownForgets /\ \A n \in Node : Clean(n, Uid)
  <1>1. NothingLost => NothingLost'
    BY DEF NothingLost, Losses
  <1>2. AllClean => NoStaleLocks
    BY CleanKnown DEF NoStaleLocks
  <1>3. Init => AllClean
    BY InitClean
  <1>4. ASSUME NothingLost, IInv, AllClean, [Next]_vars PROVE AllClean'
    <2>1. \A d \in Mutex : ~ClientCrash(d)
      BY <1>4 DEF NothingLost, ClientCrash, MayFail
    <2>2. CleanStep(Uid) /\ DownForgets'
      BY <1>4, <2>1, StepClean, StepDown
    <2>3. \A n \in Node : Clean(n, Uid)'
      BY <1>4, <2>2 DEF CleanStep, NothingLost
    <2> QED BY <2>2, <2>3
  <1> HIDE DEF AllClean
  <1> QED
    BY <1>1, <1>2, <1>3, <1>4, Invariance, PTL DEF Spec

-----------------------------------------------------------------------------
\* The servers that are unclean, with the uids of U.
Unclean(U) == {n \in Node : ~Clean(n, U)}

\* The faults so far: clients that died, and servers that something was lost at.
Accounted(C) ==
    IsFiniteSet(C) /\ Cardinality(C) + Cardinality(Unclean(UidsBeside(C))) <= faults

BoundInv == DownForgets /\ \E C \in SUBSET Mutex : C = died /\ Accounted(C)

\* Sets of servers can be counted.
LEMMA NodesCounted == \A S \in SUBSET Node : IsFiniteSet(S) /\ Cardinality(S) \in Nat
  BY NodeFinite, FS_Subset, FS_CardinalityType

\* A step that is no crash of a client makes one server unclean, as a fault.
LEMMA StepAccounted ==
    ASSUME IInv, NEW C, Accounted(C), CleanStep(UidsBeside(C)), faults' \in {faults, faults + 1}
    PROVE  Accounted(C)'
  <1> DEFINE U == UidsBeside(C)
             X == Unclean(U)
             Y == Unclean(U)'
  <1>0. X \in SUBSET Node /\ Y \in SUBSET Node /\ faults \in Nat /\ Cardinality(C) \in Nat
    BY FS_CardinalityType DEF Unclean, IInv, TypeOK, Accounted
  <1>1. Cardinality(X) \in Nat /\ Cardinality(Y) \in Nat /\ Cardinality(C) + Cardinality(X) <= faults
    BY <1>0, NodesCounted DEF Accounted
  <1>2. CASE \A k \in Node : Clean(k, U) => Clean(k, U)'
    <2>1. Y \in SUBSET X
      BY <1>2 DEF Unclean
    <2>2. Cardinality(Y) <= Cardinality(X)
      BY <1>0, <2>1, NodesCounted, FS_Subset
    <2>3. Cardinality(C) + Cardinality(Y) <= faults'
      BY <1>0, <1>1, <2>2
    <2> QED BY <2>3 DEF Accounted, Unclean, UidsBeside
  <1>3. ASSUME NEW n \in Node, faults' = faults + 1,
               \A k \in Node \ {n} : Clean(k, U) => Clean(k, U)'
        PROVE  Accounted(C)'
    <2>1. Y \in SUBSET (X \cup {n}) /\ X \cup {n} \in SUBSET Node
      BY <1>0, <1>3 DEF Unclean
    <2>2. Cardinality(Y) <= Cardinality(X \cup {n}) /\ Cardinality(X \cup {n}) \in Nat
      BY <2>1, NodesCounted, FS_Subset
    <2>3. Cardinality(X \cup {n}) <= Cardinality(X) + 1
      BY <1>0, <1>1, NodesCounted, FS_AddElement
    <2>4. Cardinality(C) + Cardinality(Y) <= faults'
      BY <1>0, <1>1, <1>3, <2>2, <2>3
    <2> QED BY <2>4 DEF Accounted, Unclean, UidsBeside
  <1> QED
    BY <1>2, <1>3 DEF CleanStep

\* The crash of a client is a fault and accounts for the client.
LEMMA CrashAccounted ==
    ASSUME IInv, NEW C, Accounted(C), NEW d \in Mutex, ClientCrash(d)
    PROVE  Accounted(C \cup {d})'
  <1> DEFINE D == C \cup {d}
             X == Unclean(UidsBeside(C))
             Y == Unclean(UidsBeside(D))'
  <1>0. X \in SUBSET Node /\ Y \in SUBSET Node /\ faults \in Nat /\ faults' = faults + 1
    BY DEF Unclean, IInv, TypeOK, ClientCrash
  <1>1. IsFiniteSet(D) /\ Cardinality(D) <= Cardinality(C) + 1
        /\ Cardinality(C) \in Nat /\ Cardinality(D) \in Nat
    BY FS_AddElement, FS_CardinalityType DEF Accounted
  <1>2. Y \in SUBSET X
    BY CleanBeside DEF Unclean
  <1>3. Cardinality(Y) <= Cardinality(X) /\ Cardinality(X) \in Nat /\ Cardinality(Y) \in Nat
    BY <1>0, <1>2, NodesCounted, FS_Subset
  <1>4. Cardinality(C) + Cardinality(X) <= faults
    BY DEF Accounted
  <1>5. Cardinality(D) + Cardinality(Y) <= faults'
    BY <1>0, <1>1, <1>3, <1>4
  <1> QED BY <1>1, <1>5 DEF Accounted, Unclean, UidsBeside

\* Every step keeps the account.
LEMMA StepBound == IInv /\ BoundInv /\ [Next]_vars => BoundInv'
  <1> SUFFICES ASSUME IInv, BoundInv, [Next]_vars PROVE BoundInv'
    OBVIOUS
  <1>1. PICK C \in SUBSET Mutex : C = died /\ Accounted(C)
    BY DEF BoundInv
  <1>2. DownForgets /\ DownForgets' /\ faults' \in {faults, faults + 1}
    BY StepDown, StepFaults DEF BoundInv
  <1>3. UidsBeside(C) \in SUBSET Uid
    BY DEF UidsBeside
  <1>4. ASSUME NEW d \in Mutex, ClientCrash(d) PROVE BoundInv'
    <2>1. C \cup {d} \in SUBSET Mutex /\ C \cup {d} = died'
      BY <1>1, <1>4 DEF ClientCrash
    <2>2. Accounted(C \cup {d})'
      BY <1>1, <1>4, CrashAccounted
    <2> QED BY <1>2, <2>1, <2>2 DEF BoundInv
  <1>5. ASSUME \A d \in Mutex : ~ClientCrash(d) PROVE BoundInv'
    <2>1. CleanStep(UidsBeside(C))
      BY <1>2, <1>3, <1>5, StepClean
    <2>2. Accounted(C)'
      BY <1>1, <1>2, <2>1, StepAccounted
    <2>3. died' = C
      BY <1>1, <1>5, StepDied
    <2> QED BY <1>2, <2>2, <2>3 DEF BoundInv
  <1> QED BY <1>4, <1>5

\* Nothing is unclean when the program starts.
LEMMA InitBound == Init => BoundInv
  <1> SUFFICES ASSUME Init PROVE BoundInv
    OBVIOUS
  <1>1. UidsBeside({}) \in SUBSET Uid
    BY DEF UidsBeside
  <1>2. DownForgets /\ Unclean(UidsBeside({})) = {}
    BY <1>1, InitClean DEF Unclean
  <1>3. faults = 0
    BY DEF Init
  <1>4. IsFiniteSet({}) /\ Cardinality({}) = 0
    BY FS_EmptySet
  <1>5. Accounted({})
    BY <1>2, <1>3, <1>4 DEF Accounted
  <1>6. died = {}
    BY DEF Init
  <1> QED BY <1>2, <1>5, <1>6 DEF BoundInv

\* The account covers the stale locks.
LEMMA BoundKnown == IInv /\ BoundInv => StaleLocksBounded
  <1> SUFFICES ASSUME IInv, BoundInv PROVE StaleLocksBounded
    OBVIOUS
  <1>1. PICK C \in SUBSET Mutex : C = died /\ Accounted(C)
    BY DEF BoundInv
  <1> DEFINE U == UidsBeside(C)
             S == {n \in Node : \E u \in U : ~LocksKnown(n, u)}
  <1>2. U \in SUBSET Uid
    BY DEF UidsBeside
  <1>3. S \in SUBSET Unclean(U) /\ Unclean(U) \in SUBSET Node /\ S \in SUBSET Node
    BY <1>2, CleanKnown DEF Unclean
  <1>4. Cardinality(S) <= Cardinality(Unclean(U))
        /\ Cardinality(S) \in Nat /\ Cardinality(Unclean(U)) \in Nat
    BY <1>3, NodesCounted, FS_Subset
  <1>5. Cardinality(C) \in Nat /\ faults \in Nat /\ Cardinality(C) + Cardinality(Unclean(U)) <= faults
    BY <1>1, FS_CardinalityType DEF Accounted, IInv, TypeOK
  <1>6. Cardinality(C) + Cardinality(S) <= faults
    BY <1>4, <1>5
  <1> QED BY <1>1, <1>6 DEF StaleLocksBounded

(***************************************************************************)
(* Every fault accounts for the stale locks of one client, which died, or  *)
(* for those on one server, for any number of nodes, goroutines and faults *)
(* of every kind.  Where no client dies the servers with stale locks are   *)
(* no more than the faults.                                                *)
(***************************************************************************)
THEOREM StaleLocksAccounted == Spec => []StaleLocksBounded
  BY InitBound, StepBound, BoundKnown, Invariance, PTL DEF Spec
=============================================================================

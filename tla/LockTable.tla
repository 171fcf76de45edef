----------------------------- MODULE LockTable -----------------------------
(***************************************************************************)
(* What one lock server promises about one resource, as pure operators.    *)
(* A table is the lockMap entry of the resource: the uid of the one writer *)
(* or, per uid, the number of read locks it holds.  The chaos server keeps *)
(* the same facts as an array of lockRequesterInfo; the order of the array *)
(* and its timestamps decide nothing, so they are left out here (module    *)
(* LockServer keeps the array and is shown to implement these operators).  *)
(***************************************************************************)
EXTENDS Integers

CONSTANTS Uid,              \* ids passed to Lock and RLock
          NoUid             \* "", no writer

ASSUME NoUidAssumption == NoUid \notin Uid

Table == [writer : Uid \cup {NoUid}, readers : [Uid -> Nat]]

NoLock == [writer |-> NoUid, readers |-> [u \in Uid |-> 0]]

\* The resource has no key in lockMap.
Vacant(t) == t.writer = NoUid /\ \A u \in Uid : t.readers[u] = 0

\* A writer has the table to itself.
TableSound(t) == t.writer # NoUid => \A u \in Uid : t.readers[u] = 0

(***************************************************************************)
(* The reply of the Lock and RLock handlers, and the table they leave.     *)
(* A write lock needs a vacant table, a read lock one without a writer.    *)
(***************************************************************************)
Grants(t, isReadLock) ==
    IF isReadLock THEN t.writer = NoUid ELSE Vacant(t)

AfterLock(t, uid, isReadLock) ==
    IF ~Grants(t, isReadLock) THEN t
    ELSE IF isReadLock THEN [t EXCEPT !.readers[uid] = @ + 1]
    ELSE [t EXCEPT !.writer = uid]

(***************************************************************************)
(* The Unlock and RUnlock handlers: an error, and no change, unless a lock *)
(* of the same kind and the same uid is there to be removed.               *)
(***************************************************************************)
AfterUnlock_AllOfUid(t, uid, isReadLock) == \* mutant: drops all read locks of uid
    IF isReadLock THEN [t EXCEPT !.readers[uid] = 0]
    ELSE IF t.writer = uid THEN [t EXCEPT !.writer = NoUid] ELSE t

AfterUnlock_Unchecked(t, uid, isReadLock) == \* mutant: no look at what is locked
    IF isReadLock THEN [t EXCEPT !.readers[uid] = @ - 1]
    ELSE [t EXCEPT !.writer = NoUid]

AfterUnlock(t, uid, isReadLock) ==
    IF isReadLock
    THEN IF t.writer = NoUid /\ t.readers[uid] > 0
         THEN [t EXCEPT !.readers[uid] = @ - 1]
         ELSE t
    ELSE IF t.writer = uid THEN [t EXCEPT !.writer = NoUid] ELSE t
=============================================================================

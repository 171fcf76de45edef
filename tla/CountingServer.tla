--------------------------- MODULE CountingServer ---------------------------
(***************************************************************************)
(* The lock server of performance/performance-server.go: lockMap maps a    *)
(* name to WriteLock or to the number of its read locks, and has no key    *)
(* for a name that is not locked.  The UID of a request is never looked    *)
(* at.  The handlers run under l.mutex, so each is one step.               *)
(***************************************************************************)
EXTENDS Integers, Sequences

CONSTANTS Resource,
          Uid, NoUid,
          OneUid,           \* the uid that stands for all of them
          MaxLocks          \* bound: read locks of one name

VARIABLES lockMap,
          call,             \* the last handler that ran, and the name
          reply, err        \* what it answered

WriteLock == -1
ReadLock == 1

\* lockMap[x] = locks and delete(lockMap, x)
Put(x, locks) == [y \in DOMAIN lockMap \cup {x} |-> IF y = x THEN locks ELSE lockMap[y]]
Delete(x) == [y \in DOMAIN lockMap \ {x} |-> lockMap[y]]

Init ==
    /\ lockMap = [x \in {} |-> 0]
    /\ call = <<"start">>
    /\ reply = FALSE /\ err = FALSE

Lock(x) ==
    LET free == x \notin DOMAIN lockMap
    IN  /\ call' = <<"Lock", x>>
        /\ lockMap' = IF free THEN Put(x, WriteLock) ELSE lockMap
        /\ reply' = free
        /\ err' = FALSE

RLock(x) ==
    LET known == x \in DOMAIN lockMap
        granted == known => lockMap[x] # WriteLock
    IN  /\ known => lockMap[x] < MaxLocks
        /\ call' = <<"RLock", x>>
        /\ lockMap' = IF ~granted THEN lockMap
                      ELSE Put(x, IF known THEN lockMap[x] + ReadLock ELSE ReadLock)
        /\ reply' = granted
        /\ err' = FALSE

\* With reply false an error is returned and nothing is changed.
Release(may, after) ==
    /\ lockMap' = IF may THEN after ELSE lockMap
    /\ reply' = may
    /\ err' = ~may

Unlock(x) ==
    /\ call' = <<"Unlock", x>>
    /\ Release(x \in DOMAIN lockMap /\ lockMap[x] = WriteLock, Delete(x))

RUnlock_Zero(x) ==              \* mutant: the key stays with a count of zero
    /\ call' = <<"RUnlock", x>>
    /\ Release(x \in DOMAIN lockMap /\ lockMap[x] # WriteLock, Put(x, lockMap[x] - ReadLock))

RUnlock_All(x) ==               \* mutant: the last reader out is any reader
    /\ call' = <<"RUnlock", x>>
    /\ Release(x \in DOMAIN lockMap /\ lockMap[x] # WriteLock, Delete(x))

RUnlock(x) ==
    /\ call' = <<"RUnlock", x>>
    /\ Release(x \in DOMAIN lockMap /\ lockMap[x] # WriteLock,
               IF lockMap[x] > ReadLock THEN Put(x, lockMap[x] - ReadLock) ELSE Delete(x))

\* The table is in memory only.
Restart ==
    /\ lockMap' = [x \in {} |-> 0]
    /\ call' = <<"start">>
    /\ reply' = FALSE /\ err' = FALSE

-----------------------------------------------------------------------------
\* The tables of a LockService on which all requests have the same uid.
Tables ==
    [x \in Resource |->
        LET locks == IF x \in DOMAIN lockMap THEN lockMap[x] ELSE 0
        IN  [writer |-> IF locks = WriteLock THEN OneUid ELSE NoUid,
             readers |-> [u \in Uid |-> IF u = OneUid /\ locks # WriteLock THEN locks ELSE 0]]]

Service == INSTANCE LockService WITH
               tables <- Tables,
               request <- IF call = <<"start">> THEN call ELSE Append(call, OneUid),
               answer <- reply /\ ~err
=============================================================================

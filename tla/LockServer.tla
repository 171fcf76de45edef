----------------------------- MODULE LockServer -----------------------------
(***************************************************************************)
(* The lock server of chaos/lock-rpc-server.go.  lockMap maps the name of  *)
(* a resource to an array of lockRequesterInfo, and has no key for a name  *)
(* that is not locked; the handlers run under l.mutex, so each is one      *)
(* step.  Of an entry the flag writer and the uid are kept: the addresses  *)
(* and the time stamps are never read by a handler (getLongLivedLocks and  *)
(* removeEntryIfExists, which read them, are never called).                *)
(***************************************************************************)
EXTENDS LockTable, SequencesExt

CONSTANTS Resource,
          MaxEntries        \* bound: entries of one array

VARIABLES lockMap,
          call,             \* the last handler that ran, and its arguments
          reply, err        \* what it answered

vars == <<lockMap, call, reply, err>>

lockRequesterInfo == [writer : BOOLEAN, uid : Uid]

isWriteLock(lri) == Len(lri) = 1 /\ lri[1].writer

\* lockMap[x] = lri and delete(lockMap, x)
Put(x, lri) == [y \in DOMAIN lockMap \cup {x} |-> IF y = x THEN lri ELSE lockMap[y]]
Delete(x) == [y \in DOMAIN lockMap \ {x} |-> lockMap[y]]

Init ==
    /\ lockMap = [x \in {} |-> <<>>]
    /\ call = <<"start">>
    /\ reply = FALSE /\ err = FALSE

Lock(x, uid) ==
    LET free == x \notin DOMAIN lockMap
    IN  /\ call' = <<"Lock", x, uid>>
        /\ lockMap' = IF free THEN Put(x, <<[writer |-> TRUE, uid |-> uid]>>) ELSE lockMap
        /\ reply' = free
        /\ err' = FALSE

RLock(x, uid) ==
    LET lrInfo == [writer |-> FALSE, uid |-> uid]
        known == x \in DOMAIN lockMap
        granted == known => ~isWriteLock(lockMap[x])
    IN  /\ known => Len(lockMap[x]) < MaxEntries
        /\ call' = <<"RLock", x, uid>>
        /\ lockMap' = IF ~granted THEN lockMap
                      ELSE Put(x, IF known THEN Append(lockMap[x], lrInfo) ELSE <<lrInfo>>)
        /\ reply' = granted
        /\ err' = FALSE

(***************************************************************************)
(* The first entry with the uid goes, and with the last entry the key.     *)
(* reply is already true when no entry has the uid and an error follows.   *)
(***************************************************************************)
removeEntry_KeepKey(x, uid) ==  \* mutant: an empty array stays behind
    LET lri == lockMap[x]
        mine(entry) == entry.uid = uid
    IN  /\ lockMap' = Put(x, RemoveFirstMatch(lri, mine))
        /\ err' = (SelectInSeq(lri, mine) = 0)

removeEntry_Any(x, uid) ==      \* mutant: the first entry, whatever its uid
    /\ lockMap' = IF Len(lockMap[x]) = 1 THEN Delete(x) ELSE Put(x, Tail(lockMap[x]))
    /\ err' = FALSE

removeEntry(x, uid) ==
    LET lri == lockMap[x]
        mine(entry) == entry.uid = uid
        index == SelectInSeq(lri, mine)
    IN  /\ lockMap' = IF index = 0 THEN lockMap
                      ELSE IF Len(lri) = 1 THEN Delete(x)
                      ELSE Put(x, RemoveAt(lri, index))
        /\ err' = (index = 0)

\* Unlock on a name that is not write locked, RUnlock on one that is, fail.
Unlock(x, uid) ==
    /\ call' = <<"Unlock", x, uid>>
    /\ IF x \in DOMAIN lockMap /\ isWriteLock(lockMap[x])
       THEN removeEntry(x, uid) /\ reply' = TRUE
       ELSE UNCHANGED lockMap /\ reply' = FALSE /\ err' = TRUE

RUnlock(x, uid) ==
    /\ call' = <<"RUnlock", x, uid>>
    /\ IF x \in DOMAIN lockMap /\ ~isWriteLock(lockMap[x])
       THEN removeEntry(x, uid) /\ reply' = TRUE
       ELSE UNCHANGED lockMap /\ reply' = FALSE /\ err' = TRUE

\* killProcess and launchTestServers: the table is in memory only.
Restart ==
    /\ lockMap' = [x \in {} |-> <<>>]
    /\ call' = <<"start">>
    /\ reply' = FALSE /\ err' = FALSE

Next ==
    \/ \E x \in Resource, uid \in Uid :
          Lock(x, uid) \/ Unlock(x, uid) \/ RLock(x, uid) \/ RUnlock(x, uid)
    \/ Restart

Spec == Init /\ [][Next]_vars

-----------------------------------------------------------------------------
(***************************************************************************)
(* The arrays never degenerate: a key has at least one entry (Lock asks    *)
(* for the key only, so an empty array would lock the name for ever), and  *)
(* a writer has the array to itself (isWriteLock looks at arrays of length *)
(* one only, so a writer among others would not be seen).                  *)
(***************************************************************************)
ArraysSound ==
    /\ \A x \in DOMAIN lockMap :
          /\ x \in Resource
          /\ lockMap[x] \in Seq(lockRequesterInfo) \ {<<>>}
          /\ (\E i \in DOMAIN lockMap[x] : lockMap[x][i].writer) => Len(lockMap[x]) = 1
    /\ reply \in BOOLEAN /\ err \in BOOLEAN

Tables ==
    [x \in Resource |->
        IF x \notin DOMAIN lockMap THEN NoLock
        ELSE [writer |-> IF isWriteLock(lockMap[x]) THEN lockMap[x][1].uid ELSE NoUid,
              readers |-> [u \in Uid |->
                  Cardinality({i \in DOMAIN lockMap[x] : lockMap[x][i] = [writer |-> FALSE, uid |-> u]})]]]

Service == INSTANCE LockService WITH tables <- Tables, request <- call, answer <- reply /\ ~err

(***************************************************************************)
(* The handlers, one after the other, behave like the tables of            *)
(* LockService, which the model of the client builds on: every request has *)
(* the same answer, and a release removes one lock of its own uid and kind *)
(* or nothing.                                                             *)
(***************************************************************************)
ImplementsLockService == Service!Spec
=============================================================================

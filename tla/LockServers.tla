---------------------------- MODULE LockServers ----------------------------
(***************************************************************************)
(* The two lock servers of the repository, LockServer of chaos/ and        *)
(* CountingServer of performance/, side by side on the same requests.      *)
(***************************************************************************)
EXTENDS LockServer

CONSTANT OneUid
ASSUME OneUidAssumption == OneUid \in Uid

VARIABLES counts, countCall, countReply, countErr,      \* CountingServer
          foreign   \* history: a uid released a kind of lock that only others had

Counting == INSTANCE CountingServer WITH
                MaxLocks <- MaxEntries,
                lockMap <- counts, call <- countCall, reply <- countReply, err <- countErr

bothVars == <<vars, counts, countCall, countReply, countErr, foreign>>

BothInit == Init /\ Counting!Init /\ foreign = FALSE

Foreign(x, uid, writer) ==
    /\ x \in DOMAIN lockMap /\ isWriteLock(lockMap[x]) = writer
    /\ \A i \in DOMAIN lockMap[x] : lockMap[x][i].uid # uid

BothNext ==
    \/ \E x \in Resource, uid \in Uid :
          \/ Lock(x, uid) /\ Counting!Lock(x) /\ UNCHANGED foreign
          \/ RLock(x, uid) /\ Counting!RLock(x) /\ UNCHANGED foreign
          \/ Unlock(x, uid) /\ Counting!Unlock(x) /\ foreign' = (foreign \/ Foreign(x, uid, TRUE))
          \/ RUnlock(x, uid) /\ Counting!RUnlock(x) /\ foreign' = (foreign \/ Foreign(x, uid, FALSE))
    \/ Restart /\ Counting!Restart /\ foreign' = FALSE

BothSpec == BothInit /\ [][BothNext]_bothVars

-----------------------------------------------------------------------------
(***************************************************************************)
(* The handlers of performance-server.go behave like the tables of         *)
(* a LockService that gets all its requests with one uid: what is shown of *)
(* the clients for every choice of uids holds with this server too.        *)
(***************************************************************************)
CountingImplementsLockService == Counting!Service!Spec

(***************************************************************************)
(* Clients that release only what they were granted cannot tell the two    *)
(* servers apart: the uids and the arrays of the chaos server make a       *)
(* difference, in a count, an answer or an error, only after somebody      *)
(* released a lock of others.                                              *)
(***************************************************************************)
ServersAgree ==
    ~foreign =>
        /\ reply = countReply /\ err = countErr
        /\ DOMAIN lockMap = DOMAIN counts
        /\ \A x \in DOMAIN lockMap :
              counts[x] = IF isWriteLock(lockMap[x]) THEN Counting!WriteLock ELSE Len(lockMap[x])
=============================================================================

----------------------------- MODULE DRWMutex -----------------------------
(***************************************************************************)
(* The distributed reader/writer mutex of drwmutex.go on one resource:     *)
(* goroutines calling Lock, RLock, GetLock, GetRLock, Unlock and RUnlock   *)
(* on DRWMutex objects, the lock() attempts they make, the goroutine that  *)
(* collects the answers of an attempt, and the lock servers.               *)
(*                                                                         *)
(* Abstractions.  Locks on different resource names share nothing (every   *)
(* server keys its table by the name), so one name is modelled.  A process *)
(* of the model always makes the same kind of call with the same id; a     *)
(* goroutine that mixes kinds or ids is several processes with one         *)
(* DRWMutex, and so is the user of a DRLocker, whose Lock calls RLock with *)
(* an id drawn for each call.  An attempt (one run of lock()) is a slot of *)
(* Req that is used again when nothing of the old attempt is left.         *)
(* Time is left out: the one second timeout of the collector, the back-off *)
(* and the timeout of GetLock may happen whenever the code can observe     *)
(* them.  lockBlocking polls dm.ctx but its break only leaves the select   *)
(* statement, so a cancelled context changes nothing and is not part of    *)
(* the state.                                                              *)
(***************************************************************************)
EXTENDS Dsync, LockTable, FiniteSets, Sequences

CONSTANTS Proc,             \* goroutines
          Reader,           \* those that call RLock or GetRLock
          Timed,            \* those whose call has a finite timeout
          Mutex,            \* DRWMutex objects with the modelled Name
          dmOf,             \* the DRWMutex a process works on
          uidOf,            \* the id a process passes
          Req, NoReq,       \* lock() attempts
          ownerOf,          \* the process an attempt belongs to
          Hung,             \* servers that accept a call and never answer it
          FaultKinds,       \* the faults that may happen
          MaxFaults         \* bound on the number of faults

ASSUME ProcAssumption ==
    /\ IsFiniteSet(Proc) /\ IsFiniteSet(Req) /\ NoReq \notin Req
    /\ Reader \subseteq Proc /\ Timed \subseteq Proc
    /\ dmOf \in [Proc -> Mutex] /\ uidOf \in [Proc -> Uid]
    /\ ownerOf \in [Req -> Proc]
    /\ Hung \subseteq Node
    /\ FaultKinds \subseteq {"call", "release", "delay", "late", "server", "client"}
    /\ MaxFaults \in Nat

VARIABLES lockMap,          \* lock table of each server
          up,               \* servers that are running
          forgot,           \* history: servers that lost their table in a crash
          died,             \* history: DRWMutexes whose process has crashed
          faults,           \* history: number of faults so far
          stage,            \* what an attempt has come to
          st,               \* per attempt and node: the call, the channel, locks[]
          stray,            \* per attempt and node: a request its caller gave up on
          pc, req,          \* where a process is, and in which attempt
          writeLocks,       \* dm.writeLocks: the attempt whose array it holds
          readersLocks      \* dm.readersLocks, oldest first

vars == <<lockMap, up, forgot, died, faults, stage, st, stray, pc, req, writeLocks, readersLocks>>
serverVars == <<lockMap, up, forgot, died, faults, stray>>
mutexVars == <<writeLocks, readersLocks>>

(***************************************************************************)
(* The state of attempt r at node n:                                       *)
(*   none     no call, or its answer was dealt with and nothing is held    *)
(*   sent     the Lock or RLock call is under way                          *)
(*   granted  the channel ch has a Granted with the uid set                *)
(*   denied   the channel ch has a Granted without uid (refused or error)  *)
(*   locked   locks[n] is set                                              *)
(*   failed   received as denied, counted in locksFailed                   *)
(***************************************************************************)
Status == {"none", "sent", "granted", "denied", "locked", "failed"}
Unreceived == {"sent", "granted", "denied"}

\* A call or a release that came back with an error, and which the server has
\* read from the broken connection all the same and handles later on.
Stray == {"none", "lock", "unlock"}

\* idle: owned by nobody; collect, release, decided: inside lock(), before, in
\* and after the point where the collector signals wg.Done(); won: lock() has
\* returned true; held: the array is in the DRWMutex; unlock: taken out of it.
Stage == {"idle", "collect", "release", "decided", "won", "held", "unlock"}

Control == {"idle", "lock", "backoff", "won", "held", "unlock", "panic"}

IsReadLock(r) == ownerOf[r] \in Reader
UidOf(r) == uidOf[ownerOf[r]]
Quorum(r) == IF IsReadLock(r) THEN dquorumReads ELSE dquorum

LockedNodes(r) == {n \in Node : st[r][n] = "locked"}

\* mutant: one lock too few
quorumMet_OneLess(r) == Cardinality(LockedNodes(r)) >= Quorum(r) - 1
quorumMet(r) == Cardinality(LockedNodes(r)) >= Quorum(r)

\* dm.m is held across a whole Unlock or RUnlock, and otherwise only for a copy.
MutexFree(d) == \A p \in Proc : dmOf[p] = d => pc[p] # "unlock"

\* Attempts with answers that are still to be drained, or stray requests.
LeftOver(p) ==
    {r \in Req : ownerOf[r] = p /\ \E n \in Node : st[r][n] # "none" \/ stray[r][n] # "none"}

FreeSlots(p) == {r \in Req : ownerOf[r] = p /\ stage[r] = "idle"} \ LeftOver(p)

MayFail(kind) == kind \in FaultKinds /\ faults < MaxFaults

\* The first node, in index order, whose entry of the array of r is set.
FirstLocked(r, n) == n \in LockedNodes(r) /\ \A k \in LockedNodes(r) : n <= k

-----------------------------------------------------------------------------
Init ==
    /\ lockMap = [n \in Node |-> NoLock]
    /\ up = Node
    /\ forgot = {}
    /\ died = {}
    /\ faults = 0
    /\ stage = [r \in Req |-> "idle"]
    /\ st = [r \in Req |-> [n \in Node |-> "none"]]
    /\ stray = [r \in Req |-> [n \in Node |-> "none"]]
    /\ pc = [p \in Proc |-> "idle"]
    /\ req = [p \in Proc |-> NoReq]
    /\ writeLocks = [d \in Mutex |-> NoReq]
    /\ readersLocks = [d \in Mutex |-> <<>>]

(***************************************************************************)
(* A new run of lock(): every node is called, the collector starts.        *)
(***************************************************************************)
Broadcast(p) ==
    /\ FreeSlots(p) # {}
    /\ LET r == CHOOSE r \in FreeSlots(p) : TRUE
       IN  /\ stage' = [stage EXCEPT ![r] = "collect"]
           /\ st' = [st EXCEPT ![r] = [n \in Node |-> "sent"]]
           /\ req' = [req EXCEPT ![p] = r]
    /\ pc' = [pc EXCEPT ![p] = "lock"]
    /\ UNCHANGED <<serverVars, mutexVars>>

CallLock(p) == pc[p] = "idle" /\ Broadcast(p)

\* The retry timer delivers the next attempt of lockBlocking's loop.
NextAttempt(p) == pc[p] = "backoff" /\ Broadcast(p)

-----------------------------------------------------------------------------
(***************************************************************************)
(* The lock server handles a Lock or RLock call and the answer reaches the *)
(* channel.  The goroutine that made the call may be delayed for as long   *)
(* as it likes before it sends to ch, so answers arrive in any order.      *)
(***************************************************************************)
ServeLock(r, n) ==
    /\ st[r][n] = "sent" /\ n \in up \ Hung
    /\ lockMap' = [lockMap EXCEPT ![n] = AfterLock(@, UidOf(r), IsReadLock(r))]
    /\ st' = [st EXCEPT ![r][n] =
                 IF Grants(lockMap[n], IsReadLock(r)) THEN "granted" ELSE "denied"]
    /\ UNCHANGED <<up, forgot, died, faults, stray, stage, pc, req, mutexVars>>

\* The call errors out: the server is down, or the connection breaks before
\* the server has seen it.  lock() only logs the error and counts a denial.
CallFails_Granted(r, n) ==      \* mutant: an error is taken for a grant
    /\ st[r][n] = "sent" /\ n \notin Hung
    /\ IF n \in up THEN MayFail("call") /\ faults' = faults + 1 ELSE faults' = faults
    /\ st' = [st EXCEPT ![r][n] = "granted"]
    /\ UNCHANGED <<lockMap, up, forgot, died, stray, stage, pc, req, mutexVars>>

CallFails(r, n) ==
    /\ st[r][n] = "sent" /\ n \notin Hung
    /\ IF n \in up THEN MayFail("call") /\ faults' = faults + 1 ELSE faults' = faults
    /\ st' = [st EXCEPT ![r][n] = "denied"]
    /\ UNCHANGED <<lockMap, up, forgot, died, stray, stage, pc, req, mutexVars>>

\* The server handles the call and the connection breaks before the answer.
ReplyLost(r, n) ==
    /\ st[r][n] = "sent" /\ n \in up \ Hung
    /\ MayFail("call") /\ faults' = faults + 1
    /\ lockMap' = [lockMap EXCEPT ![n] = AfterLock(@, UidOf(r), IsReadLock(r))]
    /\ st' = [st EXCEPT ![r][n] = "denied"]
    /\ UNCHANGED <<up, forgot, died, stray, stage, pc, req, mutexVars>>

\* The connection breaks while the call waits inside the server.
CallDelayed(r, n) ==
    /\ st[r][n] = "sent" /\ n \in up \ Hung
    /\ MayFail("delay") /\ faults' = faults + 1
    /\ st' = [st EXCEPT ![r][n] = "denied"]
    /\ stray' = [stray EXCEPT ![r][n] = "lock"]
    /\ UNCHANGED <<lockMap, up, forgot, died, stage, pc, req, mutexVars>>

\* The handler gets to a request whose caller is long gone.
ServeStray(r, n) ==
    /\ n \in up /\ stray[r][n] # "none"
    /\ lockMap' = [lockMap EXCEPT ![n] =
                      IF stray[r][n] = "lock"
                      THEN AfterLock(@, UidOf(r), IsReadLock(r))
                      ELSE AfterUnlock(@, UidOf(r), IsReadLock(r))]
    /\ stray' = [stray EXCEPT ![r][n] = "none"]
    /\ UNCHANGED <<up, forgot, died, faults, stage, st, pc, req, mutexVars>>

(***************************************************************************)
(* sendRelease: one Unlock or RUnlock call, never repeated.  An error (the *)
(* server is down, or the connection breaks) is logged and forgotten, be   *)
(* the release handled at once, later or never.                            *)
(***************************************************************************)
sendRelease(r, n) ==
    /\ n \notin Hung
    /\ \/ /\ n \in up
          /\ lockMap' = [lockMap EXCEPT ![n] = AfterUnlock(@, UidOf(r), IsReadLock(r))]
          /\ UNCHANGED <<up, forgot, died, faults, stray>>
       \/ /\ n \notin up
          /\ UNCHANGED serverVars
       \/ /\ n \in up /\ MayFail("release") /\ faults' = faults + 1
          /\ UNCHANGED <<lockMap, up, forgot, died, stray>>
       \/ /\ n \in up /\ MayFail("late") /\ faults' = faults + 1
          /\ stray' = [stray EXCEPT ![r][n] = "unlock"]
          /\ UNCHANGED <<lockMap, up, forgot, died>>

-----------------------------------------------------------------------------
(***************************************************************************)
(* The collector of attempt r.  Its counters go out of scope with the      *)
(* loop, so what locksFailed counted is dropped there.                     *)
(***************************************************************************)
DropFailed(s) == [n \in Node |-> IF s[n] = "failed" THEN "none" ELSE s[n]]

\* for ; i < ds.dNodeCount; i++: another round, or the end of the loop.
Collected(r, s) ==
    IF \E n \in Node : s[n] \in Unreceived
    THEN st' = [st EXCEPT ![r] = s] /\ UNCHANGED stage
    ELSE st' = [st EXCEPT ![r] = DropFailed(s)] /\ stage' = [stage EXCEPT ![r] = "decided"]

ReceiveGrant(r, n) ==
    /\ stage[r] = "collect" /\ st[r][n] = "granted"
    /\ Collected(r, [st[r] EXCEPT ![n] = "locked"])
    /\ UNCHANGED <<serverVars, pc, req, mutexVars>>

\* Too many denials for the quorum: give up and release what was acquired.
ReceiveDenial(r, n) ==
    /\ stage[r] = "collect" /\ st[r][n] = "denied"
    /\ LET s == [st[r] EXCEPT ![n] = "failed"]
           locksFailed == Cardinality({k \in Node : s[k] = "failed"})
       IN  IF locksFailed > dNodeCount - Quorum(r)
           THEN /\ st' = [st EXCEPT ![r] = DropFailed(s)]
                /\ stage' = [stage EXCEPT ![r] = "release"]
           ELSE Collected(r, s)
    /\ UNCHANGED <<serverVars, pc, req, mutexVars>>

CollectTimeout(r) ==
    /\ stage[r] = "collect"
    /\ st' = [st EXCEPT ![r] = DropFailed(@)]
    /\ stage' = [stage EXCEPT ![r] = IF quorumMet(r) THEN "decided" ELSE "release"]
    /\ UNCHANGED <<serverVars, pc, req, mutexVars>>

\* releaseAll: the locked nodes one after the other, each call awaited.
releaseAll_Silent(r) ==         \* mutant: locks[] is cleared, nothing is sent
    /\ stage[r] = "release"
    /\ st' = [st EXCEPT ![r] = [n \in Node |-> IF @[n] = "locked" THEN "none" ELSE @[n]]]
    /\ stage' = [stage EXCEPT ![r] = "decided"]
    /\ UNCHANGED <<serverVars, pc, req, mutexVars>>

releaseAll(r) ==
    /\ stage[r] = "release"
    /\ \/ \E n \in Node :
             /\ FirstLocked(r, n)
             /\ sendRelease(r, n)
             /\ st' = [st EXCEPT ![r][n] = "none"]
             /\ UNCHANGED stage
       \/ /\ LockedNodes(r) = {}
          /\ stage' = [stage EXCEPT ![r] = "decided"]
          /\ UNCHANGED <<serverVars, st>>
    /\ UNCHANGED <<pc, req, mutexVars>>

\* After wg.Done(): answers that are still to come are received, and a late
\* grant is released at once.  This goes on after lock() has returned.
Drain_Discard(r, n) ==          \* mutant: late answers are only received
    /\ stage[r] \notin {"collect", "release"}
    /\ st[r][n] \in {"granted", "denied"}
    /\ st' = [st EXCEPT ![r][n] = "none"]
    /\ UNCHANGED <<serverVars, stage, pc, req, mutexVars>>

Drain_Always(r, n) ==           \* mutant: a late denial is released too
    /\ stage[r] \notin {"collect", "release"}
    /\ st[r][n] \in {"granted", "denied"} /\ sendRelease(r, n)
    /\ st' = [st EXCEPT ![r][n] = "none"]
    /\ UNCHANGED <<stage, pc, req, mutexVars>>

Drain(r, n) ==
    /\ stage[r] \notin {"collect", "release"}
    /\ \/ st[r][n] = "granted" /\ sendRelease(r, n)
       \/ st[r][n] = "denied" /\ UNCHANGED serverVars
    /\ st' = [st EXCEPT ![r][n] = "none"]
    /\ UNCHANGED <<stage, pc, req, mutexVars>>

-----------------------------------------------------------------------------
(***************************************************************************)
(* lock() returns after wg.Wait(): the collector has decided and every     *)
(* call has come back, whatever the collector's timeout said.              *)
(***************************************************************************)
Returned(r) == stage[r] = "decided" /\ \A n \in Node : st[r][n] # "sent"

LockSucceeds(p) ==
    /\ pc[p] = "lock" /\ Returned(req[p]) /\ quorumMet(req[p])
    /\ pc' = [pc EXCEPT ![p] = "won"]
    /\ stage' = [stage EXCEPT ![req[p]] = "won"]
    /\ UNCHANGED <<serverVars, st, req, mutexVars>>

AttemptFails(p, next) ==
    /\ pc[p] = "lock" /\ Returned(req[p]) /\ ~quorumMet(req[p])
    /\ pc' = [pc EXCEPT ![p] = next]
    /\ stage' = [stage EXCEPT ![req[p]] = "idle"]
    /\ req' = [req EXCEPT ![p] = NoReq]
    /\ UNCHANGED <<serverVars, st, mutexVars>>

\* The loop of lockBlocking goes on.
LockFails(p) == AttemptFails(p, "backoff")

\* More time has passed than the timeout of GetLock or GetRLock.
GiveUp_Continue(p) == p \in Timed /\ AttemptFails(p, "backoff")     \* mutant
GiveUp(p) == p \in Timed /\ AttemptFails(p, "idle")

\* Under dm.m: the array is copied into the DRWMutex and the call returns true.
CopyLocks_Overwrite(p) ==       \* mutant: the last read lock replaces the others
    LET d == dmOf[p]
        r == req[p]
    IN  /\ pc[p] = "won" /\ MutexFree(d)
        /\ readersLocks' = IF p \in Reader THEN [readersLocks EXCEPT ![d] = <<r>>] ELSE readersLocks
        /\ writeLocks' = IF p \in Reader THEN writeLocks ELSE [writeLocks EXCEPT ![d] = r]
        /\ pc' = [pc EXCEPT ![p] = "held"]
        /\ stage' = [stage EXCEPT ![r] = "held"]
        /\ req' = [req EXCEPT ![p] = NoReq]
        /\ UNCHANGED <<serverVars, st>>

CopyLocks_NoRoom(p) ==          \* mutant: writeLocks was never made, copy copies nothing
    LET d == dmOf[p]
        r == req[p]
    IN  /\ pc[p] = "won" /\ MutexFree(d)
        /\ readersLocks' = IF p \in Reader THEN [readersLocks EXCEPT ![d] = Append(@, r)]
                           ELSE readersLocks
        /\ pc' = [pc EXCEPT ![p] = "held"]
        /\ stage' = [stage EXCEPT ![r] = "held"]
        /\ req' = [req EXCEPT ![p] = NoReq]
        /\ UNCHANGED <<serverVars, st, writeLocks>>

CopyLocks(p) ==
    LET d == dmOf[p]
        r == req[p]
    IN  /\ pc[p] = "won" /\ MutexFree(d)
        /\ IF p \in Reader
           THEN /\ readersLocks' = [readersLocks EXCEPT ![d] = Append(@, r)]
                /\ UNCHANGED writeLocks
           ELSE /\ writeLocks' = [writeLocks EXCEPT ![d] = r]
                /\ UNCHANGED readersLocks
        /\ pc' = [pc EXCEPT ![p] = "held"]
        /\ stage' = [stage EXCEPT ![r] = "held"]
        /\ req' = [req EXCEPT ![p] = NoReq]
        /\ UNCHANGED <<serverVars, st>>

(***************************************************************************)
(* Unlock and RUnlock take an array out of the DRWMutex, under dm.m, and   *)
(* release its nodes one by one still holding dm.m.  RUnlock takes the     *)
(* oldest read lock, not the caller's own.  With nothing to take out they  *)
(* panic.                                                                  *)
(***************************************************************************)
TakeOut(p, r) ==
    /\ pc' = [pc EXCEPT ![p] = "unlock"]
    /\ req' = [req EXCEPT ![p] = r]
    /\ stage' = [stage EXCEPT ![r] = "unlock"]
    /\ UNCHANGED <<serverVars, st>>

Panic(p) ==
    /\ pc' = [pc EXCEPT ![p] = "panic"]
    /\ UNCHANGED <<serverVars, stage, st, req, mutexVars>>

Unlock(p) ==
    LET d == dmOf[p]
    IN  /\ pc[p] = "held" /\ p \notin Reader /\ MutexFree(d)
        /\ IF writeLocks[d] = NoReq
           THEN Panic(p)
           ELSE /\ TakeOut(p, writeLocks[d])
                /\ writeLocks' = [writeLocks EXCEPT ![d] = NoReq]
                /\ UNCHANGED readersLocks

RUnlock(p) ==
    LET d == dmOf[p]
    IN  /\ pc[p] = "held" /\ p \in Reader /\ MutexFree(d)
        /\ IF readersLocks[d] = <<>>
           THEN Panic(p)
           ELSE /\ TakeOut(p, Head(readersLocks[d]))
                /\ readersLocks' = [readersLocks EXCEPT ![d] = Tail(@)]
                /\ UNCHANGED writeLocks

\* unlock: the nodes of the array in index order, then dm.m is given back.
unlock_Abort(p) ==              \* mutant: a release that fails ends the loop over the nodes
    LET r == req[p]
    IN  /\ pc[p] = "unlock"
        /\ \/ \E n \in Node :
                 /\ FirstLocked(r, n)
                 /\ sendRelease(r, n)
                 /\ st' = IF n \in up /\ faults' = faults
                          THEN [st EXCEPT ![r][n] = "none"]
                          ELSE [st EXCEPT ![r] = [k \in Node |-> IF @[k] = "locked" THEN "none" ELSE @[k]]]
                 /\ UNCHANGED <<pc, req, stage>>
           \/ /\ LockedNodes(r) = {}
              /\ pc' = [pc EXCEPT ![p] = "idle"]
              /\ req' = [req EXCEPT ![p] = NoReq]
              /\ stage' = [stage EXCEPT ![r] = "idle"]
              /\ UNCHANGED <<serverVars, st>>
        /\ UNCHANGED mutexVars

unlock(p) ==
    LET r == req[p]
    IN  /\ pc[p] = "unlock"
        /\ \/ \E n \in Node :
                 /\ FirstLocked(r, n)
                 /\ sendRelease(r, n)
                 /\ st' = [st EXCEPT ![r][n] = "none"]
                 /\ UNCHANGED <<pc, req, stage>>
           \/ /\ LockedNodes(r) = {}
              /\ pc' = [pc EXCEPT ![p] = "idle"]
              /\ req' = [req EXCEPT ![p] = NoReq]
              /\ stage' = [stage EXCEPT ![r] = "idle"]
              /\ UNCHANGED <<serverVars, st>>
        /\ UNCHANGED mutexVars

-----------------------------------------------------------------------------
(***************************************************************************)
(* Crashes.  A lock server keeps its table in memory only, and loses the   *)
(* requests it has read and not handled.  The process that holds DRWMutex  *)
(* d loses every goroutine working on it, but not its stray requests.      *)
(***************************************************************************)
ServerCrash(n) ==
    /\ n \in up /\ MayFail("server") /\ faults' = faults + 1
    /\ up' = up \ {n}
    /\ lockMap' = [lockMap EXCEPT ![n] = NoLock]
    /\ forgot' = forgot \cup {n}
    /\ stray' = [r \in Req |-> [stray[r] EXCEPT ![n] = "none"]]
    /\ UNCHANGED <<died, stage, st, pc, req, mutexVars>>

ServerRestart(n) ==
    /\ n \notin up
    /\ up' = up \cup {n}
    /\ UNCHANGED <<lockMap, forgot, died, faults, stray, stage, st, pc, req, mutexVars>>

ClientCrash(d) ==
    LET dies(p) == dmOf[p] = d
    IN  /\ MayFail("client") /\ faults' = faults + 1
        /\ died' = died \cup {d}
        /\ pc' = [p \in Proc |-> IF dies(p) THEN "idle" ELSE pc[p]]
        /\ req' = [p \in Proc |-> IF dies(p) THEN NoReq ELSE req[p]]
        /\ stage' = [r \in Req |-> IF dies(ownerOf[r]) THEN "idle" ELSE stage[r]]
        /\ st' = [r \in Req |-> IF dies(ownerOf[r]) THEN [n \in Node |-> "none"] ELSE st[r]]
        /\ writeLocks' = [writeLocks EXCEPT ![d] = NoReq]
        /\ readersLocks' = [readersLocks EXCEPT ![d] = <<>>]
        /\ UNCHANGED <<lockMap, up, forgot, stray>>

-----------------------------------------------------------------------------
Goroutine(p) ==
    \/ CallLock(p) \/ NextAttempt(p)
    \/ LockSucceeds(p) \/ LockFails(p) \/ GiveUp(p) \/ CopyLocks(p)
    \/ Unlock(p) \/ RUnlock(p) \/ unlock(p)

Call(r, n) ==
    ServeLock(r, n) \/ CallFails(r, n) \/ ReplyLost(r, n) \/ CallDelayed(r, n) \/ ServeStray(r, n)

Collector(r) ==
    releaseAll(r) \/ \E n \in Node : ReceiveGrant(r, n) \/ ReceiveDenial(r, n) \/ Drain(r, n)

Crash ==
    \/ \E n \in Node : ServerCrash(n) \/ ServerRestart(n)
    \/ \E d \in Mutex : ClientCrash(d)

Next ==
    \/ \E p \in Proc : Goroutine(p)
    \/ \E r \in Req : Collector(r) \/ CollectTimeout(r) \/ \E n \in Node : Call(r, n)
    \/ Crash

Spec == Init /\ [][Next]_vars

(***************************************************************************)
(* Fairness.  The Go scheduler runs every goroutine that can run, a call   *)
(* to a server that is not hung comes back with an answer or an error,     *)
(* time.After and the retry timer fire, and a caller that has the lock     *)
(* gives it back some day.  dm.m is handed over in turn (sync.Mutex does   *)
(* not starve), hence the strong fairness of what takes dm.m.  A call with *)
(* a timeout cannot fail for ever and never find its time used up.         *)
(***************************************************************************)
Runs(p) == NextAttempt(p) \/ LockSucceeds(p) \/ LockFails(p) \/ GiveUp(p) \/ unlock(p)

LockFairness ==
    /\ \A p \in Proc : WF_vars(Runs(p)) /\ SF_vars(GiveUp(p)) /\ SF_vars(CopyLocks(p))
    /\ \A r \in Req :
          /\ WF_vars(Collector(r))
          /\ WF_vars(\E n \in Node : ServeLock(r, n) \/ CallFails(r, n))

TimeoutFairness == \A r \in Req : WF_vars(CollectTimeout(r))

UnlockFairness == \A p \in Proc : SF_vars(Unlock(p) \/ RUnlock(p))

FairSpec == Spec /\ LockFairness /\ TimeoutFairness /\ UnlockFairness

-----------------------------------------------------------------------------
(***************************************************************************)
(* Type correctness: every variable of the mutexes, attempts and servers   *)
(* keeps the shape its Go declaration gives it.                            *)
(***************************************************************************)
TypeOK ==
    /\ lockMap \in [Node -> Table]
    /\ up \subseteq Node
    /\ forgot \subseteq Node
    /\ died \subseteq Mutex
    /\ faults \in Nat
    /\ stage \in [Req -> Stage]
    /\ st \in [Req -> [Node -> Status]]
    /\ stray \in [Req -> [Node -> Stray]]
    /\ pc \in [Proc -> Control]
    /\ req \in [Proc -> Req \cup {NoReq}]
    /\ writeLocks \in [Mutex -> Req \cup {NoReq}]
    /\ readersLocks \in [Mutex -> Seq(Req)]

\* From the return of lock() with true to the start of Unlock or RUnlock.
Holding(p) == pc[p] \in {"won", "held"}

(***************************************************************************)
(* lockBlocking never lets two writers in at once, as long as fewer        *)
(* servers have lost their tables than the README allows for.  No lost     *)
(* call, answer or release and no crashed client can change that.          *)
(***************************************************************************)
WritersExclude ==
    Cardinality(forgot) < CrashMargin =>
        \A p, q \in Proc \ Reader : Holding(p) /\ Holding(q) => p = q

(***************************************************************************)
(* lockBlocking never lets a reader in beside a writer, as long as no      *)
(* server has lost its table.                                              *)
(***************************************************************************)
ReadersExcludeWriter ==
    forgot = {} => \A p \in Proc \ Reader, q \in Reader : ~(Holding(p) /\ Holding(q))

(***************************************************************************)
(* What chaos.go says of testSingleServerOverQuorumDownDuringLock: "if a   *)
(* server goes down while a lock is held, and comes back later another     *)
(* lock on the same name is not granted too early".                        *)
(***************************************************************************)
SingleCrashExclusion ==
    Cardinality(forgot) <= 1 =>
        \A p \in Proc \ Reader, q \in Proc : Holding(p) /\ Holding(q) => p = q

\* The grants of node n that their attempt knows of and has not released yet,
\* or has released and the server has not got to it.
Outstanding(n) ==
    {r \in Req : st[r][n] \in {"granted", "locked"} \/ stray[r][n] = "unlock"}

\* Table t has the locks that the attempts of O believe in.
Backed(O, t) ==
    /\ \A r \in O : ~IsReadLock(r) => t.writer = UidOf(r) /\ O = {r}
    /\ \A u \in Uid :
          Cardinality({r \in O : IsReadLock(r) /\ UidOf(r) = u}) <= t.readers[u]

(***************************************************************************)
(* A server that never crashed still has every lock that a client believes *)
(* in: no release, early, late, out of order or handled long after its     *)
(* call failed, takes away the lock of another attempt, not even of one    *)
(* with the same uid.                                                      *)
(***************************************************************************)
GrantsBacked == \A n \in Node \ forgot : Backed(Outstanding(n), lockMap[n])

\* Every lock of uid u in the table of node n belongs to an attempt that will
\* release it, or to a release that is to be handled late.
LocksKnown(n, u) ==
    /\ lockMap[n].writer = u =>
           \E r \in Outstanding(n) : ~IsReadLock(r) /\ UidOf(r) = u
    /\ lockMap[n].readers[u] <=
           Cardinality({r \in Outstanding(n) : IsReadLock(r) /\ UidOf(r) = u})

(***************************************************************************)
(* No stale locks without a lost message or a crashed client: whatever a   *)
(* server has in its table, an attempt knows of and will release, answers  *)
(* that come in after lock() has returned included.                        *)
(***************************************************************************)
NoStaleLocks == \A n \in Node, u \in Uid : LocksKnown(n, u)

\* The uids that no client of C uses.
UidsBeside(C) == {u \in Uid : \A p \in Proc : uidOf[p] = u => dmOf[p] \notin C}

(***************************************************************************)
(* Every fault accounts for the stale locks of one client that has died,   *)
(* or for those on one server: whatever is lost or late in lock(),         *)
(* releaseAll, unlock or the drain, a client that lives sends the release  *)
(* of every other node all the same.                                       *)
(***************************************************************************)
StaleLocksBounded ==
    Cardinality(died) + Cardinality({n \in Node : \E u \in UidsBeside(died) : ~LocksKnown(n, u)})
        <= faults

(***************************************************************************)
(* Unlock and RUnlock never panic for a caller that holds the lock.        *)
(***************************************************************************)
NoPanic ==
    Cardinality(forgot) < CrashMargin => \A p \in Proc : pc[p] # "panic"

-----------------------------------------------------------------------------
(***************************************************************************)
(* The inductive invariant behind the safety properties.                   *)
(***************************************************************************)
\* A goroutine inside lock(), lockBlocking or unlock works on an attempt that
\* is at the matching stage, and which is its own until it is in the DRWMutex.
AttemptsLinked ==
    \A p \in Proc :
        /\ pc[p] \in {"lock", "won", "unlock"} => req[p] \in Req
        /\ pc[p] \in {"lock", "won"} => ownerOf[req[p]] = p
        /\ pc[p] = "lock" => stage[req[p]] \in {"collect", "release", "decided"}
        /\ pc[p] = "won" => stage[req[p]] = "won"
        /\ pc[p] = "unlock" => /\ stage[req[p]] = "unlock"
                               /\ dmOf[ownerOf[req[p]]] = dmOf[p]
                               /\ \A q \in Proc : pc[q] = "unlock" /\ dmOf[q] = dmOf[p] => q = p

\* Attempt r is held by DRWMutex d, for reading or for writing.
HeldIn(r, d) == stage[r] = "held" /\ dmOf[ownerOf[r]] = d

ArraysLinked ==
    \A d \in Mutex :
        /\ writeLocks[d] # NoReq => HeldIn(writeLocks[d], d) /\ ~IsReadLock(writeLocks[d])
        /\ \A i \in 1..Len(readersLocks[d]) :
              /\ HeldIn(readersLocks[d][i], d) /\ IsReadLock(readersLocks[d][i])
              /\ \A j \in 1..Len(readersLocks[d]) :
                    readersLocks[d][i] = readersLocks[d][j] => i = j

\* An attempt has given up on a node before it leaves a stray request there.
StraysApart ==
    \A r \in Req, n \in Node :
        stray[r][n] # "none" => st[r][n] \in {"none", "denied", "failed"}

QuorumKept == \A r \in Req : stage[r] \in {"won", "held"} => quorumMet(r)

TablesSound == \A n \in Node : TableSound(lockMap[n])

\* readersLocks has one array per reader that is in.
ReadersCounted ==
    \A d \in Mutex :
        Cardinality({p \in Reader : dmOf[p] = d /\ pc[p] = "held"}) = Len(readersLocks[d])

\* writeLocks has the array of the writer that is in.
WriterStored ==
    Cardinality(forgot) < CrashMargin =>
        \A p \in Proc \ Reader : pc[p] = "held" => writeLocks[dmOf[p]] # NoReq

IInv ==
    /\ TypeOK
    /\ AttemptsLinked
    /\ ArraysLinked
    /\ QuorumKept
    /\ TablesSound
    /\ StraysApart
    /\ GrantsBacked
    /\ ReadersCounted
    /\ WriterStored
    /\ WritersExclude
    /\ NoPanic

-----------------------------------------------------------------------------
(***************************************************************************)
(* GetLock and GetRLock return once their timeout has passed, and Unlock   *)
(* and RUnlock return.                                                     *)
(***************************************************************************)
CallsReturn ==
    \A p \in Proc :
        /\ []<>(pc[p] # "unlock")
        /\ p \in Timed => []<>(pc[p] \notin {"lock", "backoff", "won"})

(***************************************************************************)
(* When all callers have gone, all servers are free again in the end: late *)
(* answers are released although lock() returned long before.              *)
(***************************************************************************)
EventuallyVacant ==
    <>[](\A p \in Proc : pc[p] = "idle") => <>[](\A n \in Node : Vacant(lockMap[n]))

(***************************************************************************)
(* A caller of Lock or RLock that is left alone gets the lock (or crashes  *)
(* itself), once the servers answer within DRWMutexAcquireTimeout and the  *)
(* wait of the retry timer is longer than it takes to release what came in *)
(* late for the attempt before.  (Until then, an attempt can be refused by *)
(* the locks of the caller's own previous attempt.)                        *)
(***************************************************************************)
WaiterAcquires ==
    \A p \in Proc \ Timed :
        /\ <>[](\A q \in Proc \ {p} : pc[q] = "idle")
        /\ <>[][\A r \in Req : ~CollectTimeout(r)]_vars
        /\ <>[][NextAttempt(p) => LeftOver(p) = {}]_vars
        => []<>(pc[p] \notin {"lock", "backoff"})
-----------------------------------------------------------------------------
(***************************************************************************)
(* The readers-writer lock that the callers see (module RWLock): waiting   *)
(* inside Lock or RLock, inside once lock() has succeeded, outside from    *)
(* the moment Unlock or RUnlock has taken the array out of the DRWMutex.   *)
(***************************************************************************)
AbstractState ==
    [p \in Proc |-> IF pc[p] \in {"lock", "backoff"} THEN "waiting"
                    ELSE IF Holding(p) THEN "inside" ELSE "outside"]

RW == INSTANCE RWLock WITH
        state <- AbstractState,
        MayQuit <- Timed,
        Group <- {{p \in Proc : dmOf[p] = d} : d \in Mutex}

(***************************************************************************)
(* With servers that keep their tables, the lock(), unlock() and collector *)
(* steps of all callers add up to one readers-writer lock, whatever calls, *)
(* answers and releases are lost and whatever clients crash.               *)
(***************************************************************************)
ImplementsRWLock == RW!Spec
=============================================================================

------------------------- MODULE DRWMutexRefinement -------------------------
(***************************************************************************)
(* DRWMutex implements the readers-writer lock of module RWLock, for all   *)
(* numbers of servers, callers and attempts: every step of a goroutine, a  *)
(* collector or a server is a step of the abstract lock or leaves it as it *)
(* is.  The inductive invariant of DRWMutexProofs gives the one hard step, *)
(* lock() returning true, the guard of the abstract Enter.                 *)
(***************************************************************************)
EXTENDS DRWMutexProofs

\* What the callers see of a goroutine that is at c.
View(c) ==
    IF c \in {"lock", "backoff"} THEN "waiting"
    ELSE IF c \in {"won", "held"} THEN "inside" ELSE "outside"

\* AbstractState is the view of each caller, before a step and after it.
LEMMA ViewOfState == AbstractState = [p \in Proc |-> View(pc[p])]
  BY DEF AbstractState, View, Holding

\* The same after a step.
LEMMA ViewOfNextState == AbstractState' = [p \in Proc |-> View(pc'[p])]
  BY DEF AbstractState, View, Holding

\* The view of every place in the code.
LEMMA ViewValues ==
    /\ View("idle") = "outside" /\ View("lock") = "waiting" /\ View("backoff") = "waiting"
    /\ View("won") = "inside" /\ View("held") = "inside"
    /\ View("unlock") = "outside" /\ View("panic") = "outside"
  BY DEF View

\* A goroutine that moves from one point of its call to the next.
LEMMA ViewMoves ==
    ASSUME pc \in [Proc -> Control], NEW p \in Proc, NEW c \in Control,
           pc' = [pc EXCEPT ![p] = c]
    PROVE  /\ AbstractState[p] = View(pc[p])
           /\ AbstractState' = [AbstractState EXCEPT ![p] = View(c)]
           /\ View(c) = View(pc[p]) => AbstractState' = AbstractState
  <1> DEFINE before == [q \in Proc |-> View(pc[q])]
             after == [q \in Proc |-> View(pc'[q])]
  <1>1. AbstractState = before /\ AbstractState' = after
    BY ViewOfState, ViewOfNextState
  <1> HIDE DEF before, after
  <1>2. before[p] = View(pc[p])
    BY DEF before
  <1>3. after = [before EXCEPT ![p] = View(c)]
    BY DEF before, after
  <1>4. ASSUME View(c) = View(pc[p]) PROVE after = before
    BY <1>4 DEF before, after
  <1> QED BY <1>1, <1>2, <1>3, <1>4

\* A step that moves no goroutine.
LEMMA ViewStays ==
    ASSUME pc' = pc
    PROVE  AbstractState' = AbstractState
  BY ViewOfState, ViewOfNextState

(***************************************************************************)
(* lock() returns true: nobody is in whom the caller would have to keep    *)
(* out.  The abstract lock admits the caller because the concrete one      *)
(* excludes afterwards.                                                    *)
(***************************************************************************)
LEMMA Admitted ==
    ASSUME IInv, forgot = {}, NEW p \in Proc, LockSucceeds(p)
    PROVE  RW!Admits(p)
  <1>1. /\ pc[p] = "lock" /\ quorumMet(req[p]) /\ req[p] \in Req
        /\ ownerOf[req[p]] = p /\ stage[req[p]] = "decided"
    BY DEF LockSucceeds, Returned, IInv, AttemptsLinked
  <1>2. Cardinality(forgot) < CrashMargin
    BY FS_EmptySet, QuorumNat
  <1> SUFFICES ASSUME NEW q \in Proc, Holding(q) PROVE p \in Reader /\ q \in Reader
    <2>1. \A q \in Proc : RW!Inside(q) => Holding(q)
      BY ViewOfState DEF RW!Inside, View, Holding
    <2> QED BY <2>1 DEF RW!Admits
  <1>3. CASE q \notin Reader
    <2>1. PICK s \in Req : ~IsReadLock(s) /\ quorumMet(s) /\ stage[s] \in {"won", "held"}
      BY <1>2, <1>3, WriterAttempt
    <2> QED BY <1>1, <1>2, <2>1, Conflict
  <1>4. CASE q \in Reader /\ p \notin Reader
    <2>1. PICK s \in Req : IsReadLock(s) /\ quorumMet(s)
      BY <1>4, ReaderAttempt
    <2>2. ~IsReadLock(req[p])
      BY <1>1, <1>4 DEF IsReadLock
    <2> QED BY <1>1, <2>1, <2>2, Conflict
  <1> QED BY <1>3, <1>4

-----------------------------------------------------------------------------
\* What goroutine p does is a step of the abstract lock by p, or none.
Abstractly(p) == RW!Ask(p) \/ RW!Enter(p) \/ RW!Quit(p) \/ RW!Leave(p)

\* Every step of a call is one, as no writer or reader is let in too early.
LEMMA GoroutineRefines ==
    ASSUME IInv, forgot = {}, NEW p \in Proc, Goroutine(p)
    PROVE  Abstractly(p) \/ AbstractState' = AbstractState
  <1>0. pc \in [Proc -> Control]
    BY DEF IInv, TypeOK
  <1> USE ViewValues
  <1>1. CASE CallLock(p)
    <2>1. pc[p] = "idle" /\ pc' = [pc EXCEPT ![p] = "lock"]
      BY <1>1 DEF CallLock, Broadcast
    <2>2. AbstractState[p] = View(pc[p]) /\ AbstractState' = [AbstractState EXCEPT ![p] = View("lock")]
      BY <1>0, <2>1, ViewMoves DEF Control
    <2>3. View(pc[p]) = "outside" /\ View("lock") = "waiting"
      BY <2>1
    <2> QED BY <2>2, <2>3 DEF Abstractly, RW!Ask
  <1>2. CASE NextAttempt(p)
    <2>1. pc[p] = "backoff" /\ pc' = [pc EXCEPT ![p] = "lock"]
      BY <1>2 DEF NextAttempt, Broadcast
    <2> QED BY <1>0, <2>1, ViewMoves DEF Control
  <1>3. CASE LockSucceeds(p)
    <2>1. pc[p] = "lock" /\ pc' = [pc EXCEPT ![p] = "won"]
      BY <1>3 DEF LockSucceeds
    <2>2. AbstractState[p] = View(pc[p]) /\ AbstractState' = [AbstractState EXCEPT ![p] = View("won")]
      BY <1>0, <2>1, ViewMoves DEF Control
    <2>3. View(pc[p]) = "waiting" /\ View("won") = "inside"
      BY <2>1
    <2> QED BY <1>3, <2>2, <2>3, Admitted DEF Abstractly, RW!Enter
  <1>4. CASE LockFails(p)
    <2>1. pc[p] = "lock" /\ pc' = [pc EXCEPT ![p] = "backoff"]
      BY <1>4 DEF LockFails, AttemptFails
    <2> QED BY <1>0, <2>1, ViewMoves DEF Control
  <1>5. CASE GiveUp(p)
    <2>1. p \in Timed /\ pc[p] = "lock" /\ pc' = [pc EXCEPT ![p] = "idle"]
      BY <1>5 DEF GiveUp, AttemptFails
    <2>2. AbstractState[p] = View(pc[p]) /\ AbstractState' = [AbstractState EXCEPT ![p] = View("idle")]
      BY <1>0, <2>1, ViewMoves DEF Control
    <2>3. View(pc[p]) = "waiting" /\ View("idle") = "outside"
      BY <2>1
    <2> QED BY <2>1, <2>2, <2>3 DEF Abstractly, RW!Quit
  <1>6. CASE CopyLocks(p)
    <2>1. pc[p] = "won" /\ pc' = [pc EXCEPT ![p] = "held"]
      BY <1>6 DEF CopyLocks
    <2> QED BY <1>0, <2>1, ViewMoves DEF Control
  <1>7. CASE Unlock(p) \/ RUnlock(p)
    <2>1. PICK c \in {"unlock", "panic"} : pc[p] = "held" /\ pc' = [pc EXCEPT ![p] = c]
      BY <1>7 DEF Unlock, RUnlock, TakeOut, Panic
    <2>2. AbstractState[p] = View(pc[p]) /\ AbstractState' = [AbstractState EXCEPT ![p] = View(c)]
      BY <1>0, <2>1, ViewMoves DEF Control
    <2>3. View(pc[p]) = "inside" /\ View(c) = "outside"
      BY <2>1
    <2> QED BY <2>2, <2>3 DEF Abstractly, RW!Leave, RW!Inside
  <1>8. CASE unlock(p)
    <2>1. pc' = pc \/ (pc[p] = "unlock" /\ pc' = [pc EXCEPT ![p] = "idle"])
      BY <1>8 DEF unlock
    <2> QED BY <1>0, <2>1, ViewMoves, ViewStays DEF Control
  <1> QED
    BY <1>1, <1>2, <1>3, <1>4, <1>5, <1>6, <1>7, <1>8 DEF Goroutine

\* A crash of the process that holds DRWMutex d takes its callers out at once.
LEMMA ClientCrashRefines ==
    ASSUME NEW d \in Mutex, ClientCrash(d)
    PROVE  RW!Crash({p \in Proc : dmOf[p] = d})
  <1> DEFINE g == {p \in Proc : dmOf[p] = d}
             before == [p \in Proc |-> View(pc[p])]
             after == [p \in Proc |-> View(pc'[p])]
  <1>1. AbstractState = before /\ AbstractState' = after
    BY ViewOfState, ViewOfNextState
  <1> HIDE DEF before, after
  <1>2. pc' = [p \in Proc |-> IF dmOf[p] = d THEN "idle" ELSE pc[p]]
    BY DEF ClientCrash
  <1>3. after = [p \in Proc |-> IF p \in g THEN "outside" ELSE before[p]]
    BY <1>2, ViewValues DEF before, after
  <1> QED BY <1>1, <1>3 DEF RW!Crash

\* Collectors, servers and connections are out of the sight of the callers.
LEMMA OthersUnseen ==
    ASSUME \/ \E r \in Req : Collector(r) \/ CollectTimeout(r) \/ \E n \in Node : Call(r, n)
           \/ \E n \in Node : ServerCrash(n) \/ ServerRestart(n)
    PROVE  AbstractState' = AbstractState
  <1>1. ASSUME NEW r \in Req, Collector(r) \/ CollectTimeout(r) PROVE pc' = pc
    BY <1>1 DEF Collector, CollectTimeout, releaseAll, ReceiveGrant, ReceiveDenial, Drain
  <1>2. ASSUME NEW r \in Req, NEW n \in Node, Call(r, n) PROVE pc' = pc
    BY <1>2 DEF Call, ServeLock, CallFails, ReplyLost, CallDelayed, ServeStray
  <1>3. ASSUME NEW n \in Node, ServerCrash(n) \/ ServerRestart(n) PROVE pc' = pc
    BY <1>3 DEF ServerCrash, ServerRestart
  <1> QED BY <1>1, <1>2, <1>3, ViewStays

\* Every step of the program is a step of the abstract lock, or none.
LEMMA StepRefines ==
    ASSUME IInv, forgot = {}, [Next]_vars
    PROVE  [RW!Next]_AbstractState
  <1>1. ASSUME NEW p \in Proc, Goroutine(p) PROVE [RW!Next]_AbstractState
    BY <1>1, GoroutineRefines DEF Abstractly, RW!Next
  <1>2. ASSUME NEW d \in Mutex, ClientCrash(d) PROVE RW!Next
    BY <1>2, ClientCrashRefines DEF RW!Next
  <1>3. CASE UNCHANGED vars
    BY <1>3, ViewStays DEF vars
  <1> QED BY <1>1, <1>2, <1>3, OthersUnseen DEF Next, Crash

\* Nobody has called when the program starts.
LEMMA InitRefines == Init => RW!Init
  BY ViewOfState, ViewValues DEF Init, RW!Init

(***************************************************************************)
(* As long as no server loses its table, what the callers of Lock, RLock,  *)
(* GetLock, GetRLock, Unlock and RUnlock see is one readers-writer lock,   *)
(* whatever calls, answers and releases are lost or handled late and       *)
(* whatever clients crash.                                                 *)
(***************************************************************************)
THEOREM ImplementsWhileTablesKept == Spec /\ [](forgot = {}) => ImplementsRWLock
  <1>1. IInv /\ forgot = {} /\ [Next]_vars => [RW!Next]_AbstractState
    BY StepRefines
  <1> QED
    BY <1>1, InitRefines, Invariance, PTL DEF Spec, ImplementsRWLock, RW!Spec

\* The servers may be slow or unreachable, but they are not restarted.
ServersStay == "server" \notin FaultKinds

\* Only a crash of a server loses a table.
LEMMA TablesKept == ServersStay /\ Spec => [](forgot = {})
  <1>1. Init => forgot = {}
    BY DEF Init
  <1>2. ServersStay => ServersStay'
    BY DEF ServersStay
  <1>3. ServersStay /\ forgot = {} /\ [Next]_vars => (forgot = {})'
    <2> SUFFICES ASSUME ServersStay, forgot = {}, [Next]_vars PROVE (forgot = {})'
      OBVIOUS
    <2>1. ASSUME NEW n \in Node, ServerCrash(n) \/ ServerRestart(n) PROVE forgot' = forgot
      BY <2>1 DEF ServerCrash, MayFail, ServerRestart, ServersStay
    <2>2. ASSUME NEW d \in Mutex, ClientCrash(d) PROVE forgot' = forgot
      BY <2>2 DEF ClientCrash
    <2>3. ASSUME NEW p \in Proc, Goroutine(p) PROVE forgot' = forgot
      BY <2>3 DEF Goroutine, CallLock, NextAttempt, Broadcast, LockSucceeds, LockFails, GiveUp, AttemptFails,
                  CopyLocks, Unlock, RUnlock, TakeOut, Panic, unlock, sendRelease, serverVars
    <2>4. ASSUME NEW r \in Req, Collector(r) \/ CollectTimeout(r) PROVE forgot' = forgot
      BY <2>4 DEF Collector, CollectTimeout, releaseAll, ReceiveGrant, ReceiveDenial, Drain,
                  sendRelease, serverVars
    <2>5. ASSUME NEW r \in Req, NEW n \in Node, Call(r, n) PROVE forgot' = forgot
      BY <2>5 DEF Call, ServeLock, CallFails, ReplyLost, CallDelayed, ServeStray
    <2> QED BY <2>1, <2>2, <2>3, <2>4, <2>5 DEF Next, Crash, vars
  <1> QED BY <1>1, <1>2, <1>3, PTL DEF Spec

(***************************************************************************)
(* With servers that do not crash DRWMutex implements RWLock, under every  *)
(* other fault that the model knows.                                       *)
(***************************************************************************)
THEOREM RWLockImplemented == ServersStay /\ Spec => ImplementsRWLock
  BY TablesKept, ImplementsWhileTablesKept, PTL
=============================================================================

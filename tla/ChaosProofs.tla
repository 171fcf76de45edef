---------------------------- MODULE ChaosProofs ----------------------------
(***************************************************************************)
(* What the tests of chaos.go expect of locks that must wait (LocksWait),  *)
(* for every number of attempts and faults.  Every step of a script is a   *)
(* step of the DRWMutex system, so its inductive invariant holds as it is. *)
(* To it come, for clients with a DRWMutex each, that an attempt with work *)
(* to do is the one its caller waits for (Awaited) and that a writer finds *)
(* its own array (OwnStored), and for each test what its main thread knows *)
(* at each of its steps:                                                   *)
(*   Starved   dm waits and two servers that are down have granted nothing *)
(*   Parted    the server that was down has granted dm nothing             *)
(*   Visitors  the client that will crash, or the two that will, get their *)
(*             locks at once, on servers 1 and 2 among others              *)
(*   Blocked   they are gone, their locks on servers 1 and 2 are not       *)
(***************************************************************************)
EXTENDS Chaos, DRWMutexProofs

\* Thread t is at step k of its script, which is the call op on x.
Step(t, k, op, x) == ip[t] = k /\ Do(op, x) /\ ip' = [ip EXCEPT ![t] = k + 1]

\* Thread t is at step k of its script, which starts goroutine s.
StartStep(t, k, s) == ip[t] = k /\ ip' = [ip EXCEPT ![t] = k + 1, ![s] = 1] /\ UNCHANGED vars

\* The main thread is at step k of its script, which is the select statement: Lock has
\* returned, or the script ends before step j.
SelectStep(k, j) ==
    /\ ip["main"] = k /\ UNCHANGED vars
    /\ \/ ip' = [ip EXCEPT !["main"] = k + 1]
       \/ ip' = [ip EXCEPT !["main"] = j]

\* A go or select statement is not one of the calls.
LEMMA GoIsNoCall == \A x : ~Do("go", x) /\ ~Do("select", x)
  BY DEF Do

\* The steps of testNotEnoughServersForQuorum.
LEMMA QuorumSteps ==
    ASSUME test = "quorum", ip \in [Thread -> Nat], NEW t \in Thread, RunStep(t)
    PROVE  \/ Step("main", 1, "kill", 4) \/ Step("main", 2, "kill", 3)
           \/ StartStep("main", 3, "extra") \/ Step("main", 4, "lock", "dm")
           \/ Step("main", 5, "locked", "dm") \/ Step("main", 6, "kill", 3)
           \/ Step("main", 7, "unlock", "dm") \/ Step("main", 8, "unlocked", "dm")
           \/ StartStep("main", 9, "again") \/ Step("main", 10, "lock", "dm")
           \/ Step("main", 11, "locked", "dm") \/ Step("main", 12, "unlock", "dm")
           \/ Step("main", 13, "unlocked", "dm") \/ Step("main", 14, "launch", 4)
           \/ Step("extra", 1, "launch", 3) \/ Step("again", 1, "launch", 3)
  <1>1. Script = testNotEnoughServersForQuorum
    BY DEF Script, Scripts
  <1>2. CASE t = "main"
    BY <1>1, <1>2, GoIsNoCall
       DEF RunStep, Started, Finished, Advance, Step, StartStep,
           testNotEnoughServersForQuorum
  <1>3. CASE t = "extra"
    BY <1>1, <1>3, GoIsNoCall
       DEF RunStep, Started, Finished, Advance, Step, StartStep,
           testNotEnoughServersForQuorum
  <1>4. CASE t = "again"
    BY <1>1, <1>4, GoIsNoCall
       DEF RunStep, Started, Finished, Advance, Step, StartStep,
           testNotEnoughServersForQuorum
  <1> QED
    BY <1>1, <1>2, <1>3, <1>4 DEF Thread, testNotEnoughServersForQuorum

\* The steps of testServerGoingDown.
LEMMA GoingDownSteps ==
    ASSUME test = "goingDown", ip \in [Thread -> Nat], NEW t \in Thread, RunStep(t)
    PROVE  \/ Step("main", 1, "lock", "dm") \/ Step("main", 2, "locked", "dm")
           \/ Step("main", 3, "unlock", "dm") \/ Step("main", 4, "unlocked", "dm")
           \/ Step("main", 5, "kill", 4) \/ Step("main", 6, "kill", 3)
           \/ StartStep("main", 7, "relaunch") \/ Step("main", 8, "lock", "dm")
           \/ Step("main", 9, "locked", "dm") \/ Step("main", 10, "unlock", "dm")
           \/ Step("main", 11, "unlocked", "dm") \/ Step("relaunch", 1, "launch", 3)
           \/ Step("relaunch", 2, "launch", 4)
  <1>1. Script = testServerGoingDown
    BY DEF Script, Scripts
  <1>2. CASE t = "main"
    BY <1>1, <1>2, GoIsNoCall
       DEF RunStep, Started, Finished, Advance, Step, StartStep,
           testServerGoingDown
  <1>3. CASE t = "relaunch"
    BY <1>1, <1>3, GoIsNoCall
       DEF RunStep, Started, Finished, Advance, Step, StartStep,
           testServerGoingDown
  <1> QED
    BY <1>1, <1>2, <1>3 DEF Thread, testServerGoingDown

\* The steps of testSingleServerOverQuorumDownDuringLock.
LEMMA SingleDownSteps ==
    ASSUME test = "singleDown", ip \in [Thread -> Nat], NEW t \in Thread, RunStep(t)
    PROVE  \/ Step("main", 1, "kill", 4) \/ Step("main", 2, "lock", "dm")
           \/ Step("main", 3, "locked", "dm") \/ Step("main", 4, "kill", 3)
           \/ StartStep("main", 5, "relaunch") \/ Step("main", 6, "lock", "dm2")
           \/ Step("main", 7, "locked", "dm2") \/ Step("main", 8, "unlock", "dm2")
           \/ Step("main", 9, "unlocked", "dm2") \/ Step("relaunch", 1, "launch", 3)
           \/ Step("relaunch", 2, "launch", 4) \/ Step("relaunch", 3, "unlock", "dm")
           \/ Step("relaunch", 4, "unlocked", "dm")
  <1>1. Script = testSingleServerOverQuorumDownDuringLock
    BY DEF Script, Scripts
  <1>2. CASE t = "main"
    BY <1>1, <1>2, GoIsNoCall
       DEF RunStep, Started, Finished, Advance, Step, StartStep,
           testSingleServerOverQuorumDownDuringLock
  <1>3. CASE t = "relaunch"
    BY <1>1, <1>3, GoIsNoCall
       DEF RunStep, Started, Finished, Advance, Step, StartStep,
           testSingleServerOverQuorumDownDuringLock
  <1> QED
    BY <1>1, <1>2, <1>3 DEF Thread, testSingleServerOverQuorumDownDuringLock

\* The steps of testMultipleServersOverQuorumDownDuringLockKnownError.
LEMMA KnownErrorSteps ==
    ASSUME test = "knownError", ip \in [Thread -> Nat], NEW t \in Thread, RunStep(t)
    PROVE  \/ Step("main", 1, "lock", "dm") \/ Step("main", 2, "locked", "dm")
           \/ Step("main", 3, "kill", 4) \/ Step("main", 4, "kill", 3)
           \/ Step("main", 5, "kill", 2) \/ StartStep("main", 6, "relaunch")
           \/ Step("main", 7, "lock", "dm2") \/ Step("main", 8, "locked", "dm2")
           \/ Step("main", 9, "unlocked", "dm") \/ Step("main", 10, "unlock", "dm2")
           \/ Step("main", 11, "unlocked", "dm2") \/ Step("relaunch", 1, "launch", 2)
           \/ Step("relaunch", 2, "launch", 3) \/ Step("relaunch", 3, "launch", 4)
           \/ Step("relaunch", 4, "locked", "dm2") \/ Step("relaunch", 5, "unlock", "dm")
           \/ Step("relaunch", 6, "unlocked", "dm")
  <1>1. Script = testMultipleServersOverQuorumDownDuringLockKnownError
    BY DEF Script, Scripts
  <1>2. CASE t = "main"
    BY <1>1, <1>2, GoIsNoCall
       DEF RunStep, Started, Finished, Advance, Step, StartStep,
           testMultipleServersOverQuorumDownDuringLockKnownError
  <1>3. CASE t = "relaunch"
    BY <1>1, <1>3, GoIsNoCall
       DEF RunStep, Started, Finished, Advance, Step, StartStep,
           testMultipleServersOverQuorumDownDuringLockKnownError
  <1> QED
    BY <1>1, <1>2, <1>3 DEF Thread, testMultipleServersOverQuorumDownDuringLockKnownError

\* The steps of testSingleStaleLock.
LEMMA SingleStaleSteps ==
    ASSUME test \in {"singleStaleBefore", "singleStaleAfter"}, ip \in [Thread -> Nat], NEW t \in Thread, RunStep(t)
    PROVE  \/ Step("main", 1, "kill", 4) \/ Step("main", 2, "launch", 4)
           \/ Step("main", 3, "lock", "stale") \/ Step("main", 4, "locked", "stale")
           \/ Step("main", 5, "crash", "stale") \/ Step("main", 6, "kill", 4)
           \/ Step("main", 7, "kill", 3) \/ Step("main", 8, "kill", 2)
           \/ Step("main", 9, "launch", 2) \/ Step("main", 10, "launch", 3)
           \/ Step("main", 11, "launch", 4) \/ Step("main", 12, "lock", "dm")
           \/ SelectStep(13, 16) \/ Step("main", 14, "unlock", "dm")
           \/ Step("main", 15, "unlocked", "dm")
  <1>1. CASE test = "singleStaleBefore"
    <2>1. Script = testSingleStaleLock(TRUE)
      BY <1>1 DEF Script, Scripts
    <2>2. CASE t = "main"
      BY <2>1, <2>2, GoIsNoCall
         DEF RunStep, Started, Finished, Advance, Step, StartStep,
             testSingleStaleLock, staleLock, lockAgain, Expected, Select, SelectStep
    <2> QED
      BY <2>1, <2>2 DEF Thread, testSingleStaleLock
  <1>2. CASE test = "singleStaleAfter"
    <2>1. Script = testSingleStaleLock(FALSE)
      BY <1>2 DEF Script, Scripts
    <2>2. CASE t = "main"
      BY <2>1, <2>2, GoIsNoCall
         DEF RunStep, Started, Finished, Advance, Step, StartStep,
             testSingleStaleLock, staleLock, lockAgain, Expected, Select, SelectStep
    <2> QED
      BY <2>1, <2>2 DEF Thread, testSingleStaleLock
  <1> QED
    BY <1>1, <1>2

\* The steps of testMultipleStaleLocks.
LEMMA MultipleStaleSteps ==
    ASSUME test \in {"multipleStaleBefore", "multipleStaleAfter"}, ip \in [Thread -> Nat], NEW t \in Thread, RunStep(t)
    PROVE  \/ Step("main", 1, "kill", 4) \/ Step("main", 2, "launch", 4)
           \/ Step("main", 3, "lock", "stale") \/ Step("main", 4, "locked", "stale")
           \/ Step("main", 5, "crash", "stale") \/ Step("main", 6, "kill", 4)
           \/ Step("main", 7, "kill", 3) \/ Step("main", 8, "launch", 3)
           \/ Step("main", 9, "launch", 4) \/ Step("main", 10, "lock", "dm")
           \/ SelectStep(11, 14) \/ Step("main", 12, "unlock", "dm")
           \/ Step("main", 13, "unlocked", "dm")
  <1>1. CASE test = "multipleStaleBefore"
    <2>1. Script = testMultipleStaleLocks(TRUE)
      BY <1>1 DEF Script, Scripts
    <2>2. CASE t = "main"
      BY <2>1, <2>2, GoIsNoCall
         DEF RunStep, Started, Finished, Advance, Step, StartStep,
             testMultipleStaleLocks, staleLock, lockAgain, Expected, Select, SelectStep
    <2> QED
      BY <2>1, <2>2 DEF Thread, testMultipleStaleLocks
  <1>2. CASE test = "multipleStaleAfter"
    <2>1. Script = testMultipleStaleLocks(FALSE)
      BY <1>2 DEF Script, Scripts
    <2>2. CASE t = "main"
      BY <2>1, <2>2, GoIsNoCall
         DEF RunStep, Started, Finished, Advance, Step, StartStep,
             testMultipleStaleLocks, staleLock, lockAgain, Expected, Select, SelectStep
    <2> QED
      BY <2>1, <2>2 DEF Thread, testMultipleStaleLocks
  <1> QED
    BY <1>1, <1>2

\* The steps of testClientThatHasLockCrashes.
LEMMA ClientCrashesSteps ==
    ASSUME test = "clientCrashes", ip \in [Thread -> Nat], NEW t \in Thread, RunStep(t)
    PROVE  \/ Step("main", 1, "kill", 4) \/ Step("main", 2, "launch", 4)
           \/ Step("main", 3, "lock", "stale") \/ Step("main", 4, "locked", "stale")
           \/ Step("main", 5, "crash", "stale") \/ Step("main", 6, "kill", 4)
           \/ Step("main", 7, "launch", 4) \/ Step("main", 8, "lock", "dm")
           \/ SelectStep(9, 12) \/ Step("main", 10, "unlock", "dm")
           \/ Step("main", 11, "unlocked", "dm")
  <1>1. Script = testClientThatHasLockCrashes
    BY DEF Script, Scripts
  <1>2. CASE t = "main"
    BY <1>1, <1>2, GoIsNoCall
       DEF RunStep, Started, Finished, Advance, Step, StartStep,
           testClientThatHasLockCrashes, staleLock, lockAgain, Select, SelectStep
  <1> QED
    BY <1>1, <1>2 DEF Thread, testClientThatHasLockCrashes

\* The steps of testTwoClientsThatHaveReadLocksCrash.
LEMMA ReadersCrashSteps ==
    ASSUME test = "readersCrash", ip \in [Thread -> Nat], NEW t \in Thread, RunStep(t)
    PROVE  \/ Step("main", 1, "kill", 4) \/ Step("main", 2, "kill", 3)
           \/ Step("main", 3, "launch", 3) \/ StartStep("main", 4, "client")
           \/ Step("main", 5, "launch", 4) \/ Step("main", 6, "lock", "reader4")
           \/ Step("main", 7, "locked", "reader3") \/ Step("main", 8, "locked", "reader4")
           \/ Step("main", 9, "crash", "reader4") \/ Step("main", 10, "kill", 4)
           \/ Step("main", 11, "crash", "reader3") \/ Step("main", 12, "kill", 3)
           \/ Step("main", 13, "launch", 3) \/ Step("main", 14, "launch", 4)
           \/ Step("main", 15, "lock", "dm") \/ SelectStep(16, 19)
           \/ Step("main", 17, "unlock", "dm") \/ Step("main", 18, "unlocked", "dm")
           \/ Step("client", 1, "lock", "reader3")
  <1>1. Script = testTwoClientsThatHaveReadLocksCrash
    BY DEF Script, Scripts
  <1>2. CASE t = "main"
    BY <1>1, <1>2, GoIsNoCall
       DEF RunStep, Started, Finished, Advance, Step, StartStep,
           testTwoClientsThatHaveReadLocksCrash, lockAgain, Select, SelectStep
  <1>3. CASE t = "client"
    BY <1>1, <1>3, GoIsNoCall
       DEF RunStep, Started, Finished, Advance, Step, StartStep,
           testTwoClientsThatHaveReadLocksCrash, lockAgain, Select, SelectStep
  <1> QED
    BY <1>1, <1>2, <1>3 DEF Thread, testTwoClientsThatHaveReadLocksCrash

\* The steps that call for a step of the lock servers or of a client.
LEMMA Calls ==
    ASSUME NEW x
    PROVE  /\ Do("kill", x) => ServerCrash(x)
           /\ Do("launch", x) => ServerRestart(x)
           /\ Do("lock", x) => CallLock(x)
           /\ Do("locked", x) => pc[x] = "held" /\ UNCHANGED vars
           /\ Do("unlock", x) => Unlock(x)
           /\ Do("unlocked", x) => pc[x] = "idle" /\ UNCHANGED vars
           /\ Do("crash", x) => ClientCrash(x)
  BY DEF Do

\* The names the scripts use are those of the program's clients and servers.
LEMMA Names ==
    /\ Node = 1..4 /\ 1 \in Node /\ 2 \in Node /\ 3 \in Node /\ 4 \in Node
    /\ "dm" \in Proc /\ "dm2" \in Proc /\ "stale" \in Proc /\ "reader3" \in Proc /\ "reader4" \in Proc
    /\ "dm" \notin Reader /\ "dm2" \notin Reader /\ "stale" \notin Reader
    /\ "reader3" \in Reader /\ "reader4" \in Reader
    /\ dquorum = 3 /\ dquorumReads = 2
    /\ Mutex = Proc /\ \A p \in Proc : dmOf[p] = p
  BY ProgramAssumption DEF Node, dquorum, dquorumReads

\* A step of the main thread or of a goroutine is a step of the DRWMutex system.
LEMMA ServerStep ==
    ASSUME NEW t, NEW k, NEW n \in Node, Step(t, k, "kill", n) \/ Step(t, k, "launch", n)
    PROVE  Next
  BY Calls DEF Step, Next, Crash

\* So is a step that calls Lock or Unlock, waits for it, or ends a client.
LEMMA ClientStep ==
    ASSUME NEW t, NEW k, NEW p \in Proc,
           \/ Step(t, k, "lock", p) \/ Step(t, k, "locked", p)
           \/ Step(t, k, "unlock", p) \/ Step(t, k, "unlocked", p) \/ Step(t, k, "crash", p)
    PROVE  [Next]_vars
  BY Calls, Names DEF Step, Next, Crash, Goroutine

\* So is everything the scripts do, and the counters of the threads stay numbers.
LEMMA ScriptNext ==
    ASSUME test \in Tests, ip \in [Thread -> Nat], NEW t \in Thread, RunStep(t)
    PROVE  [Next]_vars /\ ip' \in [Thread -> Nat]
  <1> DEFINE Fine == [Next]_vars /\ ip' \in [Thread -> Nat]
  <1>0. ASSUME NEW u, NEW k \in Nat, ip' = [ip EXCEPT ![u] = k] PROVE ip' \in [Thread -> Nat]
    BY <1>0
  <1>1. ASSUME NEW u, NEW k \in Nat, NEW n \in Node, Step(u, k, "kill", n) \/ Step(u, k, "launch", n)
        PROVE  Fine
    <2>1. [Next]_vars
      BY <1>1, ServerStep
    <2>2. ip' = [ip EXCEPT ![u] = k + 1] /\ k + 1 \in Nat
      BY <1>1 DEF Step
    <2> QED BY <1>0, <2>1, <2>2
  <1>2. ASSUME NEW u, NEW k \in Nat, NEW p \in Proc,
               \/ Step(u, k, "lock", p) \/ Step(u, k, "locked", p)
               \/ Step(u, k, "unlock", p) \/ Step(u, k, "unlocked", p) \/ Step(u, k, "crash", p)
        PROVE  Fine
    <2>1. [Next]_vars
      BY <1>2, ClientStep
    <2>2. ip' = [ip EXCEPT ![u] = k + 1] /\ k + 1 \in Nat
      BY <1>2 DEF Step
    <2> QED BY <1>0, <2>1, <2>2
  <1>3. ASSUME NEW u, NEW s, NEW k \in Nat, StartStep(u, k, s) PROVE Fine
    <2>1. UNCHANGED vars /\ ip' = [[ip EXCEPT ![u] = k + 1] EXCEPT ![s] = 1]
      BY <1>3 DEF StartStep
    <2>2. \A x : \A f \in [Thread -> Nat], m \in Nat : [f EXCEPT ![x] = m] \in [Thread -> Nat]
      OBVIOUS
    <2>3. k + 1 \in Nat /\ 1 \in Nat
      OBVIOUS
    <2>4. [ip EXCEPT ![u] = k + 1] \in [Thread -> Nat]
      BY <2>2, <2>3
    <2> QED BY <2>1, <2>2, <2>3, <2>4
  <1>4. ASSUME NEW k \in Nat, NEW j \in Nat, SelectStep(k, j) PROVE Fine
    <2>1. UNCHANGED vars
      BY <1>4 DEF SelectStep
    <2>2. ip' = [ip EXCEPT !["main"] = k + 1] \/ ip' = [ip EXCEPT !["main"] = j]
      BY <1>4 DEF SelectStep
    <2> QED BY <1>0, <2>1, <2>2
  <1> HIDE DEF Fine
  <1>5. test \in {"quorum", "goingDown", "singleDown", "knownError", "singleStaleBefore",
                  "singleStaleAfter", "multipleStaleBefore", "multipleStaleAfter",
                  "clientCrashes", "readersCrash"}
    BY TestsAssumption DEF Scripts
  <1>6. ASSUME test = "quorum" PROVE Fine
    BY <1>1, <1>2, <1>3, <1>6, QuorumSteps, Names
  <1>7. ASSUME test = "goingDown" PROVE Fine
    BY <1>1, <1>2, <1>3, <1>7, GoingDownSteps, Names
  <1>8. ASSUME test = "singleDown" PROVE Fine
    BY <1>1, <1>2, <1>3, <1>8, SingleDownSteps, Names
  <1>9. ASSUME test = "knownError" PROVE Fine
    BY <1>1, <1>2, <1>3, <1>9, KnownErrorSteps, Names
  <1>10. ASSUME test \in {"singleStaleBefore", "singleStaleAfter"} PROVE Fine
    BY <1>1, <1>2, <1>4, <1>10, SingleStaleSteps, Names
  <1>11. ASSUME test \in {"multipleStaleBefore", "multipleStaleAfter"} PROVE Fine
    BY <1>1, <1>2, <1>4, <1>11, MultipleStaleSteps, Names
  <1>12. ASSUME test = "clientCrashes" PROVE Fine
    BY <1>1, <1>2, <1>4, <1>12, ClientCrashesSteps, Names
  <1>13. ASSUME test = "readersCrash" PROVE Fine
    BY <1>1, <1>2, <1>3, <1>4, <1>13, ReadersCrashSteps, Names
  <1>14. Fine
    BY <1>5, <1>6, <1>7, <1>8, <1>9, <1>10, <1>11, <1>12, <1>13
  <1> QED BY <1>14 DEF Fine

\* What goes on inside Lock and Unlock is a step of the DRWMutex system.
LEMMA InsideNext == Inside => Next
  BY DEF Inside, Next, Goroutine, Call

\* The counters of the threads stay numbers, and the test the same.
CountersOK == test \in Tests /\ ip \in [Thread -> Nat]

\* Every step keeps them.
LEMMA CountersStep ==
    ASSUME CountersOK, [ChaosNext]_chaosVars
    PROVE  CountersOK' /\ test' = test /\ Script' = Script /\ Thread' = Thread /\ [Next]_vars
  <1>1. CASE UNCHANGED chaosVars
    BY <1>1 DEF chaosVars, CountersOK, Thread, Script
  <1>2. CASE Inside
    BY <1>2, InsideNext DEF Inside, CountersOK, Thread, Script
  <1>3. ASSUME NEW t \in Thread, RunStep(t)
        PROVE  CountersOK' /\ test' = test /\ Script' = Script /\ Thread' = Thread /\ [Next]_vars
    <2>1. test' = test /\ Script' = Script /\ Thread' = Thread
      BY <1>3 DEF RunStep, Script, Thread
    <2>2. [Next]_vars /\ ip' \in [Thread -> Nat]
      BY <1>3, ScriptNext DEF CountersOK
    <2> QED BY <2>1, <2>2 DEF CountersOK
  <1> QED
    BY <1>1, <1>2, <1>3 DEF ChaosNext

-----------------------------------------------------------------------------
(* What one step changes of the attempts. *)

\* A new attempt takes a slot of its process in which nothing is left.
LEMMA BroadcastEffect ==
    ASSUME NEW p \in Proc, Broadcast(p)
    PROVE  \E a \in Req :
              /\ ownerOf[a] = p /\ stage[a] = "idle" /\ \A n \in Node : st[a][n] = "none"
              /\ stage' = [stage EXCEPT ![a] = "collect"]
              /\ st' = [st EXCEPT ![a] = [n \in Node |-> "sent"]]
              /\ req' = [req EXCEPT ![p] = a]
              /\ pc' = [pc EXCEPT ![p] = "lock"]
              /\ UNCHANGED <<serverVars, mutexVars>>
  <1> DEFINE a == CHOOSE r \in FreeSlots(p) : TRUE
  <1>1. /\ a \in Req /\ ownerOf[a] = p /\ stage[a] = "idle" /\ \A n \in Node : st[a][n] = "none"
        /\ stage' = [stage EXCEPT ![a] = "collect"]
        /\ st' = [st EXCEPT ![a] = [n \in Node |-> "sent"]]
        /\ req' = [req EXCEPT ![p] = a]
    BY FreeSlotChosen DEF Broadcast
  <1>2. pc' = [pc EXCEPT ![p] = "lock"] /\ UNCHANGED <<serverVars, mutexVars>>
    BY DEF Broadcast
  <1> HIDE DEF a
  <1> QED
    BY <1>1, <1>2

\* The collector of r has received the answer of node n, of value v for it, and
\* the array it works on is s from then on.
Received(r, n, v, s) ==
    /\ s \in [Node -> Status]
    /\ s[n] \in (IF v = "failed" THEN {"failed", "none"} ELSE {v})
    /\ \A m \in Node \ {n} : s[m] = st[r][m] \/ (st[r][m] = "failed" /\ s[m] = "none")
    /\ st' = [st EXCEPT ![r] = s]
    /\ \/ stage' = stage
       \/ /\ stage' = [stage EXCEPT ![r] = "decided"]
          /\ \A m \in Node : s[m] \notin {"sent", "granted", "denied", "failed"}
       \/ /\ stage' = [stage EXCEPT ![r] = "release"] /\ v = "failed"
          /\ Cardinality({k \in Node : st[r][k] = "failed"} \cup {n}) > dNodeCount - Quorum(r)
    /\ UNCHANGED <<serverVars, pc, req, mutexVars>>

\* The end of the collector's loop changes nothing but the count of denials.
LEMMA CollectedEffect ==
    ASSUME NEW r \in Req, NEW s \in [Node -> Status], Collected(r, s)
    PROVE  \E z \in [Node -> Status] :
              /\ \A m \in Node : z[m] = s[m] \/ (s[m] = "failed" /\ z[m] = "none")
              /\ st' = [st EXCEPT ![r] = z]
              /\ \/ stage' = stage
                 \/ /\ stage' = [stage EXCEPT ![r] = "decided"]
                    /\ \A m \in Node : z[m] \notin {"sent", "granted", "denied", "failed"}
  <1>1. DropFailed(s) \in [Node -> Status]
    BY DEF DropFailed, Status
  <1>2. \A m \in Node : /\ DropFailed(s)[m] = s[m] \/ (s[m] = "failed" /\ DropFailed(s)[m] = "none")
                        /\ DropFailed(s)[m] # "failed"
    BY DEF DropFailed
  <1>3. CASE \E n \in Node : s[n] \in Unreceived
    BY <1>3 DEF Collected
  <1>4. CASE ~\E n \in Node : s[n] \in Unreceived
    <2>1. st' = [st EXCEPT ![r] = DropFailed(s)] /\ stage' = [stage EXCEPT ![r] = "decided"]
      BY <1>4 DEF Collected
    <2>2. \A m \in Node : DropFailed(s)[m] \notin {"sent", "granted", "denied", "failed"}
      BY <1>2, <1>4 DEF Unreceived
    <2> QED BY <1>1, <1>2, <2>1, <2>2
  <1> QED
    BY <1>3, <1>4

\* A Granted with the uid set: locks[n] is set.
LEMMA GrantEffect ==
    ASSUME IInv, NEW r \in Req, NEW n \in Node, ReceiveGrant(r, n)
    PROVE  stage[r] = "collect" /\ st[r][n] = "granted" /\ \E s : Received(r, n, "locked", s)
  <1> DEFINE s == [st[r] EXCEPT ![n] = "locked"]
  <1>1. st[r] \in [Node -> Status] /\ s \in [Node -> Status]
    BY DEF IInv, TypeOK, Status
  <1>2. s[n] = "locked" /\ \A m \in Node \ {n} : s[m] = st[r][m]
    BY <1>1
  <1>3. Collected(r, s) /\ UNCHANGED <<serverVars, pc, req, mutexVars>>
    BY DEF ReceiveGrant
  <1> HIDE DEF s
  <1>4. PICK z \in [Node -> Status] :
              /\ \A m \in Node : z[m] = s[m] \/ (s[m] = "failed" /\ z[m] = "none")
              /\ st' = [st EXCEPT ![r] = z]
              /\ \/ stage' = stage
                 \/ /\ stage' = [stage EXCEPT ![r] = "decided"]
                    /\ \A m \in Node : z[m] \notin {"sent", "granted", "denied", "failed"}
    BY <1>1, <1>3, CollectedEffect
  <1>5. Received(r, n, "locked", z)
    BY <1>2, <1>3, <1>4 DEF Received
  <1> QED
    BY <1>5 DEF ReceiveGrant

\* A Granted without uid: it is counted, and too many of them end the attempt.
LEMMA DenialEffect ==
    ASSUME IInv, NEW r \in Req, NEW n \in Node, ReceiveDenial(r, n)
    PROVE  stage[r] = "collect" /\ st[r][n] = "denied" /\ \E s : Received(r, n, "failed", s)
  <1> DEFINE s == [st[r] EXCEPT ![n] = "failed"]
             F == {k \in Node : s[k] = "failed"}
  <1>1. st[r] \in [Node -> Status] /\ s \in [Node -> Status]
    BY DEF IInv, TypeOK, Status
  <1>2. s[n] = "failed" /\ \A m \in Node \ {n} : s[m] = st[r][m]
    BY <1>1
  <1>3. /\ UNCHANGED <<serverVars, pc, req, mutexVars>>
        /\ IF Cardinality(F) > dNodeCount - Quorum(r)
           THEN st' = [st EXCEPT ![r] = DropFailed(s)] /\ stage' = [stage EXCEPT ![r] = "release"]
           ELSE Collected(r, s)
    BY DEF ReceiveDenial
  <1>4. F = {k \in Node : st[r][k] = "failed"} \cup {n}
    BY <1>2
  <1> HIDE DEF s, F
  <1>5. CASE Cardinality(F) > dNodeCount - Quorum(r)
    <2>1. DropFailed(s) \in [Node -> Status]
      BY <1>1 DEF DropFailed, Status
    <2>2. \A m \in Node : DropFailed(s)[m] = s[m] \/ (s[m] = "failed" /\ DropFailed(s)[m] = "none")
      BY DEF DropFailed
    <2>3. Received(r, n, "failed", DropFailed(s))
      BY <1>2, <1>3, <1>4, <1>5, <2>1, <2>2 DEF Received
    <2> QED BY <2>3 DEF ReceiveDenial
  <1>6. CASE ~(Cardinality(F) > dNodeCount - Quorum(r))
    <2>1. PICK z \in [Node -> Status] :
              /\ \A m \in Node : z[m] = s[m] \/ (s[m] = "failed" /\ z[m] = "none")
              /\ st' = [st EXCEPT ![r] = z]
              /\ \/ stage' = stage
                 \/ /\ stage' = [stage EXCEPT ![r] = "decided"]
                    /\ \A m \in Node : z[m] \notin {"sent", "granted", "denied", "failed"}
      BY <1>1, <1>3, <1>6, CollectedEffect
    <2>2. Received(r, n, "failed", z)
      BY <1>2, <1>3, <2>1 DEF Received
    <2> QED BY <2>2 DEF ReceiveDenial
  <1> QED
    BY <1>5, <1>6

\* One answer is dealt with, or one call comes back: one entry of r changes.
Marked(r, n, v) ==
    /\ st' = [st EXCEPT ![r][n] = v]
    /\ UNCHANGED <<stage, pc, req, mutexVars>>

\* One entry of an array of entries.
LEMMA MarkedEntries ==
    ASSUME IInv, NEW r \in Req, NEW n \in Node, NEW v, st' = [st EXCEPT ![r][n] = v]
    PROVE  /\ st'[r][n] = v
           /\ \A s \in Req, m \in Node : s # r \/ m # n => st'[s][m] = st[s][m]
  BY DEF IInv, TypeOK

\* The whole array of an attempt.
LEMMA ReplacedEntries ==
    ASSUME IInv, NEW r \in Req, NEW z, st' = [st EXCEPT ![r] = z]
    PROVE  /\ st'[r] = z
           /\ \A s \in Req : s # r => st'[s] = st[s]
  BY DEF IInv, TypeOK

-----------------------------------------------------------------------------
(* Clients with a DRWMutex each. *)

\* The collector of attempt r has not told lock(), or lock() is in wg.Wait().
Busy(r) ==
    stage[r] \in {"collect", "release", "decided"} \/ \E n \in Node : st[r][n] = "sent"

\* A busy attempt is the one its process is waiting for.
Awaited == \A r \in Req : Busy(r) => pc[ownerOf[r]] = "lock" /\ req[ownerOf[r]] = r

\* A writer that is in has its array in its DRWMutex, and nobody has panicked.
OwnStored ==
    /\ \A p \in Proc \ Reader : pc[p] = "held" => writeLocks[p] # NoReq
    /\ \A p \in Proc : pc[p] # "panic"

\* Steps inside an attempt, of a server or of a stray request.
LEMMA OwnFrame ==
    ASSUME Awaited, OwnStored, pc' = pc, req' = req, mutexVars' = mutexVars,
           \A r \in Req : Busy(r)' => Busy(r)
    PROVE  Awaited' /\ OwnStored'
  BY DEF Awaited, OwnStored, mutexVars

\* A call of Lock or RLock comes back, or is served.
LEMMA CallMarks ==
    ASSUME NEW r \in Req, NEW n \in Node,
           ServeLock(r, n) \/ CallFails(r, n) \/ ReplyLost(r, n) \/ CallDelayed(r, n)
    PROVE  st[r][n] = "sent" /\ \E v \in {"granted", "denied"} : Marked(r, n, v)
  BY DEF ServeLock, CallFails, ReplyLost, CallDelayed, Marked

\* Steps of servers, calls and collectors do not make an attempt busy.
LEMMA CollectorsOwn ==
    ASSUME IInv, Awaited, OwnStored,
           \/ \E r \in Req : Collector(r) \/ CollectTimeout(r) \/ \E n \in Node : Call(r, n)
           \/ \E n \in Node : ServerCrash(n) \/ ServerRestart(n)
    PROVE  Awaited' /\ OwnStored'
  <1>1. ASSUME NEW r \in Req, NEW n \in Node, NEW v \in {"granted", "denied", "none"},
               Marked(r, n, v)
        PROVE  Awaited' /\ OwnStored'
    <2>0. st' = [st EXCEPT ![r][n] = v]
      BY <1>1 DEF Marked
    <2>1. st'[r][n] = v /\ \A s \in Req, m \in Node : s # r \/ m # n => st'[s][m] = st[s][m]
      BY <2>0 DEF IInv, TypeOK
    <2>2. \A s \in Req : Busy(s)' => Busy(s)
      BY <1>1, <2>1 DEF Busy, Marked
    <2> QED BY <1>1, <2>2, OwnFrame DEF Marked
  <1>2. ASSUME NEW r \in Req, NEW n \in Node, NEW v \in {"locked", "failed"}, NEW s,
               stage[r] = "collect", Received(r, n, v, s)
        PROVE  Awaited' /\ OwnStored'
    <2>1. st'[r] = s /\ \A x \in Req : x # r => st'[x] = st[x]
      BY <1>2, ReplacedEntries DEF Received
    <2>2. \A x \in Req : x # r => stage'[x] = stage[x]
      BY <1>2 DEF Received, IInv, TypeOK
    <2>3. \A x \in Req : Busy(x)' => Busy(x)
      BY <1>2, <2>1, <2>2 DEF Busy
    <2> QED BY <1>2, <2>3, OwnFrame DEF Received
  <1>3. ASSUME NEW r \in Req, releaseAll(r) PROVE Awaited' /\ OwnStored'
    <2>1. CASE \E n \in Node : Marked(r, n, "none")
      BY <1>1, <2>1
    <2>2. CASE stage' = [stage EXCEPT ![r] = "decided"] /\ st' = st /\ stage[r] = "release"
      <3>1. \A s \in Req : Busy(s)' => Busy(s)
        BY <2>2 DEF Busy, IInv, TypeOK
      <3> QED BY <1>3, <3>1, OwnFrame DEF releaseAll
    <2> QED BY <1>3, <2>1, <2>2 DEF releaseAll, Marked
  <1>4. ASSUME NEW r \in Req, CollectTimeout(r) PROVE Awaited' /\ OwnStored'
    <2>1. st' = [st EXCEPT ![r] = DropFailed(st[r])] /\ stage[r] = "collect"
          /\ \A x \in Req : x # r => stage'[x] = stage[x]
      BY <1>4 DEF CollectTimeout, IInv, TypeOK
    <2>2. \A x \in Req : x # r => st'[x] = st[x]
      BY <2>1, ReplacedEntries
    <2>3. \A x \in Req : Busy(x)' => Busy(x)
      BY <2>1, <2>2 DEF Busy
    <2> QED BY <1>4, <2>3, OwnFrame DEF CollectTimeout
  <1>5. ASSUME NEW r \in Req, NEW n \in Node, ReceiveGrant(r, n) PROVE Awaited' /\ OwnStored'
    BY <1>2, <1>5, GrantEffect
  <1>6. ASSUME NEW r \in Req, NEW n \in Node, ReceiveDenial(r, n) PROVE Awaited' /\ OwnStored'
    BY <1>2, <1>6, DenialEffect
  <1>7. ASSUME NEW r \in Req, NEW n \in Node, Drain(r, n) PROVE Awaited' /\ OwnStored'
    BY <1>1, <1>7 DEF Drain, Marked
  <1>8. ASSUME NEW r \in Req, NEW n \in Node, Call(r, n), ~ServeStray(r, n)
        PROVE  Awaited' /\ OwnStored'
    BY <1>1, <1>8, CallMarks DEF Call
  <1>9. ASSUME UNCHANGED <<stage, st, pc, req, mutexVars>> PROVE Awaited' /\ OwnStored'
    <2>1. \A s \in Req : Busy(s)' => Busy(s)
      BY <1>9 DEF Busy
    <2> QED BY <1>9, <2>1, OwnFrame
  <1>10. ASSUME NEW r \in Req, NEW n \in Node, ServeStray(r, n) PROVE Awaited' /\ OwnStored'
    BY <1>9, <1>10 DEF ServeStray
  <1>11. ASSUME NEW n \in Node, ServerCrash(n) \/ ServerRestart(n) PROVE Awaited' /\ OwnStored'
    BY <1>9, <1>11 DEF ServerCrash, ServerRestart
  <1> QED
    BY <1>3, <1>4, <1>5, <1>6, <1>7, <1>8, <1>10, <1>11 DEF Collector

\* Steps of the goroutines: an attempt is begun by a process that waits for no
\* other, and lock() returns when it is busy no more.
LEMMA GoroutinesOwn ==
    ASSUME IInv, Awaited, OwnStored, NEW p \in Proc, Goroutine(p)
    PROVE  Awaited' /\ OwnStored'
  <1>0. /\ pc \in [Proc -> Control] /\ stage \in [Req -> Stage] /\ req \in [Proc -> Req \cup {NoReq}]
        /\ writeLocks \in [Proc -> Req \cup {NoReq}] /\ ownerOf \in [Req -> Proc]
        /\ dmOf[p] = p /\ NoReq \notin Req
    BY Names, ProcAssumption DEF IInv, TypeOK
  <1>1. CASE CallLock(p) \/ NextAttempt(p)
    <2>1. Broadcast(p) /\ pc[p] \in {"idle", "backoff"}
      BY <1>1 DEF CallLock, NextAttempt
    <2>2. PICK a \in Req :
              /\ ownerOf[a] = p /\ stage[a] = "idle" /\ \A n \in Node : st[a][n] = "none"
              /\ stage' = [stage EXCEPT ![a] = "collect"]
              /\ st' = [st EXCEPT ![a] = [n \in Node |-> "sent"]]
              /\ req' = [req EXCEPT ![p] = a]
              /\ pc' = [pc EXCEPT ![p] = "lock"]
              /\ UNCHANGED <<serverVars, mutexVars>>
      BY <2>1, BroadcastEffect
    <2>3. \A s \in Req : s # a => st'[s] = st[s]
      BY <2>2, ReplacedEntries
    <2>4. \A s \in Req : s # a => (Busy(s)' => Busy(s)) /\ (Busy(s) => ownerOf[s] # p)
      BY <1>0, <2>1, <2>2, <2>3 DEF Busy, Awaited
    <2>5. Awaited'
      BY <1>0, <2>2, <2>4 DEF Awaited
    <2> QED BY <1>0, <2>2, <2>5 DEF OwnStored, mutexVars
  <1>2. CASE LockSucceeds(p) \/ LockFails(p) \/ GiveUp(p)
    <2>1. /\ pc[p] = "lock" /\ Returned(req[p]) /\ req[p] \in Req /\ st' = st
          /\ UNCHANGED mutexVars
          /\ \E v \in {"won", "idle"} : stage' = [stage EXCEPT ![req[p]] = v]
          /\ \E v \in {"won", "backoff", "idle"} : pc' = [pc EXCEPT ![p] = v]
          /\ \A q \in Proc : q # p => req'[q] = req[q]
      BY <1>0, <1>2 DEF LockSucceeds, LockFails, GiveUp, AttemptFails, IInv, AttemptsLinked
    <2>2. \A s \in Req : Busy(s)' => s # req[p] /\ Busy(s)
      BY <1>0, <2>1 DEF Busy, Returned
    <2>3. \A s \in Req : Busy(s)' => ownerOf[s] # p
      BY <2>2 DEF Awaited
    <2>4. Awaited'
      BY <1>0, <2>1, <2>2, <2>3 DEF Awaited
    <2> QED BY <1>0, <2>1, <2>4 DEF OwnStored, mutexVars
  <1>3. CASE CopyLocks(p)
    <2>1. /\ pc[p] = "won" /\ req[p] \in Req /\ st' = st
          /\ stage' = [stage EXCEPT ![req[p]] = "held"]
          /\ pc' = [pc EXCEPT ![p] = "held"]
          /\ \A q \in Proc : q # p => req'[q] = req[q]
          /\ p \notin Reader => writeLocks' = [writeLocks EXCEPT ![p] = req[p]]
          /\ p \in Reader => writeLocks' = writeLocks
      BY <1>0, <1>3 DEF CopyLocks, IInv, AttemptsLinked
    <2>2. \A s \in Req : Busy(s)' => Busy(s)
      BY <1>0, <2>1 DEF Busy
    <2>3. Awaited'
      BY <1>0, <2>1, <2>2 DEF Awaited
    <2> QED BY <1>0, <2>1, <2>3 DEF OwnStored
  <1>4. CASE Unlock(p) \/ RUnlock(p)
    <2>1. /\ pc[p] = "held" /\ st' = st
          /\ pc' = [pc EXCEPT ![p] = "unlock"]
          /\ \A q \in Proc : q # p => req'[q] = req[q]
          /\ \A q \in Proc : q # p => writeLocks'[q] = writeLocks[q]
          /\ \E r \in Req : stage' = [stage EXCEPT ![r] = "unlock"]
      <3>1. CASE Unlock(p)
        BY <1>0, <3>1 DEF Unlock, TakeOut, OwnStored
      <3>2. CASE RUnlock(p)
        <4>1. readersLocks[p] # <<>> /\ readersLocks[p] \in Seq(Req)
          BY <1>0, <3>2, ReadersStored, Names DEF RUnlock, IInv, TypeOK
        <4>2. Head(readersLocks[p]) \in Req
          BY <4>1
        <4> QED BY <1>0, <3>2, <4>1, <4>2 DEF RUnlock, TakeOut
      <3> QED BY <1>4, <3>1, <3>2
    <2>2. \A s \in Req : Busy(s)' => Busy(s)
      BY <1>0, <2>1 DEF Busy
    <2>3. Awaited'
      BY <1>0, <2>1, <2>2 DEF Awaited
    <2> QED BY <1>0, <2>1, <2>3 DEF OwnStored
  <1>5. CASE unlock(p)
    <2>1. pc[p] = "unlock" /\ req[p] \in Req /\ UNCHANGED mutexVars
      BY <1>5 DEF unlock, IInv, AttemptsLinked
    <2>2. CASE \E n \in Node : Marked(req[p], n, "none")
      <3>1. PICK n \in Node : Marked(req[p], n, "none")
        BY <2>2
      <3>2. st'[req[p]][n] = "none"
            /\ \A s \in Req, m \in Node : s # req[p] \/ m # n => st'[s][m] = st[s][m]
        BY <2>1, <3>1, MarkedEntries DEF Marked
      <3>3. \A s \in Req : Busy(s)' => Busy(s)
        BY <3>1, <3>2 DEF Busy, Marked
      <3> QED BY <3>1, <3>3, OwnFrame DEF Marked
    <2>3. CASE /\ pc' = [pc EXCEPT ![p] = "idle"] /\ st' = st
               /\ req' = [req EXCEPT ![p] = NoReq] /\ stage' = [stage EXCEPT ![req[p]] = "idle"]
      <3>1. \A s \in Req : Busy(s)' => Busy(s)
        BY <1>0, <2>1, <2>3 DEF Busy
      <3>2. Awaited'
        BY <1>0, <2>1, <2>3, <3>1 DEF Awaited
      <3> QED BY <1>0, <2>1, <2>3, <3>2 DEF OwnStored, mutexVars
    <2> QED BY <1>5, <2>2, <2>3 DEF unlock, Marked
  <1> QED
    BY <1>1, <1>2, <1>3, <1>4, <1>5 DEF Goroutine

\* The end of a client ends its attempts.
LEMMA CrashOwn ==
    ASSUME IInv, Awaited, OwnStored, NEW d \in Mutex, ClientCrash(d)
    PROVE  Awaited' /\ OwnStored'
  <1>0. /\ d \in Proc /\ ownerOf \in [Req -> Proc] /\ \A p \in Proc : dmOf[p] = p
        /\ writeLocks \in [Proc -> Req \cup {NoReq}]
    BY Names, ProcAssumption DEF IInv, TypeOK
  <1>1. /\ \A p \in Proc : pc'[p] = IF p = d THEN "idle" ELSE pc[p]
        /\ \A p \in Proc : p # d => req'[p] = req[p]
        /\ \A r \in Req : ownerOf[r] # d => stage'[r] = stage[r] /\ st'[r] = st[r]
        /\ \A r \in Req : ownerOf[r] = d => stage'[r] = "idle" /\ \A n \in Node : st'[r][n] = "none"
        /\ \A p \in Proc : p # d => writeLocks'[p] = writeLocks[p]
    BY <1>0 DEF ClientCrash
  <1>2. \A s \in Req : Busy(s)' => Busy(s) /\ ownerOf[s] # d
    BY <1>1 DEF Busy
  <1>3. Awaited'
    BY <1>0, <1>1, <1>2 DEF Awaited
  <1> QED
    BY <1>1, <1>3 DEF OwnStored

\* Every step of the DRWMutex system keeps both.
LEMMA OwnStep ==
    ASSUME IInv, Awaited, OwnStored, [Next]_vars
    PROVE  Awaited' /\ OwnStored'
  <1>1. CASE Next
    BY <1>1, CollectorsOwn, GoroutinesOwn, CrashOwn DEF Next, Crash
  <1>2. CASE UNCHANGED vars
    <2>1. UNCHANGED <<stage, st, pc, req, mutexVars>>
      BY <1>2 DEF vars, mutexVars
    <2>2. \A s \in Req : Busy(s)' => Busy(s)
      BY <2>1 DEF Busy
    <2> QED BY <2>1, <2>2, OwnFrame
  <1> QED
    BY <1>1, <1>2

-----------------------------------------------------------------------------
(* Two servers down: the tests of the quorum. *)

\* A write lock needs three of the four servers.
LEMMA TwoAreTooFew ==
    ASSUME NEW r \in Req, ~IsReadLock(r), NEW a \in Node, NEW b \in Node, a # b,
           st[r][a] # "locked", st[r][b] # "locked"
    PROVE  ~quorumMet(r)
  <1> DEFINE L == LockedNodes(r)
             M == Node \ {a}
  <1>1. IsFiniteSet(Node) /\ Cardinality(Node) = 4
    BY NodeFinite, ProgramAssumption
  <1>2. IsFiniteSet(M) /\ Cardinality(M) = 3
    BY <1>1, FS_RemoveElement
  <1>3. b \in M /\ L \subseteq M \ {b}
    BY DEF LockedNodes
  <1> HIDE DEF L, M
  <1>4. IsFiniteSet(M \ {b}) /\ Cardinality(M \ {b}) = 2
    BY <1>2, <1>3, FS_RemoveElement
  <1>5. Cardinality(L) <= 2 /\ Cardinality(L) \in Nat
    BY <1>3, <1>4, FS_Subset, FS_CardinalityType
  <1> QED
    BY <1>5, Names DEF L, quorumMet, Quorum

\* dm is waiting, and servers 3 and 4 have granted its attempt nothing.
Starved ==
    /\ pc["dm"] \in {"lock", "backoff"}
    /\ pc["dm"] = "lock" => \A n \in {3, 4} : st[req["dm"]][n] \notin {"granted", "locked"}

\* A call of Lock starts with nothing granted.
LEMMA StarvedStart ==
    ASSUME IInv, Broadcast("dm")
    PROVE  Starved'
  <1>0. pc \in [Proc -> Control] /\ req \in [Proc -> Req \cup {NoReq}] /\ st \in [Req -> [Node -> Status]]
    BY DEF IInv, TypeOK
  <1>1. PICK a \in Req :
              /\ ownerOf[a] = "dm" /\ stage[a] = "idle" /\ \A n \in Node : st[a][n] = "none"
              /\ stage' = [stage EXCEPT ![a] = "collect"]
              /\ st' = [st EXCEPT ![a] = [n \in Node |-> "sent"]]
              /\ req' = [req EXCEPT !["dm"] = a]
              /\ pc' = [pc EXCEPT !["dm"] = "lock"]
              /\ UNCHANGED <<serverVars, mutexVars>>
    BY Names, BroadcastEffect
  <1>2. pc'["dm"] = "lock" /\ req'["dm"] = a /\ \A n \in Node : st'[a][n] = "sent"
    BY <1>0, <1>1, Names
  <1> QED
    BY <1>2, Names DEF Starved

\* What leaves dm and its attempt alone.
LEMMA StarvedFrame ==
    ASSUME Starved, pc'["dm"] = pc["dm"], req'["dm"] = req["dm"],
           pc["dm"] = "lock" =>
               \A n \in {3, 4} : st'[req["dm"]][n] \in {"granted", "locked"}
                                 => st[req["dm"]][n] \in {"granted", "locked"}
    PROVE  Starved'
  BY DEF Starved

\* As long as servers 3 and 4 are down, dm is neither granted a lock by them nor
\* told that it has a quorum.
LEMMA StarvedInside ==
    ASSUME IInv, Starved, 3 \notin up, 4 \notin up, Inside
    PROVE  Starved'
  <1>0. /\ pc \in [Proc -> Control] /\ req \in [Proc -> Req \cup {NoReq}]
        /\ "dm" \in Proc /\ {3, 4} \subseteq Node
        /\ pc["dm"] = "lock" => req["dm"] \in Req /\ ownerOf[req["dm"]] = "dm"
    BY Names DEF IInv, TypeOK, AttemptsLinked
  <1>1. ASSUME NEW r \in Req, NEW n \in Node, NEW v \in {"granted", "denied", "none"},
               Marked(r, n, v), v = "granted" => n \in up
        PROVE  Starved'
    <2>1. st' = [st EXCEPT ![r][n] = v]
      BY <1>1 DEF Marked
    <2>2. st'[r][n] = v /\ \A s \in Req, m \in Node : s # r \/ m # n => st'[s][m] = st[s][m]
      BY <2>1 DEF IInv, TypeOK
    <2>3. pc'["dm"] = pc["dm"] /\ req'["dm"] = req["dm"]
      BY <1>1 DEF Marked
    <2>4. ASSUME pc["dm"] = "lock", NEW m \in {3, 4}, st'[req["dm"]][m] \in {"granted", "locked"}
          PROVE  st[req["dm"]][m] \in {"granted", "locked"}
      BY <1>0, <1>1, <2>2, <2>4
    <2> QED BY <2>3, <2>4, StarvedFrame
  <1>2. ASSUME NEW r \in Req, NEW n \in Node, NEW v \in {"locked", "failed"}, NEW s,
               Received(r, n, v, s), v = "locked" => st[r][n] = "granted"
        PROVE  Starved'
    <2>1. st'[r] = s /\ \A x \in Req : x # r => st'[x] = st[x]
      BY <1>2, ReplacedEntries DEF Received
    <2>2. \A m \in Node : s[m] \in {"granted", "locked"} => st[r][m] \in {"granted", "locked"}
      BY <1>2 DEF Received
    <2>3. pc'["dm"] = pc["dm"] /\ req'["dm"] = req["dm"]
      BY <1>2 DEF Received
    <2>4. ASSUME pc["dm"] = "lock", NEW m \in {3, 4}, st'[req["dm"]][m] \in {"granted", "locked"}
          PROVE  st[req["dm"]][m] \in {"granted", "locked"}
      BY <1>0, <2>1, <2>2, <2>4
    <2> QED BY <2>3, <2>4, StarvedFrame
  <1>3. ASSUME NEW p \in Proc, NextAttempt(p) PROVE Starved'
    <2>1. CASE p = "dm"
      BY <1>3, <2>1, StarvedStart DEF NextAttempt
    <2>2. CASE p # "dm"
      <3>1. PICK a \in Req :
              /\ ownerOf[a] = p /\ stage[a] = "idle" /\ \A n \in Node : st[a][n] = "none"
              /\ stage' = [stage EXCEPT ![a] = "collect"]
              /\ st' = [st EXCEPT ![a] = [n \in Node |-> "sent"]]
              /\ req' = [req EXCEPT ![p] = a]
              /\ pc' = [pc EXCEPT ![p] = "lock"]
              /\ UNCHANGED <<serverVars, mutexVars>>
        BY <1>3, BroadcastEffect DEF NextAttempt
      <3>2. pc'["dm"] = pc["dm"] /\ req'["dm"] = req["dm"]
        BY <1>0, <2>2, <3>1
      <3>3. pc["dm"] = "lock" => st'[req["dm"]] = st[req["dm"]]
        BY <1>0, <2>2, <3>1, ReplacedEntries
      <3> QED BY <3>2, <3>3, StarvedFrame
    <2> QED BY <2>1, <2>2
  <1>4. ASSUME NEW p \in Proc, LockSucceeds(p) PROVE Starved'
    <2>1. p # "dm"
      <3> SUFFICES ASSUME p = "dm" PROVE FALSE
        OBVIOUS
      <3>1. pc["dm"] = "lock" /\ quorumMet(req["dm"])
        BY <1>4 DEF LockSucceeds
      <3>2. /\ req["dm"] \in Req /\ ~IsReadLock(req["dm"])
            /\ st[req["dm"]][3] # "locked" /\ st[req["dm"]][4] # "locked"
        BY <1>0, <3>1, Names DEF Starved, IsReadLock
      <3> QED BY <3>1, <3>2, TwoAreTooFew, Names
    <2>2. st' = st /\ req' = req /\ pc'["dm"] = pc["dm"]
      BY <1>0, <1>4, <2>1 DEF LockSucceeds
    <2> QED BY <2>2, StarvedFrame
  <1>5. ASSUME NEW p \in Proc, LockFails(p) PROVE Starved'
    <2>1. CASE p = "dm"
      BY <1>0, <1>5, <2>1 DEF LockFails, AttemptFails, Starved
    <2>2. CASE p # "dm"
      <3>1. st' = st /\ req'["dm"] = req["dm"] /\ pc'["dm"] = pc["dm"]
        BY <1>0, <1>5, <2>2 DEF LockFails, AttemptFails
      <3> QED BY <3>1, StarvedFrame
    <2> QED BY <2>1, <2>2
  <1>6. ASSUME NEW p \in Proc, CopyLocks(p) PROVE Starved'
    <2>1. p # "dm" /\ st' = st /\ req'["dm"] = req["dm"] /\ pc'["dm"] = pc["dm"]
      BY <1>0, <1>6 DEF CopyLocks, Starved
    <2> QED BY <2>1, StarvedFrame
  <1>7. ASSUME NEW p \in Proc, unlock(p) PROVE Starved'
    <2>1. p # "dm" /\ req[p] \in Req
      BY <1>7 DEF unlock, Starved, IInv, AttemptsLinked
    <2>2. CASE \E n \in Node : Marked(req[p], n, "none")
      BY <1>1, <2>1, <2>2
    <2>3. CASE st' = st /\ req' = [req EXCEPT ![p] = NoReq] /\ pc' = [pc EXCEPT ![p] = "idle"]
      <3>1. st' = st /\ req'["dm"] = req["dm"] /\ pc'["dm"] = pc["dm"]
        BY <1>0, <2>1, <2>3
      <3> QED BY <3>1, StarvedFrame
    <2> QED BY <1>7, <2>2, <2>3 DEF unlock, Marked
  <1>8. ASSUME NEW r \in Req, releaseAll(r) PROVE Starved'
    <2>1. CASE \E n \in Node : Marked(r, n, "none")
      BY <1>1, <2>1
    <2>2. CASE st' = st
      <3>1. pc' = pc /\ req' = req
        BY <1>8 DEF releaseAll
      <3> QED BY <2>2, <3>1, StarvedFrame
    <2> QED BY <1>8, <2>1, <2>2 DEF releaseAll, Marked
  <1>9. ASSUME NEW r \in Req, NEW n \in Node, ReceiveGrant(r, n) PROVE Starved'
    BY <1>2, <1>9, GrantEffect
  <1>10. ASSUME NEW r \in Req, NEW n \in Node, ReceiveDenial(r, n) PROVE Starved'
    BY <1>2, <1>10, DenialEffect
  <1>11. ASSUME NEW r \in Req, NEW n \in Node, Drain(r, n) PROVE Starved'
    BY <1>1, <1>11 DEF Drain, Marked
  <1>12. ASSUME NEW r \in Req, NEW n \in Node, ServeLock(r, n) PROVE Starved'
    BY <1>1, <1>12 DEF ServeLock, Marked
  <1>13. ASSUME NEW r \in Req, NEW n \in Node, CallFails(r, n) PROVE Starved'
    BY <1>1, <1>13 DEF CallFails, Marked
  <1> QED
    BY <1>3, <1>4, <1>5, <1>6, <1>7, <1>8, <1>9, <1>10, <1>11, <1>12, <1>13
       DEF Inside, Collector

\* testNotEnoughServersForQuorum: server 4 is down, and so is server 3 until the
\* goroutine launched it.
QuorumInv ==
    /\ ip["extra"] <= 2 /\ ip["again"] <= 2
    /\ ip["main"] <= 3 => ip["extra"] = 0
    /\ ip["main"] >= 6 => ip["extra"] = 2
    /\ ip["main"] <= 9 => ip["again"] = 0
    /\ ip["main"] >= 12 => ip["again"] = 2
    /\ ip["main"] >= 2 /\ ip["main"] <= 14 => 4 \notin up
    /\ ip["main"] >= 3 /\ ip["extra"] <= 1 => 3 \notin up
    /\ ip["main"] >= 7 /\ ip["again"] <= 1 => 3 \notin up
    /\ ip["main"] = 5 /\ ip["extra"] <= 1 => Starved
    /\ ip["main"] = 11 /\ ip["again"] <= 1 => Starved

\* testServerGoingDown: the same, with servers 3 and 4 launched one after the other.
GoingDownInv ==
    /\ ip["main"] <= 7 => ip["relaunch"] = 0
    /\ ip["main"] >= 6 /\ ip["relaunch"] <= 2 => 4 \notin up
    /\ ip["main"] >= 7 /\ ip["relaunch"] <= 1 => 3 \notin up
    /\ ip["main"] = 9 /\ ip["relaunch"] <= 1 => Starved
    /\ ip["main"] >= 10 => ip["relaunch"] >= 2

\* What the steps of the scripts do to the servers and to dm.
LEMMA StarvedSteps ==
    ASSUME IInv, NEW t, NEW k
    PROVE  /\ \A n \in Node :
                 /\ Step(t, k, "kill", n) => up' = up \ {n} /\ (Starved' <=> Starved)
                 /\ Step(t, k, "launch", n) => up' = up \cup {n} /\ (Starved' <=> Starved)
           /\ Step(t, k, "lock", "dm") => up' = up /\ Starved'
           /\ Step(t, k, "locked", "dm") => up' = up /\ (Starved' <=> Starved) /\ ~Starved
           /\ Step(t, k, "unlock", "dm") => up' = up
           /\ Step(t, k, "unlocked", "dm") => up' = up
           /\ \A s : StartStep(t, k, s) => up' = up /\ (Starved' <=> Starved)
  <1>1. ASSUME UNCHANGED <<pc, req, st>> PROVE (Starved' <=> Starved)
    BY <1>1 DEF Starved
  <1>2. ASSUME NEW n \in Node, Step(t, k, "kill", n) PROVE up' = up \ {n} /\ (Starved' <=> Starved)
    BY <1>1, <1>2, Calls DEF Step, ServerCrash
  <1>3. ASSUME NEW n \in Node, Step(t, k, "launch", n) PROVE up' = up \cup {n} /\ (Starved' <=> Starved)
    BY <1>1, <1>3, Calls DEF Step, ServerRestart
  <1>4. ASSUME Step(t, k, "lock", "dm") PROVE up' = up /\ Starved'
    BY <1>4, Calls, StarvedStart DEF Step, CallLock, Broadcast, serverVars
  <1>5. ASSUME Step(t, k, "locked", "dm") PROVE up' = up /\ (Starved' <=> Starved) /\ ~Starved
    <2>1. pc["dm"] = "held" /\ UNCHANGED vars
      BY <1>5, Calls DEF Step
    <2>2. ~Starved
      BY <2>1 DEF Starved
    <2> QED BY <1>1, <2>1, <2>2 DEF vars
  <1>6. ASSUME Step(t, k, "unlock", "dm") PROVE up' = up
    BY <1>6, Calls DEF Step, Unlock, Panic, TakeOut, serverVars
  <1>7. ASSUME Step(t, k, "unlocked", "dm") PROVE up' = up
    BY <1>7, Calls DEF Step, vars
  <1>8. ASSUME NEW s, StartStep(t, k, s) PROVE up' = up /\ (Starved' <=> Starved)
    BY <1>1, <1>8 DEF StartStep, vars
  <1> QED
    BY <1>2, <1>3, <1>4, <1>5, <1>6, <1>7, <1>8

\* The steps of testNotEnoughServersForQuorum keep its invariant.
LEMMA QuorumTest ==
    ASSUME IInv, CountersOK, test = "quorum", QuorumInv, NEW t \in Thread, RunStep(t)
    PROVE  QuorumInv'
  <1>1. ip \in [Thread -> Nat] /\ Thread = {"main", "extra", "again"}
    BY DEF CountersOK, Thread, Script, Scripts, testNotEnoughServersForQuorum
  <1>2. CASE Step("main", 1, "kill", 4)
    <2>1. up' = up \ {4} /\ (Starved' <=> Starved)
      BY <1>2, StarvedSteps, Names
    <2>2. /\ ip["main"] = 1 /\ ip'["main"] = 2
          /\ ip'["extra"] = ip["extra"] /\ ip'["again"] = ip["again"]
      BY <1>1, <1>2 DEF Step
    <2> QED BY <1>1, <2>1, <2>2 DEF QuorumInv
  <1>3. CASE Step("main", 2, "kill", 3)
    <2>1. up' = up \ {3} /\ (Starved' <=> Starved)
      BY <1>3, StarvedSteps, Names
    <2>2. /\ ip["main"] = 2 /\ ip'["main"] = 3
          /\ ip'["extra"] = ip["extra"] /\ ip'["again"] = ip["again"]
      BY <1>1, <1>3 DEF Step
    <2> QED BY <1>1, <2>1, <2>2 DEF QuorumInv
  <1>4. CASE StartStep("main", 3, "extra")
    <2>1. up' = up /\ (Starved' <=> Starved)
      BY <1>4, StarvedSteps
    <2>2. /\ ip["main"] = 3 /\ ip'["main"] = 4 /\ ip'["extra"] = 1
          /\ ip'["again"] = ip["again"]
      BY <1>1, <1>4 DEF StartStep
    <2> QED BY <1>1, <2>1, <2>2 DEF QuorumInv
  <1>5. CASE Step("main", 4, "lock", "dm")
    <2>1. up' = up /\ Starved'
      BY <1>5, StarvedSteps
    <2>2. /\ ip["main"] = 4 /\ ip'["main"] = 5
          /\ ip'["extra"] = ip["extra"] /\ ip'["again"] = ip["again"]
      BY <1>1, <1>5 DEF Step
    <2> QED BY <1>1, <2>1, <2>2 DEF QuorumInv
  <1>6. CASE Step("main", 5, "locked", "dm")
    <2>1. up' = up /\ ~Starved
      BY <1>6, StarvedSteps
    <2>2. /\ ip["main"] = 5 /\ ip'["main"] = 6
          /\ ip'["extra"] = ip["extra"] /\ ip'["again"] = ip["again"]
      BY <1>1, <1>6 DEF Step
    <2> QED BY <1>1, <2>1, <2>2 DEF QuorumInv
  <1>7. CASE Step("main", 6, "kill", 3)
    <2>1. up' = up \ {3} /\ (Starved' <=> Starved)
      BY <1>7, StarvedSteps, Names
    <2>2. /\ ip["main"] = 6 /\ ip'["main"] = 7
          /\ ip'["extra"] = ip["extra"] /\ ip'["again"] = ip["again"]
      BY <1>1, <1>7 DEF Step
    <2> QED BY <1>1, <2>1, <2>2 DEF QuorumInv
  <1>8. CASE Step("main", 7, "unlock", "dm")
    <2>1. up' = up
      BY <1>8, StarvedSteps
    <2>2. /\ ip["main"] = 7 /\ ip'["main"] = 8
          /\ ip'["extra"] = ip["extra"] /\ ip'["again"] = ip["again"]
      BY <1>1, <1>8 DEF Step
    <2> QED BY <1>1, <2>1, <2>2 DEF QuorumInv
  <1>9. CASE Step("main", 8, "unlocked", "dm")
    <2>1. up' = up
      BY <1>9, StarvedSteps
    <2>2. /\ ip["main"] = 8 /\ ip'["main"] = 9
          /\ ip'["extra"] = ip["extra"] /\ ip'["again"] = ip["again"]
      BY <1>1, <1>9 DEF Step
    <2> QED BY <1>1, <2>1, <2>2 DEF QuorumInv
  <1>10. CASE StartStep("main", 9, "again")
    <2>1. up' = up /\ (Starved' <=> Starved)
      BY <1>10, StarvedSteps
    <2>2. /\ ip["main"] = 9 /\ ip'["main"] = 10 /\ ip'["again"] = 1
          /\ ip'["extra"] = ip["extra"]
      BY <1>1, <1>10 DEF StartStep
    <2> QED BY <1>1, <2>1, <2>2 DEF QuorumInv
  <1>11. CASE Step("main", 10, "lock", "dm")
    <2>1. up' = up /\ Starved'
      BY <1>11, StarvedSteps
    <2>2. /\ ip["main"] = 10 /\ ip'["main"] = 11
          /\ ip'["extra"] = ip["extra"] /\ ip'["again"] = ip["again"]
      BY <1>1, <1>11 DEF Step
    <2> QED BY <1>1, <2>1, <2>2 DEF QuorumInv
  <1>12. CASE Step("main", 11, "locked", "dm")
    <2>1. up' = up /\ ~Starved
      BY <1>12, StarvedSteps
    <2>2. /\ ip["main"] = 11 /\ ip'["main"] = 12
          /\ ip'["extra"] = ip["extra"] /\ ip'["again"] = ip["again"]
      BY <1>1, <1>12 DEF Step
    <2> QED BY <1>1, <2>1, <2>2 DEF QuorumInv
  <1>13. CASE Step("main", 12, "unlock", "dm")
    <2>1. up' = up
      BY <1>13, StarvedSteps
    <2>2. /\ ip["main"] = 12 /\ ip'["main"] = 13
          /\ ip'["extra"] = ip["extra"] /\ ip'["again"] = ip["again"]
      BY <1>1, <1>13 DEF Step
    <2> QED BY <1>1, <2>1, <2>2 DEF QuorumInv
  <1>14. CASE Step("main", 13, "unlocked", "dm")
    <2>1. up' = up
      BY <1>14, StarvedSteps
    <2>2. /\ ip["main"] = 13 /\ ip'["main"] = 14
          /\ ip'["extra"] = ip["extra"] /\ ip'["again"] = ip["again"]
      BY <1>1, <1>14 DEF Step
    <2> QED BY <1>1, <2>1, <2>2 DEF QuorumInv
  <1>15. CASE Step("main", 14, "launch", 4)
    <2>1. up' = up \cup {4} /\ (Starved' <=> Starved)
      BY <1>15, StarvedSteps, Names
    <2>2. /\ ip["main"] = 14 /\ ip'["main"] = 15
          /\ ip'["extra"] = ip["extra"] /\ ip'["again"] = ip["again"]
      BY <1>1, <1>15 DEF Step
    <2> QED BY <1>1, <2>1, <2>2 DEF QuorumInv
  <1>16. CASE Step("extra", 1, "launch", 3)
    <2>1. up' = up \cup {3} /\ (Starved' <=> Starved)
      BY <1>16, StarvedSteps, Names
    <2>2. /\ ip["extra"] = 1 /\ ip'["extra"] = 2
          /\ ip'["main"] = ip["main"] /\ ip'["again"] = ip["again"]
      BY <1>1, <1>16 DEF Step
    <2> QED BY <1>1, <2>1, <2>2 DEF QuorumInv
  <1>17. CASE Step("again", 1, "launch", 3)
    <2>1. up' = up \cup {3} /\ (Starved' <=> Starved)
      BY <1>17, StarvedSteps, Names
    <2>2. /\ ip["again"] = 1 /\ ip'["again"] = 2
          /\ ip'["main"] = ip["main"] /\ ip'["extra"] = ip["extra"]
      BY <1>1, <1>17 DEF Step
    <2> QED BY <1>1, <2>1, <2>2 DEF QuorumInv
  <1> QED
    BY <1>1, <1>2, <1>3, <1>4, <1>5, <1>6, <1>7, <1>8, <1>9, <1>10, <1>11, <1>12, <1>13, <1>14,
       <1>15, <1>16, <1>17,
       QuorumSteps

\* The steps of testServerGoingDown keep its invariant.
LEMMA GoingDownTest ==
    ASSUME IInv, CountersOK, test = "goingDown", GoingDownInv, NEW t \in Thread, RunStep(t)
    PROVE  GoingDownInv'
  <1>1. ip \in [Thread -> Nat] /\ Thread = {"main", "relaunch"}
    BY DEF CountersOK, Thread, Script, Scripts, testServerGoingDown
  <1>2. CASE Step("main", 1, "lock", "dm")
    <2>1. up' = up /\ Starved'
      BY <1>2, StarvedSteps
    <2>2. /\ ip["main"] = 1 /\ ip'["main"] = 2
          /\ ip'["relaunch"] = ip["relaunch"]
      BY <1>1, <1>2 DEF Step
    <2> QED BY <1>1, <2>1, <2>2 DEF GoingDownInv
  <1>3. CASE Step("main", 2, "locked", "dm")
    <2>1. up' = up /\ ~Starved
      BY <1>3, StarvedSteps
    <2>2. /\ ip["main"] = 2 /\ ip'["main"] = 3
          /\ ip'["relaunch"] = ip["relaunch"]
      BY <1>1, <1>3 DEF Step
    <2> QED BY <1>1, <2>1, <2>2 DEF GoingDownInv
  <1>4. CASE Step("main", 3, "unlock", "dm")
    <2>1. up' = up
      BY <1>4, StarvedSteps
    <2>2. /\ ip["main"] = 3 /\ ip'["main"] = 4
          /\ ip'["relaunch"] = ip["relaunch"]
      BY <1>1, <1>4 DEF Step
    <2> QED BY <1>1, <2>1, <2>2 DEF GoingDownInv
  <1>5. CASE Step("main", 4, "unlocked", "dm")
    <2>1. up' = up
      BY <1>5, StarvedSteps
    <2>2. /\ ip["main"] = 4 /\ ip'["main"] = 5
          /\ ip'["relaunch"] = ip["relaunch"]
      BY <1>1, <1>5 DEF Step
    <2> QED BY <1>1, <2>1, <2>2 DEF GoingDownInv
  <1>6. CASE Step("main", 5, "kill", 4)
    <2>1. up' = up \ {4} /\ (Starved' <=> Starved)
      BY <1>6, StarvedSteps, Names
    <2>2. /\ ip["main"] = 5 /\ ip'["main"] = 6
          /\ ip'["relaunch"] = ip["relaunch"]
      BY <1>1, <1>6 DEF Step
    <2> QED BY <1>1, <2>1, <2>2 DEF GoingDownInv
  <1>7. CASE Step("main", 6, "kill", 3)
    <2>1. up' = up \ {3} /\ (Starved' <=> Starved)
      BY <1>7, StarvedSteps, Names
    <2>2. /\ ip["main"] = 6 /\ ip'["main"] = 7
          /\ ip'["relaunch"] = ip["relaunch"]
      BY <1>1, <1>7 DEF Step
    <2> QED BY <1>1, <2>1, <2>2 DEF GoingDownInv
  <1>8. CASE StartStep("main", 7, "relaunch")
    <2>1. up' = up /\ (Starved' <=> Starved)
      BY <1>8, StarvedSteps
    <2>2. /\ ip["main"] = 7 /\ ip'["main"] = 8 /\ ip'["relaunch"] = 1
      BY <1>1, <1>8 DEF StartStep
    <2> QED BY <1>1, <2>1, <2>2 DEF GoingDownInv
  <1>9. CASE Step("main", 8, "lock", "dm")
    <2>1. up' = up /\ Starved'
      BY <1>9, StarvedSteps
    <2>2. /\ ip["main"] = 8 /\ ip'["main"] = 9
          /\ ip'["relaunch"] = ip["relaunch"]
      BY <1>1, <1>9 DEF Step
    <2> QED BY <1>1, <2>1, <2>2 DEF GoingDownInv
  <1>10. CASE Step("main", 9, "locked", "dm")
    <2>1. up' = up /\ ~Starved
      BY <1>10, StarvedSteps
    <2>2. /\ ip["main"] = 9 /\ ip'["main"] = 10
          /\ ip'["relaunch"] = ip["relaunch"]
      BY <1>1, <1>10 DEF Step
    <2> QED BY <1>1, <2>1, <2>2 DEF GoingDownInv
  <1>11. CASE Step("main", 10, "unlock", "dm")
    <2>1. up' = up
      BY <1>11, StarvedSteps
    <2>2. /\ ip["main"] = 10 /\ ip'["main"] = 11
          /\ ip'["relaunch"] = ip["relaunch"]
      BY <1>1, <1>11 DEF Step
    <2> QED BY <1>1, <2>1, <2>2 DEF GoingDownInv
  <1>12. CASE Step("main", 11, "unlocked", "dm")
    <2>1. up' = up
      BY <1>12, StarvedSteps
    <2>2. /\ ip["main"] = 11 /\ ip'["main"] = 12
          /\ ip'["relaunch"] = ip["relaunch"]
      BY <1>1, <1>12 DEF Step
    <2> QED BY <1>1, <2>1, <2>2 DEF GoingDownInv
  <1>13. CASE Step("relaunch", 1, "launch", 3)
    <2>1. up' = up \cup {3} /\ (Starved' <=> Starved)
      BY <1>13, StarvedSteps, Names
    <2>2. /\ ip["relaunch"] = 1 /\ ip'["relaunch"] = 2
          /\ ip'["main"] = ip["main"]
      BY <1>1, <1>13 DEF Step
    <2> QED BY <1>1, <2>1, <2>2 DEF GoingDownInv
  <1>14. CASE Step("relaunch", 2, "launch", 4)
    <2>1. up' = up \cup {4} /\ (Starved' <=> Starved)
      BY <1>14, StarvedSteps, Names
    <2>2. /\ ip["relaunch"] = 2 /\ ip'["relaunch"] = 3
          /\ ip'["main"] = ip["main"]
      BY <1>1, <1>14 DEF Step
    <2> QED BY <1>1, <2>1, <2>2 DEF GoingDownInv
  <1> QED
    BY <1>1, <1>2, <1>3, <1>4, <1>5, <1>6, <1>7, <1>8, <1>9, <1>10, <1>11, <1>12, <1>13, <1>14,
       GoingDownSteps

\* What goes on inside the calls leaves the servers as they are.
LEMMA InsideServers == Inside => up' = up /\ forgot' = forgot /\ ip' = ip
  <1>1. ASSUME NEW r \in Req, NEW n \in Node, sendRelease(r, n) PROVE up' = up /\ forgot' = forgot
    BY <1>1 DEF sendRelease, serverVars
  <1>2. ASSUME NEW p \in Proc,
               NextAttempt(p) \/ LockSucceeds(p) \/ LockFails(p) \/ CopyLocks(p) \/ unlock(p)
        PROVE  up' = up /\ forgot' = forgot
    <2>1. CASE ~unlock(p)
      BY <1>2, <2>1 DEF NextAttempt, Broadcast, LockSucceeds, LockFails, AttemptFails, CopyLocks, serverVars
    <2>2. CASE unlock(p)
      BY <2>2 DEF unlock, sendRelease, serverVars
    <2> QED BY <2>1, <2>2
  <1>3. ASSUME NEW r \in Req, Collector(r) PROVE up' = up /\ forgot' = forgot
    BY <1>1, <1>3 DEF Collector, releaseAll, ReceiveGrant, ReceiveDenial, Drain, serverVars
  <1>4. ASSUME NEW r \in Req, NEW n \in Node, ServeLock(r, n) \/ CallFails(r, n)
        PROVE  up' = up /\ forgot' = forgot
    BY <1>4 DEF ServeLock, CallFails
  <1> QED
    BY <1>2, <1>3, <1>4 DEF Inside

\* So do they keep the two invariants.
LEMMA QuorumTestsInside ==
    ASSUME IInv, CountersOK, Inside
    PROVE  /\ test = "quorum" /\ QuorumInv => QuorumInv'
           /\ test = "goingDown" /\ GoingDownInv => GoingDownInv'
  <1>1. up' = up /\ ip' = ip
    BY InsideServers
  <1>2. Starved /\ 3 \notin up /\ 4 \notin up => Starved'
    BY StarvedInside
  <1>3. ASSUME test = "quorum", QuorumInv PROVE QuorumInv'
    <2>1. ip["main"] \in Nat /\ ip["extra"] \in Nat /\ ip["again"] \in Nat
      BY <1>3 DEF CountersOK, Thread, Script, Scripts, testNotEnoughServersForQuorum
    <2> QED BY <1>1, <1>2, <1>3, <2>1 DEF QuorumInv
  <1>4. ASSUME test = "goingDown", GoingDownInv PROVE GoingDownInv'
    <2>1. ip["main"] \in Nat /\ ip["relaunch"] \in Nat
      BY <1>4 DEF CountersOK, Thread, Script, Scripts, testServerGoingDown
    <2> QED BY <1>1, <1>2, <1>4, <2>1 DEF GoingDownInv
  <1> QED
    BY <1>3, <1>4

-----------------------------------------------------------------------------
(* One server down while a lock is held: testSingleServerOverQuorumDownDuringLock. *)

\* Inside the calls, a process that waits for no lock does not begin to.
LEMMA InsideControl ==
    ASSUME IInv, Inside, NEW p \in Proc
    PROVE  /\ pc[p] = "idle" => pc'[p] = "idle"
           /\ pc[p] = "held" => pc'[p] = "held"
           /\ pc[p] \notin {"lock", "backoff", "won"} => pc'[p] \notin {"lock", "backoff", "won"}
  <1>0. pc \in [Proc -> Control]
    BY DEF IInv, TypeOK
  <1>1. ASSUME NEW q \in Proc,
               NextAttempt(q) \/ LockSucceeds(q) \/ LockFails(q) \/ CopyLocks(q) \/ unlock(q)
        PROVE  \/ pc' = pc
               \/ \E v : pc' = [pc EXCEPT ![q] = v] /\ pc[q] \in {"lock", "backoff", "won"}
               \/ pc' = [pc EXCEPT ![q] = "idle"] /\ pc[q] = "unlock"
    <2>1. CASE NextAttempt(q)
      BY <2>1 DEF NextAttempt, Broadcast
    <2>2. CASE LockSucceeds(q) \/ LockFails(q)
      BY <2>2 DEF LockSucceeds, LockFails, AttemptFails
    <2>3. CASE CopyLocks(q)
      BY <2>3 DEF CopyLocks
    <2>4. CASE unlock(q)
      BY <2>4 DEF unlock
    <2> QED BY <1>1, <2>1, <2>2, <2>3, <2>4
  <1>2. ASSUME NEW r \in Req, Collector(r) PROVE pc' = pc
    BY <1>2 DEF Collector, releaseAll, ReceiveGrant, ReceiveDenial, Drain
  <1>3. ASSUME NEW r \in Req, NEW n \in Node, ServeLock(r, n) \/ CallFails(r, n) PROVE pc' = pc
    BY <1>3 DEF ServeLock, CallFails
  <1>4. \/ pc' = pc
        \/ \E q \in Proc : \E v : pc' = [pc EXCEPT ![q] = v] /\ pc[q] \in {"lock", "backoff", "won"}
        \/ \E q \in Proc : pc' = [pc EXCEPT ![q] = "idle"] /\ pc[q] = "unlock"
    BY <1>1, <1>2, <1>3 DEF Inside
  <1> QED
    BY <1>0, <1>4

\* Server 4 has granted the attempts of dm nothing.
Parted == \A r \in Req : ownerOf[r] = "dm" => st[r][4] \notin {"granted", "locked"}

\* A new attempt changes nothing about that.
LEMMA PartedStart ==
    ASSUME IInv, Parted, NEW p \in Proc, Broadcast(p)
    PROVE  Parted'
  <1>1. PICK a \in Req :
              /\ ownerOf[a] = p /\ stage[a] = "idle" /\ \A n \in Node : st[a][n] = "none"
              /\ stage' = [stage EXCEPT ![a] = "collect"]
              /\ st' = [st EXCEPT ![a] = [n \in Node |-> "sent"]]
              /\ req' = [req EXCEPT ![p] = a]
              /\ pc' = [pc EXCEPT ![p] = "lock"]
              /\ UNCHANGED <<serverVars, mutexVars>>
    BY BroadcastEffect
  <1>2. st'[a] = [n \in Node |-> "sent"] /\ \A s \in Req : s # a => st'[s] = st[s]
    BY <1>1 DEF IInv, TypeOK
  <1> QED
    BY <1>2, Names DEF Parted

\* Neither does what goes on inside the calls, if server 4 is down or dm is not
\* waiting for an answer.
LEMMA PartedInside ==
    ASSUME IInv, Awaited, Parted, 4 \notin up \/ pc["dm"] # "lock", Inside
    PROVE  Parted'
  <1>1. ASSUME NEW r \in Req, NEW n \in Node, NEW v \in {"granted", "denied", "none"},
               st' = [st EXCEPT ![r][n] = v], v = "granted" => n \in up /\ st[r][n] = "sent"
        PROVE  Parted'
    <2>1. st'[r][n] = v /\ \A s \in Req, m \in Node : s # r \/ m # n => st'[s][m] = st[s][m]
      BY <1>1 DEF IInv, TypeOK
    <2>2. v = "granted" /\ ownerOf[r] = "dm" => n # 4
      BY <1>1 DEF Awaited, Busy
    <2> QED BY <1>1, <2>1, <2>2, Names DEF Parted
  <1>2. ASSUME NEW r \in Req, NEW n \in Node, NEW v \in {"locked", "failed"}, NEW s,
               Received(r, n, v, s), v = "locked" => st[r][n] = "granted"
        PROVE  Parted'
    <2>1. st'[r] = s /\ \A x \in Req : x # r => st'[x] = st[x]
      BY <1>2, ReplacedEntries DEF Received
    <2>2. \A m \in Node : s[m] \in {"granted", "locked"} => st[r][m] \in {"granted", "locked"}
      BY <1>2 DEF Received
    <2> QED BY <2>1, <2>2, Names DEF Parted
  <1>3. ASSUME st' = st PROVE Parted'
    BY <1>3 DEF Parted
  <1>4. ASSUME NEW p \in Proc,
               NextAttempt(p) \/ LockSucceeds(p) \/ LockFails(p) \/ CopyLocks(p)
        PROVE  Parted'
    <2>1. CASE NextAttempt(p)
      BY <2>1, PartedStart DEF NextAttempt
    <2>2. CASE LockSucceeds(p) \/ LockFails(p) \/ CopyLocks(p)
      BY <1>3, <2>2 DEF LockSucceeds, LockFails, AttemptFails, CopyLocks
    <2> QED BY <1>4, <2>1, <2>2
  <1>5. ASSUME NEW p \in Proc, unlock(p) PROVE Parted'
    <2>1. req[p] \in Req
      BY <1>5 DEF unlock, IInv, AttemptsLinked
    <2>2. st' = st \/ \E n \in Node : st' = [st EXCEPT ![req[p]][n] = "none"]
      BY <1>5 DEF unlock
    <2> QED BY <1>1, <1>3, <2>1, <2>2
  <1>6. ASSUME NEW r \in Req, releaseAll(r) PROVE Parted'
    <2>1. st' = st \/ \E n \in Node : st' = [st EXCEPT ![r][n] = "none"]
      BY <1>6 DEF releaseAll
    <2> QED BY <1>1, <1>3, <2>1
  <1>7. ASSUME NEW r \in Req, NEW n \in Node, ReceiveGrant(r, n) PROVE Parted'
    BY <1>2, <1>7, GrantEffect
  <1>8. ASSUME NEW r \in Req, NEW n \in Node, ReceiveDenial(r, n) PROVE Parted'
    BY <1>2, <1>8, DenialEffect
  <1>9. ASSUME NEW r \in Req, NEW n \in Node, Drain(r, n) PROVE Parted'
    BY <1>1, <1>9 DEF Drain
  <1>10. ASSUME NEW r \in Req, NEW n \in Node, ServeLock(r, n) PROVE Parted'
    BY <1>1, <1>10 DEF ServeLock
  <1>11. ASSUME NEW r \in Req, NEW n \in Node, CallFails(r, n) PROVE Parted'
    BY <1>1, <1>11 DEF CallFails
  <1> QED
    BY <1>4, <1>5, <1>6, <1>7, <1>8, <1>9, <1>10, <1>11 DEF Inside, Collector

\* Server 4 is down until dm has its lock, and only servers 3 and 4 are killed.
SingleDownInv ==
    /\ forgot \subseteq {3, 4}
    /\ ip["main"] <= 5 => ip["relaunch"] = 0
    /\ ip["main"] >= 2 /\ ip["relaunch"] <= 2 => 4 \notin up
    /\ ip["main"] <= 1 => pc["dm"] = "idle"
    /\ ip["main"] >= 4 => pc["dm"] \notin {"lock", "backoff", "won"}
    /\ Parted

\* What the steps of the scripts do to the servers, to dm and to its attempts.
LEMMA PartedSteps ==
    ASSUME IInv, Parted, NEW t, NEW k
    PROVE  /\ \A n \in {3, 4} : Step(t, k, "kill", n) =>
                 up' = up \ {n} /\ forgot' = forgot \cup {n} /\ pc' = pc /\ Parted'
           /\ \A n \in {3, 4} : Step(t, k, "launch", n) =>
                 up' = up \cup {n} /\ forgot' = forgot /\ pc' = pc /\ Parted'
           /\ Step(t, k, "lock", "dm") => up' = up /\ forgot' = forgot /\ Parted'
           /\ Step(t, k, "lock", "dm2") =>
                 up' = up /\ forgot' = forgot /\ pc'["dm"] = pc["dm"] /\ Parted'
           /\ \A p \in {"dm", "dm2"} : Step(t, k, "locked", p) =>
                 up' = up /\ forgot' = forgot /\ pc' = pc /\ pc[p] = "held" /\ Parted'
           /\ \A p \in {"dm", "dm2"} : Step(t, k, "unlock", p) =>
                 /\ up' = up /\ forgot' = forgot /\ Parted'
                 /\ pc'["dm"] = pc["dm"] \/ pc'["dm"] \in {"unlock", "panic"}
           /\ \A p \in {"dm", "dm2"} : Step(t, k, "unlocked", p) =>
                 up' = up /\ forgot' = forgot /\ pc' = pc /\ Parted'
           /\ \A s : StartStep(t, k, s) => up' = up /\ forgot' = forgot /\ pc' = pc /\ Parted'
  <1>0. pc \in [Proc -> Control] /\ {"dm", "dm2"} \subseteq Proc
    BY Names DEF IInv, TypeOK
  <1>1. ASSUME st' = st PROVE Parted'
    BY <1>1 DEF Parted
  <1>2. ASSUME NEW n \in {3, 4}, Step(t, k, "kill", n)
        PROVE  up' = up \ {n} /\ forgot' = forgot \cup {n} /\ pc' = pc /\ Parted'
    BY <1>1, <1>2, Calls DEF Step, ServerCrash
  <1>3. ASSUME NEW n \in {3, 4}, Step(t, k, "launch", n)
        PROVE  up' = up \cup {n} /\ forgot' = forgot /\ pc' = pc /\ Parted'
    BY <1>1, <1>3, Calls DEF Step, ServerRestart
  <1>4. ASSUME NEW p \in {"dm", "dm2"}, Step(t, k, "lock", p)
        PROVE  up' = up /\ forgot' = forgot /\ Parted' /\ (p = "dm2" => pc'["dm"] = pc["dm"])
    <2>1. Broadcast(p)
      BY <1>4, Calls DEF Step, CallLock
    <2>2. Parted'
      BY <1>0, <2>1, PartedStart
    <2>3. up' = up /\ forgot' = forgot /\ pc' = [pc EXCEPT ![p] = "lock"]
      BY <2>1 DEF Broadcast, serverVars
    <2> QED BY <1>0, <2>2, <2>3
  <1>5. ASSUME NEW p \in {"dm", "dm2"}, Step(t, k, "locked", p)
        PROVE  up' = up /\ forgot' = forgot /\ pc' = pc /\ pc[p] = "held" /\ Parted'
    BY <1>1, <1>5, Calls DEF Step, vars
  <1>6. ASSUME NEW p \in {"dm", "dm2"}, Step(t, k, "unlock", p)
        PROVE  /\ up' = up /\ forgot' = forgot /\ Parted'
               /\ pc'["dm"] = pc["dm"] \/ pc'["dm"] \in {"unlock", "panic"}
    <2>1. Unlock(p)
      BY <1>6, Calls DEF Step
    <2>2. /\ up' = up /\ forgot' = forgot /\ st' = st
          /\ \E v \in {"unlock", "panic"} : pc' = [pc EXCEPT ![p] = v]
      BY <2>1 DEF Unlock, Panic, TakeOut, serverVars
    <2> QED BY <1>0, <1>1, <2>2
  <1>7. ASSUME NEW p \in {"dm", "dm2"}, Step(t, k, "unlocked", p)
        PROVE  up' = up /\ forgot' = forgot /\ pc' = pc /\ Parted'
    BY <1>1, <1>7, Calls DEF Step, vars
  <1>8. ASSUME NEW s, StartStep(t, k, s)
        PROVE  up' = up /\ forgot' = forgot /\ pc' = pc /\ Parted'
    BY <1>1, <1>8 DEF StartStep, vars
  <1> QED
    BY <1>2, <1>3, <1>4, <1>5, <1>6, <1>7, <1>8

\* The steps of testSingleServerOverQuorumDownDuringLock keep its invariant.
LEMMA SingleDownTest ==
    ASSUME IInv, CountersOK, test = "singleDown", SingleDownInv, NEW t \in Thread, RunStep(t)
    PROVE  SingleDownInv'
  <1>1. ip \in [Thread -> Nat] /\ Thread = {"main", "relaunch"}
    BY DEF CountersOK, Thread, Script, Scripts, testSingleServerOverQuorumDownDuringLock
  <1>2. CASE Step("main", 1, "kill", 4)
    <2>1. up' = up \ {4} /\ forgot' = forgot \cup {4} /\ pc' = pc /\ Parted'
      BY <1>2, PartedSteps DEF SingleDownInv
    <2>2. /\ ip["main"] = 1 /\ ip'["main"] = 2
          /\ ip'["relaunch"] = ip["relaunch"]
      BY <1>1, <1>2 DEF Step
    <2> QED BY <1>1, <2>1, <2>2 DEF SingleDownInv
  <1>3. CASE Step("main", 2, "lock", "dm")
    <2>1. up' = up /\ forgot' = forgot /\ Parted'
      BY <1>3, PartedSteps DEF SingleDownInv
    <2>2. /\ ip["main"] = 2 /\ ip'["main"] = 3
          /\ ip'["relaunch"] = ip["relaunch"]
      BY <1>1, <1>3 DEF Step
    <2> QED BY <1>1, <2>1, <2>2 DEF SingleDownInv
  <1>4. CASE Step("main", 3, "locked", "dm")
    <2>1. up' = up /\ forgot' = forgot /\ pc' = pc /\ Parted' /\ pc["dm"] = "held"
      BY <1>4, PartedSteps DEF SingleDownInv
    <2>2. /\ ip["main"] = 3 /\ ip'["main"] = 4
          /\ ip'["relaunch"] = ip["relaunch"]
      BY <1>1, <1>4 DEF Step
    <2> QED BY <1>1, <2>1, <2>2 DEF SingleDownInv
  <1>5. CASE Step("main", 4, "kill", 3)
    <2>1. up' = up \ {3} /\ forgot' = forgot \cup {3} /\ pc' = pc /\ Parted'
      BY <1>5, PartedSteps DEF SingleDownInv
    <2>2. /\ ip["main"] = 4 /\ ip'["main"] = 5
          /\ ip'["relaunch"] = ip["relaunch"]
      BY <1>1, <1>5 DEF Step
    <2> QED BY <1>1, <2>1, <2>2 DEF SingleDownInv
  <1>6. CASE StartStep("main", 5, "relaunch")
    <2>1. up' = up /\ forgot' = forgot /\ pc' = pc /\ Parted'
      BY <1>6, PartedSteps DEF SingleDownInv
    <2>2. /\ ip["main"] = 5 /\ ip'["main"] = 6 /\ ip'["relaunch"] = 1
      BY <1>1, <1>6 DEF StartStep
    <2> QED BY <1>1, <2>1, <2>2 DEF SingleDownInv
  <1>7. CASE Step("main", 6, "lock", "dm2")
    <2>1. up' = up /\ forgot' = forgot /\ Parted' /\ pc'["dm"] = pc["dm"]
      BY <1>7, PartedSteps DEF SingleDownInv
    <2>2. /\ ip["main"] = 6 /\ ip'["main"] = 7
          /\ ip'["relaunch"] = ip["relaunch"]
      BY <1>1, <1>7 DEF Step
    <2> QED BY <1>1, <2>1, <2>2 DEF SingleDownInv
  <1>8. CASE Step("main", 7, "locked", "dm2")
    <2>1. up' = up /\ forgot' = forgot /\ pc' = pc /\ Parted' /\ pc["dm2"] = "held"
      BY <1>8, PartedSteps DEF SingleDownInv
    <2>2. /\ ip["main"] = 7 /\ ip'["main"] = 8
          /\ ip'["relaunch"] = ip["relaunch"]
      BY <1>1, <1>8 DEF Step
    <2> QED BY <1>1, <2>1, <2>2 DEF SingleDownInv
  <1>9. CASE Step("main", 8, "unlock", "dm2")
    <2>1. /\ up' = up /\ forgot' = forgot /\ Parted'
          /\ pc'["dm"] = pc["dm"] \/ pc'["dm"] \in {"unlock", "panic"}
      BY <1>9, PartedSteps DEF SingleDownInv
    <2>2. /\ ip["main"] = 8 /\ ip'["main"] = 9
          /\ ip'["relaunch"] = ip["relaunch"]
      BY <1>1, <1>9 DEF Step
    <2> QED BY <1>1, <2>1, <2>2 DEF SingleDownInv
  <1>10. CASE Step("main", 9, "unlocked", "dm2")
    <2>1. up' = up /\ forgot' = forgot /\ pc' = pc /\ Parted'
      BY <1>10, PartedSteps DEF SingleDownInv
    <2>2. /\ ip["main"] = 9 /\ ip'["main"] = 10
          /\ ip'["relaunch"] = ip["relaunch"]
      BY <1>1, <1>10 DEF Step
    <2> QED BY <1>1, <2>1, <2>2 DEF SingleDownInv
  <1>11. CASE Step("relaunch", 1, "launch", 3)
    <2>1. up' = up \cup {3} /\ forgot' = forgot /\ pc' = pc /\ Parted'
      BY <1>11, PartedSteps DEF SingleDownInv
    <2>2. /\ ip["relaunch"] = 1 /\ ip'["relaunch"] = 2
          /\ ip'["main"] = ip["main"]
      BY <1>1, <1>11 DEF Step
    <2> QED BY <1>1, <2>1, <2>2 DEF SingleDownInv
  <1>12. CASE Step("relaunch", 2, "launch", 4)
    <2>1. up' = up \cup {4} /\ forgot' = forgot /\ pc' = pc /\ Parted'
      BY <1>12, PartedSteps DEF SingleDownInv
    <2>2. /\ ip["relaunch"] = 2 /\ ip'["relaunch"] = 3
          /\ ip'["main"] = ip["main"]
      BY <1>1, <1>12 DEF Step
    <2> QED BY <1>1, <2>1, <2>2 DEF SingleDownInv
  <1>13. CASE Step("relaunch", 3, "unlock", "dm")
    <2>1. /\ up' = up /\ forgot' = forgot /\ Parted'
          /\ pc'["dm"] = pc["dm"] \/ pc'["dm"] \in {"unlock", "panic"}
      BY <1>13, PartedSteps DEF SingleDownInv
    <2>2. /\ ip["relaunch"] = 3 /\ ip'["relaunch"] = 4
          /\ ip'["main"] = ip["main"]
      BY <1>1, <1>13 DEF Step
    <2> QED BY <1>1, <2>1, <2>2 DEF SingleDownInv
  <1>14. CASE Step("relaunch", 4, "unlocked", "dm")
    <2>1. up' = up /\ forgot' = forgot /\ pc' = pc /\ Parted'
      BY <1>14, PartedSteps DEF SingleDownInv
    <2>2. /\ ip["relaunch"] = 4 /\ ip'["relaunch"] = 5
          /\ ip'["main"] = ip["main"]
      BY <1>1, <1>14 DEF Step
    <2> QED BY <1>1, <2>1, <2>2 DEF SingleDownInv
  <1> QED
    BY <1>1, <1>2, <1>3, <1>4, <1>5, <1>6, <1>7, <1>8, <1>9, <1>10, <1>11, <1>12, <1>13, <1>14,
       SingleDownSteps

\* So does what goes on inside the calls.
LEMMA SingleDownInside ==
    ASSUME IInv, Awaited, CountersOK, test = "singleDown", SingleDownInv, Inside
    PROVE  SingleDownInv'
  <1>1. ip["main"] \in Nat /\ ip["relaunch"] \in Nat
    BY DEF CountersOK, Thread, Script, Scripts, testSingleServerOverQuorumDownDuringLock
  <1>2. up' = up /\ forgot' = forgot /\ ip' = ip
    BY InsideServers
  <1>3. 4 \notin up \/ pc["dm"] # "lock"
    BY <1>1 DEF SingleDownInv
  <1>4. Parted'
    BY <1>3, PartedInside DEF SingleDownInv
  <1>5. /\ pc["dm"] = "idle" => pc'["dm"] = "idle"
        /\ pc["dm"] \notin {"lock", "backoff", "won"} => pc'["dm"] \notin {"lock", "backoff", "won"}
    BY InsideControl, Names
  <1> QED
    BY <1>1, <1>2, <1>4, <1>5 DEF SingleDownInv

\* A writer with a DRWMutex of its own that is in has a quorum of its own.
LEMMA OwnQuorum ==
    ASSUME IInv, OwnStored, NEW p \in Proc \ Reader, Holding(p)
    PROVE  \E r \in Req : ownerOf[r] = p /\ quorumMet(r)
  <1>1. CASE pc[p] = "won"
    <2>1. req[p] \in Req /\ ownerOf[req[p]] = p /\ stage[req[p]] = "won"
      BY <1>1 DEF IInv, AttemptsLinked
    <2> QED BY <2>1 DEF IInv, QuorumKept
  <1>2. CASE pc[p] = "held"
    <2>1. p \in Mutex /\ writeLocks[p] \in Req
      BY <1>2, Names DEF IInv, OwnStored, TypeOK
    <2>2. stage[writeLocks[p]] = "held" /\ dmOf[ownerOf[writeLocks[p]]] = p
      BY <2>1, ProcAssumption DEF IInv, ArraysLinked, HeldIn
    <2>3. ownerOf[writeLocks[p]] \in Proc
      BY <2>1, ProcAssumption
    <2> QED BY <2>1, <2>2, <2>3, Names DEF IInv, QuorumKept
  <1> QED
    BY <1>1, <1>2 DEF Holding

\* "not granted too early": dm has servers 1 and 2, and dm2 would need one of them.
LEMMA SingleDownWaits ==
    ASSUME IInv, OwnStored, SingleDownInv
    PROVE  ~(Holding("dm") /\ Holding("dm2"))
  <1> SUFFICES ASSUME Holding("dm"), Holding("dm2") PROVE FALSE
    OBVIOUS
  <1>1. PICK r \in Req : ownerOf[r] = "dm" /\ quorumMet(r)
    BY OwnQuorum, Names
  <1>2. PICK s \in Req : ownerOf[s] = "dm2" /\ quorumMet(s)
    BY OwnQuorum, Names
  <1>3. r # s /\ ~IsReadLock(r) /\ ~IsReadLock(s)
    BY <1>1, <1>2, Names DEF IsReadLock
  <1>4. \A n \in {1, 2} : st[r][n] = "locked"
    <2>1. st[r][4] # "locked"
      BY <1>1 DEF SingleDownInv, Parted
    <2>2. ASSUME NEW n \in Node, n # 4, st[r][n] # "locked" PROVE FALSE
      BY <1>1, <1>3, <2>1, <2>2, TwoAreTooFew, Names
    <2> QED BY <2>2, Names
  <1>5. ASSUME st[s][1] # "locked", st[s][2] # "locked" PROVE FALSE
    BY <1>2, <1>3, <1>5, TwoAreTooFew, Names
  <1>6. PICK n \in {1, 2} : st[s][n] = "locked"
    BY <1>5
  <1>7. n \in Node \ forgot /\ r \in Outstanding(n) /\ s \in Outstanding(n)
    BY <1>4, <1>6, Names DEF SingleDownInv, Outstanding
  <1> QED
    BY <1>3, <1>7 DEF IInv, GrantsBacked, Backed

-----------------------------------------------------------------------------
(* Locks of clients that have crashed. *)

\* Nothing is left of attempt r.
Spent(r) == stage[r] = "idle" /\ \A n \in Node : st[r][n] = "none"

\* The clients of the stale locks are gone, their locks on servers 1 and 2 are not,
\* and dm has been granted nothing there.
Blocked ==
    /\ \A p \in Proc : pc[p] = "idle" \/ (p = "dm" /\ pc[p] \in {"lock", "backoff"})
    /\ \A r \in Req : ownerOf[r] # "dm" => Spent(r)
    /\ \A r \in Req, n \in {1, 2} : st[r][n] \notin {"granted", "locked"}
    /\ \A n \in {1, 2} : ~Vacant(lockMap[n])

\* What leaves all that alone.
LEMMA BlockedFrame ==
    ASSUME Blocked,
           \A p \in Proc : pc'[p] = pc[p] \/ (p = "dm" /\ pc'[p] \in {"lock", "backoff"}),
           \A s \in Req : ownerOf[s] # "dm" => stage'[s] = stage[s] /\ \A m \in Node : st'[s][m] = st[s][m],
           \A s \in Req, n \in {1, 2} :
               st'[s][n] \in {"granted", "locked"} => st[s][n] \in {"granted", "locked"},
           \A n \in {1, 2} : lockMap'[n] = lockMap[n]
    PROVE  Blocked'
  <1>1. \A p \in Proc : pc'[p] = "idle" \/ (p = "dm" /\ pc'[p] \in {"lock", "backoff"})
    BY DEF Blocked
  <1>2. \A s \in Req : ownerOf[s] # "dm" => Spent(s)'
    BY DEF Blocked, Spent
  <1>3. \A s \in Req, n \in {1, 2} : st'[s][n] \notin {"granted", "locked"}
    BY DEF Blocked
  <1>4. \A n \in {1, 2} : ~Vacant(lockMap'[n])
    BY DEF Blocked
  <1> QED
    BY <1>1, <1>2, <1>3, <1>4 DEF Blocked

\* A release concerns the table of one server.
LEMMA ReleaseElsewhere ==
    ASSUME IInv, NEW r \in Req, NEW n \in Node, sendRelease(r, n), NEW m \in Node, m # n
    PROVE  lockMap'[m] = lockMap[m]
  <1>1. lockMap \in [Node -> Table]
    BY DEF IInv, TypeOK
  <1>2. lockMap' = lockMap \/ \E t : lockMap' = [lockMap EXCEPT ![n] = t]
    BY DEF sendRelease, serverVars
  <1> QED
    BY <1>1, <1>2

\* dm calls Lock, or tries again.
LEMMA BlockedStart ==
    ASSUME IInv, Blocked, Broadcast("dm")
    PROVE  Blocked'
  <1>0. pc \in [Proc -> Control] /\ stage \in [Req -> Stage] /\ 1 \in Node /\ 2 \in Node
    BY Names DEF IInv, TypeOK
  <1>1. PICK a \in Req :
              /\ ownerOf[a] = "dm" /\ stage[a] = "idle" /\ \A n \in Node : st[a][n] = "none"
              /\ stage' = [stage EXCEPT ![a] = "collect"]
              /\ st' = [st EXCEPT ![a] = [n \in Node |-> "sent"]]
              /\ req' = [req EXCEPT !["dm"] = a]
              /\ pc' = [pc EXCEPT !["dm"] = "lock"]
              /\ UNCHANGED <<serverVars, mutexVars>>
    BY Names, BroadcastEffect
  <1>2. (\A n \in Node : st'[a][n] = "sent") /\ \A s \in Req : s # a => st'[s] = st[s]
    BY <1>1 DEF IInv, TypeOK
  <1>3. \A p \in Proc : pc'[p] = pc[p] \/ (p = "dm" /\ pc'[p] \in {"lock", "backoff"})
    BY <1>0, <1>1
  <1>4. \A s \in Req : ownerOf[s] # "dm" => stage'[s] = stage[s] /\ \A m \in Node : st'[s][m] = st[s][m]
    BY <1>0, <1>1, <1>2
  <1>5. \A s \in Req, n \in {1, 2} : st'[s][n] \in {"granted", "locked"} => st[s][n] \in {"granted", "locked"}
    BY <1>0, <1>2
  <1>6. \A n \in {1, 2} : lockMap'[n] = lockMap[n]
    BY <1>1 DEF serverVars
  <1> QED
    BY <1>3, <1>4, <1>5, <1>6, BlockedFrame

\* What goes on inside the calls does not free servers 1 and 2.
LEMMA BlockedInside ==
    ASSUME IInv, Blocked, Inside
    PROVE  Blocked'
  <1>0. /\ pc \in [Proc -> Control] /\ stage \in [Req -> Stage] /\ lockMap \in [Node -> Table]
        /\ "dm" \in Proc /\ 1 \in Node /\ 2 \in Node
    BY Names DEF IInv, TypeOK
  <1>1. ASSUME NEW r \in Req, NEW n \in Node, NEW v \in {"granted", "denied", "none"},
               Marked(r, n, v), v = "granted" => n \notin {1, 2}, ~Spent(r),
               \A m \in {1, 2} : lockMap'[m] = lockMap[m]
        PROVE  Blocked'
    <2>1. st' = [st EXCEPT ![r][n] = v] /\ pc' = pc /\ stage' = stage
      BY <1>1 DEF Marked
    <2>2. st'[r][n] = v /\ \A s \in Req, m \in Node : s # r \/ m # n => st'[s][m] = st[s][m]
      BY <2>1 DEF IInv, TypeOK
    <2>3. ownerOf[r] = "dm"
      BY <1>1 DEF Blocked
    <2>4. \A s \in Req : ownerOf[s] # "dm" => stage'[s] = stage[s] /\ \A m \in Node : st'[s][m] = st[s][m]
      BY <2>1, <2>2, <2>3
    <2>5. \A s \in Req, m \in {1, 2} :
             st'[s][m] \in {"granted", "locked"} => st[s][m] \in {"granted", "locked"}
      BY <1>0, <1>1, <2>2
    <2> QED BY <1>1, <2>1, <2>4, <2>5, BlockedFrame
  <1>2. ASSUME NEW r \in Req, NEW n \in Node, NEW v \in {"locked", "failed"}, NEW s,
               stage[r] = "collect", Received(r, n, v, s), v = "locked" => st[r][n] = "granted"
        PROVE  Blocked'
    <2>1. st'[r] = s /\ \A x \in Req : x # r => st'[x] = st[x]
      BY <1>2, ReplacedEntries DEF Received
    <2>2. \A m \in Node : s[m] \in {"granted", "locked"} => st[r][m] \in {"granted", "locked"}
      BY <1>2 DEF Received
    <2>3. ownerOf[r] = "dm"
      BY <1>2 DEF Blocked, Spent
    <2>4. pc' = pc /\ lockMap' = lockMap /\ \A x \in Req : x # r => stage'[x] = stage[x]
      BY <1>0, <1>2 DEF Received, serverVars
    <2>5. \A x \in Req : ownerOf[x] # "dm" => stage'[x] = stage[x] /\ \A m \in Node : st'[x][m] = st[x][m]
      BY <2>1, <2>3, <2>4
    <2>6. \A x \in Req, m \in {1, 2} :
             st'[x][m] \in {"granted", "locked"} => st[x][m] \in {"granted", "locked"}
      BY <1>0, <2>1, <2>2
    <2> QED BY <2>4, <2>5, <2>6, BlockedFrame
  <1>3. ASSUME NEW p \in Proc, NextAttempt(p) PROVE Blocked'
    <2>1. p = "dm" /\ Broadcast(p)
      BY <1>3 DEF NextAttempt, Blocked
    <2> QED BY <2>1, BlockedStart
  <1>4. ASSUME NEW p \in Proc, LockSucceeds(p) PROVE FALSE
    <2>1. p = "dm" /\ pc[p] = "lock" /\ quorumMet(req[p])
      BY <1>4 DEF LockSucceeds, Blocked
    <2>2. req[p] \in Req /\ ~IsReadLock(req[p])
      BY <2>1, Names DEF IInv, AttemptsLinked, IsReadLock
    <2>3. st[req[p]][1] # "locked" /\ st[req[p]][2] # "locked"
      BY <2>2 DEF Blocked
    <2> QED BY <1>0, <2>1, <2>2, <2>3, TwoAreTooFew
  <1>5. ASSUME NEW p \in Proc, LockFails(p) PROVE Blocked'
    <2>1. p = "dm" /\ req[p] \in Req /\ ownerOf[req[p]] = "dm"
      BY <1>5 DEF LockFails, AttemptFails, Blocked, IInv, AttemptsLinked
    <2>2. /\ pc' = [pc EXCEPT !["dm"] = "backoff"] /\ st' = st /\ lockMap' = lockMap
          /\ stage' = [stage EXCEPT ![req[p]] = "idle"]
      BY <1>5, <2>1 DEF LockFails, AttemptFails, serverVars
    <2>3. \A q \in Proc : pc'[q] = pc[q] \/ (q = "dm" /\ pc'[q] \in {"lock", "backoff"})
      BY <1>0, <2>2
    <2>4. \A s \in Req : ownerOf[s] # "dm" => stage'[s] = stage[s]
      BY <1>0, <2>1, <2>2
    <2> QED BY <2>2, <2>3, <2>4, BlockedFrame
  <1>6. ASSUME NEW p \in Proc, CopyLocks(p) \/ unlock(p) PROVE FALSE
    BY <1>6 DEF CopyLocks, unlock, Blocked
  <1>7. ASSUME NEW r \in Req, releaseAll(r) PROVE Blocked'
    <2>0. stage[r] = "release" /\ ~Spent(r)
      BY <1>7 DEF releaseAll, Spent
    <2>1. ASSUME NEW n \in Node, FirstLocked(r, n), sendRelease(r, n), Marked(r, n, "none")
          PROVE  Blocked'
      <3>1. n \notin {1, 2}
        BY <2>1 DEF FirstLocked, LockedNodes, Blocked
      <3>2. \A m \in {1, 2} : lockMap'[m] = lockMap[m]
        BY <1>0, <2>1, <3>1, ReleaseElsewhere
      <3> QED BY <1>1, <2>0, <2>1, <3>2
    <2>2. CASE st' = st /\ stage' = [stage EXCEPT ![r] = "decided"] /\ lockMap' = lockMap
      <3>1. ownerOf[r] = "dm" /\ pc' = pc
        BY <1>7, <2>0 DEF Blocked, releaseAll
      <3>2. \A s \in Req : ownerOf[s] # "dm" => stage'[s] = stage[s]
        BY <1>0, <2>2, <3>1
      <3> QED BY <2>2, <3>1, <3>2, BlockedFrame
    <2> QED BY <1>7, <2>1, <2>2 DEF releaseAll, Marked, serverVars
  <1>8. ASSUME NEW r \in Req, NEW n \in Node, ReceiveGrant(r, n) PROVE Blocked'
    BY <1>2, <1>8, GrantEffect
  <1>9. ASSUME NEW r \in Req, NEW n \in Node, ReceiveDenial(r, n) PROVE Blocked'
    BY <1>2, <1>9, DenialEffect
  <1>10. ASSUME NEW r \in Req, NEW n \in Node, Drain(r, n) PROVE Blocked'
    <2>1. Marked(r, n, "none") /\ ~Spent(r)
      BY <1>10 DEF Drain, Marked, Spent
    <2>2. CASE st[r][n] = "granted" /\ sendRelease(r, n)
      <3>1. n \notin {1, 2}
        BY <2>2 DEF Blocked
      <3>2. \A m \in {1, 2} : lockMap'[m] = lockMap[m]
        BY <1>0, <2>2, <3>1, ReleaseElsewhere
      <3> QED BY <1>1, <2>1, <3>2
    <2>3. CASE UNCHANGED serverVars
      BY <1>1, <2>1, <2>3 DEF serverVars
    <2> QED BY <1>10, <2>2, <2>3 DEF Drain
  <1>11. ASSUME NEW r \in Req, NEW n \in Node, ServeLock(r, n) PROVE Blocked'
    <2>1. st[r][n] = "sent" /\ ~Spent(r)
      BY <1>11 DEF ServeLock, Spent
    <2>2. ~IsReadLock(r)
      BY <2>1, Names DEF Blocked, IsReadLock
    <2>3. \A m \in Node : m # n => lockMap'[m] = lockMap[m]
      BY <1>0, <1>11 DEF ServeLock
    <2>4. CASE n \in {1, 2}
      <3>1. ~Grants(lockMap[n], IsReadLock(r))
        BY <2>2, <2>4 DEF Blocked, Grants
      <3>2. lockMap'[n] = lockMap[n] /\ Marked(r, n, "denied")
        BY <1>0, <1>11, <3>1 DEF ServeLock, AfterLock, Marked
      <3> QED BY <1>0, <1>1, <2>1, <2>3, <3>2
    <2>5. CASE n \notin {1, 2}
      <3>1. \E v \in {"granted", "denied"} : Marked(r, n, v)
        BY <1>11 DEF ServeLock, Marked
      <3>2. \A m \in {1, 2} : lockMap'[m] = lockMap[m]
        BY <1>0, <2>3, <2>5
      <3> QED BY <1>1, <2>1, <2>5, <3>1, <3>2
    <2> QED BY <2>4, <2>5
  <1>12. ASSUME NEW r \in Req, NEW n \in Node, CallFails(r, n) PROVE Blocked'
    <2>1. Marked(r, n, "denied") /\ ~Spent(r) /\ lockMap' = lockMap
      BY <1>12 DEF CallFails, Marked, Spent
    <2> QED BY <1>1, <2>1
  <1> QED
    BY <1>3, <1>4, <1>5, <1>6, <1>7, <1>8, <1>9, <1>10, <1>11, <1>12 DEF Inside, Collector

\* As many servers as the lock of client p takes, none of which is down.
Sure(p) == IF p \in Reader THEN {1, 2} ELSE {1, 2, 3}

\* None of them has refused attempt r.
Welcome(r) ==
    /\ stage[r] \in {"collect", "decided", "won", "held"}
    /\ \A n \in Sure(ownerOf[r]) :
          \/ st[r][n] = "locked"
          \/ stage[r] = "collect" /\ st[r][n] \in {"sent", "granted"}

\* Only the clients of C have called Lock so far, one attempt each was enough for
\* them, and the tables have nothing that would refuse them.
Visitors(C) ==
    /\ \A p \in Proc : pc[p] = "idle" \/ (p \in C /\ pc[p] \in {"lock", "won", "held"})
    /\ \A r \in Req : Spent(r) \/ (ownerOf[r] \in C /\ Welcome(r) /\ pc[ownerOf[r]] # "idle")
    /\ \A r, s \in Req : ownerOf[r] = ownerOf[s] /\ ~Spent(r) /\ ~Spent(s) => r = s
    /\ C \subseteq Reader => \A n \in Node : lockMap[n].writer = NoUid
    /\ ~(C \subseteq Reader) =>
          \A n \in {1, 2, 3} :
              (\A r \in Req : st[r][n] \notin {"granted", "locked"}) => Vacant(lockMap[n])

\* The two groups of clients of the stale locks.
Group == {{"stale"}, {"reader3", "reader4"}}

\* The size of an interval that starts at 1.
LEMMA FirstNumbers == \A m \in Nat : IsFiniteSet(1..m) /\ Cardinality(1..m) = m
  <1> SUFFICES ASSUME NEW m \in Nat PROVE IsFiniteSet(1..m) /\ Cardinality(1..m) = m
    OBVIOUS
  <1>1. IsFiniteSet(1..m) /\ Cardinality(1..m) = IF 1 > m THEN 0 ELSE m - 1 + 1
    BY FS_Interval
  <1> QED
    BY <1>1

\* Readers or writers, and the sure servers are a quorum.
LEMMA GroupFacts ==
    ASSUME NEW C \in Group, NEW r \in Req, ownerOf[r] \in C
    PROVE  /\ Sure(ownerOf[r]) \subseteq Node
           /\ {1, 2} \subseteq Sure(ownerOf[r])
           /\ IsReadLock(r) <=> C \subseteq Reader
           /\ ~(C \subseteq Reader) => C = {"stale"} /\ Sure(ownerOf[r]) = {1, 2, 3}
           /\ IsFiniteSet(Sure(ownerOf[r])) /\ Cardinality(Sure(ownerOf[r])) = Quorum(r)
           /\ Quorum(r) \in {2, 3}
  <1>1. CASE C = {"stale"}
    <2>1. ownerOf[r] = "stale" /\ ~IsReadLock(r) /\ ~(C \subseteq Reader) /\ Sure(ownerOf[r]) = {1, 2, 3}
      BY <1>1, Names DEF IsReadLock, Sure
    <2>2. IsFiniteSet(1..3) /\ Cardinality(1..3) = 3
      BY FirstNumbers
    <2>3. {1, 2, 3} = 1..3
      OBVIOUS
    <2> QED BY <1>1, <2>1, <2>2, <2>3, Names DEF Quorum
  <1>2. CASE C = {"reader3", "reader4"}
    <2>1. IsReadLock(r) /\ C \subseteq Reader /\ Sure(ownerOf[r]) = {1, 2}
      BY <1>2, Names DEF IsReadLock, Sure
    <2>2. IsFiniteSet(1..2) /\ Cardinality(1..2) = 2
      BY FirstNumbers
    <2>3. {1, 2} = 1..2
      OBVIOUS
    <2> QED BY <2>1, <2>2, <2>3, Names DEF Quorum
  <1> QED
    BY <1>1, <1>2 DEF Group

\* Locked at the sure servers means that the quorum is met.
LEMMA SureQuorum ==
    ASSUME NEW C \in Group, NEW r \in Req, ownerOf[r] \in C,
           \A n \in Sure(ownerOf[r]) : st[r][n] = "locked"
    PROVE  quorumMet(r)
  <1> DEFINE S == Sure(ownerOf[r])
             L == LockedNodes(r)
  <1>1. IsFiniteSet(S) /\ Cardinality(S) = Quorum(r) /\ Quorum(r) \in {2, 3} /\ S \subseteq L
    BY GroupFacts DEF LockedNodes
  <1>2. IsFiniteSet(L)
    BY NodeFinite, FS_Subset DEF LockedNodes
  <1> HIDE DEF S, L
  <1>3. Cardinality(S) <= Cardinality(L)
    BY <1>1, <1>2, FS_Subset
  <1>4. Cardinality(L) \in Nat
    BY <1>2, FS_CardinalityType
  <1> QED
    BY <1>1, <1>3, <1>4 DEF L, quorumMet

\* The denials of the other servers are not enough for lock() to give up.
LEMMA SureFailures ==
    ASSUME NEW C \in Group, NEW r \in Req, ownerOf[r] \in C,
           NEW F \in SUBSET Node, \A n \in Sure(ownerOf[r]) : n \notin F
    PROVE  ~(Cardinality(F) > dNodeCount - Quorum(r))
  <1> DEFINE S == Sure(ownerOf[r])
  <1>1. IsFiniteSet(S) /\ Cardinality(S) = Quorum(r) /\ Quorum(r) \in {2, 3} /\ S \in SUBSET Node
    BY GroupFacts
  <1>2. IsFiniteSet(F) /\ IsFiniteSet(F \cap S)
    BY NodeFinite, FS_Subset
  <1>3. F \cap S = {}
    OBVIOUS
  <1> HIDE DEF S
  <1>4. Cardinality(F) + Cardinality(S) - dNodeCount <= Cardinality(F \cap S)
    BY <1>1, Overlap
  <1>5. Cardinality(F \cap S) = 0
    BY <1>3, FS_EmptySet
  <1>6. Cardinality(F) \in Nat
    BY <1>2, FS_CardinalityType
  <1> QED
    BY <1>1, <1>4, <1>5, <1>6, QuorumNat

\* A step that touches attempt r, which stays welcome, and tables that r may touch.
LEMMA VisitorsFrame ==
    ASSUME NEW C \in Group, Visitors(C), NEW r \in Req, ~Spent(r),
           \A p \in Proc : pc'[p] = pc[p] \/ (p \in C /\ pc'[p] \in {"lock", "won", "held"}),
           \A s \in Req : s # r => stage'[s] = stage[s] /\ st'[s] = st[s],
           Welcome(r)', ownerOf[r] \in C, pc'[ownerOf[r]] # "idle",
           \A s \in Req : pc[ownerOf[s]] # "idle" => pc'[ownerOf[s]] # "idle",
           C \subseteq Reader => \A n \in Node : lockMap'[n].writer = NoUid,
           ~(C \subseteq Reader) =>
              \A n \in {1, 2, 3} :
                 \/ st'[r][n] \in {"granted", "locked"}
                 \/ lockMap'[n] = lockMap[n] /\ st[r][n] \notin {"granted", "locked"}
    PROVE  Visitors(C)'
  <1>1. \A p \in Proc : pc'[p] = "idle" \/ (p \in C /\ pc'[p] \in {"lock", "won", "held"})
    BY DEF Visitors
  <1>2. \A s \in Req : s # r => (Spent(s)' <=> Spent(s)) /\ (Welcome(s)' <=> Welcome(s))
    BY DEF Spent, Welcome
  <1>3. \A s \in Req : Spent(s)' \/ (ownerOf[s] \in C /\ Welcome(s)' /\ pc'[ownerOf[s]] # "idle")
    BY <1>2 DEF Visitors
  <1>4. ~Spent(r)'
    BY DEF Welcome, Spent
  <1>5. \A s, z \in Req : ownerOf[s] = ownerOf[z] /\ ~Spent(s)' /\ ~Spent(z)' => s = z
    BY <1>2, <1>4 DEF Visitors
  <1>6. ASSUME ~(C \subseteq Reader), NEW n \in {1, 2, 3},
               \A s \in Req : st'[s][n] \notin {"granted", "locked"}
        PROVE  Vacant(lockMap'[n])
    <2>1. lockMap'[n] = lockMap[n] /\ st[r][n] \notin {"granted", "locked"}
      BY <1>6
    <2>2. \A s \in Req : st[s][n] \notin {"granted", "locked"}
      BY <1>6, <2>1
    <2> QED BY <1>6, <2>1, <2>2 DEF Visitors
  <1> QED
    BY <1>1, <1>3, <1>5, <1>6 DEF Visitors

\* A release of a read lock, and a new read lock, leave the writer alone.
LEMMA WriterKept ==
    ASSUME NEW t \in Table, NEW u \in Uid
    PROVE  AfterUnlock(t, u, TRUE).writer = t.writer /\ AfterLock(t, u, TRUE).writer = t.writer
  BY DEF AfterUnlock, AfterLock, Grants, Table

\* What goes on inside the calls: the clients of the group get what they ask for
\* at the first attempt.
LEMMA VisitorsInside ==
    ASSUME NEW C \in Group, IInv, Visitors(C), {1, 2} \subseteq up, C = {"stale"} => 3 \in up, Inside
    PROVE  Visitors(C)'
  <1>0. /\ pc \in [Proc -> Control] /\ stage \in [Req -> Stage] /\ lockMap \in [Node -> Table]
        /\ ownerOf \in [Req -> Proc] /\ \A r \in Req : UidOf(r) \in Uid
        /\ {1, 2, 3} \subseteq Node
    BY Names, ProcAssumption DEF IInv, TypeOK, UidOf
  <1>1. ASSUME NEW r \in Req, ~Spent(r)
        PROVE  /\ ownerOf[r] \in C /\ ownerOf[r] \in Proc /\ Welcome(r) /\ pc[ownerOf[r]] # "idle"
               /\ Sure(ownerOf[r]) \subseteq Node /\ Sure(ownerOf[r]) \subseteq up
               /\ IsReadLock(r) <=> C \subseteq Reader
               /\ ~(C \subseteq Reader) => C = {"stale"} /\ Sure(ownerOf[r]) = {1, 2, 3}
    <2>1. ownerOf[r] \in C /\ Welcome(r) /\ pc[ownerOf[r]] # "idle" /\ ownerOf[r] \in Proc
      BY <1>0, <1>1 DEF Visitors
    <2>2. /\ Sure(ownerOf[r]) \subseteq Node
          /\ IsReadLock(r) <=> C \subseteq Reader
          /\ ~(C \subseteq Reader) => C = {"stale"} /\ Sure(ownerOf[r]) = {1, 2, 3}
      BY <2>1, GroupFacts
    <2>3. Sure(ownerOf[r]) \subseteq up
      <3>1. CASE C \subseteq Reader
        <4>1. Sure(ownerOf[r]) = {1, 2}
          BY <2>1, <3>1 DEF Sure
        <4> QED BY <4>1
      <3>2. CASE ~(C \subseteq Reader)
        <4>1. Sure(ownerOf[r]) = {1, 2, 3} /\ 3 \in up
          BY <2>2, <3>2
        <4> QED BY <4>1
      <3> QED BY <3>1, <3>2
    <2> QED BY <2>1, <2>2, <2>3
  <1>2. ASSUME NEW r \in Req, NEW n \in Node, NEW v \in {"granted", "denied", "none"},
               Marked(r, n, v), ~Spent(r),
               n \in Sure(ownerOf[r]) => v = "granted" /\ stage[r] = "collect" /\ st[r][n] = "sent",
               \A m \in Node : m # n => lockMap'[m] = lockMap[m],
               C \subseteq Reader => lockMap'[n].writer = lockMap[n].writer
        PROVE  Visitors(C)'
    <2>1. st' = [st EXCEPT ![r][n] = v] /\ pc' = pc /\ stage' = stage
      BY <1>2 DEF Marked
    <2>2. st'[r][n] = v /\ \A s \in Req, m \in Node : s # r \/ m # n => st'[s][m] = st[s][m]
      BY <2>1 DEF IInv, TypeOK
    <2>3. \A s \in Req : s # r => st'[s] = st[s]
      BY <2>1 DEF IInv, TypeOK
    <2>4. Welcome(r)'
      <3>1. stage'[r] \in {"collect", "decided", "won", "held"}
        BY <1>1, <1>2, <2>1 DEF Welcome
      <3>2. ASSUME NEW m \in Sure(ownerOf[r])
            PROVE  \/ st'[r][m] = "locked"
                   \/ stage'[r] = "collect" /\ st'[r][m] \in {"sent", "granted"}
        <4>1. CASE m = n
          BY <1>2, <2>1, <2>2, <3>2, <4>1
        <4>2. CASE m # n
          <5>1. st'[r][m] = st[r][m]
            BY <1>1, <1>2, <2>2, <3>2, <4>2
          <5> QED BY <1>1, <1>2, <2>1, <3>2, <5>1 DEF Welcome
        <4> QED BY <4>1, <4>2
      <3> QED BY <3>1, <3>2 DEF Welcome
    <2>5. C \subseteq Reader => \A m \in Node : lockMap'[m].writer = NoUid
      BY <1>2 DEF Visitors
    <2>6. ASSUME ~(C \subseteq Reader), NEW m \in {1, 2, 3}
          PROVE  \/ st'[r][m] \in {"granted", "locked"}
                 \/ lockMap'[m] = lockMap[m] /\ st[r][m] \notin {"granted", "locked"}
      <3>1. m \in Sure(ownerOf[r]) /\ m \in Node
        BY <1>0, <1>1, <1>2, <2>6
      <3>2. CASE m = n
        BY <1>2, <2>2, <3>1, <3>2
      <3>3. CASE m # n
        BY <1>2, <2>2, <3>1, <3>3
      <3> QED BY <3>2, <3>3
    <2>7. ownerOf[r] \in C /\ pc'[ownerOf[r]] # "idle"
      BY <1>1, <1>2, <2>1
    <2> QED BY <1>2, <2>1, <2>3, <2>4, <2>5, <2>6, <2>7, VisitorsFrame
  <1>3. ASSUME NEW r \in Req, NEW n \in Node, NEW v \in {"locked", "failed"}, NEW z,
               stage[r] = "collect", Received(r, n, v, z),
               st[r][n] = (IF v = "locked" THEN "granted" ELSE "denied")
        PROVE  Visitors(C)'
    <2>0. ~Spent(r)
      BY <1>3 DEF Spent
    <2>1. st'[r] = z /\ \A x \in Req : x # r => st'[x] = st[x]
      BY <1>3, ReplacedEntries DEF Received
    <2>2. pc' = pc /\ lockMap' = lockMap /\ \A x \in Req : x # r => stage'[x] = stage[x]
      BY <1>0, <1>3 DEF Received, serverVars
    <2>3. \A m \in Sure(ownerOf[r]) : m \in Node /\ st[r][m] \in {"sent", "granted", "locked"}
      BY <1>1, <2>0 DEF Welcome
    <2>4. v = "failed" => n \notin Sure(ownerOf[r])
      BY <1>3, <2>3
    <2>5. \A m \in Sure(ownerOf[r]) : z[m] \in {"sent", "granted", "locked"}
      BY <1>3, <2>3, <2>4 DEF Received
    <2>6. stage'[r] # "release"
      <3> SUFFICES ASSUME stage'[r] = "release" PROVE FALSE
        OBVIOUS
      <3> DEFINE F == {k \in Node : st[r][k] = "failed"} \cup {n}
      <3>1. v = "failed" /\ Cardinality(F) > dNodeCount - Quorum(r)
        BY <1>0, <1>3 DEF Received
      <3>2. F \in SUBSET Node /\ \A m \in Sure(ownerOf[r]) : m \notin F
        BY <2>3, <2>4, <3>1
      <3>3. ownerOf[r] \in C
        BY <1>1, <2>0
      <3> HIDE DEF F
      <3> QED BY <3>1, <3>2, <3>3, SureFailures
    <2>7. Welcome(r)'
      <3>1. stage'[r] \in {"collect", "decided"}
        BY <1>0, <1>3, <2>6 DEF Received
      <3>2. stage'[r] = "decided" => \A m \in Node : z[m] \notin {"sent", "granted"}
        BY <1>0, <1>3 DEF Received
      <3> QED BY <2>1, <2>3, <2>5, <3>1, <3>2 DEF Welcome
    <2>8. ASSUME ~(C \subseteq Reader), NEW m \in {1, 2, 3}
          PROVE  \/ st'[r][m] \in {"granted", "locked"}
                 \/ lockMap'[m] = lockMap[m] /\ st[r][m] \notin {"granted", "locked"}
      <3>1. m \in Node /\ (m = n => v = "locked" /\ z[m] = "locked")
        BY <1>0, <1>1, <1>3, <2>0, <2>4, <2>8 DEF Received
      <3>2. m # n => z[m] = st[r][m] \/ st[r][m] = "failed"
        BY <1>3, <3>1 DEF Received
      <3> QED BY <2>1, <2>2, <3>1, <3>2
    <2>9. C \subseteq Reader => \A m \in Node : lockMap'[m].writer = NoUid
      BY <2>2 DEF Visitors
    <2>10. ownerOf[r] \in C /\ pc'[ownerOf[r]] # "idle"
      BY <1>1, <2>0, <2>2
    <2> QED BY <2>0, <2>1, <2>2, <2>7, <2>8, <2>9, <2>10, VisitorsFrame
  <1>4. ASSUME NEW p \in Proc, LockSucceeds(p) \/ CopyLocks(p) PROVE Visitors(C)'
    <2>0. PICK r \in Req : r = req[p] /\ ownerOf[r] = p
      BY <1>4 DEF LockSucceeds, CopyLocks, IInv, AttemptsLinked
    <2>1. /\ pc[p] \in {"lock", "won"} /\ ownerOf[r] = p
          /\ stage[r] \in {"decided", "won"} /\ st' = st /\ lockMap' = lockMap
          /\ \E v \in {"won", "held"} :
                pc' = [pc EXCEPT ![p] = v] /\ stage' = [stage EXCEPT ![r] = v]
      BY <1>4, <2>0 DEF LockSucceeds, CopyLocks, Returned, serverVars, IInv, AttemptsLinked
    <2>2. ~Spent(r) /\ p \in C
      BY <2>1 DEF Spent, Visitors
    <2>3. \A q \in Proc : pc'[q] = pc[q] \/ (q \in C /\ pc'[q] \in {"lock", "won", "held"})
      BY <1>0, <2>1, <2>2
    <2>4. Welcome(r)'
      <3>1. Welcome(r) /\ stage'[r] \in {"won", "held"} /\ st'[r] = st[r]
        BY <1>0, <1>1, <2>1, <2>2
      <3>2. stage[r] # "collect"
        BY <2>1
      <3> QED BY <3>1, <3>2 DEF Welcome
    <2>5. \A s \in Req : s # r => stage'[s] = stage[s] /\ st'[s] = st[s]
      BY <1>0, <2>1
    <2>6. pc'[p] # "idle" /\ \A s \in Req : pc[ownerOf[s]] # "idle" => pc'[ownerOf[s]] # "idle"
      BY <1>0, <2>1
    <2>7. C \subseteq Reader => \A m \in Node : lockMap'[m].writer = NoUid
      BY <2>1 DEF Visitors
    <2>8. ASSUME ~(C \subseteq Reader), NEW m \in {1, 2, 3}
          PROVE  \/ st'[r][m] \in {"granted", "locked"}
                 \/ lockMap'[m] = lockMap[m] /\ st[r][m] \notin {"granted", "locked"}
      BY <2>1
    <2>9. ownerOf[r] \in C /\ pc'[ownerOf[r]] # "idle"
      BY <2>1, <2>2, <2>6
    <2> QED BY <2>2, <2>3, <2>4, <2>5, <2>6, <2>7, <2>8, <2>9, VisitorsFrame
  <1>5. ASSUME NEW p \in Proc, LockFails(p) PROVE FALSE
    <2>1. /\ pc[p] = "lock" /\ req[p] \in Req /\ ownerOf[req[p]] = p /\ stage[req[p]] = "decided"
          /\ ~quorumMet(req[p])
      BY <1>5 DEF LockFails, AttemptFails, Returned, IInv, AttemptsLinked
    <2>2. ~Spent(req[p])
      BY <2>1 DEF Spent
    <2>3. p \in C /\ \A n \in Sure(p) : st[req[p]][n] = "locked"
      BY <1>1, <2>1, <2>2 DEF Welcome
    <2> QED BY <2>1, <2>3, SureQuorum
  <1>6. ASSUME NEW p \in Proc, NextAttempt(p) \/ unlock(p) PROVE FALSE
    BY <1>6 DEF NextAttempt, unlock, Visitors
  <1>7. ASSUME NEW r \in Req, releaseAll(r) PROVE FALSE
    <2>1. stage[r] = "release" /\ ~Spent(r)
      BY <1>7 DEF releaseAll, Spent
    <2> QED BY <1>1, <2>1 DEF Welcome
  <1>8. ASSUME NEW r \in Req, NEW n \in Node, ReceiveGrant(r, n) PROVE Visitors(C)'
    BY <1>3, <1>8, GrantEffect
  <1>9. ASSUME NEW r \in Req, NEW n \in Node, ReceiveDenial(r, n) PROVE Visitors(C)'
    BY <1>3, <1>9, DenialEffect
  <1>10. ASSUME NEW r \in Req, NEW n \in Node, Drain(r, n) PROVE Visitors(C)'
    <2>1. /\ Marked(r, n, "none") /\ ~Spent(r) /\ st[r][n] \in {"granted", "denied"}
          /\ stage[r] # "collect"
      BY <1>10 DEF Drain, Marked, Spent
    <2>2. n \notin Sure(ownerOf[r])
      BY <1>1, <2>1 DEF Welcome
    <2>3. \A m \in Node : m # n => lockMap'[m] = lockMap[m]
      BY <1>10, ReleaseElsewhere DEF Drain, serverVars
    <2>4. C \subseteq Reader => lockMap'[n].writer = lockMap[n].writer
      <3> SUFFICES ASSUME C \subseteq Reader PROVE lockMap'[n].writer = lockMap[n].writer
        OBVIOUS
      <3>1. IsReadLock(r) = TRUE
        BY <1>1, <2>1 DEF IsReadLock
      <3>2. lockMap' = lockMap \/ lockMap' = [lockMap EXCEPT ![n] = AfterUnlock(lockMap[n], UidOf(r), TRUE)]
        BY <1>10, <3>1 DEF Drain, sendRelease, serverVars
      <3>3. AfterUnlock(lockMap[n], UidOf(r), TRUE).writer = lockMap[n].writer
        BY <1>0, WriterKept
      <3> QED BY <1>0, <3>2, <3>3
    <2> QED BY <1>2, <2>1, <2>2, <2>3, <2>4
  <1>11. ASSUME NEW r \in Req, NEW n \in Node, ServeLock(r, n) PROVE Visitors(C)'
    <2>1. st[r][n] = "sent" /\ ~Spent(r)
      BY <1>11 DEF ServeLock, Spent
    <2>2. /\ lockMap' = [lockMap EXCEPT ![n] = AfterLock(lockMap[n], UidOf(r), IsReadLock(r))]
          /\ Marked(r, n, IF Grants(lockMap[n], IsReadLock(r)) THEN "granted" ELSE "denied")
      BY <1>11 DEF ServeLock, Marked
    <2>3. \A m \in Node : m # n => lockMap'[m] = lockMap[m]
      BY <1>0, <2>2
    <2>4. C \subseteq Reader => lockMap'[n].writer = lockMap[n].writer
      <3> SUFFICES ASSUME C \subseteq Reader PROVE lockMap'[n].writer = lockMap[n].writer
        OBVIOUS
      <3>1. IsReadLock(r) = TRUE
        BY <1>1, <2>1 DEF IsReadLock
      <3>2. AfterLock(lockMap[n], UidOf(r), TRUE).writer = lockMap[n].writer
        BY <1>0, WriterKept
      <3> QED BY <1>0, <2>2, <3>1, <3>2
    <2>5. ASSUME n \in Sure(ownerOf[r])
          PROVE  stage[r] = "collect" /\ Grants(lockMap[n], IsReadLock(r))
      <3>1. stage[r] = "collect"
        BY <1>1, <2>1, <2>5 DEF Welcome
      <3>2. CASE C \subseteq Reader
        <4>1. lockMap[n].writer = NoUid /\ IsReadLock(r)
          BY <1>1, <2>1, <3>2 DEF Visitors
        <4> QED BY <3>1, <4>1 DEF Grants
      <3>3. CASE ~(C \subseteq Reader)
        <4>1. C = {"stale"} /\ n \in {1, 2, 3} /\ ~IsReadLock(r)
          BY <1>1, <2>1, <2>5, <3>3
        <4>2. ASSUME NEW s \in Req PROVE st[s][n] \notin {"granted", "locked"}
          <5>1. CASE Spent(s)
            BY <5>1 DEF Spent
          <5>2. CASE ~Spent(s)
            <6>1. ownerOf[s] = ownerOf[r]
              BY <1>1, <2>1, <4>1, <5>2
            <6>2. s = r
              BY <2>1, <5>2, <6>1 DEF Visitors
            <6> QED BY <2>1, <6>2
          <5> QED BY <5>1, <5>2
        <4>3. Vacant(lockMap[n])
          BY <3>3, <4>1, <4>2 DEF Visitors
        <4> QED BY <3>1, <4>1, <4>3 DEF Grants
      <3> QED BY <3>1, <3>2, <3>3
    <2>6. CASE Grants(lockMap[n], IsReadLock(r))
      <3>1. Marked(r, n, "granted")
        BY <2>2, <2>6
      <3> QED BY <1>2, <2>1, <2>3, <2>4, <2>5, <3>1
    <2>7. CASE ~Grants(lockMap[n], IsReadLock(r))
      <3>1. Marked(r, n, "denied")
        BY <2>2, <2>7
      <3> QED BY <1>2, <2>1, <2>3, <2>4, <2>5, <2>7, <3>1
    <2> QED BY <2>6, <2>7
  <1>12. ASSUME NEW r \in Req, NEW n \in Node, CallFails(r, n) PROVE Visitors(C)'
    <2>1. Marked(r, n, "denied") /\ ~Spent(r) /\ lockMap' = lockMap
      BY <1>12 DEF CallFails, Marked, Spent
    <2>2. n \notin up
      BY <1>12, ProgramAssumption DEF CallFails, MayFail
    <2>3. n \notin Sure(ownerOf[r])
      BY <1>1, <2>1, <2>2
    <2> QED BY <1>2, <2>1, <2>3
  <1> QED
    BY <1>4, <1>5, <1>6, <1>7, <1>8, <1>9, <1>10, <1>11, <1>12 DEF Inside, Collector

\* A server that is killed or launched has nothing that would refuse the group.
LEMMA VisitorsServers ==
    ASSUME IInv, NEW C \in Group, Visitors(C), NEW n \in Node, ServerCrash(n) \/ ServerRestart(n)
    PROVE  Visitors(C)'
  <1>1. /\ pc' = pc /\ stage' = stage /\ st' = st
        /\ lockMap' = lockMap \/ lockMap' = [lockMap EXCEPT ![n] = NoLock]
    BY DEF ServerCrash, ServerRestart
  <1>2. \A m \in Node : lockMap'[m] = lockMap[m] \/ lockMap'[m] = NoLock
    BY <1>1 DEF IInv, TypeOK
  <1>3. NoLock.writer = NoUid /\ Vacant(NoLock)
    BY DEF NoLock, Vacant
  <1>4. \A r \in Req : (Spent(r)' <=> Spent(r)) /\ (Welcome(r)' <=> Welcome(r))
    BY <1>1 DEF Spent, Welcome
  <1>5. \A p \in Proc : pc'[p] = "idle" \/ (p \in C /\ pc'[p] \in {"lock", "won", "held"})
    BY <1>1 DEF Visitors
  <1>6. \A r \in Req : Spent(r)' \/ (ownerOf[r] \in C /\ Welcome(r)' /\ pc'[ownerOf[r]] # "idle")
    BY <1>1, <1>4 DEF Visitors
  <1>7. \A r, s \in Req : ownerOf[r] = ownerOf[s] /\ ~Spent(r)' /\ ~Spent(s)' => r = s
    BY <1>4 DEF Visitors
  <1>8. C \subseteq Reader => \A m \in Node : lockMap'[m].writer = NoUid
    BY <1>2, <1>3 DEF Visitors
  <1>9. ASSUME ~(C \subseteq Reader), NEW m \in {1, 2, 3},
               \A r \in Req : st'[r][m] \notin {"granted", "locked"}
        PROVE  Vacant(lockMap'[m])
    <2>1. m \in Node /\ Vacant(lockMap[m])
      BY <1>1, <1>9, Names DEF Visitors
    <2> QED BY <1>2, <1>3, <2>1
  <1> QED
    BY <1>5, <1>6, <1>7, <1>8, <1>9 DEF Visitors

\* A client of the group calls Lock or RLock.
LEMMA VisitorsCall ==
    ASSUME IInv, NEW C \in Group, Visitors(C), NEW p \in Proc, p \in C, CallLock(p)
    PROVE  Visitors(C)'
  <1>0. /\ pc \in [Proc -> Control] /\ stage \in [Req -> Stage] /\ ownerOf \in [Req -> Proc]
        /\ pc[p] = "idle" /\ Broadcast(p)
    BY ProcAssumption DEF IInv, TypeOK, CallLock
  <1>1. PICK a \in Req :
              /\ ownerOf[a] = p /\ stage[a] = "idle" /\ \A n \in Node : st[a][n] = "none"
              /\ stage' = [stage EXCEPT ![a] = "collect"]
              /\ st' = [st EXCEPT ![a] = [n \in Node |-> "sent"]]
              /\ req' = [req EXCEPT ![p] = a]
              /\ pc' = [pc EXCEPT ![p] = "lock"]
              /\ UNCHANGED <<serverVars, mutexVars>>
    BY <1>0, BroadcastEffect
  <1>2. /\ stage'[a] = "collect" /\ \A n \in Node : st'[a][n] = "sent"
        /\ \A s \in Req : s # a => stage'[s] = stage[s] /\ st'[s] = st[s]
        /\ pc'[p] = "lock" /\ (\A q \in Proc : q # p => pc'[q] = pc[q]) /\ lockMap' = lockMap
    BY <1>0, <1>1 DEF IInv, TypeOK, serverVars
  <1>3. \A s \in Req : ownerOf[s] = p => Spent(s)
    BY <1>0 DEF Visitors
  <1>4. \A s \in Req : s # a => (Spent(s)' <=> Spent(s)) /\ (Welcome(s)' <=> Welcome(s))
    BY <1>2 DEF Spent, Welcome
  <1>5. Welcome(a)'
    <2>1. Sure(ownerOf[a]) \subseteq Node
      BY <1>1, GroupFacts
    <2> QED BY <1>2, <2>1 DEF Welcome
  <1>6. \A q \in Proc : pc'[q] = "idle" \/ (q \in C /\ pc'[q] \in {"lock", "won", "held"})
    BY <1>2 DEF Visitors
  <1>7. ASSUME NEW s \in Req
        PROVE  Spent(s)' \/ (ownerOf[s] \in C /\ Welcome(s)' /\ pc'[ownerOf[s]] # "idle")
    <2>1. CASE s = a
      BY <1>1, <1>2, <1>5, <2>1
    <2>2. CASE s # a
      <3>1. pc[ownerOf[s]] # "idle" => pc'[ownerOf[s]] # "idle"
        BY <1>0, <1>2
      <3> QED BY <1>4, <2>2, <3>1 DEF Visitors
    <2> QED BY <2>1, <2>2
  <1>8. \A r, s \in Req : ownerOf[r] = ownerOf[s] /\ ~Spent(r)' /\ ~Spent(s)' => r = s
    BY <1>1, <1>3, <1>4 DEF Visitors
  <1>9. C \subseteq Reader => \A m \in Node : lockMap'[m].writer = NoUid
    BY <1>2 DEF Visitors
  <1>10. ASSUME ~(C \subseteq Reader), NEW m \in {1, 2, 3},
                \A r \in Req : st'[r][m] \notin {"granted", "locked"}
         PROVE  Vacant(lockMap'[m])
    <2>1. m \in Node
      BY Names
    <2>2. \A r \in Req : st[r][m] \notin {"granted", "locked"}
      BY <1>1, <1>2, <1>10, <2>1
    <2> QED BY <1>2, <1>10, <2>2 DEF Visitors
  <1> QED
    BY <1>6, <1>7, <1>8, <1>9, <1>10 DEF Visitors

\* What the end of client d leaves.
LEMMA CrashEffect ==
    ASSUME IInv, NEW d \in Proc, ClientCrash(d)
    PROVE  /\ lockMap' = lockMap /\ up' = up /\ forgot' = forgot
           /\ \A p \in Proc : pc'[p] = IF p = d THEN "idle" ELSE pc[p]
           /\ \A r \in Req : ownerOf[r] # d => stage'[r] = stage[r] /\ st'[r] = st[r]
           /\ \A r \in Req : ownerOf[r] = d => Spent(r)'
  <1>1. ownerOf \in [Req -> Proc] /\ \A p \in Proc : dmOf[p] = p
    BY Names, ProcAssumption
  <1> QED
    BY <1>1 DEF ClientCrash, Spent

\* A reader of the group is gone, the other one stays.
LEMMA VisitorsCrash ==
    ASSUME IInv, NEW C \in Group, Visitors(C), C \subseteq Reader, NEW d \in Proc, ClientCrash(d)
    PROVE  Visitors(C)'
  <1>1. /\ lockMap' = lockMap /\ \A p \in Proc : pc'[p] = IF p = d THEN "idle" ELSE pc[p]
        /\ \A r \in Req : ownerOf[r] # d => stage'[r] = stage[r] /\ st'[r] = st[r]
        /\ \A r \in Req : ownerOf[r] = d => Spent(r)'
        /\ ownerOf \in [Req -> Proc]
    BY CrashEffect, ProcAssumption
  <1>2. \A r \in Req : ownerOf[r] # d => (Spent(r)' <=> Spent(r)) /\ (Welcome(r)' <=> Welcome(r))
    BY <1>1 DEF Spent, Welcome
  <1>3. \A p \in Proc : pc'[p] = "idle" \/ (p \in C /\ pc'[p] \in {"lock", "won", "held"})
    BY <1>1 DEF Visitors
  <1>4. \A r \in Req : Spent(r)' \/ (ownerOf[r] \in C /\ Welcome(r)' /\ pc'[ownerOf[r]] # "idle")
    BY <1>1, <1>2 DEF Visitors
  <1>5. \A r, s \in Req : ownerOf[r] = ownerOf[s] /\ ~Spent(r)' /\ ~Spent(s)' => r = s
    BY <1>1, <1>2 DEF Visitors
  <1>6. \A m \in Node : lockMap'[m].writer = NoUid
    BY <1>1 DEF Visitors
  <1> QED
    BY <1>3, <1>4, <1>5, <1>6 DEF Visitors

\* A client that is in, and has a DRWMutex of its own, has its attempt in it.
LEMMA OwnAttempt ==
    ASSUME IInv, OwnStored, NEW p \in Proc, pc[p] = "held"
    PROVE  \E r \in Req : ownerOf[r] = p /\ stage[r] = "held"
  <1>0. p \in Mutex /\ dmOf[p] = p /\ ownerOf \in [Req -> Proc] /\ \A q \in Proc : dmOf[q] = q
    BY Names, ProcAssumption
  <1>1. CASE p \in Reader
    <2> DEFINE s == readersLocks[p][1]
    <2>1. 1 \in 1..Len(readersLocks[p])
      BY <1>0, <1>1, ReadersStored DEF IInv, TypeOK
    <2>2. s \in Req /\ stage[s] = "held" /\ dmOf[ownerOf[s]] = p
      BY <1>0, <2>1 DEF IInv, TypeOK, ArraysLinked, HeldIn
    <2> HIDE DEF s
    <2>3. ownerOf[s] = p
      BY <1>0, <2>2
    <2> QED BY <2>2, <2>3
  <1>2. CASE p \notin Reader
    <2>1. writeLocks[p] \in Req /\ writeLocks[p] # NoReq
      BY <1>0, <1>2 DEF IInv, OwnStored, TypeOK
    <2>2. stage[writeLocks[p]] = "held" /\ dmOf[ownerOf[writeLocks[p]]] = p
      BY <1>0, <2>1 DEF IInv, ArraysLinked, HeldIn
    <2>3. ownerOf[writeLocks[p]] = p
      BY <1>0, <2>1, <2>2
    <2> QED BY <2>1, <2>2, <2>3
  <1> QED
    BY <1>1, <1>2

\* A table that backs an outstanding grant is not vacant.
LEMMA BackedOccupied ==
    ASSUME IInv, NEW n \in Node, n \notin forgot, NEW r \in Req, st[r][n] = "locked"
    PROVE  ~Vacant(lockMap[n])
  <1>0. /\ UidOf(r) \in Uid /\ ownerOf \in [Req -> Proc] /\ NoUid \notin Uid
    BY ProcAssumption, NoUidAssumption DEF UidOf
  <1>1. r \in Outstanding(n) /\ Backed(Outstanding(n), lockMap[n])
    BY DEF IInv, GrantsBacked, Outstanding
  <1>2. CASE ~IsReadLock(r)
    BY <1>0, <1>1, <1>2 DEF Backed, Vacant
  <1>3. CASE IsReadLock(r)
    <2> DEFINE O == {s \in Outstanding(n) : IsReadLock(s) /\ UidOf(s) = UidOf(r)}
    <2>1. r \in O /\ O \subseteq Req
      BY <1>1, <1>3 DEF Outstanding
    <2>2. Cardinality(O) <= lockMap[n].readers[UidOf(r)]
      BY <1>0, <1>1 DEF Backed
    <2> HIDE DEF O
    <2>3. IsFiniteSet(O)
      BY <2>1, ProcAssumption, FS_Subset
    <2>4. Cardinality(O) \in Nat /\ Cardinality(O) # 0
      BY <2>1, <2>3, FS_CardinalityType, FS_EmptySet
    <2> QED BY <1>0, <2>2, <2>4 DEF Vacant
  <1> QED
    BY <1>2, <1>3

\* The last client of the group that is in crashes: its lock stays on two servers.
LEMMA CrashBlocks ==
    ASSUME IInv, OwnStored, NEW C \in Group, Visitors(C), forgot \subseteq {3, 4},
           NEW d \in Proc, d \in C, pc[d] = "held", \A p \in C \ {d} : pc[p] = "idle", ClientCrash(d)
    PROVE  Blocked'
  <1>0. /\ lockMap' = lockMap /\ \A p \in Proc : pc'[p] = IF p = d THEN "idle" ELSE pc[p]
        /\ \A r \in Req : ownerOf[r] # d => stage'[r] = stage[r] /\ st'[r] = st[r]
        /\ \A r \in Req : ownerOf[r] = d => Spent(r)'
        /\ ownerOf \in [Req -> Proc]
    BY CrashEffect, ProcAssumption
  <1>1. PICK r \in Req : ownerOf[r] = d /\ stage[r] = "held"
    BY OwnAttempt
  <1>2. Welcome(r) /\ {1, 2} \subseteq Sure(ownerOf[r])
    BY <1>1, GroupFacts DEF Visitors, Spent
  <1>3. \A n \in {1, 2} : n \in Node /\ n \notin forgot /\ st[r][n] = "locked"
    BY <1>1, <1>2, Names DEF Welcome
  <1>4. \A n \in {1, 2} : ~Vacant(lockMap'[n])
    BY <1>0, <1>3, BackedOccupied
  <1>5. ASSUME NEW s \in Req PROVE Spent(s)'
    <2>1. CASE ownerOf[s] = d
      BY <1>0, <2>1
    <2>2. CASE ownerOf[s] # d
      <3>1. Spent(s)
        BY <2>2 DEF Visitors
      <3> QED BY <1>0, <2>2, <3>1 DEF Spent
    <2> QED BY <2>1, <2>2
  <1>6. \A p \in Proc : pc'[p] = "idle"
    BY <1>0 DEF Visitors
  <1>7. \A s \in Req, n \in {1, 2} : st'[s][n] \notin {"granted", "locked"}
    BY <1>5, Names DEF Spent
  <1> QED
    BY <1>4, <1>5, <1>6, <1>7 DEF Blocked

\* A step that changes nothing.
LEMMA StaleStutter ==
    ASSUME NEW C, UNCHANGED vars
    PROVE  /\ up' = up /\ forgot' = forgot /\ pc' = pc
           /\ Visitors(C) => Visitors(C)'
           /\ Blocked => Blocked'
  <1>1. UNCHANGED <<up, forgot, pc, stage, st, lockMap>>
    BY DEF vars
  <1>2. \A r \in Req : (Spent(r)' <=> Spent(r)) /\ (Welcome(r)' <=> Welcome(r))
    BY <1>1 DEF Spent, Welcome
  <1>3. Visitors(C) => Visitors(C)'
    BY <1>1, <1>2 DEF Visitors
  <1>4. Blocked => Blocked'
    BY <1>1, <1>2 DEF Blocked
  <1> QED
    BY <1>1, <1>3, <1>4

\* Server 3 or 4 is killed.
LEMMA StaleKill ==
    ASSUME IInv, NEW C \in Group, NEW n \in {3, 4}, NEW t, NEW k, Step(t, k, "kill", n)
    PROVE  /\ up' = up \ {n} /\ forgot' = forgot \cup {n} /\ pc' = pc
           /\ Visitors(C) => Visitors(C)'
           /\ Blocked => Blocked'
  <1>1. ServerCrash(n) /\ n \in Node
    BY Calls, Names DEF Step
  <1>2. /\ pc' = pc /\ stage' = stage /\ st' = st /\ up' = up \ {n} /\ forgot' = forgot \cup {n}
        /\ lockMap' = [lockMap EXCEPT ![n] = NoLock]
    BY <1>1 DEF ServerCrash
  <1>3. \A m \in {1, 2} : lockMap'[m] = lockMap[m]
    BY <1>2, Names DEF IInv, TypeOK
  <1>4. Blocked => Blocked'
    BY <1>2, <1>3, BlockedFrame
  <1>5. Visitors(C) => Visitors(C)'
    BY <1>1, VisitorsServers
  <1> QED
    BY <1>2, <1>4, <1>5

\* Server 3 or 4 is launched.
LEMMA StaleLaunch ==
    ASSUME IInv, NEW C \in Group, NEW n \in {3, 4}, NEW t, NEW k, Step(t, k, "launch", n)
    PROVE  /\ up' = up \cup {n} /\ forgot' = forgot /\ pc' = pc
           /\ Visitors(C) => Visitors(C)'
           /\ Blocked => Blocked'
  <1>1. ServerRestart(n) /\ n \in Node
    BY Calls, Names DEF Step
  <1>2. /\ pc' = pc /\ stage' = stage /\ st' = st /\ up' = up \cup {n} /\ forgot' = forgot
        /\ lockMap' = lockMap
    BY <1>1 DEF ServerRestart
  <1>3. Blocked => Blocked'
    BY <1>2, BlockedFrame
  <1>4. Visitors(C) => Visitors(C)'
    BY <1>1, VisitorsServers
  <1> QED
    BY <1>2, <1>3, <1>4

\* A client of the group calls Lock.
LEMMA StaleLock ==
    ASSUME IInv, NEW C \in Group, NEW p \in C, NEW t, NEW k, Step(t, k, "lock", p)
    PROVE  /\ up' = up /\ forgot' = forgot
           /\ \A q \in Proc : q # p => pc'[q] = pc[q]
           /\ Visitors(C) => Visitors(C)'
  <1>1. CallLock(p) /\ p \in Proc
    BY Calls, Names DEF Step, Group
  <1>2. Visitors(C) => Visitors(C)'
    BY <1>1, VisitorsCall
  <1>3. up' = up /\ forgot' = forgot /\ pc' = [pc EXCEPT ![p] = "lock"] /\ pc \in [Proc -> Control]
    BY <1>1 DEF CallLock, Broadcast, serverVars, IInv, TypeOK
  <1> QED
    BY <1>2, <1>3

\* The main thread has waited for Lock to return, or starts a goroutine.
LEMMA StaleWait ==
    ASSUME NEW C, NEW t, NEW k, NEW x, Step(t, k, "locked", x) \/ StartStep(t, k, x)
    PROVE  /\ up' = up /\ forgot' = forgot /\ pc' = pc
           /\ Step(t, k, "locked", x) => pc[x] = "held"
           /\ Visitors(C) => Visitors(C)'
  <1>1. UNCHANGED vars /\ (Step(t, k, "locked", x) => pc[x] = "held")
    BY Calls DEF Step, StartStep
  <1> QED
    BY <1>1, StaleStutter

\* What dm does, and what it can never do.
LEMMA StaleAgain ==
    ASSUME IInv, NEW t, NEW k
    PROVE  /\ Step(t, k, "lock", "dm") \/ Step(t, k, "unlocked", "dm") =>
                 up' = up /\ forgot' = forgot /\ (Blocked => Blocked')
           /\ Step(t, k, "unlock", "dm") => ~Blocked
  <1>1. ASSUME Step(t, k, "lock", "dm") PROVE up' = up /\ forgot' = forgot /\ (Blocked => Blocked')
    <2>1. Broadcast("dm")
      BY <1>1, Calls DEF Step, CallLock
    <2>2. up' = up /\ forgot' = forgot
      BY <2>1 DEF Broadcast, serverVars
    <2> QED BY <2>1, <2>2, BlockedStart
  <1>2. ASSUME Step(t, k, "unlocked", "dm")
        PROVE  up' = up /\ forgot' = forgot /\ (Blocked => Blocked')
    <2>1. UNCHANGED vars
      BY <1>2, Calls DEF Step
    <2> QED BY <2>1, StaleStutter
  <1>3. ASSUME Step(t, k, "unlock", "dm") PROVE ~Blocked
    <2>1. pc["dm"] = "held"
      BY <1>3, Calls DEF Step, Unlock
    <2> QED BY <2>1, Names DEF Blocked
  <1> QED
    BY <1>1, <1>2, <1>3

\* The main thread leaves the select statement one way or the other.
LEMMA StaleSelect ==
    ASSUME NEW k, NEW j, SelectStep(k, j), ip \in [Thread -> Nat], "main" \in Thread
    PROVE  /\ up' = up /\ forgot' = forgot /\ pc' = pc /\ (Blocked => Blocked')
           /\ ip["main"] = k /\ ip'["main"] \in {k + 1, j}
           /\ \A t \in Thread \ {"main"} : ip'[t] = ip[t]
  <1>1. UNCHANGED vars
    BY DEF SelectStep
  <1>2. up' = up /\ forgot' = forgot /\ pc' = pc /\ (Blocked => Blocked')
    BY <1>1, StaleStutter
  <1>3. /\ ip["main"] = k /\ ip'["main"] \in {k + 1, j}
        /\ \A t \in Thread \ {"main"} : ip'[t] = ip[t]
    BY DEF SelectStep
  <1> QED
    BY <1>2, <1>3

\* What the crash of a client of the group leaves behind.
LEMMA StaleCrash ==
    ASSUME IInv, OwnStored, NEW C \in Group, Visitors(C), NEW p \in C,
           NEW t, NEW k, Step(t, k, "crash", p)
    PROVE  /\ up' = up /\ forgot' = forgot /\ pc'[p] = "idle"
           /\ \A q \in Proc : q # p => pc'[q] = pc[q]
           /\ C \subseteq Reader => Visitors(C)'
           /\ forgot \subseteq {3, 4} /\ pc[p] = "held" /\ (\A q \in C \ {p} : pc[q] = "idle")
              => Blocked'
  <1>1. ClientCrash(p) /\ p \in Proc
    BY Calls, Names DEF Step, Group
  <1>2. C \subseteq Reader => Visitors(C)'
    BY <1>1, VisitorsCrash
  <1>3. up' = up /\ forgot' = forgot /\ \A q \in Proc : pc'[q] = IF q = p THEN "idle" ELSE pc[q]
    BY <1>1, CrashEffect
  <1>4. ASSUME forgot \subseteq {3, 4}, pc[p] = "held", \A q \in C \ {p} : pc[q] = "idle"
        PROVE  Blocked'
    BY <1>1, <1>4, CrashBlocks
  <1> QED
    BY <1>1, <1>2, <1>3, <1>4

WriterTests == {"multipleStaleBefore", "multipleStaleAfter", "clientCrashes"}

\* The tests with a stale write lock: stale gets it, crashes, and dm is kept out.
WriterStaleInv ==
    /\ forgot \subseteq {3, 4} /\ {1, 2} \subseteq up
    /\ ip["main"] <= 6 => 3 \in up
    /\ ip["main"] <= 5 => Visitors({"stale"})
    /\ ip["main"] = 5 => pc["stale"] = "held"
    /\ ip["main"] >= 6 => Blocked

\* The test with two stale read locks: reader4 crashes first, and then reader3.
ReadersStaleInv ==
    /\ forgot \subseteq {3, 4} /\ {1, 2} \subseteq up
    /\ ip["main"] <= 4 => ip["client"] = 0
    /\ ip["main"] >= 8 => ip["client"] >= 2
    /\ ip["client"] <= 1 => pc["reader3"] = "idle"
    /\ ip["main"] >= 8 /\ ip["main"] <= 11 => pc["reader3"] = "held"
    /\ ip["main"] \in {10, 11} => pc["reader4"] = "idle"
    /\ ip["main"] <= 11 => Visitors({"reader3", "reader4"})
    /\ ip["main"] >= 12 => Blocked

\* The steps of testMultipleStaleLocks keep its invariant.
LEMMA MultipleStaleTest ==
    ASSUME IInv, OwnStored, CountersOK, test \in {"multipleStaleBefore", "multipleStaleAfter"},
           WriterStaleInv,
           NEW t \in Thread, RunStep(t)
    PROVE  WriterStaleInv'
  <1>0. {"stale"} \in Group /\ {"stale"} \ {"stale"} = {} /\ "stale" \in Proc
    BY Names DEF Group
  <1>1. ip \in [Thread -> Nat] /\ Thread = {"main"}
    BY DEF CountersOK, Thread, Script, Scripts, testMultipleStaleLocks
  <1>2. CASE Step("main", 1, "kill", 4)
    <2>1. /\ up' = up \ {4} /\ forgot' = forgot \cup {4} /\ pc' = pc
          /\ (Visitors({"stale"}) => Visitors({"stale"})')
          /\ (Blocked => Blocked')
      BY <1>0, <1>2, StaleKill
    <2>2. /\ ip["main"] = 1 /\ ip'["main"] = 2
      BY <1>1, <1>2 DEF Step
    <2> QED BY <1>0, <1>1, <2>1, <2>2 DEF WriterStaleInv
  <1>3. CASE Step("main", 2, "launch", 4)
    <2>1. /\ up' = up \cup {4} /\ forgot' = forgot /\ pc' = pc
          /\ (Visitors({"stale"}) => Visitors({"stale"})')
          /\ (Blocked => Blocked')
      BY <1>0, <1>3, StaleLaunch
    <2>2. /\ ip["main"] = 2 /\ ip'["main"] = 3
      BY <1>1, <1>3 DEF Step
    <2> QED BY <1>0, <1>1, <2>1, <2>2 DEF WriterStaleInv
  <1>4. CASE Step("main", 3, "lock", "stale")
    <2>1. /\ up' = up /\ forgot' = forgot
          /\ (Visitors({"stale"}) => Visitors({"stale"})')
          /\ \A q \in Proc : q # "stale" => pc'[q] = pc[q]
      BY <1>0, <1>4, StaleLock
    <2>2. /\ ip["main"] = 3 /\ ip'["main"] = 4
      BY <1>1, <1>4 DEF Step
    <2> QED BY <1>0, <1>1, <2>1, <2>2 DEF WriterStaleInv
  <1>5. CASE Step("main", 4, "locked", "stale")
    <2>1. /\ up' = up /\ forgot' = forgot /\ pc' = pc /\ pc["stale"] = "held"
          /\ (Visitors({"stale"}) => Visitors({"stale"})')
      BY <1>0, <1>5, StaleWait
    <2>2. /\ ip["main"] = 4 /\ ip'["main"] = 5
      BY <1>1, <1>5 DEF Step
    <2> QED BY <1>0, <1>1, <2>1, <2>2 DEF WriterStaleInv
  <1>6. CASE Step("main", 5, "crash", "stale")
    <2>1. /\ up' = up /\ forgot' = forgot /\ pc'["stale"] = "idle"
          /\ Blocked'
          /\ \A q \in Proc : q # "stale" => pc'[q] = pc[q]
      <3>1. ip["main"] = 5
        BY <1>6 DEF Step
      <3>2. Visitors({"stale"}) /\ "stale" \in {"stale"}
        BY <3>1 DEF WriterStaleInv
      <3>3. forgot \subseteq {3, 4} /\ pc["stale"] = "held" /\ \A q \in {"stale"} \ {"stale"} : pc[q] = "idle"
        BY <3>1 DEF WriterStaleInv
      <3> QED BY <1>0, <1>6, <3>2, <3>3, StaleCrash
    <2>2. /\ ip["main"] = 5 /\ ip'["main"] = 6
      BY <1>1, <1>6 DEF Step
    <2> QED BY <1>0, <1>1, <2>1, <2>2 DEF WriterStaleInv
  <1>7. CASE Step("main", 6, "kill", 4)
    <2>1. /\ up' = up \ {4} /\ forgot' = forgot \cup {4} /\ pc' = pc
          /\ (Visitors({"stale"}) => Visitors({"stale"})')
          /\ (Blocked => Blocked')
      BY <1>0, <1>7, StaleKill
    <2>2. /\ ip["main"] = 6 /\ ip'["main"] = 7
      BY <1>1, <1>7 DEF Step
    <2> QED BY <1>0, <1>1, <2>1, <2>2 DEF WriterStaleInv
  <1>8. CASE Step("main", 7, "kill", 3)
    <2>1. /\ up' = up \ {3} /\ forgot' = forgot \cup {3} /\ pc' = pc
          /\ (Visitors({"stale"}) => Visitors({"stale"})')
          /\ (Blocked => Blocked')
      BY <1>0, <1>8, StaleKill
    <2>2. /\ ip["main"] = 7 /\ ip'["main"] = 8
      BY <1>1, <1>8 DEF Step
    <2> QED BY <1>0, <1>1, <2>1, <2>2 DEF WriterStaleInv
  <1>9. CASE Step("main", 8, "launch", 3)
    <2>1. /\ up' = up \cup {3} /\ forgot' = forgot /\ pc' = pc
          /\ (Visitors({"stale"}) => Visitors({"stale"})')
          /\ (Blocked => Blocked')
      BY <1>0, <1>9, StaleLaunch
    <2>2. /\ ip["main"] = 8 /\ ip'["main"] = 9
      BY <1>1, <1>9 DEF Step
    <2> QED BY <1>0, <1>1, <2>1, <2>2 DEF WriterStaleInv
  <1>10. CASE Step("main", 9, "launch", 4)
    <2>1. /\ up' = up \cup {4} /\ forgot' = forgot /\ pc' = pc
          /\ (Visitors({"stale"}) => Visitors({"stale"})')
          /\ (Blocked => Blocked')
      BY <1>0, <1>10, StaleLaunch
    <2>2. /\ ip["main"] = 9 /\ ip'["main"] = 10
      BY <1>1, <1>10 DEF Step
    <2> QED BY <1>0, <1>1, <2>1, <2>2 DEF WriterStaleInv
  <1>11. CASE Step("main", 10, "lock", "dm")
    <2>1. up' = up /\ forgot' = forgot /\ (Blocked => Blocked')
      BY <1>0, <1>11, StaleAgain
    <2>2. /\ ip["main"] = 10 /\ ip'["main"] = 11
      BY <1>1, <1>11 DEF Step
    <2> QED BY <1>0, <1>1, <2>1, <2>2 DEF WriterStaleInv
  <1>12. CASE SelectStep(11, 14)
    <2>1. up' = up /\ forgot' = forgot /\ pc' = pc /\ (Blocked => Blocked')
      BY <1>1, <1>12, StaleSelect
    <2>2. /\ ip["main"] = 11 /\ ip'["main"] \in {12, 14}
      BY <1>1, <1>12, StaleSelect
    <2> QED BY <1>0, <1>1, <2>1, <2>2 DEF WriterStaleInv
  <1>13. CASE Step("main", 12, "unlock", "dm")
    <2>1. ~Blocked
      BY <1>0, <1>13, StaleAgain
    <2>2. /\ ip["main"] = 12 /\ ip'["main"] = 13
      BY <1>1, <1>13 DEF Step
    <2> QED BY <1>0, <1>1, <2>1, <2>2 DEF WriterStaleInv
  <1>14. CASE Step("main", 13, "unlocked", "dm")
    <2>1. up' = up /\ forgot' = forgot /\ (Blocked => Blocked')
      BY <1>0, <1>14, StaleAgain
    <2>2. /\ ip["main"] = 13 /\ ip'["main"] = 14
      BY <1>1, <1>14 DEF Step
    <2> QED BY <1>0, <1>1, <2>1, <2>2 DEF WriterStaleInv
  <1> QED
    BY <1>1, <1>2, <1>3, <1>4, <1>5, <1>6, <1>7, <1>8, <1>9, <1>10, <1>11, <1>12, <1>13, <1>14,
       MultipleStaleSteps

\* So do those of testClientThatHasLockCrashes.
LEMMA ClientCrashesTest ==
    ASSUME IInv, OwnStored, CountersOK, test = "clientCrashes", WriterStaleInv,
           NEW t \in Thread, RunStep(t)
    PROVE  WriterStaleInv'
  <1>0. {"stale"} \in Group /\ {"stale"} \ {"stale"} = {} /\ "stale" \in Proc
    BY Names DEF Group
  <1>1. ip \in [Thread -> Nat] /\ Thread = {"main"}
    BY DEF CountersOK, Thread, Script, Scripts, testClientThatHasLockCrashes
  <1>2. CASE Step("main", 1, "kill", 4)
    <2>1. /\ up' = up \ {4} /\ forgot' = forgot \cup {4} /\ pc' = pc
          /\ (Visitors({"stale"}) => Visitors({"stale"})')
          /\ (Blocked => Blocked')
      BY <1>0, <1>2, StaleKill
    <2>2. /\ ip["main"] = 1 /\ ip'["main"] = 2
      BY <1>1, <1>2 DEF Step
    <2> QED BY <1>0, <1>1, <2>1, <2>2 DEF WriterStaleInv
  <1>3. CASE Step("main", 2, "launch", 4)
    <2>1. /\ up' = up \cup {4} /\ forgot' = forgot /\ pc' = pc
          /\ (Visitors({"stale"}) => Visitors({"stale"})')
          /\ (Blocked => Blocked')
      BY <1>0, <1>3, StaleLaunch
    <2>2. /\ ip["main"] = 2 /\ ip'["main"] = 3
      BY <1>1, <1>3 DEF Step
    <2> QED BY <1>0, <1>1, <2>1, <2>2 DEF WriterStaleInv
  <1>4. CASE Step("main", 3, "lock", "stale")
    <2>1. /\ up' = up /\ forgot' = forgot
          /\ (Visitors({"stale"}) => Visitors({"stale"})')
          /\ \A q \in Proc : q # "stale" => pc'[q] = pc[q]
      BY <1>0, <1>4, StaleLock
    <2>2. /\ ip["main"] = 3 /\ ip'["main"] = 4
      BY <1>1, <1>4 DEF Step
    <2> QED BY <1>0, <1>1, <2>1, <2>2 DEF WriterStaleInv
  <1>5. CASE Step("main", 4, "locked", "stale")
    <2>1. /\ up' = up /\ forgot' = forgot /\ pc' = pc /\ pc["stale"] = "held"
          /\ (Visitors({"stale"}) => Visitors({"stale"})')
      BY <1>0, <1>5, StaleWait
    <2>2. /\ ip["main"] = 4 /\ ip'["main"] = 5
      BY <1>1, <1>5 DEF Step
    <2> QED BY <1>0, <1>1, <2>1, <2>2 DEF WriterStaleInv
  <1>6. CASE Step("main", 5, "crash", "stale")
    <2>1. /\ up' = up /\ forgot' = forgot /\ pc'["stale"] = "idle"
          /\ Blocked'
          /\ \A q \in Proc : q # "stale" => pc'[q] = pc[q]
      <3>1. ip["main"] = 5
        BY <1>6 DEF Step
      <3>2. Visitors({"stale"}) /\ "stale" \in {"stale"}
        BY <3>1 DEF WriterStaleInv
      <3>3. forgot \subseteq {3, 4} /\ pc["stale"] = "held" /\ \A q \in {"stale"} \ {"stale"} : pc[q] = "idle"
        BY <3>1 DEF WriterStaleInv
      <3> QED BY <1>0, <1>6, <3>2, <3>3, StaleCrash
    <2>2. /\ ip["main"] = 5 /\ ip'["main"] = 6
      BY <1>1, <1>6 DEF Step
    <2> QED BY <1>0, <1>1, <2>1, <2>2 DEF WriterStaleInv
  <1>7. CASE Step("main", 6, "kill", 4)
    <2>1. /\ up' = up \ {4} /\ forgot' = forgot \cup {4} /\ pc' = pc
          /\ (Visitors({"stale"}) => Visitors({"stale"})')
          /\ (Blocked => Blocked')
      BY <1>0, <1>7, StaleKill
    <2>2. /\ ip["main"] = 6 /\ ip'["main"] = 7
      BY <1>1, <1>7 DEF Step
    <2> QED BY <1>0, <1>1, <2>1, <2>2 DEF WriterStaleInv
  <1>8. CASE Step("main", 7, "launch", 4)
    <2>1. /\ up' = up \cup {4} /\ forgot' = forgot /\ pc' = pc
          /\ (Visitors({"stale"}) => Visitors({"stale"})')
          /\ (Blocked => Blocked')
      BY <1>0, <1>8, StaleLaunch
    <2>2. /\ ip["main"] = 7 /\ ip'["main"] = 8
      BY <1>1, <1>8 DEF Step
    <2> QED BY <1>0, <1>1, <2>1, <2>2 DEF WriterStaleInv
  <1>9. CASE Step("main", 8, "lock", "dm")
    <2>1. up' = up /\ forgot' = forgot /\ (Blocked => Blocked')
      BY <1>0, <1>9, StaleAgain
    <2>2. /\ ip["main"] = 8 /\ ip'["main"] = 9
      BY <1>1, <1>9 DEF Step
    <2> QED BY <1>0, <1>1, <2>1, <2>2 DEF WriterStaleInv
  <1>10. CASE SelectStep(9, 12)
    <2>1. up' = up /\ forgot' = forgot /\ pc' = pc /\ (Blocked => Blocked')
      BY <1>1, <1>10, StaleSelect
    <2>2. /\ ip["main"] = 9 /\ ip'["main"] \in {10, 12}
      BY <1>1, <1>10, StaleSelect
    <2> QED BY <1>0, <1>1, <2>1, <2>2 DEF WriterStaleInv
  <1>11. CASE Step("main", 10, "unlock", "dm")
    <2>1. ~Blocked
      BY <1>0, <1>11, StaleAgain
    <2>2. /\ ip["main"] = 10 /\ ip'["main"] = 11
      BY <1>1, <1>11 DEF Step
    <2> QED BY <1>0, <1>1, <2>1, <2>2 DEF WriterStaleInv
  <1>12. CASE Step("main", 11, "unlocked", "dm")
    <2>1. up' = up /\ forgot' = forgot /\ (Blocked => Blocked')
      BY <1>0, <1>12, StaleAgain
    <2>2. /\ ip["main"] = 11 /\ ip'["main"] = 12
      BY <1>1, <1>12 DEF Step
    <2> QED BY <1>0, <1>1, <2>1, <2>2 DEF WriterStaleInv
  <1> QED
    BY <1>1, <1>2, <1>3, <1>4, <1>5, <1>6, <1>7, <1>8, <1>9, <1>10, <1>11, <1>12,
       ClientCrashesSteps

\* The steps of testTwoClientsThatHaveReadLocksCrash keep its invariant.
LEMMA ReadersCrashTest ==
    ASSUME IInv, OwnStored, CountersOK, test = "readersCrash", ReadersStaleInv,
           NEW t \in Thread, RunStep(t)
    PROVE  ReadersStaleInv'
  <1>0. /\ {"reader3", "reader4"} \in Group
        /\ {"reader3", "reader4"} \subseteq Reader /\ {"reader3", "reader4"} \subseteq Proc
    BY Names DEF Group
  <1>1. ip \in [Thread -> Nat] /\ Thread = {"main", "client"}
    BY DEF CountersOK, Thread, Script, Scripts, testTwoClientsThatHaveReadLocksCrash
  <1>2. CASE Step("main", 1, "kill", 4)
    <2>1. /\ up' = up \ {4} /\ forgot' = forgot \cup {4} /\ pc' = pc
          /\ (Visitors({"reader3", "reader4"}) => Visitors({"reader3", "reader4"})')
          /\ (Blocked => Blocked')
      BY <1>0, <1>2, StaleKill
    <2>2. /\ ip["main"] = 1 /\ ip'["main"] = 2
          /\ ip'["client"] = ip["client"]
      BY <1>1, <1>2 DEF Step
    <2> QED BY <1>0, <1>1, <2>1, <2>2 DEF ReadersStaleInv
  <1>3. CASE Step("main", 2, "kill", 3)
    <2>1. /\ up' = up \ {3} /\ forgot' = forgot \cup {3} /\ pc' = pc
          /\ (Visitors({"reader3", "reader4"}) => Visitors({"reader3", "reader4"})')
          /\ (Blocked => Blocked')
      BY <1>0, <1>3, StaleKill
    <2>2. /\ ip["main"] = 2 /\ ip'["main"] = 3
          /\ ip'["client"] = ip["client"]
      BY <1>1, <1>3 DEF Step
    <2> QED BY <1>0, <1>1, <2>1, <2>2 DEF ReadersStaleInv
  <1>4. CASE Step("main", 3, "launch", 3)
    <2>1. /\ up' = up \cup {3} /\ forgot' = forgot /\ pc' = pc
          /\ (Visitors({"reader3", "reader4"}) => Visitors({"reader3", "reader4"})')
          /\ (Blocked => Blocked')
      BY <1>0, <1>4, StaleLaunch
    <2>2. /\ ip["main"] = 3 /\ ip'["main"] = 4
          /\ ip'["client"] = ip["client"]
      BY <1>1, <1>4 DEF Step
    <2> QED BY <1>0, <1>1, <2>1, <2>2 DEF ReadersStaleInv
  <1>5. CASE StartStep("main", 4, "client")
    <2>1. /\ up' = up /\ forgot' = forgot /\ pc' = pc
          /\ (Visitors({"reader3", "reader4"}) => Visitors({"reader3", "reader4"})')
      BY <1>0, <1>5, StaleWait
    <2>2. /\ ip["main"] = 4 /\ ip'["main"] = 5 /\ ip'["client"] = 1
      BY <1>1, <1>5 DEF StartStep
    <2> QED BY <1>0, <1>1, <2>1, <2>2 DEF ReadersStaleInv
  <1>6. CASE Step("main", 5, "launch", 4)
    <2>1. /\ up' = up \cup {4} /\ forgot' = forgot /\ pc' = pc
          /\ (Visitors({"reader3", "reader4"}) => Visitors({"reader3", "reader4"})')
          /\ (Blocked => Blocked')
      BY <1>0, <1>6, StaleLaunch
    <2>2. /\ ip["main"] = 5 /\ ip'["main"] = 6
          /\ ip'["client"] = ip["client"]
      BY <1>1, <1>6 DEF Step
    <2> QED BY <1>0, <1>1, <2>1, <2>2 DEF ReadersStaleInv
  <1>7. CASE Step("main", 6, "lock", "reader4")
    <2>1. /\ up' = up /\ forgot' = forgot
          /\ (Visitors({"reader3", "reader4"}) => Visitors({"reader3", "reader4"})')
          /\ \A q \in Proc : q # "reader4" => pc'[q] = pc[q]
      BY <1>0, <1>7, StaleLock
    <2>2. /\ ip["main"] = 6 /\ ip'["main"] = 7
          /\ ip'["client"] = ip["client"]
      BY <1>1, <1>7 DEF Step
    <2> QED BY <1>0, <1>1, <2>1, <2>2 DEF ReadersStaleInv
  <1>8. CASE Step("main", 7, "locked", "reader3")
    <2>1. /\ up' = up /\ forgot' = forgot /\ pc' = pc /\ pc["reader3"] = "held"
          /\ (Visitors({"reader3", "reader4"}) => Visitors({"reader3", "reader4"})')
      BY <1>0, <1>8, StaleWait
    <2>2. /\ ip["main"] = 7 /\ ip'["main"] = 8
          /\ ip'["client"] = ip["client"]
      BY <1>1, <1>8 DEF Step
    <2> QED BY <1>0, <1>1, <2>1, <2>2 DEF ReadersStaleInv
  <1>9. CASE Step("main", 8, "locked", "reader4")
    <2>1. /\ up' = up /\ forgot' = forgot /\ pc' = pc /\ pc["reader4"] = "held"
          /\ (Visitors({"reader3", "reader4"}) => Visitors({"reader3", "reader4"})')
      BY <1>0, <1>9, StaleWait
    <2>2. /\ ip["main"] = 8 /\ ip'["main"] = 9
          /\ ip'["client"] = ip["client"]
      BY <1>1, <1>9 DEF Step
    <2> QED BY <1>0, <1>1, <2>1, <2>2 DEF ReadersStaleInv
  <1>10. CASE Step("main", 9, "crash", "reader4")
    <2>1. /\ up' = up /\ forgot' = forgot /\ pc'["reader4"] = "idle"
          /\ (Visitors({"reader3", "reader4"}) => Visitors({"reader3", "reader4"})')
          /\ \A q \in Proc : q # "reader4" => pc'[q] = pc[q]
      <3>1. ip["main"] = 9
        BY <1>10 DEF Step
      <3>2. Visitors({"reader3", "reader4"}) /\ "reader4" \in {"reader3", "reader4"}
        BY <3>1 DEF ReadersStaleInv
      <3> QED BY <1>0, <1>10, <3>2, StaleCrash
    <2>2. /\ ip["main"] = 9 /\ ip'["main"] = 10
          /\ ip'["client"] = ip["client"]
      BY <1>1, <1>10 DEF Step
    <2> QED BY <1>0, <1>1, <2>1, <2>2 DEF ReadersStaleInv
  <1>11. CASE Step("main", 10, "kill", 4)
    <2>1. /\ up' = up \ {4} /\ forgot' = forgot \cup {4} /\ pc' = pc
          /\ (Visitors({"reader3", "reader4"}) => Visitors({"reader3", "reader4"})')
          /\ (Blocked => Blocked')
      BY <1>0, <1>11, StaleKill
    <2>2. /\ ip["main"] = 10 /\ ip'["main"] = 11
          /\ ip'["client"] = ip["client"]
      BY <1>1, <1>11 DEF Step
    <2> QED BY <1>0, <1>1, <2>1, <2>2 DEF ReadersStaleInv
  <1>12. CASE Step("main", 11, "crash", "reader3")
    <2>1. /\ up' = up /\ forgot' = forgot /\ pc'["reader3"] = "idle"
          /\ Blocked'
          /\ \A q \in Proc : q # "reader3" => pc'[q] = pc[q]
      <3>1. ip["main"] = 11
        BY <1>12 DEF Step
      <3>2. Visitors({"reader3", "reader4"}) /\ "reader3" \in {"reader3", "reader4"}
        BY <3>1 DEF ReadersStaleInv
      <3>3. /\ forgot \subseteq {3, 4} /\ pc["reader3"] = "held"
            /\ \A q \in {"reader3", "reader4"} \ {"reader3"} : pc[q] = "idle"
        BY <3>1 DEF ReadersStaleInv
      <3> QED BY <1>0, <1>12, <3>2, <3>3, StaleCrash
    <2>2. /\ ip["main"] = 11 /\ ip'["main"] = 12
          /\ ip'["client"] = ip["client"]
      BY <1>1, <1>12 DEF Step
    <2> QED BY <1>0, <1>1, <2>1, <2>2 DEF ReadersStaleInv
  <1>13. CASE Step("main", 12, "kill", 3)
    <2>1. /\ up' = up \ {3} /\ forgot' = forgot \cup {3} /\ pc' = pc
          /\ (Visitors({"reader3", "reader4"}) => Visitors({"reader3", "reader4"})')
          /\ (Blocked => Blocked')
      BY <1>0, <1>13, StaleKill
    <2>2. /\ ip["main"] = 12 /\ ip'["main"] = 13
          /\ ip'["client"] = ip["client"]
      BY <1>1, <1>13 DEF Step
    <2> QED BY <1>0, <1>1, <2>1, <2>2 DEF ReadersStaleInv
  <1>14. CASE Step("main", 13, "launch", 3)
    <2>1. /\ up' = up \cup {3} /\ forgot' = forgot /\ pc' = pc
          /\ (Visitors({"reader3", "reader4"}) => Visitors({"reader3", "reader4"})')
          /\ (Blocked => Blocked')
      BY <1>0, <1>14, StaleLaunch
    <2>2. /\ ip["main"] = 13 /\ ip'["main"] = 14
          /\ ip'["client"] = ip["client"]
      BY <1>1, <1>14 DEF Step
    <2> QED BY <1>0, <1>1, <2>1, <2>2 DEF ReadersStaleInv
  <1>15. CASE Step("main", 14, "launch", 4)
    <2>1. /\ up' = up \cup {4} /\ forgot' = forgot /\ pc' = pc
          /\ (Visitors({"reader3", "reader4"}) => Visitors({"reader3", "reader4"})')
          /\ (Blocked => Blocked')
      BY <1>0, <1>15, StaleLaunch
    <2>2. /\ ip["main"] = 14 /\ ip'["main"] = 15
          /\ ip'["client"] = ip["client"]
      BY <1>1, <1>15 DEF Step
    <2> QED BY <1>0, <1>1, <2>1, <2>2 DEF ReadersStaleInv
  <1>16. CASE Step("main", 15, "lock", "dm")
    <2>1. up' = up /\ forgot' = forgot /\ (Blocked => Blocked')
      BY <1>0, <1>16, StaleAgain
    <2>2. /\ ip["main"] = 15 /\ ip'["main"] = 16
          /\ ip'["client"] = ip["client"]
      BY <1>1, <1>16 DEF Step
    <2> QED BY <1>0, <1>1, <2>1, <2>2 DEF ReadersStaleInv
  <1>17. CASE SelectStep(16, 19)
    <2>1. up' = up /\ forgot' = forgot /\ pc' = pc /\ (Blocked => Blocked')
      BY <1>1, <1>17, StaleSelect
    <2>2. /\ ip["main"] = 16 /\ ip'["main"] \in {17, 19}
          /\ ip'["client"] = ip["client"]
      BY <1>1, <1>17, StaleSelect
    <2> QED BY <1>0, <1>1, <2>1, <2>2 DEF ReadersStaleInv
  <1>18. CASE Step("main", 17, "unlock", "dm")
    <2>1. ~Blocked
      BY <1>0, <1>18, StaleAgain
    <2>2. /\ ip["main"] = 17 /\ ip'["main"] = 18
          /\ ip'["client"] = ip["client"]
      BY <1>1, <1>18 DEF Step
    <2> QED BY <1>0, <1>1, <2>1, <2>2 DEF ReadersStaleInv
  <1>19. CASE Step("main", 18, "unlocked", "dm")
    <2>1. up' = up /\ forgot' = forgot /\ (Blocked => Blocked')
      BY <1>0, <1>19, StaleAgain
    <2>2. /\ ip["main"] = 18 /\ ip'["main"] = 19
          /\ ip'["client"] = ip["client"]
      BY <1>1, <1>19 DEF Step
    <2> QED BY <1>0, <1>1, <2>1, <2>2 DEF ReadersStaleInv
  <1>20. CASE Step("client", 1, "lock", "reader3")
    <2>1. /\ up' = up /\ forgot' = forgot
          /\ (Visitors({"reader3", "reader4"}) => Visitors({"reader3", "reader4"})')
          /\ \A q \in Proc : q # "reader3" => pc'[q] = pc[q]
      BY <1>0, <1>20, StaleLock
    <2>2. /\ ip["client"] = 1 /\ ip'["client"] = 2
          /\ ip'["main"] = ip["main"]
      BY <1>1, <1>20 DEF Step
    <2> QED BY <1>0, <1>1, <2>1, <2>2 DEF ReadersStaleInv
  <1> QED
    BY <1>1, <1>2, <1>3, <1>4, <1>5, <1>6, <1>7, <1>8, <1>9, <1>10, <1>11, <1>12, <1>13, <1>14,
       <1>15, <1>16, <1>17, <1>18, <1>19, <1>20,
       ReadersCrashSteps

\* What goes on inside the calls keeps both invariants.
LEMMA StaleInside ==
    ASSUME IInv, CountersOK, Inside
    PROVE  /\ test \in WriterTests /\ WriterStaleInv => WriterStaleInv'
           /\ test = "readersCrash" /\ ReadersStaleInv => ReadersStaleInv'
  <1>1. up' = up /\ forgot' = forgot /\ ip' = ip
    BY InsideServers
  <1>2. Blocked => Blocked'
    BY BlockedInside
  <1>3. \A p \in {"stale", "reader3", "reader4"} :
            (pc[p] = "idle" => pc'[p] = "idle") /\ (pc[p] = "held" => pc'[p] = "held")
    BY InsideControl, Names
  <1>4. {"stale"} \in Group /\ {"reader3", "reader4"} \in Group /\ {"reader3", "reader4"} # {"stale"}
    BY DEF Group
  <1>5. ASSUME test \in WriterTests, WriterStaleInv PROVE WriterStaleInv'
    <2>1. ip["main"] \in Nat
      BY <1>5 DEF CountersOK, Thread, Script, Scripts, testMultipleStaleLocks, testClientThatHasLockCrashes, WriterTests
    <2>2. ip["main"] <= 5 => Visitors({"stale"})'
      BY <1>4, <1>5, <2>1, VisitorsInside DEF WriterStaleInv
    <2> QED BY <1>1, <1>2, <1>3, <1>5, <2>1, <2>2 DEF WriterStaleInv
  <1>6. ASSUME test = "readersCrash", ReadersStaleInv PROVE ReadersStaleInv'
    <2>1. ip["main"] \in Nat /\ ip["client"] \in Nat
      BY <1>6 DEF CountersOK, Thread, Script, Scripts, testTwoClientsThatHaveReadLocksCrash
    <2>2. ip["main"] <= 11 => Visitors({"reader3", "reader4"})'
      BY <1>4, <1>6, <2>1, VisitorsInside DEF ReadersStaleInv
    <2> QED BY <1>1, <1>2, <1>3, <1>6, <2>1, <2>2 DEF ReadersStaleInv
  <1> QED
    BY <1>5, <1>6

-----------------------------------------------------------------------------
(* All tests together. *)

\* The test that is run is where its invariant says.
TestInv ==
    /\ test = "quorum" => QuorumInv
    /\ test = "goingDown" => GoingDownInv
    /\ test = "singleDown" => SingleDownInv
    /\ test \in WriterTests => WriterStaleInv
    /\ test = "readersCrash" => ReadersStaleInv

\* The inductive invariant of the tests.
ChaosIInv == IInv /\ CountersOK /\ Awaited /\ OwnStored /\ TestInv

\* Before the first step nobody has called Lock.
LEMMA VisitorsInit ==
    ASSUME Init, NEW C \in Group
    PROVE  Visitors(C)
  <1>1. /\ \A p \in Proc : pc[p] = "idle"
        /\ \A r \in Req : stage[r] = "idle" /\ \A n \in Node : st[r][n] = "none"
        /\ \A n \in Node : lockMap[n] = NoLock
    BY DEF Init
  <1>2. \A r \in Req : Spent(r)
    BY <1>1 DEF Spent
  <1>3. NoLock.writer = NoUid /\ Vacant(NoLock)
    BY DEF NoLock, Vacant
  <1> QED
    BY <1>1, <1>2, <1>3, Names DEF Visitors

\* The tests begin in the inductive invariant.
LEMMA InitChaos == ChaosInit => ChaosIInv
  <1> SUFFICES ASSUME ChaosInit PROVE ChaosIInv
    OBVIOUS
  <1>1. IInv /\ Init
    BY InitIInv DEF ChaosInit
  <1>2. CountersOK
    BY DEF ChaosInit, CountersOK
  <1>3. /\ up = Node /\ forgot = {} /\ \A p \in Proc : pc[p] = "idle"
        /\ \A r \in Req : stage[r] = "idle" /\ \A n \in Node : st[r][n] = "none"
    BY DEF ChaosInit, Init
  <1>4. Awaited /\ OwnStored
    BY <1>3 DEF Awaited, OwnStored, Busy
  <1>5. \A s \in Thread : ip[s] = IF s = "main" THEN 1 ELSE 0
    BY DEF ChaosInit
  <1>6. ASSUME test = "quorum" PROVE QuorumInv
    <2>1. Thread = {"main", "extra", "again"}
      BY <1>6 DEF Thread, Script, Scripts, testNotEnoughServersForQuorum
    <2>2. ip["main"] = 1 /\ ip["extra"] = 0 /\ ip["again"] = 0
      BY <1>5, <2>1
    <2> QED BY <2>2 DEF QuorumInv
  <1>7. ASSUME test = "goingDown" PROVE GoingDownInv
    <2>1. Thread = {"main", "relaunch"}
      BY <1>7 DEF Thread, Script, Scripts, testServerGoingDown
    <2>2. ip["main"] = 1 /\ ip["relaunch"] = 0
      BY <1>5, <2>1
    <2> QED BY <2>2 DEF GoingDownInv
  <1>8. ASSUME test = "singleDown" PROVE SingleDownInv
    <2>1. Thread = {"main", "relaunch"}
      BY <1>8 DEF Thread, Script, Scripts, testSingleServerOverQuorumDownDuringLock
    <2>2. ip["main"] = 1 /\ ip["relaunch"] = 0
      BY <1>5, <2>1
    <2>3. Parted
      BY <1>3, Names DEF Parted
    <2> QED BY <1>3, <2>2, <2>3, Names DEF SingleDownInv
  <1>9. ASSUME test \in WriterTests PROVE WriterStaleInv
    <2>1. "main" \in Thread
      BY <1>9 DEF Thread, Script, Scripts, testMultipleStaleLocks, testClientThatHasLockCrashes, WriterTests
    <2>2. ip["main"] = 1
      BY <1>5, <2>1
    <2>3. Visitors({"stale"})
      BY <1>1, VisitorsInit DEF Group
    <2> QED BY <1>3, <2>2, <2>3, Names DEF WriterStaleInv
  <1>10. ASSUME test = "readersCrash" PROVE ReadersStaleInv
    <2>1. Thread = {"main", "client"}
      BY <1>10 DEF Thread, Script, Scripts, testTwoClientsThatHaveReadLocksCrash
    <2>2. ip["main"] = 1 /\ ip["client"] = 0
      BY <1>5, <2>1
    <2>3. Visitors({"reader3", "reader4"})
      BY <1>1, VisitorsInit DEF Group
    <2> QED BY <1>3, <2>2, <2>3, Names DEF ReadersStaleInv
  <1>11. TestInv
    BY <1>6, <1>7, <1>8, <1>9, <1>10 DEF TestInv
  <1> QED
    BY <1>1, <1>2, <1>4, <1>11 DEF ChaosIInv

\* A step that changes nothing keeps the invariant of every test.
LEMMA TestStutter == TestInv /\ UNCHANGED chaosVars => TestInv'
  <1> SUFFICES ASSUME TestInv, UNCHANGED chaosVars PROVE TestInv'
    OBVIOUS
  <1>1. UNCHANGED <<test, ip, up, forgot, pc, req, stage, st, lockMap>>
    BY DEF chaosVars, vars
  <1>2. /\ Starved' <=> Starved
        /\ Parted' <=> Parted
        /\ Blocked' <=> Blocked
        /\ \A C : Visitors(C)' <=> Visitors(C)
    BY <1>1 DEF Starved, Parted, Blocked, Visitors, Spent, Welcome
  <1>3. /\ QuorumInv => QuorumInv'
        /\ GoingDownInv => GoingDownInv'
        /\ SingleDownInv => SingleDownInv'
        /\ WriterStaleInv => WriterStaleInv'
        /\ ReadersStaleInv => ReadersStaleInv'
    BY <1>1, <1>2 DEF QuorumInv, GoingDownInv, SingleDownInv, WriterStaleInv, ReadersStaleInv
  <1> QED
    BY <1>1, <1>3 DEF TestInv

\* Every step of the tests keeps the inductive invariant.
LEMMA StepChaos == ChaosIInv /\ [ChaosNext]_chaosVars => ChaosIInv'
  <1> SUFFICES ASSUME ChaosIInv, [ChaosNext]_chaosVars PROVE ChaosIInv'
    OBVIOUS
  <1>0. IInv /\ CountersOK /\ Awaited /\ OwnStored /\ TestInv
    BY DEF ChaosIInv
  <1>1. CountersOK' /\ test' = test /\ [Next]_vars
    BY <1>0, CountersStep
  <1>2. IInv'
    BY <1>0, <1>1, StepIInv
  <1>3. Awaited' /\ OwnStored'
    BY <1>0, <1>1, OwnStep
  <1>4. ASSUME UNCHANGED chaosVars PROVE TestInv'
    BY <1>0, <1>4, TestStutter
  <1>5. ASSUME Inside PROVE TestInv'
    <2>1. /\ test = "quorum" /\ QuorumInv => QuorumInv'
          /\ test = "goingDown" /\ GoingDownInv => GoingDownInv'
      BY <1>0, <1>5, QuorumTestsInside
    <2>2. test = "singleDown" /\ SingleDownInv => SingleDownInv'
      BY <1>0, <1>5, SingleDownInside
    <2>3. /\ test \in WriterTests /\ WriterStaleInv => WriterStaleInv'
          /\ test = "readersCrash" /\ ReadersStaleInv => ReadersStaleInv'
      BY <1>0, <1>5, StaleInside
    <2> QED BY <1>0, <1>1, <2>1, <2>2, <2>3 DEF TestInv
  <1>6. ASSUME NEW t \in Thread, RunStep(t) PROVE TestInv'
    <2>1. test = "quorum" /\ QuorumInv => QuorumInv'
      BY <1>0, <1>6, QuorumTest
    <2>2. test = "goingDown" /\ GoingDownInv => GoingDownInv'
      BY <1>0, <1>6, GoingDownTest
    <2>3. test = "singleDown" /\ SingleDownInv => SingleDownInv'
      BY <1>0, <1>6, SingleDownTest
    <2>4. test \in {"multipleStaleBefore", "multipleStaleAfter"} /\ WriterStaleInv => WriterStaleInv'
      BY <1>0, <1>6, MultipleStaleTest
    <2>5. test = "clientCrashes" /\ WriterStaleInv => WriterStaleInv'
      BY <1>0, <1>6, ClientCrashesTest
    <2>6. test = "readersCrash" /\ ReadersStaleInv => ReadersStaleInv'
      BY <1>0, <1>6, ReadersCrashTest
    <2> QED BY <1>0, <1>1, <2>1, <2>2, <2>3, <2>4, <2>5, <2>6 DEF TestInv, WriterTests
  <1>7. TestInv'
    BY <1>4, <1>5, <1>6 DEF ChaosNext
  <1> QED
    BY <1>1, <1>2, <1>3, <1>7 DEF ChaosIInv

(***************************************************************************)
(* The tests of chaos.go, whatever the sleeps of their threads and however *)
(* many servers they kill, keep the DRWMutex system in its inductive       *)
(* invariant and themselves in the one of the test that is run.            *)
(***************************************************************************)
THEOREM ChaosInvariance == ChaosSpec => []ChaosIInv
  BY InitChaos, StepChaos, PTL DEF ChaosSpec

\* Where the main threads of the two tests of the quorum wait for a Lock, and where
\* they start their goroutines.
LEMMA QuorumScripts ==
    /\ test = "quorum" =>
          /\ DOMAIN Script["main"] = 1..14
          /\ \A k \in 1..14 : Script["main"][k][1] = "locked" => k \in {5, 11}
          /\ \A k \in 1..14 : Script["main"][k][1] = "go" =>
                \/ k = 3 /\ Script["main"][k][2] = "extra"
                \/ k = 9 /\ Script["main"][k][2] = "again"
    /\ test = "goingDown" =>
          /\ DOMAIN Script["main"] = 1..11
          /\ \A k \in 1..11 : Script["main"][k][1] = "locked" => k \in {2, 9}
          /\ \A k \in 1..11 : Script["main"][k][1] = "go" =>
                k = 7 /\ Script["main"][k][2] = "relaunch"
  <1>1. ASSUME test = "quorum"
        PROVE  /\ DOMAIN Script["main"] = 1..14
               /\ \A k \in 1..14 : Script["main"][k][1] = "locked" => k \in {5, 11}
               /\ \A k \in 1..14 : Script["main"][k][1] = "go" =>
                     \/ k = 3 /\ Script["main"][k][2] = "extra"
                     \/ k = 9 /\ Script["main"][k][2] = "again"
    <2>1. Script = testNotEnoughServersForQuorum
      BY <1>1 DEF Script, Scripts
    <2> QED BY <2>1 DEF testNotEnoughServersForQuorum
  <1>2. ASSUME test = "goingDown"
        PROVE  /\ DOMAIN Script["main"] = 1..11
               /\ \A k \in 1..11 : Script["main"][k][1] = "locked" => k \in {2, 9}
               /\ \A k \in 1..11 : Script["main"][k][1] = "go" =>
                     k = 7 /\ Script["main"][k][2] = "relaunch"
    <2>1. Script = testServerGoingDown
      BY <1>2 DEF Script, Scripts
    <2> QED BY <2>1 DEF testServerGoingDown
  <1> QED
    BY <1>1, <1>2

\* The inductive invariant has what the tests say of locks that must wait.
LEMMA ChaosWaits == ChaosIInv => LocksWait
  <1> SUFFICES ASSUME ChaosIInv PROVE LocksWait
    OBVIOUS
  <1>0. IInv /\ CountersOK /\ OwnStored /\ TestInv
    BY DEF ChaosIInv
  <1>1. ASSUME test = "quorum", NEW k \in DOMAIN Script["main"], NEW j \in DOMAIN Script["main"],
               j < k, Locked(k), Script["main"][j][1] = "go"
        PROVE  ip[Script["main"][j][2]] > 1
    <2>1. /\ k \in {5, 11}
          /\ \/ j = 3 /\ Script["main"][j][2] = "extra"
             \/ j = 9 /\ Script["main"][j][2] = "again"
      BY <1>1, QuorumScripts DEF Locked
    <2>2. ip["main"] > k /\ ip["main"] \in Nat
      BY <1>0, <1>1 DEF Locked, CountersOK, Thread, Script, Scripts, testNotEnoughServersForQuorum
    <2>3. QuorumInv
      BY <1>0, <1>1 DEF TestInv
    <2> QED BY <1>1, <2>1, <2>2, <2>3 DEF QuorumInv
  <1>2. ASSUME test = "goingDown", NEW k \in DOMAIN Script["main"], NEW j \in DOMAIN Script["main"],
               j < k, Locked(k), Script["main"][j][1] = "go"
        PROVE  ip[Script["main"][j][2]] > 1
    <2>1. k \in {2, 9} /\ j = 7 /\ Script["main"][j][2] = "relaunch"
      BY <1>2, QuorumScripts DEF Locked
    <2>2. ip["main"] > k /\ ip["main"] \in Nat /\ ip["relaunch"] \in Nat
      BY <1>0, <1>2 DEF Locked, CountersOK, Thread, Script, Scripts, testServerGoingDown
    <2>3. GoingDownInv
      BY <1>0, <1>2 DEF TestInv
    <2> QED BY <1>2, <2>1, <2>2, <2>3 DEF GoingDownInv
  <1>3. ASSUME test = "singleDown" PROVE ~(Holding("dm") /\ Holding("dm2"))
    BY <1>0, <1>3, SingleDownWaits DEF TestInv
  <1>4. ASSUME test \in WriterTests PROVE ~Holding("dm")
    <2>1. WriterStaleInv /\ ip["main"] \in Nat
      BY <1>0, <1>4 DEF TestInv, CountersOK, Thread, Script, Scripts,
                        testMultipleStaleLocks, testClientThatHasLockCrashes, WriterTests
    <2>2. Visitors({"stale"}) \/ Blocked
      BY <2>1 DEF WriterStaleInv
    <2> QED BY <2>2, Names DEF Visitors, Blocked, Holding
  <1>5. ASSUME test = "readersCrash" PROVE ~Holding("dm")
    <2>1. ReadersStaleInv /\ ip["main"] \in Nat
      BY <1>0, <1>5 DEF TestInv, CountersOK, Thread, Script, Scripts, testTwoClientsThatHaveReadLocksCrash
    <2>2. Visitors({"reader3", "reader4"}) \/ Blocked
      BY <2>1 DEF ReadersStaleInv
    <2> QED BY <2>2, Names DEF Visitors, Blocked, Holding
  <1> QED
    BY <1>1, <1>2, <1>3, <1>4, <1>5 DEF LocksWait, StaleTests, WriterTests

(***************************************************************************)
(* What the tests of chaos.go expect of locks that must wait, for every    *)
(* number of faults and attempts: Lock returns with two of four servers    *)
(* killed only after one was launched again, a second lock is "not granted *)
(* too early", and stale locks on two servers keep Lock out for good.      *)
(***************************************************************************)
THEOREM ChaosLocksWait == ChaosSpec => []LocksWait
  BY ChaosInvariance, ChaosWaits, PTL

(***************************************************************************)
(* With a DRWMutex of its own for every client, Unlock finds the array of  *)
(* its caller and never panics, even with more servers crashed than the    *)
(* margin of NoPanic, as in the test of the known error.                   *)
(***************************************************************************)
THEOREM ChaosNoPanic == ChaosSpec => [](\A p \in Proc : pc[p] # "panic")
  <1>1. ChaosIInv => \A p \in Proc : pc[p] # "panic"
    BY DEF ChaosIInv, OwnStored
  <1> QED
    BY <1>1, ChaosInvariance, PTL
=============================================================================

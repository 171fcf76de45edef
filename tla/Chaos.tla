------------------------------- MODULE Chaos -------------------------------
(***************************************************************************)
(* The tests of chaos/chaos.go, run against the model of the DRWMutex: a   *)
(* test is a main thread and the goroutines it starts, each a script of    *)
(* kills and launches of server processes and of Lock and Unlock calls.    *)
(* Server k of the program is node k + 1.  The sleeps of a script say when *)
(* its steps are likely to happen; here they may happen at any time.       *)
(*                                                                         *)
(* A step is one of                                                        *)
(*   go t       the goroutine t is started                                 *)
(*   kill n     killProcess on server n                                    *)
(*   launch n   launchTestServers for server n                             *)
(*   lock p     Lock is called on the DRWMutex p                           *)
(*   locked p   ... and has returned                                       *)
(*   unlock p   Unlock is called on p                                      *)
(*   unlocked p ... and has returned                                       *)
(*   crash p    the process with DRWMutex p, which never releases, dies    *)
(*   select e   Lock has returned on dm or the timeout is over, and the    *)
(*              program is at its end (log.Fatalln) unless it is e         *)
(***************************************************************************)
EXTENDS DRWMutex

CONSTANT Tests              \* the tests that are run

VARIABLES test,             \* the test that is run
          ip,               \* next step of each thread, 0 if not started
          fatal             \* log.Fatalln was called

chaosVars == <<vars, test, ip, fatal>>

-----------------------------------------------------------------------------
(***************************************************************************)
(* The scripts, for n = 4 servers.                                         *)
(***************************************************************************)
testNotEnoughServersForQuorum ==
    [main |-> << <<"kill", 4>>, <<"kill", 3>>, <<"go", "extra">>,
                 <<"lock", "dm">>, <<"locked", "dm">>, <<"kill", 3>>,
                 <<"unlock", "dm">>, <<"unlocked", "dm">>, <<"go", "again">>,
                 <<"lock", "dm">>, <<"locked", "dm">>,
                 <<"unlock", "dm">>, <<"unlocked", "dm">>, <<"launch", 4>> >>,
     extra |-> << <<"launch", 3>> >>,
     again |-> << <<"launch", 3>> >>]

testServerGoingDown ==
    [main |-> << <<"lock", "dm">>, <<"locked", "dm">>, <<"unlock", "dm">>, <<"unlocked", "dm">>,
                 <<"kill", 4>>, <<"kill", 3>>, <<"go", "relaunch">>,
                 <<"lock", "dm">>, <<"locked", "dm">>, <<"unlock", "dm">>, <<"unlocked", "dm">> >>,
     relaunch |-> << <<"launch", 3>>, <<"launch", 4>> >>]

testSingleServerOverQuorumDownDuringLock ==
    [main |-> << <<"kill", 4>>, <<"lock", "dm">>, <<"locked", "dm">>, <<"kill", 3>>,
                 <<"go", "relaunch">>,
                 <<"lock", "dm2">>, <<"locked", "dm2">>, <<"unlock", "dm2">>, <<"unlocked", "dm2">> >>,
     relaunch |-> << <<"launch", 3>>, <<"launch", 4>>, <<"unlock", "dm">>, <<"unlocked", "dm">> >>]

\* By its sleeps, the first lock is given back after the second one was granted
\* (too soon), and the second one after that.
testMultipleServersOverQuorumDownDuringLockKnownError ==
    [main |-> << <<"lock", "dm">>, <<"locked", "dm">>,
                 <<"kill", 4>>, <<"kill", 3>>, <<"kill", 2>>, <<"go", "relaunch">>,
                 <<"lock", "dm2">>, <<"locked", "dm2">>, <<"unlocked", "dm">>,
                 <<"unlock", "dm2">>, <<"unlocked", "dm2">> >>,
     relaunch |-> << <<"launch", 2>>, <<"launch", 3>>, <<"launch", 4>>,
                     <<"locked", "dm2">>, <<"unlock", "dm">>, <<"unlocked", "dm">> >>]

\* Server 4 is restarted with a client that takes the lock and never releases it,
\* and killed with it.
staleLock ==
    << <<"kill", 4>>, <<"launch", 4>>, <<"lock", "stale">>, <<"locked", "stale">>,
       <<"crash", "stale">>, <<"kill", 4>> >>

\* "Trying to get the lock again": Lock is called in a goroutine of its own, and the
\* main thread waits for it or for the timeout, of which it expects one.
lockAgain(expected) ==
    << <<"lock", "dm">>, <<"select", expected>>, <<"unlock", "dm">>, <<"unlocked", "dm">> >>

\* The timeout is two seconds, and expected, before maintenance has kicked in, and
\* sixty seconds, and fatal, after that.
Expected(beforeMaintenanceKicksIn) == IF beforeMaintenanceKicksIn THEN "timeout" ELSE "lock"

testSingleStaleLock(beforeMaintenanceKicksIn) ==
    [main |-> staleLock
              \o << <<"kill", 3>>, <<"kill", 2>>, <<"launch", 2>>, <<"launch", 3>>, <<"launch", 4>> >>
              \o lockAgain(Expected(beforeMaintenanceKicksIn))]

testMultipleStaleLocks(beforeMaintenanceKicksIn) ==
    [main |-> staleLock
              \o << <<"kill", 3>>, <<"launch", 3>>, <<"launch", 4>> >>
              \o lockAgain(Expected(beforeMaintenanceKicksIn))]

testClientThatHasLockCrashes ==
    [main |-> staleLock \o << <<"launch", 4>> >> \o lockAgain("lock")]

\* The two clients start on their own; both are in when their servers are killed.
testTwoClientsThatHaveReadLocksCrash ==
    [main |-> << <<"kill", 4>>, <<"kill", 3>>,
                 <<"launch", 3>>, <<"go", "client">>, <<"launch", 4>>, <<"lock", "reader4">>,
                 <<"locked", "reader3">>, <<"locked", "reader4">>,
                 <<"crash", "reader4">>, <<"kill", 4>>, <<"crash", "reader3">>, <<"kill", 3>>,
                 <<"launch", 3>>, <<"launch", 4>> >>
              \o lockAgain("lock"),
     client |-> << <<"lock", "reader3">> >>]

Scripts ==
    [quorum |-> testNotEnoughServersForQuorum,
     goingDown |-> testServerGoingDown,
     singleDown |-> testSingleServerOverQuorumDownDuringLock,
     knownError |-> testMultipleServersOverQuorumDownDuringLockKnownError,
     singleStaleBefore |-> testSingleStaleLock(TRUE),
     singleStaleAfter |-> testSingleStaleLock(FALSE),
     multipleStaleBefore |-> testMultipleStaleLocks(TRUE),
     multipleStaleAfter |-> testMultipleStaleLocks(FALSE),
     clientCrashes |-> testClientThatHasLockCrashes,
     readersCrash |-> testTwoClientsThatHaveReadLocksCrash]

ASSUME TestsAssumption == Tests \subseteq DOMAIN Scripts

\* The program: four servers, every client with a DRWMutex of its own, and nothing
\* that breaks but the processes the tests kill.
ASSUME ProgramAssumption ==
    /\ dNodeCount = 4
    /\ Proc = {"dm", "dm2", "stale", "reader3", "reader4"} /\ Reader = {"reader3", "reader4"}
    /\ Mutex = Proc /\ dmOf = [p \in Proc |-> p]
    /\ FaultKinds = {"server", "client"}

Script == Scripts[test]
Thread == DOMAIN Script

-----------------------------------------------------------------------------
ChaosInit ==
    /\ Init
    /\ test \in Tests
    /\ ip = [t \in Thread |-> IF t = "main" THEN 1 ELSE 0]
    /\ fatal = FALSE

Started(t) == ip[t] > 0
Finished(t) == ip[t] > Len(Script[t])

Advance(t) == ip' = [ip EXCEPT ![t] = @ + 1]

Do(op, x) ==
    \/ op = "kill" /\ ServerCrash(x)
    \/ op = "launch" /\ ServerRestart(x)
    \/ op = "lock" /\ CallLock(x)
    \/ op = "locked" /\ pc[x] = "held" /\ UNCHANGED vars
    \/ op = "unlock" /\ Unlock(x)
    \/ op = "unlocked" /\ pc[x] = "idle" /\ UNCHANGED vars
    \/ op = "crash" /\ ClientCrash(x)

(***************************************************************************)
(* select: Lock has returned, and the thread goes on to Unlock, or the     *)
(* timeout is over, and the test is (Lock goes on behind its back).  Both  *)
(* timeouts are longer than an attempt takes on one machine, so none is    *)
(* over before an attempt was refused.  What was not expected is fatal.    *)
(***************************************************************************)
Select(t, expected) ==
    /\ \/ /\ pc["dm"] = "held"
          /\ Advance(t)
          /\ fatal' = (expected # "lock")
       \/ /\ pc["dm"] = "backoff"
          /\ ip' = [ip EXCEPT ![t] = Len(Script[t]) + 1]
          /\ fatal' = (expected # "timeout")
    /\ UNCHANGED vars

\* The next step of thread t.
RunStep(t) ==
    /\ ~fatal /\ Started(t) /\ ~Finished(t)
    /\ LET step == Script[t][ip[t]]
       IN  \/ Do(step[1], step[2]) /\ Advance(t) /\ UNCHANGED fatal
           \/ /\ step[1] = "go"
              /\ ip' = [ip EXCEPT ![t] = @ + 1, ![step[2]] = 1]
              /\ UNCHANGED <<vars, fatal>>
           \/ step[1] = "select" /\ Select(t, step[2])
    /\ UNCHANGED test

(***************************************************************************)
(* What goes on inside the Lock and Unlock calls.  All processes run on    *)
(* one machine, where a call is answered or refused long before the second *)
(* of the collector's timeout.  The tests of stale locks depend on that: a *)
(* client whose collector timed out gives back the grants that come later, *)
(* and leaves fewer locks behind when it dies.                             *)
(***************************************************************************)
Inside ==
    /\ \/ \E p \in Proc : \/ NextAttempt(p) \/ LockSucceeds(p) \/ LockFails(p)
                           \/ CopyLocks(p) \/ unlock(p)
       \/ \E r \in Req : Collector(r) \/ \E n \in Node : ServeLock(r, n) \/ CallFails(r, n)
    /\ UNCHANGED <<test, ip, fatal>>

ChaosNext == Inside \/ \E t \in Thread : RunStep(t)

\* A thread that is not blocked goes on after its sleep.  A timer that has fired stays
\* ready, whatever Lock does meanwhile, hence the strong fairness of the main thread.
ChaosSpec ==
    /\ ChaosInit /\ [][ChaosNext]_chaosVars
    /\ LockFairness
    /\ SF_chaosVars(RunStep("main"))
    /\ \A t \in {"extra", "again", "relaunch", "client"} :
          WF_chaosVars(t \in Thread /\ RunStep(t))

-----------------------------------------------------------------------------
\* Step k of the main thread is over and it waited for a Lock to return.
Locked(k) == Script["main"][k][1] = "locked" /\ ip["main"] > k

\* Several servers keep the lock of a client that has crashed.
StaleTests == {"multipleStaleBefore", "multipleStaleAfter", "clientCrashes", "readersCrash"}

(***************************************************************************)
(* What the tests say of locks that must wait.  With two of four servers   *)
(* killed Lock returns only after a server was launched; a second lock is  *)
(* "not granted too early", although a server with the first one lost its  *)
(* table and another came up empty; and stale locks on two or more servers *)
(* keep Lock out, be they write locks or read locks.                       *)
(***************************************************************************)
LocksWait ==
    /\ test \in {"quorum", "goingDown"} =>
          \A k \in DOMAIN Script["main"], j \in DOMAIN Script["main"] :
              j < k /\ Locked(k) /\ Script["main"][j][1] = "go" => ip[Script["main"][j][2]] > 1
    /\ test = "singleDown" => ~(Holding("dm") /\ Holding("dm2"))
    /\ test \in StaleTests => ~Holding("dm")

AllFinished == ~fatal /\ \A t \in Thread : Finished(t)

\* Those that expect Lock to return although two servers or more have a stale lock,
\* and the one that expects it not to although one server has.
FatalTests == {"multipleStaleAfter", "clientCrashes", "readersCrash", "singleStaleBefore"}

(***************************************************************************)
(* How the tests end.  Lock returns when enough servers are up again, a    *)
(* lock that lost a server is still unlocked, in the test of the known     *)
(* error the second lock is granted while the first is held, a single      *)
(* stale lock keeps nobody out ("Acquired lock") and several do ("Timed    *)
(* out (expected)").  The tests that have it the other way round end with  *)
(* "SHOULD NOT HAPPEN": for no stale lock does it matter whether the time  *)
(* of maintenance has come, as nothing ever removes one.                   *)
(***************************************************************************)
TestsEnd ==
    /\ test \notin FatalTests => <>AllFinished
    /\ test \in FatalTests => <>fatal

(***************************************************************************)
(* What testClientThatHasLockCrashes, its variant with two readers and     *)
(* testMultipleStaleLocks expect: "(after a lock maintenance loop)         *)
(* multiple stale locks will not prevent a new lock on same resource".     *)
(***************************************************************************)
StaleLocksGo ==
    test \in {"multipleStaleAfter", "clientCrashes", "readersCrash"} => <>AllFinished
=============================================================================

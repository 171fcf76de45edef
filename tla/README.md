# A formal model of dsync

dsync is a distributed readers-writer mutex. A client broadcasts a lock request
to all `n` lock servers and holds the lock when a quorum has granted it. This
directory holds TLA+ modules that model the client library, the lock servers, the
RPC client and the test programs of the repository, configurations that
model-check them with TLC, and proofs, checked by TLAPS, that the safety
properties and the refinements hold for every number of nodes, callers and faults.

Contents: [inventory](#the-system) · [modules](#modules-and-code) ·
[runs](#what-tlc-checks) · [fairness](#fairness) · [proofs](#what-is-proved) ·
[findings](#where-the-code-and-its-documentation-disagree) ·
[not modelled](#what-is-not-modelled) · [plan](#plan)

Running it:

    tlc -config shared.cfg MCDRWMutex      # any run; PROJECT.json lists them
    tlapm DRWMutexProofs.tla

## The system

| Component | Source | State it keeps | Operations |
|---|---|---|---|
| `Dsync` client object | `dsync.go` | node count, write quorum `n/2+1`, read quorum `ceil(n/2)`, the NetLockers | `New` |
| `DRWMutex` and its `DRLocker` | `drwmutex.go` | `writeLocks`, `readersLocks`, the mutex `m`; per attempt a `locks` array, a channel, a collector goroutine | `Lock`, `GetLock`, `RLock`, `GetRLock`, `Unlock`, `RUnlock`; inside: `lockBlocking`, `lock`, `quorumMet`, `releaseAll`, `unlock`, `sendRelease` |
| Retry timer | `retry.go` | attempt counter, current wait | the goroutine behind `newRetryTimerSimple` |
| NetLocker | `rpc-client-interface.go` | none (an interface) | `Lock`, `Unlock`, `RLock`, `RUnlock` |
| Lock server | `chaos/lock-rpc-server.go` | `lockMap`: resource → array of `lockRequesterInfo` | the four handlers, `removeEntry`; maintenance code that nothing calls |
| Reconnecting RPC client | `chaos/net-rpc-client.go`, copied in `performance/` | a connection and a mutex | `Call`, `Close`, the NetLocker methods |
| `DRWMutexNoWriterStarvation` | `chaos/chaos.go` | two DRWMutexes, `excl` and `rw` | `Lock`, `Unlock`, `RLock`, `RUnlock` |
| Chaos tests | `chaos/chaos.go`, `chaos-server.go` | server processes | kill, launch, and the test scripts |
| Performance program | `performance/` | counters per resource | a lock server without uids, a measuring loop |
| auth-locker example | `examples/auth-locker/` | sessions, counters | an example of a NetLocker with authentication |

How they interact. `lockBlocking` ranges over the retry timer's channel; every
attempt is one run of `lock()`, which starts one goroutine per node (a NetLocker
call each) and a collector that receives their answers from a buffered channel.
`lock()` returns when the collector has decided *and* all calls have come back,
but the collector lives on: answers it did not wait for are released one by one,
beside whatever the caller does next. A successful attempt is copied into the
DRWMutex under `dm.m`; `Unlock` takes it out again under the same mutex and
releases node by node, sending each release once. The servers share nothing, keep
their tables in memory and answer each request from their own table. The chaos
program kills and restarts servers under all this.

What is hard here, and what would be correct:

* **Interleaving.** Several callers collect partial quorums at once; goroutines
  share a DRWMutex and even a uid; a late release runs beside the next attempt
  with the same uid. Correct: writers exclude each other and readers, and no
  release takes away a lock that some attempt still counts on.
* **Late and lost messages.** A timeout races with answers in the channel; a grant
  whose answer is lost is held by nobody; a request whose call failed may still be
  handled by the server, after newer ones of the same uid. Correct: nothing that
  was received stays behind on a server, what stays behind lets nobody in, and what
  is handled late takes nothing away from anybody.
* **Crashes.** A server restarts with an empty table; a client dies with its locks.
  Correct: the overlap of the quorums makes up for as many servers as the README
  says.
* **Ending.** Calls with a timeout return, a caller left alone gets the lock, the
  timer goroutine ends, the RPC client reconnects and serves everybody in turn.
* **Boundaries.** Rounding of the quorums, the number of denials after which an
  attempt is lost, overflow of the back-off, the last entry of a server's array.

`PROJECT.json` lists these hazards one by one, with the lines where they bite and
the properties aimed at them.

## Modules and code

| Module | Models | Uses |
|---|---|---|
| `Dsync` | `dsync.go`: `dNodeCount`, the quorums, the assumption `2 <= n <= 32` that `New` enforces | |
| `LockTable` | what a server promises about one resource, as operators: `Grants`, `AfterLock`, `AfterUnlock` | |
| `DRWMutex` | `drwmutex.go` with the servers and faults | `Dsync`, `LockTable`, refines `RWLock` |
| `RWLock` | abstract specification: the readers-writer lock a caller sees | |
| `LockServer` | `chaos/lock-rpc-server.go` with its arrays | `LockTable`, refines `LockService` |
| `CountingServer` | `performance/performance-server.go`, which counts without uids | refines `LockService` |
| `LockServers` | the two servers side by side on the same requests | `LockServer`, `CountingServer` |
| `LockService` | abstract specification: atomic operations on `LockTable`s | `LockTable` |
| `NetLocker` | abstract specification: when a call through the interface is handled, and how it returns | |
| `RetryTimer` | `retry.go` | |
| `ReconnectRPCClient` | `net-rpc-client.go` | refines `NetLocker` |
| `NoWriterStarvation` | `DRWMutexNoWriterStarvation` over two `RWLock`s | `RWLock`, refines `RWLock` |
| `Chaos` | the tests of `chaos.go` as scripts over the DRWMutex model | `DRWMutex` |
| `MCDRWMutex`, `MCLockServer`, `MCChaos` | small instances for TLC | |
| `DRWMutexProofs` | theorems about `DRWMutex`: the invariant and what follows from it | `DRWMutex` |
| `DRWMutexRefinement` | theorem: `DRWMutex` implements `RWLock` | `DRWMutexProofs` |
| `DRWMutexReleaseProofs` | theorems about stale locks | `DRWMutexProofs` |
| `LockServerProofs` | theorems about both lock servers | `LockServers` |
| `ChaosProofs` | theorems about the tests | `Chaos`, `DRWMutexProofs` |
| `ReconnectRPCClientProofs`, `NoWriterStarvationProofs`, `RetryTimerProofs` | theorems about these components | |

The chain of abstractions: `LockServer` and `CountingServer` implement
`LockService`, whose operators are the servers of `DRWMutex`; `ReconnectRPCClient`
implements `NetLocker`, whose outcomes of a call are the ones `DRWMutex` allows;
`DRWMutex` implements `RWLock` as long as no server loses its table; and
`NoWriterStarvation` builds on two `RWLock`s and implements one.

### DRWMutex

| Variable | Code |
|---|---|
| `lockMap[n]` | the table of server `n` for the one modelled name |
| `up`, `forgot`, `died`, `faults` | servers running; history: servers that crashed, DRWMutexes whose process died, number of faults |
| `st[r][n]` | attempt `r` at node `n`: the call under way, its answer in the channel, the entry of `locks`, or counted in `locksFailed` |
| `stray[r][n]` | a lock call or a release of attempt `r` that failed, and which server `n` has read and handles later |
| `stage[r]` | how far `lock()` and its collector are, and where the array is afterwards |
| `pc[p]`, `req[p]` | where goroutine `p` is in `lockBlocking`, `Unlock` or `RUnlock`, and in which attempt |
| `writeLocks[d]`, `readersLocks[d]` | the fields of DRWMutex `d`; an array is named by the attempt that filled it |

| Action | Code |
|---|---|
| `CallLock`, `NextAttempt` | a run of `lock()`: the broadcast and the start of the collector |
| `ServeLock`, `CallFails`, `ReplyLost`, `CallDelayed` | one node's goroutine: the server handles the call and the answer is sent to `ch`; or the call returns an error and is never handled, was handled, or will be |
| `ServeStray` | the server gets to a request whose caller has given up on it |
| `sendRelease` | one release: handled, refused because the server is down, lost, or handled later |
| `ReceiveGrant`, `ReceiveDenial`, `CollectTimeout` | one round of the collector's `select` |
| `releaseAll`, `Drain` | giving back what an unsuccessful attempt locked; releasing answers after `wg.Done()` |
| `LockSucceeds`, `LockFails`, `GiveUp` | `lock()` returns; the loop of `lockBlocking` goes on or ends |
| `CopyLocks` | the copy into the DRWMutex under `dm.m` |
| `Unlock`, `RUnlock`, `unlock` | taking the array out (or the panic), then a release per node, still under `dm.m` |
| `ServerCrash`, `ServerRestart`, `ClientCrash` | the environment that the chaos tests create |

Abstractions. One resource name, since servers key everything by the name. An
attempt is a slot `r` that is reused when nothing of the old attempt is left, so
memory is finite without a bound on the number of attempts. There is no clock:
timeouts happen whenever the code could observe them. The buffered channel is
unordered, because the sending goroutines can be delayed at will. Each process of
the model makes one kind of call; a goroutine that both reads and writes is two
processes with one mutex and one uid. `Lock` of a `DRLocker` is `RLock` with an id
drawn for each call: a reader process for each id. The context given to
`NewDRWMutex` has no state: the `break` at `drwmutex.go:140` only leaves the
`select`. A stray request occupies the slot of its attempt, so a caller with one
slot starts over only when the server has got to it; callers that share a uid, and
callers with two slots, do not wait.

### LockServer, CountingServer, LockService, LockTable

Handlers run under `l.mutex` and are one action each. `LockServer` keeps the array
with its order, the uid and the writer flag of an entry; addresses and time stamps
are only read by maintenance code that is never called. The refinement compares
the tables, the request and whether the client would see success (`reply` without
an error). `CountingServer` keeps -1 or a count per name and never looks at the uid;
it implements a `LockService` whose requests all have one uid (`OneUid`), so what is
shown of `DRWMutex` for every assignment of uids holds with it too. `LockServers`
feeds the same requests to both; the history variable `foreign` says that somebody
released a lock only others had, which is what the chaos server refuses and the
counting server does not.

### RetryTimer

The goroutine's two `select` statements, the exponential back-off and its jitter,
and a receiver which either behaves like `lockBlocking` (closes `doneCh` and never
receives again) or like the tests (receives once more). Durations are two's
complement integers of `IntBits` bits.

### ReconnectRPCClient

`Call` with the mutex held throughout, the dial, the one repetition after
`ErrShutdown`, `Close`. `net/rpc` and the server are external and modelled by what
`Call` can observe: a good connection, one that broke without being noticed, one
that is shut down. A request that was written is with the server (`pending`),
handled (`served`) or gone with the connection (`lost`); when the call fails while
it is pending it stays with the server (`late`) until the server handles it or
crashes. An answer may be the handler's own error (`refused`, a `rpc.ServerError`),
which is not `ErrShutdown` and keeps the connection. `NetLocker` says what callers
may rely on: handled exactly once when answered, at most once when the call failed
on the way, possibly late.

### NoWriterStarvation and Chaos

`NoWriterStarvation` composes two instances of `RWLock`. `Chaos` runs scripts (a
main thread and the goroutines it starts) whose steps are actions of `DRWMutex`;
its sleeps become "any time later". The clients that the tests launch beside a server
are processes of their own (`stale`, `reader3`, `reader4`) that lock and then crash
with the server. `testSingleStaleLock` and `testMultipleStaleLocks`, which the
program runs before and after maintenance could have kicked in, are two scripts
each: the one expects the timeout, the other the lock. `Select` is the `select` on
`ch` and `timeOut`: Lock has returned, or an attempt was refused and the timeout,
which is longer than any attempt, is over; what the test did not expect sets `fatal`,
the `log.Fatalln` that ends the program. The scripts are independent of each other;
the program itself would not get beyond the first fatal one.
`DRWMutex.CollectTimeout` is left out of `Chaos`, since all processes of the test run
on one machine and answers take far less than the second of `DRWMutexAcquireTimeout`.
`LocksWait` depends on this for the tests of stale locks: a client whose collector
had timed out would give back the grants that come later and leave fewer locks behind
when it dies.

## What TLC checks

Every property has a mutant in `PROJECT.json`: a plausible bug in the mapped code
under which TLC finds the property violated with the same configuration.

| Run | Instance | Properties | States |
|---|---|---|---|
| `shared` | 2 nodes; a writer and two readers, one with a timeout, on **one** DRWMutex with one uid | `GrantsBacked`, `NoPanic`, `ImplementsRWLock` | 411 718 |
| `lost` | 3 nodes; a writer and a reader with their own mutex and uid; one fault: a call, an answer or a release lost, a call or a release handled late, or a client crash | `ReadersExcludeWriter`, `GrantsBacked`, `StaleLocksBounded` | 1 096 139 |
| `crash` | 2 nodes; two writers and a reader on one DRWMutex with one uid; one server crash or one release handled late | `TypeOK`, `WritersExclude`, `NoPanic`, `NoStaleLocks`, `GrantsBacked` | 1 015 671 |
| `progress` | 2 nodes; a writer whose attempts may overlap and a reader with timeout, on one DRWMutex; no faults | `GrantsBacked`, `CallsReturn`, `EventuallyVacant`, `WaiterAcquires` | 53 294 |
| `lockserver` | both servers; two names, two uids, up to 3 entries | `ArraysSound`, `ServersAgree`, `ImplementsLockService`, `CountingImplementsLockService` | 95 677 |
| `retry` | `unit` 3, `cap` 20, 12-bit durations, exponent limit 8, 14 attempts | `BackoffSound`, `TimerStops`, `NextAttemptComes` | 2 742 |
| `rpcclient` | two callers, three faults | `ImplementsNetLocker`, `TurnsTaken`, `Reconnects` | 6 965 |
| `starvation` | two readers, two writers | `ImplementsPairRWLock`, `NoOvertaking`, `WriterGetsIn` | 260 |
| `chaos` | 4 nodes, the clients of the eight tests, two of them in two variants | `LocksWait`, `GrantsBacked`, `TestsEnd` | 21 134 |
| `hung` | 3 nodes, one of which never answers | `CallsReturn` is **violated** | |
| `clientcrash` | the three chaos tests with several stale locks | `StaleLocksGo` is **violated** | |
| `onecrash` | 4 nodes, a reader and a writer, one server crash | `SingleCrashExclusion` is **violated** | |

What they show:

* `shared`: goroutines of one process on one DRWMutex see a readers-writer lock,
  although they share a uid, although `RUnlock` gives back the *oldest* array and
  not the caller's own, and although late releases go out under the uid of locks
  that are held. A server always has every lock an attempt counts.
* `lost`: no lost call, answer or release, no request that is handled long after
  its call failed, and no dead client lets a reader in beside a writer or takes a
  lock from its holder. Without a fault nothing is left that nobody will release,
  and with one it is on one server only or the client that it belongs to has died
  (`StaleLocksBounded`, with the history variable `died`): a release that is lost
  does not keep the others from being sent.
* `crash`: a crashed server of two does not let a second writer in and causes no
  panic; without lost messages or dead clients, what is in a server's table is
  always known to an attempt that will release it, or to a release on its way
  (`NoStaleLocks`). A release handled late meets the locks of other goroutines with
  the same uid and removes none of them: until it is handled its server refuses
  other writers.
* `progress`: timed calls return, releases come through, and a waiter that is left
  alone is served, also when an attempt starts while its predecessor is still being
  drained. It may then be refused by its own old locks, as often as this happens;
  `WaiterAcquires` asks for a back-off that ends up longer than the draining.
* `lockserver`: both servers are the tables that `DRWMutex` uses, and well-behaved
  clients cannot tell them apart.
* `rpcclient`: the outcomes of a call that `DRWMutex` allows are those that the RPC
  client produces: although `Call` starts over, nothing is handled twice. `Call`
  gives its mutex back on every way out; the one thing that keeps it is a server
  which is up and does not answer, since neither the dial nor the RPC has a timeout
  (`TurnsTaken` says exactly this and no more).
* `retry`, `starvation`: the components by themselves. Attempts go on past
  `maxAttempt`, which limits the growth of the waits only.
* `chaos`: with every interleaving of the kills, the launches and the protocol, six
  of the ten scripts end as `chaos.go` expects. The other four end in `log.Fatalln`
  (`FatalTests`): the three that wait for the locks of dead clients to be removed
  from several servers, where Lock never returns (`LocksWait`, and `clientcrash` for
  the tests' own claim), and `testSingleStaleLock` before maintenance, where Lock
  returns although the test says it must not. Dead clients, and two
  processes that pass the same id, cost nobody a lock on a server that kept its
  table (`GrantsBacked`).

### Bounds

* **Nodes.** With 2 nodes the quorums are 2 (write) and 1 (read), with 3 they are 2
  and 2, with 4 they are 3 and 2: an even count with the read quorum below the
  write quorum, an odd one with both equal, and room for a minority that differs
  between two attempts. The proofs cover all counts up to 32.
* **Callers.** Two writers and a reader, or two readers and a writer: every pair of
  kinds meets, and `readersLocks` has more than one array.
* **Overlap** names the callers with two slots, whose next attempt may start while
  the last one is being drained: the writer of `progress`. In the other runs the
  same meeting of an old and a new attempt under one uid happens between goroutines
  that share mutex and uid, which is the harder case, since there both attempts may
  succeed. The proofs have any number of slots.
* **Symmetry.** The two writers of `crash` share mutex and uid and are
  interchangeable (`WriterSymmetry`); each has one slot, so no CHOOSE tells them
  apart.
* **MaxFaults** bounds faults, not the behaviour after them. It is 1 where requests
  may be delayed, since every stray request can be handled at any later time; the
  proofs have any number of faults of all kinds together.
* **retry** scales Go's 64 bits and limit 30 down to 12 bits and limit 8, so that
  the numbers past which an unlimited exponent overflows are reached;
  `3 * 2^8 < 2^11` mirrors `10^9 * 2^30 < 2^63` of the default unit of a second.
* `ReaderFirst` in `onecrash` narrows the search for a counterexample; it has no
  part in a passing run.
* `CHECK_DEADLOCK FALSE` is set where the program may stop: in `hung` a caller
  blocks for ever, in `retry` the loop ends, in `chaos` a test ends.

## Fairness

`FairSpec` of `DRWMutex` assumes what the Go runtime and the library give:

* weak fairness of the steps inside calls (`LockFairness`): the scheduler runs
  goroutines that can run, and a NetLocker call to a server that is not `Hung`
  returns;
* strong fairness of what takes `dm.m` (`CopyLocks`, `Unlock`, `RUnlock`):
  `sync.Mutex` hands the lock to a waiter after a millisecond, so nobody starves;
* strong fairness of `GiveUp`: `time.Now()` passes the timeout, after which the
  first failed attempt ends the call;
* nothing for `ServeStray`: a request whose connection broke may be handled at any
  time or never;
* `TimeoutFairness`: `time.After` fires;
* `UnlockFairness`: callers that hold the lock give it back. This is an assumption
  about the program that uses dsync, as for any mutex.

Starting a call, crashes, restarts and losses have no fairness. Acquisition under
contention is not claimed: attempts of several callers can fail each other for
ever, and dsync only makes that unlikely. `WaiterAcquires` therefore speaks of a
caller that is left alone, of servers that answer before the collector's timeout,
and of waits between attempts that are longer than the draining of the last one.

In `NoWriterStarvation` only *some* caller gets `excl`. In `ReconnectRPCClient` the
goroutine inside `Call` goes on when it can, a broken connection is noticed and the
mutex is handed round; nothing makes the server accept a dial, handle a request or
answer it. `Reconnects` has the answering server as a premise (`ServerAnswers`). In
`Chaos` the threads of a test are weakly fair, the main one strongly: a timer that has
fired stays ready while Lock goes on with its attempts.

## What is proved

`DRWMutexProofs` proves, for every `dNodeCount` that `New` accepts, every finite
set of goroutines and attempts, every assignment of DRWMutexes and uids, every set
of hung servers, every choice of fault kinds (late handling included) and every
bound on faults:

| Theorem | Statement |
|---|---|
| `Invariance` | `Spec => []IInv` |
| `TypeCorrect` | `Spec => []TypeOK` |
| `GrantsAreBacked` | `Spec => []GrantsBacked` |
| `WriterExclusion` | `Spec => []WritersExclude` |
| `ReaderWriterExclusion` | `Spec => []ReadersExcludeWriter` |
| `PanicFreedom` | `Spec => []NoPanic` |

Assumptions: `NewAssumption` (`dNodeCount \in 2..32`), `NoUidAssumption` (the
empty id is nobody's) and `ProcAssumption` (types and finiteness of the constants).

The argument. Neither exclusion is inductive: that two callers cannot both have a
quorum depends on what the servers store. `IInv` adds

* `AttemptsLinked`, `ArraysLinked`: which attempt belongs to which goroutine and
  DRWMutex at each point, so that an action touches only its own attempt;
* `QuorumKept`: an attempt that was won has its quorum until it is taken out;
* `TablesSound`: a table with a writer has no readers;
* `StraysApart`: an attempt has no lock at a node where a request of it is stray, so
  that handling it late touches nothing the attempt counts on;
* `GrantsBacked`: a server that never crashed has every lock an attempt counts, and
  with a writer's lock nothing else. This is the heart: it fails as soon as a
  release could remove a lock other than its own, and its step (`GrantsStep`, over
  `BackedGrant`, `BackedRelease`, `BackedShrink`, `BackedStray`) is a counting
  argument per uid, since attempts with one uid cannot be told apart by the server.
  A release that is to be handled late still counts as a lock (`Outstanding`), which
  is why it can only ever remove its own; a lock call that is handled late adds a
  lock that nobody counts;
* `ReadersCounted`, `WriterStored`: `readersLocks` has an array per reader that is
  in, `writeLocks` the array of the writer, which gives panic freedom.

`Overlap` says that two sets of nodes share at least as many nodes as their sizes
exceed `n`; `QuorumNat` computes this for the quorums of `New`: two write quorums
share two nodes for even `n` and one for odd `n` (`CrashMargin`), a read and a
write quorum always one. `Conflict` joins the two: two conflicting quorums must
share a server, which `GrantsBacked` allows only for servers that crashed. One step
per action then shows that `IInv` is preserved.

### DRWMutex as a readers-writer lock, and what it leaves on the servers

| Theorem | Module | Statement |
|---|---|---|
| `ImplementsWhileTablesKept` | `DRWMutexRefinement` | `Spec /\ [](forgot = {}) => ImplementsRWLock` |
| `RWLockImplemented` | `DRWMutexRefinement` | `ServersStay /\ Spec => ImplementsRWLock` |
| `StaleLockFreedom` | `DRWMutexReleaseProofs` | `NothingLost /\ Spec => []NoStaleLocks` |
| `StaleLocksAccounted` | `DRWMutexReleaseProofs` | `Spec => []StaleLocksBounded` |

The refinement maps a goroutine to `outside`, `waiting` or `inside` by its place in
the code (`View`). Every step of a call is a step of `RWLock` or none; the one that
needs the invariant is the return of a successful `lock()`, which must find nobody
inside that excludes it: by `QuorumKept` both would have a quorum, and `Conflict`
shows that two such quorums meet at a server, which cannot be unless it lost its
table. The hypothesis is needed: `onecrash` is its counterexample. `ServersStay`
(`"server"` is not one of `FaultKinds`) is one way to have it; all other faults may
happen, in any number.

`NoStaleLocks` is the converse of `GrantsBacked`: a table holds nothing that no
attempt counts. It does not hold when a call, an answer or a release is lost or a
client dies (`NothingLost` excludes these), which is what stale locks are; servers
may crash and restart and releases may be handled late. `StaleLocksBounded` says how
much is left in general: the clients that died, and the servers with a lock of a
living client that nobody will release, are together no more than the faults. A
client that dies leaves its locks on all servers at once; anything else that is lost
costs one server.

Both follow from one induction, server by server. A server is `Clean`, as far as the
uids of a set `U` go, as long as its table is covered by attempts that know of their
locks and no lock call of a caller that gave up is waiting there. A step leaves every
clean server clean, or it is a loss at one server and counts as a fault
(`CleanStep`); only the crash of a client does more, and there the servers stay clean
with its uid struck from `U` (`CleanBeside`). A server that is down has no table
(`DownForgets`), so a release that is refused misses nothing.

### The lock servers

`LockServerProofs`, for all sets of names and uids and arrays of any length:

| Theorem | Statement |
|---|---|
| `ArraysStaySound` | `Spec => []ArraysSound` |
| `LockServiceImplemented` | `Spec => ImplementsLockService` |
| `ServersStayAlike` | `BothSpec => []ServersAgree` |
| `CountingServiceImplemented` | `BothSpec => CountingImplementsLockService` |

`ArraysSound` is inductive: `removeEntry` deletes the key with its last entry, and
`RLock` never appends to a writer's array. The first refinement maps an array to
the number of positions at which a read lock of each uid stands; `CountAppend` and
`CountRemove` say how `append` and the removal of one entry change that number (the
positions behind a removed entry move down by one, a bijection), and `FirstMine`
what the loop of `removeEntry` finds. A name without a key is treated as one with
the empty array, which makes the last `RUnlock` a removal like any other. The second
one rests on `CountsSound`, a key has -1 or a positive count. `ServersAgree` is
inductive with `ArraysSound`: the servers part only where `removeEntry` finds no
entry of the uid, which is what sets `foreign`.

### The other components

| Theorem | Module | Statement |
|---|---|---|
| `NetLockerImplemented` | `ReconnectRPCClientProofs` | `Spec => ImplementsNetLocker` |
| `ProtocolFollowed` | `NoWriterStarvationProofs` | `Spec => []Protocol` |
| `NotOvertaken` | `NoWriterStarvationProofs` | `Spec => NoOvertaking` |
| `PairImplemented` | `NoWriterStarvationProofs` | `Spec => ImplementsPairRWLock` |
| `BackoffStaysSound` | `RetryTimerProofs` | `Spec => BackoffSound` |

The RPC client: a request that was written is at one place only (`pc`), and the step
back to a second try starts before anything was written. `Protocol` says that `excl` has one
owner and that whoever asks for `rw` is that owner; both results about the pair
follow from it. `BackoffSound` needs the assumptions of `RetryTimer` on its
constants: `UnitAssumption`, the largest product fits a duration (true for a second,
30 and 64 bits, and for every unit up to eight seconds), and `PowerAssumption`, what
`^` means for exponents up to the width, of which the provers have no theory; TLC
evaluates both. The invariant is that `window` is the window of the last attempt;
the powers are bounded by least counterexamples, as is the minimum in `FirstMine`.

### The chaos tests

| Theorem | Module | Statement |
|---|---|---|
| `ChaosInvariance` | `ChaosProofs` | `ChaosSpec => []ChaosIInv` |
| `ChaosLocksWait` | `ChaosProofs` | `ChaosSpec => []LocksWait` |
| `ChaosNoPanic` | `ChaosProofs` | `ChaosSpec => [](\A p \in Proc : pc[p] # "panic")` |

The assumptions say what the program is: four servers, the five clients with a
DRWMutex each, killed processes as the only faults (`ProgramAssumption`), and tests
that are among its scripts (`TestsAssumption`). The number of slots and of
faults and the uids are free.

A step of a script is a step of `DRWMutex`, so `IInv` holds in every test.
`ChaosIInv` adds, for clients that share no DRWMutex, that an attempt with work to
do is the one its caller waits for (`Awaited`) and that a writer finds its own array
(`OwnStored`), and for each test what its main thread knows at each of its steps
(`TestInv`). Locks wait for three reasons. Two servers are down and granted `dm`
nothing before they went (`Starved`): a write quorum of four has three. A server
restarted and granted `dm` nothing while it was down (`Parted`), so what `dm` holds,
`dm2` cannot. Clients died with their locks on servers 1 and 2 (`Visitors` until
then, `Blocked` afterwards), and two servers are no quorum for a writer, nor are the
other two. `ChaosNoPanic` has no hypothesis about crashed servers, unlike `NoPanic`:
a client that is alone on its DRWMutex finds its array whatever the others hold.

### Only model-checked

* Everything with liveness: `CallsReturn`, `EventuallyVacant`, `WaiterAcquires`,
  `TimerStops`, `NextAttemptComes`, `TurnsTaken`, `Reconnects`, `WriterGetsIn`,
  `TestsEnd`. Fairness and `ENABLED` are out of the prover's reach.

Every invariant of a passing run, and every action property but those above, is
stated by a theorem.

## Where the code and its documentation disagree

Three runs show what the code does against a statement of the repository:

* `hung`: `lock()` waits with `wg.Wait()` for *all* nodes, so a node that accepts a
  call and never answers blocks `GetLock` beyond its timeout
  (`drwmutex.go:97-98` against `:283`). The collector's one second does not help.
* `clientcrash`: the maintenance that removes stale locks is never called, so the
  locks of crashed clients stay, write locks and read locks alike, and the tests
  that wait for them to go end with "Timed out -- SHOULD NOT HAPPEN"
  (`chaos.go:422-423`, `:354-355`, `README.md:213`).
* `onecrash`: a *read* quorum and a write quorum share one node only, so a single
  crash lets a writer in beside a reader, for every node count
  (`chaos.go:171-172`; the README speaks of two crashes, and of write locks). For
  odd node counts two write quorums share a single node as well, which is why
  `CrashMargin` is 1 there.

Two passing runs check what the code does where a comment or a test has it otherwise:

* `chaos`, `TestsEnd`: with one stale lock Lock returns at once, as the comment of
  `testSingleStaleLock` says ("despite a single stale lock, a new lock can still be
  acquired", `chaos.go:284`); its variant before maintenance calls this "Acquired
  lock -- SHOULD NOT HAPPEN" and ends the program (`chaos.go:333-335`).
* `retry`, `NextAttemptComes`: the comments of the three constructors
  (`retry.go:60-61`, `:130-131`, `:137-138`) say that the timer runs "until the
  maximum retry attempts are reached"; `maxAttempt` (`retry.go:79`) only limits the
  exponent, and attempts come until `doneCh` is closed. `Lock`, which has no timeout,
  depends on what the code does.

Noticed while modelling, without a run of their own:

* `README.md:203` promises that an unlock is retried until delivered; `sendRelease`
  sends it once. With `FaultKinds = {"release"}` and one fault `EventuallyVacant`
  fails.
* `retry_test.go:39-41` expects a closed channel right after `close(doneCh)`; when
  the timer is ready to offer an attempt, the `select` may deliver it instead.
* With the default unit and cap of one second each, waits never grow, although
  `retry.go:137` and `drwmutex.go:168` speak of incremental waiting.
* Cancelling the context has no effect on `Lock`, and an empty id is granted locks
  that are counted as denials and never released.
* The comment at `performance.go:146` announces a graceful abort with release of
  locks, but the wait that lets release messages out is skipped after an interrupt.
* The goroutines of the chaos tests and the main thread change the slice `servers`
  without synchronisation.
* After as many server crashes as `CrashMargin`, a second writer on the same
  DRWMutex overwrites `writeLocks`, and the second `Unlock` panics.

## What is not modelled

* `examples/auth-locker`: it has no behaviour to model. `LoginArgs` has unexported
  fields only, which `encoding/gob` refuses, so `Login` never succeeds; the client
  returns that error from every call, and the handlers refuse every request without
  a session. (`main.go` also dials addresses without a port.)
* `performance.go`: its loop is a caller of `Lock` and `Unlock` as in `DRWMutex`;
  the rest is timing and printing.
* Lock maintenance in `lock-rpc-server.go` (`getLongLivedLocks`,
  `removeEntryIfExists`): never called.
* `testWriterStarvation` as a script: its claim, that with `excl` a later reader
  does not overtake a waiting writer, is `NoOvertaking` for any number of callers.
* Cancelled contexts and empty ids, see above; logging and the `source` argument;
  flags and process handling.

## Plan

Done: inventory; `Dsync`, `LockTable`, `DRWMutex` with `RWLock` first, because
mutual exclusion over quorums is what dsync is for; then the components it rests on
(`LockServer`, `CountingServer`, `RetryTimer`, `ReconnectRPCClient` with
`NetLocker`) and the ones built on it (`NoWriterStarvation`, `Chaos`); delayed
handling of requests; the safety proofs of `DRWMutex`; the refinements of all four
abstract specifications; every safety property of the components; the bound on stale
locks; what the chaos tests expect of locks that must wait.

Next:

1. How stale locks delay others: with at most `n - (n/2+1)` servers that keep a stale
   lock, a writer who is left alone still gets a quorum. Its safety half follows from
   `StaleLocksBounded`; the other half is liveness.
2. The liveness properties, should the prover learn `ENABLED` and fairness.

---------------------- MODULE ReconnectRPCClientProofs ----------------------
(***************************************************************************)
(* ReconnectRPCClient keeps the promise of the NetLocker interface, for    *)
(* all numbers of goroutines and faults: starting over after ErrShutdown   *)
(* never lets the server handle a Lock or an Unlock twice.                 *)
(***************************************************************************)
EXTENDS ReconnectRPCClient, TLAPS

\* The types that the refinement rests on.
Types ==
    /\ pc \in [Caller -> {"idle", "first", "second", "pending", "served", "lost"}]
    /\ late \in [Caller -> Nat]
    /\ result \in [Caller -> Locker!Result]

\* Every step keeps the types.
LEMMA StepTypes == Types /\ [Next]_vars => Types'
  <1> SUFFICES ASSUME Types, [Next]_vars PROVE Types'
    OBVIOUS
  <1> USE DEF Types, Locker!Result
  <1>1. ASSUME NEW c \in Caller, Call(c) \/ ServeLate(c) PROVE Types'
    BY <1>1 DEF Call, ServeLate
  <1>2. ASSUME NEW c \in Caller, Dial(c) \/ DialFails(c) \/ Send(c) \/ ErrShutdown(c) PROVE Types'
    BY <1>2 DEF Dial, DialFails, Send, ErrShutdown, Return
  <1>3. ASSUME NEW c \in Caller, Serve(c) \/ Reply(c) PROVE Types'
    BY <1>3 DEF Serve, Reply, Return
  <1>4. ASSUME NEW c \in Caller, CallFails(c) PROVE Types'
    BY <1>4 DEF CallFails, Return, LeaveBehind
  <1>5. CASE Notice \/ Close \/ ServerRestart
    BY <1>5 DEF Notice, Close, ServerRestart
  <1>6. CASE Break \/ ServerCrash
    BY <1>6 DEF Break, ServerCrash, Lose
  <1>7. CASE UNCHANGED vars
    BY <1>7 DEF vars
  <1> QED BY <1>1, <1>2, <1>3, <1>4, <1>5, <1>6, <1>7 DEF Next, Step, Serves

\* What the caller sees of a goroutine at x whose last call had the result y.
View(x, y) == IF x = "idle" THEN y ELSE IF x = "served" THEN "handled" ELSE "asked"

\* AbstractCall is the view of each call, before a step and after it.
LEMMA ViewOfCalls == AbstractCall = [c \in Caller |-> View(pc[c], result[c])]
  BY DEF AbstractCall, View

\* The same after a step.
LEMMA ViewOfNextCalls == AbstractCall' = [c \in Caller |-> View(pc'[c], result'[c])]
  BY DEF AbstractCall, View

\* The goroutine of c goes from its point in Call to x, its last result is y.
LEMMA ViewMoves ==
    ASSUME Types, NEW c \in Caller, NEW x, NEW y,
           pc' = [pc EXCEPT ![c] = x], result' = [result EXCEPT ![c] = y]
    PROVE  /\ AbstractCall[c] = View(pc[c], result[c])
           /\ AbstractCall' = [AbstractCall EXCEPT ![c] = View(x, y)]
           /\ View(x, y) = View(pc[c], result[c]) => AbstractCall' = AbstractCall
  <1> DEFINE before == [d \in Caller |-> View(pc[d], result[d])]
             after == [d \in Caller |-> View(pc'[d], result'[d])]
  <1>1. AbstractCall = before /\ AbstractCall' = after
    BY ViewOfCalls, ViewOfNextCalls
  <1> HIDE DEF before, after
  <1>2. before[c] = View(pc[c], result[c])
    BY DEF before
  <1>3. \A d \in Caller : pc'[d] = (IF d = c THEN x ELSE pc[d])
                          /\ result'[d] = (IF d = c THEN y ELSE result[d])
    BY DEF Types
  <1>4. after = [before EXCEPT ![c] = View(x, y)]
    <2>1. \A d \in Caller : after[d] = IF d = c THEN View(x, y) ELSE before[d]
      BY <1>3 DEF before, after
    <2>2. before = [d \in Caller |-> before[d]] /\ after = [d \in Caller |-> after[d]]
      BY DEF before, after
    <2> QED BY <2>1, <2>2
  <1>5. ASSUME View(x, y) = View(pc[c], result[c]) PROVE after = before
    BY <1>3, <1>5 DEF before, after
  <1> QED BY <1>1, <1>2, <1>4, <1>5

\* A step that the callers do not see.
LEMMA ViewStays ==
    ASSUME \A c \in Caller : View(pc'[c], result'[c]) = View(pc[c], result[c])
    PROVE  AbstractCall' = AbstractCall
  BY ViewOfCalls, ViewOfNextCalls

\* A call returns, and its outcome is what the caller sees of it.
LEMMA ViewReturns ==
    ASSUME Types, NEW c \in Caller, NEW outcome, Return(c, outcome)
    PROVE  /\ AbstractCall[c] = View(pc[c], result[c])
           /\ AbstractCall' = [AbstractCall EXCEPT ![c] = outcome]
  <1>1. pc' = [pc EXCEPT ![c] = "idle"] /\ result' = [result EXCEPT ![c] = outcome]
    BY DEF Return
  <1>2. AbstractCall[c] = View(pc[c], result[c])
        /\ AbstractCall' = [AbstractCall EXCEPT ![c] = View("idle", outcome)]
    BY <1>1, ViewMoves
  <1>3. View("idle", outcome) = outcome
    BY DEF View
  <1> QED BY <1>2, <1>3

\* A call comes back with an error, and nothing of it is left with the server.
LEMMA FailsCleanly ==
    ASSUME Types, NEW c \in Caller, pc[c] # "idle", Return(c, "error"), late' = late
    PROVE  Locker!Fail(c)
  <1>1. AbstractCall[c] = View(pc[c], result[c]) /\ AbstractCall' = [AbstractCall EXCEPT ![c] = "error"]
    BY ViewReturns
  <1>2. View(pc[c], result[c]) \in {"asked", "handled"}
    BY DEF View, Types
  <1> QED BY <1>1, <1>2 DEF Locker!Fail

(***************************************************************************)
(* Every step of one goroutine, or of the server on its behalf, is the     *)
(* matching step of the interface or none.                                 *)
(***************************************************************************)
LEMMA CallerRefines ==
    ASSUME Types, NEW c \in Caller, Call(c) \/ Step(c) \/ Serves(c) \/ ServeLate(c)
    PROVE  Locker!Next \/ UNCHANGED <<AbstractCall, late>>
  <1>1. CASE Call(c)
    <2>1. pc[c] = "idle" /\ pc' = [pc EXCEPT ![c] = "first"]
          /\ result' = [result EXCEPT ![c] = result[c]] /\ late' = late
      BY <1>1 DEF Call, Types
    <2>2. AbstractCall[c] = View(pc[c], result[c])
          /\ AbstractCall' = [AbstractCall EXCEPT ![c] = View("first", result[c])]
      BY <2>1, ViewMoves
    <2>3. View(pc[c], result[c]) \in Locker!Result /\ View("first", result[c]) = "asked"
      BY <2>1 DEF View, Types
    <2>4. Locker!Ask(c)
      BY <2>1, <2>2, <2>3 DEF Locker!Ask
    <2> QED BY <2>4 DEF Locker!Next
  <1>2. CASE Dial(c)
    BY <1>2, ViewStays DEF Dial
  <1>3. CASE DialFails(c)
    <2>1. pc[c] # "idle" /\ Return(c, "error") /\ late' = late
      BY <1>3 DEF DialFails, Dialing
    <2> QED BY <2>1, FailsCleanly DEF Locker!Next
  <1>4. CASE Send(c)
    <2>1. /\ \A d \in Caller : pc'[d] # pc[d] => pc[d] \in {"first", "second"} /\ pc'[d] \in {"pending", "lost"}
          /\ result' = result /\ late' = late
      BY <1>4 DEF Send, Dialing, Types
    <2> QED BY <2>1, ViewStays DEF View
  <1>5. CASE ErrShutdown(c)
    <2>1. CASE pc[c] = "first"
      <3>1. pc' = [pc EXCEPT ![c] = "second"] /\ result' = result /\ late' = late
        BY <1>5, <2>1 DEF ErrShutdown
      <3>2. \A d \in Caller : pc'[d] # pc[d] => pc[d] = "first" /\ pc'[d] = "second"
        BY <2>1, <3>1 DEF Types
      <3> QED BY <3>1, <3>2, ViewStays DEF View
    <2>2. CASE pc[c] = "second"
      <3>1. Return(c, "error") /\ late' = late
        BY <1>5, <2>2 DEF ErrShutdown
      <3> QED BY <2>2, <3>1, FailsCleanly DEF Locker!Next
    <2> QED BY <1>5, <2>1, <2>2 DEF ErrShutdown
  <1>6. CASE Serve(c)
    <2>1. pc[c] = "pending" /\ pc' = [pc EXCEPT ![c] = "served"]
          /\ result' = [result EXCEPT ![c] = result[c]] /\ late' = late
      BY <1>6 DEF Serve, Types
    <2>2. AbstractCall[c] = View(pc[c], result[c])
          /\ AbstractCall' = [AbstractCall EXCEPT ![c] = View("served", result[c])]
      BY <2>1, ViewMoves
    <2>3. View(pc[c], result[c]) = "asked" /\ View("served", result[c]) = "handled"
      BY <2>1 DEF View
    <2>4. Locker!Handle(c)
      BY <2>1, <2>2, <2>3 DEF Locker!Handle
    <2> QED BY <2>4 DEF Locker!Next
  <1>7. CASE Reply(c)
    <2> PICK outcome \in {"ok", "refused"} : Return(c, outcome)
      BY <1>7 DEF Reply
    <2>1. pc[c] = "served" /\ Return(c, outcome) /\ late' = late
      BY <1>7 DEF Reply
    <2>2. AbstractCall[c] = View(pc[c], result[c]) /\ AbstractCall' = [AbstractCall EXCEPT ![c] = outcome]
      BY <2>1, ViewReturns
    <2>3. View(pc[c], result[c]) = "handled"
      BY <2>1 DEF View
    <2>4. Locker!Answer(c)
      BY <2>1, <2>2, <2>3 DEF Locker!Answer
    <2> QED BY <2>4 DEF Locker!Next
  <1>8. CASE CallFails(c)
    <2>1. CASE pc[c] # "pending"
      <3>1. pc[c] # "idle" /\ Return(c, "error") /\ late' = late
        BY <1>8, <2>1 DEF CallFails, Waiting, LeaveBehind
      <3> QED BY <3>1, FailsCleanly DEF Locker!Next
    <2>2. CASE pc[c] = "pending"
      <3>1. Return(c, "error") /\ late' = [late EXCEPT ![c] = @ + 1]
        BY <1>8, <2>2 DEF CallFails, LeaveBehind
      <3>2. AbstractCall[c] = View(pc[c], result[c]) /\ AbstractCall' = [AbstractCall EXCEPT ![c] = "error"]
        BY <3>1, ViewReturns
      <3>3. View(pc[c], result[c]) = "asked"
        BY <2>2 DEF View
      <3>4. Locker!Fail(c)
        BY <3>1, <3>2, <3>3 DEF Locker!Fail
      <3> QED BY <3>4 DEF Locker!Next
    <2> QED BY <2>1, <2>2
  <1>9. CASE ServeLate(c)
    <2>1. AbstractCall' = AbstractCall
      BY <1>9, ViewStays DEF ServeLate
    <2>2. Locker!HandleLate(c)
      BY <1>9, <2>1 DEF ServeLate, Locker!HandleLate
    <2> QED BY <2>2 DEF Locker!Next
  <1> QED
    BY <1>1, <1>2, <1>3, <1>4, <1>5, <1>6, <1>7, <1>8, <1>9 DEF Step, Serves

\* A broken connection or a crash shows in no call, only in what is left late.
LEMMA FaultRefines ==
    ASSUME Types, Notice \/ Close \/ Break \/ ServerCrash \/ ServerRestart
    PROVE  Locker!Next \/ UNCHANGED <<AbstractCall, late>>
  <1>1. CASE Notice \/ Close \/ ServerRestart
    BY <1>1, ViewStays DEF Notice, Close, ServerRestart
  <1>2. ASSUME Lose, result' = result PROVE AbstractCall' = AbstractCall
    <2>1. \A c \in Caller : pc'[c] # pc[c] => pc[c] = "pending" /\ pc'[c] = "lost"
      BY <1>2 DEF Lose
    <2> QED BY <1>2, <2>1, ViewStays DEF View
  <1>3. CASE Break
    BY <1>2, <1>3, ViewStays DEF Break
  <1>4. CASE ServerCrash
    <2>1. Locker!Forget
      BY <1>2, <1>4 DEF ServerCrash, Locker!Forget
    <2> QED BY <2>1 DEF Locker!Next
  <1> QED BY <1>1, <1>3, <1>4

(***************************************************************************)
(* A call through ReconnectRPCClient that is answered was handled exactly  *)
(* once between its start and its return, one that fails on the way at     *)
(* most once, be it later: what DRWMutex builds on.                        *)
(***************************************************************************)
THEOREM NetLockerImplemented == Spec => ImplementsNetLocker
  <1>1. Init => Types /\ Locker!Init
    BY ViewOfCalls DEF Init, Types, View, Locker!Init, Locker!Result
  <1>2. Types /\ [Next]_vars => [Locker!Next]_<<AbstractCall, late>>
    <2>1. CASE UNCHANGED vars
      BY <2>1, ViewStays DEF vars
    <2> QED BY <2>1, CallerRefines, FaultRefines DEF Next
  <1>3. Spec => []Types
    BY <1>1, StepTypes, PTL DEF Spec
  <1> QED
    BY <1>1, <1>2, <1>3, PTL DEF Spec, ImplementsNetLocker, Locker!Spec, Locker!vars
=============================================================================

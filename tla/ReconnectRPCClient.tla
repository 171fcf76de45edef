------------------------- MODULE ReconnectRPCClient -------------------------
(***************************************************************************)
(* ReconnectRPCClient of chaos/net-rpc-client.go (and its copy in          *)
(* performance/): the NetLocker through which all goroutines of a process  *)
(* call one lock server.  Call holds the mutex for the whole RPC, dials    *)
(* when there is no connection, and starts over once after ErrShutdown.    *)
(*                                                                         *)
(* The rpc.Client of net/rpc is external.  Its Call gives ErrShutdown,     *)
(* without writing the request, when the client is known to be shut down;  *)
(* a request that is under way when the connection breaks fails with       *)
(* another error, and so does one that cannot be written.  The rpc.Server  *)
(* runs a handler for every request it has read, also for one that came    *)
(* in on a connection which is gone by then.                               *)
(***************************************************************************)
EXTENDS Integers

CONSTANTS Caller, NoCaller,     \* goroutines of the process
          MaxFaults             \* bound on broken connections and crashes

ASSUME CallerAssumption == NoCaller \notin Caller /\ MaxFaults \in Nat

(***************************************************************************)
(* A goroutine is idle, in the first or second dialCall with nothing       *)
(* written, or waits for its answer: the server has the request (pending), *)
(* has handled it (served), or will never see it (lost).                   *)
(***************************************************************************)
VARIABLES mutex,        \* who holds rpcClient.mutex
          rpc,          \* "nil", "good", "broken" (not noticed yet) or "shut"
          pc,           \* where a goroutine is, see above
          late,         \* requests of failed calls that the server still has
          result,       \* of the last call: "none", "ok", "refused" or "error"
          serverUp, faults

vars == <<mutex, rpc, pc, late, result, serverUp, faults>>

Init ==
    /\ mutex = NoCaller /\ rpc = "nil"
    /\ pc = [c \in Caller |-> "idle"]
    /\ late = [c \in Caller |-> 0]
    /\ result = [c \in Caller |-> "none"]
    /\ serverUp = TRUE /\ faults = 0

-----------------------------------------------------------------------------
Call(c) ==
    /\ pc[c] = "idle" /\ mutex = NoCaller
    /\ mutex' = c
    /\ pc' = [pc EXCEPT ![c] = "first"]
    /\ UNCHANGED <<rpc, late, result, serverUp, faults>>

\* Call returns, and the deferred Unlock runs.
Return(c, outcome) ==
    /\ pc' = [pc EXCEPT ![c] = "idle"]
    /\ result' = [result EXCEPT ![c] = outcome]
    /\ mutex' = NoCaller
    /\ UNCHANGED <<serverUp, faults>>

Dialing(c) == pc[c] \in {"first", "second"}
Waiting(c) == pc[c] \in {"pending", "served", "lost"}

Dial(c) ==
    /\ Dialing(c) /\ rpc = "nil" /\ serverUp
    /\ rpc' = "good"
    /\ UNCHANGED <<mutex, pc, late, result, serverUp, faults>>

DialFails_Again(c) ==           \* mutant: dials until the server is there
    /\ Dialing(c) /\ rpc = "nil" /\ ~serverUp
    /\ UNCHANGED vars

DialFails(c) ==
    /\ Dialing(c) /\ rpc = "nil" /\ ~serverUp
    /\ Return(c, "error")
    /\ UNCHANGED <<rpc, late>>

\* rpc.Client.Call writes the request.
Send(c) ==
    /\ Dialing(c) /\ rpc \in {"good", "broken"}
    /\ pc' = [pc EXCEPT ![c] = IF rpc = "good" THEN "pending" ELSE "lost"]
    /\ UNCHANGED <<mutex, rpc, late, result, serverUp, faults>>

\* ErrShutdown: close, reset rpcClient.rpc and dialCall again, once.
ErrShutdown_KeepConn(c) ==      \* mutant: rpcClient.rpc is not reset
    /\ Dialing(c) /\ rpc = "shut"
    /\ \/ /\ pc[c] = "first"
          /\ pc' = [pc EXCEPT ![c] = "second"]
          /\ UNCHANGED <<mutex, rpc, late, result, serverUp, faults>>
       \/ /\ pc[c] = "second"
          /\ Return(c, "error")
          /\ UNCHANGED <<rpc, late>>

ErrShutdown(c) ==
    /\ Dialing(c) /\ rpc = "shut"
    /\ \/ /\ pc[c] = "first"
          /\ pc' = [pc EXCEPT ![c] = "second"]
          /\ rpc' = "nil"
          /\ UNCHANGED <<mutex, late, result, serverUp, faults>>
       \/ /\ pc[c] = "second"
          /\ Return(c, "error")
          /\ UNCHANGED <<rpc, late>>

Serve(c) ==
    /\ pc[c] = "pending" /\ rpc = "good"
    /\ pc' = [pc EXCEPT ![c] = "served"]
    /\ UNCHANGED <<mutex, rpc, late, result, serverUp, faults>>

\* The handler gets to the request of a call that has failed.
ServeLate(c) ==
    /\ late[c] > 0
    /\ late' = [late EXCEPT ![c] = @ - 1]
    /\ UNCHANGED <<mutex, rpc, pc, result, serverUp, faults>>

\* The answer, or the handler's error: a rpc.ServerError, which is not
\* ErrShutdown and leaves the connection as it is.
Reply(c) ==
    /\ pc[c] = "served" /\ rpc # "shut"
    /\ \E outcome \in {"ok", "refused"} : Return(c, outcome)
    /\ UNCHANGED <<rpc, late>>

\* What the server has read stays with it when the client gives up on it.
LeaveBehind(c) == late' = IF pc[c] = "pending" THEN [late EXCEPT ![c] = @ + 1] ELSE late

\* The connection breaks under a pending request, or it cannot be written.
CallFails_Retry(c) ==           \* mutant: any error starts over
    /\ Waiting(c) /\ rpc \in {"broken", "shut"}
    /\ pc' = [pc EXCEPT ![c] = "second"]
    /\ rpc' = "nil"
    /\ LeaveBehind(c)
    /\ UNCHANGED <<mutex, result, serverUp, faults>>

CallFails(c) ==
    /\ Waiting(c) /\ rpc \in {"broken", "shut"}
    /\ Return(c, "error")
    /\ LeaveBehind(c)
    /\ UNCHANGED rpc

\* The reading goroutine of the rpc.Client sees the error.
Notice ==
    /\ rpc = "broken"
    /\ rpc' = "shut"
    /\ UNCHANGED <<mutex, pc, late, result, serverUp, faults>>

Close ==
    /\ mutex = NoCaller /\ rpc # "nil"
    /\ rpc' = "nil"
    /\ UNCHANGED <<mutex, pc, late, result, serverUp, faults>>

-----------------------------------------------------------------------------
\* A request that the server had not read when the connection broke is lost.
Lose == pc' = [c \in Caller |-> IF pc[c] = "pending" THEN "lost" ELSE pc[c]]

Break ==
    /\ faults < MaxFaults /\ faults' = faults + 1
    /\ rpc = "good" /\ rpc' = "broken"
    /\ Lose \/ UNCHANGED pc
    /\ UNCHANGED <<mutex, late, result, serverUp>>

ServerCrash ==
    /\ faults < MaxFaults /\ faults' = faults + 1
    /\ serverUp /\ serverUp' = FALSE
    /\ rpc' = IF rpc = "good" THEN "broken" ELSE rpc
    /\ Lose
    /\ late' = [c \in Caller |-> 0]
    /\ UNCHANGED <<mutex, result>>

ServerRestart ==
    /\ ~serverUp
    /\ serverUp' = TRUE
    /\ UNCHANGED <<mutex, rpc, pc, late, result, faults>>

\* The goroutine that is in Call.
Step(c) == DialFails(c) \/ Send(c) \/ ErrShutdown(c) \/ CallFails(c)

\* The server that it has called.
Serves(c) == Dial(c) \/ Serve(c) \/ Reply(c)

Next ==
    \/ \E c \in Caller : Call(c) \/ Step(c) \/ Serves(c) \/ ServeLate(c)
    \/ Notice \/ Close
    \/ Break \/ ServerCrash \/ ServerRestart

Spec == Init /\ [][Next]_vars

\* A goroutine that can run goes on, a broken connection is noticed, and
\* sync.Mutex is handed to everybody who waits for it.  Nothing makes the
\* server answer: neither the dial nor rpc.Client.Call has a timeout.
FairSpec ==
    /\ Spec
    /\ \A c \in Caller : WF_vars(Step(c)) /\ SF_vars(Call(c))
    /\ WF_vars(Notice)

-----------------------------------------------------------------------------
AbstractCall ==
    [c \in Caller |-> IF pc[c] = "idle" THEN result[c]
                      ELSE IF pc[c] = "served" THEN "handled" ELSE "asked"]

Locker == INSTANCE NetLocker WITH call <- AbstractCall

(***************************************************************************)
(* The client keeps the promise of the NetLocker interface.  Although Call *)
(* starts over after ErrShutdown no Lock or Unlock reaches the server      *)
(* twice, a call that is answered was handled, and one that fails may be   *)
(* handled later but only once.                                            *)
(***************************************************************************)
ImplementsNetLocker == Locker!Spec

\* The goroutine depends on a server that has its connection or its request.
Unanswered(c) ==
    \/ pc[c] \in {"pending", "served"} /\ rpc = "good"
    \/ Dialing(c) /\ rpc = "nil" /\ serverUp

(***************************************************************************)
(* Call holds the mutex over the whole RPC.  It gives it back however the  *)
(* call ends, through every dial error, ErrShutdown, second dial and       *)
(* broken connection, and the other goroutines of the process get their    *)
(* turn.  The only thing that keeps them out is a server which is up and   *)
(* never answers.                                                          *)
(***************************************************************************)
TurnsTaken ==
    \A c, d \in Caller :
        c # d => (pc[c] # "idle" ~> (pc[d] # "idle" \/ []Unanswered(c)))

\* The server answers those who wait for it.
ServerAnswers == \A c \in Caller : []<>~Unanswered(c)

(***************************************************************************)
(* README: "Automatically reconnect to (restarted) nodes".  Once the       *)
(* server stays up and answers, calls no longer fail on the way, whatever  *)
(* was broken before.                                                      *)
(***************************************************************************)
Reconnects ==
    <>[]serverUp /\ ServerAnswers
        => <>[](\A c \in Caller : pc[c] = "idle" => result[c] # "error")
=============================================================================

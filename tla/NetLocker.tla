----------------------------- MODULE NetLocker -----------------------------
(***************************************************************************)
(* What drwmutex.go relies on when it calls a lock server through the      *)
(* NetLocker interface of rpc-client-interface.go: a Lock, RLock, Unlock   *)
(* or RUnlock call that the server answers was handled by it exactly once, *)
(* between the call and its return; the answer may be the handler's own    *)
(* error, as for a lock that it does not have.  A call that fails on the   *)
(* way was handled at most once: before, not at all, or some time later,   *)
(* unless the server is restarted first.  These are the outcomes that      *)
(* module DRWMutex gives a call and a release.                             *)
(***************************************************************************)
EXTENDS Naturals

CONSTANT Caller

Result == {"none", "ok", "refused", "error"}

VARIABLES call,     \* "asked", "handled", or the last Result
          late      \* number of failed calls the server may still handle

vars == <<call, late>>

Init ==
    /\ call = [c \in Caller |-> "none"]
    /\ late = [c \in Caller |-> 0]

Ask(c) ==
    /\ call[c] \in Result
    /\ call' = [call EXCEPT ![c] = "asked"]
    /\ UNCHANGED late

Handle(c) ==
    /\ call[c] = "asked"
    /\ call' = [call EXCEPT ![c] = "handled"]
    /\ UNCHANGED late

Answer(c) ==
    /\ call[c] = "handled"
    /\ \E outcome \in {"ok", "refused"} : call' = [call EXCEPT ![c] = outcome]
    /\ UNCHANGED late

Fail(c) ==
    /\ call[c] \in {"asked", "handled"}
    /\ call' = [call EXCEPT ![c] = "error"]
    /\ \/ UNCHANGED late
       \/ call[c] = "asked" /\ late' = [late EXCEPT ![c] = @ + 1]

HandleLate(c) ==
    /\ late[c] > 0
    /\ late' = [late EXCEPT ![c] = @ - 1]
    /\ UNCHANGED call

\* The server is restarted and with it goes what it has not handled yet.
Forget ==
    /\ late' = [c \in Caller |-> 0]
    /\ UNCHANGED call

Next ==
    \/ \E c \in Caller : Ask(c) \/ Handle(c) \/ Answer(c) \/ Fail(c) \/ HandleLate(c)
    \/ Forget

Spec == Init /\ [][Next]_vars
=============================================================================

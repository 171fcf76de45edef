------------------------------- MODULE RWLock -------------------------------
(***************************************************************************)
(* What a DRWMutex promises its callers: a readers-writer lock, "drop-in   *)
(* replacement for sync.RWMutex" in the words of the README, whose callers *)
(* may also give up waiting (GetLock, GetRLock) and whose client processes *)
(* may crash, which takes all their callers out at once.                   *)
(***************************************************************************)
CONSTANTS Proc,         \* callers
          Reader,       \* those that lock for reading
          MayQuit,      \* those that wait for a limited time
          Group         \* sets of callers that crash together

VARIABLE state

Init == state = [p \in Proc |-> "outside"]

Inside(p) == state[p] = "inside"

\* A writer comes in alone, a reader beside readers only.
Admits(p) == \A q \in Proc : Inside(q) => p \in Reader /\ q \in Reader

Ask(p) == state[p] = "outside" /\ state' = [state EXCEPT ![p] = "waiting"]

Enter(p) == state[p] = "waiting" /\ Admits(p) /\ state' = [state EXCEPT ![p] = "inside"]

Quit(p) == p \in MayQuit /\ state[p] = "waiting" /\ state' = [state EXCEPT ![p] = "outside"]

Leave(p) == Inside(p) /\ state' = [state EXCEPT ![p] = "outside"]

Crash(g) == state' = [p \in Proc |-> IF p \in g THEN "outside" ELSE state[p]]

Next ==
    \/ \E p \in Proc : Ask(p) \/ Enter(p) \/ Quit(p) \/ Leave(p)
    \/ \E g \in Group : Crash(g)

Spec == Init /\ [][Next]_state
=============================================================================

------------------------- MODULE NoWriterStarvation -------------------------
(***************************************************************************)
(* DRWMutexNoWriterStarvation of chaos/chaos.go: two DRWMutexes, excl and  *)
(* rw.  Lock and RLock take excl (for writing), then rw for writing or     *)
(* reading, and give excl back when they return; Unlock and RUnlock give   *)
(* back rw.  Each DRWMutex is the readers-writer lock of module RWLock,    *)
(* which DRWMutex is shown to implement.                                   *)
(***************************************************************************)
CONSTANTS Proc, Reader      \* goroutines, and those that lock for reading

ASSUME ReaderAssumption == Reader \subseteq Proc

VARIABLES excl, rw          \* where each goroutine is with the two locks

vars == <<excl, rw>>

Excl == INSTANCE RWLock WITH state <- excl, Reader <- {}, MayQuit <- {}, Group <- {}
Rw == INSTANCE RWLock WITH state <- rw, MayQuit <- {}, Group <- {}

Init == Excl!Init /\ Rw!Init

\* d.excl.Lock, the first statement of Lock and RLock.
Call(p) == rw[p] = "outside" /\ Excl!Ask(p) /\ UNCHANGED rw

TakeExcl_Always(p) ==           \* mutant: excl keeps nobody out
    excl[p] = "waiting" /\ excl' = [excl EXCEPT ![p] = "inside"] /\ UNCHANGED rw

TakeExcl(p) == Excl!Enter(p) /\ UNCHANGED rw

\* d.rw.Lock or d.rw.RLock.
AskRw_Early(p) ==               \* mutant: before excl is held
    excl[p] # "outside" /\ Rw!Ask(p) /\ UNCHANGED excl

AskRw(p) == Excl!Inside(p) /\ Rw!Ask(p) /\ UNCHANGED excl

TakeRw_Reader(p) ==             \* mutant: a writer takes rw as a reader does
    /\ rw[p] = "waiting" /\ \A q \in Proc \ Reader : ~Rw!Inside(q)
    /\ rw' = [rw EXCEPT ![p] = "inside"]
    /\ UNCHANGED excl

TakeRw(p) == Rw!Enter(p) /\ UNCHANGED excl

\* The deferred d.excl.Unlock.
GiveExcl(p) == Rw!Inside(p) /\ Excl!Leave(p) /\ UNCHANGED rw

\* Unlock and RUnlock.
GiveRw(p) == excl[p] = "outside" /\ Rw!Leave(p) /\ UNCHANGED excl

Step(p) ==
    Call(p) \/ TakeExcl(p) \/ AskRw(p) \/ TakeRw(p) \/ GiveExcl(p) \/ GiveRw(p)

Next == \E p \in Proc : Step(p)

Spec == Init /\ [][Next]_vars

(***************************************************************************)
(* A goroutine that has entered goes on and leaves some day.  A DRWMutex   *)
(* grants a lock to one that is alone in asking for it; who wins when      *)
(* several ask for excl is not promised, so TakeExcl has no fairness of    *)
(* its own, only some goroutine gets it.                                   *)
(***************************************************************************)
FairSpec ==
    /\ Spec
    /\ \A p \in Proc : WF_vars(AskRw(p)) /\ WF_vars(TakeRw(p))
                       /\ WF_vars(GiveExcl(p)) /\ WF_vars(GiveRw(p))
    /\ WF_vars(\E p \in Proc : TakeExcl(p))

-----------------------------------------------------------------------------
(***************************************************************************)
(* The pair of locks is a readers-writer lock itself: a goroutine is in    *)
(* from the moment rw is granted until Unlock or RUnlock gives it back.    *)
(***************************************************************************)
PairState ==
    [p \in Proc |-> IF Rw!Inside(p) THEN "inside"
                    ELSE IF excl[p] # "outside" THEN "waiting" ELSE "outside"]

Pair == INSTANCE RWLock WITH state <- PairState, MayQuit <- {}, Group <- {}

ImplementsPairRWLock == Pair!Spec

(***************************************************************************)
(* testWriterStarvation: a second reader gets no preference.  While a      *)
(* writer that holds excl waits for the readers to leave rw, nobody else   *)
(* is granted rw.                                                          *)
(***************************************************************************)
NoOvertaking ==
    [][\A p \in Proc \ Reader, q \in Proc :
          Excl!Inside(p) /\ q # p /\ ~Rw!Inside(q) => rw'[q] # "inside"]_vars

(***************************************************************************)
(* A writer that got excl gets in, although readers keep coming.           *)
(***************************************************************************)
WriterGetsIn ==
    \A p \in Proc \ Reader : Excl!Inside(p) ~> Rw!Inside(p)
=============================================================================

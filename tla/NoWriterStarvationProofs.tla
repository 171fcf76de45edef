---------------------- MODULE NoWriterStarvationProofs ----------------------
(***************************************************************************)
(* DRWMutexNoWriterStarvation with any number of goroutines: the pair of   *)
(* locks is a readers-writer lock, and a writer that has excl is not       *)
(* overtaken.  The invariant is the protocol that Lock and RLock follow:   *)
(* one goroutine has excl, and only that one asks for rw.                  *)
(***************************************************************************)
EXTENDS NoWriterStarvation, TLAPS

LockState == {"outside", "waiting", "inside"}

OneHasExcl == \A p, q \in Proc : excl[p] = "inside" /\ excl[q] = "inside" => p = q

AsksWithExcl == \A p \in Proc : rw[p] = "waiting" => excl[p] = "inside"

Protocol ==
    /\ excl \in [Proc -> LockState] /\ rw \in [Proc -> LockState]
    /\ OneHasExcl
    /\ AsksWithExcl

\* Every step follows the protocol.
LEMMA StepProtocol == Protocol /\ [Next]_vars => Protocol'
  <1> SUFFICES ASSUME Protocol, [Next]_vars PROVE Protocol'
    OBVIOUS
  <1> USE DEF Protocol, LockState, OneHasExcl, AsksWithExcl
  <1>1. ASSUME NEW p \in Proc, Call(p) PROVE Protocol'
    BY <1>1 DEF Call, Excl!Ask
  <1>2. ASSUME NEW p \in Proc, TakeExcl(p) PROVE Protocol'
    <2>1. /\ excl[p] = "waiting" /\ \A q \in Proc : excl[q] # "inside"
          /\ excl' = [excl EXCEPT ![p] = "inside"] /\ rw' = rw
      BY <1>2 DEF TakeExcl, Excl!Enter, Excl!Admits, Excl!Inside
    <2> QED BY <2>1
  <1>3. ASSUME NEW p \in Proc, AskRw(p) PROVE Protocol'
    BY <1>3 DEF AskRw, Excl!Inside, Rw!Ask
  <1>4. ASSUME NEW p \in Proc, TakeRw(p) PROVE Protocol'
    BY <1>4 DEF TakeRw, Rw!Enter
  <1>5. ASSUME NEW p \in Proc, GiveExcl(p) PROVE Protocol'
    BY <1>5 DEF GiveExcl, Excl!Leave, Rw!Inside
  <1>6. ASSUME NEW p \in Proc, GiveRw(p) PROVE Protocol'
    BY <1>6 DEF GiveRw, Rw!Leave
  <1>7. CASE UNCHANGED vars
    BY <1>7 DEF vars
  <1> QED BY <1>1, <1>2, <1>3, <1>4, <1>5, <1>6, <1>7 DEF Next, Step

\* Nobody has called in the beginning.
LEMMA InitProtocol == Init => Protocol
  BY DEF Init, Excl!Init, Rw!Init, Protocol, LockState, OneHasExcl, AsksWithExcl

(***************************************************************************)
(* excl has one owner at a time, and who asks for rw has it: at most one   *)
(* caller of the pair is in line for rw.                                   *)
(***************************************************************************)
THEOREM ProtocolFollowed == Spec => []Protocol
  BY InitProtocol, StepProtocol, PTL DEF Spec

(***************************************************************************)
(* testWriterStarvation for any number of readers: while a writer has excl *)
(* nobody else is granted rw.                                              *)
(***************************************************************************)
THEOREM NotOvertaken == Spec => NoOvertaking
  <1> DEFINE Fair == \A p \in Proc \ Reader, q \in Proc :
                 Excl!Inside(p) /\ q # p /\ ~Rw!Inside(q) => rw'[q] # "inside"
  <1>1. Protocol /\ [Next]_vars => [Fair]_vars
    <2> SUFFICES ASSUME Protocol, Next, NEW p \in Proc \ Reader, NEW q \in Proc,
                        excl[p] = "inside", q # p, rw[q] # "inside", rw'[q] = "inside"
                 PROVE  FALSE
      BY DEF Excl!Inside, Rw!Inside
    <2>1. PICK x \in Proc : Step(x)
      BY DEF Next
    <2>2. rw[q] = "waiting" /\ q = x
      BY <2>1 DEF Step, Call, TakeExcl, AskRw, TakeRw, GiveExcl, GiveRw, Rw!Ask, Rw!Enter, Rw!Leave, Protocol
    <2>3. excl[q] = "inside"
      BY <2>2 DEF Protocol, AsksWithExcl
    <2> QED BY <2>3 DEF Protocol, OneHasExcl
  <1> QED BY <1>1, ProtocolFollowed, PTL DEF Spec, NoOvertaking

-----------------------------------------------------------------------------
\* What the callers see of a goroutine that is at e with excl and at w with rw.
View(e, w) == IF w = "inside" THEN "inside" ELSE IF e # "outside" THEN "waiting" ELSE "outside"

\* PairState is the view of each process, before a step and after it.
LEMMA ViewOfPair == PairState = [p \in Proc |-> View(excl[p], rw[p])]
  BY DEF PairState, View, Rw!Inside

\* The same after a step.
LEMMA ViewOfNextPair == PairState' = [p \in Proc |-> View(excl'[p], rw'[p])]
  BY DEF PairState, View, Rw!Inside

\* One goroutine moves, the others stay where they are.
LEMMA ViewMoves ==
    ASSUME NEW p \in Proc, \A q \in Proc : q # p => excl'[q] = excl[q] /\ rw'[q] = rw[q]
    PROVE  /\ PairState[p] = View(excl[p], rw[p])
           /\ PairState' = [PairState EXCEPT ![p] = View(excl'[p], rw'[p])]
           /\ View(excl'[p], rw'[p]) = View(excl[p], rw[p]) => PairState' = PairState
  <1> DEFINE before == [q \in Proc |-> View(excl[q], rw[q])]
             after == [q \in Proc |-> View(excl'[q], rw'[q])]
  <1>1. PairState = before /\ PairState' = after
    BY ViewOfPair, ViewOfNextPair
  <1> HIDE DEF before, after
  <1>2. before[p] = View(excl[p], rw[p])
    BY DEF before
  <1>3. \A q \in Proc : after[q] = IF q = p THEN View(excl'[p], rw'[p]) ELSE before[q]
    BY DEF before, after
  <1>4. before = [q \in Proc |-> before[q]] /\ after = [q \in Proc |-> after[q]]
    BY DEF before, after
  <1>5. after = [before EXCEPT ![p] = View(excl'[p], rw'[p])]
    BY <1>3, <1>4
  <1>6. View(excl'[p], rw'[p]) = View(excl[p], rw[p]) => after = before
    BY <1>2, <1>3, <1>4
  <1> QED BY <1>1, <1>2, <1>5, <1>6

\* The steps of a goroutine are steps of the pair, or none.
LEMMA StepRefines ==
    ASSUME Protocol, NEW p \in Proc, Step(p)
    PROVE  Pair!Next \/ PairState' = PairState
  <1>0. \A q \in Proc : q # p => excl'[q] = excl[q] /\ rw'[q] = rw[q]
    BY DEF Step, Call, TakeExcl, AskRw, TakeRw, GiveExcl, GiveRw, Protocol,
           Excl!Ask, Excl!Enter, Excl!Leave, Rw!Ask, Rw!Enter, Rw!Leave
  <1>1. /\ PairState[p] = View(excl[p], rw[p])
        /\ PairState' = [PairState EXCEPT ![p] = View(excl'[p], rw'[p])]
        /\ View(excl'[p], rw'[p]) = View(excl[p], rw[p]) => PairState' = PairState
    BY <1>0, ViewMoves
  <1>2. CASE Call(p)
    <2>1. View(excl[p], rw[p]) = "outside" /\ View(excl'[p], rw'[p]) = "waiting"
      BY <1>2 DEF Call, Excl!Ask, View, Protocol
    <2> QED BY <1>1, <2>1 DEF Pair!Next, Pair!Ask
  <1>3. CASE TakeExcl(p) \/ AskRw(p) \/ GiveExcl(p)
    <2>1. View(excl'[p], rw'[p]) = View(excl[p], rw[p])
      BY <1>3 DEF TakeExcl, AskRw, GiveExcl, Excl!Enter, Excl!Leave, Excl!Inside, Rw!Ask, Rw!Inside,
                  View, Protocol
    <2> QED BY <1>1, <2>1
  <1>4. CASE TakeRw(p)
    <2>1. View(excl[p], rw[p]) = "waiting" /\ View(excl'[p], rw'[p]) = "inside"
      BY <1>4 DEF TakeRw, Rw!Enter, View, Protocol, AsksWithExcl
    <2>2. \A q \in Proc : Pair!Inside(q) <=> Rw!Inside(q)
      BY ViewOfPair DEF Pair!Inside, Rw!Inside, View
    <2>3. Pair!Admits(p)
      BY <1>4, <2>2 DEF TakeRw, Rw!Enter, Rw!Admits, Pair!Admits
    <2> QED BY <1>1, <2>1, <2>3 DEF Pair!Next, Pair!Enter
  <1>5. CASE GiveRw(p)
    <2>1. View(excl[p], rw[p]) = "inside" /\ View(excl'[p], rw'[p]) = "outside"
      BY <1>5 DEF GiveRw, Rw!Leave, Rw!Inside, View, Protocol
    <2> QED BY <1>1, <2>1 DEF Pair!Next, Pair!Leave, Pair!Inside
  <1> QED BY <1>2, <1>3, <1>4, <1>5 DEF Step

(***************************************************************************)
(* The pair excl and rw is a readers-writer lock for its callers, as each  *)
(* of the two DRWMutexes is.                                               *)
(***************************************************************************)
THEOREM PairImplemented == Spec => ImplementsPairRWLock
  <1>1. Init => Pair!Init
    BY ViewOfPair DEF Init, Excl!Init, Rw!Init, Pair!Init, View
  <1>2. Protocol /\ [Next]_vars => [Pair!Next]_PairState
    <2>1. CASE UNCHANGED vars
      BY <2>1, ViewOfPair, ViewOfNextPair DEF vars
    <2> QED BY <2>1, StepRefines DEF Next
  <1> QED
    BY <1>1, <1>2, ProtocolFollowed, PTL DEF Spec, ImplementsPairRWLock, Pair!Spec
=============================================================================

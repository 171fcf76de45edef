-------------------------- MODULE RetryTimerProofs --------------------------
(***************************************************************************)
(* The waits of the retry timer, for every unit, cap, limit and width that *)
(* fit together, and any number of attempts.                               *)
(***************************************************************************)
EXTENDS RetryTimer, WellFoundedInduction, TLAPS

\* A set of numbers that is not empty has a least member.
LEMMA LeastNumber ==
    ASSUME NEW I \in SUBSET Nat, I # {}
    PROVE  \E x \in I : \A y \in I : x <= y
  <1>1. \E x \in I : \A y \in I : ~(<<y, x>> \in OpToRel(<, Nat))
    BY NatLessThanWellFounded, WFMin
  <1>2. PICK x \in I : \A y \in I : ~(<<y, x>> \in OpToRel(<, Nat))
    BY <1>1
  <1>3. ASSUME NEW y \in I PROVE x <= y
    <2>1. x \in Nat /\ y \in Nat
      OBVIOUS
    <2>2. y < x => <<y, x>> \in OpToRel(<, Nat)
      BY <2>1 DEF OpToRel
    <2>3. ~(<<y, x>> \in OpToRel(<, Nat))
      BY <1>2
    <2>4. ~(y < x)
      BY <2>2, <2>3
    <2> QED BY <2>1, <2>4
  <1> QED BY <1>3

\* The powers of two up to the width, by a least counterexample.
LEMMA Powers == \A n \in 0..IntBits : 2^n \in Nat \ {0}
  <1> DEFINE I == {n \in 0..IntBits : ~(2^n \in Nat \ {0})}
  <1>1. IntBits \in Nat /\ I \in SUBSET Nat
    BY TimerAssumption
  <1>2. ASSUME I # {} PROVE FALSE
    <2>1. PICK m \in I : \A y \in I : m <= y
      BY <1>1, <1>2, LeastNumber
    <2>2. m \in 0..IntBits /\ m \in Nat /\ ~(2^m \in Nat \ {0})
      BY <1>1
    <2>3. m # 0
      <3> SUFFICES ASSUME m = 0 PROVE 2^m \in Nat \ {0}
        BY <2>2
      <3>1. 2^0 = 1
        OBVIOUS
      <3>2. 2^m = 1
        BY <3>1, Zenon
      <3> QED BY <3>2
    <2>4. m - 1 \in 0..IntBits - 1 /\ ~(m <= m - 1) /\ (m - 1) + 1 = m
      BY <1>1, <2>2, <2>3
    <2>5. 2^(m - 1) \in Nat \ {0}
      BY <1>1, <2>1, <2>4
    <2>6. 2^m = 2 * 2^(m - 1)
      BY <2>4, PowerAssumption
    <2> QED BY <2>2, <2>5, <2>6
  <1> QED BY <1>2

\* unit * 2^n, doubled with every attempt.
Product(n) == unit * 2^n

\* It is a natural number and grows up to the limit.
LEMMA ProductDoubles ==
    /\ \A n \in 0..maxAttempt : Product(n) \in Nat
    /\ \A n \in 0..maxAttempt - 1 : Product(n) <= Product(n + 1)
  <1>0. IntBits \in Nat /\ maxAttempt \in Nat /\ maxAttempt < IntBits /\ unit \in Nat
    BY TimerAssumption, UnitAssumption
  <1>1. ASSUME NEW n \in 0..maxAttempt PROVE Product(n) \in Nat
    <2>1. 2^n \in Nat
      BY <1>0, Powers
    <2> QED BY <1>0, <2>1 DEF Product
  <1>2. ASSUME NEW n \in 0..maxAttempt - 1 PROVE Product(n) <= Product(n + 1)
    <2>1. 2^n \in Nat /\ n \in 0..IntBits - 1
      BY <1>0, Powers
    <2>2. 2^(n + 1) = 2 * 2^n
      BY <2>1, PowerAssumption
    <2>3. ASSUME NEW p \in Nat PROVE unit * p <= unit * (2 * p)
      BY <1>0
    <2> QED BY <2>1, <2>2, <2>3 DEF Product
  <1> QED BY <1>1, <1>2

\* No product overflows: the last one is the largest.
LEMMA ProductFits == \A n \in 0..maxAttempt : Product(n) <= Product(maxAttempt)
  <1> DEFINE I == {k \in 0..maxAttempt : ~(Product(maxAttempt - k) <= Product(maxAttempt))}
  <1>0. maxAttempt \in Nat /\ I \in SUBSET Nat
    BY TimerAssumption
  <1>1. ASSUME I # {} PROVE FALSE
    <2>1. PICK k \in I : \A y \in I : k <= y
      BY <1>0, <1>1, LeastNumber
    <2>2. k \in 0..maxAttempt /\ ~(Product(maxAttempt - k) <= Product(maxAttempt))
      OBVIOUS
    <2>3. k # 0
      <3>1. Product(maxAttempt) \in Nat /\ maxAttempt - 0 = maxAttempt
        BY <1>0, ProductDoubles
      <3> QED BY <2>2, <3>1
    <2>4. k - 1 \in 0..maxAttempt /\ ~(k <= k - 1) /\ maxAttempt - k \in 0..maxAttempt - 1
          /\ (maxAttempt - k) + 1 = maxAttempt - (k - 1) /\ maxAttempt - (k - 1) \in 0..maxAttempt
      BY <1>0, <2>2, <2>3
    <2>5. Product(maxAttempt - (k - 1)) <= Product(maxAttempt)
      BY <2>1, <2>4
    <2>6. Product(maxAttempt - k) <= Product(maxAttempt - (k - 1))
      BY <2>4, ProductDoubles
    <2>7. Product(maxAttempt - k) \in Nat /\ Product(maxAttempt - (k - 1)) \in Nat /\ Product(maxAttempt) \in Nat
      BY <1>0, <2>2, <2>4, ProductDoubles
    <2> QED BY <2>2, <2>5, <2>6, <2>7
  <1>2. ASSUME NEW n \in 0..maxAttempt PROVE Product(n) <= Product(maxAttempt)
    <2>1. maxAttempt - n \in 0..maxAttempt /\ maxAttempt - (maxAttempt - n) = n
      BY <1>0
    <2>2. ~(maxAttempt - n \in I)
      BY <1>1
    <2> QED BY <2>1, <2>2
  <1> QED BY <1>2

\* A duration in range is not changed by its width.
LEMMA WrappedFits ==
    ASSUME NEW x \in Nat, x < 2^(IntBits - 1)
    PROVE  Wrapped(x) = x
  <1> DEFINE H == 2^(IntBits - 1)
  <1>1. IntBits \in Nat \ {0}
    BY TimerAssumption
  <1>2. IntBits - 1 \in 0..IntBits - 1 /\ IntBits - 1 \in 0..IntBits /\ (IntBits - 1) + 1 = IntBits
    BY <1>1
  <1>3. H \in Nat \ {0}
    BY <1>2, Powers
  <1>4. 2^IntBits = 2 * H
    BY <1>2, PowerAssumption
  <1>5. x < H
    OBVIOUS
  <1>6. Wrapped(x) = ((x + H) % (2 * H)) - H
    BY <1>4 DEF Wrapped
  <1> HIDE DEF H
  <1>7. 2 * H \in Nat \ {0} /\ x + H \in 0..2 * H - 1
    BY <1>3, <1>5
  <1>8. (x + H) % (2 * H) = x + H
    BY <1>7
  <1> QED BY <1>3, <1>6, <1>8

\* The window of an attempt: in range, and never smaller than the one before.
LEMMA WindowFacts ==
    ASSUME NEW n \in Nat
    PROVE  backoffWindow(n) \in 0..cap /\ backoffWindow(n) <= backoffWindow(n + 1)
  <1> DEFINE Exponent(k) == IF k > maxAttempt THEN maxAttempt ELSE k
             Least(p) == IF p > cap THEN cap ELSE p
  <1>0. maxAttempt \in Nat /\ cap \in Nat /\ unit \in Nat /\ Product(maxAttempt) < 2^(IntBits - 1)
        /\ 2^(IntBits - 1) \in Nat
    <2>1. IntBits - 1 \in 0..IntBits
      BY TimerAssumption
    <2> QED BY <2>1, Powers, TimerAssumption, UnitAssumption DEF Product
  <1>1. ASSUME NEW k \in Nat
        PROVE  Exponent(k) \in 0..maxAttempt /\ Product(Exponent(k)) \in Nat /\ backoffWindow(k) = Least(Product(Exponent(k)))
    <2>1. Exponent(k) \in 0..maxAttempt
      BY <1>0
    <2> HIDE DEF Exponent
    <2>2. Product(Exponent(k)) \in Nat /\ Product(maxAttempt) \in Nat /\ Product(Exponent(k)) <= Product(maxAttempt)
      BY <1>0, <2>1, ProductDoubles, ProductFits
    <2>3. Product(Exponent(k)) < 2^(IntBits - 1)
      BY <1>0, <2>2
    <2>4. Wrapped(Product(Exponent(k))) = Product(Exponent(k))
      BY <2>2, <2>3, WrappedFits
    <2>5. backoffWindow(k) = Least(Wrapped(Product(Exponent(k))))
      BY DEF backoffWindow, Product, Exponent
    <2> QED BY <2>1, <2>2, <2>4, <2>5
  <1>2. n + 1 \in Nat
    OBVIOUS
  <1>3. Product(Exponent(n)) <= Product(Exponent(n + 1))
    <2>1. CASE n < maxAttempt
      <3>1. Exponent(n) = n /\ Exponent(n + 1) = n + 1 /\ n \in 0..maxAttempt - 1
        BY <1>0, <2>1
      <3> QED BY <3>1, ProductDoubles
    <2>2. CASE ~(n < maxAttempt)
      <3>1. Exponent(n) = maxAttempt /\ Exponent(n + 1) = maxAttempt
        BY <1>0, <2>2
      <3>2. Product(maxAttempt) \in Nat
        BY <1>0, ProductDoubles
      <3> QED BY <3>1, <3>2
    <2> QED BY <2>1, <2>2
  <1> HIDE DEF Exponent
  <1> QED BY <1>0, <1>1, <1>2, <1>3

\* The window is that of the last attempt, the wait a part of it.
WindowInv ==
    /\ nextBackoff \in Nat /\ sleep \in 0..cap
    /\ window = IF nextBackoff = 0 THEN 0 ELSE backoffWindow(nextBackoff)

(***************************************************************************)
(* exponentialBackoffWait never overflows, however many attempts are made: *)
(* the wait that time.NewTimer gets is never negative and never longer     *)
(* than cap, jitter or not, and the windows never shrink.                  *)
(***************************************************************************)
THEOREM BackoffStaysSound == Spec => BackoffSound
  <1>1. Init => WindowInv
    BY TimerAssumption DEF Init, WindowInv
  <1>2. ASSUME WindowInv, [Next]_vars
        PROVE  WindowInv' /\ [sleep' \in 0..cap /\ window' >= window]_vars
    <2>0. cap \in Nat
      BY TimerAssumption
    <2>1. CASE Attempt
      <3>1. nextBackoff' = nextBackoff + 1 /\ window' = backoffWindow(nextBackoff + 1) /\ sleep' \in Jittered(window')
        BY <2>1 DEF Attempt
      <3>2. nextBackoff \in Nat /\ nextBackoff + 1 \in Nat /\ nextBackoff + 1 # 0
        BY <1>2 DEF WindowInv
      <3>3. window' \in 0..cap /\ backoffWindow(nextBackoff) \in 0..cap /\ backoffWindow(nextBackoff) <= window'
        BY <3>1, <3>2, WindowFacts
      <3>4. sleep' \in 0..cap
        BY <2>0, <3>1, <3>3 DEF Jittered
      <3>5. WindowInv'
        BY <3>1, <3>2, <3>4 DEF WindowInv, backoffWindow, Wrapped
      <3>6. window' >= window
        BY <1>2, <2>0, <3>3 DEF WindowInv
      <3> QED BY <3>4, <3>5, <3>6
    <2>2. CASE Stop \/ Expire \/ Again \/ Leave \/ ReceiveClosed
      <3>1. nextBackoff' = nextBackoff /\ window' = window /\ sleep' = sleep
        BY <2>2 DEF Stop, Expire, Again, Leave, ReceiveClosed
      <3>2. WindowInv'
        BY <1>2, <3>1 DEF WindowInv, backoffWindow, Wrapped
      <3>3. window \in Nat
        BY <1>2, <2>0, WindowFacts DEF WindowInv
      <3>4. sleep' \in 0..cap /\ window' >= window
        BY <1>2, <3>1, <3>3 DEF WindowInv
      <3> QED BY <3>2, <3>4
    <2>3. CASE UNCHANGED vars
      BY <1>2, <2>3 DEF vars, WindowInv, backoffWindow, Wrapped
    <2> QED BY <1>2, <2>1, <2>2, <2>3 DEF Next
  <1> QED BY <1>1, <1>2, PTL DEF Spec, BackoffSound
=============================================================================

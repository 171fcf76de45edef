----------------------------- MODULE RetryTimer -----------------------------
(***************************************************************************)
(* newRetryTimerWithJitter of retry.go: a goroutine that offers attempt    *)
(* numbers on an unbuffered channel and waits between two offers, until    *)
(* doneCh is closed; and the program that ranges over the channel.  A      *)
(* receiver like lockBlocking closes doneCh when it leaves its loop and    *)
(* never receives again; the tests of the repository receive once more.    *)
(*                                                                         *)
(* Durations are signed integers of IntBits bits (64 in Go) and wrap       *)
(* around; the exponent of the back-off stops at maxAttempt (30).          *)
(***************************************************************************)
EXTENDS Integers

CONSTANTS unit, cap,        \* the durations passed to the timer
          jitter,           \* whether a random part is taken off a wait
          maxAttempt,       \* the limit of the exponent
          IntBits,          \* width of a duration
          AfterDone,        \* what the receiver may do after closing doneCh
          MaxAttempts       \* bound: attempts a receiver makes

ASSUME TimerAssumption ==
    /\ IntBits \in Nat \ {0} /\ maxAttempt \in Nat /\ MaxAttempts \in Nat
    /\ unit \in Nat /\ cap \in Nat /\ cap < 2^(IntBits - 1)
    /\ jitter \in BOOLEAN /\ AfterDone \subseteq {"receive", "returned"}

\* The limit of the exponent is made for the unit: with 30 and 64 bits it suits
\* every unit up to eight seconds.  The callers pass one second or less.
ASSUME UnitAssumption == maxAttempt < IntBits /\ unit * 2^maxAttempt < 2^(IntBits - 1)

\* What ^ means for these exponents; the provers have no theory of it.
ASSUME PowerAssumption == \A n \in 0..IntBits - 1 : 2^(n + 1) = 2 * 2^n

VARIABLES timer,            \* "offer", "wait" or, attemptCh closed, "stopped"
          nextBackoff,      \* number of the next attempt
          window, sleep,    \* the last wait, before and after jitter
          done,             \* doneCh is closed
          receiver          \* "receive", "body" or "returned"

vars == <<timer, nextBackoff, window, sleep, done, receiver>>

Init ==
    /\ timer = "offer" /\ nextBackoff = 0
    /\ window = 0 /\ sleep = 0
    /\ done = FALSE
    /\ receiver = "receive"

-----------------------------------------------------------------------------
\* The integer x in IntBits bits, two's complement.
Wrapped(x) == ((x + 2^(IntBits - 1)) % 2^IntBits) - 2^(IntBits - 1)

\* exponentialBackoffWait: unit * 2^attempt, at most cap; jitter leaves a random
\* part of it.
backoffWindow_NoLimit(attempt) ==       \* mutant: the exponent is not limited
    LET product == Wrapped(unit * Wrapped(2^attempt))
    IN  IF product > cap THEN cap ELSE product

backoffWindow(attempt) ==
    LET exponent == IF attempt > maxAttempt THEN maxAttempt ELSE attempt
        product == Wrapped(unit * 2^exponent)
    IN  IF product > cap THEN cap ELSE product

Jittered(w) == IF ~jitter THEN {w} ELSE IF w < 0 THEN w..0 ELSE 0..w

(***************************************************************************)
(* The timer goroutine.  Its first select offers an attempt or sees the    *)
(* closed doneCh, whichever the runtime picks when both are possible; then *)
(* it chooses a wait, and the second select ends with it or with doneCh.   *)
(***************************************************************************)
Attempt_Limited ==                      \* mutant: no more than maxAttempt offers
    /\ timer = "offer" /\ receiver = "receive" /\ nextBackoff < maxAttempt
    /\ nextBackoff' = nextBackoff + 1
    /\ window' = backoffWindow(nextBackoff')
    /\ sleep' \in Jittered(window')
    /\ timer' = "wait"
    /\ receiver' = IF done THEN "returned" ELSE "body"
    /\ UNCHANGED done

Attempt ==
    /\ timer = "offer" /\ receiver = "receive"
    /\ nextBackoff' = nextBackoff + 1
    /\ window' = backoffWindow(nextBackoff')
    /\ sleep' \in Jittered(window')
    /\ timer' = "wait"
    /\ receiver' = IF done THEN "returned" ELSE "body"
    /\ UNCHANGED done

Stop_WhileWaiting ==                    \* mutant: the first select has no doneCh
    /\ timer = "wait" /\ done
    /\ timer' = "stopped"
    /\ UNCHANGED <<nextBackoff, window, sleep, done, receiver>>

Stop ==
    /\ timer \in {"offer", "wait"} /\ done
    /\ timer' = "stopped"
    /\ UNCHANGED <<nextBackoff, window, sleep, done, receiver>>

Expire ==
    /\ timer = "wait"
    /\ timer' = "offer"
    /\ UNCHANGED <<nextBackoff, window, sleep, done, receiver>>

(***************************************************************************)
(* The receiver: the body of its loop ends in another receive, or it       *)
(* leaves the loop and closes doneCh.                                      *)
(***************************************************************************)
Again ==
    /\ receiver = "body" /\ nextBackoff < MaxAttempts
    /\ receiver' = "receive"
    /\ UNCHANGED <<timer, nextBackoff, window, sleep, done>>

Leave ==
    /\ receiver = "body"
    /\ done' = TRUE
    /\ receiver' \in AfterDone
    /\ UNCHANGED <<timer, nextBackoff, window, sleep>>

\* A receive from the closed attemptCh.
ReceiveClosed ==
    /\ timer = "stopped" /\ receiver = "receive"
    /\ receiver' = "returned"
    /\ UNCHANGED <<timer, nextBackoff, window, sleep, done>>

Next == Attempt \/ Stop \/ Expire \/ Again \/ Leave \/ ReceiveClosed

Spec == Init /\ [][Next]_vars

\* The scheduler runs a goroutine that can run, and timers expire.
FairSpec == Spec /\ WF_vars(Attempt \/ Stop \/ Expire) /\ WF_vars(ReceiveClosed)

-----------------------------------------------------------------------------
(***************************************************************************)
(* exponentialBackoffWait never overflows: for all attempt numbers a wait  *)
(* is neither negative (time.NewTimer would fire at once and the caller    *)
(* would flood the servers) nor longer than cap, and the windows never     *)
(* shrink from one attempt to the next.                                    *)
(***************************************************************************)
BackoffSound ==
    [][sleep' \in 0..cap /\ window' >= window]_vars

(***************************************************************************)
(* The goroutine ends once doneCh is closed, wherever it is: lockBlocking  *)
(* leaves none behind.                                                     *)
(***************************************************************************)
TimerStops == done ~> timer = "stopped"

(***************************************************************************)
(* A caller waiting for its next attempt gets one: the attempts never run  *)
(* dry before the caller leaves.  Lock, which has no timeout, depends on   *)
(* it.  The comments of newRetryTimerWithJitter, newRetryTimer and         *)
(* newRetryTimerSimple (retry.go:60-61, 130-131, 137-138) say that the     *)
(* delays go on "until the maximum retry attempts are reached"; in the     *)
(* code maxAttempt only ends their growth, not the attempts.               *)
(***************************************************************************)
NextAttemptComes == receiver = "receive" ~> receiver # "receive"
=============================================================================

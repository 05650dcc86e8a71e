--------------------------- MODULE CcTime_proofs ---------------------------
(* Proofs about the arithmetic of timeouts, for every number of             *)
(* milliseconds in a second and of nanoseconds in a millisecond.            *)
EXTENDS CcSemKernel, TLAPS

(* What is left of a timeout after its whole seconds is less than a second, *)
(* and no nanosecond of it is lost.                                         *)
LEMMA SplitExact ==
  ASSUME NEW ms \in Nat
  PROVE  /\ Split(ms).sec \in Nat
         /\ Valid(Split(ms))
         /\ Split(ms).sec * NsPerSec + Split(ms).nsec = ms * NsPerMs
<1> USE TimeAssumption
<1> DEFINE q == ms \div MsPerSec
           r == ms % MsPerSec
<1>1. q \in Nat /\ r \in 0..(MsPerSec - 1) /\ ms = q * MsPerSec + r
  OBVIOUS
<1> HIDE DEF q, r
<1>2. NsPerSec \in Nat /\ r * NsPerMs \in Nat
  BY <1>1 DEF NsPerSec
<1>3. r * NsPerMs < NsPerSec
  <2>1. MsPerSec - r \in Nat /\ MsPerSec - r >= 1
    BY <1>1
  <2>2. (MsPerSec - r) * NsPerMs > 0
    BY <2>1
  <2>3. (MsPerSec - r) * NsPerMs = MsPerSec * NsPerMs - r * NsPerMs
    BY <1>1
  <2>4. QED
    BY <1>2, <2>2, <2>3 DEF NsPerSec
<1>4. q * NsPerSec + r * NsPerMs = ms * NsPerMs
  <2>1. ms * NsPerMs = (q * MsPerSec) * NsPerMs + r * NsPerMs
    BY <1>1
  <2>2. (q * MsPerSec) * NsPerMs = q * NsPerSec
    BY <1>1 DEF NsPerSec
  <2>3. QED
    BY <2>1, <2>2
<1>5. Split(ms) = [sec |-> q, nsec |-> r * NsPerMs]
  BY DEF Split, q, r
<1>6. QED
  BY <1>1, <1>2, <1>3, <1>4, <1>5 DEF Valid

(* Two parts of less than a second each make less than two: one carry       *)
(* leaves a valid timespec, and moves exactly one second.                   *)
THEOREM ArithmeticIsExact == Exact
<1> SUFFICES ASSUME NEW now \in Clock, NEW ms \in 0..MaxMs PROVE ExactAt(now, ms)
  BY DEF Exact
<1> USE TimeAssumption
<1>1. ms \in Nat /\ NsPerSec \in Nat
  BY DEF NsPerSec
<1>2. now.sec \in Nat /\ now.nsec \in Nat /\ now.nsec < NsPerSec
  BY <1>1 DEF Clock
<1> DEFINE s == Split(ms).sec
           n == Split(ms).nsec
<1>3. s \in Nat /\ n \in Nat /\ n < NsPerSec /\ s * NsPerSec + n = ms * NsPerMs
  BY <1>1, SplitExact DEF Valid
<1>4. Sum(now, ms) = [sec |-> now.sec + s, nsec |-> now.nsec + n]
  BY DEF Sum
<1> HIDE DEF s, n
<1>5. Sum(now, ms).nsec < 2 * NsPerSec
  BY <1>1, <1>2, <1>3, <1>4
<1>6. CASE now.nsec + n >= NsPerSec
  <2>1. Deadline(now, ms) = [sec |-> now.sec + s + 1, nsec |-> now.nsec + n - NsPerSec]
    BY <1>1, <1>2, <1>3, <1>4, <1>6 DEF Deadline, Carries
  <2>2. (now.sec + s + 1) - now.sec = s + 1
    BY <1>2, <1>3
  <2>3. (s + 1) * NsPerSec = s * NsPerSec + NsPerSec
    BY <1>1, <1>3
  <2>4. QED
    BY <1>1, <1>2, <1>3, <1>5, <1>6, <2>1, <2>2, <2>3 DEF ExactAt, Valid
<1>7. CASE ~(now.nsec + n >= NsPerSec)
  <2>1. Deadline(now, ms) = [sec |-> now.sec + s, nsec |-> now.nsec + n]
    BY <1>1, <1>2, <1>3, <1>4, <1>7 DEF Deadline, Carries
  <2>2. (now.sec + s) - now.sec = s
    BY <1>2, <1>3
  <2>3. QED
    BY <1>1, <1>2, <1>3, <1>5, <1>7, <2>1, <2>2 DEF ExactAt, Valid
<1>8. QED
  BY <1>6, <1>7

(* So is every deadline of a timed wait on a semaphore.                     *)
THEOREM DeadlineIsExact == KSpec => []DeadlineExact
<1>1. DeadlineExact
  BY ArithmeticIsExact DEF DeadlineExact
<1>2. QED
  BY <1>1, PTL
============================================================================

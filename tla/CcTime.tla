------------------------------- MODULE CcTime -------------------------------
(***************************************************************************)
(* Milliseconds as the library hands them to the operating system: split   *)
(* into a struct timespec, for nanosleep and for the relative wait of      *)
(* macOS, and added to the clock, for an absolute deadline.                *)
(***************************************************************************)
EXTENDS Integers

CONSTANTS
  MsPerSec,   \* 1000
  NsPerMs,    \* 1000000
  MaxMs,      \* the longest timeout, the largest unsigned int
  MaxSec      \* bound: seconds on the clock

ASSUME TimeAssumption ==
  MsPerSec \in Nat \ {0} /\ NsPerMs \in Nat \ {0} /\ MaxMs \in Nat /\ MaxSec \in Nat

NsPerSec == MsPerSec * NsPerMs

\* What clock_gettime may return.
Clock == [sec : 0..MaxSec, nsec : 0..(NsPerSec - 1)]

Split(ms) == [sec |-> ms \div MsPerSec, nsec |-> (ms % MsPerSec) * NsPerMs]

\* Mutant: a sum of exactly one second is not carried.
CarriesLate(nsec) == nsec > NsPerSec

Carries(nsec) == nsec >= NsPerSec

Sum(now, ms) ==
  [sec |-> now.sec + Split(ms).sec, nsec |-> now.nsec + Split(ms).nsec]

Deadline(now, ms) ==
  LET ts == Sum(now, ms)
  IN  IF Carries(ts.nsec) THEN [sec |-> ts.sec + 1, nsec |-> ts.nsec - NsPerSec] ELSE ts

---------------------------------------------------------------------------
Valid(ts) == ts.nsec \in 0..(NsPerSec - 1)

ExactAt(now, ms) ==
  LET d == Deadline(now, ms)
  IN  /\ Sum(now, ms).nsec < 2 * NsPerSec
      /\ Valid(d)
      /\ (d.sec - now.sec) * NsPerSec + d.nsec = now.nsec + ms * NsPerMs

Exact == \A now \in Clock, ms \in 0..MaxMs : ExactAt(now, ms)
=============================================================================

----------------------------- MODULE Algorithms -----------------------------
(***************************************************************************)
(* The arithmetic of the counting algorithms that the Go side of the       *)
(* engine owns (engine/algo): the derived quantities of a window and the   *)
(* validation that a compiled window has passed.  All times are integer    *)
(* microseconds.                                                           *)
(***************************************************************************)
EXTENDS Integers

CONSTANTS
    MicrosPerSecond,     \* 1000000 in the code
    MaxPeriodMicros,     \* MaxPeriod, 24 h in the code
    ExactEmissionFloor,  \* exactEmissionFloor, 100 in the code
    MaxTauMicros         \* maxTauMicros, 10^15 in the code

ASSUME AlgorithmConstants ==
    /\ MicrosPerSecond \in Nat \ {0}
    /\ MaxPeriodMicros \in Nat
    /\ ExactEmissionFloor \in Nat
    /\ MaxTauMicros \in Nat

AlgorithmNames == {"GCRA", "FixedWindow"}

\* algo.Window with its period already in microseconds (PeriodMicros).
Window == [requests: Int, period: Int, burst: Int]

\* The emission interval, rounded up.
EmissionMicros(w) == (w.period + w.requests - 1) \div w.requests

\* A mutant: one request too shallow.
TauMicrosShallow(w) == EmissionMicros(w) * (w.burst - 1)

\* The bucket depth.
TauMicros(w) == EmissionMicros(w) * w.burst

\* Bounds every algorithm shares.
CheckCommon(w) ==
    /\ w.requests >= 1
    /\ w.period >= MicrosPerSecond
    /\ w.period <= MaxPeriodMicros
    /\ w.period % MicrosPerSecond = 0

\* gcra.validate; the last conjunct is burst <= maxTauMicros / emission.
ValidateGCRA(w) ==
    /\ w.burst >= 1
    /\ w.requests <= w.period
    /\ \/ EmissionMicros(w) >= ExactEmissionFloor
       \/ w.period % w.requests = 0
    /\ w.burst <= MaxTauMicros \div EmissionMicros(w)

\* Check: the shared bounds, the algorithm's own, and no field the algorithm
\* does not consume (a fixed window takes no burst).
Check(alg, w) ==
    /\ CheckCommon(w)
    /\ IF alg = "GCRA" THEN ValidateGCRA(w) ELSE w.burst = 0

=============================================================================

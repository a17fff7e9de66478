---------------------------- MODULE QuotaProofs -----------------------------
(***************************************************************************)
(* Proofs about the counter store's contract and its ledger, about the     *)
(* numbers the engine derives from verdicts, and about the check handler,  *)
(* for every set of keys, every limit that validation accepts, every cost  *)
(* and every period.                                                       *)
(***************************************************************************)
EXTENDS RateCheck, QuotaLedger, WellFoundedInduction, TLAPS

-----------------------------------------------------------------------------
(* The numbers of a window that passed validation, and what the constants  *)
(* say of a key and of a call.                                             *)

\* A window that passed validation has an emission interval of at least one
\* microsecond, rounded up by less than one part: requests intervals cover the
\* period and one microsecond less per interval would not.
LEMMA EmissionBounds ==
    ASSUME NEW w \in Window, w.requests >= 1, w.period >= 1
    PROVE  /\ EmissionMicros(w) \in Nat \ {0}
           /\ EmissionMicros(w) * w.requests >= w.period
           /\ (EmissionMicros(w) - 1) * w.requests < w.period
<1> DEFINE p == w.period  r == w.requests
           q == (p + r - 1) \div r
<1>1. p \in Int /\ r \in Int /\ r > 0 /\ p >= 1
  BY DEF Window
<1>2. q \in Int /\ q * r <= p + r - 1 /\ p + r - 1 < (q + 1) * r
  BY <1>1, SMT
<1>3. q >= 1
  <2>1. SUFFICES ASSUME q <= 0 PROVE FALSE
    BY <1>2
  <2>2. (q + 1) * r <= r
    BY <1>1, <1>2, <2>1, SMT
  <2> QED
    BY <1>1, <1>2, <2>2
<1>4. (q + 1) * r = q * r + r /\ (q - 1) * r = q * r - r
  BY <1>1, <1>2
<1> QED
  BY <1>1, <1>2, <1>3, <1>4 DEF EmissionMicros

\* Multiplication by a natural number is monotonic.
LEMMA TimesMonotonic ==
    ASSUME NEW a \in Int, NEW b \in Int, NEW c \in Nat, a <= b
    PROVE  a * c <= b * c /\ c * a <= c * b
OBVIOUS

\* The rounding of a validated GCRA window errs strict and, unless the period
\* divides evenly, by less than one part in ExactEmissionFloor: the promise of
\* exactEmissionFloor's comment in engine/algo, for every period and rate.
THEOREM RoundingErrsStrict ==
    ASSUME NEW w \in Window, Check("GCRA", w)
    PROVE  LET enforced == EmissionMicros(w) * w.requests
           IN /\ enforced >= w.period
              /\ \/ enforced = w.period
                 \/ ExactEmissionFloor * (enforced - w.period) < enforced
<1> DEFINE p == w.period  r == w.requests  e == EmissionMicros(w)
<1>1. p \in Int /\ r \in Int /\ r >= 1 /\ p >= 1
  BY AlgorithmConstants DEF Window, Check, CheckCommon
<1>2. e \in Nat \ {0} /\ e * r >= p /\ (e - 1) * r < p
  BY <1>1, EmissionBounds, Zenon
<1>3. CASE p % r = 0
  <2>1. p = r * (p \div r) /\ p \div r \in Int
    BY <1>1, <1>3, SMT
  <2>2. (p + r - 1) \div r = p \div r
    <3> DEFINE q == p \div r
    <3> HIDE DEF q
    <3>1. q \in Int /\ p = r * q
      BY <2>1, Zenon DEF q
    <3>2. (r * q + r - 1) \div r = q
      <4> DEFINE x == r * q + r - 1
                 y == x \div r
      <4>1. x \in Int /\ r * q \in Int
        BY <1>1, <3>1
      <4>2. y \in Int /\ r * y <= x /\ x < r * (y + 1)
        BY <1>1, <4>1, SMT
      <4> HIDE DEF y, r
      <4>3. r * (y + 1) = r * y + r /\ r * (q + 1) = r * q + r
        BY <1>1, <3>1, <4>2
      <4>4. ~(y < q)
        <5>1. SUFFICES ASSUME y + 1 <= q PROVE FALSE
          BY <3>1, <4>2
        <5>2. r * (y + 1) <= r * q
          BY <1>1, <3>1, <4>2, <5>1, TimesMonotonic
        <5> QED
          BY <1>1, <4>1, <4>2, <4>3, <5>2
      <4>5. ~(y > q)
        <5>1. SUFFICES ASSUME q + 1 <= y PROVE FALSE
          BY <3>1, <4>2
        <5>2. r * (q + 1) <= r * y
          BY <1>1, <3>1, <4>2, <5>1, TimesMonotonic
        <5> QED
          BY <1>1, <4>1, <4>2, <4>3, <5>2
      <4> QED
        BY <3>1, <4>2, <4>4, <4>5 DEF y, r
    <3> QED
      BY <3>1, <3>2, Zenon DEF q
  <2>3. e * r = p
    BY <1>1, <2>1, <2>2 DEF EmissionMicros
  <2> QED
    BY <1>1, <2>3
<1>4. CASE e >= ExactEmissionFloor
  <2> HIDE DEF e, p, r
  <2>1. ExactEmissionFloor \in Nat
    BY AlgorithmConstants, Zenon
  <2>2. e * r \in Int /\ (e - 1) * r = e * r - r
    BY <1>1, <1>2
  <2>3. e * r - p <= r - 1 /\ e * r - p \in Nat
    BY <1>1, <1>2, <2>2
  <2>4. ExactEmissionFloor * (e * r - p) <= e * (r - 1)
    <3> DEFINE x == e * r - p
    <3> HIDE DEF x
    <3>1. x \in Nat /\ x <= r - 1
      BY <2>3, Zenon DEF x
    <3>2. ExactEmissionFloor * x <= e * x
      BY <1>2, <1>4, <2>1, <3>1, TimesMonotonic
    <3>3. e * x <= e * (r - 1)
      BY <1>1, <1>2, <3>1, TimesMonotonic
    <3>4. ExactEmissionFloor * x \in Int /\ e * x \in Int /\ e * (r - 1) \in Int
      BY <1>1, <1>2, <2>1, <3>1
    <3> QED
      BY <3>2, <3>3, <3>4 DEF x
  <2>5. e * (r - 1) = e * r - e
    BY <1>1, <1>2
  <2>6. ExactEmissionFloor * (e * r - p) \in Int
    BY <2>1, <2>3
  <2>7. e * r >= p /\ ExactEmissionFloor * (e * r - p) < e * r
    BY <1>2, <2>2, <2>4, <2>5, <2>6
  <2> QED
    BY <2>7, Zenon DEF e, p, r
<1> QED
  BY <1>3, <1>4, Zenon DEF Check, ValidateGCRA

\* What validation and the constants say of the windows of a key.
LEMMA WindowFacts ==
    ASSUME NEW k \in Keys
    PROVE  /\ AlgorithmOf[k] \in {"GCRA", "FixedWindow"}
           /\ PeriodOf[k] \in Int
           /\ \A l \in Limits[k] :
                 /\ PeriodOf[k] >= 1
                 /\ l \in [requests: Int, burst: Int]
                 /\ WindowOf(k, l) \in Window
                 /\ WindowOf(k, l).requests = l.requests
                 /\ WindowOf(k, l).period = PeriodOf[k]
                 /\ WindowOf(k, l).burst = l.burst
                 /\ l.requests >= 1
                 /\ EmissionMicros(WindowOf(k, l)) \in Nat \ {0}
                 /\ AlgorithmOf[k] = "GCRA" =>
                       l.burst >= 1 /\ TauMicros(WindowOf(k, l)) \in Nat
<1>1. AlgorithmOf[k] \in {"GCRA", "FixedWindow"} /\ PeriodOf[k] \in Int
  BY QuotaConstants, Zenon DEF AlgorithmNames
<1>2. ASSUME NEW l \in Limits[k]
      PROVE  /\ PeriodOf[k] >= 1
             /\ l \in [requests: Int, burst: Int]
             /\ WindowOf(k, l) \in Window
             /\ WindowOf(k, l).requests = l.requests
             /\ WindowOf(k, l).period = PeriodOf[k]
             /\ WindowOf(k, l).burst = l.burst
             /\ l.requests >= 1
             /\ EmissionMicros(WindowOf(k, l)) \in Nat \ {0}
             /\ AlgorithmOf[k] = "GCRA" =>
                   l.burst >= 1 /\ TauMicros(WindowOf(k, l)) \in Nat
  <2> DEFINE w == WindowOf(k, l)
  <2>1. l \in [requests: Int, burst: Int] /\ Check(AlgorithmOf[k], w)
    BY QuotaConstants, Zenon
  <2>2. w \in Window /\ w.requests = l.requests /\ w.period = PeriodOf[k] /\ w.burst = l.burst
    BY <1>1, <2>1, Zenon DEF WindowOf, Window
  <2>3. w.requests >= 1 /\ w.period >= 1
    BY <2>1, <2>2, AlgorithmConstants DEF Check, CheckCommon, Window
  <2>4. EmissionMicros(w) \in Nat \ {0}
    BY <2>2, <2>3, EmissionBounds, Zenon
  <2>5. ASSUME AlgorithmOf[k] = "GCRA"
        PROVE  w.burst >= 1 /\ TauMicros(w) \in Nat
    <3>1. w.burst >= 1 /\ w.burst \in Nat
      BY <2>1, <2>2, <2>5 DEF Check, ValidateGCRA, Window
    <3> QED
      BY <3>1, <2>4 DEF TauMicros
  <2> QED
    BY <2>1, <2>2, <2>3, <2>4, <2>5, Zenon
<1> QED
  BY <1>1, <1>2, Zenon

\* What the constants say of a call.
LEMMA CallFacts ==
    ASSUME NEW b \in Calls, NEW k \in DOMAIN b
    PROVE  /\ k \in Keys
           /\ b[k].limit \in Limits[k]
           /\ b[k].shadow \in BOOLEAN
           /\ b[k].cost \in Int
<1>1. k \in Keys /\ b[k] \in Bucket(k) /\ Costs \subseteq Int
  BY QuotaConstants, Zenon
<1> QED
  BY <1>1, Zenon DEF Bucket

-----------------------------------------------------------------------------
(* The contract.                                                           *)

\* A leaky bucket's verdict: the debt after the charge, the type of its numbers,
\* and that a charge the verdict allows fits the bucket.
LEMMA LeakyFacts ==
    ASSUME NEW w \in Window, NEW d \in Nat, NEW c \in Nat,
           EmissionMicros(w) \in Nat \ {0}, TauMicros(w) \in Nat
    PROVE  LET o == JudgeLeaky(w, d, c)
           IN /\ o.next = d + EmissionMicros(w) * c
              /\ o.next \in Nat
              /\ o.current \in Verdict
              /\ o.current.allowed => /\ o.charged \in Verdict
                                     /\ o.next <= TauMicros(w)
<1> DEFINE e == EmissionMicros(w)
           tau == TauMicros(w)
<1>1. e \in Nat /\ e > 0 /\ tau \in Nat /\ e * c \in Nat
  OBVIOUS
<1>2. NonNegative((tau - d) \div e) \in Nat
  BY <1>1 DEF NonNegative
<1>3. tau - d - e * c >= 0 => (tau - d - e * c) \div e \in Nat
  BY <1>1
<1>4. w.burst \in Int
  BY Zenon DEF Window
<1> DEFINE inc == e * c
           rem == (tau - d - inc) \div e
           cur == NonNegative((tau - d) \div e)
           exceeds == c > w.burst
           allowed == ~exceeds /\ tau - d - inc >= 0
           retry == IF allowed \/ exceeds THEN -1 ELSE -(tau - d - inc)
<1>5. JudgeLeaky(w, d, c) =
        [current |-> [allowed |-> allowed, exceeds |-> exceeds, remaining |-> cur,
                      retry |-> retry, reset |-> d],
         charged |-> [allowed |-> TRUE, exceeds |-> FALSE, remaining |-> rem,
                      retry |-> -1, reset |-> d + inc],
         next |-> d + inc]
  BY Zenon DEF JudgeLeaky
<1>6. retry \in Int /\ allowed \in BOOLEAN /\ exceeds \in BOOLEAN /\ inc \in Nat
  BY <1>1
<1>7. allowed => tau - d - inc >= 0
  BY Zenon
<1> HIDE DEF retry, allowed, exceeds, rem, cur, inc, e, tau
<1>8. [allowed |-> allowed, exceeds |-> exceeds, remaining |-> cur,
       retry |-> retry, reset |-> d] \in Verdict
  BY <1>2, <1>6, Zenon DEF Verdict, cur, tau, e
<1>9. ASSUME allowed
      PROVE  /\ [allowed |-> TRUE, exceeds |-> FALSE, remaining |-> rem,
                 retry |-> -1, reset |-> d + inc] \in Verdict
             /\ d + inc <= tau
  <2>1. rem \in Nat /\ d + inc \in Nat /\ -1 \in Int
    BY <1>3, <1>6, <1>7, <1>9 DEF rem, inc
  <2> QED
    BY <2>1, <1>1, <1>6, <1>7, <1>9 DEF Verdict
<1> QED
  BY <1>5, <1>6, <1>8, <1>9 DEF inc, e, tau

\* The same of a fixed window.
LEMMA WindowedFacts ==
    ASSUME NEW w \in Window, NEW d \in Nat, NEW c \in Nat, NEW boundary \in Nat
    PROVE  LET o == JudgeWindow(w, d, c, boundary)
           IN /\ o.next = d + c
              /\ o.next \in Nat
              /\ o.current \in Verdict
              /\ o.current.allowed => /\ o.charged \in Verdict
                                     /\ c <= NonNegative(w.requests - d)
<1> DEFINE left == NonNegative(w.requests - d)
           allowed == c <= left
           exceeds == c > w.requests
           retry == IF allowed \/ exceeds THEN -1 ELSE boundary
           reset == IF d = 0 THEN 0 ELSE boundary
<1>1. w.requests \in Int /\ left \in Nat
  BY DEF Window, NonNegative
<1>2. JudgeWindow(w, d, c, boundary) =
        [current |-> [allowed |-> allowed, exceeds |-> exceeds, remaining |-> left,
                      retry |-> retry, reset |-> reset],
         charged |-> [allowed |-> TRUE, exceeds |-> FALSE, remaining |-> left - c,
                      retry |-> -1, reset |-> boundary],
         next |-> d + c]
  BY Zenon DEF JudgeWindow
<1>3. retry \in Int /\ reset \in Nat /\ allowed \in BOOLEAN /\ exceeds \in BOOLEAN
  BY <1>1
<1>4. allowed => c <= left
  BY Zenon
<1> HIDE DEF left, allowed, exceeds, retry, reset
<1>5. [allowed |-> allowed, exceeds |-> exceeds, remaining |-> left,
       retry |-> retry, reset |-> reset] \in Verdict
  BY <1>1, <1>3, Zenon DEF Verdict
<1>6. ASSUME allowed
      PROVE  [allowed |-> TRUE, exceeds |-> FALSE, remaining |-> left - c,
              retry |-> -1, reset |-> boundary] \in Verdict
  <2>1. left - c \in Nat /\ -1 \in Int
    BY <1>1, <1>4, <1>6
  <2> QED
    BY <2>1, Zenon DEF Verdict
<1> QED
  BY <1>2, <1>4, <1>5, <1>6 DEF left

\* The time to the next boundary of a key's calendar windows.
LEMMA BoundaryFacts ==
    ASSUME NEW k \in Keys, NEW t \in Nat, PeriodOf[k] \in Int, PeriodOf[k] >= 1
    PROVE  ToBoundary(k, t) \in Nat /\ ToBoundary(k, t) >= 1 /\ ToBoundary(k, t) <= PeriodOf[k]
BY DEF ToBoundary

\* A key's verdict, whichever its algorithm.
LEMMA JudgeFacts ==
    ASSUME NEW k \in Keys, NEW l \in Limits[k], NEW d \in Nat, NEW c \in Nat, NEW t \in Nat
    PROVE  LET o == Judge(k, l, d, c, t)
               w == WindowOf(k, l)
           IN /\ o.next \in Nat
              /\ o.current \in Verdict
              /\ o.current.allowed => o.charged \in Verdict
              /\ AlgorithmOf[k] = "GCRA" =>
                    /\ o.next = d + EmissionMicros(w) * c
                    /\ o.current.allowed => o.next <= TauMicros(w)
              /\ AlgorithmOf[k] = "FixedWindow" =>
                    /\ o.next = d + c
                    /\ o.current.allowed => c <= NonNegative(l.requests - d)
<1>1. CASE AlgorithmOf[k] = "GCRA"
  <2>1. Judge(k, l, d, c, t) = JudgeLeaky(WindowOf(k, l), d, c)
    BY <1>1, Zenon DEF Judge
  <2>2. /\ WindowOf(k, l) \in Window
        /\ EmissionMicros(WindowOf(k, l)) \in Nat \ {0}
        /\ TauMicros(WindowOf(k, l)) \in Nat
    BY <1>1, WindowFacts, Zenon
  <2> DEFINE o == JudgeLeaky(WindowOf(k, l), d, c)
  <2>3. /\ o.next = d + EmissionMicros(WindowOf(k, l)) * c
        /\ o.next \in Nat
        /\ o.current \in Verdict
        /\ o.current.allowed => o.charged \in Verdict /\ o.next <= TauMicros(WindowOf(k, l))
    BY <2>2, LeakyFacts, Zenon
  <2> HIDE DEF o
  <2> QED
    BY <1>1, <2>1, <2>3, Zenon DEF o
<1>2. CASE AlgorithmOf[k] = "FixedWindow"
  <2>1. Judge(k, l, d, c, t) = JudgeWindow(WindowOf(k, l), d, c, ToBoundary(k, t))
    BY <1>2, Zenon DEF Judge
  <2>2. ToBoundary(k, t) \in Nat
    BY BoundaryFacts, WindowFacts, Zenon
  <2> DEFINE o == JudgeWindow(WindowOf(k, l), d, c, ToBoundary(k, t))
  <2>3. WindowOf(k, l) \in Window /\ WindowOf(k, l).requests = l.requests
    BY WindowFacts, Zenon
  <2>4. /\ o.next = d + c
        /\ o.next \in Nat
        /\ o.current \in Verdict
        /\ o.current.allowed => o.charged \in Verdict /\ c <= NonNegative(l.requests - d)
    BY <2>2, <2>3, WindowedFacts, Zenon
  <2> HIDE DEF o
  <2> QED
    BY <1>2, <2>1, <2>4, Zenon DEF o
<1> QED
  BY <1>1, <1>2, WindowFacts, Zenon

\* What a call charges is a debt within the limit it was judged by.
LEMMA ChargeFacts ==
    ASSUME NEW b \in Calls, Guard(b), NEW k \in DOMAIN b, LTypeOK
    PROVE  LET o == JudgeAll(b)[k]
           IN /\ k \in Keys
              /\ b[k].limit \in Limits[k]
              /\ b[k].cost \in Nat
              /\ o = Judge(k, b[k].limit, debt[k], b[k].cost, now)
              /\ o.next \in Nat
              /\ o.current \in Verdict
              /\ o.current.allowed => o.charged \in Verdict
<1>1. k \in Keys /\ b[k].limit \in Limits[k] /\ b[k].cost \in Nat
  BY CallFacts DEF Guard
<1>2. debt[k] \in Nat /\ now \in Nat
  BY <1>1, Zenon DEF LTypeOK
<1>3. JudgeAll(b)[k] = Judge(k, b[k].limit, debt[k], b[k].cost, now)
  BY Zenon DEF JudgeAll
<1> QED
  BY <1>1, <1>2, <1>3, JudgeFacts

\* Time drains a leaky bucket by at most what has passed and forgives a fixed
\* window only at its boundary.
LEMMA IdleFacts ==
    ASSUME NEW k \in Keys, NEW d \in Nat, NEW t \in Nat
    PROVE  /\ Idle(k, d, t, 1) \in Nat
           /\ Idle(k, d, t, 1) <= d
           /\ AlgorithmOf[k] = "GCRA" => d <= Idle(k, d, t, 1) + 1
           /\ AlgorithmOf[k] = "FixedWindow" =>
                 Idle(k, d, t, 1) = IF 1 >= ToBoundary(k, t) THEN 0 ELSE d
<1>1. AlgorithmOf[k] \in {"GCRA", "FixedWindow"}
  BY WindowFacts, Zenon
<1> QED
  BY <1>1 DEF Idle, NonNegative

-----------------------------------------------------------------------------
\* A step of the ledger keeps the types of its state.
LEMMA TypeStep == LTypeOK /\ [LNext]_lvars => LTypeOK'
<1> SUFFICES ASSUME LTypeOK, [LNext]_lvars
             PROVE  LTypeOK'
  BY Zenon
<1>1. CASE LTick
  <2>1. now' = now + 1 /\ debt' = [k \in Keys |-> Idle(k, debt[k], now, 1)]
        /\ UNCHANGED <<answer, watched, since, spent>>
    BY <1>1, Zenon DEF LTick, Tick, ledger
  <2>2. debt' \in [Keys -> Nat]
    <3>1. \A k \in Keys : debt[k] \in Nat /\ now \in Nat
      BY Zenon DEF LTypeOK
    <3>2. \A k \in Keys : Idle(k, debt[k], now, 1) \in Nat
      BY <3>1, IdleFacts, Zenon
    <3> QED
      BY <2>1, <3>2, Zenon
  <2>3. now' \in Nat /\ since' \in Nat /\ since' <= now'
    BY <2>1 DEF LTypeOK
  <2> QED
    BY <2>1, <2>2, <2>3, Zenon DEF LTypeOK
<1>2. ASSUME NEW b \in Calls, LDecide(b)
      PROVE  LTypeOK'
  <2>1. Guard(b) /\ Decide(b)
    BY <1>2, Zenon DEF LDecide, Decide
  <2>2. debt' \in [Keys -> Nat]
    <3>1. \A k \in Charged(b, JudgeAll(b)) : k \in DOMAIN b
      BY Zenon DEF Charged
    <3>2. \A k \in Charged(b, JudgeAll(b)) : JudgeAll(b)[k].next \in Nat
      BY <2>1, <3>1, ChargeFacts, Zenon
    <3> QED
      BY <2>1, <3>2, Zenon DEF Decide, LTypeOK
  <2>3. \A k \in DOMAIN answer' : k \in Keys /\ answer'[k] \in Verdict
    <3> DEFINE hit == Charged(b, JudgeAll(b))
               full == [k \in DOMAIN b |-> IF k \in hit THEN JudgeAll(b)[k].charged
                                                       ELSE JudgeAll(b)[k].current]
    <3>1. answer' = full \/ answer' = NoAnswer
      BY <2>1, Zenon DEF Decide
    <3>2. \A k \in DOMAIN b : k \in hit => JudgeAll(b)[k].current.allowed
      BY Zenon DEF Charged
    <3>3. \A k \in DOMAIN b : k \in Keys /\ full[k] \in Verdict
      BY <2>1, <3>2, ChargeFacts, Zenon
    <3> QED
      BY <3>1, <3>3, Zenon DEF NoAnswer
  <2>4. spent' \in Nat
    <3>1. watched \in Charged(b, JudgeAll(b)) => b[watched].cost \in Nat
      BY <2>1, ChargeFacts, Zenon DEF Charged
    <3> QED
      BY <1>2, <3>1 DEF LDecide, LTypeOK
  <2> QED
    BY <1>2, <2>1, <2>2, <2>3, <2>4, Zenon DEF LTypeOK, LDecide, Decide
<1>3. ASSUME NEW b \in Calls, LPeek(b)
      PROVE  LTypeOK'
  <2>1. Guard(b) /\ answer' \in {Current(JudgeAll(b)), NoAnswer} /\ UNCHANGED <<now, debt, ledger>>
    BY <1>3, Zenon DEF LPeek, Peek
  <2>2. \A k \in DOMAIN b : k \in Keys /\ JudgeAll(b)[k].current \in Verdict
    BY <2>1, ChargeFacts, Zenon
  <2>3. \A k \in DOMAIN answer' : k \in Keys /\ answer'[k] \in Verdict
    BY <2>1, <2>2, Zenon DEF NoAnswer, Current, JudgeAll
  <2> QED
    BY <2>1, <2>3, Zenon DEF LTypeOK, ledger
<1>4. CASE LFail
  BY <1>4, Zenon DEF LTypeOK, LFail, Fail, NoAnswer, ledger
<1>5. ASSUME NEW K \in SUBSET Keys, LReset(K)
      PROVE  LTypeOK'
  BY <1>5 DEF LTypeOK, LReset, Reset
<1>6. CASE Watch
  BY <1>6 DEF LTypeOK, Watch
<1>7. CASE UNCHANGED lvars
  BY <1>7, Zenon DEF LTypeOK, lvars
<1> QED
  BY <1>1, <1>2, <1>3, <1>4, <1>5, <1>6, <1>7, Zenon DEF LNext

\* The ledger's state is well typed: the store never owes a negative amount and
\* never answers a negative remaining or reset (Verdict in engine/store).
THEOREM LedgerTypes == LSpec => []LTypeOK
<1>1. LInit => LTypeOK
  BY QuotaConstants DEF LInit, Init, LTypeOK, NoAnswer
<1> QED
  BY <1>1, TypeStep, PTL DEF LSpec

-----------------------------------------------------------------------------
\* A step of the ledger leaves the key under observation alone.
LEMMA WatchedStays == [LNext]_lvars => watched' = watched
BY Zenon DEF LNext, lvars, ledger, LTick, LDecide, LPeek, LFail, LReset, Watch

\* A decision that charges the watched key: the debt grows by the charge, and
\* the verdict that allowed it was judged by a limit of the key.
LEMMA WatchedCharge ==
    ASSUME LTypeOK, NEW b \in Calls, LDecide(b), watched \in Charged(b, JudgeAll(b))
    PROVE  LET l == b[watched].limit
               c == b[watched].cost
               w == WindowOf(watched, l)
           IN /\ l \in Limits[watched] /\ c \in Nat
              /\ spent' = spent + c /\ now' = now /\ since' = since
              /\ AlgorithmOf[watched] = "GCRA" =>
                    /\ debt'[watched] = debt[watched] + EmissionMicros(w) * c
                    /\ debt'[watched] <= TauMicros(w)
              /\ AlgorithmOf[watched] = "FixedWindow" =>
                    /\ debt'[watched] = debt[watched] + c
                    /\ c <= NonNegative(l.requests - debt[watched])
<1> DEFINE o == JudgeAll(b)[watched]
<1>1. Guard(b) /\ watched \in DOMAIN b /\ o.current.allowed
  BY Zenon DEF LDecide, Decide, Charged
<1>2. /\ b[watched].limit \in Limits[watched]
      /\ b[watched].cost \in Nat
      /\ o = Judge(watched, b[watched].limit, debt[watched], b[watched].cost, now)
  BY <1>1, ChargeFacts, Zenon
<1>3. debt'[watched] = o.next /\ now' = now
  BY Zenon DEF LDecide, Decide, LTypeOK
<1>4. spent' = spent + b[watched].cost /\ since' = since
  BY Zenon DEF LDecide
<1>5. watched \in Keys /\ debt[watched] \in Nat /\ now \in Nat
  BY Zenon DEF LTypeOK
<1>6. /\ AlgorithmOf[watched] = "GCRA" =>
            /\ o.next = debt[watched] + EmissionMicros(WindowOf(watched, b[watched].limit)) * b[watched].cost
            /\ o.next <= TauMicros(WindowOf(watched, b[watched].limit))
      /\ AlgorithmOf[watched] = "FixedWindow" =>
            /\ o.next = debt[watched] + b[watched].cost
            /\ b[watched].cost <= NonNegative(b[watched].limit.requests - debt[watched])
  <2> DEFINE l == b[watched].limit
             c == b[watched].cost
             d == debt[watched]
             j == Judge(watched, l, d, c, now)
  <2> HIDE DEF o, l, c, d
  <2>1. l \in Limits[watched] /\ c \in Nat /\ d \in Nat /\ o = j
    BY <1>2, <1>5, Zenon DEF l, c, d
  <2>2. /\ AlgorithmOf[watched] = "GCRA" =>
              /\ j.next = d + EmissionMicros(WindowOf(watched, l)) * c
              /\ j.current.allowed => j.next <= TauMicros(WindowOf(watched, l))
        /\ AlgorithmOf[watched] = "FixedWindow" =>
              /\ j.next = d + c
              /\ j.current.allowed => c <= NonNegative(l.requests - d)
    BY <1>5, <2>1, JudgeFacts, Zenon
  <2> HIDE DEF j
  <2> QED
    BY <1>1, <2>1, <2>2, Zenon DEF l, c, d
<1> HIDE DEF o
<1> QED
  BY <1>2, <1>3, <1>4, <1>6, Zenon

\* A decision that does not charge the watched key leaves its ledger alone.
LEMMA WatchedSpared ==
    ASSUME LTypeOK, NEW b \in Calls, LDecide(b), watched \notin Charged(b, JudgeAll(b))
    PROVE  debt'[watched] = debt[watched] /\ UNCHANGED <<now, since, spent>>
BY Zenon DEF LDecide, Decide, LTypeOK

\* Every step preserves the rate's accounting.
LEMMA RateStep == LTypeOK /\ RateInv /\ [LNext]_lvars => RateInv'
<1> SUFFICES ASSUME LTypeOK, RateInv, [LNext]_lvars, AlgorithmOf[watched] = "GCRA",
                    NEW e \in Emissions(watched), NEW tau \in Taus(watched),
                    Loosest(watched, e, tau)
             PROVE  /\ debt'[watched] <= tau
                    /\ spent' * e <= debt'[watched] + (now' - since')
  BY WatchedStays, Zenon DEF RateInv, Emissions, Taus, Loosest
<1>1. e \in Nat /\ tau \in Nat
  BY WindowFacts DEF Emissions, Taus, LTypeOK
<1>2. /\ debt[watched] <= tau
      /\ spent * e <= debt[watched] + (now - since)
  BY Zenon DEF RateInv
<1>3. /\ watched \in Keys /\ debt[watched] \in Nat
      /\ now \in Nat /\ since \in Nat /\ spent \in Nat /\ since <= now
  BY Zenon DEF LTypeOK
<1>4. CASE LTick
  <2>1. /\ debt'[watched] = Idle(watched, debt[watched], now, 1)
        /\ now' = now + 1 /\ since' = since /\ spent' = spent
    BY <1>3, <1>4, Zenon DEF LTick, Tick, ledger
  <2>2. /\ debt'[watched] \in Nat
        /\ debt'[watched] <= debt[watched] /\ debt[watched] <= debt'[watched] + 1
    BY <1>3, <2>1, IdleFacts
  <2> QED
    BY <1>1, <1>2, <1>3, <2>1, <2>2
<1>5. ASSUME NEW b \in Calls, LDecide(b)
      PROVE  /\ debt'[watched] <= tau
             /\ spent' * e <= debt'[watched] + (now' - since')
  <2>1. CASE watched \in Charged(b, JudgeAll(b))
    <3> DEFINE c == b[watched].cost
               E == EmissionMicros(WindowOf(watched, b[watched].limit))
               T == TauMicros(WindowOf(watched, b[watched].limit))
    <3>1. /\ b[watched].limit \in Limits[watched] /\ c \in Nat
          /\ spent' = spent + c /\ now' = now /\ since' = since
          /\ debt'[watched] = debt[watched] + E * c /\ debt'[watched] <= T
      BY <1>5, <2>1, WatchedCharge, Zenon
    <3>2. E \in Nat /\ T \in Nat /\ e <= E /\ T <= tau
      BY <1>3, <3>1, WindowFacts, Zenon DEF Loosest
    <3> HIDE DEF c, E, T
    <3>3. e * c <= E * c /\ e * c \in Nat /\ E * c \in Nat
      BY <1>1, <3>1, <3>2, TimesMonotonic
    <3>4. (spent + c) * e = spent * e + e * c
      BY <1>1, <1>3, <3>1
    <3>5. spent * e \in Nat
      BY <1>1, <1>3
    <3> QED
      BY <1>1, <1>2, <1>3, <3>1, <3>2, <3>3, <3>4, <3>5
  <2>2. CASE watched \notin Charged(b, JudgeAll(b))
    BY <1>2, <1>5, <2>2, WatchedSpared, Zenon
  <2> QED
    BY <2>1, <2>2, Zenon
<1>6. ASSUME NEW b \in Calls, LPeek(b)
      PROVE  UNCHANGED <<now, debt, ledger>>
  BY <1>6, Zenon DEF LPeek, Peek
<1>7. CASE LFail
  BY <1>2, <1>7, Zenon DEF LFail, Fail, ledger
<1>8. ASSUME NEW K \in SUBSET Keys, LReset(K)
      PROVE  /\ debt'[watched] <= tau
             /\ spent' * e <= debt'[watched] + (now' - since')
  BY <1>1, <1>2, <1>3, <1>8 DEF LReset, Reset
<1>9. CASE Watch
  BY <1>1, <1>2, <1>3, <1>9 DEF Watch
<1>10. CASE UNCHANGED lvars
  BY <1>2, <1>10, Zenon DEF lvars
<1> QED
  BY <1>2, <1>4, <1>5, <1>6, <1>7, <1>8, <1>9, <1>10, Zenon DEF LNext, ledger

\* The clock enters the next calendar window exactly when the boundary is one
\* microsecond away.
LEMMA WindowTick ==
    ASSUME NEW P \in Nat, P >= 1, NEW t \in Nat
    PROVE  /\ t \div P \in Nat
           /\ (t + 1) \div P = IF 1 >= P - (t % P) THEN (t \div P) + 1 ELSE t \div P
<1> DEFINE q == t \div P
           r == t % P
<1>1. q \in Nat /\ r \in 0..(P - 1) /\ t = P * q + r
  BY SMT
<1>2. ASSUME NEW u \in Nat, NEW n \in Nat, NEW m \in 0..(P - 1), u = P * n + m
      PROVE  u \div P = n
  BY <1>2, SMT
<1>3. CASE r = P - 1
  <2>1. t + 1 = P * (q + 1) + 0
    BY <1>1, <1>3
  <2>2. (t + 1) \div P = q + 1
    BY <1>1, <1>2, <2>1
  <2> QED
    BY <1>1, <1>3, <2>2
<1>4. CASE r < P - 1
  <2>1. t + 1 = P * q + (r + 1) /\ r + 1 \in 0..(P - 1)
    BY <1>1, <1>4
  <2>2. (t + 1) \div P = q
    BY <1>1, <1>2, <2>1
  <2> QED
    BY <1>1, <1>4, <2>2
<1> QED
  BY <1>1, <1>3, <1>4

\* Every step preserves the quota's accounting.
LEMMA QuotaStep == LTypeOK /\ QuotaInv /\ [LNext]_lvars => QuotaInv'
<1> SUFFICES ASSUME LTypeOK, QuotaInv, [LNext]_lvars, AlgorithmOf[watched] = "FixedWindow",
                    NEW top \in {l.requests : l \in Limits[watched]},
                    \A l \in Limits[watched] : l.requests <= top
             PROVE  /\ debt'[watched] <= top
                    /\ spent' <= debt'[watched] + top * (WindowsTouched(watched, since', now') - 1)
  BY WatchedStays, Zenon DEF QuotaInv, WindowsTouched
<1> DEFINE P == PeriodOf[watched]
<1>1. top \in Nat /\ P \in Nat /\ P >= 1
  BY WindowFacts DEF LTypeOK
<1>2. /\ debt[watched] <= top
      /\ spent <= debt[watched] + top * (WindowsTouched(watched, since, now) - 1)
  BY Zenon DEF QuotaInv
<1>3. /\ watched \in Keys /\ debt[watched] \in Nat
      /\ now \in Nat /\ since \in Nat /\ spent \in Nat /\ since <= now
  BY Zenon DEF LTypeOK
<1>4. now \div P \in Nat /\ since \div P \in Nat
  BY <1>1, <1>3, WindowTick, Zenon
<1>5. WindowsTouched(watched, since, now) - 1 = (now \div P) - (since \div P)
  BY <1>4 DEF WindowsTouched
<1>6. CASE LTick
  <2>1. /\ debt'[watched] = IF 1 >= P - (now % P) THEN 0 ELSE debt[watched]
        /\ now' = now + 1 /\ since' = since /\ spent' = spent
    BY <1>3, <1>6, IdleFacts, Zenon DEF LTick, Tick, ledger, ToBoundary
  <2>2. WindowsTouched(watched, since', now') - 1 = ((now + 1) \div P) - (since \div P)
    <3>1. (now + 1) \div P \in Nat
      BY <1>1, <1>3, WindowTick
    <3> QED
      BY <1>4, <2>1, <3>1 DEF WindowsTouched
  <2>3. CASE 1 >= P - (now % P)
    <3> DEFINE n == (now \div P) - (since \div P)
    <3>1. WindowsTouched(watched, since', now') - 1 = n + 1 /\ debt'[watched] = 0
      <4>1. (now + 1) \div P = (now \div P) + 1
        BY <1>1, <1>3, <2>3, WindowTick, Zenon
      <4> QED
        BY <1>4, <2>1, <2>2, <2>3, <4>1
    <3>2. n \in Int /\ top * (n + 1) = top * n + top /\ top * n \in Int
      BY <1>1, <1>4
    <3> HIDE DEF n
    <3>3. spent <= debt[watched] + top * n
      BY <1>2, <1>5, Zenon DEF n
    <3> QED
      BY <1>1, <1>2, <1>3, <2>1, <3>1, <3>2, <3>3
  <2>4. CASE ~(1 >= P - (now % P))
    BY <1>1, <1>2, <1>3, <1>5, <2>1, <2>2, <2>4, WindowTick, Zenon
  <2> QED
    BY <2>3, <2>4, Zenon
<1>7. ASSUME NEW b \in Calls, LDecide(b)
      PROVE  /\ debt'[watched] <= top
             /\ spent' <= debt'[watched] + top * (WindowsTouched(watched, since', now') - 1)
  <2>1. CASE watched \in Charged(b, JudgeAll(b))
    <3> DEFINE c == b[watched].cost
               q == b[watched].limit.requests
               n == top * (WindowsTouched(watched, since, now) - 1)
    <3>1. /\ b[watched].limit \in Limits[watched] /\ c \in Nat
          /\ spent' = spent + c /\ now' = now /\ since' = since
          /\ debt'[watched] = debt[watched] + c /\ c <= NonNegative(q - debt[watched])
      BY <1>7, <2>1, WatchedCharge, Zenon
    <3>2. q \in Int /\ q <= top
      BY <1>3, <3>1, WindowFacts, Zenon
    <3>3. n \in Int
      BY <1>1, <1>4, <1>5
    <3> HIDE DEF c, q
    <3>4. debt[watched] + c <= top
      BY <1>1, <1>2, <1>3, <3>1, <3>2 DEF NonNegative
    <3>5. spent + c <= debt[watched] + c + n
      <4> HIDE DEF n
      <4>1. spent <= debt[watched] + n
        BY <1>2, Zenon DEF n
      <4> QED
        BY <1>3, <3>1, <3>3, <4>1
    <3> QED
      BY <3>1, <3>4, <3>5, Zenon
  <2>2. CASE watched \notin Charged(b, JudgeAll(b))
    BY <1>2, <1>7, <2>2, WatchedSpared, Zenon
  <2> QED
    BY <2>1, <2>2, Zenon
<1>8. ASSUME NEW b \in Calls, LPeek(b)
      PROVE  UNCHANGED <<now, debt, ledger>>
  BY <1>8, Zenon DEF LPeek, Peek
<1>9. CASE LFail
  BY <1>2, <1>9, Zenon DEF LFail, Fail, ledger
<1>10. top * (WindowsTouched(watched, now, now) - 1) = 0
  BY <1>1, <1>4 DEF WindowsTouched
<1>11. ASSUME NEW K \in SUBSET Keys, LReset(K)
       PROVE  /\ debt'[watched] <= top
              /\ spent' <= debt'[watched] + top * (WindowsTouched(watched, since', now') - 1)
  <2>1. CASE watched \in K
    <3>1. debt'[watched] = 0 /\ spent' = 0 /\ since' = now /\ now' = now
      BY <1>3, <1>11, <2>1, Zenon DEF LReset, Reset
    <3> QED
      BY <1>1, <1>10, <3>1
  <2>2. CASE watched \notin K
    BY <1>2, <1>3, <1>11, <2>2, Zenon DEF LReset, Reset
  <2> QED
    BY <2>1, <2>2, Zenon
<1>12. CASE Watch
  <2>1. debt' = debt /\ spent' = 0 /\ since' = now /\ now' = now
    BY <1>12, Zenon DEF Watch
  <2> QED
    BY <1>2, <1>3, <1>10, <2>1
<1>13. CASE UNCHANGED lvars
  BY <1>2, <1>13, Zenon DEF lvars
<1> QED
  BY <1>2, <1>6, <1>7, <1>8, <1>9, <1>11, <1>12, <1>13, Zenon DEF LNext, ledger

\* The accounting holds in every state of every behaviour.
THEOREM LedgerInvariant == LSpec => []LedgerInv
<1>1. LInit => LedgerInv
  <2> SUFFICES ASSUME LInit PROVE LedgerInv
    BY Zenon
  <2>1. LTypeOK
    BY QuotaConstants DEF LInit, Init, LTypeOK, NoAnswer
  <2>2. debt[watched] = 0 /\ spent = 0 /\ now - since = 0 /\ now = since /\ watched \in Keys
    BY QuotaConstants DEF LInit, Init
  <2>3. RateInv
    <3>1. \A e \in Emissions(watched), tau \in Taus(watched) :
            AlgorithmOf[watched] = "GCRA" => e \in Nat /\ tau \in Nat
      BY <2>2, WindowFacts, ZenonT(40) DEF Emissions, Taus
    <3> QED
      BY <2>2, <3>1 DEF RateInv
  <2>4. QuotaInv
    <3>1. ASSUME NEW l \in Limits[watched]
          PROVE  l.requests \in Nat /\ PeriodOf[watched] \in Nat /\ PeriodOf[watched] >= 1
      BY <2>2, WindowFacts
    <3>2. ASSUME NEW l \in Limits[watched]
          PROVE  l.requests * (WindowsTouched(watched, since, now) - 1) = 0
      BY <2>1, <2>2, <3>1, WindowTick DEF WindowsTouched, LTypeOK
    <3> QED
      BY <2>2, <3>1, <3>2 DEF QuotaInv
  <2> QED
    BY <2>1, <2>3, <2>4, Zenon DEF LedgerInv
<1>2. LedgerInv /\ [LNext]_lvars => LedgerInv'
  BY TypeStep, RateStep, QuotaStep, Zenon DEF LedgerInv
<1> QED
  BY <1>1, <1>2, PTL DEF LSpec

\* GCRA admits at most its rate and its burst over every interval.
THEOREM RateBound == LSpec => []RateHeld
<1>1. LedgerInv => RateHeld
  <2> SUFFICES ASSUME LedgerInv, AlgorithmOf[watched] = "GCRA",
                      NEW e \in Emissions(watched), NEW tau \in Taus(watched),
                      Loosest(watched, e, tau)
               PROVE  spent * e <= (now - since) + tau
    BY Zenon DEF RateHeld
  <2>1. debt[watched] <= tau /\ spent * e <= debt[watched] + (now - since)
    BY Zenon DEF LedgerInv, RateInv
  <2>2. e \in Nat /\ tau \in Nat /\ debt[watched] \in Nat
    BY WindowFacts DEF LedgerInv, LTypeOK, Emissions, Taus
  <2>3. spent * e \in Nat /\ now - since \in Nat
    BY <2>2 DEF LedgerInv, LTypeOK
  <2> QED
    BY <2>1, <2>2, <2>3
<1> QED
  BY <1>1, LedgerInvariant, PTL

\* A fixed window admits at most its quota per calendar window over every
\* interval.
THEOREM QuotaBound == LSpec => []QuotaHeld
<1>1. LedgerInv => QuotaHeld
  <2> SUFFICES ASSUME LedgerInv, AlgorithmOf[watched] = "FixedWindow",
                      NEW top \in {l.requests : l \in Limits[watched]},
                      \A l \in Limits[watched] : l.requests <= top
               PROVE  spent <= top * WindowsTouched(watched, since, now)
    BY Zenon DEF QuotaHeld
  <2> DEFINE n == WindowsTouched(watched, since, now)
  <2>1. debt[watched] <= top /\ spent <= debt[watched] + top * (n - 1)
    BY Zenon DEF LedgerInv, QuotaInv
  <2>2. /\ top \in Nat /\ debt[watched] \in Nat /\ spent \in Nat
        /\ now \div PeriodOf[watched] \in Nat /\ since \div PeriodOf[watched] \in Nat
    BY WindowFacts, WindowTick DEF LedgerInv, LTypeOK
  <2>3. n \in Int
    BY <2>2 DEF WindowsTouched
  <2> HIDE DEF n
  <2>4. top * n = top * (n - 1) + top /\ top * (n - 1) \in Int
    BY <2>2, <2>3
  <2> QED
    BY <2>1, <2>2, <2>3, <2>4 DEF n
<1> QED
  BY <1>1, LedgerInvariant, PTL

-----------------------------------------------------------------------------
\* The fields of a GCRA verdict, for a cost and a debt of a key.
LEMMA GcraVerdict ==
    ASSUME NEW k \in Keys, NEW l \in Limits[k], AlgorithmOf[k] = "GCRA",
           NEW d \in Nat, NEW c \in Nat, NEW t \in Nat
    PROVE  LET v == Judge(k, l, d, c, t).current
               inc == EmissionMicros(WindowOf(k, l)) * c
               tau == TauMicros(WindowOf(k, l))
           IN /\ inc \in Nat /\ tau \in Nat
              /\ c <= l.burst => inc <= tau
              /\ v.exceeds <=> c > l.burst
              /\ v.allowed <=> c <= l.burst /\ d + inc <= tau
              /\ c <= l.burst /\ d + inc > tau => v.retry = d + inc - tau
              /\ v.reset = d
<1> DEFINE w == WindowOf(k, l)
           e == EmissionMicros(w)
           v == Judge(k, l, d, c, t).current
           inc == e * c
           tau == TauMicros(w)
           left == tau - d - inc
           exceeds == c > l.burst
           allowed == ~exceeds /\ left >= 0
<1>1. e \in Nat \ {0} /\ tau \in Nat /\ l.burst \in Int /\ l.burst >= 1 /\ w.burst = l.burst
  BY WindowFacts, Zenon
<1>2. tau = e * l.burst
  BY <1>1, Zenon DEF TauMicros
<1>3. v = [allowed |-> allowed, exceeds |-> exceeds,
           remaining |-> NonNegative((tau - d) \div e),
           retry |-> IF allowed \/ exceeds THEN -1 ELSE -left, reset |-> d]
  BY <1>1, Zenon DEF Judge, JudgeLeaky
<1> HIDE DEF v, w, tau, e
<1>4. inc \in Nat
  BY <1>1
<1>5. c <= l.burst => inc <= tau
  BY <1>1, <1>2, TimesMonotonic
<1> HIDE DEF inc
<1>6. v.exceeds = exceeds /\ v.allowed = allowed /\ v.reset = d
      /\ v.retry = IF allowed \/ exceeds THEN -1 ELSE -left
  <2> HIDE DEF allowed, exceeds, left
  <2> QED
    BY <1>3, Zenon
<1>7. /\ exceeds <=> c > l.burst
      /\ allowed <=> c <= l.burst /\ d + inc <= tau
      /\ -left = d + inc - tau
      /\ c <= l.burst /\ d + inc > tau => ~allowed /\ ~exceeds
  BY <1>1, <1>4
<1>8. /\ v.exceeds <=> c > l.burst
      /\ v.allowed <=> c <= l.burst /\ d + inc <= tau
      /\ c <= l.burst /\ d + inc > tau => v.retry = d + inc - tau
  <2> HIDE DEF allowed, exceeds, left
  <2> QED
    BY <1>6, <1>7, Zenon
<1> QED
  BY <1>1, <1>4, <1>5, <1>6, <1>8, Zenon DEF v, w, tau, e, inc

\* What the lemma above says of a judgement.
GcraSays(k, l, d, c, t) ==
    LET v == Judge(k, l, d, c, t).current
        inc == EmissionMicros(WindowOf(k, l)) * c
        tau == TauMicros(WindowOf(k, l))
    IN /\ inc \in Nat /\ tau \in Nat
       /\ c <= l.burst => inc <= tau
       /\ v.exceeds <=> c > l.burst
       /\ v.allowed <=> c <= l.burst /\ d + inc <= tau
       /\ c <= l.burst /\ d + inc > tau => v.retry = d + inc - tau

\* The same, of judgements named elsewhere.
LEMMA GcraSaid ==
    ASSUME NEW k \in Keys, NEW l \in Limits[k], AlgorithmOf[k] = "GCRA",
           NEW d \in Nat, NEW c \in Nat, NEW t \in Nat
    PROVE  GcraSays(k, l, d, c, t)
BY GcraVerdict, SMTT(60) DEF GcraSays

\* The fields of a fixed window's verdict.
LEMMA FixedVerdict ==
    ASSUME NEW k \in Keys, NEW l \in Limits[k], AlgorithmOf[k] = "FixedWindow",
           NEW d \in Nat, NEW c \in Nat \ {0}, NEW t \in Nat
    PROVE  LET v == Judge(k, l, d, c, t).current
           IN /\ l.requests \in Nat /\ ToBoundary(k, t) \in Nat \ {0}
              /\ v.exceeds <=> c > l.requests
              /\ v.allowed <=> d + c <= l.requests
              /\ c <= l.requests /\ d + c > l.requests => v.retry = ToBoundary(k, t)
              /\ v.reset = IF d = 0 THEN 0 ELSE ToBoundary(k, t)
<1> DEFINE w == WindowOf(k, l)
           v == Judge(k, l, d, c, t).current
           left == NonNegative(w.requests - d)
           allowed == c <= left
           exceeds == c > w.requests
           boundary == ToBoundary(k, t)
<1>1. l.requests \in Nat /\ w.requests = l.requests
  BY WindowFacts
<1>2. boundary \in Nat \ {0}
  BY BoundaryFacts, WindowFacts
<1>3. v = [allowed |-> allowed, exceeds |-> exceeds, remaining |-> left,
           retry |-> IF allowed \/ exceeds THEN -1 ELSE boundary,
           reset |-> IF d = 0 THEN 0 ELSE boundary]
  BY Zenon DEF Judge, JudgeWindow
<1> HIDE DEF v, w, boundary
<1>4. /\ exceeds <=> c > l.requests
      /\ allowed <=> d + c <= l.requests
      /\ c <= l.requests /\ d + c > l.requests => ~allowed /\ ~exceeds
  BY <1>1 DEF NonNegative
<1> HIDE DEF allowed, exceeds, left
<1>5. /\ v.exceeds = exceeds /\ v.allowed = allowed
      /\ v.retry = IF allowed \/ exceeds THEN -1 ELSE boundary
      /\ v.reset = IF d = 0 THEN 0 ELSE boundary
  BY <1>3, Zenon
<1>6. /\ v.exceeds <=> c > l.requests
      /\ v.allowed <=> d + c <= l.requests
      /\ c <= l.requests /\ d + c > l.requests => v.retry = boundary
  BY <1>4, <1>5, Zenon
<1> QED
  BY <1>1, <1>2, <1>5, <1>6, Zenon DEF v, boundary

\* Left alone for r, a key's debt drains to a natural number.
LEMMA IdleType ==
    ASSUME NEW k \in Keys, NEW d \in Nat, NEW t \in Nat, NEW r \in Nat
    PROVE  Idle(k, d, t, r) \in Nat
BY DEF Idle, NonNegative

\* The retry hint is exact for every key, limit, cost and debt: waiting it out
\* admits the request, and no shorter wait does.
THEOREM RetryHint == LSpec => []RetryExact
<1>1. LTypeOK => RetryExact
  <2> SUFFICES ASSUME LTypeOK, NEW k \in Keys, NEW l \in Limits[k],
                      NEW c \in Costs \cap (Nat \ {0}),
                      ~Judge(k, l, debt[k], c, now).current.allowed,
                      ~Judge(k, l, debt[k], c, now).current.exceeds
               PROVE  LET retry == Judge(k, l, debt[k], c, now).current.retry
                          then(r) == Judge(k, l, Idle(k, debt[k], now, r), c, now + r).current
                      IN /\ retry > 0
                         /\ then(retry).allowed
                         /\ \A r \in 0..(retry - 1) : ~then(r).allowed
    BY ZenonT(40) DEF RetryExact
  <2> DEFINE d == debt[k]
             retry == Judge(k, l, d, c, now).current.retry
             then(r) == Judge(k, l, Idle(k, d, now, r), c, now + r).current
  <2>1. d \in Nat /\ now \in Nat /\ c \in Nat \ {0}
    BY Zenon DEF LTypeOK
  <2>2. CASE AlgorithmOf[k] = "GCRA"
    <3> DEFINE inc == EmissionMicros(WindowOf(k, l)) * c
               tau == TauMicros(WindowOf(k, l))
    <3>1. /\ inc \in Nat /\ tau \in Nat /\ inc <= tau
          /\ c <= l.burst /\ d + inc > tau /\ retry = d + inc - tau
      <4> DEFINE v == Judge(k, l, d, c, now).current
      <4>1. l.burst \in Int
        BY WindowFacts, Zenon
      <4>2. /\ inc \in Nat /\ tau \in Nat
            /\ c <= l.burst => inc <= tau
            /\ v.exceeds <=> c > l.burst
            /\ v.allowed <=> c <= l.burst /\ d + inc <= tau
            /\ c <= l.burst /\ d + inc > tau => v.retry = d + inc - tau
        BY <2>1, <2>2, GcraVerdict, Zenon
      <4>3. ~v.exceeds /\ ~v.allowed
        BY Zenon
      <4> HIDE DEF v, inc, tau, d
      <4>4. retry = v.retry
        BY Zenon DEF v
      <4> HIDE DEF retry
      <4> QED
        BY <2>1, <4>1, <4>2, <4>3, <4>4
    <3>2. ASSUME NEW r \in Nat
          PROVE  /\ Idle(k, d, now, r) = NonNegative(d - r)
                 /\ then(r).allowed <=> NonNegative(d - r) + inc <= tau
      <4>1. Idle(k, d, now, r) = NonNegative(d - r) /\ NonNegative(d - r) \in Nat /\ now + r \in Nat
        BY <2>1, <2>2 DEF Idle, NonNegative
      <4>2. then(r).allowed <=> c <= l.burst /\ Idle(k, d, now, r) + inc <= tau
        <5> DEFINE i == Idle(k, d, now, r)
                   n == now + r
                   v == Judge(k, l, i, c, n).current
        <5>1. i \in Nat /\ n \in Nat
          BY <4>1, Zenon
        <5> HIDE DEF i, n
        <5>2. /\ inc \in Nat /\ tau \in Nat
              /\ c <= l.burst => inc <= tau
              /\ v.exceeds <=> c > l.burst
              /\ v.allowed <=> c <= l.burst /\ i + inc <= tau
          BY <2>1, <2>2, <5>1, GcraVerdict, Zenon
        <5> QED
          BY <5>2, Zenon DEF i, n
      <4> QED
        BY <3>1, <4>1, <4>2, Zenon
    <3> HIDE DEF retry, then, inc, tau
    <3>3. retry \in Nat /\ retry > 0 /\ then(retry).allowed
      BY <2>1, <3>1, <3>2 DEF NonNegative
    <3>4. \A r \in 0..(retry - 1) : ~then(r).allowed
      BY <2>1, <3>1, <3>2 DEF NonNegative
    <3> QED
      BY <3>3, <3>4, Zenon DEF retry, then
  <2>3. CASE AlgorithmOf[k] = "FixedWindow"
    <3>1. /\ l.requests \in Nat /\ ToBoundary(k, now) \in Nat \ {0}
          /\ c <= l.requests /\ d + c > l.requests /\ retry = ToBoundary(k, now)
      <4> DEFINE v == Judge(k, l, d, c, now).current
      <4>1. /\ l.requests \in Nat /\ ToBoundary(k, now) \in Nat \ {0}
            /\ v.exceeds <=> c > l.requests
            /\ v.allowed <=> d + c <= l.requests
            /\ c <= l.requests /\ d + c > l.requests => v.retry = ToBoundary(k, now)
        BY <2>1, <2>3, FixedVerdict, Zenon
      <4>2. ~v.exceeds /\ ~v.allowed /\ retry = v.retry
        BY Zenon
      <4> HIDE DEF v, retry, d
      <4> QED
        BY <2>1, <4>1, <4>2
    <3>2. ASSUME NEW r \in Nat
          PROVE  /\ Idle(k, d, now, r) = IF r >= ToBoundary(k, now) THEN 0 ELSE d
                 /\ then(r).allowed <=> Idle(k, d, now, r) + c <= l.requests
      <4>1. Idle(k, d, now, r) = IF r >= ToBoundary(k, now) THEN 0 ELSE d
        BY <2>3, Zenon DEF Idle
      <4>2. Idle(k, d, now, r) \in Nat /\ now + r \in Nat
        <5>1. now + r \in Nat
          BY <2>1
        <5> QED
          BY <2>1, <5>1, IdleType, Zenon
      <4> QED
        BY <2>1, <2>3, <4>1, <4>2, FixedVerdict, Zenon
    <3> HIDE DEF retry, then
    <3>3. retry \in Nat /\ retry > 0 /\ then(retry).allowed
      BY <2>1, <3>1, <3>2
    <3>4. \A r \in 0..(retry - 1) : ~then(r).allowed
      BY <2>1, <3>1, <3>2
    <3> QED
      BY <3>3, <3>4 DEF retry, then
  <2> QED
    BY <2>2, <2>3, WindowFacts, Zenon
<1> QED
  BY <1>1, LedgerTypes, PTL

\* The exceeds mark is exact: a marked refusal is refused by an empty bucket too.
THEOREM ExceedsMark == LSpec => []ExceedsIsForever
<1>1. LTypeOK => ExceedsIsForever
  <2> SUFFICES ASSUME LTypeOK, NEW k \in Keys, NEW l \in Limits[k],
                      NEW c \in Costs \cap (Nat \ {0}),
                      ~Judge(k, l, debt[k], c, now).current.allowed
               PROVE  Judge(k, l, debt[k], c, now).current.exceeds
                        <=> ~Judge(k, l, 0, c, now).current.allowed
    BY Zenon DEF ExceedsIsForever
  <2>1. debt[k] \in Nat /\ now \in Nat /\ c \in Nat \ {0}
    BY Zenon DEF LTypeOK
  <2>2. l.burst \in Int /\ l.requests \in Int
    BY WindowFacts, Zenon
  <2> DEFINE v == Judge(k, l, debt[k], c, now).current
             u == Judge(k, l, 0, c, now).current
  <2>3. CASE AlgorithmOf[k] = "GCRA"
    <3> DEFINE inc == EmissionMicros(WindowOf(k, l)) * c
               tau == TauMicros(WindowOf(k, l))
    <3>1. v.exceeds <=> c > l.burst
      BY <2>1, <2>3, GcraVerdict, Zenon
    <3>2. /\ inc \in Nat /\ tau \in Nat
          /\ c <= l.burst => inc <= tau
          /\ u.allowed <=> c <= l.burst /\ 0 + inc <= tau
      <4>1. 0 \in Nat
        BY Zenon
      <4> QED
        BY <2>1, <2>3, <4>1, GcraVerdict, Zenon
    <3> HIDE DEF v, u, inc, tau
    <3>3. v.exceeds <=> ~u.allowed
      BY <2>1, <2>2, <3>1, <3>2
    <3> QED
      BY <3>3, Zenon DEF v, u
  <2>4. CASE AlgorithmOf[k] = "FixedWindow"
    <3>1. v.exceeds <=> c > l.requests
      BY <2>1, <2>4, FixedVerdict, Zenon
    <3>2. u.allowed <=> 0 + c <= l.requests
      <4>1. 0 \in Nat
        OBVIOUS
      <4> QED
        BY <2>1, <2>4, <4>1, FixedVerdict, Zenon
    <3> HIDE DEF v, u
    <3>3. v.exceeds <=> ~u.allowed
      BY <2>1, <2>2, <3>1, <3>2
    <3> QED
      BY <3>3 DEF v, u
  <2> QED
    BY <2>3, <2>4, WindowFacts, Zenon
<1> QED
  BY <1>1, LedgerTypes, PTL

\* The reset hint is exact for every key: the bucket is empty once it has passed
\* and not before.
THEOREM ResetHint == LSpec => []ResetExact
<1>1. LTypeOK => ResetExact
  <2> SUFFICES ASSUME LTypeOK, NEW k \in Keys, NEW l \in Limits[k],
                      NEW c \in Costs \cap (Nat \ {0})
               PROVE  LET reset == Judge(k, l, debt[k], c, now).current.reset
                      IN /\ Idle(k, debt[k], now, reset) = 0
                         /\ \A r \in 0..(reset - 1) : Idle(k, debt[k], now, r) > 0
    BY Zenon DEF ResetExact
  <2> DEFINE reset == Judge(k, l, debt[k], c, now).current.reset
  <2>1. debt[k] \in Nat /\ now \in Nat /\ c \in Nat \ {0}
    BY Zenon DEF LTypeOK
  <2>2. CASE AlgorithmOf[k] = "GCRA"
    <3>1. reset = debt[k]
      BY <2>2, Zenon DEF Judge, JudgeLeaky
    <3> QED
      BY <2>1, <2>2, <3>1 DEF Idle, NonNegative
  <2>3. CASE AlgorithmOf[k] = "FixedWindow"
    <3>1. /\ reset = IF debt[k] = 0 THEN 0 ELSE ToBoundary(k, now)
          /\ ToBoundary(k, now) \in Nat \ {0}
      <4>1. ToBoundary(k, now) \in Nat \ {0}
        BY <2>1, BoundaryFacts, WindowFacts
      <4> QED
        BY <2>3, <4>1, Zenon DEF Judge, JudgeWindow
    <3> HIDE DEF reset
    <3>2. /\ Idle(k, debt[k], now, reset) = 0
          /\ \A r \in 0..(reset - 1) : Idle(k, debt[k], now, r) > 0
      BY <2>1, <2>3, <3>1 DEF Idle
    <3> QED
      BY <3>2, Zenon DEF reset
  <2> QED
    BY <2>2, <2>3, WindowFacts, Zenon
<1> QED
  BY <1>1, LedgerTypes, PTL

\* All that a verdict says of the time ahead is exact, for every key, limit and
\* cost.
THEOREM Hints == LSpec => []HintsExact
<1>1. RetryExact /\ ExceedsIsForever /\ ResetExact => HintsExact
  BY Zenon DEF HintsExact
<1> QED
  BY <1>1, RetryHint, ExceedsMark, ResetHint, PTL

-----------------------------------------------------------------------------
\* Rounding down: at least n whole parts of e fit into x exactly when n * e does.
LEMMA WholeParts ==
    ASSUME NEW x \in Int, NEW e \in Nat \ {0}, NEW n \in Int
    PROVE  x \div e \in Int /\ (x \div e >= n <=> n * e <= x)
<1> DEFINE q == x \div e
<1>1. q \in Int /\ q * e <= x /\ x < (q + 1) * e
  BY SMT
<1> HIDE DEF q
<1>2. ASSUME q >= n PROVE n * e <= x
  <2>1. n * e <= q * e
    BY <1>1, <1>2, TimesMonotonic, Zenon
  <2> QED
    BY <1>1, <2>1
<1>3. ASSUME n >= q + 1 PROVE ~(n * e <= x)
  <2>1. (q + 1) * e <= n * e
    BY <1>1, <1>3, TimesMonotonic
  <2> QED
    BY <1>1, <2>1
<1> QED
  BY <1>1, <1>2, <1>3 DEF q

\* A leaky bucket of burst parts of e that owes d: what it holds, and the wait
\* until it holds one part more.
LEMMA LeakyWait ==
    ASSUME NEW e \in Nat \ {0}, NEW burst \in Nat \ {0}, NEW d \in Nat
    PROVE  LET tau == e * burst
               held(y) == NonNegative((tau - y) \div e)
               wait == d - tau + (held(d) + 1) * e
           IN /\ held(d) \in Nat
              /\ held(d) >= burst => d = 0
              /\ held(d) < burst =>
                    /\ wait \in Nat /\ wait <= d
                    /\ held(NonNegative(d - wait)) > held(d)
                    /\ \A r \in 0..(wait - 1) : held(NonNegative(d - r)) <= held(d)
<1> DEFINE tau == e * burst
           held(y) == NonNegative((tau - y) \div e)
           rem == held(d)
           wait == d - tau + (rem + 1) * e
<1>1. tau \in Nat /\ e <= tau
  <2>1. 1 * e <= burst * e
    BY TimesMonotonic
  <2> QED
    BY <2>1
<1>2. ASSUME NEW y \in Nat, NEW n \in Nat \ {0}
      PROVE  held(y) \in Nat /\ (held(y) >= n <=> n * e <= tau - y)
  <2>1. tau - y \in Int
    BY <1>1
  <2> DEFINE x == tau - y
  <2> HIDE DEF x
  <2>2. x \div e \in Int /\ (x \div e >= n <=> n * e <= x)
    BY <2>1, WholeParts DEF x
  <2>3. NonNegative(x \div e) \in Nat /\ (NonNegative(x \div e) >= n <=> x \div e >= n)
    BY <2>2 DEF NonNegative
  <2> QED
    BY <2>2, <2>3, Zenon DEF x
<1> HIDE DEF held
<1>3. rem \in Nat
  BY <1>2, Zenon
<1>4. rem >= burst => d = 0
  <2>1. burst * e = tau
    OBVIOUS
  <2> QED
    BY <1>1, <1>2, <2>1
<1>5. ASSUME rem < burst
      PROVE  /\ wait \in Nat /\ wait <= d
             /\ held(NonNegative(d - wait)) > rem
             /\ \A r \in 0..(wait - 1) : held(NonNegative(d - r)) <= rem
  <2> DEFINE n == rem + 1
  <2>1. n \in Nat \ {0} /\ n <= burst
    BY <1>3, <1>5
  <2>2. n * e \in Nat /\ n * e <= tau /\ e <= n * e
    <3>1. n * e <= burst * e /\ 1 * e <= n * e
      BY <2>1, TimesMonotonic
    <3> QED
      BY <2>1, <3>1
  <2>3. ~(held(d) >= n)
    BY <1>3
  <2>4. ~(n * e <= tau - d)
    BY <1>2, <2>1, <2>3, Zenon
  <2> DEFINE m == n * e
  <2>5. m \in Nat /\ m <= tau /\ wait = d - tau + m /\ m > tau - d
    BY <1>1, <2>2, <2>4
  <2> HIDE DEF m, wait, tau
  <2>6. wait \in Nat /\ wait <= d
    BY <1>1, <2>5
  <2>7. NonNegative(d - wait) = tau - m /\ tau - m \in Nat
    BY <1>1, <2>5, <2>6 DEF NonNegative
  <2>8. held(NonNegative(d - wait)) >= n
    BY <1>1, <1>2, <2>1, <2>5, <2>7 DEF m
  <2>9. ASSUME NEW r \in 0..(wait - 1) PROVE held(NonNegative(d - r)) <= rem
    <3>1. NonNegative(d - r) \in Nat /\ ~(m <= tau - NonNegative(d - r))
      BY <1>1, <2>5, <2>6 DEF NonNegative
    <3>2. ~(held(NonNegative(d - r)) >= n) /\ held(NonNegative(d - r)) \in Nat
      BY <1>2, <2>1, <3>1, Zenon DEF m
    <3> QED
      BY <1>3, <3>2
  <2>10. held(NonNegative(d - wait)) \in Nat
    BY <1>2, <2>1, <2>7, Zenon
  <2> QED
    BY <1>3, <2>6, <2>8, <2>9, <2>10 DEF wait, tau
<1> QED
  BY <1>3, <1>4, <1>5, Zenon DEF held

\* What a verdict of a leaky bucket tells makes its effective window right.
LEMMA LeakyTells ==
    ASSUME NEW k \in Keys, NEW l \in Limits[k], AlgorithmOf[k] = "GCRA",
           NEW d \in Nat, NEW c \in Nat \ {0}, NEW v, now \in Nat,
           v.remaining = NonNegative((TauMicros(WindowOf(k, l)) - d)
                                        \div EmissionMicros(WindowOf(k, l))),
           v.reset = d,
           v.retry >= 0 =>
              /\ c > v.remaining
              /\ v.retry = d - TauMicros(WindowOf(k, l)) + c * EmissionMicros(WindowOf(k, l))
    PROVE  EffectiveTells(k, l, c, v, d)
<1> DEFINE e == EmissionMicros(WindowOf(k, l))
           burst == l.burst
           tau == TauMicros(WindowOf(k, l))
           held(y) == NonNegative((tau - y) \div e)
           wait == d - tau + (held(d) + 1) * e
           win == EffectiveWindow([key |-> k, limit |-> l, cost |-> c], v)
           left(r) == Judge(k, l, Idle(k, d, now, r), c, now + r).current.remaining
<1>1. e \in Nat \ {0} /\ burst \in Nat \ {0} /\ tau = e * burst /\ tau \in Nat
  BY WindowFacts DEF TauMicros
<1>2. \A r \in Nat : left(r) = held(NonNegative(d - r))
  BY Zenon DEF Judge, JudgeLeaky, Idle
<1>3. win = IF held(d) >= burst THEN -1 ELSE wait
  <2>1. win = IF v.remaining >= burst THEN -1 ELSE v.reset - tau + (v.remaining + 1) * e
    BY <1>1 DEF EffectiveWindow, BucketCapacity
  <2> HIDE DEF win, e, tau
  <2> QED
    BY <2>1, Zenon DEF e, tau
<1>4. /\ held(d) \in Nat
      /\ held(d) >= burst => d = 0
      /\ held(d) < burst =>
            /\ wait \in Nat /\ wait <= d
            /\ held(NonNegative(d - wait)) > held(d)
            /\ \A r \in 0..(wait - 1) : held(NonNegative(d - r)) <= held(d)
  <2> HIDE DEF e, burst
  <2>1. LET t == e * burst
            h(y) == NonNegative((t - y) \div e)
            w == d - t + (h(d) + 1) * e
        IN /\ h(d) \in Nat
           /\ h(d) >= burst => d = 0
           /\ h(d) < burst =>
                 /\ w \in Nat /\ w <= d
                 /\ h(NonNegative(d - w)) > h(d)
                 /\ \A r \in 0..(w - 1) : h(NonNegative(d - r)) <= h(d)
    BY <1>1, LeakyWait, Zenon
  <2> QED
    BY <1>1, <2>1, Zenon
<1>5. v.remaining = held(d)
  BY Zenon
<1>6. ASSUME v.retry >= 0, held(d) < burst PROVE wait <= v.retry
  <2>1. c >= held(d) + 1 /\ v.retry = d - tau + c * e
    <3>1. c > held(d) /\ v.retry = d - tau + c * e
      BY <1>5, <1>6, Zenon
    <3> HIDE DEF held, e, tau
    <3> QED
      BY <1>4, <3>1
  <2> HIDE DEF held, e, tau
  <2>2. (held(d) + 1) * e <= c * e /\ c * e \in Int /\ (held(d) + 1) * e \in Int
    BY <1>1, <1>4, <2>1, TimesMonotonic
  <2> QED
    BY <1>1, <2>1, <2>2
<1> HIDE DEF e, tau, held, win, left, wait, burst
<1>7. CASE held(d) >= burst
  <2>1. win < 0 /\ d = 0
    BY <1>3, <1>4, <1>7, SMTT(60)
  <2> QED
    BY <2>1, Zenon DEF EffectiveTells, win
<1>8. CASE held(d) < burst
  <2>1. win = wait /\ wait \in Nat /\ wait <= d /\ left(win) > held(d)
    BY <1>1, <1>2, <1>3, <1>4, <1>8
  <2>2. \A r \in 0..(win - 1) : left(r) <= held(d)
    BY <1>2, <1>4, <1>8, <2>1
  <2>3. /\ ~(win < 0) /\ left(win) > v.remaining
        /\ \A r \in 0..(win - 1) : left(r) <= v.remaining
        /\ win <= v.reset /\ (v.retry >= 0 => win <= v.retry)
    BY <1>5, <1>6, <1>8, <2>1, <2>2
  <2> QED
    BY <2>3, Zenon DEF EffectiveTells, win, left
<1> QED
  BY <1>1, <1>4, <1>7, <1>8

\* The effective window of a fixed window, which has no burst.
LEMMA FixedEffective ==
    ASSUME NEW k, NEW l, NEW c, NEW v, AlgorithmOf[k] = "FixedWindow", l.burst = 0
    PROVE  EffectiveWindow([key |-> k, limit |-> l, cost |-> c], v) =
              IF v.remaining >= l.requests THEN -1 ELSE v.reset
BY DEF EffectiveWindow, BucketCapacity

\* What a verdict of a fixed window tells makes its effective window right: the
\* bucket holds more only once the window is over.
LEMMA FixedTells ==
    ASSUME NEW k \in Keys, NEW l \in Limits[k], AlgorithmOf[k] = "FixedWindow",
           NEW d \in Nat, NEW c \in Nat \ {0}, NEW v, now \in Nat,
           v.remaining = NonNegative(l.requests - d),
           d # 0 => v.reset = ToBoundary(k, now),
           v.retry >= 0 => v.retry = ToBoundary(k, now)
    PROVE  EffectiveTells(k, l, c, v, d)
<1> DEFINE win == EffectiveWindow([key |-> k, limit |-> l, cost |-> c], v)
           left(r) == Judge(k, l, Idle(k, d, now, r), c, now + r).current.remaining
           boundary == ToBoundary(k, now)
<1>1. l.requests \in Nat /\ l.requests >= 1 /\ WindowOf(k, l).requests = l.requests
      /\ boundary \in Nat \ {0}
  BY BoundaryFacts, WindowFacts
<1>2. l.burst = 0
  <2>1. Check(AlgorithmOf[k], WindowOf(k, l))
    BY QuotaConstants, Zenon
  <2> QED
    BY <2>1, WindowFacts, Zenon DEF Check
<1>3. \A r \in Nat : left(r) = NonNegative(l.requests - (IF r >= boundary THEN 0 ELSE d))
  <2> SUFFICES ASSUME NEW r \in Nat
               PROVE  left(r) = NonNegative(l.requests - (IF r >= boundary THEN 0 ELSE d))
    BY Zenon
  <2>1. Idle(k, d, now, r) = IF r >= boundary THEN 0 ELSE d
    BY Zenon DEF Idle
  <2>2. left(r) = NonNegative(WindowOf(k, l).requests - Idle(k, d, now, r))
    BY Zenon DEF Judge, JudgeWindow
  <2> QED
    BY <1>1, <2>1, <2>2, Zenon
<1>4. win = IF v.remaining >= l.requests THEN -1 ELSE v.reset
  BY <1>2, FixedEffective, SMTT(60)
<1> HIDE DEF win, left, boundary
<1>5. CASE d = 0
  <2>1. win < 0
    BY <1>1, <1>4, <1>5 DEF NonNegative
  <2> QED
    BY <1>5, <2>1, Zenon DEF EffectiveTells, win
<1>6. CASE d # 0
  <2>1. v.remaining < l.requests /\ v.remaining \in Nat
    BY <1>1, <1>6 DEF NonNegative
  <2>2. win = boundary /\ v.reset = boundary
    BY <1>1, <1>4, <1>6, <2>1 DEF boundary
  <2>3. left(win) > v.remaining /\ \A r \in 0..(win - 1) : left(r) <= v.remaining
    BY <1>1, <1>3, <2>1, <2>2 DEF NonNegative
  <2>4. ~(win < 0) /\ win <= v.reset /\ (v.retry >= 0 => win <= v.retry)
    BY <1>1, <2>2 DEF boundary
  <2> QED
    BY <2>3, <2>4, Zenon DEF EffectiveTells, win, left
<1> QED
  BY <1>5, <1>6, Zenon

\* The fields of a leaky bucket's judgement that the effective window reads.
LEMMA LeakyRemaining ==
    ASSUME NEW k \in Keys, NEW l \in Limits[k], AlgorithmOf[k] = "GCRA",
           NEW d \in Nat, NEW c \in Nat \ {0}, NEW t \in Nat
    PROVE  LET o == Judge(k, l, d, c, t)
               e == EmissionMicros(WindowOf(k, l))
               tau == TauMicros(WindowOf(k, l))
           IN /\ o.current.remaining = NonNegative((tau - d) \div e)
              /\ o.current.reset = d
              /\ o.current.retry >= 0 =>
                    c > o.current.remaining /\ o.current.retry = d - tau + c * e
              /\ o.current.allowed =>
                    /\ o.next \in Nat /\ o.charged.reset = o.next
                    /\ o.charged.remaining = NonNegative((tau - o.next) \div e)
                    /\ ~(o.charged.retry >= 0)
<1> DEFINE w == WindowOf(k, l)
           e == EmissionMicros(w)
           tau == TauMicros(w)
           inc == e * c
           left == tau - d - inc
           exceeds == c > w.burst
           allowed == ~exceeds /\ left >= 0
           rem == NonNegative((tau - d) \div e)
           retry == IF allowed \/ exceeds THEN -1 ELSE -left
           current == [allowed |-> allowed, exceeds |-> exceeds, remaining |-> rem,
                       retry |-> retry, reset |-> d]
           charged == [allowed |-> TRUE, exceeds |-> FALSE, remaining |-> left \div e,
                       retry |-> -1, reset |-> d + inc]
           o == Judge(k, l, d, c, t)
<1>1. e \in Nat \ {0} /\ tau \in Nat /\ inc \in Nat /\ inc = c * e
  <2>1. e \in Nat \ {0} /\ tau \in Nat
    BY WindowFacts, Zenon
  <2> HIDE DEF e
  <2> QED
    BY <2>1
<1>2. o = [current |-> current, charged |-> charged, next |-> d + inc]
  BY Zenon DEF Judge, JudgeLeaky
<1>3. left \in Int /\ tau - d \in Int
  BY <1>1
<1>4. retry >= 0 => c > rem /\ retry = d - tau + c * e
  <2>1. ASSUME ~(allowed \/ exceeds) PROVE c > rem /\ -left = d - tau + c * e
    <3>1. -left = d - tau + c * e /\ ~(c * e <= tau - d)
      <4> HIDE DEF e, tau, inc, exceeds
      <4> QED
        BY <1>1, <2>1
    <3>2. (tau - d) \div e \in Int /\ ~((tau - d) \div e >= c)
      <4> DEFINE x == tau - d
      <4> HIDE DEF x, e
      <4>1. x \in Int /\ ~(c * e <= x)
        BY <1>3, <3>1, Zenon DEF x
      <4> QED
        BY <1>1, <4>1, WholeParts DEF x
    <3> QED
      BY <3>1, <3>2 DEF NonNegative
  <2> QED
    BY <2>1
<1>5. allowed => (left \div e = NonNegative((tau - (d + inc)) \div e) /\ d + inc \in Nat)
  <2>1. tau - (d + inc) = left
    <3> HIDE DEF e, tau, inc
    <3> QED
      BY <1>1
  <2>2. left >= 0 => left \div e >= 0
    <3> HIDE DEF left, e
    <3>1. 0 * e = 0
      BY <1>1
    <3> QED
      BY <1>1, <1>3, <3>1, WholeParts
  <2>3. left \div e \in Int
    <3> HIDE DEF left, e
    <3> QED
      BY <1>1, <1>3, WholeParts, Zenon
  <2> HIDE DEF e, tau, inc
  <2> QED
    BY <1>1, <2>1, <2>2, <2>3 DEF NonNegative
<1> HIDE DEF e, tau, inc, left, exceeds, allowed, rem, retry
<1>6. /\ o.current.remaining = rem /\ o.current.reset = d /\ o.current.retry = retry
      /\ o.current.allowed = allowed /\ o.next = d + inc /\ o.charged.reset = d + inc
      /\ o.charged.remaining = left \div e /\ o.charged.retry = -1
  <2> HIDE DEF o
  <2> QED
    BY <1>2, Zenon
<1> HIDE DEF o
<1>7. /\ o.current.retry >= 0 => c > o.current.remaining /\ o.current.retry = d - tau + c * e
      /\ o.current.allowed =>
            /\ o.next \in Nat /\ o.charged.reset = o.next
            /\ o.charged.remaining = NonNegative((tau - o.next) \div e)
            /\ ~(o.charged.retry >= 0)
  BY <1>4, <1>5, <1>6
<1> QED
  BY <1>6, <1>7, Zenon DEF o, rem, e, tau

\* The same of a fixed window.
LEMMA FixedRemaining ==
    ASSUME NEW k \in Keys, NEW l \in Limits[k], AlgorithmOf[k] = "FixedWindow",
           NEW d \in Nat, NEW c \in Nat \ {0}, NEW t \in Nat
    PROVE  LET o == Judge(k, l, d, c, t)
               boundary == ToBoundary(k, t)
           IN /\ o.current.remaining = NonNegative(l.requests - d)
              /\ d # 0 => o.current.reset = boundary
              /\ o.current.retry >= 0 => o.current.retry = boundary
              /\ o.current.allowed =>
                    /\ o.next \in Nat /\ o.charged.reset = boundary
                    /\ o.charged.remaining = NonNegative(l.requests - o.next)
                    /\ ~(o.charged.retry >= 0)
<1> DEFINE boundary == ToBoundary(k, t)
           left == NonNegative(l.requests - d)
           allowed == c <= left
           exceeds == c > l.requests
           retry == IF allowed \/ exceeds THEN -1 ELSE boundary
           reset == IF d = 0 THEN 0 ELSE boundary
           current == [allowed |-> allowed, exceeds |-> exceeds, remaining |-> left,
                       retry |-> retry, reset |-> reset]
           charged == [allowed |-> TRUE, exceeds |-> FALSE, remaining |-> left - c,
                       retry |-> -1, reset |-> boundary]
           o == Judge(k, l, d, c, t)
<1>1. l.requests \in Nat /\ WindowOf(k, l).requests = l.requests
  BY WindowFacts
<1>2. o = [current |-> current, charged |-> charged, next |-> d + c]
  BY <1>1, Zenon DEF Judge, JudgeWindow
<1>3. allowed => left - c = NonNegative(l.requests - (d + c))
  BY <1>1 DEF NonNegative
<1>4. retry >= 0 => retry = boundary
  OBVIOUS
<1> HIDE DEF left, exceeds, allowed, retry, boundary, reset
<1>5. /\ o.current.remaining = left /\ o.current.reset = reset /\ o.current.retry = retry
      /\ o.current.allowed = allowed /\ o.next = d + c /\ o.charged.reset = boundary
      /\ o.charged.remaining = left - c /\ o.charged.retry = -1
  <2> HIDE DEF o
  <2> QED
    BY <1>2, Zenon
<1> HIDE DEF o
<1>6. /\ d # 0 => o.current.reset = boundary
      /\ o.current.retry >= 0 => o.current.retry = boundary
      /\ o.current.allowed =>
            /\ o.next \in Nat /\ o.charged.reset = boundary
            /\ o.charged.remaining = NonNegative(l.requests - o.next)
            /\ ~(o.charged.retry >= 0)
  BY <1>3, <1>4, <1>5 DEF reset
<1> QED
  BY <1>5, <1>6, Zenon DEF o, left, boundary

\* The effective window of the response headers is exact for every key, limit,
\* cost and debt (engine.go effectiveWindow).
THEOREM EffectiveHint == LSpec => []EffectiveExact
<1>1. LTypeOK => EffectiveExact
  <2> SUFFICES ASSUME LTypeOK, NEW k \in Keys, NEW l \in Limits[k],
                      NEW c \in Costs \cap (Nat \ {0})
               PROVE  LET o == Judge(k, l, debt[k], c, now)
                      IN /\ EffectiveTells(k, l, c, o.current, debt[k])
                         /\ o.current.allowed => EffectiveTells(k, l, c, o.charged, o.next)
    BY Zenon DEF EffectiveExact
  <2> DEFINE o == Judge(k, l, debt[k], c, now)
  <2>1. debt[k] \in Nat /\ now \in Nat /\ c \in Nat \ {0}
    BY DEF LTypeOK
  <2>2. CASE AlgorithmOf[k] = "GCRA"
    <3> DEFINE e == EmissionMicros(WindowOf(k, l))
               tau == TauMicros(WindowOf(k, l))
    <3>1. /\ o.current.remaining = NonNegative((tau - debt[k]) \div e)
          /\ o.current.reset = debt[k]
          /\ o.current.retry >= 0 =>
                c > o.current.remaining /\ o.current.retry = debt[k] - tau + c * e
          /\ o.current.allowed =>
                /\ o.next \in Nat /\ o.charged.reset = o.next
                /\ o.charged.remaining = NonNegative((tau - o.next) \div e)
                /\ ~(o.charged.retry >= 0)
      BY <2>1, <2>2, LeakyRemaining, Zenon
    <3> HIDE DEF o
    <3>2. EffectiveTells(k, l, c, o.current, debt[k])
      BY <2>1, <2>2, <3>1, LeakyTells, Zenon
    <3>3. o.current.allowed => EffectiveTells(k, l, c, o.charged, o.next)
      BY <2>1, <2>2, <3>1, LeakyTells, Zenon
    <3> QED
      BY <3>2, <3>3, Zenon DEF o
  <2>3. CASE AlgorithmOf[k] = "FixedWindow"
    <3>1. /\ o.current.remaining = NonNegative(l.requests - debt[k])
          /\ debt[k] # 0 => o.current.reset = ToBoundary(k, now)
          /\ o.current.retry >= 0 => o.current.retry = ToBoundary(k, now)
          /\ o.current.allowed =>
                /\ o.next \in Nat /\ o.charged.reset = ToBoundary(k, now)
                /\ o.charged.remaining = NonNegative(l.requests - o.next)
                /\ ~(o.charged.retry >= 0)
      BY <2>1, <2>3, FixedRemaining, Zenon
    <3> HIDE DEF o
    <3>2. EffectiveTells(k, l, c, o.current, debt[k])
      BY <2>1, <2>3, <3>1, FixedTells, Zenon
    <3>3. o.current.allowed => EffectiveTells(k, l, c, o.charged, o.next)
      BY <2>1, <2>3, <3>1, FixedTells, Zenon
    <3> QED
      BY <3>2, <3>3 DEF o
  <2> QED
    BY <2>2, <2>3, WindowFacts, Zenon
<1> QED
  BY <1>1, LedgerTypes, PTL

-----------------------------------------------------------------------------
(* Counting up, and recursion along it. *)

\* A set of numbers with 0 and every successor up to n has them all.
LEMMA CountUp ==
    ASSUME NEW n \in Nat, NEW S, 0 \in S, \A i \in 1..n : i - 1 \in S => i \in S
    PROVE  0..n \subseteq S
<1> SUFFICES ASSUME NEW z \in 0..n, z \notin S PROVE FALSE
  BY Zenon
<1> DEFINE Bad == {i \in Nat : i <= n /\ i \notin S}
<1>1. z \in Bad /\ Bad \subseteq Nat
  OBVIOUS
<1> HIDE DEF Bad
<1>2. PICK x \in Bad : \A y \in Bad : ~(<<y, x>> \in OpToRel(<, Nat))
  BY <1>1, NatLessThanWellFounded, WFMin, Zenon
<1>3. \A y \in Nat : y < x => <<y, x>> \in OpToRel(<, Nat)
  BY <1>1, <1>2, Zenon DEF OpToRel
<1>4. x \in 1..n /\ x \notin S /\ x - 1 \in Nat /\ x - 1 < x
  BY DEF Bad
<1>5. x - 1 \notin Bad
  BY <1>2, <1>3, <1>4, Zenon
<1> QED
  BY <1>4, <1>5 DEF Bad

\* f is the solution of a recursion over 1..n.
Solves(f, n, T, z, step) ==
    /\ f \in [0..n -> T]
    /\ f[0] = z
    /\ \A i \in 1..n : f[i] = step[i][f[i - 1]]

\* A recursion over 1..n that starts and stays in a set has a solution.
LEMMA RecursionUp ==
    ASSUME NEW n \in Nat, NEW T, NEW z \in T, NEW step \in [1..n -> [T -> T]]
    PROVE  \E f : Solves(f, n, T, z, step)
<1> DEFINE S == {m \in 0..n : \E f : Solves(f, m, T, z, step)}
<1>1. 0 \in S
  <2>1. Solves([i \in 0..0 |-> z], 0, T, z, step)
    BY DEF Solves
  <2>2. \E f : Solves(f, 0, T, z, step)
    BY <2>1, Zenon
  <2> QED
    BY <2>2
<1>2. ASSUME NEW m \in 1..n, m - 1 \in S PROVE m \in S
  <2>1. PICK f : Solves(f, m - 1, T, z, step)
    BY <1>2, Zenon
  <2> DEFINE g == [i \in 0..m |-> IF i = m THEN step[m][f[m - 1]] ELSE f[i]]
  <2>2. f[m - 1] \in T
    BY <2>1 DEF Solves
  <2>3. step[m][f[m - 1]] \in T
    BY <2>2, Zenon
  <2>4. g \in [0..m -> T] /\ g[0] = z /\ g[m] = step[m][g[m - 1]]
    BY <2>1, <2>3 DEF Solves
  <2>5. \A i \in 1..(m - 1) : g[i] = f[i] /\ g[i - 1] = f[i - 1]
    OBVIOUS
  <2>6. \A i \in 1..m : g[i] = step[i][g[i - 1]]
    <3> HIDE DEF g
    <3> TAKE i \in 1..m
    <3>1. CASE i = m
      BY <3>1, <2>4, Zenon
    <3>2. CASE i # m
      <4>1. i \in 1..(m - 1)
        BY <3>2
      <4> QED
        BY <4>1, <2>1, <2>5, Zenon DEF Solves
    <3> QED
      BY <3>1, <3>2, Zenon
  <2>7. Solves(g, m, T, z, step)
    BY <2>4, <2>6, Zenon DEF Solves
  <2> HIDE DEF g
  <2>8. \E h : Solves(h, m, T, z, step)
    BY <2>7, Zenon
  <2> QED
    BY <2>8
<1>3. n \in S
  <2> HIDE DEF S
  <2>1. 0..n \subseteq S
    BY <1>1, <1>2, CountUp, Zenon
  <2> QED
    BY <2>1
<1> QED
  BY <1>3, Zenon

-----------------------------------------------------------------------------
(* The buckets of a decision, and the call the store gets. *)

EngineBucket ==
    [key: Keys, limit: UNION {Limits[k] : k \in Keys}, shadow: BOOLEAN,
     cost: Nat \ {0}, rule: Nat]

\* What the buckets of rule r charge: the cost its route reads, or the request's.
PriceOf(matched, cost, r) == IF matched[r].cost = 0 THEN cost ELSE matched[r].cost

\* What the buckets of the first n matched rules are: a bucket carries its
\* rule's shadow mark and price and a limit its key may have, and no key comes
\* twice.
LaidOut(b, matched, cost, n) ==
    /\ b \in Seq(EngineBucket)
    /\ \A x \in DOMAIN b :
          /\ b[x].rule \in 1..n
          /\ b[x].shadow = matched[b[x].rule].shadow
          /\ b[x].cost = PriceOf(matched, cost, b[x].rule)
          /\ b[x].limit \in Limits[b[x].key]
          /\ \E h \in DOMAIN matched[b[x].rule].windows :
                matched[b[x].rule].windows[h].key = b[x].key
    /\ \A x, y \in DOMAIN b : b[x].key = b[y].key => x = y

\* A sequence over a set is a function from 1..Len into it.
LEMMA Elements ==
    ASSUME NEW T, NEW s \in Seq(T)
    PROVE  /\ Len(s) \in Nat /\ DOMAIN s = 1..Len(s)
           /\ \A i \in DOMAIN s : i \in Nat /\ s[i] \in T
<1>1. Len(s) \in Nat /\ DOMAIN s = 1..Len(s)
  OBVIOUS
<1>2. \A i \in 1..Len(s) : s[i] \in T
  OBVIOUS
<1> QED
  BY <1>1, <1>2

\* The buckets of one rule.
LEMMA RuleLaid ==
    ASSUME NEW matched \in Matches, NEW cost \in Nat \ {0},
           NEW r \in DOMAIN matched
    PROVE  LET of == RuleBuckets(matched, cost, r)
           IN /\ of \in Seq(EngineBucket)
              /\ DOMAIN of = DOMAIN matched[r].windows
              /\ \A x \in DOMAIN of :
                    /\ of[x].rule = r
                    /\ of[x].shadow = matched[r].shadow
                    /\ of[x].cost = PriceOf(matched, cost, r)
                    /\ of[x].key = matched[r].windows[x].key
                    /\ of[x].limit \in Limits[of[x].key]
<1> DEFINE ws == matched[r].windows
           of == RuleBuckets(matched, cost, r)
           price == PriceOf(matched, cost, r)
           elem(i) == [key |-> ws[i].key, limit |-> ws[i].limit, shadow |-> matched[r].shadow,
                       cost |-> price, rule |-> r]
<1> DEFINE W == [key: Keys, limit: UNION {Limits[k] : k \in Keys}]
<1>1. /\ matched \in Seq([shadow: BOOLEAN, cost: Costs \cap Nat, windows: Seq(W)])
      /\ \A i \in DOMAIN ws : ws[i].limit \in Limits[ws[i].key]
  BY EngineConstants, Zenon
<1>2. matched[r] \in [shadow: BOOLEAN, cost: Costs \cap Nat, windows: Seq(W)] /\ r \in Nat
  <2> DEFINE R == [shadow: BOOLEAN, cost: Costs \cap Nat, windows: Seq(W)]
  <2>1. matched \in Seq(R)
    BY <1>1, Zenon
  <2> HIDE DEF R
  <2>2. matched[r] \in R /\ r \in Nat
    BY <2>1, Elements, Zenon
  <2> QED
    BY <2>2, Zenon DEF R
<1>3. ws \in Seq(W) /\ matched[r].shadow \in BOOLEAN /\ price \in Nat \ {0}
  BY <1>2, Zenon DEF PriceOf
<1>4. of = [i \in DOMAIN ws |-> elem(i)]
  BY Zenon DEF RuleBuckets, PriceOf
<1> HIDE DEF ws, of, price
<1>5. \A i \in DOMAIN ws : ws[i] \in W
  <2> HIDE DEF W
  <2> QED
    BY <1>3, Elements, Zenon
<1>6. \A i \in DOMAIN ws : elem(i) \in EngineBucket
  BY <1>2, <1>3, <1>5, Zenon DEF EngineBucket
<1>7. DOMAIN ws = 1..Len(ws) /\ Len(ws) \in Nat
  BY <1>3
<1>8. of \in Seq(EngineBucket) /\ DOMAIN of = DOMAIN ws
  <2> HIDE DEF elem
  <2> QED
    BY <1>4, <1>6, <1>7
<1>9. \A x \in DOMAIN of :
         /\ of[x].rule = r
         /\ of[x].shadow = matched[r].shadow
         /\ of[x].cost = price
         /\ of[x].key = ws[x].key
         /\ of[x].limit = ws[x].limit
  BY <1>4, Zenon
<1> QED
  BY <1>1, <1>8, <1>9, Zenon DEF ws, of, price

\* The buckets of one rule more.
LEMMA OneMoreRule ==
    ASSUME NEW matched \in Matches, NEW cost \in Nat \ {0},
           NEW r \in DOMAIN matched, NEW b, LaidOut(b, matched, cost, r - 1)
    PROVE  LaidOut(b \o RuleBuckets(matched, cost, r), matched, cost, r)
<1> DEFINE of == RuleBuckets(matched, cost, r)
           c == b \o of
           Key(q, h) == matched[q].windows[h].key
<1>1. /\ of \in Seq(EngineBucket)
      /\ DOMAIN of = DOMAIN matched[r].windows
      /\ \A x \in DOMAIN of :
            /\ of[x].rule = r
            /\ of[x].shadow = matched[r].shadow
            /\ of[x].cost = PriceOf(matched, cost, r)
            /\ of[x].key = Key(r, x)
            /\ of[x].limit \in Limits[of[x].key]
  BY RuleLaid, Zenon
<1>2. /\ DOMAIN matched = 1..Len(matched) /\ Len(matched) \in Nat
      /\ \A q, p \in DOMAIN matched :
            \A h \in DOMAIN matched[q].windows, i \in DOMAIN matched[p].windows :
                Key(q, h) = Key(p, i) => q = p /\ h = i
  <2> DEFINE R == [shadow: BOOLEAN, cost: Costs \cap Nat,
                   windows: Seq([key: Keys, limit: UNION {Limits[k] : k \in Keys}])]
  <2>1. matched \in Seq(R)
    BY EngineConstants, Zenon
  <2> HIDE DEF R
  <2>2. DOMAIN matched = 1..Len(matched) /\ Len(matched) \in Nat
    BY <2>1, Elements, Zenon
  <2>3. ASSUME NEW q \in DOMAIN matched, NEW p \in DOMAIN matched,
               NEW h \in DOMAIN matched[q].windows, NEW i \in DOMAIN matched[p].windows,
               Key(q, h) = Key(p, i)
        PROVE  q = p /\ h = i
    BY <2>3, EngineConstants, Zenon
  <2> QED
    BY <2>2, <2>3, Zenon
<1>3. /\ b \in Seq(EngineBucket)
      /\ \A x \in DOMAIN b :
            /\ b[x].rule \in 1..(r - 1)
            /\ b[x].shadow = matched[b[x].rule].shadow
            /\ b[x].cost = PriceOf(matched, cost, b[x].rule)
            /\ b[x].limit \in Limits[b[x].key]
            /\ \E h \in DOMAIN matched[b[x].rule].windows : Key(b[x].rule, h) = b[x].key
      /\ \A x, y \in DOMAIN b : b[x].key = b[y].key => x = y
  BY Zenon DEF LaidOut
<1> HIDE DEF of, c
<1>4. /\ c \in Seq(EngineBucket)
      /\ DOMAIN c = 1..(Len(b) + Len(of))
      /\ \A x \in 1..Len(b) : c[x] = b[x]
      /\ \A x \in 1..Len(of) : c[Len(b) + x] = of[x]
      /\ Len(b) \in Nat /\ Len(of) \in Nat
      /\ DOMAIN b = 1..Len(b) /\ DOMAIN of = 1..Len(of)
  BY <1>1, <1>3 DEF c
<1>5. \A x \in DOMAIN c : \/ x \in DOMAIN b /\ c[x] = b[x]
                          \/ /\ x - Len(b) \in DOMAIN of
                             /\ c[x] = of[x - Len(b)]
  <2> TAKE x \in DOMAIN c
  <2>1. CASE x <= Len(b)
    BY <1>4, <2>1
  <2>2. CASE x > Len(b)
    <3>1. x - Len(b) \in 1..Len(of) /\ Len(b) + (x - Len(b)) = x
      BY <1>4, <2>2
    <3> QED
      BY <1>4, <3>1, Zenon
  <2> QED
    BY <1>4, <2>1, <2>2
<1>6. ASSUME NEW x \in DOMAIN c
      PROVE  /\ c[x].rule \in 1..r
             /\ c[x].shadow = matched[c[x].rule].shadow
             /\ c[x].cost = PriceOf(matched, cost, c[x].rule)
             /\ c[x].limit \in Limits[c[x].key]
             /\ \E h \in DOMAIN matched[c[x].rule].windows : Key(c[x].rule, h) = c[x].key
  <2>1. CASE x \in DOMAIN b /\ c[x] = b[x]
    BY <1>2, <1>3, <2>1
  <2>2. CASE x - Len(b) \in DOMAIN of /\ c[x] = of[x - Len(b)]
    BY <1>1, <1>2, <2>2
  <2> QED
    BY <1>5, <2>1, <2>2, Zenon
<1>7. ASSUME NEW x \in DOMAIN b, NEW y \in DOMAIN of PROVE b[x].key # of[y].key
  <2>1. PICK h \in DOMAIN matched[b[x].rule].windows : Key(b[x].rule, h) = b[x].key
    BY <1>3, Zenon
  <2>2. b[x].rule \in DOMAIN matched /\ b[x].rule # r
    BY <1>2, <1>3
  <2> QED
    BY <1>1, <1>2, <2>1, <2>2
<1>8. ASSUME NEW x \in DOMAIN c, NEW y \in DOMAIN c, c[x].key = c[y].key PROVE x = y
  <2>1. CASE x \in DOMAIN b /\ c[x] = b[x] /\ y \in DOMAIN b /\ c[y] = b[y]
    BY <1>3, <1>8, <2>1, Zenon
  <2>2. CASE /\ x - Len(b) \in DOMAIN of /\ c[x] = of[x - Len(b)]
             /\ y - Len(b) \in DOMAIN of /\ c[y] = of[y - Len(b)]
    <3> DEFINE g == x - Len(b)
               h == y - Len(b)
    <3>1. g \in DOMAIN of /\ h \in DOMAIN of /\ of[g].key = of[h].key
      BY <1>8, <2>2, Zenon
    <3> HIDE DEF g, h
    <3>2. Key(r, g) = Key(r, h) /\ r \in DOMAIN matched
      BY <1>1, <3>1, Zenon
    <3>3. g \in DOMAIN matched[r].windows /\ h \in DOMAIN matched[r].windows
      BY <1>1, <3>1, Zenon
    <3> HIDE DEF Key
    <3>4. g = h
      BY <1>2, <3>2, <3>3, Zenon
    <3> QED
      BY <1>4, <3>4 DEF g, h
  <2> QED
    BY <1>5, <1>7, <1>8, <2>1, <2>2, Zenon
<1> QED
  BY <1>4, <1>6, <1>8, Zenon DEF LaidOut, c, of

\* The buckets of a decision are laid out rule by rule (match.go Buckets).
LEMMA BucketsLaid ==
    ASSUME NEW matched \in Matches, NEW cost \in Nat \ {0}
    PROVE  LaidOut(Buckets(matched, cost), matched, cost, Len(matched)) /\ Len(matched) \in Nat
<1> DEFINE n == Len(matched)
           none == <<>>
           more(b, r) == b \o RuleBuckets(matched, cost, r)
           T == Seq(EngineBucket)
           grown(g) == [r \in 0..n |-> IF r = 0 THEN none ELSE more(g[r - 1], r)]
           u == CHOOSE g : g = grown(g)
           step == [r \in 1..n |-> [b \in T |-> more(b, r)]]
<1>1. n \in Nat /\ DOMAIN matched = 1..n
  <2> DEFINE R == [shadow: BOOLEAN, cost: Costs \cap Nat,
                   windows: Seq([key: Keys, limit: UNION {Limits[k] : k \in Keys}])]
  <2>1. matched \in Seq(R)
    BY EngineConstants, Zenon
  <2> HIDE DEF R
  <2> QED
    BY <2>1, Elements, Zenon
<1>2. Buckets(matched, cost) = u[n]
  BY Zenon DEF Buckets
<1>3. none \in T /\ LaidOut(none, matched, cost, 0)
  BY DEF LaidOut
<1> HIDE DEF n
<1>4. \A r \in 1..n : \A b \in T : more(b, r) \in T
  BY <1>1, RuleLaid
<1>5. \A r \in 1..n : \A b : LaidOut(b, matched, cost, r - 1)
                                => LaidOut(more(b, r), matched, cost, r)
  BY <1>1, OneMoreRule, Zenon
<1> HIDE DEF none, more, T
<1>6. step \in [1..n -> [T -> T]]
  BY <1>4, Zenon
<1>7. PICK f : Solves(f, n, T, none, step)
  <2>1. n \in Nat /\ none \in T
    BY <1>1, <1>3, Zenon
  <2> HIDE DEF step
  <2> QED
    BY <1>6, <2>1, RecursionUp, Zenon
<1>8. \A r \in 1..n : f[r] = more(f[r - 1], r)
  <2> TAKE r \in 1..n
  <2>1. f[r] = step[r][f[r - 1]] /\ f[r - 1] \in T
    BY <1>1, <1>7 DEF Solves
  <2> QED
    BY <2>1, Zenon
<1>9. f = grown(f)
  BY <1>1, <1>7, <1>8 DEF Solves
<1>10. u = grown(u)
  <2> HIDE DEF grown
  <2> QED
    BY <1>9, Zenon
<1> HIDE DEF u, step
<1>11. u[0] = none /\ \A r \in 1..n : u[r] = more(u[r - 1], r)
  BY <1>1, <1>10
<1> DEFINE S == {r \in 0..n : LaidOut(u[r], matched, cost, r)}
<1>12. 0 \in S
  BY <1>1, <1>3, <1>11
<1>13. ASSUME NEW r \in 1..n, r - 1 \in S PROVE r \in S
  <2>1. LaidOut(u[r - 1], matched, cost, r - 1)
    BY <1>13, Zenon
  <2>2. LaidOut(u[r], matched, cost, r)
    BY <1>5, <1>11, <2>1, Zenon
  <2> QED
    BY <2>2, <1>1
<1>14. 0..n \subseteq S
  <2> HIDE DEF S
  <2> QED
    BY <1>1, <1>12, <1>13, CountUp, Zenon
<1> QED
  BY <1>1, <1>2, <1>14 DEF n

\* The call carries every bucket under its key.
LEMMA CallLaid ==
    ASSUME NEW b \in Seq(EngineBucket),
           \A x, y \in DOMAIN b : b[x].key = b[y].key => x = y
    PROVE  LET call == CallOf(b)
           IN /\ DOMAIN call = {b[x].key : x \in DOMAIN b}
              /\ \A x \in DOMAIN b : /\ call[b[x].key].limit = b[x].limit
                                     /\ call[b[x].key].shadow = b[x].shadow
                                     /\ call[b[x].key].cost = b[x].cost
<1> DEFINE at(k) == CHOOSE j \in DOMAIN b : b[j].key = k
           entry(i) == [limit |-> b[i].limit, shadow |-> b[i].shadow, cost |-> b[i].cost]
           D == {b[x].key : x \in DOMAIN b}
<1>1. CallOf(b) = [k \in D |-> entry(at(k))]
  BY Zenon DEF CallOf
<1>2. \A x \in DOMAIN b : at(b[x].key) = x
  BY Zenon
<1> HIDE DEF at
<1>3. ASSUME NEW x \in DOMAIN b PROVE CallOf(b)[b[x].key] = entry(x)
  <2>1. b[x].key \in D
    BY Zenon
  <2> HIDE DEF D, entry
  <2> QED
    BY <1>1, <1>2, <2>1, Zenon
<1>4. DOMAIN CallOf(b) = D
  BY <1>1, Zenon
<1>5. ASSUME NEW x \in DOMAIN b
      PROVE  /\ CallOf(b)[b[x].key].limit = b[x].limit
             /\ CallOf(b)[b[x].key].shadow = b[x].shadow
             /\ CallOf(b)[b[x].key].cost = b[x].cost
  <2> DEFINE c == CallOf(b)[b[x].key]
  <2>1. c = entry(x)
    BY <1>3, Zenon
  <2> HIDE DEF c
  <2>2. c.limit = b[x].limit /\ c.shadow = b[x].shadow /\ c.cost = b[x].cost
    BY <2>1, Zenon
  <2> QED
    BY <2>2, Zenon DEF c
<1> QED
  BY <1>4, <1>5, Zenon

-----------------------------------------------------------------------------
(* The strictest bucket. *)

\* A comparison of two products by a positive factor both share.
LEMMA Cancel ==
    ASSUME NEW a \in Int, NEW b \in Int, NEW c \in Nat \ {0}
    PROVE  /\ a * c <= b * c => a <= b
           /\ a * c < b * c => a < b
<1>1. ASSUME b < a PROVE b * c < a * c
  <2>1. (b + 1) * c <= a * c
    BY <1>1, TimesMonotonic
  <2>2. (b + 1) * c = b * c + c
    OBVIOUS
  <2>3. a * c \in Int /\ b * c \in Int
    OBVIOUS
  <2> QED
    BY <2>1, <2>2, <2>3
<1>2. a * c \in Int /\ b * c \in Int
  OBVIOUS
<1> QED
  BY <1>1, <1>2

\* Remaining over cost, compared by cross products, is an order.
LEMMA RatioOrder ==
    ASSUME NEW r1 \in Nat, NEW r2 \in Nat, NEW r3 \in Nat,
           NEW c1 \in Nat \ {0}, NEW c2 \in Nat \ {0}, NEW c3 \in Nat \ {0},
           r1 * c2 <= r2 * c1, r2 * c3 <= r3 * c2
    PROVE  /\ r1 * c3 <= r3 * c1
           /\ r1 * c2 < r2 * c1 \/ r2 * c3 < r3 * c2 => r1 * c3 < r3 * c1
<1> DEFINE p == (r1 * c3) * c2  q == (r3 * c1) * c2  m == (r2 * c1) * c3
           x == r1 * c3  y == r3 * c1
<1>1. p = (r1 * c2) * c3 /\ m = (r2 * c3) * c1 /\ q = (r3 * c2) * c1
  OBVIOUS
<1>2. /\ r1 * c2 \in Int /\ r2 * c1 \in Int /\ r2 * c3 \in Int /\ r3 * c2 \in Int
      /\ x \in Int /\ y \in Int
  OBVIOUS
<1>3. p \in Int /\ q \in Int /\ m \in Int
  BY <1>2
<1>4. p <= m /\ m <= q
  BY <1>1, <1>2, TimesMonotonic, Zenon
<1>5. r1 * c2 < r2 * c1 => p < m
  BY <1>1, <1>2, <1>3, Cancel
<1>6. r2 * c3 < r3 * c2 => m < q
  BY <1>1, <1>2, <1>3, Cancel
<1> HIDE DEF m
<1>7. p <= q /\ (r1 * c2 < r2 * c1 \/ r2 * c3 < r3 * c2 => p < q)
  <2> HIDE DEF p, q
  <2> QED
    BY <1>3, <1>4, <1>5, <1>6
<1>8. (p <= q => x <= y) /\ (p < q => x < y)
  BY <1>2, Cancel, Zenon
<1> QED
  BY <1>7, <1>8, Zenon

\* The buckets of a decision with their verdicts.
Answered(b, verdicts) ==
    /\ b \in Seq(EngineBucket)
    /\ \A x, y \in DOMAIN b : b[x].key = b[y].key => x = y
    /\ \A x \in DOMAIN b : verdicts[b[x].key] \in Verdict

\* stricter orders the buckets of a decision: of two buckets one binds harder,
\* and only one, and binding harder is transitive.
LEMMA StricterOrder ==
    ASSUME NEW b, NEW verdicts, Answered(b, verdicts), NEW allowed,
           NEW i \in DOMAIN b, NEW j \in DOMAIN b, NEW h \in DOMAIN b
    PROVE  /\ i # j => \/ Stricter(b, verdicts, i, j, allowed)
                       \/ Stricter(b, verdicts, j, i, allowed)
           /\ ~(Stricter(b, verdicts, i, j, allowed) /\ Stricter(b, verdicts, j, i, allowed))
           /\ Stricter(b, verdicts, i, j, allowed) /\ Stricter(b, verdicts, j, h, allowed)
                 => Stricter(b, verdicts, i, h, allowed)
<1> DEFINE S(x, y) == Stricter(b, verdicts, x, y, allowed)
           rank(x) == KeyRank[b[x].key]
           v(x) == verdicts[b[x].key]
           left(x, y) == v(x).remaining * b[y].cost
<1>1. \A x \in DOMAIN b :
         /\ b[x].key \in Keys /\ b[x].cost \in Nat \ {0}
         /\ v(x).remaining \in Nat /\ v(x).retry \in Int /\ v(x).exceeds \in BOOLEAN
         /\ rank(x) \in Int
  <2> TAKE x \in DOMAIN b
  <2>1. b[x] \in EngineBucket
    BY Elements, Zenon DEF Answered
  <2>2. b[x].key \in Keys /\ b[x].cost \in Nat \ {0}
    BY <2>1, Zenon DEF EngineBucket
  <2>3. v(x) \in Verdict
    BY Zenon DEF Answered
  <2>4. v(x).remaining \in Nat /\ v(x).retry \in Int /\ v(x).exceeds \in BOOLEAN
    BY <2>3, Zenon DEF Verdict
  <2> QED
    BY <2>2, <2>4, EngineConstants, Zenon
<1>2. \A x, y \in DOMAIN b : rank(x) = rank(y) => x = y
  BY <1>1, EngineConstants, Zenon DEF Answered
<1>3. ASSUME NEW x \in DOMAIN b, NEW y \in DOMAIN b, allowed
      PROVE  S(x, y) <=> \/ left(x, y) < left(y, x)
                         \/ left(x, y) = left(y, x) /\ rank(x) < rank(y)
  BY <1>3, Zenon DEF Stricter
<1>4. ASSUME NEW x \in DOMAIN b, NEW y \in DOMAIN b, ~allowed
      PROVE  S(x, y) <=>
               \/ v(x).exceeds /\ ~v(y).exceeds
               \/ v(x).exceeds /\ v(y).exceeds /\ rank(x) < rank(y)
               \/ ~v(x).exceeds /\ ~v(y).exceeds /\ v(x).retry > v(y).retry
               \/ /\ ~v(x).exceeds /\ ~v(y).exceeds
                  /\ v(x).retry = v(y).retry /\ rank(x) < rank(y)
  BY <1>4, Zenon DEF Stricter
<1>5. \A x, y \in DOMAIN b : left(x, y) \in Nat
  BY <1>1, SMTT(60)
<1>6. left(i, j) <= left(j, i) /\ left(j, h) <= left(h, j) =>
         /\ left(i, h) <= left(h, i)
         /\ left(i, j) < left(j, i) \/ left(j, h) < left(h, j) => left(i, h) < left(h, i)
  <2> DEFINE r1 == v(i).remaining  r2 == v(j).remaining  r3 == v(h).remaining
             c1 == b[i].cost       c2 == b[j].cost       c3 == b[h].cost
  <2>1. /\ r1 \in Nat /\ r2 \in Nat /\ r3 \in Nat
        /\ c1 \in Nat \ {0} /\ c2 \in Nat \ {0} /\ c3 \in Nat \ {0}
    BY <1>1, Zenon
  <2> HIDE DEF r1, r2, r3, c1, c2, c3
  <2>2. r1 * c2 <= r2 * c1 /\ r2 * c3 <= r3 * c2 =>
           /\ r1 * c3 <= r3 * c1
           /\ r1 * c2 < r2 * c1 \/ r2 * c3 < r3 * c2 => r1 * c3 < r3 * c1
    BY <2>1, RatioOrder, Zenon
  <2> QED
    BY <2>2, Zenon DEF r1, r2, r3, c1, c2, c3
<1> HIDE DEF S, rank, v, left
<1>7. CASE allowed
  <2>1. i # j => S(i, j) \/ S(j, i)
    BY <1>1, <1>2, <1>3, <1>5, <1>7
  <2>2. ~(S(i, j) /\ S(j, i))
    BY <1>1, <1>3, <1>5, <1>7
  <2>3. S(i, j) /\ S(j, h) => S(i, h)
    BY <1>1, <1>3, <1>5, <1>6, <1>7, SMTT(60)
  <2> QED
    BY <2>1, <2>2, <2>3, Zenon DEF S
<1>8. CASE ~allowed
  <2>1. i # j => S(i, j) \/ S(j, i)
    BY <1>1, <1>2, <1>4, <1>8, SMTT(60)
  <2>2. ~(S(i, j) /\ S(j, i))
    BY <1>1, <1>4, <1>8, SMTT(60)
  <2>3. S(i, j) /\ S(j, h) => S(i, h)
    BY <1>1, <1>4, <1>8, SMTT(60)
  <2> QED
    BY <2>1, <2>2, <2>3 DEF S
<1> QED
  BY <1>7, <1>8, Zenon

\* strictestIndex finds the bucket that binds harder than every other that
\* binds, and none only where none binds.
LEMMA StrictestFound ==
    ASSUME NEW b, NEW verdicts, Answered(b, verdicts), NEW allowed, NEW skipShadow,
           NEW range \in SUBSET DOMAIN b
    PROVE  LET binding == Binding(b, verdicts, range, allowed, skipShadow)
               s == StrictestIndex(b, verdicts, range, allowed, skipShadow)
           IN /\ s = 0 <=> binding = {}
              /\ s # 0 =>
                    /\ s \in binding
                    /\ \A k \in binding : k # s =>
                          /\ Stricter(b, verdicts, s, k, allowed)
                          /\ ~Stricter(b, verdicts, k, s, allowed)
<1> DEFINE n == Len(b)
           T == 0..n
           bind == Binding(b, verdicts, range, allowed, skipShadow)
           S(i, j) == Stricter(b, verdicts, i, j, allowed)
           after(x, i) == IF i \in bind /\ (x = 0 \/ S(i, x)) THEN i ELSE x
           passed(g) == [i \in 0..n |-> IF i = 0 THEN 0 ELSE after(g[i - 1], i)]
           u == CHOOSE g : g = passed(g)
           step == [i \in 1..n |-> [x \in T |-> after(x, i)]]
<1>1. n \in Nat /\ DOMAIN b = 1..n
  BY Elements, Zenon DEF Answered
<1>2. StrictestIndex(b, verdicts, range, allowed, skipShadow) = u[n]
  BY Zenon DEF StrictestIndex
<1>3. bind \subseteq 1..n
  BY <1>1, Zenon DEF Binding
<1>4. \A i, j \in 1..n : /\ i # j => S(i, j) \/ S(j, i)
                         /\ ~(S(i, j) /\ S(j, i))
                         /\ \A h \in 1..n : S(i, j) /\ S(j, h) => S(i, h)
  BY <1>1, StricterOrder, Zenon
<1> HIDE DEF n, bind, S
<1>5. step \in [1..n -> [T -> T]]
  <2>1. \A i \in 1..n : \A x \in T : after(x, i) \in T
    BY <1>1
  <2> HIDE DEF T, after
  <2> QED
    BY <2>1, Zenon
<1>6. PICK f : Solves(f, n, T, 0, step)
  <2>1. 0 \in T
    BY <1>1
  <2> HIDE DEF step, T
  <2> QED
    BY <1>1, <1>5, <2>1, RecursionUp, Zenon
<1>7. f = passed(f)
  <2> HIDE DEF after
  <2>1. \A i \in 1..n : f[i] = after(f[i - 1], i)
    <3> TAKE i \in 1..n
    <3>1. f[i] = step[i][f[i - 1]] /\ f[i - 1] \in T
      <4> HIDE DEF step, T
      <4>1. i - 1 \in 0..n
        BY <1>1
      <4> QED
        BY <1>6, <4>1, Zenon DEF Solves
    <3> QED
      BY <3>1, Zenon
  <2> QED
    BY <1>1, <1>6, <2>1 DEF Solves
<1>8. u = passed(u)
  <2> HIDE DEF passed
  <2> QED
    BY <1>7, Zenon
<1> HIDE DEF u, step
<1>9. u[0] = 0 /\ \A i \in 1..n : u[i] = after(u[i - 1], i)
  <2> HIDE DEF after
  <2> QED
    BY <1>1, <1>8
<1> DEFINE Best(x, i) ==
             /\ x = 0 => \A k \in bind : k > i
             /\ x # 0 => /\ x \in bind /\ x <= i
                         /\ \A k \in bind : k <= i /\ k # x => S(x, k)
           M == {i \in 0..n : Best(u[i], i)}
<1>10. 0 \in M
  BY <1>1, <1>3, <1>9
<1>11. ASSUME NEW i \in 1..n, i - 1 \in M PROVE i \in M
  <2> DEFINE x == u[i - 1]
  <2>1. Best(x, i - 1)
    BY <1>11, Zenon
  <2>2. u[i] = after(x, i)
    BY <1>9, Zenon
  <2> HIDE DEF x
  <2>3. Best(after(x, i), i)
    <3> DEFINE y == after(x, i)
    <3>0. i \in Int /\ \A k \in bind : k \in 1..n /\ k \in Int
      BY <1>1, <1>3
    <3>1. CASE i \notin bind
      <4>1. y = x
        BY <3>1, Zenon
      <4> HIDE DEF y
      <4> QED
        BY <2>1, <3>0, <3>1, <4>1 DEF y
    <3>2. CASE i \in bind /\ x = 0
      BY <2>1, <3>0, <3>2
    <3>3. CASE i \in bind /\ x # 0 /\ S(i, x)
      <4>1. y = i /\ i # 0
        BY <1>1, <3>3
      <4>2. ASSUME NEW k \in bind, k <= i, k # i PROVE S(i, k)
        <5>1. x \in bind /\ (k # x => S(x, k))
          BY <2>1, <3>0, <3>3, <4>2
        <5> QED
          BY <1>4, <3>0, <3>3, <5>1, Zenon
      <4> HIDE DEF y
      <4> QED
        BY <3>0, <3>3, <4>1, <4>2 DEF y
    <3>4. CASE i \in bind /\ x # 0 /\ ~S(i, x)
      <4>1. y = x
        BY <3>4, Zenon
      <4>2. x \in bind /\ x <= i - 1 /\ S(x, i)
        <5>1. x \in bind /\ x <= i - 1
          BY <2>1, <3>4, Zenon
        <5>2. x \in 1..n /\ x # i
          BY <3>0, <5>1
        <5> QED
          BY <1>4, <3>4, <5>1, <5>2, Zenon
      <4>3. ASSUME NEW k \in bind, k <= i, k # x PROVE S(x, k)
        <5>1. CASE k = i
          BY <4>2, <5>1, Zenon
        <5>2. CASE k # i
          <6>1. k <= i - 1
            BY <3>0, <4>3, <5>2
          <6> QED
            BY <2>1, <3>4, <4>3, <6>1, Zenon
        <5> QED
          BY <5>1, <5>2, Zenon
      <4> HIDE DEF y
      <4> QED
        BY <3>0, <3>4, <4>1, <4>2, <4>3 DEF y
    <3> QED
      BY <3>1, <3>2, <3>3, <3>4, Zenon
  <2> QED
    BY <2>2, <2>3
<1>12. 0..n \subseteq M
  <2> HIDE DEF M
  <2> QED
    BY <1>1, <1>10, <1>11, CountUp, Zenon
<1>13. Best(u[n], n)
  BY <1>1, <1>12
<1> DEFINE s == u[n]
<1>14. /\ s = 0 <=> bind = {}
       /\ s # 0 => /\ s \in bind
                   /\ \A k \in bind : k # s => S(s, k) /\ ~S(k, s)
  <2> HIDE DEF s
  <2>1. Best(s, n)
    BY <1>13, Zenon DEF s
  <2>5. \A k \in bind : k \in 1..n /\ k \in Int /\ 1 <= k /\ k <= n /\ ~(k > n)
    BY <1>1, <1>3
  <2>6. s = 0 => \A k \in bind : k > n
    BY <2>1, Zenon
  <2>7. s # 0 => s \in bind
    BY <2>1, Zenon
  <2>2. s = 0 <=> bind = {}
    BY <2>5, <2>6, <2>7, Zenon
  <2>3. ASSUME s # 0, NEW k \in bind, k # s PROVE S(s, k) /\ ~S(k, s)
    <3>1. s \in 1..n /\ k \in 1..n /\ k <= n
      BY <2>3, <2>5, <2>7, Zenon
    <3>2. S(s, k)
      BY <2>1, <2>3, <3>1, Zenon
    <3> QED
      BY <1>4, <3>1, <3>2, Zenon
  <2> QED
    BY <2>2, <2>3, <2>7, Zenon
<1> QED
  BY <1>2, <1>14, Zenon DEF bind, S

\* The verdict of a bucket left alone from time t for r.
Later(k, l, d, c, t, r) == Judge(k, l, Idle(k, d, t, r), c, t + r).current

\* What waiting does to one bucket: an admission stays one, a cost over the
\* capacity is refused for ever, and any other refusal ends with its wait and
\* does not come back.
LEMMA BucketWaits ==
    ASSUME NEW k \in Keys, NEW l \in Limits[k], NEW d \in Nat,
           NEW c \in Nat \ {0}, NEW t \in Nat
    PROVE  LET v == Later(k, l, d, c, t, 0)
           IN /\ v \in Verdict
              /\ v.exceeds => \A r \in Nat : ~Later(k, l, d, c, t, r).allowed
              /\ v.allowed => \A r \in Nat : Later(k, l, d, c, t, r).allowed
              /\ ~v.allowed /\ ~v.exceeds =>
                    /\ v.retry \in Nat
                    /\ \A r \in Nat : Later(k, l, d, c, t, r).allowed <=> v.retry <= r
<1> DEFINE v == Later(k, l, d, c, t, 0)
           then(r) == Later(k, l, d, c, t, r)
<1>1. v \in Verdict
  <2>1. t + 0 \in Nat /\ Idle(k, d, t, 0) \in Nat
    BY DEF Idle, NonNegative
  <2> QED
    BY <2>1, JudgeFacts, Zenon DEF Later
<1>2. CASE AlgorithmOf[k] = "GCRA"
  <2> DEFINE inc == EmissionMicros(WindowOf(k, l)) * c
             tau == TauMicros(WindowOf(k, l))
             owed(r) == NonNegative(d - r)
  <2>1. \A r \in Nat : Idle(k, d, t, r) = owed(r) /\ owed(r) \in Nat /\ t + r \in Nat
    BY <1>2 DEF Idle, NonNegative
  <2>2. ASSUME NEW r \in Nat
        PROVE  /\ inc \in Nat /\ tau \in Nat
               /\ c <= l.burst => inc <= tau
               /\ then(r).exceeds <=> c > l.burst
               /\ then(r).allowed <=> c <= l.burst /\ owed(r) + inc <= tau
               /\ c <= l.burst /\ owed(r) + inc > tau => then(r).retry = owed(r) + inc - tau
    <3> DEFINE o == owed(r)  at == t + r
    <3>1. o \in Nat /\ at \in Nat /\ then(r) = Judge(k, l, o, c, at).current
      BY <2>1, Zenon DEF Later
    <3> DEFINE j == Judge(k, l, o, c, at).current
    <3> HIDE DEF o, at, then
    <3>2. /\ inc \in Nat /\ tau \in Nat
          /\ c <= l.burst => inc <= tau
          /\ j.exceeds <=> c > l.burst
          /\ j.allowed <=> c <= l.burst /\ o + inc <= tau
          /\ c <= l.burst /\ o + inc > tau => j.retry = o + inc - tau
      <4>1. c \in Nat
        BY Zenon
      <4>2. GcraSays(k, l, o, c, at)
        BY <1>2, <3>1, <4>1, GcraSaid, Zenon
      <4> QED
        BY <4>2, Zenon DEF GcraSays
    <3> HIDE DEF j, inc, tau
    <3> QED
      BY <3>1, <3>2, Zenon DEF o, j
  <2>3. l.burst \in Int
    BY QuotaConstants, Zenon
  <2>4. owed(0) = d /\ \A r \in Nat : owed(r) = IF d < r THEN 0 ELSE d - r
    BY DEF NonNegative
  <2> HIDE DEF then, v, inc, tau, owed
  <2>5. v = then(0)
    BY Zenon DEF v, then
  <2>6. inc \in Nat /\ tau \in Nat
    BY <2>2, Zenon
  <2>7. v.exceeds => \A r \in Nat : ~then(r).allowed
    BY <2>2, <2>3, <2>5
  <2>8. ASSUME v.allowed, NEW r \in Nat PROVE then(r).allowed
    <3>1. c <= l.burst /\ d + inc <= tau /\ inc <= tau
      BY <2>2, <2>4, <2>5, <2>8, Zenon
    <3>2. owed(r) + inc <= tau
      BY <2>4, <2>6, <3>1
    <3> QED
      BY <2>2, <3>1, <3>2, Zenon
  <2>9. ASSUME ~v.allowed, ~v.exceeds
        PROVE  v.retry \in Nat /\ \A r \in Nat : then(r).allowed <=> v.retry <= r
    <3>1. c <= l.burst /\ inc <= tau
      BY <2>2, <2>3, <2>5, <2>9
    <3>2. d + inc > tau
      BY <2>2, <2>4, <2>5, <2>6, <2>9, <3>1
    <3>3. v.retry = d + inc - tau
      BY <2>2, <2>4, <2>5, <3>1, <3>2, Zenon
    <3>4. ASSUME NEW r \in Nat PROVE owed(r) + inc <= tau <=> d + inc - tau <= r
      BY <2>4, <2>6, <3>1, <3>2
    <3>5. \A r \in Nat : then(r).allowed <=> d + inc - tau <= r
      BY <2>2, <3>1, <3>4, Zenon
    <3> QED
      BY <2>6, <3>2, <3>3, <3>5
  <2> QED
    BY <1>1, <2>7, <2>8, <2>9, Zenon DEF v, then
<1>3. CASE AlgorithmOf[k] = "FixedWindow"
  <2> DEFINE q == l.requests
             B == ToBoundary(k, t)
             owed(r) == IF r >= B THEN 0 ELSE d
  <2>1. \A r \in Nat : Idle(k, d, t, r) = owed(r) /\ owed(r) \in Nat /\ t + r \in Nat
    BY <1>3 DEF Idle
  <2>2. ASSUME NEW r \in Nat
        PROVE  /\ q \in Nat
               /\ then(r).exceeds <=> c > q
               /\ then(r).allowed <=> owed(r) + c <= q
               /\ c <= q /\ owed(r) + c > q => then(r).retry = ToBoundary(k, t + r)
    <3> DEFINE o == owed(r)  at == t + r
    <3>1. o \in Nat /\ at \in Nat /\ then(r) = Judge(k, l, o, c, at).current
      BY <2>1, Zenon DEF Later
    <3> DEFINE j == Judge(k, l, o, c, at).current
    <3> HIDE DEF o, at, then
    <3>2. /\ q \in Nat
          /\ j.exceeds <=> c > q
          /\ j.allowed <=> o + c <= q
          /\ c <= q /\ o + c > q => j.retry = ToBoundary(k, at)
      BY <1>3, <3>1, FixedVerdict
    <3> HIDE DEF j, q
    <3> QED
      BY <3>1, <3>2, Zenon DEF o, j, at
  <2>3. B \in Nat \ {0} /\ ToBoundary(k, t + 0) = B
    BY <1>3, FixedVerdict, SMTT(60)
  <2>4. owed(0) = d /\ \A r \in Nat : owed(r) = IF r >= B THEN 0 ELSE d
    BY <2>3
  <2> HIDE DEF then, v, owed, B, q
  <2>5. v = then(0)
    BY DEF v, then
  <2>6. q \in Nat
    BY <2>2, Zenon
  <2>7. ASSUME v.exceeds, NEW r \in Nat PROVE ~then(r).allowed
    <3>1. c > q /\ owed(r) \in Nat
      BY <2>2, <2>4, <2>5, <2>7
    <3> QED
      BY <2>2, <2>6, <3>1
  <2>8. ASSUME v.allowed, NEW r \in Nat PROVE then(r).allowed
    <3>1. d + c <= q
      BY <2>2, <2>4, <2>5, <2>8, Zenon
    <3>2. owed(r) + c <= q
      BY <2>4, <2>6, <3>1
    <3> QED
      BY <2>2, <3>2, Zenon
  <2>9. ASSUME ~v.allowed, ~v.exceeds
        PROVE  v.retry \in Nat /\ \A r \in Nat : then(r).allowed <=> v.retry <= r
    <3>1. c <= q /\ d + c > q
      BY <2>2, <2>4, <2>5, <2>6, <2>9
    <3>2. v.retry = B
      BY <2>2, <2>3, <2>4, <2>5, <3>1, Zenon
    <3>3. ASSUME NEW r \in Nat PROVE owed(r) + c <= q <=> B <= r
      BY <2>3, <2>4, <2>6, <3>1
    <3>4. \A r \in Nat : then(r).allowed <=> B <= r
      BY <2>2, <3>3, Zenon
    <3> QED
      BY <2>3, <3>2, <3>4, Zenon
  <2> QED
    BY <1>1, <2>7, <2>8, <2>9, Zenon DEF v, then
<1> QED
  BY <1>2, <1>3, WindowFacts, Zenon

-----------------------------------------------------------------------------
(* The decision. *)

\* What a decision says (engine.go evaluate, aggregate, ruleOutcomes).
DecisionSays(matched, b, verdicts) ==
    LET d  == DecisionOf(matched, b, verdicts)
        ok == Admitted(CallOf(b), verdicts)
        s  == StrictestIndex(b, verdicts, DOMAIN b, ok, TRUE)
        never == ~ok /\ \E x \in DOMAIN b : ~b[x].shadow /\ verdicts[b[x].key].exceeds
    IN /\ d.allowed <=> ok
       /\ d.exceeds <=> s # 0 /\ never
       /\ s = 0 => d.headers = NoHeaders
       /\ s # 0 => /\ d.headers.rule = b[s].rule
                   /\ d.headers.key = b[s].key
                   /\ d.headers.retry = IF never THEN -1 ELSE verdicts[b[s].key].retry
       /\ DOMAIN d.rules = DOMAIN matched
       /\ \A r \in DOMAIN matched :
             /\ d.rules[r].shadow = matched[r].shadow
             /\ d.rules[r].allowed <=>
                   \A x \in DOMAIN b : b[x].rule = r => verdicts[b[x].key].allowed
             /\ d.rules[r].exceeds <=>
                   \E x \in DOMAIN b : /\ b[x].rule = r
                                       /\ ~verdicts[b[x].key].allowed
                                       /\ verdicts[b[x].key].exceeds

\* A decision says what evaluate, aggregate and ruleOutcomes put into it.
LEMMA DecisionFields ==
    ASSUME NEW matched, NEW b, NEW verdicts
    PROVE  DecisionSays(matched, b, verdicts)
<1> DEFINE d  == DecisionOf(matched, b, verdicts)
           ok == Admitted(CallOf(b), verdicts)
           s  == StrictestIndex(b, verdicts, DOMAIN b, ok, TRUE)
           never == ~ok /\ \E x \in DOMAIN b : ~b[x].shadow /\ verdicts[b[x].key].exceeds
           agg == Aggregate(b, verdicts, ok)
           rules == RuleOutcomes(matched, b, verdicts)
           v == verdicts[b[s].key]
           shown == [rule      |-> b[s].rule,
                     key       |-> b[s].key,
                     limit     |-> b[s].limit.requests,
                     remaining |-> v.remaining,
                     retry     |-> IF never THEN -1 ELSE v.retry,
                     reset     |-> v.reset,
                     cost      |-> b[s].cost,
                     effective |-> EffectiveWindow(b[s], v)]
<1>1. agg = IF s = 0 THEN [headers |-> NoHeaders, exceeds |-> FALSE]
            ELSE [headers |-> shown, exceeds |-> never]
  BY Zenon DEF Aggregate
<1>2. d = [allowed |-> ok, exceeds |-> agg.exceeds, headers |-> agg.headers, rules |-> rules]
  BY Zenon DEF DecisionOf
<1> DEFINE own(r) == {x \in DOMAIN b : b[x].rule = r}
           pass(r) == \A x \in own(r) : verdicts[b[x].key].allowed
           best(r) == StrictestIndex(b, verdicts, own(r), pass(r), FALSE)
           over(r) == \E x \in own(r) : /\ ~verdicts[b[x].key].allowed
                                        /\ verdicts[b[x].key].exceeds
           outcome(r) ==
             [shadow    |-> matched[r].shadow,
              allowed   |-> pass(r),
              exceeds   |-> over(r),
              capacity  |-> IF best(r) = 0 THEN 0 ELSE BucketCapacity(b[best(r)]),
              remaining |-> IF best(r) = 0 THEN 0 ELSE verdicts[b[best(r)].key].remaining,
              retry     |-> IF best(r) = 0 THEN 0 ELSE verdicts[b[best(r)].key].retry]
<1>3. rules = [r \in DOMAIN matched |-> outcome(r)]
  BY Zenon DEF RuleOutcomes
<1>4. /\ d.allowed = ok /\ d.exceeds = agg.exceeds /\ d.headers = agg.headers
      /\ d.rules = rules
  <2> HIDE DEF ok, agg, rules, d
  <2> QED
    BY <1>2, Zenon
<1>5. /\ s = 0 => agg.headers = NoHeaders /\ agg.exceeds = FALSE
      /\ s # 0 => agg.headers = shown /\ agg.exceeds = never
  <2> HIDE DEF s, shown, never, agg
  <2> QED
    BY <1>1, Zenon
<1>6. /\ shown.rule = b[s].rule /\ shown.key = b[s].key
      /\ shown.retry = IF never THEN -1 ELSE v.retry
  <2> HIDE DEF s, v, never
  <2> QED
    BY Zenon
<1>7. DOMAIN rules = DOMAIN matched /\ \A r \in DOMAIN matched : rules[r] = outcome(r)
  <2> HIDE DEF outcome, rules
  <2> QED
    BY <1>3, Zenon
<1>8. \A r : /\ outcome(r).shadow = matched[r].shadow
             /\ outcome(r).allowed = pass(r)
             /\ outcome(r).exceeds = over(r)
  <2> HIDE DEF pass, over, best
  <2> QED
    BY Zenon
<1>9. /\ d.allowed <=> ok
      /\ d.exceeds <=> s # 0 /\ never
      /\ s = 0 => d.headers = NoHeaders
      /\ s # 0 => /\ d.headers.rule = b[s].rule
                  /\ d.headers.key = b[s].key
                  /\ d.headers.retry = IF never THEN -1 ELSE v.retry
  <2> HIDE DEF d, ok, s, never, agg, shown, v
  <2> QED
    BY <1>4, <1>5, <1>6, Zenon
<1>10. \A r \in DOMAIN matched :
          /\ d.rules[r].shadow = matched[r].shadow
          /\ d.rules[r].allowed <=> pass(r)
          /\ d.rules[r].exceeds <=> over(r)
  <2> HIDE DEF d, rules, outcome, pass, over
  <2> QED
    BY <1>4, <1>7, <1>8, Zenon
<1>11. DOMAIN d.rules = DOMAIN matched
  <2> HIDE DEF d, rules
  <2> QED
    BY <1>4, <1>7, Zenon
<1> HIDE DEF d, s
<1>12. \A r \in DOMAIN matched :
          /\ d.rules[r].shadow = matched[r].shadow
          /\ d.rules[r].allowed <=>
                \A x \in DOMAIN b : b[x].rule = r => verdicts[b[x].key].allowed
          /\ d.rules[r].exceeds <=>
                \E x \in DOMAIN b : /\ b[x].rule = r
                                    /\ ~verdicts[b[x].key].allowed
                                    /\ verdicts[b[x].key].exceeds
  BY <1>10, Zenon
<1> QED
  BY <1>9, <1>11, <1>12, Zenon DEF d, s, DecisionSays

\* The verdict of bucket x of a decision, were the store left alone for r.
BucketLater(b, x, r) ==
    Later(b[x].key, b[x].limit, debt[b[x].key], b[x].cost, now, r)

\* The buckets of a decision, its call and the store's answers belong together.
LEMMA DecisionLaid ==
    ASSUME LTypeOK, NEW matched \in Matches, NEW cost \in Costs \cap (Nat \ {0})
    PROVE  LET b == Buckets(matched, cost)
               call == CallOf(b)
           IN /\ LaidOut(b, matched, cost, Len(matched))
              /\ Len(matched) \in Nat /\ DOMAIN matched = 1..Len(matched)
              /\ Answered(b, VerdictsAfter(call, 0))
              /\ \A r \in Nat : /\ \A x \in DOMAIN b :
                                      VerdictsAfter(call, r)[b[x].key] = BucketLater(b, x, r)
                                /\ Admitted(call, VerdictsAfter(call, r)) <=>
                                      \A x \in DOMAIN b :
                                          b[x].shadow \/ BucketLater(b, x, r).allowed
              /\ \A x \in DOMAIN b :
                    /\ BucketLater(b, x, 0).exceeds =>
                          \A r \in Nat : ~BucketLater(b, x, r).allowed
                    /\ BucketLater(b, x, 0).allowed =>
                          \A r \in Nat : BucketLater(b, x, r).allowed
                    /\ ~BucketLater(b, x, 0).allowed /\ ~BucketLater(b, x, 0).exceeds =>
                          /\ BucketLater(b, x, 0).retry \in Nat
                          /\ \A r \in Nat : BucketLater(b, x, r).allowed
                                               <=> BucketLater(b, x, 0).retry <= r
<1> DEFINE b == Buckets(matched, cost)
           call == CallOf(b)
<1>1. LaidOut(b, matched, cost, Len(matched)) /\ Len(matched) \in Nat
  BY BucketsLaid, Zenon
<1>2. DOMAIN matched = 1..Len(matched)
  <2> DEFINE R == [shadow: BOOLEAN, cost: Costs \cap Nat,
                   windows: Seq([key: Keys, limit: UNION {Limits[k] : k \in Keys}])]
  <2>1. matched \in Seq(R)
    BY EngineConstants, Zenon
  <2> HIDE DEF R
  <2> QED
    BY <2>1, Elements, Zenon
<1> HIDE DEF b
<1>3. /\ b \in Seq(EngineBucket)
      /\ \A x \in DOMAIN b : b[x].limit \in Limits[b[x].key]
      /\ \A x, y \in DOMAIN b : b[x].key = b[y].key => x = y
  BY <1>1, Zenon DEF LaidOut
<1>4. /\ DOMAIN call = {b[x].key : x \in DOMAIN b}
      /\ \A x \in DOMAIN b : /\ call[b[x].key].limit = b[x].limit
                             /\ call[b[x].key].shadow = b[x].shadow
                             /\ call[b[x].key].cost = b[x].cost
  BY <1>3, CallLaid, Zenon
<1> HIDE DEF call
<1>5. ASSUME NEW x \in DOMAIN b
      PROVE  /\ b[x].key \in Keys /\ b[x].limit \in Limits[b[x].key]
             /\ debt[b[x].key] \in Nat /\ b[x].cost \in Nat \ {0} /\ now \in Nat
  <2>1. b[x] \in EngineBucket
    BY <1>3, Elements, Zenon
  <2> QED
    BY <1>3, <2>1, Zenon DEF EngineBucket, LTypeOK
<1>6. ASSUME NEW x \in DOMAIN b
      PROVE  /\ BucketLater(b, x, 0) \in Verdict
             /\ BucketLater(b, x, 0).exceeds =>
                   \A r \in Nat : ~BucketLater(b, x, r).allowed
             /\ BucketLater(b, x, 0).allowed =>
                   \A r \in Nat : BucketLater(b, x, r).allowed
             /\ ~BucketLater(b, x, 0).allowed /\ ~BucketLater(b, x, 0).exceeds =>
                   /\ BucketLater(b, x, 0).retry \in Nat
                   /\ \A r \in Nat : BucketLater(b, x, r).allowed
                                        <=> BucketLater(b, x, 0).retry <= r
  <2> DEFINE k == b[x].key  l == b[x].limit  d == debt[b[x].key]  c == b[x].cost
  <2>1. k \in Keys /\ l \in Limits[k] /\ d \in Nat /\ c \in Nat \ {0} /\ now \in Nat
    BY <1>5, Zenon
  <2> HIDE DEF k, l, d, c
  <2>2. /\ Later(k, l, d, c, now, 0) \in Verdict
        /\ Later(k, l, d, c, now, 0).exceeds =>
              \A r \in Nat : ~Later(k, l, d, c, now, r).allowed
        /\ Later(k, l, d, c, now, 0).allowed =>
              \A r \in Nat : Later(k, l, d, c, now, r).allowed
        /\ ~Later(k, l, d, c, now, 0).allowed /\ ~Later(k, l, d, c, now, 0).exceeds =>
              /\ Later(k, l, d, c, now, 0).retry \in Nat
              /\ \A r \in Nat : Later(k, l, d, c, now, r).allowed
                                   <=> Later(k, l, d, c, now, 0).retry <= r
    BY <2>1, BucketWaits, Zenon
  <2> QED
    BY <2>2, Zenon DEF k, l, d, c, BucketLater
<1>7. ASSUME NEW x \in DOMAIN b, NEW r \in Nat
      PROVE  VerdictsAfter(call, r)[b[x].key] = BucketLater(b, x, r)
  <2>1. b[x].key \in DOMAIN call
    BY <1>4, Zenon
  <2>2. VerdictsAfter(call, r)[b[x].key]
           = Judge(b[x].key, call[b[x].key].limit, Idle(b[x].key, debt[b[x].key], now, r),
                   call[b[x].key].cost, now + r).current
    BY <2>1, Zenon DEF VerdictsAfter
  <2> QED
    BY <1>4, <2>2, Zenon DEF BucketLater, Later
<1>8. ASSUME NEW r \in Nat
      PROVE  Admitted(call, VerdictsAfter(call, r)) <=>
                \A x \in DOMAIN b : b[x].shadow \/ BucketLater(b, x, r).allowed
  <2>1. Admitted(call, VerdictsAfter(call, r)) <=>
           \A x \in DOMAIN b : \/ call[b[x].key].shadow
                               \/ VerdictsAfter(call, r)[b[x].key].allowed
    BY <1>4, Zenon DEF Admitted
  <2> QED
    BY <1>4, <1>7, <2>1, Zenon
<1>9. Answered(b, VerdictsAfter(call, 0))
  <2>1. ASSUME NEW x \in DOMAIN b PROVE VerdictsAfter(call, 0)[b[x].key] \in Verdict
    BY <1>6, <1>7
  <2> QED
    BY <1>3, <2>1, Zenon DEF Answered
<1> QED
  BY <1>1, <1>2, <1>6, <1>7, <1>8, <1>9, Zenon DEF b, call

\* What a decision over several buckets tells the caller is right for every
\* match, cost and state of the store: the verdicts of its rules, the wait and
\* the bucket the header numbers come from (engine.go aggregate, ruleOutcomes).
LEMMA DecisionRight ==
    ASSUME LTypeOK, NEW matched \in Matches, NEW cost \in Costs \cap (Nat \ {0})
    PROVE  LET j == Judged(matched, cost)
           IN RulesAgree(j) /\ RetryAdmits(j) /\ HeadersOrderFree(j)
<1> DEFINE j == Judged(matched, cost)
           b == Buckets(matched, cost)
           call == CallOf(b)
           V == VerdictsAfter(call, 0)
           d == DecisionOf(matched, b, V)
           ok == Admitted(call, V)
           D == DOMAIN b
           s == StrictestIndex(b, V, D, ok, TRUE)
           bind == Binding(b, V, D, ok, TRUE)
           late(x, r) == BucketLater(b, x, r)
           never == ~ok /\ \E x \in D : ~b[x].shadow /\ V[b[x].key].exceeds
<1>1. j.buckets = b /\ j.call = call /\ j.verdicts = V /\ j.decision = d
  <2> HIDE DEF b, call, V, d
  <2>1. j = [buckets |-> b, call |-> call, verdicts |-> V, decision |-> d]
    BY Zenon DEF Judged, b, call, V, d
  <2> HIDE DEF j
  <2> QED
    BY <2>1, Zenon
<1>2. /\ LaidOut(b, matched, cost, Len(matched))
      /\ Len(matched) \in Nat /\ DOMAIN matched = 1..Len(matched)
      /\ Answered(b, V)
      /\ \A r \in Nat : /\ \A x \in D : VerdictsAfter(call, r)[b[x].key] = late(x, r)
                        /\ Admitted(call, VerdictsAfter(call, r)) <=>
                              \A x \in D : b[x].shadow \/ late(x, r).allowed
      /\ \A x \in D : /\ late(x, 0).exceeds => \A r \in Nat : ~late(x, r).allowed
                      /\ late(x, 0).allowed => \A r \in Nat : late(x, r).allowed
                      /\ ~late(x, 0).allowed /\ ~late(x, 0).exceeds =>
                            /\ late(x, 0).retry \in Nat
                            /\ \A r \in Nat : late(x, r).allowed
                                                 <=> late(x, 0).retry <= r
  BY DecisionLaid, Zenon
<1>3. /\ d.allowed <=> ok
      /\ d.exceeds <=> s # 0 /\ never
      /\ s = 0 => d.headers = NoHeaders
      /\ s # 0 => /\ d.headers.rule = b[s].rule
                  /\ d.headers.key = b[s].key
                  /\ d.headers.retry = IF never THEN -1 ELSE V[b[s].key].retry
      /\ DOMAIN d.rules = DOMAIN matched
      /\ \A r \in DOMAIN matched :
            /\ d.rules[r].shadow = matched[r].shadow
            /\ d.rules[r].allowed <=> \A x \in D : b[x].rule = r => V[b[x].key].allowed
            /\ d.rules[r].exceeds <=> \E x \in D : /\ b[x].rule = r
                                                   /\ ~V[b[x].key].allowed
                                                   /\ V[b[x].key].exceeds
  <2>1. DecisionSays(matched, b, V)
    BY DecisionFields, Zenon
  <2> HIDE DEF b, V
  <2> QED
    BY <2>1, Zenon DEF DecisionSays
<1>4. /\ s = 0 <=> bind = {}
      /\ s # 0 => /\ s \in bind
                  /\ \A k \in bind : k # s => /\ Stricter(b, V, s, k, ok)
                                              /\ ~Stricter(b, V, k, s, ok)
  <2>1. D \in SUBSET DOMAIN b
    BY Zenon
  <2> HIDE DEF b, V, D, ok
  <2> QED
    BY <1>2, <2>1, StrictestFound, Zenon
<1>5. \A x \in D : V[b[x].key] = late(x, 0)
  BY <1>2, Zenon
<1>6. bind = {x \in D : ~b[x].shadow /\ (ok \/ ~V[b[x].key].allowed)}
  BY Zenon DEF Binding
<1>7. \A x \in D : /\ b[x].rule \in 1..Len(matched)
                   /\ b[x].shadow = matched[b[x].rule].shadow
                   /\ b[x].key \in Keys
  <2>1. \A x \in D : b[x] \in EngineBucket
    BY <1>2, Elements, Zenon DEF LaidOut
  <2>2. \A x \in D : b[x].key \in Keys
    BY <2>1, Zenon DEF EngineBucket
  <2> QED
    BY <1>2, <2>2, Zenon DEF LaidOut
<1>8. \A x, y \in D : b[x].key = b[y].key => x = y
  BY <1>2, Zenon DEF LaidOut
<1>9. ok <=> \A x \in D : b[x].shadow \/ late(x, 0).allowed
  BY <1>2, Zenon
<1>10. ASSUME ~ok, NEW x \in D, ~late(x, 0).exceeds, ~late(s, 0).exceeds, s \in D,
              Stricter(b, V, s, x, ok)
       PROVE  late(s, 0).retry > late(x, 0).retry \/ late(s, 0).retry = late(x, 0).retry
  <2> HIDE DEF b, V, D, ok, late, s
  <2> QED
    BY <1>5, <1>10, Zenon DEF Stricter
<1> HIDE DEF j, b, call, V, d, ok, D, s, bind, late
<1>11. never <=> ~ok /\ \E x \in D : ~b[x].shadow /\ late(x, 0).exceeds
  BY <1>5, Zenon
<1> HIDE DEF never
<1>12. RulesAgree(j)
  <2>0. ASSUME NEW r \in DOMAIN matched
        PROVE  /\ d.rules[r].shadow = matched[r].shadow
               /\ d.rules[r].allowed <=> \A x \in D : b[x].rule = r => V[b[x].key].allowed
               /\ d.rules[r].exceeds <=> \E x \in D : /\ b[x].rule = r
                                                      /\ ~V[b[x].key].allowed
                                                      /\ V[b[x].key].exceeds
    BY <1>3, Zenon
  <2>1. d.allowed <=> \A r \in DOMAIN d.rules : d.rules[r].shadow \/ d.rules[r].allowed
    <3>1. ASSUME ok, NEW r \in DOMAIN matched, ~matched[r].shadow, NEW x \in D, b[x].rule = r
          PROVE  V[b[x].key].allowed
      BY <1>5, <1>7, <1>9, <3>1, Zenon
    <3>2. ASSUME ~ok
          PROVE  \E r \in DOMAIN matched : ~matched[r].shadow /\
                    \E x \in D : b[x].rule = r /\ ~V[b[x].key].allowed
      <4>1. PICK x \in D : ~b[x].shadow /\ ~late(x, 0).allowed
        BY <1>9, <3>2, Zenon
      <4>2. b[x].rule \in DOMAIN matched /\ ~matched[b[x].rule].shadow /\ ~V[b[x].key].allowed
        BY <1>2, <1>5, <1>7, <4>1, Zenon
      <4> QED
        BY <4>2, Zenon
    <3>3. ASSUME ok, NEW r \in DOMAIN matched PROVE d.rules[r].shadow \/ d.rules[r].allowed
      BY <1>3, <3>1, <3>3, Zenon
    <3>4. ASSUME ~ok
          PROVE  \E r \in DOMAIN matched : ~d.rules[r].shadow /\ ~d.rules[r].allowed
      <4>1. PICK r \in DOMAIN matched : ~matched[r].shadow /\
               \E x \in D : b[x].rule = r /\ ~V[b[x].key].allowed
        BY <3>2, <3>4, Zenon
      <4>2. ~d.rules[r].shadow /\ ~d.rules[r].allowed
        BY <2>0, <4>1, Zenon
      <4> QED
        BY <4>2, Zenon
    <3>5. (d.allowed <=> ok) /\ DOMAIN d.rules = DOMAIN matched
      BY <1>3, Zenon
    <3> QED
      BY <3>3, <3>4, <3>5, Zenon
  <2>2. d.exceeds <=> \E r \in DOMAIN d.rules : ~d.rules[r].shadow /\ d.rules[r].exceeds
    <3>1. ASSUME s # 0, never
          PROVE  \E r \in DOMAIN matched : ~matched[r].shadow /\
                    \E x \in D : b[x].rule = r /\ ~V[b[x].key].allowed /\ V[b[x].key].exceeds
      <4>1. PICK x \in D : ~b[x].shadow /\ late(x, 0).exceeds
        BY <1>11, <3>1, Zenon
      <4>2. ~late(x, 0).allowed
        BY <1>2, <4>1, Zenon
      <4> QED
        <5>1. /\ b[x].rule \in DOMAIN matched /\ ~matched[b[x].rule].shadow
              /\ ~V[b[x].key].allowed /\ V[b[x].key].exceeds
          BY <1>2, <1>5, <1>7, <4>1, <4>2, Zenon
        <5> QED
          BY <5>1, Zenon
    <3>2. ASSUME NEW r \in DOMAIN matched, ~matched[r].shadow, NEW x \in D,
                 b[x].rule = r, ~V[b[x].key].allowed, V[b[x].key].exceeds
          PROVE  s # 0 /\ never
      <4>1. ~ok /\ ~b[x].shadow /\ late(x, 0).exceeds
        BY <1>5, <1>7, <1>9, <3>2, Zenon
      <4>2. x \in bind
        BY <1>6, <3>2, <4>1, Zenon
      <4> QED
        BY <1>4, <1>11, <4>1, <4>2, Zenon
    <3>3. (d.exceeds <=> s # 0 /\ never) /\ DOMAIN d.rules = DOMAIN matched
      BY <1>3, Zenon
    <3>4. ASSUME s # 0, never
          PROVE  \E r \in DOMAIN matched : ~d.rules[r].shadow /\ d.rules[r].exceeds
      <4>1. PICK r \in DOMAIN matched : ~matched[r].shadow /\
               \E x \in D : b[x].rule = r /\ ~V[b[x].key].allowed /\ V[b[x].key].exceeds
        BY <3>1, <3>4, Zenon
      <4>2. ~d.rules[r].shadow /\ d.rules[r].exceeds
        BY <2>0, <4>1, Zenon
      <4> QED
        BY <4>2, Zenon
    <3>5. ASSUME NEW r \in DOMAIN matched, ~d.rules[r].shadow, d.rules[r].exceeds
          PROVE  s # 0 /\ never
      <4>1. ~matched[r].shadow
        BY <2>0, <3>5, Zenon
      <4>2. PICK x \in D : b[x].rule = r /\ ~V[b[x].key].allowed /\ V[b[x].key].exceeds
        BY <2>0, <3>5, Zenon
      <4> QED
        BY <3>2, <4>1, <4>2, Zenon
    <3> QED
      BY <3>3, <3>4, <3>5, Zenon
  <2> QED
    BY <1>1, <2>1, <2>2, Zenon DEF RulesAgree
<1>13. HeadersOrderFree(j)
  <2> SUFFICES ASSUME NEW i \in bind, NEW k \in bind, b[i].key = d.headers.key, k # i
               PROVE  Stricter(b, V, i, k, ok) /\ ~Stricter(b, V, k, i, ok)
    <3>1. bind = Binding(b, V, DOMAIN b, d.allowed, TRUE)
      BY <1>3, Zenon DEF bind, D, Binding
    <3>2. \A x, y : Stricter(b, V, x, y, d.allowed) <=> Stricter(b, V, x, y, ok)
      BY <1>3, ZenonT(40) DEF Stricter
    <3> QED
      BY <1>1, <3>1, <3>2, ZenonT(40) DEF HeadersOrderFree
  <2>1. s # 0 /\ s \in D /\ i \in D
    BY <1>4, <1>6, Zenon
  <2>2. i = s
    BY <1>3, <1>8, <2>1, Zenon
  <2> QED
    BY <1>4, <2>1, <2>2, Zenon
<1>14. ASSUME ~ok PROVE s # 0 /\ s \in D /\ ~b[s].shadow /\ ~late(s, 0).allowed
  <2>1. PICK x \in D : ~b[x].shadow /\ ~late(x, 0).allowed
    BY <1>9, <1>14, Zenon
  <2>2. x \in bind
    BY <1>5, <1>6, <2>1, Zenon
  <2> QED
    BY <1>4, <1>5, <1>6, <1>14, <2>2, Zenon
<1> DEFINE h == d.headers
           admitted(r) == Admitted(call, VerdictsAfter(call, r))
<1>15. \A r \in Nat : admitted(r) <=> \A x \in D : b[x].shadow \/ late(x, r).allowed
  BY <1>2, Zenon
<1> HIDE DEF h, admitted
<1>16. ASSUME ~ok PROVE h # NoHeaders
  <2>1. h.rule \in 1..Len(matched) /\ Len(matched) \in Nat
    BY <1>2, <1>3, <1>7, <1>14, <1>16, Zenon DEF h
  <2>2. NoHeaders.rule = 0
    BY Zenon DEF NoHeaders
  <2> QED
    BY <2>1, <2>2
<1>17. ASSUME ~ok, never
       PROVE  h.retry = -1 /\ \A r \in Nat : ~admitted(r)
  <2>1. PICK x \in D : ~b[x].shadow /\ late(x, 0).exceeds
    BY <1>11, <1>17, Zenon
  <2>2. \A r \in Nat : ~late(x, r).allowed
    BY <1>2, <2>1, Zenon
  <2>3. h.retry = -1
    BY <1>3, <1>14, <1>17, Zenon DEF h
  <2> QED
    BY <1>15, <2>1, <2>2, <2>3, Zenon
<1>18. ASSUME ~ok, ~never
       PROVE  /\ h.retry \in Nat /\ admitted(h.retry)
              /\ \A r \in 0..(h.retry - 1) : ~admitted(r)
  <2> DEFINE wait == late(s, 0).retry
  <2>1. s # 0 /\ s \in D /\ ~b[s].shadow /\ ~late(s, 0).allowed
    BY <1>14, <1>18, Zenon
  <2>2. \A x \in D : b[x].shadow \/ ~late(x, 0).exceeds
    BY <1>11, <1>18, Zenon
  <2>3. h.retry = wait
    BY <1>3, <1>5, <1>18, <2>1, Zenon DEF h
  <2>4. wait \in Nat /\ \A r \in Nat : late(s, r).allowed <=> wait <= r
    BY <1>2, <2>1, <2>2, Zenon
  <2>5. ASSUME NEW x \in D, ~b[x].shadow PROVE late(x, wait).allowed
    <3>1. CASE late(x, 0).allowed
      BY <1>2, <2>4, <3>1, ZenonT(40)
    <3>2. CASE ~late(x, 0).allowed
      <4>1. ~late(x, 0).exceeds /\ ~late(s, 0).exceeds
        BY <2>1, <2>2, <2>5, Zenon
      <4>2. late(x, 0).retry \in Nat
            /\ \A r \in Nat : late(x, r).allowed <=> late(x, 0).retry <= r
        BY <1>2, <3>2, <4>1, Zenon
      <4>3. late(x, 0).retry <= wait
        <5>1. x \in bind
          BY <1>5, <1>6, <2>5, <3>2, Zenon
        <5>2. CASE x = s
          BY <2>4, <5>2
        <5>3. CASE x # s
          <6>1. Stricter(b, V, s, x, ok)
            BY <1>4, <2>1, <5>1, <5>3, Zenon
          <6> QED
            BY <1>10, <1>18, <2>1, <2>4, <4>1, <4>2, <6>1
        <5> QED
          BY <5>2, <5>3, Zenon
      <4> QED
        BY <2>4, <4>2, <4>3, Zenon
    <3> QED
      BY <3>1, <3>2, Zenon
  <2> HIDE DEF wait
  <2>6. admitted(wait)
    BY <1>15, <2>4, <2>5, Zenon
  <2>7. ASSUME NEW r \in 0..(wait - 1) PROVE ~admitted(r)
    <3>1. r \in Nat /\ ~(wait <= r)
      BY <2>4
    <3> QED
      BY <1>15, <2>1, <2>4, <3>1, Zenon
  <2> QED
    BY <2>3, <2>4, <2>6, <2>7, Zenon
<1>19. RetryAdmits(j)
  <2>1. \A r \in 0..MaxPeriodMicros : r \in Nat
    BY AlgorithmConstants
  <2> SUFFICES ASSUME ~ok
               PROVE  /\ h # NoHeaders
                      /\ d.exceeds <=> h.retry < 0
                      /\ h.retry >= 0 => /\ admitted(h.retry)
                                         /\ \A r \in 0..(h.retry - 1) : ~admitted(r)
                      /\ d.exceeds => \A r \in 0..MaxPeriodMicros : ~admitted(r)
    BY <1>1, <1>3, Zenon DEF RetryAdmits, h, admitted
  <2>2. d.exceeds <=> never
    BY <1>3, <1>14, Zenon
  <2>3. CASE never
    <3>1. h.retry < 0 /\ ~(h.retry >= 0)
      BY <1>17, <2>3
    <3> QED
      BY <1>16, <1>17, <2>1, <2>2, <2>3, <3>1, Zenon
  <2>4. CASE ~never
    <3>1. ~(h.retry < 0)
      BY <1>18, <2>4
    <3> QED
      BY <1>16, <1>18, <2>2, <2>4, <3>1, Zenon
  <2> QED
    BY <2>3, <2>4, Zenon
<1> QED
  BY <1>12, <1>13, <1>19, Zenon DEF j

\* A decision over several buckets is right in every reachable state.
THEOREM DecisionHint == LSpec => []DecisionExact
<1>1. LTypeOK => DecisionExact
  BY DecisionRight, Zenon DEF DecisionExact
<1> QED
  BY <1>1, LedgerTypes, PTL

-----------------------------------------------------------------------------
(* The check handler: its passes over the descriptors and the decisions.   *)

\* f has the sums of the first costs.
Sums(f, costs) ==
    /\ f \in [0..Len(costs) -> Nat]
    /\ f[0] = 0
    /\ \A i \in 1..Len(costs) : f[i] = f[i - 1] + costs[i]

\* The loop of costViolation adds up the costs.
LEMMA TotalSums ==
    ASSUME NEW costs \in Seq(Nat)
    PROVE  \E f : Sums(f, costs) /\ Total(costs) = f[Len(costs)]
<1> DEFINE n == Len(costs)
           passed(g) == [i \in 0..n |-> IF i = 0 THEN 0 ELSE g[i - 1] + costs[i]]
           u == CHOOSE g : g = passed(g)
           step == [i \in 1..n |-> [x \in Nat |-> x + costs[i]]]
<1>1. n \in Nat /\ \A i \in 1..n : costs[i] \in Nat
  OBVIOUS
<1>2. Total(costs) = u[n]
  BY Zenon DEF Total
<1>3. Sums(u, costs) <=> /\ u \in [0..n -> Nat]
                         /\ u[0] = 0
                         /\ \A i \in 1..n : u[i] = u[i - 1] + costs[i]
  BY Zenon DEF Sums
<1> HIDE DEF n
<1>4. step \in [1..n -> [Nat -> Nat]]
  BY <1>1
<1>5. PICK f : Solves(f, n, Nat, 0, step)
  <2> HIDE DEF step
  <2> QED
    BY <1>1, <1>4, RecursionUp, Zenon
<1>6. f \in [0..n -> Nat] /\ f[0] = 0 /\ \A i \in 1..n : f[i] = f[i - 1] + costs[i]
  <2>1. f \in [0..n -> Nat] /\ f[0] = 0 /\ \A i \in 1..n : f[i] = step[i][f[i - 1]]
    BY <1>5, Zenon DEF Solves
  <2>2. \A i \in 1..n : f[i - 1] \in Nat
    BY <1>1, <2>1
  <2> QED
    BY <2>1, <2>2, Zenon
<1>7. f = passed(f)
  BY <1>1, <1>6
<1>8. u = passed(u)
  <2> HIDE DEF passed
  <2> QED
    BY <1>7, Zenon
<1> HIDE DEF u, step
<1>9. DOMAIN u = 0..n /\ u[0] = 0 /\ \A i \in 1..n : u[i] = u[i - 1] + costs[i]
  BY <1>1, <1>8
<1> DEFINE S == {i \in 0..n : u[i] \in Nat}
<1>10. 0..n \subseteq S
  <2>1. 0 \in S
    BY <1>1, <1>9
  <2>2. ASSUME NEW i \in 1..n, i - 1 \in S PROVE i \in S
    <3>1. i \in 0..n /\ u[i - 1] \in Nat /\ costs[i] \in Nat
      BY <1>1, <2>2
    <3>2. u[i] = u[i - 1] + costs[i]
      BY <1>9, Zenon
    <3> QED
      BY <3>1, <3>2
  <2> HIDE DEF S
  <2> QED
    BY <1>1, <2>1, <2>2, CountUp, Zenon
<1>11. u \in [0..n -> Nat]
  <2>1. \A i \in 0..n : u[i] \in Nat
    BY <1>10, Zenon
  <2>2. u = [i \in 0..n |-> u[i]]
    BY <1>8, Zenon
  <2> QED
    BY <2>1, <2>2, Zenon
<1>12. Sums(u, costs) /\ Total(costs) = u[Len(costs)]
  BY <1>2, <1>3, <1>9, <1>11, Zenon DEF n
<1> QED
  BY <1>12, Zenon

\* Sums of the same costs are the same.
LEMMA SumsAgree ==
    ASSUME NEW s \in Seq(Nat), NEW t \in Seq(Nat), NEW f, NEW g, Sums(f, s), Sums(g, t),
           Len(s) <= Len(t), \A i \in 1..Len(s) : s[i] = t[i]
    PROVE  f[Len(s)] = g[Len(s)]
<1> DEFINE n == Len(s)
           S == {i \in 0..n : f[i] = g[i]}
<1>1. n \in Nat /\ Len(t) \in Nat
  OBVIOUS
<1>2. 0 \in S
  BY <1>1 DEF Sums
<1>3. \A i \in 1..n : i - 1 \in S => i \in S
  BY <1>1 DEF Sums
<1>4. 0..n \subseteq S
  <2> HIDE DEF S, n
  <2> QED
    BY <1>1, <1>2, <1>3, CountUp, Zenon
<1> QED
  BY <1>1, <1>4

\* A cost more adds itself, and the total is a number.
LEMMA TotalAppend ==
    ASSUME NEW s \in Seq(Nat), NEW x \in Nat
    PROVE  Total(s) \in Nat /\ Total(Append(s, x)) = Total(s) + x
<1> DEFINE t == Append(s, x)
<1>1. t \in Seq(Nat) /\ Len(s) \in Nat /\ Len(t) = Len(s) + 1 /\ t[Len(t)] = x
      /\ \A i \in 1..Len(s) : s[i] = t[i]
  OBVIOUS
<1> HIDE DEF t
<1>2. PICK f : Sums(f, s) /\ Total(s) = f[Len(s)]
  BY TotalSums, Zenon
<1>3. PICK g : Sums(g, t) /\ Total(t) = g[Len(t)]
  BY <1>1, TotalSums, Zenon
<1>4. f[Len(s)] = g[Len(s)]
  BY <1>1, <1>2, <1>3, SumsAgree
<1>5. f[Len(s)] \in Nat
  BY <1>1, <1>2 DEF Sums
<1>6. g[Len(t)] = g[Len(s)] + x
  <2>1. Len(t) \in 1..Len(t) /\ Len(t) - 1 = Len(s)
    BY <1>1
  <2>2. g[Len(t)] = g[Len(t) - 1] + t[Len(t)]
    BY <1>3, <2>1, Zenon DEF Sums
  <2> QED
    BY <1>1, <2>1, <2>2, Zenon
<1> QED
  BY <1>2, <1>3, <1>4, <1>5, <1>6, Zenon DEF t

\* The costs after the first are no more than all of them.
LEMMA TotalTail ==
    ASSUME NEW s \in Seq(Nat), s # <<>>
    PROVE  Total(Tail(s)) \in Nat /\ Total(Tail(s)) <= Total(s)
<1> DEFINE t == Tail(s)
           n == Len(t)
<1>1. t \in Seq(Nat) /\ n \in Nat /\ Len(s) = n + 1 /\ s[1] \in Nat
      /\ \A i \in 1..n : t[i] = s[i + 1]
  OBVIOUS
<1> HIDE DEF t
<1>2. PICK f : Sums(f, s) /\ Total(s) = f[Len(s)]
  BY TotalSums, Zenon
<1>3. PICK g : Sums(g, t) /\ Total(t) = g[Len(t)]
  BY <1>1, TotalSums, Zenon
<1>4. /\ f \in [0..(n + 1) -> Nat] /\ f[0] = 0 /\ Total(s) = f[n + 1]
      /\ \A i \in 1..(n + 1) : f[i] = f[i - 1] + s[i]
  BY <1>1, <1>2, Zenon DEF Sums
<1>5. /\ g \in [0..n -> Nat] /\ g[0] = 0 /\ Total(t) = g[n]
      /\ \A i \in 1..n : g[i] = g[i - 1] + t[i]
  BY <1>1, <1>3, Zenon DEF Sums
<1> DEFINE S == {i \in 0..n : f[i + 1] = g[i] + s[1]}
<1> HIDE DEF n
<1>6. 0 \in S
  BY <1>1, <1>4, <1>5
<1>7. ASSUME NEW i \in 1..n, i - 1 \in S PROVE i \in S
  <2>1. f[i] = g[i - 1] + s[1]
    BY <1>1, <1>7
  <2>2. f[i + 1] = f[i] + s[i + 1]
    BY <1>1, <1>4
  <2>3. g[i] = g[i - 1] + s[i + 1] /\ g[i - 1] \in Nat
    BY <1>1, <1>5
  <2>4. s[i + 1] \in Nat
    BY <1>1
  <2> QED
    BY <1>1, <2>1, <2>2, <2>3, <2>4
<1>8. 0..n \subseteq S
  <2> HIDE DEF S
  <2> QED
    BY <1>1, <1>6, <1>7, CountUp, Zenon
<1>9. f[n + 1] = g[n] + s[1] /\ g[n] \in Nat
  BY <1>1, <1>5, <1>8
<1> QED
  BY <1>1, <1>4, <1>5, <1>9 DEF t

EngineRequest == [matched: Matches, cost: Nat, free: BOOLEAN, exempt: BOOLEAN]

\* What a request states: nothing for an explicit zero, one by default.
Stated(c) == IF c.free THEN 0 ELSE IF c.cost = 0 THEN 1 ELSE c.cost

StatedCosts(requests) == [i \in DOMAIN requests |-> Stated(requests[i])]

\* What requests state are numbers, one for each of them.
LEMMA StatedOf ==
    ASSUME NEW s \in Seq(EngineRequest)
    PROVE  /\ StatedCosts(s) \in Seq(Nat) /\ Len(StatedCosts(s)) = Len(s)
           /\ \A i \in 1..Len(s) : StatedCosts(s)[i] = Stated(s[i]) /\ Stated(s[i]) \in Nat
<1>1. \A c \in EngineRequest : Stated(c) \in Nat
  BY Zenon DEF EngineRequest, Stated
<1>2. Len(s) \in Nat /\ DOMAIN s = 1..Len(s) /\ \A i \in 1..Len(s) : s[i] \in EngineRequest
  BY Elements, Zenon
<1> DEFINE f == [i \in 1..Len(s) |-> Stated(s[i])]
<1>3. f \in [1..Len(s) -> Nat] /\ StatedCosts(s) = f
  BY <1>1, <1>2, Zenon DEF StatedCosts
<1> HIDE DEF f
<1>4. f \in Seq(Nat) /\ Len(f) = Len(s)
  BY <1>2, <1>3
<1> QED
  BY <1>1, <1>2, <1>3, <1>4, Zenon DEF f

\* One more request charges its cost more.
LEMMA StatedAppend ==
    ASSUME NEW s \in Seq(EngineRequest), NEW c \in EngineRequest
    PROVE  StatedCosts(Append(s, c)) = Append(StatedCosts(s), Stated(c)) /\ Stated(c) \in Nat
<1> DEFINE t == Append(s, c)  a == StatedCosts(t)  b == Append(StatedCosts(s), Stated(c))
<1>1. t \in Seq(EngineRequest) /\ Len(s) \in Nat /\ Len(t) = Len(s) + 1 /\ t[Len(s) + 1] = c
      /\ \A i \in 1..Len(s) : t[i] = s[i]
  OBVIOUS
<1>2. /\ StatedCosts(s) \in Seq(Nat) /\ Len(StatedCosts(s)) = Len(s)
      /\ \A i \in 1..Len(s) : StatedCosts(s)[i] = Stated(s[i]) /\ Stated(s[i]) \in Nat
  BY StatedOf, Zenon
<1>3. Stated(c) \in Nat
  BY Zenon DEF Stated, EngineRequest
<1>4. /\ b \in Seq(Nat) /\ Len(b) = Len(s) + 1 /\ b[Len(s) + 1] = Stated(c)
      /\ \A i \in 1..Len(s) : b[i] = Stated(s[i])
  BY <1>1, <1>2, <1>3
<1> HIDE DEF t
<1>5. /\ a \in Seq(Nat) /\ Len(a) = Len(t)
      /\ \A i \in 1..Len(t) : a[i] = Stated(t[i])
  BY <1>1, StatedOf, Zenon
<1> HIDE DEF a, b
<1>6. \A i \in 1..Len(a) : a[i] = b[i]
  <2> TAKE i \in 1..Len(a)
  <2>1. i \in 1..Len(s) \/ i = Len(s) + 1
    BY <1>1, <1>5
  <2>2. a[i] = Stated(t[i])
    BY <1>5, Zenon
  <2> QED
    BY <1>1, <1>4, <2>1, <2>2, Zenon
<1>7. a = b
  <2>1. a = [i \in 1..Len(a) |-> a[i]] /\ b = [i \in 1..Len(b) |-> b[i]]
    BY <1>4, <1>5
  <2>2. Len(a) = Len(b)
    BY <1>1, <1>4, <1>5, Zenon
  <2> QED
    BY <1>6, <2>1, <2>2, Zenon
<1> QED
  BY <1>3, <1>7, Zenon DEF a, b, t

\* The requests without the exempt ones are some of them, and charge no more.
LEMMA KeptStated ==
    ASSUME NEW requests \in Seq(EngineRequest)
    PROVE  /\ WithoutExempt(requests) \in Seq(EngineRequest)
           /\ Total(StatedCosts(WithoutExempt(requests))) <= Total(StatedCosts(requests))
<1> DEFINE n == Len(requests)
           T == Seq(EngineRequest)
           after(x, i) == IF requests[i].exempt THEN x ELSE Append(x, requests[i])
           passed(g) == [i \in 0..n |-> IF i = 0 THEN <<>> ELSE after(g[i - 1], i)]
           u == CHOOSE g : g = passed(g)
           step == [i \in 1..n |-> [x \in T |-> after(x, i)]]
<1>1. n \in Nat /\ \A i \in 1..n : requests[i] \in EngineRequest
  BY Elements, Zenon
<1>2. WithoutExempt(requests) = u[n]
  BY Zenon DEF WithoutExempt
<1>3. \A i \in 1..n : \A x \in T : after(x, i) \in T
  BY <1>1
<1>4. <<>> \in T
  OBVIOUS
<1> HIDE DEF n, T
<1>5. step \in [1..n -> [T -> T]]
  <2> HIDE DEF after
  <2> QED
    BY <1>3, Zenon
<1>6. PICK f : Solves(f, n, T, <<>>, step)
  <2> HIDE DEF step
  <2> QED
    BY <1>1, <1>4, <1>5, RecursionUp, Zenon
<1>7. f = passed(f)
  <2> HIDE DEF after
  <2>1. f \in [0..n -> T] /\ f[0] = <<>> /\ \A i \in 1..n : f[i] = step[i][f[i - 1]]
    BY <1>6, Zenon DEF Solves
  <2>2. \A i \in 1..n : f[i - 1] \in T
    BY <1>1, <2>1
  <2>3. \A i \in 1..n : f[i] = after(f[i - 1], i)
    BY <2>1, <2>2, Zenon
  <2> QED
    BY <1>1, <2>1, <2>3
<1>8. u = passed(u)
  <2> HIDE DEF passed
  <2> QED
    BY <1>7, Zenon
<1> HIDE DEF u, step
<1>9. u[0] = <<>> /\ \A i \in 1..n : u[i] = after(u[i - 1], i)
  <2> HIDE DEF after
  <2> QED
    BY <1>1, <1>8
<1>10. /\ StatedCosts(requests) \in Seq(Nat) /\ Len(StatedCosts(requests)) = n
       /\ \A i \in 1..n : StatedCosts(requests)[i] = Stated(requests[i])
  BY StatedOf, Zenon DEF n
<1>11. PICK sum : Sums(sum, StatedCosts(requests)) /\ Total(StatedCosts(requests)) = sum[n]
  BY <1>10, TotalSums, Zenon
<1>12. sum \in [0..n -> Nat] /\ sum[0] = 0
       /\ \A i \in 1..n : sum[i] = sum[i - 1] + Stated(requests[i])
  BY <1>10, <1>11, Zenon DEF Sums
<1> DEFINE Fits(x, most) == x \in T /\ Total(StatedCosts(x)) \in Nat /\ Total(StatedCosts(x)) <= most
           S == {i \in 0..n : Fits(u[i], sum[i])}
<1>13. 0 \in S
  <2>1. StatedCosts(<<>>) \in Seq(Nat) /\ Len(StatedCosts(<<>>)) = 0
    BY <1>4, StatedOf, Zenon DEF T
  <2>2. Total(StatedCosts(<<>>)) = 0
    BY <2>1, TotalSums, Zenon DEF Sums
  <2> QED
    BY <1>1, <1>4, <1>9, <1>12, <2>2
<1>14. ASSUME NEW i \in 1..n, i - 1 \in S PROVE i \in S
  <2> DEFINE x == u[i - 1]  c == requests[i]
  <2>1. Fits(x, sum[i - 1]) /\ u[i] = after(x, i) /\ i \in 0..n /\ c \in EngineRequest
    BY <1>1, <1>9, <1>14
  <2>2. sum[i] = sum[i - 1] + Stated(c) /\ sum[i - 1] \in Nat
    BY <1>1, <1>12
  <2> HIDE DEF x, c
  <2>3. x \in Seq(EngineRequest) /\ Total(StatedCosts(x)) \in Nat /\ Total(StatedCosts(x)) <= sum[i - 1]
    BY <2>1, Zenon DEF T
  <2>4. StatedCosts(Append(x, c)) = Append(StatedCosts(x), Stated(c)) /\ Stated(c) \in Nat
    BY <2>1, <2>3, StatedAppend, Zenon
  <2>5. StatedCosts(x) \in Seq(Nat)
    BY <2>3, StatedOf, Zenon
  <2>6. Total(StatedCosts(Append(x, c))) = Total(StatedCosts(x)) + Stated(c)
    BY <2>4, <2>5, TotalAppend, Zenon
  <2>7. Fits(x, sum[i]) /\ Fits(Append(x, c), sum[i])
    <3>1. Append(x, c) \in T /\ x \in T
      BY <2>1, <2>3 DEF T
    <3> QED
      BY <2>2, <2>3, <2>4, <2>6, <3>1
  <2>8. after(x, i) \in {x, Append(x, c)}
    BY Zenon DEF c
  <2> QED
    BY <2>1, <2>7, <2>8, Zenon
<1>15. 0..n \subseteq S
  <2> HIDE DEF S
  <2> QED
    BY <1>1, <1>13, <1>14, CountUp, Zenon
<1> QED
  BY <1>1, <1>2, <1>11, <1>15 DEF T

\* With the first request decided, no more is left to charge.
LEMMA StatedTail ==
    ASSUME NEW s \in Seq(EngineRequest), s # <<>>
    PROVE  /\ Tail(s) \in Seq(EngineRequest)
           /\ Len(s) = 1 <=> Tail(s) = <<>>
           /\ Total(StatedCosts(s)) \in Nat /\ Total(StatedCosts(Tail(s))) \in Nat
           /\ Total(StatedCosts(Tail(s))) <= Total(StatedCosts(s))
<1> DEFINE t == Tail(s)  a == StatedCosts(s)  b == StatedCosts(t)
<1>1. /\ Len(s) \in Nat \ {0} /\ t \in Seq(EngineRequest) /\ Len(t) = Len(s) - 1
      /\ \A i \in 1..(Len(s) - 1) : t[i] = s[i + 1]
  OBVIOUS
<1>2. Len(s) = 1 <=> t = <<>>
  <2> HIDE DEF t
  <2> QED
    BY <1>1
<1> HIDE DEF t
<1>3. /\ a \in Seq(Nat) /\ Len(a) = Len(s)
      /\ \A i \in 1..Len(s) : a[i] = Stated(s[i])
  BY StatedOf, Zenon
<1>4. /\ b \in Seq(Nat) /\ Len(b) = Len(s) - 1
      /\ \A i \in 1..(Len(s) - 1) : b[i] = Stated(t[i])
  BY <1>1, StatedOf, Zenon
<1> HIDE DEF a, b
<1>5. /\ a # <<>> /\ Tail(a) \in Seq(Nat) /\ Len(Tail(a)) = Len(s) - 1
      /\ \A i \in 1..(Len(s) - 1) : Tail(a)[i] = a[i + 1]
  BY <1>1, <1>3
<1>6. \A i \in 1..(Len(s) - 1) : b[i] = Tail(a)[i]
  <2> TAKE i \in 1..(Len(s) - 1)
  <2>1. i + 1 \in 1..Len(s)
    BY <1>1
  <2> QED
    BY <1>1, <1>3, <1>4, <1>5, <2>1, Zenon
<1>7. b = Tail(a)
  <2> DEFINE e == Tail(a)
  <2>1. e \in Seq(Nat) /\ Len(e) = Len(b) /\ \A i \in 1..Len(b) : b[i] = e[i]
    BY <1>4, <1>5, <1>6, Zenon
  <2> HIDE DEF e
  <2>2. b = [i \in 1..Len(b) |-> b[i]] /\ e = [i \in 1..Len(e) |-> e[i]]
    BY <1>4, <2>1
  <2>3. b = e
    BY <2>1, <2>2, Zenon
  <2> QED
    BY <2>3, Zenon DEF e
<1>8. Total(b) \in Nat /\ Total(b) <= Total(a)
  BY <1>3, <1>5, <1>7, TotalTail, Zenon
<1>9. Total(a) \in Nat
  BY <1>3, TotalAppend, Zenon
<1> QED
  BY <1>1, <1>2, <1>8, <1>9, Zenon DEF a, b, t

\* engineRequests reads the costs of a request as costViolation does.
LEMMA CostsStated ==
    ASSUME NEW req \in Requests, ~CostViolation(req)
    PROVE  /\ EngineRequests(req) \in Seq(EngineRequest)
           /\ Total(StatedCosts(EngineRequests(req))) <= MaxHitsAddend
<1> DEFINE ds == req.descriptors
           n == Len(ds)
           Descriptor == [matched: Matches, addend: Nat \cup {Unset},
                          negative: BOOLEAN, exempt: BOOLEAN]
           one == IF req.hits = 0 THEN 1 ELSE req.hits
           costs == [i \in DOMAIN ds |-> IF ds[i].addend = Unset THEN one ELSE ds[i].addend]
           out == EngineRequests(req)
<1>1. /\ req.hits \in Nat /\ req.bare \in Matches
      /\ ds \in Seq(Descriptor)
  BY CheckConstants, Zenon
<1>2. n \in Nat /\ DOMAIN ds = 1..n /\ \A i \in 1..n : ds[i] \in Descriptor
  BY <1>1, Elements, Zenon
<1>3. CASE ds = <<>>
  <2> DEFINE c == [matched |-> req.bare, cost |-> req.hits, free |-> FALSE, exempt |-> FALSE]
  <2>1. out = <<c>> /\ c \in EngineRequest /\ Stated(c) = one
    BY <1>1, <1>3, Zenon DEF EngineRequests, EngineRequest, Stated
  <2>2. one <= MaxHitsAddend
    BY <1>1, <1>3, CheckConstants DEF CostViolation
  <2> HIDE DEF c, out, one
  <2>3. <<>> \in Seq(EngineRequest) /\ <<c>> = Append(<<>>, c) /\ <<c>> \in Seq(EngineRequest)
    BY <2>1
  <2>4. StatedCosts(<<c>>) = Append(StatedCosts(<<>>), Stated(c)) /\ Stated(c) \in Nat
    BY <2>1, <2>3, StatedAppend, Zenon
  <2>5. StatedCosts(<<>>) \in Seq(Nat) /\ Len(StatedCosts(<<>>)) = 0
    BY <2>3, StatedOf, Zenon
  <2>6. Total(StatedCosts(<<>>)) = 0
    BY <2>5, TotalSums, Zenon DEF Sums
  <2>7. Total(StatedCosts(<<c>>)) = one
    <3>1. Total(Append(StatedCosts(<<>>), Stated(c))) = Total(StatedCosts(<<>>)) + Stated(c)
      BY <2>4, <2>5, TotalAppend, Zenon
    <3>2. Total(StatedCosts(<<c>>)) = 0 + Stated(c)
      BY <2>4, <2>6, <3>1, Zenon
    <3>3. 0 + Stated(c) = Stated(c)
      BY <2>4
    <3> QED
      BY <2>1, <3>2, <3>3, Zenon
  <2> QED
    BY <2>1, <2>2, <2>3, <2>7, Zenon DEF out
<1>4. CASE ds # <<>>
  <2>1. Total(costs) <= MaxHitsAddend \/ Total(costs) \notin Int
    BY <1>4, CheckConstants DEF CostViolation
  <2> DEFINE told(d) == [matched |-> d.matched,
                         cost    |-> IF d.addend = Unset THEN req.hits ELSE d.addend,
                         free    |-> d.addend = 0,
                         exempt  |-> d.exempt]
             cost(d) == IF d.addend = Unset THEN one ELSE d.addend
  <2>2. out = [i \in 1..n |-> told(ds[i])] /\ costs = [i \in 1..n |-> cost(ds[i])]
    BY <1>2, <1>4, Zenon DEF EngineRequests
  <2>3. \A d \in Descriptor : /\ told(d) \in EngineRequest /\ cost(d) \in Nat
                              /\ Stated(told(d)) = cost(d)
    <3> TAKE d \in Descriptor
    <3>1. /\ d.matched \in Matches /\ d.exempt \in BOOLEAN
          /\ d.addend \in Nat \cup {Unset} /\ Unset = -1
      BY Zenon DEF Unset
    <3>2. one \in Nat /\ one # 0 /\ (req.hits # 0 => one = req.hits)
      BY <1>1
    <3> HIDE DEF one
    <3>3. told(d) \in EngineRequest
      <4>1. (d.addend = 0) \in BOOLEAN
        BY Zenon
      <4>2. (IF d.addend = Unset THEN req.hits ELSE d.addend) \in Nat
        BY <1>1, <3>1, Zenon
      <4> QED
        BY <3>1, <4>1, <4>2, Zenon DEF EngineRequest
    <3>4. cost(d) \in Nat
      BY <3>1, <3>2, Zenon
    <3>5. /\ told(d).free <=> d.addend = 0
          /\ told(d).cost = IF d.addend = Unset THEN req.hits ELSE d.addend
      BY Zenon
    <3> HIDE DEF told
    <3>6. Stated(told(d)) = cost(d)
      <4>1. CASE d.addend = Unset
        <5>1. ~told(d).free /\ told(d).cost = req.hits /\ cost(d) = one
          BY <3>1, <3>5, <4>1
        <5>2. req.hits = 0 => one = 1
          BY Zenon DEF one
        <5> QED
          BY <3>2, <5>1, <5>2, Zenon DEF Stated
      <4>2. CASE d.addend # Unset
        BY <3>1, <3>5, <4>2, Zenon DEF Stated
      <4> QED
        BY <4>1, <4>2, Zenon
    <3> QED
      BY <3>3, <3>4, <3>6, ZenonT(40)
  <2> HIDE DEF told, cost, out, costs, Descriptor, n
  <2>4. out \in [1..n -> EngineRequest] /\ costs \in [1..n -> Nat]
    BY <1>2, <2>2, <2>3, Zenon
  <2>5. out \in Seq(EngineRequest) /\ Len(out) = n /\ costs \in Seq(Nat) /\ Len(costs) = n
    BY <1>2, <2>4
  <2>6. /\ StatedCosts(out) \in Seq(Nat) /\ Len(StatedCosts(out)) = n
        /\ \A i \in 1..n : StatedCosts(out)[i] = Stated(out[i])
    BY <2>5, StatedOf, Zenon
  <2>7. \A i \in 1..n : StatedCosts(out)[i] = costs[i]
    BY <1>2, <2>2, <2>3, <2>6, Zenon
  <2>8. StatedCosts(out) = costs
    BY <1>2, <2>5, <2>6, <2>7
  <2>9. Total(costs) \in Nat
    BY <2>5, TotalAppend, Zenon
  <2> QED
    BY <2>1, <2>5, <2>8, <2>9 DEF out
<1> QED
  BY <1>3, <1>4, Zenon

\* The decision whose numbers a response carries is of the verdict it was picked
\* for.
LEMMA StrictestAllowed ==
    ASSUME NEW D, NEW decisions \in Seq(D), NEW allowed
    PROVE  StrictestDecision(decisions, allowed).allowed = allowed
<1> DEFINE n == Len(decisions)
           none == [allowed |-> allowed, headers |-> NoHeaders]
           its(i) == [allowed |-> decisions[i].allowed, headers |-> decisions[i].headers]
           T == {none} \cup {its(i) : i \in {j \in 1..n : decisions[j].allowed = allowed}}
           after(x, i) == IF Overrides(decisions[i], x, allowed) THEN its(i) ELSE x
           passed(g) == [i \in 0..n |-> IF i = 0 THEN none ELSE after(g[i - 1], i)]
           u == CHOOSE g : g = passed(g)
           step == [i \in 1..n |-> [x \in T |-> after(x, i)]]
<1>1. n \in Nat
  OBVIOUS
<1>2. StrictestDecision(decisions, allowed) = u[n]
  BY Zenon DEF StrictestDecision
<1>3. none \in T /\ \A x \in T : x.allowed = allowed
  OBVIOUS
<1>4. \A i \in 1..n : \A x \in T : after(x, i) \in T
  BY Zenon DEF Overrides
<1> HIDE DEF n, T, none, its
<1>5. step \in [1..n -> [T -> T]]
  <2> HIDE DEF after
  <2> QED
    BY <1>4, Zenon
<1>6. PICK f : Solves(f, n, T, none, step)
  <2> HIDE DEF step
  <2> QED
    BY <1>1, <1>3, <1>5, RecursionUp, Zenon
<1>7. f = passed(f)
  <2> HIDE DEF after
  <2>1. f \in [0..n -> T] /\ f[0] = none /\ \A i \in 1..n : f[i] = step[i][f[i - 1]]
    BY <1>6, Zenon DEF Solves
  <2>2. \A i \in 1..n : f[i - 1] \in T
    BY <1>1, <2>1
  <2>3. \A i \in 1..n : f[i] = after(f[i - 1], i)
    BY <2>1, <2>2, Zenon
  <2> QED
    BY <1>1, <2>1, <2>3
<1>8. u = passed(u)
  <2> HIDE DEF passed
  <2> QED
    BY <1>7, Zenon
<1> HIDE DEF u, step
<1>9. u[0] = none /\ \A i \in 1..n : u[i] = after(u[i - 1], i)
  <2> HIDE DEF after
  <2> QED
    BY <1>1, <1>8
<1> DEFINE S == {i \in 0..n : u[i] \in T}
<1>10. 0 \in S
  BY <1>1, <1>3, <1>9
<1>11. ASSUME NEW i \in 1..n, i - 1 \in S PROVE i \in S
  <2> HIDE DEF after
  <2> QED
    BY <1>1, <1>4, <1>9, <1>11
<1>12. 0..n \subseteq S
  <2> HIDE DEF S
  <2> QED
    BY <1>1, <1>10, <1>11, CountUp, Zenon
<1> QED
  BY <1>1, <1>2, <1>3, <1>12

-----------------------------------------------------------------------------
(* The check handler's answers.                                            *)

\* What is known of the locals of one handler: the requests that are left charge
\* no more than the bound of one, and an answer is of the decisions made.
HandlerInv(c) ==
    /\ DOMAIN c = {"pc", "todo", "decisions", "response"}
    /\ \E D : c.decisions \in Seq(D)
    /\ c.todo \in Seq(EngineRequest) /\ Total(StatedCosts(c.todo)) <= MaxHitsAddend
    /\ \/ c = Idling
       \/ c.pc = "deciding" /\ c.todo # <<>> /\ c.response = NoResponse
       \/ /\ c.pc = "done" /\ c.todo = <<>>
          /\ c.response.code \in {"OK", "OVER_LIMIT", "UNAVAILABLE"}
          /\ ~Allowed(c.decisions) => c.response.code = "OVER_LIMIT"
          /\ c.response.headers # NoHeaders =>
                (c.response.allowed <=> c.response.code = "OK")

CheckInv ==
    /\ check = [p \in Callers |-> check[p]]
    /\ \A p \in Callers : HandlerInv(check[p])

\* No request is left and nothing to charge.
LEMMA NothingStated ==
    <<>> \in Seq(EngineRequest) /\ Total(StatedCosts(<<>>)) <= MaxHitsAddend
<1>1. <<>> \in Seq(EngineRequest)
  OBVIOUS
<1>2. StatedCosts(<<>>) \in Seq(Nat) /\ Len(StatedCosts(<<>>)) = 0
  BY <1>1, StatedOf, Zenon
<1>3. Total(StatedCosts(<<>>)) = 0
  BY <1>2, TotalSums, Zenon DEF Sums
<1> QED
  BY <1>1, <1>3, CheckConstants

\* A handler that does not run is as it was made.
LEMMA IdlingHolds == HandlerInv(Idling)
<1>1. /\ DOMAIN Idling = {"pc", "todo", "decisions", "response"}
      /\ Idling.todo = <<>> /\ Idling.decisions = <<>>
  BY Zenon DEF Idling
<1>2. <<>> \in Seq({})
  OBVIOUS
<1> HIDE DEF Idling
<1> QED
  BY <1>1, <1>2, NothingStated, Zenon DEF HandlerInv

\* A step of one handler leaves the others alone.
LEMMA OneHandler ==
    ASSUME CheckInv, NEW p \in Callers, NEW c, HandlerInv(c), check' = [check EXCEPT ![p] = c]
    PROVE  CheckInv'
<1>1. check' = [q \in Callers |-> IF q = p THEN c ELSE check[q]]
  BY Zenon DEF CheckInv
<1>2. \A q \in Callers : check'[q] = IF q = p THEN c ELSE check[q]
  BY <1>1, Zenon
<1>3. \A q \in Callers : HandlerInv(check'[q])
  BY <1>2, Zenon DEF CheckInv
<1>4. check' = [q \in Callers |-> check'[q]]
  BY <1>1, Zenon
<1> QED
  BY <1>3, <1>4, Zenon DEF CheckInv

\* A handler that has its answer has nothing left to decide.
LEMMA DoneHolds ==
    ASSUME CheckInv, NEW p \in Callers, NEW response, Done(p, response),
           response.code \in {"OK", "OVER_LIMIT", "UNAVAILABLE"},
           ~Allowed(check[p].decisions) => response.code = "OVER_LIMIT",
           response.headers # NoHeaders => (response.allowed <=> response.code = "OK")
    PROVE  CheckInv'
<1> DEFINE c == [check[p] EXCEPT !.pc = "done", !.todo = <<>>, !.response = response]
<1>1. /\ check = [q \in Callers |-> check[q]]
      /\ DOMAIN check[p] = {"pc", "todo", "decisions", "response"}
      /\ \E D : check[p].decisions \in Seq(D)
  BY Zenon DEF CheckInv, HandlerInv
<1>2. check' = [check EXCEPT ![p] = c]
  BY <1>1, Zenon DEF Done
<1>3. HandlerInv(c)
  <2>1. /\ DOMAIN c = {"pc", "todo", "decisions", "response"}
        /\ c.pc = "done" /\ c.todo = <<>> /\ c.decisions = check[p].decisions
        /\ c.response = response
    BY <1>1, Zenon
  <2> HIDE DEF c
  <2> QED
    BY <1>1, <2>1, NothingStated, Zenon DEF HandlerInv
<1> HIDE DEF c
<1> QED
  BY <1>2, <1>3, OneHandler, Zenon

\* The answers without headers.
LEMMA BareFields ==
    ASSUME NEW code
    PROVE  Bare(code).code = code /\ Bare(code).headers = NoHeaders
  BY Zenon DEF Bare

\* The answer with the numbers of the strictest decision says OK when all
\* decisions are admissions.
LEMMA RespondFields ==
    ASSUME NEW D, NEW decisions \in Seq(D), NEW allowed \in BOOLEAN, NEW code,
           allowed <=> code = "OK"
    PROVE  LET r == Respond(code, StrictestDecision(decisions, allowed))
           IN r.code = code /\ (r.allowed <=> r.code = "OK")
<1> DEFINE d == StrictestDecision(decisions, allowed)
<1>1. d.allowed = allowed
  BY StrictestAllowed, Zenon
<1> HIDE DEF d
<1>2. Respond(code, d).code = code /\ Respond(code, d).allowed = d.allowed
  BY Zenon DEF Respond
<1> QED
  BY <1>1, <1>2, Zenon DEF d

\* A check arrives.
LEMMA ReceiveHolds ==
    ASSUME CheckInv, NEW p \in Callers, NEW req \in Requests, Receive(p, req)
    PROVE  CheckInv'
<1>1. check[p] = Idling
  BY Zenon DEF Receive, CheckInv, HandlerInv
<1>2. Allowed(check[p].decisions)
  BY <1>1 DEF Idling, Allowed
<1>3. ASSUME NEW code \in {"OK", "OVER_LIMIT"}, Done(p, Bare(code)) PROVE CheckInv'
  BY <1>2, <1>3, BareFields, DoneHolds, Zenon
<1>4. ASSUME ~CostViolation(req), WithoutExempt(EngineRequests(req)) # <<>>,
             check' = [check EXCEPT ![p].pc = "deciding",
                                    ![p].todo = WithoutExempt(EngineRequests(req))]
      PROVE  CheckInv'
  <2> DEFINE out == EngineRequests(req)
             kept == WithoutExempt(out)
             c == [check[p] EXCEPT !.pc = "deciding", !.todo = kept]
  <2>1. out \in Seq(EngineRequest) /\ Total(StatedCosts(out)) <= MaxHitsAddend
    BY <1>4, CostsStated, Zenon
  <2> HIDE DEF out
  <2>2. kept \in Seq(EngineRequest) /\ Total(StatedCosts(kept)) <= Total(StatedCosts(out))
    BY <2>1, KeptStated, Zenon
  <2>3. Total(StatedCosts(kept)) \in Nat /\ Total(StatedCosts(out)) \in Nat
    BY <2>1, <2>2, StatedOf, TotalAppend, Zenon
  <2>4. Total(StatedCosts(kept)) <= MaxHitsAddend
    BY <2>1, <2>2, <2>3, CheckConstants
  <2>5. kept # <<>> /\ check' = [check EXCEPT ![p].pc = "deciding", ![p].todo = kept]
    BY <1>4, Zenon DEF out
  <2> HIDE DEF kept
  <2>6. check' = [check EXCEPT ![p] = c]
    BY <2>5, Zenon DEF CheckInv
  <2>7. HandlerInv(c)
    <3>1. /\ DOMAIN c = {"pc", "todo", "decisions", "response"}
          /\ c.pc = "deciding" /\ c.todo = kept /\ c.decisions = <<>>
          /\ c.response = NoResponse
      BY <1>1 DEF Idling
    <3>2. <<>> \in Seq({})
      OBVIOUS
    <3> HIDE DEF c
    <3> QED
      BY <2>2, <2>4, <2>5, <3>1, <3>2, Zenon DEF HandlerInv
  <2> HIDE DEF c
  <2> QED
    BY <2>6, <2>7, OneHandler, Zenon
<1> QED
  BY <1>3, <1>4, Zenon DEF Receive


\* A decision is noted, and after the last one the check answers.
LEMMA DecidedHolds ==
    ASSUME CheckInv, NEW p \in Callers, check[p].pc = "deciding", NEW d, Decided(p, d)
    PROVE  CheckInv'
<1> DEFINE todo == check[p].todo
           decisions == Append(check[p].decisions, d)
           allowed == Allowed(decisions)
           last == Len(todo) = 1
           response == Respond(IF allowed THEN "OK" ELSE "OVER_LIMIT",
                               StrictestDecision(decisions, allowed))
           c == [check[p] EXCEPT !.pc = IF last THEN "done" ELSE @, !.todo = Tail(@),
                                 !.decisions = decisions,
                                 !.response = IF last THEN response ELSE @]
<1>1. /\ check = [q \in Callers |-> check[q]]
      /\ DOMAIN check[p] = {"pc", "todo", "decisions", "response"}
      /\ todo \in Seq(EngineRequest) /\ Total(StatedCosts(todo)) <= MaxHitsAddend
      /\ todo # <<>> /\ check[p].response = NoResponse
  BY DEF CheckInv, HandlerInv, Idling
<1>2. PICK D : check[p].decisions \in Seq(D)
  BY Zenon DEF CheckInv, HandlerInv
<1>3. decisions \in Seq(D \cup {d})
  <2>1. check[p].decisions \in Seq(D \cup {d})
    BY <1>2
  <2> QED
    BY <2>1
<1>4. check' = [check EXCEPT ![p] = c]
  BY <1>1, Zenon DEF Decided
<1> HIDE DEF decisions
<1>5. /\ response.code = IF allowed THEN "OK" ELSE "OVER_LIMIT"
      /\ response.allowed <=> response.code = "OK"
  <2> DEFINE code == IF allowed THEN "OK" ELSE "OVER_LIMIT"
  <2>1. allowed \in BOOLEAN /\ (allowed <=> code = "OK")
    BY Zenon DEF Allowed
  <2> HIDE DEF allowed, code
  <2>2. LET r == Respond(code, StrictestDecision(decisions, allowed))
        IN r.code = code /\ (r.allowed <=> r.code = "OK")
    BY <1>3, <2>1, RespondFields
  <2> QED
    BY <2>2, Zenon DEF code
<1>6. /\ Tail(todo) \in Seq(EngineRequest)
      /\ last <=> Tail(todo) = <<>>
      /\ Total(StatedCosts(Tail(todo))) <= MaxHitsAddend
  <2> HIDE DEF todo
  <2> QED
    BY <1>1, StatedTail, CheckConstants
<1>7. HandlerInv(c)
  <2> HIDE DEF todo, allowed, response
  <2>1. /\ DOMAIN c = {"pc", "todo", "decisions", "response"}
        /\ c.pc = IF last THEN "done" ELSE "deciding"
        /\ c.todo = Tail(todo) /\ c.decisions = decisions
        /\ c.response = IF last THEN response ELSE NoResponse
    BY <1>1, Zenon DEF todo
  <2> HIDE DEF c, last
  <2>2. CASE ~last
    BY <1>3, <1>6, <2>1, <2>2, Zenon DEF HandlerInv
  <2>3. CASE last
    <3>1. response.code \in {"OK", "OVER_LIMIT"}
          /\ (~Allowed(decisions) => response.code = "OVER_LIMIT")
      BY <1>5, Zenon DEF allowed
    <3> QED
      BY <1>3, <1>5, <1>6, <2>1, <2>3, <3>1, Zenon DEF HandlerInv
  <2> QED
    BY <2>2, <2>3, Zenon
<1> HIDE DEF c
<1> QED
  BY <1>4, <1>7, OneHandler, Zenon

\* The store gave no answer.
LEMMA FailedHolds ==
    ASSUME CheckInv, NEW p \in Callers, Failed(p)
    PROVE  CheckInv'
<1> DEFINE decisions == check[p].decisions
<1>1. CASE ~Allowed(decisions)
  <2> DEFINE r == Respond("OVER_LIMIT", StrictestDecision(decisions, FALSE))
  <2>1. Done(p, r)
    BY <1>1, Zenon DEF Failed
  <2>2. PICK D : decisions \in Seq(D)
    BY Zenon DEF CheckInv, HandlerInv
  <2>3. r.code = "OVER_LIMIT" /\ (r.allowed <=> r.code = "OK")
    <3> HIDE DEF decisions
    <3>1. FALSE \in BOOLEAN /\ (FALSE <=> "OVER_LIMIT" = "OK")
      BY Zenon
    <3> QED
      BY <2>2, <3>1, RespondFields, Zenon
  <2> HIDE DEF r
  <2> QED
    BY <2>1, <2>3, DoneHolds, Zenon
<1>2. CASE Allowed(decisions)
  <2>1. Done(p, Bare("UNAVAILABLE"))
    BY <1>2, Zenon DEF Failed
  <2> QED
    BY <1>2, <2>1, BareFields, DoneHolds, Zenon
<1> QED
  BY <1>1, <1>2, Zenon

\* No check runs yet.
LEMMA CheckInit == CInit => CheckInv
<1> SUFFICES ASSUME CInit PROVE CheckInv
  OBVIOUS
<1>1. check = [p \in Callers |-> Idling]
  BY Zenon DEF CInit
<1>2. check = [p \in Callers |-> check[p]] /\ \A p \in Callers : check[p] = Idling
  BY <1>1, Zenon
<1> QED
  BY <1>2, IdlingHolds, Zenon DEF CheckInv

\* Every step of a check, and of the clock, keeps what is known of the handlers.
LEMMA CheckStep == CheckInv /\ [CNext]_cvars => CheckInv'
<1> SUFFICES ASSUME CheckInv, [CNext]_cvars PROVE CheckInv'
  OBVIOUS
<1>1. CASE UNCHANGED check
  BY <1>1, Zenon DEF CheckInv
<1>2. ASSUME NEW p \in Callers, NEW req \in Requests, Receive(p, req) PROVE CheckInv'
  BY <1>2, ReceiveHolds, Zenon
<1>3. ASSUME NEW p \in Callers, DecideUnmatched(p) PROVE CheckInv'
  BY <1>3, DecidedHolds, Zenon DEF DecideUnmatched
<1>4. ASSUME NEW p \in Callers, DecideOverBudget(p) PROVE CheckInv'
  <2>1. Done(p, Bare("OVER_LIMIT"))
    BY <1>4, Zenon DEF DecideOverBudget
  <2> QED
    BY <2>1, BareFields, DoneHolds, Zenon
<1>5. ASSUME NEW p \in Callers, DecideInStore(p) PROVE CheckInv'
  <2>1. check[p].pc = "deciding" /\ (Failed(p) \/ \E d : Decided(p, d))
    BY <1>5, Zenon DEF DecideInStore
  <2> QED
    BY <2>1, DecidedHolds, FailedHolds, Zenon
<1>6. ASSUME NEW p \in Callers, DecideFails(p) PROVE CheckInv'
  BY <1>6, FailedHolds, Zenon DEF DecideFails
<1>7. ASSUME NEW p \in Callers, Return(p) PROVE CheckInv'
  <2>1. check' = [check EXCEPT ![p] = Idling]
    BY <1>7, Zenon DEF Return
  <2> QED
    BY <2>1, IdlingHolds, OneHandler, Zenon
<1>8. CASE CTick
  BY <1>1, <1>8, Zenon DEF CTick
<1>9. CASE UNCHANGED cvars
  BY <1>1, <1>9, Zenon DEF cvars
<1> QED
  BY <1>2, <1>3, <1>4, <1>5, <1>6, <1>7, <1>8, <1>9, Zenon DEF CNext

\* A refusal of one descriptor is the refusal of the check, an OK admits every
\* descriptor, and the numbers of a refusal come from a refusal, whatever the store
\* answers and however many checks run beside it (ShouldRateLimit).
THEOREM RefusalsStand == CSpec => []RefusalStands
<1>1. CheckInv => RefusalStands
  <2> SUFFICES ASSUME CheckInv, NEW p \in Callers
               PROVE  /\ check[p].pc \in {"idle", "deciding", "done"}
                      /\ check[p].response.code \in {"none", "OK", "OVER_LIMIT", "UNAVAILABLE"}
                      /\ check[p].pc = "deciding" <=> check[p].todo # <<>>
                      /\ check[p].pc = "done" <=> check[p].response # NoResponse
                      /\ check[p].pc = "done" =>
                            LET r == check[p].response
                            IN /\ ~Allowed(check[p].decisions) => r.code = "OVER_LIMIT"
                               /\ r.headers # NoHeaders => (r.allowed <=> r.code = "OK")
    BY Zenon DEF RefusalStands, CTypeOK
  <2>1. HandlerInv(check[p])
    BY Zenon DEF CheckInv
  <2>2. NoResponse.code = "none"
    BY Zenon DEF NoResponse
  <2>3. /\ Idling.pc = "idle" /\ Idling.todo = <<>> /\ Idling.response = NoResponse
    BY Zenon DEF Idling
  <2> HIDE DEF NoResponse, Idling
  <2>4. CASE check[p] = Idling
    BY <2>2, <2>3, <2>4, Zenon
  <2>5. CASE check[p].pc = "deciding"
    BY <2>1, <2>2, <2>3, <2>5, Zenon DEF HandlerInv
  <2>6. CASE check[p].pc = "done"
    <3>1. /\ check[p].todo = <<>>
          /\ check[p].response.code \in {"OK", "OVER_LIMIT", "UNAVAILABLE"}
          /\ ~Allowed(check[p].decisions) => check[p].response.code = "OVER_LIMIT"
          /\ check[p].response.headers # NoHeaders =>
                (check[p].response.allowed <=> check[p].response.code = "OK")
      BY <2>1, <2>3, <2>6, Zenon DEF HandlerInv
    <3>2. check[p].response # NoResponse
      BY <2>2, <3>1, Zenon
    <3> QED
      BY <2>6, <3>1, <3>2, Zenon
  <2> QED
    BY <2>1, <2>4, <2>5, <2>6, Zenon DEF HandlerInv
<1> QED
  BY <1>1, CheckInit, CheckStep, PTL DEF CSpec

\* What a request charges a counter is what it states or what the counter's route
\* reads (match.go Buckets, the call of engine.go evaluate).
LEMMA ChargeStated ==
    ASSUME NEW c \in EngineRequest, NEW k \in Keys
    PROVE  /\ Stated(c) \in Nat /\ Charge(c, k) \in Nat /\ OwnCost(c, k) \in Nat
           /\ Charge(c, k) <= Stated(c) + OwnCost(c, k)
<1> DEFINE m == c.matched
           cost == IF c.cost = 0 THEN 1 ELSE c.cost
           b == Buckets(m, cost)
           counting == {r \in DOMAIN m : \E i \in DOMAIN m[r].windows : m[r].windows[i].key = k}
           own == m[CHOOSE r \in counting : TRUE].cost
           R == [shadow: BOOLEAN, cost: Costs \cap Nat,
                 windows: Seq([key: Keys, limit: UNION {Limits[h] : h \in Keys}])]
<1>1. m \in Matches /\ cost \in Nat \ {0} /\ c.free \in BOOLEAN
  <2>1. m \in Matches /\ c.cost \in Nat /\ c.free \in BOOLEAN
    BY Zenon DEF EngineRequest
  <2> QED
    BY <2>1
<1>2. Stated(c) = IF c.free THEN 0 ELSE cost
  BY Zenon DEF Stated
<1>3. Charge(c, k) = IF c.free \/ k \notin DOMAIN CallOf(b) THEN 0 ELSE CallOf(b)[k].cost
  BY Zenon DEF Charge, BucketsOf
<1>4. OwnCost(c, k) = IF c.free \/ counting = {} THEN 0 ELSE own
  BY Zenon DEF OwnCost
<1> HIDE DEF m, cost
<1>5. LaidOut(b, m, cost, Len(m)) /\ Len(m) \in Nat
  BY <1>1, BucketsLaid, Zenon
<1>6. /\ DOMAIN m = 1..Len(m)
      /\ \A r \in DOMAIN m : m[r].cost \in Nat
      /\ \A r, q \in counting : r = q
  <2>1. m \in Seq(R)
    BY <1>1, EngineConstants, Zenon
  <2>2. \A r, q \in counting : r = q
    BY <1>1, EngineConstants, Zenon
  <2>3. \A x \in R : x.cost \in Nat
    BY Zenon
  <2> HIDE DEF R
  <2>4. DOMAIN m = 1..Len(m) /\ \A r \in DOMAIN m : m[r] \in R
    BY <2>1, Elements, Zenon
  <2> QED
    BY <2>2, <2>3, <2>4, Zenon
<1> HIDE DEF b
<1>7. /\ DOMAIN CallOf(b) = {b[x].key : x \in DOMAIN b}
      /\ \A x \in DOMAIN b : CallOf(b)[b[x].key].cost = b[x].cost
  BY <1>5, CallLaid, Zenon DEF LaidOut
<1>8. \A r \in counting : own = m[r].cost
  BY <1>6, Zenon
<1>9. own \in Nat \/ counting = {}
  BY <1>6, <1>8, Zenon
<1> HIDE DEF own
<1>10. ASSUME NEW x \in DOMAIN b, b[x].key = k
       PROVE  /\ counting # {} /\ own \in Nat
              /\ b[x].cost = IF own = 0 THEN cost ELSE own
  <2>1. b[x].rule \in counting /\ b[x].cost = PriceOf(m, cost, b[x].rule)
    BY <1>5, <1>6, <1>10, Zenon DEF LaidOut
  <2>2. own = m[b[x].rule].cost
    BY <1>8, <2>1, Zenon
  <2> QED
    BY <1>9, <2>1, <2>2, Zenon DEF PriceOf
<1> HIDE DEF counting
<1>11. CASE c.free \/ k \notin DOMAIN CallOf(b)
  <2>1. Charge(c, k) = 0 /\ Stated(c) \in Nat /\ OwnCost(c, k) \in Nat
    BY <1>1, <1>2, <1>3, <1>4, <1>9, <1>11
  <2> QED
    BY <2>1
<1>12. CASE ~(c.free \/ k \notin DOMAIN CallOf(b))
  <2>1. PICK x \in DOMAIN b : b[x].key = k
    BY <1>7, <1>12, Zenon
  <2>2. /\ Charge(c, k) = IF own = 0 THEN cost ELSE own
        /\ Stated(c) = cost /\ OwnCost(c, k) = own /\ own \in Nat
    BY <1>2, <1>3, <1>4, <1>7, <1>10, <1>12, <2>1, Zenon
  <2> QED
    BY <1>1, <2>2
<1> QED
  BY <1>11, <1>12, Zenon

\* Costs that are no more than two others together add up to no more.
LEMMA TotalsBound ==
    ASSUME NEW s \in Seq(Nat), NEW t \in Seq(Nat), NEW w \in Seq(Nat), NEW n \in Nat,
           Len(s) = n, Len(t) = n, Len(w) = n, \A i \in 1..n : s[i] <= t[i] + w[i]
    PROVE  Total(s) <= Total(t) + Total(w) /\ Total(s) \in Nat /\ Total(w) \in Nat
<1>1. PICK f : Sums(f, s) /\ Total(s) = f[n]
  BY TotalSums, Zenon
<1>2. PICK g : Sums(g, t) /\ Total(t) = g[n]
  BY TotalSums, Zenon
<1>3. PICK h : Sums(h, w) /\ Total(w) = h[n]
  BY TotalSums, Zenon
<1>4. /\ f \in [0..n -> Nat] /\ g \in [0..n -> Nat] /\ h \in [0..n -> Nat]
      /\ f[0] = 0 /\ g[0] = 0 /\ h[0] = 0
      /\ \A i \in 1..n : /\ f[i] = f[i - 1] + s[i] /\ g[i] = g[i - 1] + t[i]
                         /\ h[i] = h[i - 1] + w[i]
  BY <1>1, <1>2, <1>3, Zenon DEF Sums
<1>5. \A i \in 1..n : s[i] \in Nat /\ t[i] \in Nat /\ w[i] \in Nat
  OBVIOUS
<1> DEFINE S == {i \in 0..n : f[i] <= g[i] + h[i]}
<1>6. 0 \in S
  BY <1>4
<1>7. ASSUME NEW i \in 1..n, i - 1 \in S PROVE i \in S
  <2>1. /\ f[i - 1] \in Nat /\ g[i - 1] \in Nat /\ h[i - 1] \in Nat
        /\ f[i - 1] <= g[i - 1] + h[i - 1] /\ i \in 0..n
    BY <1>4, <1>7
  <2>2. f[i] = f[i - 1] + s[i] /\ g[i] = g[i - 1] + t[i] /\ h[i] = h[i - 1] + w[i]
    BY <1>4, Zenon
  <2>3. s[i] \in Nat /\ t[i] \in Nat /\ w[i] \in Nat /\ s[i] <= t[i] + w[i]
    BY <1>5, Zenon
  <2>4. f[i] <= g[i] + h[i]
    <3> DEFINE x == f[i - 1]  y == g[i - 1]  z == h[i - 1]  c == s[i]  d == t[i]  e == w[i]
    <3>1. /\ x \in Nat /\ y \in Nat /\ z \in Nat /\ c \in Nat /\ d \in Nat /\ e \in Nat
          /\ x <= y + z /\ c <= d + e
      BY <2>1, <2>3, Zenon
    <3>2. f[i] = x + c /\ g[i] = y + d /\ h[i] = z + e
      BY <2>2, Zenon
    <3> HIDE DEF x, y, z, c, d, e
    <3>3. x + c <= (y + d) + (z + e)
      BY <3>1
    <3> QED
      BY <3>2, <3>3, Zenon
  <2> QED
    BY <2>1, <2>4, Zenon
<1>8. 0..n \subseteq S
  <2> HIDE DEF S
  <2> QED
    BY <1>6, <1>7, CountUp, Zenon
<1>9. n \in 0..n
  OBVIOUS
<1> QED
  BY <1>1, <1>2, <1>3, <1>4, <1>8, <1>9

\* What one check can still charge a counter never exceeds the bound of one
\* descriptor and the costs its routes read from the query string, though
\* costViolation and engineRequests read the stated costs each on its own.
THEOREM ChargesBounded == CSpec => []ChargeBounded
<1>1. CheckInv => ChargeBounded
  <2> SUFFICES ASSUME CheckInv, NEW p \in Callers, NEW k \in Keys
               PROVE  Total(Charges(check[p].todo, k))
                         <= MaxHitsAddend + Total(OwnCosts(check[p].todo, k))
    BY Zenon DEF ChargeBounded
  <2> DEFINE todo == check[p].todo
             n == Len(todo)
             a == Charges(todo, k)  t == StatedCosts(todo)  w == OwnCosts(todo, k)
  <2>1. todo \in Seq(EngineRequest) /\ Total(t) <= MaxHitsAddend
    BY Zenon DEF CheckInv, HandlerInv
  <2> HIDE DEF todo
  <2>2. n \in Nat /\ DOMAIN todo = 1..n /\ \A i \in 1..n : todo[i] \in EngineRequest
    BY <2>1, Elements, Zenon
  <2>3. t \in Seq(Nat) /\ Len(t) = n /\ \A i \in 1..n : t[i] = Stated(todo[i])
    BY <2>1, StatedOf, Zenon
  <2>4. /\ a = [i \in 1..n |-> Charge(todo[i], k)]
        /\ w = [i \in 1..n |-> OwnCost(todo[i], k)]
    BY <2>2, Zenon DEF Charges, OwnCosts
  <2> HIDE DEF a, t, w, n
  <2>5. a \in [1..n -> Nat] /\ w \in [1..n -> Nat]
    BY <2>2, <2>4, ChargeStated, Zenon
  <2>6. a \in Seq(Nat) /\ Len(a) = n /\ w \in Seq(Nat) /\ Len(w) = n
    BY <2>2, <2>5
  <2>7. \A i \in 1..n : a[i] <= t[i] + w[i]
    <3> TAKE i \in 1..n
    <3>1. a[i] = Charge(todo[i], k) /\ t[i] = Stated(todo[i]) /\ w[i] = OwnCost(todo[i], k)
      BY <2>3, <2>4, Zenon
    <3>2. Charge(todo[i], k) <= Stated(todo[i]) + OwnCost(todo[i], k)
      BY <2>2, ChargeStated, Zenon
    <3> QED
      BY <3>1, <3>2, Zenon
  <2>8. Total(a) <= Total(t) + Total(w) /\ Total(a) \in Nat /\ Total(w) \in Nat
    BY <2>2, <2>3, <2>6, <2>7, TotalsBound, Zenon
  <2>9. Total(t) \in Nat
    BY <2>3, TotalAppend, Zenon
  <2>10. Total(a) <= MaxHitsAddend + Total(w)
    BY <2>1, <2>8, <2>9, CheckConstants
  <2> QED
    BY <2>10, Zenon DEF a, w, todo
<1> QED
  BY <1>1, CheckInit, CheckStep, PTL DEF CSpec

=============================================================================

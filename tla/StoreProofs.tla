---------------------------- MODULE StoreProofs -----------------------------
(***************************************************************************)
(* Both counter stores implement the contract, for every set of keys, all  *)
(* limits that validation accepts, every cost, period and clock.           *)
(***************************************************************************)
EXTENDS CounterStores, TLAPS

-----------------------------------------------------------------------------
(* The numbers of a window that passed validation, and what the constants  *)
(* say of a key and of a call.                                             *)

\* A window that passed validation has an emission interval of at least one
\* microsecond, rounded up by less than one part: requests intervals cover the
\* period and one microsecond less per interval would not.
LEMMA EmissionBounds ==
    ASSUME NEW w \in Window, w.requests >= 1, w.period >= 1
    PROVE  /\ EmissionMicros(w) \in Nat \ {0}
           /\ EmissionMicros(w) * w.requests >= w.period
           /\ (EmissionMicros(w) - 1) * w.requests < w.period
<1> DEFINE p == w.period  r == w.requests
           q == (p + r - 1) \div r
<1>1. p \in Int /\ r \in Int /\ r > 0 /\ p >= 1
  BY DEF Window
<1>2. q \in Int /\ q * r <= p + r - 1 /\ p + r - 1 < (q + 1) * r
  BY <1>1, SMT
<1>3. q >= 1
  <2>1. SUFFICES ASSUME q <= 0 PROVE FALSE
    BY <1>2
  <2>2. (q + 1) * r <= r
    BY <1>1, <1>2, <2>1, SMT
  <2> QED
    BY <1>1, <1>2, <2>2
<1>4. (q + 1) * r = q * r + r /\ (q - 1) * r = q * r - r
  BY <1>1, <1>2
<1> QED
  BY <1>1, <1>2, <1>3, <1>4 DEF EmissionMicros

\* Multiplication by a natural number is monotonic.
LEMMA TimesMonotonic ==
    ASSUME NEW a \in Int, NEW b \in Int, NEW c \in Nat, a <= b
    PROVE  a * c <= b * c /\ c * a <= c * b
OBVIOUS

\* What validation and the constants say of the windows of a key.
LEMMA WindowFacts ==
    ASSUME NEW k \in Keys
    PROVE  /\ AlgorithmOf[k] \in {"GCRA", "FixedWindow"}
           /\ PeriodOf[k] \in Int
           /\ \A l \in Limits[k] :
                 /\ PeriodOf[k] >= 1
                 /\ l \in [requests: Int, burst: Int]
                 /\ WindowOf(k, l) \in Window
                 /\ WindowOf(k, l).requests = l.requests
                 /\ WindowOf(k, l).period = PeriodOf[k]
                 /\ WindowOf(k, l).burst = l.burst
                 /\ l.requests >= 1
                 /\ EmissionMicros(WindowOf(k, l)) \in Nat \ {0}
                 /\ AlgorithmOf[k] = "GCRA" =>
                       l.burst >= 1 /\ TauMicros(WindowOf(k, l)) \in Nat
<1>1. AlgorithmOf[k] \in {"GCRA", "FixedWindow"} /\ PeriodOf[k] \in Int
  BY QuotaConstants, Zenon DEF AlgorithmNames
<1>2. ASSUME NEW l \in Limits[k]
      PROVE  /\ PeriodOf[k] >= 1
             /\ l \in [requests: Int, burst: Int]
             /\ WindowOf(k, l) \in Window
             /\ WindowOf(k, l).requests = l.requests
             /\ WindowOf(k, l).period = PeriodOf[k]
             /\ WindowOf(k, l).burst = l.burst
             /\ l.requests >= 1
             /\ EmissionMicros(WindowOf(k, l)) \in Nat \ {0}
             /\ AlgorithmOf[k] = "GCRA" =>
                   l.burst >= 1 /\ TauMicros(WindowOf(k, l)) \in Nat
  <2> DEFINE w == WindowOf(k, l)
  <2>1. l \in [requests: Int, burst: Int] /\ Check(AlgorithmOf[k], w)
    BY QuotaConstants, Zenon
  <2>2. w \in Window /\ w.requests = l.requests /\ w.period = PeriodOf[k] /\ w.burst = l.burst
    BY <1>1, <2>1, Zenon DEF WindowOf, Window
  <2>3. w.requests >= 1 /\ w.period >= 1
    BY <2>1, <2>2, AlgorithmConstants DEF Check, CheckCommon, Window
  <2>4. EmissionMicros(w) \in Nat \ {0}
    BY <2>2, <2>3, EmissionBounds, Zenon
  <2>5. ASSUME AlgorithmOf[k] = "GCRA"
        PROVE  w.burst >= 1 /\ TauMicros(w) \in Nat
    <3>1. w.burst >= 1 /\ w.burst \in Nat
      BY <2>1, <2>2, <2>5 DEF Check, ValidateGCRA, Window
    <3> QED
      BY <3>1, <2>4 DEF TauMicros
  <2> QED
    BY <2>1, <2>2, <2>3, <2>4, <2>5, Zenon
<1> QED
  BY <1>1, <1>2, Zenon

\* What the constants say of a call.
LEMMA CallFacts ==
    ASSUME NEW b \in Calls, NEW k \in DOMAIN b
    PROVE  /\ k \in Keys
           /\ b[k].limit \in Limits[k]
           /\ b[k].shadow \in BOOLEAN
           /\ b[k].cost \in Int
<1>1. k \in Keys /\ b[k] \in Bucket(k) /\ Costs \subseteq Int
  BY QuotaConstants, Zenon
<1> QED
  BY <1>1, Zenon DEF Bucket


\* The contract's operators on windows are the stores' own.
LEMMA SameWindows ==
    /\ \A k, l : Contract!WindowOf(k, l) = WindowOf(k, l)
    /\ \A w : Contract!EmissionMicros(w) = EmissionMicros(w)
    /\ \A w : Contract!TauMicros(w) = TauMicros(w)
    /\ \A x : Contract!NonNegative(x) = NonNegative(x)
BY Zenon DEF Contract!WindowOf, WindowOf, Contract!EmissionMicros, EmissionMicros,
       Contract!TauMicros, TauMicros, Contract!NonNegative, NonNegative

-----------------------------------------------------------------------------
\* A value the script has written for a key: of the key's own algorithm, and not
\* expired before its debt is over.
Value == [form: {"nil", "tat", "start:count"}, a: Nat, b: Nat, expires: Nat]

SoundValue(k, v) ==
    \/ v.form = "nil"
    \/ /\ v.form = "tat"
       /\ AlgorithmOf[k] = "GCRA"
       /\ v.a < (v.expires + 1) * MicrosPerMilli
    \/ /\ v.form = "start:count"
       /\ AlgorithmOf[k] = "FixedWindow"
       /\ PeriodOf[k] >= 1
       /\ v.a <= now
       /\ v.a + PeriodOf[k] < (v.expires + 1) * MicrosPerMilli

RedisInv ==
    /\ now \in Nat
    /\ deleting \subseteq Keys
    /\ db \in [Keys -> Value]
    /\ \A k \in Keys : SoundValue(k, db[k])

\* What a value says at time t, in the contract's terms.
DebtIn(k, v, t) ==
    CASE v.form = "tat" -> NonNegative(v.a - t)
      [] v.form = "start:count" -> IF v.a = t - (t % PeriodOf[k]) THEN v.b ELSE 0
      [] OTHER -> 0

\* Division by a positive number, from both sides.
LEMMA DivFacts ==
    ASSUME NEW x \in Nat, NEW y \in Nat \ {0}
    PROVE  /\ x \div y \in Nat
           /\ (x \div y) * y <= x
           /\ x < (x \div y + 1) * y
OBVIOUS

\* A time to live rounded up does not end before the time it was given: x
\* microseconds from now end within the millisecond of expiry.
LEMMA ExpiryCovers ==
    ASSUME NEW t \in Nat, NEW x \in Nat
    PROVE  LET e == t \div MicrosPerMilli + Ceil(x, MicrosPerMilli)
           IN e \in Nat /\ t + x < (e + 1) * MicrosPerMilli
<1> DEFINE mm == MicrosPerMilli
           q == t \div mm
           y == x + mm - 1
           c == y \div mm
<1>1. mm \in Nat \ {0} /\ y \in Nat
  BY MilliAssumption
<1>2. q \in Nat /\ q * mm <= t /\ t < (q + 1) * mm
  BY <1>1, DivFacts, Zenon
<1>3. c \in Nat /\ y < (c + 1) * mm
  BY <1>1, DivFacts, Zenon
<1>4. Ceil(x, mm) = c
  BY Zenon DEF Ceil
<1> HIDE DEF q, c, mm
<1>5. /\ (q + 1) * mm = q * mm + mm
      /\ (c + 1) * mm = c * mm + mm
      /\ (q + c + 1) * mm = q * mm + c * mm + mm
      /\ q * mm \in Nat /\ c * mm \in Nat
  BY <1>1, <1>2, <1>3
<1>6. t + x < (q + c + 1) * mm
  BY <1>1, <1>2, <1>3, <1>5 DEF y
<1> QED
  BY <1>2, <1>3, <1>4, <1>6 DEF q, mm

\* What the script reads of a key, expired or not, is the debt the contract has
\* it owe.
LEMMA RedisReads ==
    ASSUME RedisInv, NEW k \in Keys
    PROVE  /\ DebtOf(k) \in Nat
           /\ DebtOf(k) = DebtIn(k, db[k], now)
           /\ AlgorithmOf[k] = "GCRA" =>
                 (IF Get(k).form = "tat" /\ Get(k).a > now THEN Get(k).a ELSE now)
                     = now + DebtOf(k)
           /\ AlgorithmOf[k] = "FixedWindow" =>
                 (IF Get(k).form = "start:count" /\ Get(k).a = now - (now % PeriodOf[k])
                  THEN Get(k).b ELSE 0) = DebtOf(k)
<1> DEFINE v == db[k]
           mm == MicrosPerMilli
           q == now \div mm
<1>1. /\ now \in Nat /\ v \in Value /\ SoundValue(k, v)
      /\ AlgorithmOf[k] \in {"GCRA", "FixedWindow"} /\ PeriodOf[k] \in Int
  BY WindowFacts, Zenon DEF RedisInv
<1>2. mm \in Nat \ {0} /\ q \in Nat /\ q * mm <= now
  BY <1>1, MilliAssumption, DivFacts, Zenon
<1>3. /\ v.form \in {"nil", "tat", "start:count"}
      /\ v.a \in Nat /\ v.b \in Nat /\ v.expires \in Nat
  BY <1>1, Zenon DEF Value
<1>4. DebtOf(k) = DebtIn(k, v, now) /\ DebtIn(k, v, now) \in Nat
  BY <1>1, <1>3 DEF DebtOf, DebtIn, NonNegative
<1>5. ASSUME q > v.expires
      PROVE  (v.expires + 1) * mm <= now
  <2> HIDE DEF q, mm
  <2>1. v.expires + 1 <= q /\ v.expires + 1 \in Int
    BY <1>2, <1>3, <1>5
  <2>2. (v.expires + 1) * mm <= q * mm
    BY <1>2, <2>1, TimesMonotonic
  <2> QED
    BY <1>1, <1>2, <1>3, <2>1, <2>2
<1>6. Nil.form = "nil" /\ Nil.a = 0 /\ Nil.b = 0
  BY Zenon DEF Nil
<1>7. Get(k) = IF v.form # "nil" /\ q <= v.expires THEN v ELSE Nil
  BY Zenon DEF Get
<1> HIDE DEF v, q, mm
<1>8. ASSUME AlgorithmOf[k] = "GCRA"
      PROVE  (IF Get(k).form = "tat" /\ Get(k).a > now THEN Get(k).a ELSE now)
                 = now + DebtIn(k, v, now)
  <2>1. CASE v.form = "tat" /\ q <= v.expires
    BY <1>1, <1>3, <1>7, <2>1 DEF DebtIn, NonNegative
  <2>2. CASE v.form = "tat" /\ q > v.expires
    <3>1. v.a < (v.expires + 1) * mm /\ (v.expires + 1) * mm <= now
      BY <1>1, <1>5, <2>2, Zenon DEF SoundValue, mm
    <3>2. v.a <= now
      BY <1>1, <1>2, <1>3, <3>1
    <3> QED
      BY <1>1, <1>2, <1>3, <1>6, <1>7, <2>2, <3>2 DEF DebtIn, NonNegative
  <2>3. CASE v.form = "nil"
    BY <1>1, <1>6, <1>7, <2>3 DEF DebtIn
  <2> QED
    BY <1>1, <1>2, <1>3, <1>8, <2>1, <2>2, <2>3 DEF SoundValue
<1>9. ASSUME AlgorithmOf[k] = "FixedWindow"
      PROVE  (IF Get(k).form = "start:count" /\ Get(k).a = now - (now % PeriodOf[k])
              THEN Get(k).b ELSE 0) = DebtIn(k, v, now)
  <2>1. CASE v.form = "start:count" /\ q <= v.expires
    BY <1>7, <2>1, Zenon DEF DebtIn
  <2>2. CASE v.form = "start:count" /\ q > v.expires
    <3>1. /\ v.a + PeriodOf[k] < (v.expires + 1) * mm /\ (v.expires + 1) * mm <= now
          /\ PeriodOf[k] >= 1
      BY <1>1, <1>5, <2>2, Zenon DEF SoundValue, mm
    <3>2. v.a + PeriodOf[k] < now
      BY <1>1, <1>2, <1>3, <3>1
    <3>3. now % PeriodOf[k] < PeriodOf[k] /\ now % PeriodOf[k] \in Nat
      BY <1>1, <3>1
    <3>4. v.a # now - (now % PeriodOf[k])
      BY <1>1, <1>3, <3>2, <3>3
    <3> QED
      BY <1>1, <1>2, <1>3, <1>6, <1>7, <2>2, <3>4, Zenon DEF DebtIn
  <2>3. CASE v.form = "nil"
    BY <1>6, <1>7, <2>3, Zenon DEF DebtIn
  <2> QED
    BY <1>1, <1>2, <1>3, <1>9, <2>1, <2>2, <2>3 DEF SoundValue
<1> QED
  BY <1>4, <1>8, <1>9, Zenon DEF v

\* What either side tells of one bucket; the client's normalisation of durations
\* (microsDuration) leaves it alone.
Told == [allowed: BOOLEAN, exceeds: BOOLEAN, remaining: Int, retry: Nat \cup {-1}, reset: Nat]

\* Durations told by the script survive their parsing.
LEMMA ParsedAsTold ==
    ASSUME NEW v \in Told
    PROVE  [v EXCEPT !.retry = MicrosDuration(@), !.reset = MicrosDuration(@)] = v
<1>1. v.retry \in Nat \cup {-1} /\ v.reset \in Nat
  BY Zenon DEF Told
<1>2. MicrosDuration(v.retry) = v.retry /\ MicrosDuration(v.reset) = v.reset
  BY <1>1 DEF MicrosDuration
<1> QED
  BY <1>2, Zenon DEF Told

\* The first pass over one bucket agrees with the contract's judgement.
Agrees(o, j) ==
    /\ o.reply = j.current
    /\ [allowed |-> TRUE, exceeds |-> FALSE, remaining |-> o.rc, retry |-> -1, reset |-> o.sc]
           = j.charged
    /\ j.current \in Told
    /\ j.charged \in Told
    /\ j.next \in Nat

\* The script's GCRA branch, on a state that says d.
LEMMA LeakyScript ==
    ASSUME NEW k \in Keys, NEW l \in Limits[k], AlgorithmOf[k] = "GCRA",
           NEW d \in Nat, NEW c \in Nat, NEW s, now \in Nat,
           (IF s.form = "tat" /\ s.a > now THEN s.a ELSE now) = now + d
    PROVE  LET w == WindowOf(k, l)
               o == ScriptGCRA(s, c, EmissionMicros(w), TauMicros(w), w.burst)
               j == Contract!Judge(k, l, d, c, now)
           IN /\ Agrees(o, j)
              /\ o.next = SetPX("tat", now + j.next, 0, Ceil(j.next, MicrosPerMilli))
<1> DEFINE w == WindowOf(k, l)
           e == EmissionMicros(w)
           tau == TauMicros(w)
           burst == w.burst
           o == ScriptGCRA(s, c, e, tau, burst)
           j == Contract!Judge(k, l, d, c, now)
           inc == e * c
           left == tau - d - inc
           exceeds == c > burst
           allowed == ~exceeds /\ left >= 0
           remaining == NonNegative((tau - d) \div e)
           retry == IF allowed \/ exceeds THEN -1 ELSE -left
           current == [allowed |-> allowed, exceeds |-> exceeds, remaining |-> remaining,
                       retry |-> retry, reset |-> d]
           charged == [allowed |-> TRUE, exceeds |-> FALSE, remaining |-> left \div e,
                       retry |-> -1, reset |-> d + inc]
<1>1. e \in Nat \ {0} /\ tau \in Nat /\ burst \in Int /\ AlgorithmOf[k] # "FixedWindow"
  BY WindowFacts, Zenon DEF Window
<1>2. inc \in Nat
  BY <1>1
<1>3. j = [current |-> current, charged |-> charged, next |-> d + inc]
  BY SameWindows, Zenon DEF Contract!Judge, Contract!JudgeLeaky
<1>4. /\ d + inc \in Nat /\ left \in Int
      /\ left \div e \in Int /\ (tau - d) \div e \in Int
  BY <1>1, <1>2
<1>5. o = [reply |-> current, rc |-> left \div e, sc |-> d + inc,
           next |-> SetPX("tat", now + (d + inc), 0, Ceil(d + inc, MicrosPerMilli))]
  <2> HIDE DEF e, tau, burst
  <2> DEFINE tat == IF s.form = "tat" /\ s.a > now THEN s.a ELSE now
  <2>1. tat = now + d
    BY Zenon
  <2> HIDE DEF tat
  <2>2. /\ tat - now = d
        /\ now - ((tat + e * c) - tau) = left
        /\ (tat + e * c) - now = d + inc
        /\ tat + e * c = now + (d + inc)
    BY <1>1, <1>2, <2>1
  <2>3. retry = IF exceeds \/ allowed THEN -1 ELSE -left
    BY Zenon
  <2>4. o = [reply |-> [allowed   |-> ~(c > burst) /\ now - ((tat + e * c) - tau) >= 0,
                        exceeds   |-> c > burst,
                        remaining |-> NonNegative((tau - (tat - now)) \div e),
                        retry     |-> IF c > burst \/ (~(c > burst) /\ now - ((tat + e * c) - tau) >= 0)
                                      THEN -1 ELSE -(now - ((tat + e * c) - tau)),
                        reset     |-> tat - now],
             rc |-> (now - ((tat + e * c) - tau)) \div e,
             sc |-> (tat + e * c) - now,
             next |-> SetPX("tat", tat + e * c, 0, Ceil((tat + e * c) - now, MicrosPerMilli))]
    BY Zenon DEF ScriptGCRA, tat
  <2> HIDE DEF o, left, inc
  <2> QED
    BY <2>2, <2>3, <2>4, Zenon
<1>6. allowed \in BOOLEAN /\ exceeds \in BOOLEAN /\ retry \in Nat \cup {-1}
      /\ remaining \in Int
  <2>1. remaining \in Int /\ left \in Int
    BY <1>4 DEF NonNegative
  <2> HIDE DEF left, remaining
  <2>2. allowed \/ exceeds \/ -left \in Nat
    BY <2>1
  <2> HIDE DEF allowed, exceeds
  <2>3. retry \in Nat \cup {-1}
    BY <2>2, Zenon
  <2> QED
    BY <2>1, <2>3 DEF allowed, exceeds
<1> HIDE DEF left, exceeds, allowed, remaining, retry, inc, e
<1>7. current \in Told /\ charged \in Told
  BY <1>4, <1>6, Zenon DEF Told
<1> HIDE DEF current, charged, j, o
<1>8. o.reply = current /\ o.rc = left \div e /\ o.sc = d + inc
      /\ o.next = SetPX("tat", now + (d + inc), 0, Ceil(d + inc, MicrosPerMilli))
  BY <1>5, Zenon
<1>9. j.current = current /\ j.charged = charged /\ j.next = d + inc
  BY <1>3, Zenon
<1>10. Agrees(o, j)
  BY <1>4, <1>7, <1>8, <1>9, Zenon DEF Agrees, charged
<1> QED
  BY <1>8, <1>9, <1>10, Zenon DEF o, j, e, tau, burst

\* The script's fixed window, likewise.
LEMMA FixedScript ==
    ASSUME NEW k \in Keys, NEW l \in Limits[k], AlgorithmOf[k] = "FixedWindow",
           NEW d \in Nat, NEW c \in Nat, NEW s, now \in Nat,
           (IF s.form = "start:count" /\ s.a = now - (now % PeriodOf[k]) THEN s.b ELSE 0) = d
    PROVE  LET w == WindowOf(k, l)
               o == ScriptFixed(s, c, w.period, w.requests)
               j == Contract!Judge(k, l, d, c, now)
               start == now - (now % PeriodOf[k])
           IN /\ Agrees(o, j)
              /\ o.next = SetPX("start:count", start, j.next,
                                Ceil(start + PeriodOf[k] - now, MicrosPerMilli))
<1> DEFINE w == WindowOf(k, l)
           requests == w.requests
           period == w.period
           o == ScriptFixed(s, c, period, requests)
           j == Contract!Judge(k, l, d, c, now)
           start == now - (now % PeriodOf[k])
           boundary == start + PeriodOf[k] - now
           left == NonNegative(requests - d)
           exceeds == c > requests
           allowed == c <= left
           retry == IF allowed \/ exceeds THEN -1 ELSE boundary
           reset == IF d = 0 THEN 0 ELSE boundary
           current == [allowed |-> allowed, exceeds |-> exceeds, remaining |-> left,
                       retry |-> retry, reset |-> reset]
           charged == [allowed |-> TRUE, exceeds |-> FALSE, remaining |-> left - c,
                       retry |-> -1, reset |-> boundary]
<1>1. requests \in Int /\ period = PeriodOf[k] /\ PeriodOf[k] \in Int /\ PeriodOf[k] >= 1
  BY WindowFacts, Zenon DEF Window
<1>2. now % PeriodOf[k] \in Nat /\ now % PeriodOf[k] < PeriodOf[k]
  BY <1>1
<1>3. boundary \in Nat /\ Contract!ToBoundary(k, now) = boundary
  BY <1>1, <1>2 DEF Contract!ToBoundary
<1>4. j = [current |-> current, charged |-> charged, next |-> d + c]
  <2>1. j = Contract!JudgeWindow(w, d, c, boundary)
    BY <1>3, SameWindows, Zenon DEF Contract!Judge
  <2> HIDE DEF boundary, j
  <2> QED
    BY <2>1, SameWindows, Zenon DEF Contract!JudgeWindow
<1>5. o = [reply |-> current, rc |-> left - c, sc |-> boundary,
           next |-> SetPX("start:count", start, d + c, Ceil(boundary, MicrosPerMilli))]
  <2> HIDE DEF period, requests
  <2> QED
    BY <1>1, Zenon DEF ScriptFixed
<1>6. /\ allowed \in BOOLEAN /\ exceeds \in BOOLEAN /\ retry \in Nat \cup {-1}
      /\ left \in Int /\ left - c \in Int /\ reset \in Nat
  <2> HIDE DEF boundary
  <2> QED
    BY <1>1, <1>3 DEF NonNegative
<1> HIDE DEF left, exceeds, allowed, retry, reset, boundary, start
<1>7. current \in Told /\ charged \in Told
  BY <1>3, <1>6, Zenon DEF Told
<1> HIDE DEF current, charged, j, o
<1>8. o.reply = current /\ o.rc = left - c /\ o.sc = boundary
      /\ o.next = SetPX("start:count", start, d + c, Ceil(boundary, MicrosPerMilli))
  BY <1>5, Zenon
<1>9. j.current = current /\ j.charged = charged /\ j.next = d + c
  BY <1>4, Zenon
<1>10. Agrees(o, j)
  BY <1>7, <1>8, <1>9 DEF Agrees, charged
<1> QED
  BY <1>8, <1>9, <1>10, Zenon DEF o, j, period, requests, start, boundary

\* A new value is sound, and says what it was written for.
LEMMA LeakyWritten ==
    ASSUME now \in Nat, NEW k \in Keys, AlgorithmOf[k] = "GCRA", NEW n \in Nat
    PROVE  LET v == SetPX("tat", now + n, 0, Ceil(n, MicrosPerMilli))
           IN v \in Value /\ SoundValue(k, v) /\ DebtIn(k, v, now) = n
<1> DEFINE e == now \div MicrosPerMilli + Ceil(n, MicrosPerMilli)
           v == [form |-> "tat", a |-> now + n, b |-> 0, expires |-> e]
<1>1. e \in Nat /\ now + n < (e + 1) * MicrosPerMilli
  BY ExpiryCovers, Zenon
<1>2. SetPX("tat", now + n, 0, Ceil(n, MicrosPerMilli)) = v
  BY Zenon DEF SetPX
<1> HIDE DEF e
<1>3. v \in Value /\ SoundValue(k, v)
  BY <1>1 DEF Value, SoundValue
<1>4. DebtIn(k, v, now) = NonNegative((now + n) - now)
  BY Zenon DEF DebtIn
<1>5. NonNegative((now + n) - now) = n
  BY DEF NonNegative
<1> QED
  BY <1>2, <1>3, <1>4, <1>5, Zenon

\* What the script writes for a fixed window carries its debt.
LEMMA FixedWritten ==
    ASSUME now \in Nat, NEW k \in Keys, AlgorithmOf[k] = "FixedWindow",
           PeriodOf[k] \in Int, PeriodOf[k] >= 1, NEW n \in Nat
    PROVE  LET start == now - (now % PeriodOf[k])
               v == SetPX("start:count", start, n,
                          Ceil(start + PeriodOf[k] - now, MicrosPerMilli))
           IN v \in Value /\ SoundValue(k, v) /\ DebtIn(k, v, now) = n
<1> DEFINE start == now - (now % PeriodOf[k])
           left == start + PeriodOf[k] - now
           e == now \div MicrosPerMilli + Ceil(left, MicrosPerMilli)
           v == [form |-> "start:count", a |-> start, b |-> n, expires |-> e]
<1>1. start \in Nat /\ start <= now /\ left \in Nat /\ now + left = start + PeriodOf[k]
  <2>1. now % PeriodOf[k] \in Nat /\ now % PeriodOf[k] < PeriodOf[k] /\ now % PeriodOf[k] <= now
    OBVIOUS
  <2> QED
    BY <2>1
<1>2. e \in Nat /\ now + left < (e + 1) * MicrosPerMilli
  BY <1>1, ExpiryCovers, Zenon
<1>3. SetPX("start:count", start, n, Ceil(left, MicrosPerMilli)) = v
  BY Zenon DEF SetPX
<1>4. DebtIn(k, v, now) = n
  BY Zenon DEF DebtIn
<1> HIDE DEF e, left, start
<1>5. v \in Value
  BY <1>1, <1>2, Zenon DEF Value
<1>6. SoundValue(k, v)
  BY <1>1, <1>2, Zenon DEF SoundValue
<1> QED
  BY <1>3, <1>4, <1>5, <1>6, Zenon DEF start, left

\* The first pass over every bucket of a call.
LEMMA PassFacts ==
    ASSUME RedisInv, NEW b \in Calls, Guard(b), NEW k \in DOMAIN b
    PROVE  LET o == FirstPass(b)[k]
               j == Contract!JudgeAll(b)[k]
           IN /\ k \in Keys
              /\ Agrees(o, j)
              /\ o.next \in Value
              /\ SoundValue(k, o.next)
              /\ DebtIn(k, o.next, now) = j.next
<1> DEFINE l == b[k].limit
           c == b[k].cost
           d == DebtOf(k)
           w == WindowOf(k, l)
           j == Contract!Judge(k, l, d, c, now)
<1>1. k \in Keys /\ l \in Limits[k] /\ c \in Nat /\ now \in Nat
  BY CallFacts DEF Guard, RedisInv
<1>2. Contract!JudgeAll(b)[k] = j
  BY <1>1, Zenon DEF Contract!JudgeAll
<1>3. /\ d \in Nat
      /\ AlgorithmOf[k] = "GCRA" =>
            (IF Get(k).form = "tat" /\ Get(k).a > now THEN Get(k).a ELSE now) = now + d
      /\ AlgorithmOf[k] = "FixedWindow" =>
            (IF Get(k).form = "start:count" /\ Get(k).a = now - (now % PeriodOf[k])
             THEN Get(k).b ELSE 0) = d
  BY <1>1, RedisReads, Zenon
<1>4. AlgorithmOf[k] \in {"GCRA", "FixedWindow"} /\ PeriodOf[k] \in Int /\ PeriodOf[k] >= 1
  BY <1>1, WindowFacts, Zenon
<1> HIDE DEF l, c, d, j
<1>5. CASE AlgorithmOf[k] = "GCRA"
  <2> DEFINE o == ScriptGCRA(Get(k), c, EmissionMicros(w), TauMicros(w), w.burst)
  <2>1. FirstPass(b)[k] = o
    BY <1>5, Zenon DEF FirstPass, l, c
  <2>2. /\ Agrees(o, j)
        /\ o.next = SetPX("tat", now + j.next, 0, Ceil(j.next, MicrosPerMilli))
    BY <1>1, <1>3, <1>5, LeakyScript DEF j
  <2>3. j.next \in Nat
    BY <2>2, Zenon DEF Agrees
  <2> HIDE DEF o
  <2>4. o.next \in Value /\ SoundValue(k, o.next) /\ DebtIn(k, o.next, now) = j.next
    BY <1>1, <1>5, <2>2, <2>3, LeakyWritten, Zenon
  <2> QED
    BY <1>1, <1>2, <2>1, <2>2, <2>4, Zenon
<1>6. CASE AlgorithmOf[k] = "FixedWindow"
  <2> DEFINE o == ScriptFixed(Get(k), c, w.period, w.requests)
             start == now - (now % PeriodOf[k])
  <2>1. FirstPass(b)[k] = o
    BY <1>6, Zenon DEF FirstPass, l, c
  <2>2. /\ Agrees(o, j)
        /\ o.next = SetPX("start:count", start, j.next,
                          Ceil(start + PeriodOf[k] - now, MicrosPerMilli))
    BY <1>1, <1>3, <1>6, FixedScript DEF j
  <2>3. j.next \in Nat
    BY <2>2, Zenon DEF Agrees
  <2> HIDE DEF o
  <2>4. o.next \in Value /\ SoundValue(k, o.next) /\ DebtIn(k, o.next, now) = j.next
    BY <1>1, <1>4, <1>6, <2>2, <2>3, FixedWritten, Zenon
  <2> QED
    BY <1>1, <1>2, <2>1, <2>2, <2>4, Zenon
<1> QED
  BY <1>4, <1>5, <1>6, Zenon

\* The contract's guard and its rule of admission are the store's.
LEMMA SameGuards ==
    /\ \A b : Contract!Guard(b) <=> Guard(b)
    /\ \A b, verdicts : Contract!Admitted(b, verdicts) <=> Admitted(b, verdicts)
    /\ Contract!NoAnswer = NoAnswer
BY Zenon DEF Contract!Guard, Guard, Contract!Admitted, Admitted, Contract!NoAnswer, NoAnswer

\* The commit pass writes the buckets that the contract charges.
LEMMA RedisCharges ==
    ASSUME RedisInv, NEW b \in Calls, Guard(b)
    PROVE  Writes(b, FirstPass(b)) = Contract!Charged(b, Contract!JudgeAll(b))
<1> DEFINE pass == FirstPass(b)
           outs == Contract!JudgeAll(b)
           cur == Contract!Current(outs)
<1>1. DOMAIN outs = DOMAIN b
  BY Zenon DEF Contract!JudgeAll
<1>2. \A k \in DOMAIN b : pass[k].reply = outs[k].current
  BY PassFacts, Zenon DEF Agrees
<1>3. \A k \in DOMAIN b : cur[k] = outs[k].current
  BY <1>1, Zenon DEF Contract!Current
<1> HIDE DEF pass, outs, cur
<1>4. Contract!Admitted(b, cur) <=> \A j \in DOMAIN b : b[j].shadow \/ pass[j].reply.allowed
  BY <1>2, <1>3, Zenon DEF Contract!Admitted
<1>5. Contract!Charged(b, outs) = {k \in DOMAIN b : Contract!Admitted(b, cur) /\ outs[k].current.allowed}
  BY Zenon DEF Contract!Charged, cur
<1>6. Writes(b, pass) = {k \in DOMAIN b : /\ \A j \in DOMAIN b : b[j].shadow \/ pass[j].reply.allowed
                                          /\ pass[k].reply.allowed}
  BY Zenon DEF Writes
<1> QED
  BY <1>2, <1>4, <1>5, <1>6, Zenon DEF pass, outs

\* A decision of the script is a decision of the contract.
LEMMA RedisDecide ==
    ASSUME RedisInv, NEW b \in Calls, Decide(b)
    PROVE  Contract!Decide(b) /\ RedisInv'
<1> DEFINE pass == FirstPass(b)
           outs == Contract!JudgeAll(b)
           hit == Writes(b, pass)
           reply == [k \in DOMAIN b |->
                       IF k \in hit
                       THEN [allowed |-> TRUE, exceeds |-> FALSE, remaining |-> pass[k].rc,
                             retry |-> -1, reset |-> pass[k].sc]
                       ELSE pass[k].reply]
           told == [k \in DOMAIN b |-> IF k \in hit THEN outs[k].charged ELSE outs[k].current]
<1>1. /\ Guard(b) /\ now' = now /\ deleting' = deleting
      /\ db' = [k \in Keys |-> IF k \in hit THEN pass[k].next ELSE db[k]]
      /\ answer' \in {ParseReply(reply), NoAnswer}
  BY Zenon DEF Decide
<1>2. \A k \in DOMAIN b :
         /\ k \in Keys /\ Agrees(pass[k], outs[k])
         /\ pass[k].next \in Value /\ SoundValue(k, pass[k].next)
         /\ DebtIn(k, pass[k].next, now) = outs[k].next
  BY <1>1, PassFacts, Zenon
<1>3. hit = Contract!Charged(b, outs) /\ hit \subseteq DOMAIN b
  BY <1>1, RedisCharges, Zenon DEF Writes
<1>4. RedisInv'
  <2> HIDE DEF hit, pass
  <2>1. ASSUME NEW k \in Keys
        PROVE  db'[k] \in Value /\ SoundValue(k, db'[k])
    BY <1>1, <1>2, <1>3, Zenon DEF RedisInv
  <2>2. \A k \in Keys : SoundValue(k, db[k])'
    BY <1>1, <2>1, Zenon DEF SoundValue
  <2>3. db' \in [Keys -> Value]
    BY <1>1, <2>1, Zenon
  <2> QED
    BY <1>1, <2>2, <2>3, Zenon DEF RedisInv
<1>5. ParseReply(reply) = told
  <2>1. ASSUME NEW k \in DOMAIN b
        PROVE  reply[k] = told[k] /\ told[k] \in Told
    <3> HIDE DEF hit, pass, outs
    <3> QED
      BY <1>2, Zenon DEF Agrees
  <2>2. DOMAIN reply = DOMAIN b /\ DOMAIN told = DOMAIN b
    BY Zenon
  <2>3. told = [k \in DOMAIN b |-> told[k]]
    BY Zenon
  <2> HIDE DEF reply, told
  <2>4. ParseReply(reply) = [k \in DOMAIN b |->
           [reply[k] EXCEPT !.retry = MicrosDuration(@), !.reset = MicrosDuration(@)]]
    BY <2>2, Zenon DEF ParseReply
  <2>5. \A k \in DOMAIN b :
           [reply[k] EXCEPT !.retry = MicrosDuration(@), !.reset = MicrosDuration(@)] = told[k]
    BY <2>1, ParsedAsTold, Zenon
  <2> QED
    BY <2>3, <2>4, <2>5, Zenon
<1>6. ASSUME NEW k \in Keys
      PROVE  DebtOf(k)' = IF k \in hit THEN outs[k].next ELSE DebtOf(k)
  <2> HIDE DEF hit, pass, outs
  <2>1. DebtOf(k)' = DebtIn(k, db'[k], now)
    BY <1>1, Zenon DEF DebtOf, DebtIn
  <2>2. DebtOf(k) = DebtIn(k, db[k], now)
    BY Zenon DEF DebtOf, DebtIn
  <2>3. db'[k] = IF k \in hit THEN pass[k].next ELSE db[k]
    BY <1>1, Zenon
  <2> QED
    BY <1>2, <1>3, <2>1, <2>2, <2>3, Zenon
<1>7. [k \in Keys |-> DebtOf(k)]' =
        [k \in Keys |-> IF k \in hit THEN outs[k].next ELSE [j \in Keys |-> DebtOf(j)][k]]
  <2> HIDE DEF hit, outs
  <2> QED
    BY <1>6, Zenon
<1>8. Contract!Decide(b)
  <2> HIDE DEF hit, outs, reply, pass
  <2> QED
    BY <1>1, <1>3, <1>5, <1>7, SameGuards, Zenon DEF Contract!Decide, outs
<1> QED
  BY <1>4, <1>8, Zenon

\* A peek answers what the contract's does.
LEMMA RedisPeek ==
    ASSUME RedisInv, NEW b \in Calls, Peek(b)
    PROVE  Contract!Peek(b) /\ RedisInv'
<1> DEFINE pass == FirstPass(b)
           outs == Contract!JudgeAll(b)
           reply == [k \in DOMAIN b |-> pass[k].reply]
           told == Contract!Current(outs)
<1>1. /\ Guard(b) /\ now' = now /\ deleting' = deleting /\ db' = db
      /\ answer' \in {ParseReply(reply), NoAnswer}
  BY Zenon DEF Peek
<1>2. \A k \in DOMAIN b : Agrees(pass[k], outs[k])
  BY <1>1, PassFacts, Zenon
<1>3. told = [k \in DOMAIN b |-> outs[k].current]
  BY Zenon DEF Contract!Current, Contract!JudgeAll
<1>4. ParseReply(reply) = told
  <2> HIDE DEF pass, outs, told
  <2>1. \A k \in DOMAIN b : reply[k] = outs[k].current /\ reply[k] \in Told
    BY <1>2, Zenon DEF Agrees
  <2>2. DOMAIN reply = DOMAIN b
    BY Zenon
  <2> HIDE DEF reply
  <2>3. ParseReply(reply) = [k \in DOMAIN b |->
           [reply[k] EXCEPT !.retry = MicrosDuration(@), !.reset = MicrosDuration(@)]]
    BY <2>2, Zenon DEF ParseReply
  <2>4. \A k \in DOMAIN b :
           [reply[k] EXCEPT !.retry = MicrosDuration(@), !.reset = MicrosDuration(@)]
               = outs[k].current
    BY <2>1, ParsedAsTold, Zenon
  <2> QED
    BY <1>3, <2>3, <2>4, Zenon
<1>5. [k \in Keys |-> DebtOf(k)]' = [k \in Keys |-> DebtOf(k)]
  BY <1>1, Zenon DEF DebtOf
<1>6. RedisInv'
  BY <1>1, Zenon DEF RedisInv, SoundValue
<1>7. Contract!Peek(b)
  <2> HIDE DEF reply, told
  <2> QED
    BY <1>1, <1>4, <1>5, SameGuards, Zenon DEF Contract!Peek, told
<1> QED
  BY <1>6, <1>7

\* The calendar window of a microsecond later.
LEMMA NextMicro ==
    ASSUME NEW t \in Nat, NEW p \in Int, p >= 1
    PROVE  /\ t % p \in 0..(p - 1)
           /\ (t + 1) % p = IF t % p = p - 1 THEN 0 ELSE (t % p) + 1
<1> DEFINE q == t \div p
           r == t % p
<1>1. q \in Int /\ r \in 0..(p - 1) /\ t = p * q + r
  BY SMT
<1> HIDE DEF q, r
<1>2. CASE r = p - 1
  <2>1. t + 1 = p * (q + 1)
    BY <1>1, <1>2
  <2>2. (p * (q + 1)) % p = 0
    BY <1>1, SMT
  <2> QED
    BY <1>1, <1>2, <2>1, <2>2, Zenon DEF r
<1>3. CASE r # p - 1
  <2>1. t + 1 = p * q + (r + 1) /\ r + 1 \in 0..(p - 1)
    BY <1>1, <1>3
  <2>2. (p * q + (r + 1)) % p = r + 1
    BY <1>1, <2>1, SMT
  <2> QED
    BY <1>1, <1>3, <2>1, <2>2, Zenon DEF r
<1> QED
  BY <1>2, <1>3, Zenon

\* Time takes from a value what it takes from the contract's debt.
LEMMA RedisTick ==
    ASSUME RedisInv, Tick
    PROVE  Contract!Tick /\ RedisInv'
<1>1. /\ now \in Nat /\ now < MaxTime /\ now' = now + 1
      /\ db' = db /\ answer' = answer /\ deleting' = deleting
  BY Zenon DEF Tick, RedisInv
<1>2. RedisInv'
  <2>1. ASSUME NEW k \in Keys
        PROVE  SoundValue(k, db[k])'
    <3>1. SoundValue(k, db[k]) /\ db[k] \in Value
      BY Zenon DEF RedisInv
    <3>2. db[k].a \in Nat
      BY <3>1, Zenon DEF Value
    <3> QED
      BY <1>1, <3>1, <3>2 DEF SoundValue
  <2> QED
    BY <1>1, <2>1 DEF RedisInv
<1>3. ASSUME NEW k \in Keys
      PROVE  DebtOf(k)' = Contract!Idle(k, DebtOf(k), now, 1)
  <2> DEFINE v == db[k]
  <2>1. /\ v \in Value /\ SoundValue(k, v)
        /\ AlgorithmOf[k] \in {"GCRA", "FixedWindow"} /\ PeriodOf[k] \in Int
    BY WindowFacts, Zenon DEF RedisInv
  <2>2. DebtOf(k)' = DebtIn(k, v, now + 1) /\ DebtOf(k) = DebtIn(k, v, now)
    BY <1>1, Zenon DEF DebtOf, DebtIn
  <2>3. /\ v.form \in {"nil", "tat", "start:count"}
        /\ v.a \in Nat /\ v.b \in Nat
    BY <2>1, Zenon DEF Value
  <2> HIDE DEF v
  <2>4. CASE v.form = "nil"
    <3>1. DebtIn(k, v, now + 1) = 0 /\ DebtIn(k, v, now) = 0
      BY <2>4, Zenon DEF DebtIn
    <3> QED
      BY <2>2, <3>1, SameWindows DEF Contract!Idle, NonNegative
  <2>5. CASE v.form = "tat"
    <3>1. AlgorithmOf[k] = "GCRA"
      BY <2>1, <2>5, Zenon DEF SoundValue
    <3>2. DebtIn(k, v, now + 1) = NonNegative(v.a - (now + 1))
          /\ DebtIn(k, v, now) = NonNegative(v.a - now)
      BY <2>5, Zenon DEF DebtIn
    <3>3. NonNegative(v.a - (now + 1)) = NonNegative(NonNegative(v.a - now) - 1)
      BY <1>1, <2>3 DEF NonNegative
    <3> QED
      BY <2>2, <3>1, <3>2, <3>3, SameWindows, Zenon DEF Contract!Idle
  <2>6. CASE v.form = "start:count"
    <3> DEFINE p == PeriodOf[k]
    <3>1. AlgorithmOf[k] = "FixedWindow" /\ p \in Int /\ p >= 1 /\ v.a <= now
      BY <2>1, <2>6, Zenon DEF SoundValue
    <3>2. /\ DebtIn(k, v, now + 1) = IF v.a = (now + 1) - ((now + 1) % p) THEN v.b ELSE 0
          /\ DebtIn(k, v, now) = IF v.a = now - (now % p) THEN v.b ELSE 0
      BY <2>6, Zenon DEF DebtIn
    <3>3. Contract!Idle(k, DebtOf(k), now, 1) = IF 1 >= p - (now % p) THEN 0 ELSE DebtOf(k)
      BY <3>1, Zenon DEF Contract!Idle, Contract!ToBoundary
    <3>4. /\ now % p \in 0..(p - 1)
          /\ (now + 1) % p = IF now % p = p - 1 THEN 0 ELSE (now % p) + 1
      BY <1>1, <3>1, NextMicro, Zenon
    <3> HIDE DEF p
    <3>5. CASE now % p = p - 1
      <4>1. 1 >= p - (now % p) /\ (now + 1) - ((now + 1) % p) = now + 1
        BY <1>1, <3>1, <3>4, <3>5
      <4>2. v.a # now + 1
        BY <1>1, <2>3, <3>1
      <4> QED
        BY <2>2, <3>2, <3>3, <4>1, <4>2, Zenon
    <3>6. CASE now % p # p - 1
      <4>1. ~(1 >= p - (now % p)) /\ (now + 1) - ((now + 1) % p) = now - (now % p)
        BY <1>1, <3>1, <3>4, <3>6
      <4> QED
        BY <2>2, <3>2, <3>3, <4>1, Zenon
    <3> QED
      BY <3>5, <3>6, Zenon
  <2> QED
    BY <2>3, <2>4, <2>5, <2>6, Zenon
<1>4. Contract!Tick
  BY <1>1, <1>3, Zenon DEF Contract!Tick
<1> QED
  BY <1>2, <1>4, Zenon

\* One deletion of the pipeline is a reset of that key.
LEMMA RedisDel ==
    ASSUME RedisInv, NEW k \in Keys, Del(k)
    PROVE  Contract!Reset({k}) /\ RedisInv'
<1>1. /\ now' = now /\ answer' = answer /\ deleting' \subseteq Keys
      /\ db' = [db EXCEPT ![k] = Nil] /\ db \in [Keys -> Value] /\ now \in Nat
  BY Zenon DEF Del, RedisInv
<1>2. Nil \in Value /\ Nil.form = "nil"
  BY Zenon DEF Nil, Value
<1>3. /\ db' \in [Keys -> Value]
      /\ \A i \in Keys : db'[i] = IF i = k THEN Nil ELSE db[i]
  BY <1>1, <1>2, Zenon
<1>4. \A i \in Keys : SoundValue(i, db[i])'
  BY <1>1, <1>2, <1>3, Zenon DEF RedisInv, SoundValue
<1>5. \A i \in Keys : DebtOf(i)' = IF i \in {k} THEN 0 ELSE DebtOf(i)
  BY <1>1, <1>2, <1>3, Zenon DEF DebtOf
<1>6. RedisInv'
  BY <1>1, <1>3, <1>4, Zenon DEF RedisInv
<1>7. Contract!Reset({k})
  BY <1>1, <1>5, Zenon DEF Contract!Reset
<1> QED
  BY <1>6, <1>7, Zenon

\* A step of the Redis store is a step of the contract or leaves it alone.
LEMMA RedisStep ==
    ASSUME RedisInv, [Next]_vars
    PROVE  RedisInv' /\ [Contract!Next]_(Contract!vars)
<1>1. CASE Tick
  BY <1>1, RedisTick, Zenon DEF Contract!Next
<1>2. ASSUME NEW b \in Calls, Decide(b) PROVE RedisInv' /\ Contract!Next
  BY <1>2, RedisDecide, Zenon DEF Contract!Next
<1>3. ASSUME NEW b \in Calls, Peek(b) PROVE RedisInv' /\ Contract!Next
  BY <1>3, RedisPeek, Zenon DEF Contract!Next
<1>4. CASE Fail
  <2>1. now' = now /\ db' = db /\ deleting' = deleting /\ answer' = NoAnswer
    BY <1>4, Zenon DEF Fail
  <2>2. RedisInv'
    BY <2>1, Zenon DEF RedisInv, SoundValue
  <2>3. Contract!Fail
    BY <2>1, SameGuards, Zenon DEF Contract!Fail, DebtOf
  <2> QED
    BY <2>2, <2>3, Zenon DEF Contract!Next
<1>5. ASSUME NEW k \in Keys, Del(k) PROVE RedisInv' /\ Contract!Next
  <2>1. {k} \in SUBSET Keys
    BY Zenon
  <2> QED
    BY <1>5, <2>1, RedisDel, Zenon DEF Contract!Next
<1>6. ASSUME NEW K \in SUBSET Keys, Reset(K) PROVE RedisInv' /\ UNCHANGED Contract!vars
  BY <1>6, Zenon DEF Reset, RedisInv, SoundValue, Contract!vars, DebtOf
<1>7. CASE ResetFails
  BY <1>7, Zenon DEF ResetFails, RedisInv, SoundValue, Contract!vars, DebtOf
<1>8. CASE UNCHANGED vars
  BY <1>8, Zenon DEF vars, RedisInv, SoundValue, Contract!vars, DebtOf
<1> QED
  BY <1>1, <1>2, <1>3, <1>4, <1>5, <1>6, <1>7, <1>8, Zenon DEF Next

\* An empty database owes nothing.
LEMMA RedisInit == ASSUME Init PROVE RedisInv /\ Contract!Init
<1>1. Nil \in Value /\ Nil.form = "nil"
  BY Zenon DEF Nil, Value
<1>2. RedisInv
  BY <1>1, QuotaConstants, Zenon DEF Init, RedisInv, SoundValue
<1>3. Contract!Init
  BY <1>1, SameGuards, Zenon DEF Init, Contract!Init, DebtOf
<1> QED
  BY <1>2, <1>3, Zenon

\* The decision script with its client implements the contract: verdict for
\* verdict and charge for charge, through the expiry of keys in whole
\* milliseconds, lost replies and resets that delete key by key (script.lua, run,
\* Reset).
THEOREM RedisRefines == Spec => ImplementsContract
BY RedisInit, RedisStep, PTL DEF Spec, ImplementsContract, Contract!Spec

-----------------------------------------------------------------------------
\* The in-process store.  Its operators on windows and calls, and its contract's,
\* are those of the module.
LEMMA SameInMemory ==
    /\ \A k, l : Memory!WindowOf(k, l) = WindowOf(k, l)
    /\ \A w : Memory!EmissionMicros(w) = EmissionMicros(w)
    /\ \A w : Memory!TauMicros(w) = TauMicros(w)
    /\ \A x : Memory!NonNegative(x) = NonNegative(x)
    /\ \A k, l : Memory!Contract!WindowOf(k, l) = WindowOf(k, l)
    /\ \A w : Memory!Contract!EmissionMicros(w) = EmissionMicros(w)
    /\ \A w : Memory!Contract!TauMicros(w) = TauMicros(w)
    /\ \A x : Memory!Contract!NonNegative(x) = NonNegative(x)
    /\ \A b : Memory!Guard(b) <=> Guard(b)
    /\ \A b : Memory!Contract!Guard(b) <=> Guard(b)
    /\ Memory!Contract!NoAnswer = Memory!NoAnswer
BY Zenon DEF Memory!WindowOf, Memory!Contract!WindowOf, WindowOf, Memory!EmissionMicros,
       Memory!Contract!EmissionMicros, EmissionMicros, Memory!TauMicros,
       Memory!Contract!TauMicros, TauMicros, Memory!NonNegative,
       Memory!Contract!NonNegative, NonNegative, Memory!Guard, Memory!Contract!Guard,
       Guard, Memory!NoAnswer, Memory!Contract!NoAnswer

\* An entry of the map: of its key's algorithm, and of a deadline that is the end
\* of its debt.
Entry == [algorithm: {"none", "GCRA", "FixedWindow"}, tat: Nat, start: Nat, count: Nat,
          deadline: Nat]

SoundEntry(k, e) ==
    \/ e = Memory!ZeroEntry
    \/ /\ e.algorithm = "GCRA"
       /\ AlgorithmOf[k] = "GCRA"
       /\ e.deadline = e.tat
    \/ /\ e.algorithm = "FixedWindow"
       /\ AlgorithmOf[k] = "FixedWindow"
       /\ PeriodOf[k] >= 1
       /\ e.start <= mnow
       /\ e.deadline = e.start + PeriodOf[k]

MemoryInv ==
    /\ mnow \in Nat
    /\ m \in [Keys -> Entry]
    /\ \A k \in Keys : SoundEntry(k, m[k])

\* What an entry says at time t.
EntryDebt(k, e, t) ==
    IF e = Memory!ZeroEntry THEN 0
    ELSE IF AlgorithmOf[k] = "GCRA" THEN NonNegative(e.tat - t)
         ELSE IF e.start = t - (t % PeriodOf[k]) THEN e.count ELSE 0

\* An entry past its deadline says nothing any more.
LEMMA PastDeadline ==
    ASSUME MemoryInv, NEW k \in Keys, m[k] # Memory!ZeroEntry, m[k].deadline <= mnow
    PROVE  EntryDebt(k, m[k], mnow) = 0
<1> DEFINE e == m[k]
           p == PeriodOf[k]
<1>1. e \in Entry /\ SoundEntry(k, e) /\ mnow \in Nat /\ p \in Int
  BY WindowFacts, Zenon DEF MemoryInv
<1>2. e.tat \in Nat /\ e.start \in Nat /\ e.deadline \in Nat
  BY <1>1, Zenon DEF Entry
<1> HIDE DEF e, p
<1>3. CASE AlgorithmOf[k] = "GCRA"
  <2>1. e.tat <= mnow
    BY <1>1, <1>2, <1>3, Zenon DEF SoundEntry, e
  <2>2. NonNegative(e.tat - mnow) = 0
    BY <1>1, <1>2, <2>1 DEF NonNegative
  <2> QED
    BY <1>3, <2>2, Zenon DEF EntryDebt, e
<1>4. CASE AlgorithmOf[k] # "GCRA"
  <2>1. p >= 1 /\ e.start + p <= mnow
    BY <1>1, <1>2, <1>4, Zenon DEF SoundEntry, e, p
  <2>2. mnow % p \in Nat /\ mnow % p < p
    BY <1>1, <2>1
  <2>3. e.start # mnow - (mnow % p)
    BY <1>1, <1>2, <2>1, <2>2
  <2> QED
    BY <1>4, <2>3, Zenon DEF EntryDebt, e, p
<1> QED
  BY <1>3, <1>4, Zenon

\* Sweeping stale entries takes nothing from what they say.
LEMMA SweptEntries ==
    ASSUME MemoryInv, NEW K, NEW k \in Keys
    PROVE  LET e == Memory!Swept(K)[k]
           IN /\ e \in Entry
              /\ SoundEntry(k, e)
              /\ EntryDebt(k, e, mnow) = Memory!DebtOf(k)
              /\ Memory!DebtOf(k) \in Nat
              /\ Memory!DebtOf(k) = EntryDebt(k, m[k], mnow)
<1> DEFINE e == Memory!Swept(K)[k]
<1>1. e = IF k \in K /\ Memory!Stale(k) THEN Memory!ZeroEntry ELSE m[k]
  BY Zenon DEF Memory!Swept
<1>2. /\ m[k] \in Entry /\ SoundEntry(k, m[k]) /\ mnow \in Nat
      /\ AlgorithmOf[k] \in {"GCRA", "FixedWindow"}
  BY WindowFacts, Zenon DEF MemoryInv
<1>3. Memory!ZeroEntry \in Entry
  BY Zenon DEF Memory!ZeroEntry, Entry
<1>4. Memory!DebtOf(k) = EntryDebt(k, m[k], mnow)
  BY SameInMemory, Zenon DEF Memory!DebtOf, EntryDebt
<1>5. m[k].tat \in Nat /\ m[k].count \in Nat
  BY <1>2, Zenon DEF Entry
<1>6. EntryDebt(k, m[k], mnow) \in Nat
  BY <1>2, <1>5 DEF EntryDebt, NonNegative
<1>7. Memory!Stale(k) => m[k] # Memory!ZeroEntry /\ m[k].deadline <= mnow
  BY <1>2, Zenon DEF Memory!Stale, SoundEntry
<1>8. EntryDebt(k, Memory!ZeroEntry, mnow) = 0
  BY Zenon DEF EntryDebt
<1>9. Memory!Stale(k) => EntryDebt(k, m[k], mnow) = 0
  BY <1>7, PastDeadline, Zenon
<1>10. SoundEntry(k, Memory!ZeroEntry)
  BY ZenonT(40) DEF SoundEntry
<1> HIDE DEF e
<1> QED
  BY <1>1, <1>2, <1>3, <1>4, <1>6, <1>8, <1>9, <1>10, Zenon DEF e

\* The entry that evalGCRA writes, and the one of evalFixed.
LeakyEntry(n) ==
    [Memory!ZeroEntry EXCEPT !.algorithm = "GCRA", !.tat = n, !.deadline = n]

FixedEntry(s, n, deadline) ==
    [Memory!ZeroEntry EXCEPT !.algorithm = "FixedWindow", !.start = s, !.count = n,
                             !.deadline = deadline]

\* What the memory store writes is an entry of its algorithm.
LEMMA EntriesWritten ==
    /\ \A n \in Nat : LET e == LeakyEntry(n)
                     IN /\ e \in Entry /\ e.algorithm = "GCRA" /\ e.tat = n /\ e.deadline = n
                        /\ e # Memory!ZeroEntry
    /\ \A s, n, t \in Nat : LET e == FixedEntry(s, n, t)
                          IN /\ e \in Entry /\ e.algorithm = "FixedWindow" /\ e.start = s
                             /\ e.count = n /\ e.deadline = t
                             /\ e # Memory!ZeroEntry
<1>1. Memory!ZeroEntry \in Entry /\ Memory!ZeroEntry.algorithm = "none"
  BY Zenon DEF Memory!ZeroEntry, Entry
<1> QED
  BY <1>1, ZenonT(40) DEF LeakyEntry, FixedEntry, Entry

\* Go's division agrees with the contract's where the result is not negative.
LEMMA GoDivision ==
    ASSUME NEW x \in Int, NEW y \in Nat \ {0}
    PROVE  /\ NonNegative(Memory!GoDiv(x, y)) = NonNegative(x \div y)
           /\ x >= 0 => NonNegative(Memory!GoDiv(x, y)) = x \div y
<1>1. CASE x >= 0
  <2>1. x \div y \in Nat
    BY <1>1
  <2>2. Memory!GoDiv(x, y) = x \div y
    BY <1>1, Zenon DEF Memory!GoDiv
  <2> QED
    BY <2>1, <2>2 DEF NonNegative
<1>2. CASE x < 0
  <2> DEFINE u == x \div y
             v == (-x) \div y
  <2>1. u \in Int /\ y * u <= x
    OBVIOUS
  <2>2. v \in Nat
    BY <1>2
  <2>3. Memory!GoDiv(x, y) = -v
    BY <1>2 DEF Memory!GoDiv
  <2> HIDE DEF u, v
  <2>4. u < 0
    <3>1. SUFFICES ASSUME u >= 0 PROVE FALSE
      BY <2>1
    <3>2. y * u \in Nat
      BY <2>1, <3>1
    <3> QED
      BY <1>2, <2>1, <3>2
  <2>5. NonNegative(-v) = 0 /\ NonNegative(u) = 0
    BY <2>1, <2>2, <2>4 DEF NonNegative
  <2> QED
    BY <1>2, <2>3, <2>5 DEF u
<1> QED
  BY <1>1, <1>2

\* The evaluation of one bucket agrees with the contract's judgement.
Evaluates(o, j) ==
    /\ Memory!CurrentVerdict(o) = j.current
    /\ o.allowed <=> j.current.allowed
    /\ o.allowed => Memory!ChargedVerdict(o) = j.charged
    /\ j.next \in Nat

\* The evaluation o of a leaky bucket is the judgement j, and what it writes.
Leaks(o, j) ==
    /\ Evaluates(o, j)
    /\ o.allowed => o.next = LeakyEntry(mnow + j.next)

\* evalGCRA, on an entry that says d.
LEMMA LeakyEvaluated ==
    ASSUME NEW k \in Keys, NEW l \in Limits[k], AlgorithmOf[k] = "GCRA",
           NEW d \in Nat, NEW c \in Nat, NEW e, NEW x \in BOOLEAN, mnow \in Nat,
           (IF x /\ e.tat > mnow THEN e.tat ELSE mnow) = mnow + d
    PROVE  Leaks(Memory!EvalGCRA(e, x, WindowOf(k, l), c),
                 Memory!Contract!Judge(k, l, d, c, mnow))
<1> DEFINE w == WindowOf(k, l)
           em == EmissionMicros(w)
           tau == TauMicros(w)
           burst == w.burst
           o == Memory!EvalGCRA(e, x, w, c)
           j == Memory!Contract!Judge(k, l, d, c, mnow)
           inc == em * c
           left == tau - d - inc
           exceeds == c > burst
           allowed == ~exceeds /\ left >= 0
           remaining == NonNegative((tau - d) \div em)
           retry == IF allowed \/ exceeds THEN -1 ELSE -left
           current == [allowed |-> allowed, exceeds |-> exceeds, remaining |-> remaining,
                       retry |-> retry, reset |-> d]
           charged == [allowed |-> TRUE, exceeds |-> FALSE, remaining |-> left \div em,
                       retry |-> -1, reset |-> d + inc]
           next == LeakyEntry(mnow + (d + inc))
<1>1. em \in Nat \ {0} /\ tau \in Nat /\ burst \in Int
  BY WindowFacts, Zenon DEF Window
<1>2. inc \in Nat /\ left \in Int /\ tau - d \in Int
  BY <1>1
<1>3. j = [current |-> current, charged |-> charged, next |-> d + inc]
  BY SameInMemory, Zenon DEF Memory!Contract!Judge, Memory!Contract!JudgeLeaky
<1>4. /\ NonNegative(Memory!GoDiv(tau - d, em)) = remaining
      /\ left >= 0 => NonNegative(Memory!GoDiv(left, em)) = left \div em
  BY <1>1, <1>2, GoDivision, Zenon
<1> DEFINE tat == IF x /\ e.tat > mnow THEN e.tat ELSE mnow
<1>5. tat = mnow + d
  BY Zenon
<1> HIDE DEF tat, em, tau, burst, w
<1>6. /\ tat - mnow = d
      /\ mnow - ((tat + em * c) - tau) = left
      /\ (tat + em * c) - mnow = d + inc
      /\ tat + em * c = mnow + (d + inc)
  BY <1>1, <1>2, <1>5
<1>7. ASSUME exceeds
      PROVE  /\ o.allowed = FALSE /\ o.exceeds = TRUE /\ o.retryAfter = -1
             /\ o.remainCurrent = NonNegative(Memory!GoDiv(tau - (tat - mnow), em))
             /\ o.resetCurrent = tat - mnow
  BY <1>7, SameInMemory, Zenon DEF Memory!EvalGCRA, tat, em, tau, burst
<1>8. ASSUME ~exceeds
      PROVE  /\ o.allowed = (mnow - ((tat + em * c) - tau) >= 0)
             /\ o.exceeds = FALSE
             /\ o.retryAfter = IF mnow - ((tat + em * c) - tau) >= 0 THEN -1
                               ELSE -(mnow - ((tat + em * c) - tau))
             /\ o.remainCharged = NonNegative(Memory!GoDiv(mnow - ((tat + em * c) - tau), em))
             /\ o.remainCurrent = NonNegative(Memory!GoDiv(tau - (tat - mnow), em))
             /\ o.resetCharged = (tat + em * c) - mnow
             /\ o.resetCurrent = tat - mnow
             /\ o.next = LeakyEntry(tat + em * c)
  BY <1>8, SameInMemory, Zenon DEF Memory!EvalGCRA, LeakyEntry, tat, em, tau, burst
<1> HIDE DEF o, left, inc, remaining
<1>9. /\ o.allowed = allowed /\ o.exceeds = exceeds /\ o.retryAfter = retry
       /\ o.remainCurrent = remaining /\ o.resetCurrent = d
  <2>1. CASE exceeds
    <3>1. /\ o.allowed = FALSE /\ o.exceeds = TRUE /\ o.retryAfter = -1
          /\ o.remainCurrent = remaining /\ o.resetCurrent = d
      BY <1>4, <1>6, <1>7, <2>1, Zenon
    <3>2. allowed = FALSE /\ exceeds = TRUE /\ retry = -1
      BY <2>1, Zenon
    <3> QED
      BY <3>1, <3>2, Zenon
  <2>2. CASE ~exceeds
    <3>1. /\ o.allowed = (left >= 0) /\ o.exceeds = FALSE
          /\ o.retryAfter = IF left >= 0 THEN -1 ELSE -left
          /\ o.remainCurrent = remaining /\ o.resetCurrent = d
      BY <1>4, <1>6, <1>8, <2>2, Zenon
    <3>2. allowed = (left >= 0) /\ exceeds = FALSE /\ retry = IF left >= 0 THEN -1 ELSE -left
      BY <2>2
    <3> QED
      BY <3>1, <3>2, Zenon
  <2> QED
    BY <2>1, <2>2, Zenon
<1>10. allowed => /\ o.remainCharged = left \div em /\ o.resetCharged = d + inc /\ o.next = next
  BY <1>4, <1>6, <1>8, Zenon
<1>11. allowed \in BOOLEAN
  BY Zenon
<1> HIDE DEF allowed, exceeds, retry, next
<1>12. Memory!CurrentVerdict(o) = current /\ (allowed => Memory!ChargedVerdict(o) = charged)
  BY <1>9, <1>10, Zenon DEF Memory!CurrentVerdict, Memory!ChargedVerdict
<1> HIDE DEF j, charged
<1>13. j.current = current /\ j.charged = charged /\ j.next = d + inc /\ j.current.allowed = allowed
  BY <1>3, Zenon
<1>14. Evaluates(o, j) /\ (o.allowed => o.next = next)
  BY <1>2, <1>9, <1>10, <1>11, <1>12, <1>13 DEF Evaluates
<1> QED
  BY <1>13, <1>14, Zenon DEF Leaks, o, j, next, w

\* evalFixed, likewise.
LEMMA FixedEvaluated ==
    ASSUME NEW k \in Keys, NEW l \in Limits[k], AlgorithmOf[k] = "FixedWindow",
           NEW d \in Nat, NEW c \in Nat, NEW e, NEW x \in BOOLEAN, mnow \in Nat,
           (IF x /\ e.start = mnow - (mnow % PeriodOf[k]) THEN e.count ELSE 0) = d
    PROVE  LET o == Memory!EvalFixed(e, x, WindowOf(k, l), c)
               j == Memory!Contract!Judge(k, l, d, c, mnow)
               start == mnow - (mnow % PeriodOf[k])
           IN /\ Evaluates(o, j)
              /\ o.allowed => o.next = FixedEntry(start, j.next, start + PeriodOf[k])
<1> DEFINE w == WindowOf(k, l)
           requests == w.requests
           p == PeriodOf[k]
           o == Memory!EvalFixed(e, x, w, c)
           j == Memory!Contract!Judge(k, l, d, c, mnow)
           start == mnow - (mnow % p)
           boundary == start + p - mnow
           left == NonNegative(requests - d)
           exceeds == c > requests
           allowed == c <= left
           retry == IF allowed \/ exceeds THEN -1 ELSE boundary
           reset == IF d = 0 THEN 0 ELSE boundary
           current == [allowed |-> allowed, exceeds |-> exceeds, remaining |-> left,
                       retry |-> retry, reset |-> reset]
           charged == [allowed |-> TRUE, exceeds |-> FALSE, remaining |-> left - c,
                       retry |-> -1, reset |-> boundary]
           next == FixedEntry(start, d + c, start + p)
<1>1. requests \in Int /\ w.period = p /\ p \in Int /\ p >= 1
  BY WindowFacts, Zenon DEF Window
<1>2. Memory!Contract!ToBoundary(k, mnow) = boundary
  <2>1. mnow % p \in Nat
    BY <1>1
  <2> QED
    BY <1>1, <2>1 DEF Memory!Contract!ToBoundary
<1>3. j = [current |-> current, charged |-> charged, next |-> d + c]
  <2>1. j = Memory!Contract!JudgeWindow(w, d, c, boundary)
    BY <1>2, SameInMemory, Zenon DEF Memory!Contract!Judge
  <2> HIDE DEF boundary, j
  <2> QED
    BY <2>1, SameInMemory, Zenon DEF Memory!Contract!JudgeWindow
<1> HIDE DEF requests, w, p
<1>4. /\ o.allowed = allowed /\ o.exceeds = exceeds
      /\ o.retryAfter = IF ~allowed /\ ~exceeds THEN boundary ELSE -1
      /\ o.remainCharged = left - c /\ o.remainCurrent = left
      /\ o.resetCharged = boundary /\ o.resetCurrent = reset
      /\ o.next = next
  BY <1>1, SameInMemory, Zenon DEF Memory!EvalFixed, FixedEntry, requests, p
<1>5. allowed \in BOOLEAN
  OBVIOUS
<1> HIDE DEF o, left, boundary, start, reset, next, allowed, exceeds
<1>6. o.retryAfter = retry
  BY <1>4, Zenon
<1> HIDE DEF retry
<1>7. Memory!CurrentVerdict(o) = current /\ (allowed => Memory!ChargedVerdict(o) = charged)
  BY <1>4, <1>6, Zenon DEF Memory!CurrentVerdict, Memory!ChargedVerdict
<1> HIDE DEF j, charged
<1>8. j.current = current /\ j.charged = charged /\ j.next = d + c /\ j.current.allowed = allowed
  BY <1>3, Zenon
<1>9. Evaluates(o, j) /\ (o.allowed => o.next = next)
  BY <1>4, <1>5, <1>7, <1>8 DEF Evaluates
<1> QED
  BY <1>8, <1>9, Zenon DEF o, j, next, w, start, p

\* The evaluation of every bucket of a call.
LEMMA EvalFacts ==
    ASSUME MemoryInv, NEW b \in Calls, Guard(b), NEW k \in DOMAIN b
    PROVE  LET o == Memory!EvalAll(b)[k]
               j == Memory!Contract!JudgeAll(b)[k]
           IN /\ k \in Keys
              /\ Evaluates(o, j)
              /\ o.allowed => /\ o.next \in Entry
                              /\ SoundEntry(k, o.next)
                              /\ EntryDebt(k, o.next, mnow) = j.next
<1> DEFINE l == b[k].limit
           c == b[k].cost
           d == Memory!DebtOf(k)
           e == Memory!Swept({k})[k]
           x == e # Memory!ZeroEntry
           j == Memory!Contract!Judge(k, l, d, c, mnow)
           p == PeriodOf[k]
<1>1. k \in Keys /\ l \in Limits[k] /\ c \in Nat /\ mnow \in Nat
  BY CallFacts DEF Guard, MemoryInv
<1>2. Memory!Contract!JudgeAll(b)[k] = j
  BY <1>1 DEF Memory!Contract!JudgeAll
<1>3. /\ e \in Entry /\ SoundEntry(k, e) /\ EntryDebt(k, e, mnow) = d /\ d \in Nat
      /\ AlgorithmOf[k] \in {"GCRA", "FixedWindow"} /\ p \in Int /\ p >= 1
  BY <1>1, SweptEntries, WindowFacts, Zenon
<1>4. e.tat \in Nat
  BY <1>3, Zenon DEF Entry
<1>5. Memory!EvalAll(b)[k] =
        IF AlgorithmOf[k] = "GCRA" THEN Memory!EvalGCRA(e, x, WindowOf(k, l), c)
                                   ELSE Memory!EvalFixed(e, x, WindowOf(k, l), c)
  BY SameInMemory, Zenon DEF Memory!EvalAll, Memory!Eval
<1>6. x \in BOOLEAN
  BY Zenon
<1> HIDE DEF l, c, d, e, j
<1>7. CASE AlgorithmOf[k] = "GCRA"
  <2> DEFINE o == Memory!EvalGCRA(e, x, WindowOf(k, l), c)
  <2>1. (IF x /\ e.tat > mnow THEN e.tat ELSE mnow) = mnow + d
    BY <1>1, <1>3, <1>4, <1>7 DEF EntryDebt, NonNegative
  <2> HIDE DEF x
  <2>2. Evaluates(o, j) /\ (o.allowed => o.next = LeakyEntry(mnow + j.next))
    <3>1. Leaks(o, j)
      BY <1>1, <1>3, <1>6, <1>7, <2>1, LeakyEvaluated, Zenon DEF j
    <3> QED
      BY <3>1, Zenon DEF Leaks
  <2> HIDE DEF o
  <2> DEFINE n == LeakyEntry(mnow + j.next)
  <2>3. j.next \in Nat
    BY <2>2, Zenon DEF Evaluates
  <2>4. /\ n \in Entry /\ n.algorithm = "GCRA" /\ n.tat = mnow + j.next
        /\ n.deadline = mnow + j.next /\ n # Memory!ZeroEntry
    BY <1>1, <2>3, EntriesWritten
  <2> HIDE DEF n
  <2>5. SoundEntry(k, n)
    BY <1>7, <2>4, Zenon DEF SoundEntry
  <2>6. EntryDebt(k, n, mnow) = NonNegative((mnow + j.next) - mnow)
    BY <1>7, <2>4, Zenon DEF EntryDebt
  <2>7. NonNegative((mnow + j.next) - mnow) = j.next
    BY <1>1, <2>3 DEF NonNegative
  <2> QED
    BY <1>1, <1>2, <1>5, <1>7, <2>2, <2>4, <2>5, <2>6, <2>7, Zenon DEF n, o
<1>8. CASE AlgorithmOf[k] = "FixedWindow"
  <2> DEFINE o == Memory!EvalFixed(e, x, WindowOf(k, l), c)
             start == mnow - (mnow % p)
  <2>1. (IF x /\ e.start = start THEN e.count ELSE 0) = d
    BY <1>3, <1>8, Zenon DEF EntryDebt
  <2> HIDE DEF x
  <2>2. Evaluates(o, j) /\ (o.allowed => o.next = FixedEntry(start, j.next, start + p))
    BY <1>1, <1>3, <1>6, <1>8, <2>1, FixedEvaluated DEF j
  <2> HIDE DEF o
  <2> DEFINE n == FixedEntry(start, j.next, start + p)
  <2>3. j.next \in Nat
    BY <2>2, Zenon DEF Evaluates
  <2>4. start \in Nat /\ start <= mnow /\ start + p \in Nat
    <3>1. mnow % p \in Nat /\ mnow % p <= mnow
      BY <1>1, <1>3
    <3> QED
      BY <1>1, <1>3, <3>1
  <2> HIDE DEF start
  <2>5. /\ n \in Entry /\ n.algorithm = "FixedWindow" /\ n.start = start
        /\ n.count = j.next /\ n.deadline = start + p /\ n # Memory!ZeroEntry
    BY <2>3, <2>4, EntriesWritten
  <2> HIDE DEF n
  <2>6. SoundEntry(k, n)
    BY <1>3, <1>8, <2>4, <2>5, Zenon DEF SoundEntry
  <2>7. EntryDebt(k, n, mnow) = j.next
    BY <1>8, <2>5, Zenon DEF EntryDebt, start
  <2> QED
    BY <1>1, <1>2, <1>5, <1>8, <2>2, <2>5, <2>6, <2>7, Zenon DEF n, o
<1> QED
  BY <1>3, <1>7, <1>8, Zenon

\* The second pass commits the buckets that the contract charges.
LEMMA MemoryCharges ==
    ASSUME MemoryInv, NEW b \in Calls, Guard(b)
    PROVE  Memory!Commits(b, Memory!EvalAll(b))
             = Memory!Contract!Charged(b, Memory!Contract!JudgeAll(b))
<1> DEFINE evals == Memory!EvalAll(b)
           outs == Memory!Contract!JudgeAll(b)
           cur == Memory!Contract!Current(outs)
<1>1. DOMAIN outs = DOMAIN b
  BY DEF Memory!Contract!JudgeAll
<1>2. \A k \in DOMAIN b : evals[k].allowed <=> outs[k].current.allowed
  BY EvalFacts, Zenon DEF Evaluates
<1>3. \A k \in DOMAIN b : cur[k] = outs[k].current
  BY <1>1 DEF Memory!Contract!Current
<1> HIDE DEF evals, outs, cur
<1>4. Memory!Contract!Admitted(b, cur) <=> Memory!Admitted(b, evals)
  BY <1>2, <1>3, Zenon DEF Memory!Contract!Admitted, Memory!Admitted
<1>5. Memory!Contract!Charged(b, outs)
        = {k \in DOMAIN b : Memory!Contract!Admitted(b, cur) /\ outs[k].current.allowed}
  BY DEF Memory!Contract!Charged, cur
<1>6. Memory!Commits(b, evals) = {k \in DOMAIN b : Memory!Admitted(b, evals) /\ evals[k].allowed}
  BY Zenon DEF Memory!Commits
<1> QED
  BY <1>2, <1>4, <1>5, <1>6, Zenon DEF evals, outs

\* What an entry says once the map has changed and the clock has not.
LEMMA EntryLater ==
    ASSUME NEW k \in Keys, mnow' = mnow
    PROVE  Memory!DebtOf(k)' = EntryDebt(k, m'[k], mnow)
BY SameInMemory, Zenon DEF Memory!DebtOf, EntryDebt, Memory!ZeroEntry, Memory!NonNegative, NonNegative

\* A decision of the map is a decision of the contract.
LEMMA MemoryDecide ==
    ASSUME MemoryInv, NEW b \in Calls, Memory!Decide(b)
    PROVE  Memory!Contract!Decide(b) /\ MemoryInv'
<1> DEFINE evals == Memory!EvalAll(b)
           outs == Memory!Contract!JudgeAll(b)
           hit == Memory!Commits(b, evals)
           told == [k \in DOMAIN b |-> IF k \in hit THEN outs[k].charged ELSE outs[k].current]
<1>1. /\ Guard(b) /\ mnow' = mnow
      /\ m' = [k \in Keys |-> IF k \in hit THEN evals[k].next ELSE Memory!Swept(DOMAIN b)[k]]
      /\ manswer' = [k \in DOMAIN b |-> IF k \in hit THEN Memory!ChargedVerdict(evals[k])
                                                    ELSE Memory!CurrentVerdict(evals[k])]
  BY SameInMemory, Zenon DEF Memory!Decide
<1>2. \A k \in DOMAIN b :
         /\ k \in Keys /\ Evaluates(evals[k], outs[k])
         /\ evals[k].allowed => /\ evals[k].next \in Entry
                                /\ SoundEntry(k, evals[k].next)
                                /\ EntryDebt(k, evals[k].next, mnow) = outs[k].next
  BY <1>1, EvalFacts, Zenon
<1>3. /\ hit = Memory!Contract!Charged(b, outs)
      /\ \A k \in hit : k \in DOMAIN b /\ evals[k].allowed
  BY <1>1, MemoryCharges, Zenon DEF Memory!Commits
<1> HIDE DEF evals, hit, outs
<1>4. ASSUME NEW k \in Keys
      PROVE  /\ m'[k] \in Entry /\ SoundEntry(k, m'[k])
             /\ EntryDebt(k, m'[k], mnow) = IF k \in hit THEN outs[k].next
                                                         ELSE Memory!DebtOf(k)
  BY <1>1, <1>2, <1>3, SweptEntries, Zenon
<1>5. MemoryInv'
  <2>1. \A k \in Keys : SoundEntry(k, m[k])'
    BY <1>1, <1>4, Zenon DEF SoundEntry
  <2>2. m' \in [Keys -> Entry]
    BY <1>1, <1>4, Zenon
  <2> QED
    BY <1>1, <2>1, <2>2, Zenon DEF MemoryInv
<1>6. manswer' = told
  <2>1. \A k \in DOMAIN b : (IF k \in hit THEN Memory!ChargedVerdict(evals[k])
                                         ELSE Memory!CurrentVerdict(evals[k]))
                            = IF k \in hit THEN outs[k].charged ELSE outs[k].current
    BY <1>2, <1>3, Zenon DEF Evaluates
  <2> QED
    BY <1>1, <2>1, Zenon
<1>7. \A k \in Keys : Memory!DebtOf(k)' = IF k \in hit THEN outs[k].next ELSE Memory!DebtOf(k)
  BY <1>1, <1>4, EntryLater, Zenon
<1>8. [k \in Keys |-> Memory!DebtOf(k)]' =
        [k \in Keys |-> IF k \in hit THEN outs[k].next ELSE [j \in Keys |-> Memory!DebtOf(j)][k]]
  BY <1>7, Zenon
<1>9. Memory!Contract!Decide(b)
  BY <1>1, <1>3, <1>6, <1>8, SameInMemory, Zenon DEF Memory!Contract!Decide, outs
<1> QED
  BY <1>5, <1>9

\* A peek answers what the contract's does, and sweeps what says nothing.
LEMMA MemoryPeek ==
    ASSUME MemoryInv, NEW b \in Calls, Memory!Peek(b)
    PROVE  Memory!Contract!Peek(b) /\ MemoryInv'
<1> DEFINE evals == Memory!EvalAll(b)
           outs == Memory!Contract!JudgeAll(b)
           told == Memory!Contract!Current(outs)
<1>1. /\ Guard(b) /\ mnow' = mnow
      /\ m' = Memory!Swept(DOMAIN b)
      /\ manswer' = [k \in DOMAIN b |-> Memory!CurrentVerdict(evals[k])]
  BY SameInMemory, Zenon DEF Memory!Peek
<1>2. \A k \in DOMAIN b : Memory!CurrentVerdict(evals[k]) = outs[k].current
  BY <1>1, EvalFacts, Zenon DEF Evaluates
<1>3. told = [k \in DOMAIN b |-> outs[k].current]
  BY DEF Memory!Contract!Current, Memory!Contract!JudgeAll
<1> HIDE DEF evals, outs, told
<1>4. manswer' = told
  BY <1>1, <1>2, <1>3, Zenon
<1>5. \A k \in Keys : /\ m'[k] \in Entry /\ SoundEntry(k, m'[k])
                      /\ Memory!DebtOf(k)' = Memory!DebtOf(k)
  BY <1>1, SweptEntries, EntryLater, Zenon
<1>6. m' = [k \in Keys |-> m'[k]]
  BY <1>1, Zenon DEF Memory!Swept
<1>7. \A k \in Keys : SoundEntry(k, m[k])'
  BY <1>1, <1>5, Zenon DEF SoundEntry
<1>8. m' \in [Keys -> Entry]
  BY <1>5, <1>6, Zenon
<1>9. MemoryInv'
  BY <1>1, <1>7, <1>8, Zenon DEF MemoryInv
<1>10. [k \in Keys |-> Memory!DebtOf(k)]' = [k \in Keys |-> Memory!DebtOf(k)]
  BY <1>5, Zenon
<1>11. Memory!Contract!Peek(b)
  BY <1>1, <1>4, <1>10, SameInMemory, Zenon DEF Memory!Contract!Peek, told, outs
<1> QED
  BY <1>9, <1>11

\* Time takes from an entry what it takes from the contract's debt.
LEMMA MemoryTick ==
    ASSUME MemoryInv, Memory!Tick
    PROVE  Memory!Contract!Tick /\ MemoryInv'
<1>1. mnow \in Nat /\ mnow < MaxTime /\ mnow' = mnow + 1 /\ m' = m /\ manswer' = manswer
  BY Zenon DEF Memory!Tick, MemoryInv
<1>2. MemoryInv'
  <2>1. ASSUME NEW k \in Keys
        PROVE  SoundEntry(k, m[k])'
    <3>1. SoundEntry(k, m[k]) /\ m[k] \in Entry
      BY Zenon DEF MemoryInv
    <3>2. m[k].start \in Nat
      BY <3>1, Zenon DEF Entry
    <3> QED
      BY <1>1, <3>1, <3>2 DEF SoundEntry
  <2> QED
    BY <1>1, <2>1 DEF MemoryInv
<1>3. ASSUME NEW k \in Keys
      PROVE  Memory!DebtOf(k)' = Memory!Contract!Idle(k, Memory!DebtOf(k), mnow, 1)
  <2> DEFINE e == m[k]
  <2>1. /\ e \in Entry /\ SoundEntry(k, e)
        /\ AlgorithmOf[k] \in {"GCRA", "FixedWindow"} /\ PeriodOf[k] \in Int
    BY WindowFacts, Zenon DEF MemoryInv
  <2>2. Memory!DebtOf(k)' = EntryDebt(k, e, mnow + 1) /\ Memory!DebtOf(k) = EntryDebt(k, e, mnow)
    BY <1>1, Zenon DEF Memory!DebtOf, EntryDebt, Memory!NonNegative, NonNegative
  <2>3. e.tat \in Nat /\ e.start \in Nat /\ e.count \in Nat
    BY <2>1, Zenon DEF Entry
  <2> HIDE DEF e
  <2>4. CASE e = Memory!ZeroEntry
    <3>1. EntryDebt(k, e, mnow + 1) = 0 /\ EntryDebt(k, e, mnow) = 0
      BY <2>4, Zenon DEF EntryDebt
    <3> QED
      BY <2>2, <3>1, SameInMemory DEF Memory!Contract!Idle, NonNegative
  <2>5. CASE e # Memory!ZeroEntry /\ AlgorithmOf[k] = "GCRA"
    <3>1. EntryDebt(k, e, mnow + 1) = NonNegative(e.tat - (mnow + 1))
          /\ EntryDebt(k, e, mnow) = NonNegative(e.tat - mnow)
      BY <2>5, Zenon DEF EntryDebt
    <3>2. NonNegative(e.tat - (mnow + 1)) = NonNegative(NonNegative(e.tat - mnow) - 1)
      BY <1>1, <2>3 DEF NonNegative
    <3> QED
      BY <2>2, <2>5, <3>1, <3>2, SameInMemory, Zenon DEF Memory!Contract!Idle
  <2>6. CASE e # Memory!ZeroEntry /\ AlgorithmOf[k] = "FixedWindow"
    <3> DEFINE p == PeriodOf[k]
    <3>1. p \in Int /\ p >= 1 /\ e.start <= mnow
      BY <2>1, <2>6, Zenon DEF SoundEntry
    <3>2. /\ EntryDebt(k, e, mnow + 1)
               = IF e.start = (mnow + 1) - ((mnow + 1) % p) THEN e.count ELSE 0
          /\ EntryDebt(k, e, mnow) = IF e.start = mnow - (mnow % p) THEN e.count ELSE 0
      BY <2>6, Zenon DEF EntryDebt
    <3>3. Memory!Contract!Idle(k, Memory!DebtOf(k), mnow, 1)
            = IF 1 >= p - (mnow % p) THEN 0 ELSE Memory!DebtOf(k)
      BY <2>6, Zenon DEF Memory!Contract!Idle, Memory!Contract!ToBoundary
    <3>4. /\ mnow % p \in 0..(p - 1)
          /\ (mnow + 1) % p = IF mnow % p = p - 1 THEN 0 ELSE (mnow % p) + 1
      BY <1>1, <3>1, NextMicro, Zenon
    <3> HIDE DEF p
    <3>5. CASE mnow % p = p - 1
      <4>1. 1 >= p - (mnow % p) /\ (mnow + 1) - ((mnow + 1) % p) = mnow + 1
        BY <1>1, <3>1, <3>4, <3>5
      <4>2. e.start # mnow + 1
        BY <1>1, <2>3, <3>1
      <4> QED
        BY <2>2, <3>2, <3>3, <4>1, <4>2, Zenon
    <3>6. CASE mnow % p # p - 1
      <4>1. ~(1 >= p - (mnow % p)) /\ (mnow + 1) - ((mnow + 1) % p) = mnow - (mnow % p)
        BY <1>1, <3>1, <3>4, <3>6
      <4> QED
        BY <2>2, <3>2, <3>3, <4>1, Zenon
    <3> QED
      BY <3>5, <3>6
  <2> QED
    BY <2>1, <2>4, <2>5, <2>6, Zenon
<1>4. Memory!Contract!Tick
  BY <1>1, <1>3, Zenon DEF Memory!Contract!Tick
<1> QED
  BY <1>2, <1>4

\* A deletion of keys is the contract's reset of them.
LEMMA MemoryReset ==
    ASSUME MemoryInv, NEW K \in SUBSET Keys, Memory!Reset(K)
    PROVE  Memory!Contract!Reset(K) /\ MemoryInv'
<1>1. /\ mnow' = mnow /\ manswer' = manswer
      /\ m' = [k \in Keys |-> IF k \in K THEN Memory!ZeroEntry ELSE m[k]]
  BY Zenon DEF Memory!Reset
<1>2. Memory!ZeroEntry \in Entry
  BY Zenon DEF Memory!ZeroEntry, Entry
<1>3. \A k \in Keys : /\ m'[k] \in Entry /\ SoundEntry(k, m'[k])
                      /\ Memory!DebtOf(k)' = IF k \in K THEN 0 ELSE Memory!DebtOf(k)
  <2>1. ASSUME NEW k \in Keys PROVE SoundEntry(k, m'[k]) /\ m'[k] \in Entry
    BY <1>1, <1>2, Zenon DEF MemoryInv, SoundEntry
  <2>2. ASSUME NEW k \in Keys PROVE Memory!DebtOf(k)' = IF k \in K THEN 0 ELSE Memory!DebtOf(k)
    <3>1. Memory!DebtOf(k)' = EntryDebt(k, m'[k], mnow) /\ Memory!DebtOf(k) = EntryDebt(k, m[k], mnow)
      BY <1>1, EntryLater, SweptEntries, Zenon
    <3> QED
      BY <1>1, <3>1, Zenon DEF EntryDebt
  <2> QED
    BY <2>1, <2>2, Zenon
<1>4. \A k \in Keys : SoundEntry(k, m[k])'
  BY <1>1, <1>3, Zenon DEF SoundEntry
<1>5. MemoryInv'
  BY <1>1, <1>3, <1>4, Zenon DEF MemoryInv
<1>6. Memory!Contract!Reset(K)
  BY <1>1, <1>3, Zenon DEF Memory!Contract!Reset
<1> QED
  BY <1>5, <1>6, Zenon

\* A scan sweeps entries that say nothing any more.
LEMMA MemoryScan ==
    ASSUME MemoryInv, Memory!Scan
    PROVE  UNCHANGED Memory!Contract!vars /\ MemoryInv'
<1>1. /\ mnow' = mnow /\ manswer' = manswer
      /\ m' = [k \in Keys |-> IF m[k] # Memory!ZeroEntry /\ m[k].deadline <= mnow
                              THEN Memory!ZeroEntry ELSE m[k]]
  BY Zenon DEF Memory!Scan
<1>2. Memory!ZeroEntry \in Entry
  BY Zenon DEF Memory!ZeroEntry, Entry
<1>3. \A k \in Keys : m'[k] \in Entry /\ SoundEntry(k, m'[k])
  BY <1>1, <1>2, Zenon DEF MemoryInv, SoundEntry
<1>4. ASSUME NEW k \in Keys PROVE Memory!DebtOf(k)' = Memory!DebtOf(k)
  <2>1. Memory!DebtOf(k)' = EntryDebt(k, m'[k], mnow) /\ Memory!DebtOf(k) = EntryDebt(k, m[k], mnow)
    BY <1>1, EntryLater, SweptEntries, Zenon
  <2>2. CASE m[k] # Memory!ZeroEntry /\ m[k].deadline <= mnow
    <3>1. m'[k] = Memory!ZeroEntry /\ EntryDebt(k, m[k], mnow) = 0
      BY <1>1, <2>2, PastDeadline, Zenon
    <3> QED
      BY <2>1, <3>1, Zenon DEF EntryDebt
  <2>3. CASE ~(m[k] # Memory!ZeroEntry /\ m[k].deadline <= mnow)
    BY <1>1, <2>1, <2>3, Zenon
  <2> QED
    BY <2>2, <2>3, Zenon
<1>5. \A k \in Keys : SoundEntry(k, m[k])'
  BY <1>1, <1>3, Zenon DEF SoundEntry
<1>6. MemoryInv'
  BY <1>1, <1>3, <1>5, Zenon DEF MemoryInv
<1>7. UNCHANGED Memory!Contract!vars
  BY <1>1, <1>4, Zenon DEF Memory!Contract!vars
<1> QED
  BY <1>6, <1>7, Zenon

\* A step of the in-process store is a step of the contract or leaves it alone.
LEMMA MemoryStep ==
    ASSUME MemoryInv, [Memory!Next]_(Memory!vars)
    PROVE  MemoryInv' /\ [Memory!Contract!Next]_(Memory!Contract!vars)
<1>1. CASE Memory!Tick
  BY <1>1, MemoryTick DEF Memory!Contract!Next
<1>2. ASSUME NEW b \in Calls, Memory!Decide(b) PROVE MemoryInv' /\ Memory!Contract!Next
  BY <1>2, MemoryDecide DEF Memory!Contract!Next
<1>3. ASSUME NEW b \in Calls, Memory!Peek(b) PROVE MemoryInv' /\ Memory!Contract!Next
  BY <1>3, MemoryPeek DEF Memory!Contract!Next
<1>4. ASSUME NEW b \in Calls, Memory!Refuse(b) PROVE MemoryInv' /\ Memory!Contract!Next
  <2>1. mnow' = mnow /\ m' = m /\ manswer' = Memory!NoAnswer
    BY <1>4, Zenon DEF Memory!Refuse
  <2>2. MemoryInv'
    BY <2>1, Zenon DEF MemoryInv, SoundEntry
  <2>3. Memory!Contract!Fail
    BY <2>1, SameInMemory, Zenon DEF Memory!Contract!Fail, Memory!DebtOf
  <2> QED
    BY <2>2, <2>3, Zenon DEF Memory!Contract!Next
<1>5. ASSUME NEW K \in SUBSET Keys, Memory!Reset(K) PROVE MemoryInv' /\ Memory!Contract!Next
  BY <1>5, MemoryReset, Zenon DEF Memory!Contract!Next
<1>6. CASE Memory!Scan
  BY <1>6, MemoryScan, Zenon
<1>7. CASE UNCHANGED Memory!vars
  BY <1>7, Zenon DEF Memory!vars, MemoryInv, SoundEntry, Memory!Contract!vars, Memory!DebtOf
<1> QED
  BY <1>1, <1>2, <1>3, <1>4, <1>5, <1>6, <1>7, Zenon DEF Memory!Next

\* An empty map owes nothing.
LEMMA MemoryInit == ASSUME Memory!Init PROVE MemoryInv /\ Memory!Contract!Init
<1>1. Memory!ZeroEntry \in Entry
  BY Zenon DEF Memory!ZeroEntry, Entry
<1>2. MemoryInv
  BY <1>1, QuotaConstants, Zenon DEF Memory!Init, MemoryInv, SoundEntry
<1>3. Memory!Contract!Init
  BY <1>1, SameInMemory, Zenon DEF Memory!Init, Memory!Contract!Init, Memory!DebtOf
<1> QED
  BY <1>2, <1>3

\* The in-process store implements the contract: verdict for verdict and charge
\* for charge, though it drops an expired entry only when a call or a scan meets
\* it and divides towards zero (evalAll, evalGCRA, evalFixed, Decide, Reset,
\* Scan).
THEOREM MemoryRefines == Memory!Spec => MemoryImplements
BY MemoryInit, MemoryStep, PTL
   DEF Memory!Spec, MemoryImplements, Memory!ImplementsContract, Memory!Contract!Spec

\* Whichever of the two stores the engine is given, what it sees is the contract.
THEOREM EitherStore == SSpec => ImplementsContract /\ MemoryImplements
<1>1. SInit => Init /\ Memory!Init
  BY Zenon DEF SInit
<1>2. [SNext]_<<backend, vars, mvars>> => [Next]_vars /\ [Memory!Next]_(Memory!vars)
  BY Zenon DEF SNext, vars, mvars, Memory!vars
<1>3. SSpec => Spec /\ Memory!Spec
  BY <1>1, <1>2, PTL DEF SSpec, Spec, Memory!Spec
<1> QED
  BY <1>3, RedisRefines, MemoryRefines, Zenon
=============================================================================

---------------------------- MODULE QuotaLedger -----------------------------
(***************************************************************************)
(* The counter store's contract with an observer: for one key, the cost    *)
(* that decisions have charged to it since some moment.  The key is any    *)
(* key; the moment is chosen by Watch at any time and chosen again as      *)
(* often as one likes, so a bound on the ledger is a bound on every        *)
(* interval of every behaviour.  A management reset of the key starts the  *)
(* interval anew.                                                          *)
(***************************************************************************)
EXTENDS QuotaContract

VARIABLES
    watched,  \* the key under observation
    since,    \* when the interval began
    spent     \* cost charged to the key in the interval

ledger == <<watched, since, spent>>

lvars == <<now, debt, answer, watched, since, spent>>

LInit ==
    /\ Init
    /\ watched \in Keys
    /\ since = StartTime
    /\ spent = 0

LTick == Tick /\ UNCHANGED ledger

LDecide(b) ==
    /\ Decide(b)
    /\ spent' = IF watched \in Charged(b, JudgeAll(b))
                THEN spent + b[watched].cost
                ELSE spent
    /\ UNCHANGED <<watched, since>>

LPeek(b) == Peek(b) /\ UNCHANGED ledger

LFail == Fail /\ UNCHANGED ledger

LReset(K) ==
    /\ Reset(K)
    /\ since' = IF watched \in K THEN now ELSE since
    /\ spent' = IF watched \in K THEN 0 ELSE spent
    /\ UNCHANGED watched

Watch ==
    /\ since' = now
    /\ spent' = 0
    /\ UNCHANGED <<now, debt, answer, watched>>

LNext ==
    \/ LTick
    \/ \E b \in Calls : LDecide(b) \/ LPeek(b)
    \/ LFail
    \/ \E K \in SUBSET Keys : LReset(K)
    \/ Watch

LSpec == LInit /\ [][LNext]_lvars

-----------------------------------------------------------------------------
\* Types of the store's state and of the observer's.
LTypeOK ==
    /\ now \in Nat
    /\ debt \in [Keys -> Nat]
    /\ watched \in Keys
    /\ since \in Nat /\ since <= now
    /\ spent \in Nat
    /\ \A k \in DOMAIN answer : k \in Keys /\ answer[k] \in Verdict

\* e and tau are at least as loose as every limit key k may be judged by.
Loosest(k, e, tau) ==
    \A l \in Limits[k] :
        e <= EmissionMicros(WindowOf(k, l)) /\ TauMicros(WindowOf(k, l)) <= tau

Emissions(k) == {EmissionMicros(WindowOf(k, l)) : l \in Limits[k]}

Taus(k) == {TauMicros(WindowOf(k, l)) : l \in Limits[k]}

\* GCRA keeps its rate: over every interval, whatever the interleaving of
\* decisions of different replicas, shadow and enforcing, and whatever limits
\* they judged by, the cost charged to a key is at most what the loosest limit
\* emits in the interval plus the deepest burst.
RateHeld ==
    AlgorithmOf[watched] = "GCRA" =>
        \A e \in Emissions(watched), tau \in Taus(watched) :
            Loosest(watched, e, tau) => spent * e <= (now - since) + tau

\* The number of calendar windows of key k from time s to time t, both counted.
WindowsTouched(k, s, t) == (t \div PeriodOf[k]) - (s \div PeriodOf[k]) + 1

\* A fixed window keeps its quota: over every interval the cost charged to a key
\* is at most one quota, the largest the key may be judged by, for every
\* calendar window the interval touches.
QuotaHeld ==
    AlgorithmOf[watched] = "FixedWindow" =>
        \A top \in {l.requests : l \in Limits[watched]} :
            (\A l \in Limits[watched] : l.requests <= top) =>
                spent <= top * WindowsTouched(watched, since, now)

\* Why the two bounds hold, in a form every step preserves: the debt is at most
\* the deepest bucket, and what was spent is either still owed or has drained
\* since the interval began.
RateInv ==
    AlgorithmOf[watched] = "GCRA" =>
        \A e \in Emissions(watched), tau \in Taus(watched) :
            Loosest(watched, e, tau) =>
                /\ debt[watched] <= tau
                /\ spent * e <= debt[watched] + (now - since)

\* The same of a fixed window: what was spent is owed in the current window or
\* was within the quota of a window that has closed.
QuotaInv ==
    AlgorithmOf[watched] = "FixedWindow" =>
        \A top \in {l.requests : l \in Limits[watched]} :
            (\A l \in Limits[watched] : l.requests <= top) =>
                /\ debt[watched] <= top
                /\ spent <= debt[watched] + top * (WindowsTouched(watched, since, now) - 1)

LedgerInv == LTypeOK /\ RateInv /\ QuotaInv

\* The retry hint is exact: a refusal that names a wait is an admission by that
\* bucket once the wait has passed without other traffic, and no sooner.
RetryExact ==
    \A k \in Keys : \A l \in Limits[k], c \in Costs \cap (Nat \ {0}) :
        LET v    == Judge(k, l, debt[k], c, now).current
            then(r) == Judge(k, l, Idle(k, debt[k], now, r), c, now + r).current
        IN ~v.allowed /\ ~v.exceeds =>
              /\ v.retry > 0
              /\ then(v.retry).allowed
              /\ \A r \in 0..(v.retry - 1) : ~then(r).allowed

\* A refusal marked as exceeding the capacity is one no waiting cures, and an
\* unmarked one is cured by an empty bucket.
ExceedsIsForever ==
    \A k \in Keys : \A l \in Limits[k], c \in Costs \cap (Nat \ {0}) :
        LET v == Judge(k, l, debt[k], c, now).current
        IN ~v.allowed => (v.exceeds <=> ~Judge(k, l, 0, c, now).current.allowed)

\* The reset hint is exact: left alone for that long, and no shorter, the
\* bucket is empty.
ResetExact ==
    \A k \in Keys : \A l \in Limits[k], c \in Costs \cap (Nat \ {0}) :
        LET reset == Judge(k, l, debt[k], c, now).current.reset
        IN /\ Idle(k, debt[k], now, reset) = 0
           /\ \A r \in 0..(reset - 1) : Idle(k, debt[k], now, r) > 0

\* What a verdict says of the time ahead is exact: the wait, the mark that no wait
\* helps, and the time to an empty bucket (the fields of store.Verdict).
HintsExact == RetryExact /\ ExceedsIsForever /\ ResetExact

=============================================================================

--------------------------- MODULE QuotaContract ----------------------------
(***************************************************************************)
(* What a counter store promises (the store.Store interface, its Bucket    *)
(* and its Verdict), without timestamps, windows starts, deadlines or keys *)
(* that expire.  A GCRA bucket is a leaky bucket: its debt is the time it  *)
(* still has to drain, and it drains one microsecond per microsecond.  A   *)
(* fixed-window bucket's debt is what the calendar window containing now   *)
(* has consumed, and it is forgiven at the window's boundary.              *)
(*                                                                         *)
(* A decision takes several buckets.  It is atomic: a refused request      *)
(* leaves no trace, an admitted one charges every enforcing bucket and     *)
(* every shadow bucket whose own verdict allows.                           *)
(***************************************************************************)
EXTENDS CounterTypes

VARIABLES
    now,     \* the store's own clock
    debt,    \* key -> debt in the unit of its algorithm
    answer   \* the verdicts of the last call; empty when it gave none

vars == <<now, debt, answer>>

-----------------------------------------------------------------------------
\* One bucket judged on its debt d: the verdict as the state stands, the
\* verdict if the request is charged, and the debt after the charge.

JudgeLeaky(w, d, cost) ==
    LET increment == EmissionMicros(w) * cost
        exceeds   == cost > w.burst
        left      == TauMicros(w) - d - increment
        allowed   == ~exceeds /\ left >= 0
    IN [current |-> [allowed   |-> allowed,
                     exceeds   |-> exceeds,
                     remaining |-> NonNegative((TauMicros(w) - d) \div EmissionMicros(w)),
                     retry     |-> IF allowed \/ exceeds THEN -1 ELSE -left,
                     reset     |-> d],
        charged |-> [allowed   |-> TRUE,
                     exceeds   |-> FALSE,
                     remaining |-> left \div EmissionMicros(w),
                     retry     |-> -1,
                     reset     |-> d + increment],
        next    |-> d + increment]

JudgeWindow(w, d, cost, boundary) ==
    LET left    == NonNegative(w.requests - d)
        allowed == cost <= left
        exceeds == cost > w.requests
    IN [current |-> [allowed   |-> allowed,
                     exceeds   |-> exceeds,
                     remaining |-> left,
                     retry     |-> IF allowed \/ exceeds THEN -1 ELSE boundary,
                     reset     |-> IF d = 0 THEN 0 ELSE boundary],
        charged |-> [allowed   |-> TRUE,
                     exceeds   |-> FALSE,
                     remaining |-> left - cost,
                     retry     |-> -1,
                     reset     |-> boundary],
        next    |-> d + cost]

\* A mutant: the window closes one microsecond early.
ToBoundaryEarly(k, t) == PeriodOf[k] - 1 - (t % PeriodOf[k])

ToBoundary(k, t) == PeriodOf[k] - (t % PeriodOf[k])

\* The judgement of key k at time t on debt d.
Judge(k, l, d, cost, t) ==
    IF AlgorithmOf[k] = "GCRA"
    THEN JudgeLeaky(WindowOf(k, l), d, cost)
    ELSE JudgeWindow(WindowOf(k, l), d, cost, ToBoundary(k, t))

\* The debt of key k once it has been left alone from time t for r.
Idle(k, d, t, r) ==
    IF AlgorithmOf[k] = "GCRA"
    THEN NonNegative(d - r)
    ELSE IF r >= ToBoundary(k, t) THEN 0 ELSE d

JudgeAll(b) == [k \in DOMAIN b |-> Judge(k, b[k].limit, debt[k], b[k].cost, now)]

\* The verdicts as the state stands, and the buckets a decision charges.
Current(outs) == [k \in DOMAIN outs |-> outs[k].current]

\* A mutant: a shadow bucket is charged although its own verdict refuses.
ChargedShadowRefused(b, outs) == {k \in DOMAIN b : Admitted(b, Current(outs))}

Charged(b, outs) ==
    {k \in DOMAIN b : Admitted(b, Current(outs)) /\ outs[k].current.allowed}

-----------------------------------------------------------------------------
Init ==
    /\ now = StartTime
    /\ debt = [k \in Keys |-> 0]
    /\ answer = NoAnswer

Tick ==
    /\ now < MaxTime
    /\ now' = now + 1
    /\ debt' = [k \in Keys |-> Idle(k, debt[k], now, 1)]
    /\ UNCHANGED answer

\* The decision is made; its answer may be lost on the way to the caller.
Decide(b) ==
    /\ Guard(b)
    /\ LET outs == JudgeAll(b)
           hit  == Charged(b, outs)
       IN /\ debt' = [k \in Keys |-> IF k \in hit THEN outs[k].next ELSE debt[k]]
          /\ answer' \in {[k \in DOMAIN b |-> IF k \in hit THEN outs[k].charged
                                                         ELSE outs[k].current],
                          NoAnswer}
    /\ UNCHANGED now

Peek(b) ==
    /\ Guard(b)
    /\ answer' \in {Current(JudgeAll(b)), NoAnswer}
    /\ UNCHANGED <<now, debt>>

\* A call the guard turns away, or that never reached the store.
Fail ==
    /\ answer' = NoAnswer
    /\ UNCHANGED <<now, debt>>

Reset(K) ==
    /\ debt' = [k \in Keys |-> IF k \in K THEN 0 ELSE debt[k]]
    /\ UNCHANGED <<now, answer>>

Next ==
    \/ Tick
    \/ \E b \in Calls : Decide(b) \/ Peek(b)
    \/ Fail
    \/ \E K \in SUBSET Keys : Reset(K)

Spec == Init /\ [][Next]_vars

=============================================================================

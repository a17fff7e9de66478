---------------------------- MODULE MemoryStore -----------------------------
(***************************************************************************)
(* The in-process counter store (engine/store/memory).  Every method runs  *)
(* under one mutex, so each is one action.  An entry is a theoretical      *)
(* arrival time or a window start with a count, and a deadline past which  *)
(* it counts as absent; an absent key is the zero entry.                   *)
(***************************************************************************)
EXTENDS CounterTypes

VARIABLES
    now,     \* the process clock, in Unix microseconds
    m,       \* the map: key -> entry
    answer   \* the verdicts of the last call

vars == <<now, m, answer>>

ZeroEntry == [algorithm |-> "none", tat |-> 0, start |-> 0, count |-> 0, deadline |-> 0]

\* Go's integer division truncates towards zero; \div rounds down.
GoDiv(a, b) == IF a >= 0 THEN a \div b ELSE -((-a) \div b)

-----------------------------------------------------------------------------
\* One bucket evaluated in both variants, charged and as the state stands.

EvalGCRA(e, exists, w, cost) ==
    LET emission  == EmissionMicros(w)
        tau       == TauMicros(w)
        tat       == IF exists /\ e.tat > now THEN e.tat ELSE now
        depth     == tat - now
        current   == NonNegative(GoDiv(tau - depth, emission))
        newTat    == tat + emission * cost
        diff      == now - (newTat - tau)
    IN IF cost > w.burst
       THEN [allowed       |-> FALSE,
             exceeds       |-> TRUE,
             retryAfter    |-> -1,
             remainCharged |-> 0,
             remainCurrent |-> current,
             resetCharged  |-> 0,
             resetCurrent  |-> depth,
             next          |-> ZeroEntry]
       ELSE [allowed       |-> diff >= 0,
             exceeds       |-> FALSE,
             retryAfter    |-> IF diff >= 0 THEN -1 ELSE -diff,
             remainCharged |-> NonNegative(GoDiv(diff, emission)),
             remainCurrent |-> current,
             resetCharged  |-> newTat - now,
             resetCurrent  |-> depth,
             next          |-> [ZeroEntry EXCEPT !.algorithm = "GCRA",
                                                 !.tat = newTat,
                                                 !.deadline = newTat]]

EvalFixed(e, exists, w, cost) ==
    LET start    == now - (now % w.period)
        count    == IF exists /\ e.start = start THEN e.count ELSE 0
        left     == NonNegative(w.requests - count)
        boundary == start + w.period - now
        allowed  == cost <= left
        exceeds  == cost > w.requests
    IN [allowed       |-> allowed,
        exceeds       |-> exceeds,
        retryAfter    |-> IF ~allowed /\ ~exceeds THEN boundary ELSE -1,
        remainCharged |-> left - cost,
        remainCurrent |-> left,
        resetCharged  |-> boundary,
        resetCurrent  |-> IF count = 0 THEN 0 ELSE boundary,
        next          |-> [ZeroEntry EXCEPT !.algorithm = "FixedWindow",
                                            !.start = start,
                                            !.count = count + cost,
                                            !.deadline = start + w.period]]

\* evalAll deletes an entry it finds expired or written by another algorithm.
Stale(k) ==
    /\ m[k] # ZeroEntry
    /\ m[k].deadline <= now \/ m[k].algorithm # AlgorithmOf[k]

Swept(K) == [k \in Keys |-> IF k \in K /\ Stale(k) THEN ZeroEntry ELSE m[k]]

Eval(k, bucket) ==
    LET e == Swept({k})[k]
    IN IF AlgorithmOf[k] = "GCRA"
       THEN EvalGCRA(e, e # ZeroEntry, WindowOf(k, bucket.limit), bucket.cost)
       ELSE EvalFixed(e, e # ZeroEntry, WindowOf(k, bucket.limit), bucket.cost)

EvalAll(b) == [k \in DOMAIN b |-> Eval(k, b[k])]

ChargedVerdict(o) ==
    [allowed |-> TRUE, exceeds |-> FALSE, remaining |-> o.remainCharged,
     retry |-> -1, reset |-> o.resetCharged]

CurrentVerdict(o) ==
    [allowed |-> o.allowed, exceeds |-> o.exceeds, remaining |-> o.remainCurrent,
     retry |-> o.retryAfter, reset |-> o.resetCurrent]

-----------------------------------------------------------------------------
Init ==
    /\ now = StartTime
    /\ m = [k \in Keys |-> ZeroEntry]
    /\ answer = NoAnswer

Tick ==
    /\ now < MaxTime
    /\ now' = now + 1
    /\ UNCHANGED <<m, answer>>

\* A mutant: a shadow bucket commits although its own verdict refuses.
CommitsShadowRefused(b, outs) == {k \in DOMAIN b : Admitted(b, outs)}

\* Two passes: evaluate every bucket, then commit only when no enforcing bucket
\* refused; a shadow bucket commits only when its own verdict allowed.
Commits(b, outs) == {k \in DOMAIN b : Admitted(b, outs) /\ outs[k].allowed}

Decide(b) ==
    /\ Guard(b)
    /\ LET outs == EvalAll(b)
           hit  == Commits(b, outs)
       IN /\ m' = [k \in Keys |-> IF k \in hit THEN outs[k].next
                                              ELSE Swept(DOMAIN b)[k]]
          /\ answer' = [k \in DOMAIN b |-> IF k \in hit THEN ChargedVerdict(outs[k])
                                                       ELSE CurrentVerdict(outs[k])]
    /\ UNCHANGED now

Peek(b) ==
    /\ Guard(b)
    /\ m' = Swept(DOMAIN b)
    /\ answer' = [k \in DOMAIN b |-> CurrentVerdict(EvalAll(b)[k])]
    /\ UNCHANGED now

\* Decide and Peek of a call the guard turns away.
Refuse(b) ==
    /\ ~Guard(b)
    /\ answer' = NoAnswer
    /\ UNCHANGED <<now, m>>

Reset(K) ==
    /\ m' = [k \in Keys |-> IF k \in K THEN ZeroEntry ELSE m[k]]
    /\ UNCHANGED <<now, answer>>

\* A step of a scan sweeps every expired entry of the map it walks; the keys it
\* returns change nothing.
Scan ==
    /\ m' = [k \in Keys |-> IF m[k] # ZeroEntry /\ m[k].deadline <= now
                            THEN ZeroEntry ELSE m[k]]
    /\ UNCHANGED <<now, answer>>

Next ==
    \/ Tick
    \/ \E b \in Calls : Decide(b) \/ Peek(b) \/ Refuse(b)
    \/ \E K \in SUBSET Keys : Reset(K)
    \/ Scan

Spec == Init /\ [][Next]_vars

-----------------------------------------------------------------------------
\* What an entry that still counts says, in the contract's terms.
DebtOf(k) ==
    IF m[k] = ZeroEntry THEN 0
    ELSE IF AlgorithmOf[k] = "GCRA"
         THEN NonNegative(m[k].tat - now)
         ELSE IF m[k].start = now - (now % PeriodOf[k]) THEN m[k].count ELSE 0

Contract == INSTANCE QuotaContract WITH debt <- [k \in Keys |-> DebtOf(k)]

\* The store implements the contract: every method answers the verdicts of the
\* leaky bucket and of the calendar window, and charges what they charge, though
\* it keeps absolute times, drops expired entries only when it meets them, and
\* divides the way Go does.
ImplementsContract == Contract!Spec

=============================================================================

----------------------------- MODULE RedisStore -----------------------------
(***************************************************************************)
(* The Redis counter store (engine/store/redis): the decision script,      *)
(* which Redis runs as one atomic step on its own clock, and the client    *)
(* around it.  A value is the printed theoretical arrival time, or a       *)
(* window start and a count; it carries a time to live in milliseconds.    *)
(* A reset is a pipeline of single deletions, and a call's reply can be    *)
(* lost after the script has run.                                          *)
(***************************************************************************)
EXTENDS CounterTypes

CONSTANT MicrosPerMilli   \* 1000 in the code and in Redis

ASSUME MilliAssumption == MicrosPerMilli \in Nat \ {0}

VARIABLES
    now,       \* Redis TIME, in microseconds
    db,        \* key -> value
    answer,    \* the verdicts of the last call
    deleting   \* the keys a running reset has yet to delete

vars == <<now, db, answer, deleting>>

Nil == [form |-> "nil", a |-> 0, b |-> 0, expires |-> 0]

\* A mutant: the time to live rounded down.
CeilFloor(x, y) == x \div y

Ceil(x, y) == (x + y - 1) \div y

-----------------------------------------------------------------------------
\* External: a key with a time to live exists until its millisecond of expiry
\* has passed, on the millisecond clock of the server.
Get(k) ==
    IF db[k].form # "nil" /\ now \div MicrosPerMilli <= db[k].expires
    THEN db[k] ELSE Nil

\* External: SET with PX.
SetPX(form, a, b, px) ==
    [form |-> form, a |-> a, b |-> b, expires |-> (now \div MicrosPerMilli) + px]

\* The first pass of the script over one bucket: the reply as the state stands,
\* and the charged reply and next state where the bucket's own verdict allows.
\* The arguments are those the client derives from the window.
ScriptGCRA(state, cost, emission, tau, burst) ==
    LET tat     == IF state.form = "tat" /\ state.a > now THEN state.a ELSE now
        depth   == tat - now
        new_tat == tat + emission * cost
        diff    == now - (new_tat - tau)
        exceeds == cost > burst
        allowed == ~exceeds /\ diff >= 0
    IN [reply |-> [allowed   |-> allowed,
                   exceeds   |-> exceeds,
                   remaining |-> NonNegative((tau - depth) \div emission),
                   retry     |-> IF exceeds \/ allowed THEN -1 ELSE -diff,
                   reset     |-> depth],
        rc |-> diff \div emission,
        sc |-> new_tat - now,
        next |-> SetPX("tat", new_tat, 0, Ceil(new_tat - now, MicrosPerMilli))]

ScriptFixed(state, cost, period, requests) ==
    LET start    == now - (now % period)
        count    == IF state.form = "start:count" /\ state.a = start THEN state.b ELSE 0
        left     == NonNegative(requests - count)
        boundary == start + period - now
        allowed  == cost <= left
        exceeds  == cost > requests
    IN [reply |-> [allowed   |-> allowed,
                   exceeds   |-> exceeds,
                   remaining |-> left,
                   retry     |-> IF allowed \/ exceeds THEN -1 ELSE boundary,
                   reset     |-> IF count = 0 THEN 0 ELSE boundary],
        rc |-> left - cost,
        sc |-> boundary,
        next |-> SetPX("start:count", start, count + cost, Ceil(boundary, MicrosPerMilli))]

FirstPass(b) ==
    [k \in DOMAIN b |->
        LET w == WindowOf(k, b[k].limit)
        IN IF AlgorithmOf[k] = "GCRA"
           THEN ScriptGCRA(Get(k), b[k].cost, EmissionMicros(w), TauMicros(w), w.burst)
           ELSE ScriptFixed(Get(k), b[k].cost, w.period, w.requests)]

\* The keys the commit pass writes.
Writes(b, pass) ==
    {k \in DOMAIN b : /\ \A j \in DOMAIN b : b[j].shadow \/ pass[j].reply.allowed
                      /\ pass[k].reply.allowed}

\* microsDuration normalises a negative duration.
MicrosDuration(us) == IF us < 0 THEN -1 ELSE us

\* parseReply: one verdict per bucket.
ParseReply(reply) ==
    [k \in DOMAIN reply |->
        [reply[k] EXCEPT !.retry = MicrosDuration(@), !.reset = MicrosDuration(@)]]

-----------------------------------------------------------------------------
Init ==
    /\ now = StartTime
    /\ db = [k \in Keys |-> Nil]
    /\ answer = NoAnswer
    /\ deleting = {}

Tick ==
    /\ now < MaxTime
    /\ now' = now + 1
    /\ UNCHANGED <<db, answer, deleting>>

\* The script runs; its reply reaches the caller or is lost.
Decide(b) ==
    /\ Guard(b)
    /\ LET pass == FirstPass(b)
           hit  == Writes(b, pass)
           reply == [k \in DOMAIN b |->
                       IF k \in hit
                       THEN [allowed |-> TRUE, exceeds |-> FALSE, remaining |-> pass[k].rc,
                             retry |-> -1, reset |-> pass[k].sc]
                       ELSE pass[k].reply]
       IN /\ db' = [k \in Keys |-> IF k \in hit THEN pass[k].next ELSE db[k]]
          /\ answer' \in {ParseReply(reply), NoAnswer}
    /\ UNCHANGED <<now, deleting>>

Peek(b) ==
    /\ Guard(b)
    /\ LET pass == FirstPass(b)
       IN answer' \in {ParseReply([k \in DOMAIN b |-> pass[k].reply]), NoAnswer}
    /\ UNCHANGED <<now, db, deleting>>

\* A call the guard turns away, or that fails before the script runs.
Fail ==
    /\ answer' = NoAnswer
    /\ UNCHANGED <<now, db, deleting>>

\* Reset sends one deletion per key; each is a command of its own.
Reset(K) ==
    /\ deleting = {}
    /\ deleting' = K
    /\ UNCHANGED <<now, db, answer>>

Del(k) ==
    /\ k \in deleting
    /\ db' = [db EXCEPT ![k] = Nil]
    /\ deleting' = deleting \ {k}
    /\ UNCHANGED <<now, answer>>

\* The connection fails; what was not deleted stays.
ResetFails ==
    /\ deleting # {}
    /\ deleting' = {}
    /\ UNCHANGED <<now, db, answer>>

Next ==
    \/ Tick
    \/ \E b \in Calls : Decide(b) \/ Peek(b)
    \/ Fail
    \/ \E K \in SUBSET Keys : Reset(K)
    \/ \E k \in Keys : Del(k)
    \/ ResetFails

Spec == Init /\ [][Next]_vars

-----------------------------------------------------------------------------
\* What a stored value says, in the contract's terms.  It is read off the value
\* itself and not off its time to live: the contract owes the caller its debt
\* for as long as the debt lasts.
DebtOf(k) ==
    CASE db[k].form = "tat" -> NonNegative(db[k].a - now)
      [] db[k].form = "start:count" ->
            IF db[k].a = now - (now % PeriodOf[k]) THEN db[k].b ELSE 0
      [] OTHER -> 0

Contract == INSTANCE QuotaContract WITH debt <- [k \in Keys |-> DebtOf(k)]

\* The script implements the contract, so it agrees with the in-process store
\* verdict for verdict: no debt is forgotten when a key's time to live, in whole
\* milliseconds, ends, none is remembered when a key outlives its window, a
\* decision whose reply was lost has charged once, and a reset racing decisions
\* is a sequence of resets of single keys.
ImplementsContract == Contract!Spec

=============================================================================

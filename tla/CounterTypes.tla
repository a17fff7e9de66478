---------------------------- MODULE CounterTypes ----------------------------
(***************************************************************************)
(* What every counter store shares (engine/store): the buckets of a call,  *)
(* the verdicts it answers, the guard on its arguments.                    *)
(*                                                                         *)
(* A counter key carries its algorithm and its period, so both are         *)
(* functions of the key; requests and burst are not part of the key.  The  *)
(* keys of one call are distinct here by construction.                     *)
(***************************************************************************)
EXTENDS Algorithms

CONSTANTS
    Keys,         \* counter keys
    AlgorithmOf,  \* the algorithm segment of a key
    PeriodOf,     \* the period segment of a key, in microseconds
    Limits,       \* the requests and burst a key may be tuned to: a tuned
                  \* limit keeps the key, and replicas that have and have not
                  \* applied a new configuration judge one key by two limits
    Costs,        \* the costs a bucket of a call may carry
    Calls,        \* the bucket lists that calls carry
    StartTime,    \* the store's clock at the beginning
    MaxTime       \* bound: the clock stops here

WindowOf(k, l) ==
    [requests |-> l.requests, period |-> PeriodOf[k], burst |-> l.burst]

\* What one bucket of a call carries.
Bucket(k) == [limit: Limits[k], shadow: BOOLEAN, cost: Costs]

ASSUME QuotaConstants ==
    /\ AlgorithmOf \in [Keys -> AlgorithmNames]
    /\ PeriodOf \in [Keys -> Int]
    /\ \A k \in Keys :
          /\ Limits[k] \subseteq [requests: Int, burst: Int]
          /\ \A l \in Limits[k] : Check(AlgorithmOf[k], WindowOf(k, l))
    /\ Costs \subseteq Int
    /\ \A b \in Calls :
          /\ b \in [DOMAIN b -> UNION {Bucket(k) : k \in Keys}]
          /\ DOMAIN b \subseteq Keys
          /\ \A k \in DOMAIN b : b[k] \in Bucket(k)
    /\ StartTime \in Nat
    /\ MaxTime \in Nat

-----------------------------------------------------------------------------
Verdict == [allowed: BOOLEAN, exceeds: BOOLEAN,
            remaining: Nat, retry: Int, reset: Nat]

\* The verdicts of a call that gave none.
NoAnswer == [k \in {} |-> 0]

\* GuardBuckets: every cost is positive and every window would survive the
\* arithmetic.
Guard(b) ==
    \A k \in DOMAIN b :
        /\ b[k].cost >= 1
        /\ b[k].limit.requests >= 1
        /\ PeriodOf[k] >= 1

\* Admitted: no enforcing bucket refuses.
Admitted(b, verdicts) ==
    \A k \in DOMAIN b : b[k].shadow \/ verdicts[k].allowed

NonNegative(x) == IF x < 0 THEN 0 ELSE x

=============================================================================

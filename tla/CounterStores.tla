--------------------------- MODULE CounterStores ----------------------------
(***************************************************************************)
(* The two counter stores an engine may be given (engine/store/redis and   *)
(* engine/store/memory).  A behaviour runs on one of them, and the other   *)
(* one stands still.                                                       *)
(***************************************************************************)
EXTENDS RedisStore

VARIABLES
    backend,   \* the store of this behaviour
    mnow, m, manswer   \* the in-process store's clock, map and last answer

Memory == INSTANCE MemoryStore WITH now <- mnow, answer <- manswer

mvars == <<mnow, m, manswer>>

SInit == Init /\ Memory!Init /\ backend \in {"redis", "memory"}

SNext ==
    /\ UNCHANGED backend
    /\ \/ backend = "redis" /\ Next /\ UNCHANGED mvars
       \/ backend = "memory" /\ Memory!Next /\ UNCHANGED vars

SSpec == SInit /\ [][SNext]_<<backend, vars, mvars>>

\* The in-process store implements the contract: every method answers the
\* verdicts and leaves the debts that the contract's action does.
MemoryImplements == Memory!ImplementsContract

=============================================================================

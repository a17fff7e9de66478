--------------------------- MODULE CommandRecords ---------------------------
(***************************************************************************)
(* The records of the mutating commands of one domain                      *)
(* (service/internal/records): what an Idempotency-Key is bound to, the    *)
(* confirmation tokens, the domain's sweep lease, and the deletions of the *)
(* batches.  Every script is one atomic step of the store.                 *)
(*                                                                         *)
(* A command is [dry, selection, token]; the hash the code stores stands   *)
(* for exactly these.  A fencing token is a number, 0 for none, and the    *)
(* token a preview mints carries the number of its sweep, both being       *)
(* random and never drawn twice.  Progress is the number of keys counted.  *)
(* Traffic and time create and expire counters at will, so whether a key   *)
(* exists is a free choice wherever the code meets it, and a key named in  *)
(* a batch that deletes is gone after it, if it was there at all.          *)
(***************************************************************************)
EXTENDS Integers, FiniteSets, Sequences

CONSTANTS
    Callers,      \* calls that may run at one time
    IdemKeys,     \* Idempotency-Keys
    Counters,     \* counter keys of the domain
    Selections,   \* canonical selections
    Versions,     \* rule set versions
    MaxFencings   \* bound: sweeps that may be attempted

VARIABLES
    record,    \* Idempotency-Key -> its record
    lease,     \* the fencing token that holds the domain, 0 when none does
    tokens,    \* the live confirmation tokens
    accepted,  \* ghost: the acceptances, in order
    ran        \* ghost: fencing -> the keys its batches named, and how many they counted

rvars == <<record, lease, tokens, accepted, ran>>

Fencings == 1..MaxFencings

Command == [dry : BOOLEAN, selection : Selections, token : 0..MaxFencings]

Causes == {"none", "work_limit", "interrupted"}

\* A failure is one error instance, named here by the call that drew its id.
Outcome ==
    [cause : Causes, progress : Nat, token : 0..MaxFencings, error : Callers \cup {"none"}]

NoOutcome == [cause |-> "none", progress |-> 0, token |-> 0, error |-> "none"]

NoRecord == [found |-> FALSE]

Record ==
    [found : {TRUE}, command : Command, fencing : Fencings, progress : Nat,
     terminal : BOOLEAN, outcome : Outcome]

\* Record.Alive: the sweep that owns the record still holds the domain.
Alive(r, holder) == ~r.terminal /\ r.fencing = holder

-----------------------------------------------------------------------------
RInit ==
    /\ record = [k \in IdemKeys |-> NoRecord]
    /\ lease = 0
    /\ tokens = {}
    /\ accepted = <<>>
    /\ ran = [f \in Fencings |-> [named |-> {}, counted |-> 0]]

TokenOf(id) == {t \in tokens : t.id = id}

\* The order of acceptScript's checks: the binding, the lease, the token.
AcceptVerdict(k, command) ==
    IF record[k].found THEN "existing"
    ELSE IF lease # 0 THEN "busy"
    ELSE IF command.token # 0 /\ TokenOf(command.token) = {} THEN "no_token"
    ELSE "accepted"

\* A mutant: the token is checked and not consumed.
AcceptScriptKeepsToken(k, command, fencing, version) ==
    IF AcceptVerdict(k, command) = "accepted"
    THEN /\ record' = [record EXCEPT ![k] =
              [found |-> TRUE, command |-> command, fencing |-> fencing, progress |-> 0,
               terminal |-> FALSE, outcome |-> NoOutcome]]
         /\ lease' = fencing
         /\ accepted' = Append(accepted,
              [key |-> k, command |-> command, fencing |-> fencing, version |-> version])
         /\ UNCHANGED <<tokens, ran>>
    ELSE UNCHANGED rvars

\* acceptScript: the token is consumed, the key bound and the domain claimed in
\* one write.
AcceptScript(k, command, fencing, version) ==
    IF AcceptVerdict(k, command) = "accepted"
    THEN /\ tokens' = tokens \ TokenOf(command.token)
         /\ record' = [record EXCEPT ![k] =
              [found |-> TRUE, command |-> command, fencing |-> fencing, progress |-> 0,
               terminal |-> FALSE, outcome |-> NoOutcome]]
         /\ lease' = fencing
         /\ accepted' = Append(accepted,
              [key |-> k, command |-> command, fencing |-> fencing, version |-> version])
         /\ UNCHANGED ran
    ELSE UNCHANGED rvars

\* A mutant: the deletions come before the proof of the lease.
BatchScriptDeletesFirst(k, fencing, named, progress) ==
    /\ record' = IF lease = fencing THEN [record EXCEPT ![k].progress = progress] ELSE record
    /\ ran' = [ran EXCEPT ![fencing].named = @ \cup named,
                          ![fencing].counted = IF lease = fencing THEN progress ELSE @]
    /\ UNCHANGED <<lease, tokens, accepted>>

\* batchScript: proves the lease, deletes and records the progress.
BatchScript(k, fencing, named, progress) ==
    IF lease = fencing
    THEN /\ record' = [record EXCEPT ![k].progress = progress]
         /\ ran' = [ran EXCEPT ![fencing].named = @ \cup named,
                               ![fencing].counted = progress]
         /\ UNCHANGED <<lease, tokens, accepted>>
    ELSE UNCHANGED rvars

\* commitScript: the outcome and the release, under the writer's own lease.
CommitScript(k, fencing, outcome) ==
    IF lease = fencing
    THEN /\ record' = [record EXCEPT ![k].terminal = TRUE, ![k].outcome = outcome]
         /\ lease' = 0
         /\ UNCHANGED <<tokens, accepted, ran>>
    ELSE UNCHANGED rvars

\* A mutant: no comparison with the outcome already recorded.
FinalizeScriptBlind(k, outcome) ==
    IF record[k].found /\ lease = 0
    THEN /\ record' = [record EXCEPT ![k].terminal = TRUE, ![k].outcome = outcome]
         /\ UNCHANGED <<lease, tokens, accepted, ran>>
    ELSE UNCHANGED rvars

\* finalizeScript: the outcome of a dead sweep, against the still empty one.
FinalizeScript(k, outcome) ==
    IF record[k].found /\ ~record[k].terminal /\ lease = 0
    THEN /\ record' = [record EXCEPT ![k].terminal = TRUE, ![k].outcome = outcome]
         /\ UNCHANGED <<lease, tokens, accepted, ran>>
    ELSE UNCHANGED rvars

\* Put, of a confirmation token.
Put(id, selection, version) ==
    /\ tokens' = tokens \cup {[id |-> id, selection |-> selection, version |-> version]}
    /\ UNCHANGED <<record, lease, accepted, ran>>

-----------------------------------------------------------------------------
\* Time in the store.
LeaseExpires ==
    /\ lease # 0
    /\ lease' = 0
    /\ UNCHANGED <<record, tokens, accepted, ran>>

TokenExpires(t) ==
    /\ tokens' = tokens \ {t}
    /\ UNCHANGED <<record, lease, accepted, ran>>

=============================================================================

----------------------------- MODULE BulkReset ------------------------------
(***************************************************************************)
(* The bulk reset handler (service/internal/management, handleBulkReset)   *)
(* over the command records: a preview that mints a confirmation token,    *)
(* the execution it authorizes, the sweep both run under the domain's      *)
(* lease, and the retries that poll, replay or finalize.                   *)
(*                                                                         *)
(* Calls run at one time, on one replica or several.  Between two store    *)
(* calls anything may happen: a call may not reach the store, its reply    *)
(* may be lost, the store may run it after its caller gave up, the client  *)
(* library may repeat it, and the process may die.                         *)
(***************************************************************************)
EXTENDS CommandRecords

CONSTANTS
    Selected,     \* selection -> the counters it selects
    Limited,      \* the selections with the limited filter
    Admits,       \* rule set version -> the selections handleBulkReset lets through to
                  \* the records: none without the domain, else the normalized ones
    SweepBatch,   \* sweepBatch
    Worlds        \* what surrounds the handler in a behaviour:
                  \*   requests, what clients send, tokens apart: [key, dry, selection]
                  \*   versions, the rule set versions some replica enforces
                  \*   repeats, bound: keys a walk returns again
                  \*   late, whether the store may run a call its caller gave up on
                  \*   faults, bound: faults of the store, the network and the process

ASSUME BulkConstants ==
    /\ MaxFencings \in Nat /\ SweepBatch \in Nat
    /\ IsFiniteSet(Counters)
    /\ Selected \in [Selections -> SUBSET Counters]
    /\ Admits \in [Versions -> SUBSET Selections]
    /\ Worlds \subseteq
         [requests : SUBSET [key : IdemKeys, dry : BOOLEAN, selection : Selections],
          versions : SUBSET Versions, repeats : Nat, late : BOOLEAN, faults : Nat]

VARIABLES
    call,      \* caller -> the handler's locals
    inflight,  \* calls the store may still run, whose callers gave up
    world      \* the world of this behaviour, with the faults and versions it has left

bvars == <<record, lease, tokens, accepted, ran, call, inflight, world>>

\* A finished call keeps its answer until the caller's next one.
Answer(kind) == [pc |-> "answered", kind |-> kind]

Replay(c, outcome) ==
    [pc |-> "answered", kind |-> "outcome", key |-> c.key, command |-> c.command, outcome |-> outcome]

At(p, pc) == call[p].pc = pc

Goto(p, c) == call' = [call EXCEPT ![p] = c]

To(p, pc) == Goto(p, [call[p] EXCEPT !.pc = pc])

Quiet == UNCHANGED <<inflight, world>>

-----------------------------------------------------------------------------
BInit ==
    /\ RInit
    /\ call = [p \in Callers |-> Answer("none")]
    /\ inflight = {}
    /\ world \in Worlds

\* The tokens a client can know of, from the outcomes of previews.
KnownTokens == {record[k].outcome.token : k \in {j \in IdemKeys : record[j].found}} \ {0}

\* A request that parses arrives, on a replica that enforces some version: snapshot
\* and unnormalized refuse it before the record is read, a retry too.
Begin(p, req, token, version) ==
    /\ At(p, "answered")
    /\ req.dry <=> token = 0
    /\ Goto(p, IF req.selection \notin Admits[version] THEN Answer("refused")
               ELSE [pc |-> "lookup", self |-> p, key |-> req.key, version |-> version,
                     command |-> [dry |-> req.dry, selection |-> req.selection, token |-> token],
                     fencing |-> 0, seen |-> NoRecord, left |-> Selected[req.selection],
                     batch |-> {}, size |-> 0, skipped |-> {}, repeats |-> 0, over |-> FALSE,
                     counted |-> 0, cause |-> "none"])
    /\ Quiet /\ UNCHANGED rvars

\* The last replica that enforced this version moves on to another one.
Retire(version) ==
    /\ world.versions # {version}
    /\ world' = [world EXCEPT !.versions = @ \ {version}]
    /\ UNCHANGED <<call, inflight, rvars>>

\* newFencing, on the way to the acceptance: a value nothing refers to.
InUse ==
    {lease} \cup {t.id : t \in tokens}
    \cup {record[k].fencing : k \in {j \in IdemKeys : record[j].found}}
    \cup {call[p].fencing : p \in {q \in Callers : ~At(q, "answered")}} \cup {c.fencing : c \in inflight}

Fence(p) ==
    \E f \in Fencings \ InUse :
        /\ \A g \in Fencings \ InUse : f <= g
        /\ Goto(p, [call[p] EXCEPT !.pc = "accept", !.fencing = f])

\* Lookup, the record: a pipeline is not one step of the store.  A call that has
\* drawn a fencing token and finds it in the record goes on as accepted.
ReadRecord(p) ==
    /\ At(p, "lookup")
    /\ LET c == call[p]  r == record[c.key]
       IN \/ ~r.found /\ c.command.dry /\ Fence(p)
          \/ ~r.found /\ ~c.command.dry /\ To(p, "token")
          \/ /\ r.found
             /\ Goto(p, IF r.fencing = c.fencing THEN [c EXCEPT !.pc = "walk"]
                        ELSE [c EXCEPT !.pc = "standing", !.seen = r])
    /\ Quiet /\ UNCHANGED rvars

\* A mutant: a record without an outcome always has a live owner.
StandingPolls(p) ==
    /\ At(p, "standing")
    /\ LET c == call[p]
       IN IF c.seen.command # c.command THEN Goto(p, Answer("command_mismatch"))
          ELSE IF c.seen.terminal THEN Goto(p, Replay(c, c.seen.outcome))
          ELSE Goto(p, Answer("poll"))
    /\ Quiet /\ UNCHANGED rvars

\* Lookup, the lease, and standing: what a retry is answered.
Standing(p) ==
    /\ At(p, "standing")
    /\ LET c == call[p]
       IN IF c.seen.command # c.command THEN Goto(p, Answer("command_mismatch"))
          ELSE IF c.seen.terminal THEN Goto(p, Replay(c, c.seen.outcome))
          ELSE IF Alive(c.seen, lease) THEN Goto(p, Answer("poll"))
          ELSE Goto(p, [c EXCEPT !.pc = "finalize", !.seen = NoRecord])
    /\ Quiet /\ UNCHANGED rvars

\* Finalize: the progress a dead sweep committed, then the script, then a read.
FinalizeReads(p) ==
    /\ At(p, "finalize")
    /\ LET c == call[p]  r == record[c.key]
       IN IF r.terminal THEN Goto(p, Replay(c, r.outcome))
          ELSE Goto(p, [c EXCEPT !.pc = "finalizing", !.counted = r.progress])
    /\ Quiet /\ UNCHANGED rvars

FinalizeOf(c) ==
    FinalizeScript(c.key, [cause |-> "interrupted", progress |-> c.counted, token |-> 0,
                           error |-> c.self])

Finalize(p) ==
    /\ At(p, "finalizing")
    /\ FinalizeOf(call[p])
    /\ To(p, "finalized")
    /\ Quiet

FinalizeAnswers(p) ==
    /\ At(p, "finalized")
    /\ LET c == call[p]  r == record[c.key]
       IN Goto(p, IF r.terminal THEN Replay(c, r.outcome) ELSE Answer("poll"))
    /\ Quiet /\ UNCHANGED rvars

\* checkToken: what the token is bound to is validated before it is consumed.
CheckToken(p) ==
    /\ At(p, "token")
    /\ LET c == call[p]
           found == TokenOf(c.command.token)
           refusal == IF found = {} THEN "gone"
                      ELSE IF \E t \in found : t.selection # c.command.selection
                      THEN "stale_confirmation"
                      ELSE IF \E t \in found : t.version # c.version
                      THEN "stale_rule_set"
                      ELSE "none"
       IN \/ refusal = "none" /\ Fence(p)
          \/ refusal # "none" /\ Goto(p, Answer(refusal))
    /\ Quiet /\ UNCHANGED rvars

AcceptOf(c) == AcceptScript(c.key, c.command, c.fencing, c.version)

Accept(p) ==
    /\ At(p, "accept")
    /\ AcceptOf(call[p])
    /\ LET c == call[p]  verdict == AcceptVerdict(c.key, c.command)
       IN Goto(p, CASE verdict = "existing" -> [c EXCEPT !.pc = "lookup"]
                    [] verdict = "busy"     -> Answer("sweep_in_flight")
                    [] verdict = "no_token" -> Answer("gone")
                    [] verdict = "accepted" -> [c EXCEPT !.pc = "walk"])
    /\ Quiet

-----------------------------------------------------------------------------
\* What the handler does when a store call gives it no answer: inside the walk
\* and the minting the command fails, everywhere else the call ends, and the
\* record is left as it is.
OnError(c) ==
    IF c.pc \in {"walk", "judge", "batch", "mint"}
    THEN [c EXCEPT !.pc = "readback", !.cause = "interrupted"]
    ELSE Answer("unavailable")

\* What the walker counts of a batch, before the store runs it: batch holds the
\* keys of it and size their number, and a key the walk returned twice counts
\* twice.
Counted(c, keep, size) ==
    [c EXCEPT !.batch = keep,
              !.size = size,
              !.skipped = @ \cup (c.batch \ keep),
              !.counted = @ + size,
              !.pc = IF keep = {} THEN "walk" ELSE "batch"]

\* commitBatch: the limited filter has to peek first.
CommitBatch(c) ==
    IF c.command.selection \in Limited THEN [c EXCEPT !.pc = "judge"]
    ELSE Counted(c, c.batch, c.size)

\* consider and walk, of one key: it is gone or does not match, or it joins the
\* batch, which is committed when it is full.
Visit(p, c) ==
    \E k \in Selected[c.command.selection] :
        LET seen == [c EXCEPT !.left = @ \ {k},
                              !.repeats = IF k \in c.left THEN @ ELSE @ + 1]
            d == [seen EXCEPT !.batch = @ \cup {k}, !.size = @ + 1]
        IN /\ k \in c.left \/ c.repeats < world.repeats
           /\ \/ k \in c.left /\ Goto(p, [seen EXCEPT !.skipped = @ \cup {k}])
              \/ Goto(p, IF d.size < SweepBatch THEN d ELSE CommitBatch(d))

\* A mutant: the remainder of the last batch is dropped.
WalkDropsRemainder(p) ==
    /\ At(p, "walk")
    /\ LET c == call[p]
       IN \/ ~c.over /\ Visit(p, c)
          \/ (c.over \/ c.left = {}) /\ To(p, IF c.command.dry THEN "mint" ELSE "commit")
    /\ Quiet /\ UNCHANGED rvars

\* run: the walk visits the keys in the store's order, those that exist all along
\* at least once; after the last it commits what is left of the batch, and a
\* preview mints its token before the outcome is recorded.
Walk(p) ==
    /\ At(p, "walk")
    /\ LET c == call[p]
       IN \/ ~c.over /\ Visit(p, c)
          \/ /\ ~c.over /\ c.left = {} /\ c.batch # {}
             /\ Goto(p, CommitBatch([c EXCEPT !.over = TRUE]))
          \/ /\ c.over \/ (c.left = {} /\ c.batch = {})
             /\ To(p, IF c.command.dry THEN "mint" ELSE "commit")
    /\ Quiet /\ UNCHANGED rvars

\* The walk runs out of its deadline between two keys or two steps.
Deadline(p) ==
    /\ At(p, "walk") /\ ~call[p].over
    /\ Goto(p, [call[p] EXCEPT !.pc = "failing", !.cause = "work_limit"])
    /\ Quiet /\ UNCHANGED rvars

\* refusing: the keys of the batch that would refuse a request.  The store's
\* Peek rejects a batch with one key twice, and the command fails.
Judge(p) ==
    /\ At(p, "judge")
    /\ LET c == call[p]
       IN IF c.size > Cardinality(c.batch) THEN Goto(p, OnError(c))
          ELSE \E keep \in SUBSET c.batch : Goto(p, Counted(c, keep, Cardinality(keep)))
    /\ Quiet /\ UNCHANGED rvars

BatchOf(c) == BatchScript(c.key, c.fencing, c.batch, c.counted)

Batch(p) ==
    /\ At(p, "batch")
    /\ BatchOf(call[p])
    /\ LET c == call[p]
       IN Goto(p, IF lease = c.fencing
                  THEN [c EXCEPT !.pc = "walk", !.batch = {}, !.size = 0]
                  ELSE [c EXCEPT !.pc = "readback", !.cause = "interrupted"])
    /\ Quiet

MintOf(c) == Put(c.fencing, c.command.selection, c.version)

Mint(p) ==
    /\ At(p, "mint")
    /\ MintOf(call[p])
    /\ To(p, "commit")
    /\ Quiet

\* A mutant: the walker's own count, whatever failed.
ReadBackOwnCount(p) == At(p, "readback") /\ To(p, "failing") /\ Quiet /\ UNCHANGED rvars

\* recordFailure: the progress read back from the record, except at the
\* deadline, where the walker's own count is that of its last batch.
ReadBack(p) ==
    /\ At(p, "readback")
    /\ Goto(p, [call[p] EXCEPT !.pc = "failing", !.counted = record[call[p].key].progress])
    /\ Quiet /\ UNCHANGED rvars

OutcomeOf(c) ==
    [cause |-> c.cause, progress |-> c.counted,
     token |-> IF c.cause = "none" /\ c.command.dry THEN c.fencing ELSE 0,
     error |-> IF c.cause = "none" THEN "none" ELSE c.self]

CommitOf(c) == CommitScript(c.key, c.fencing, OutcomeOf(c))

\* Commit of the outcome or of the failure; a call that lost the domain answers
\* what the record says.
Commit(p) ==
    /\ call[p].pc \in {"commit", "failing"}
    /\ CommitOf(call[p])
    /\ LET c == call[p]
       IN Goto(p, IF lease = c.fencing THEN Replay(c, OutcomeOf(c))
                  ELSE [c EXCEPT !.pc = "replay"])
    /\ Quiet

ReplayFrom(p) ==
    /\ At(p, "replay")
    /\ LET c == call[p]  r == record[c.key]
       IN Goto(p, IF r.terminal THEN Replay(c, r.outcome) ELSE Answer("unavailable"))
    /\ Quiet /\ UNCHANGED rvars

-----------------------------------------------------------------------------
Writes == {"accept", "batch", "mint", "commit", "failing", "finalizing"}

Reads == {"lookup", "standing", "token", "finalize", "finalized", "readback", "replay"}

Effect(c) ==
    CASE c.pc = "accept"              -> AcceptOf(c)
      [] c.pc = "batch"               -> BatchOf(c)
      [] c.pc = "mint"                -> MintOf(c)
      [] c.pc \in {"commit", "failing"} -> CommitOf(c)
      [] c.pc = "finalizing"          -> FinalizeOf(c)

Fault ==
    /\ world.faults > 0
    /\ world' = [world EXCEPT !.faults = @ - 1]

\* The call does not reach the store, or the read's reply does not come back.
CallFails(p) ==
    /\ \/ call[p].pc \in Writes \cup Reads
       \/ At(p, "walk") /\ ~call[p].over
       \/ At(p, "judge")
    /\ Fault
    /\ Goto(p, OnError(call[p]))
    /\ UNCHANGED <<inflight, rvars>>

\* The store ran the call and the reply is lost: the client library repeats the
\* call, or gives it up.
ReplyLost(p) ==
    /\ call[p].pc \in Writes
    /\ Fault
    /\ Effect(call[p])
    /\ \E c \in {call[p], OnError(call[p])} : Goto(p, c)
    /\ UNCHANGED inflight

\* The caller's timeout passes before the store runs the call.
CallLate(p) ==
    /\ world.late
    /\ call[p].pc \in Writes
    /\ Fault
    /\ inflight' = inflight \cup {call[p]}
    /\ \E c \in {call[p], OnError(call[p])} : Goto(p, c)
    /\ UNCHANGED rvars

Deliver(c) ==
    /\ Effect(c)
    /\ inflight' = inflight \ {c}
    /\ UNCHANGED <<call, world>>

Crash(p) ==
    /\ call[p].pc # "answered"
    /\ Fault
    /\ Goto(p, Answer("none"))
    /\ UNCHANGED <<inflight, rvars>>

-----------------------------------------------------------------------------
\* The steps of the handler itself.
Step(p) ==
    \/ ReadRecord(p) \/ Standing(p)
    \/ FinalizeReads(p) \/ Finalize(p) \/ FinalizeAnswers(p)
    \/ CheckToken(p) \/ Accept(p)
    \/ Walk(p) \/ Judge(p) \/ Batch(p) \/ Mint(p)
    \/ ReadBack(p) \/ Commit(p) \/ ReplayFrom(p)

StoreAlone ==
    \/ LeaseExpires
    \/ \E t \in tokens : TokenExpires(t)

BNext ==
    \/ \E p \in Callers :
          \/ Step(p) \/ Deadline(p)
          \/ CallFails(p) \/ ReplyLost(p) \/ CallLate(p) \/ Crash(p)
          \/ \E req \in world.requests, token \in KnownTokens \cup {0}, version \in world.versions :
                Begin(p, req, token, version)
    \/ \E c \in inflight : Deliver(c)
    \/ StoreAlone /\ UNCHANGED <<call, inflight, world>>
    \/ \E version \in world.versions : Retire(version)

BSpec == BInit /\ [][BNext]_bvars

\* The lease has a time to live, a call that has begun goes on, and a client
\* retries a command until it has an outcome, on whichever replica.
Expiry == LeaseExpires /\ UNCHANGED <<call, inflight, world>>

Retry(k) ==
    /\ record[k].found /\ ~record[k].terminal
    /\ \E p \in Callers, version \in world.versions :
          Begin(p, [key |-> k, dry |-> record[k].command.dry,
                    selection |-> record[k].command.selection], record[k].command.token, version)

BFairSpec ==
    /\ BSpec
    /\ WF_bvars(Expiry)
    /\ \A p \in Callers : WF_bvars(Step(p))
    /\ \A k \in IdemKeys : SF_bvars(Retry(k))

-----------------------------------------------------------------------------
\* Types of the records and of the calls; the record of a call that sweeps is
\* bound to that call's own fencing token.
BTypeOK ==
    /\ record \in [IdemKeys -> {NoRecord} \cup Record]
    /\ lease \in 0..MaxFencings
    /\ \A p \in Callers :
          /\ call[p].pc \in Writes \cup Reads \cup {"walk", "judge", "answered"}
          /\ call[p].pc \in {"walk", "judge", "batch", "mint", "readback", "commit", "failing"} =>
                record[call[p].key].found /\ record[call[p].key].fencing = call[p].fencing

\* Two sweeps of the domain never overlap: a batch takes effect only for the
\* last command accepted, whoever still walks, however late its call arrives.
SweepsDoNotOverlap ==
    [][\A f \in Fencings :
          ran'[f] # ran[f] => accepted[Len(accepted)].fencing = f]_bvars

\* A recorded outcome is final: no late walker, repeated call or second
\* finalization changes what a retry is answered.
OutcomeIsFinal ==
    [][\A k \in IdemKeys :
          record[k].found /\ record[k].terminal => record'[k] = record[k]]_bvars

\* A confirmation token starts at most one execution.
SingleUse ==
    \A i \in 1..Len(accepted) : \A j \in 1..(i - 1) :
        accepted[i].command.token # 0 => accepted[j].command.token # accepted[i].command.token

\* An Idempotency-Key starts at most one sweep, and a confirmation token an
\* execution of the selection and under the rule set version its preview looked
\* at, and one only, where no minting runs after its caller has repeated it.
RunsOnce ==
    BTypeOK /\ (~world.late => SingleUse) /\ \A i \in 1..Len(accepted) :
        LET a == accepted[i]
        IN /\ \A j \in 1..(i - 1) : accepted[j].key # a.key
           /\ ~a.command.dry =>
                \E j \in 1..(i - 1) :
                    LET b == accepted[j]
                    IN /\ b.command.dry
                       /\ b.fencing = a.command.token
                       /\ b.command.selection = a.command.selection
                       /\ b.version = a.version

\* Whatever call answers an outcome, the first, a retry or the walker that lost
\* its lease, the answer is the one recorded.
AnswersAgree ==
    [][\A p \in Callers :
          LET c == call'[p]
          IN c # call[p] /\ c.pc = "answered" /\ c.kind = "outcome" =>
               LET r == record'[c.key]
               IN r.terminal /\ r.outcome = c.outcome /\ r.command = c.command]_bvars

\* A command has one outcome for everybody: it is recorded once, and it is what
\* every call answers (resets.go Commit, Finalize and the replay).
OneOutcome == OutcomeIsFinal /\ AnswersAgree

\* A recorded outcome, failure or not, discloses exactly what the batches of its
\* sweep that the store ran had counted, where no batch runs after its walker has
\* given it up.
ProgressExact ==
    \A k \in IdemKeys :
        ~world.late /\ record[k].found /\ record[k].terminal =>
            record[k].outcome.progress = ran[record[k].fencing].counted

\* A sweep that completes has dealt with its whole selection: every key of it
\* was named in a batch, or was gone when the walk or the filter met it.
SweepComplete ==
    \A p \in Callers :
        At(p, "mint") \/ (At(p, "commit") /\ ~call[p].command.dry) =>
            Selected[call[p].command.selection] \subseteq
                ran[call[p].fencing].named \cup call[p].skipped

\* Every rule set that is enforced lets the command's selection through.
LetThrough(k) ==
    record[k].found => \A v \in world.versions : record[k].command.selection \in Admits[v]

\* Every accepted command gets an outcome, whatever becomes of its walker and
\* whichever rule sets refuse its retries on the way, as long as its client retries
\* and the replicas end up with rule sets that let the selection through (standing,
\* Finalize).
Recovered ==
    \A k \in IdemKeys :
        <>[]LetThrough(k) => (record[k].found ~> record[k].found /\ record[k].terminal)

=============================================================================

---------------------------- MODULE BulkLemmas ------------------------------
(***************************************************************************)
(* The inductive invariant of the bulk reset, what the store guarantees to *)
(* the calls it does not run, and the steps of a call up to its acceptance.*)
(***************************************************************************)
EXTENDS BulkReset, TLAPS

-----------------------------------------------------------------------------
(* Types.                                                                  *)

Acceptance == [key : IdemKeys, command : Command, fencing : Fencings, version : Versions]

Token == [id : Fencings, selection : Selections, version : Versions]

OpenCall ==
    [pc : Writes \cup Reads \cup {"walk", "judge"}, self : Callers, key : IdemKeys,
     version : Versions, command : Command, fencing : 0..MaxFencings,
     seen : {NoRecord} \cup Record, left : SUBSET Counters, batch : SUBSET Counters, size : Nat,
     skipped : SUBSET Counters, repeats : Nat, over : BOOLEAN, counted : Nat, cause : Causes]

AnswerCall ==
    [pc : {"answered"},
     kind : {"none", "refused", "command_mismatch", "poll", "gone", "stale_confirmation",
             "stale_rule_set", "sweep_in_flight", "unavailable"}]

OutcomeCall ==
    [pc : {"answered"}, kind : {"outcome"}, key : IdemKeys, command : Command, outcome : Outcome]

WorldType ==
    [requests : SUBSET [key : IdemKeys, dry : BOOLEAN, selection : Selections],
     versions : SUBSET Versions, repeats : Nat, late : BOOLEAN, faults : Nat]

StoreTypes ==
    /\ record \in [IdemKeys -> {NoRecord} \cup Record]
    /\ lease \in 0..MaxFencings
    /\ tokens \subseteq Token
    /\ accepted \in Seq(Acceptance)
    /\ ran \in [Fencings -> [named : SUBSET Counters, counted : Nat]]

HandlerTypes ==
    /\ call \in [Callers -> OpenCall \cup AnswerCall \cup OutcomeCall]
    /\ inflight \subseteq {c \in OpenCall : c.pc \in Writes}
    /\ world \in WorldType
    /\ ~world.late => inflight = {}

-----------------------------------------------------------------------------
(* What the store guarantees, whoever calls it.                            *)

\* The record of a key and its acceptance stand for each other.
Bindings ==
    /\ \A k \in IdemKeys : record[k].found => \E i \in 1..Len(accepted) : accepted[i].key = k
    /\ \A i \in 1..Len(accepted) :
          LET a == accepted[i]
          IN record[a.key].found /\ record[a.key].fencing = a.fencing
             /\ record[a.key].command = a.command
    /\ \A i, j \in 1..Len(accepted) : i # j => accepted[i].key # accepted[j].key
    /\ \A j, k \in IdemKeys :
          record[j].found /\ record[k].found /\ record[j].fencing = record[k].fencing => j = k

\* The domain is held by the last command accepted, which has no outcome yet.
Holding ==
    lease # 0 =>
        /\ accepted # <<>> /\ accepted[Len(accepted)].fencing = lease
        /\ \A k \in IdemKeys : record[k].found /\ record[k].fencing = lease => ~record[k].terminal

\* The acceptance of the preview a token or an execution rests on.
Authorizes(a, token, selection, version) ==
    a.command.dry /\ a.fencing = token /\ a.command.selection = selection /\ a.version = version

TokensPreviewed ==
    \A t \in tokens : \E i \in 1..Len(accepted) :
        Authorizes(accepted[i], t.id, t.selection, t.version)

ExecutionsAuthorized ==
    \A i \in 1..Len(accepted) :
        ~accepted[i].command.dry =>
            \E j \in 1..(i - 1) :
                Authorizes(accepted[j], accepted[i].command.token, accepted[i].command.selection,
                           accepted[i].version)

\* The progress of a record is what its batches counted; a token nobody was
\* accepted with has run nothing.
ProgressOfRuns ==
    /\ \A k \in IdemKeys : record[k].found => record[k].progress = ran[record[k].fencing].counted
    /\ \A f \in Fencings :
          (\A k \in IdemKeys : record[k].found => record[k].fencing # f)
              => ran[f] = [named |-> {}, counted |-> 0]

\* A preview discloses the token of its own fencing, with its outcome, and a
\* token that was spent had been disclosed.
TokensDisclosed ==
    /\ \A k \in IdemKeys :
          record[k].found /\ record[k].outcome.token # 0
              => record[k].terminal /\ record[k].outcome.token = record[k].fencing
    /\ \A i \in 1..Len(accepted) :
          accepted[i].command.token # 0
              => \E k \in IdemKeys :
                    record[k].found /\ record[k].outcome.token = accepted[i].command.token

\* Without late calls: a spent token is gone for good, and an outcome carries the
\* progress of its record.
Timely ==
    ~world.late =>
        /\ SingleUse
        /\ \A t \in tokens, i \in 1..Len(accepted) : accepted[i].command.token # t.id
        /\ \A k \in IdemKeys :
              record[k].found /\ record[k].terminal => record[k].outcome.progress = record[k].progress

StoreInv ==
    /\ StoreTypes /\ Bindings /\ Holding /\ TokensPreviewed /\ ExecutionsAuthorized
    /\ ProgressOfRuns /\ TokensDisclosed /\ Timely

-----------------------------------------------------------------------------
(* What holds of the calls, those whose callers gave up included.          *)

Open(p) == call[p].pc # "answered"

Ongoing == {call[p] : p \in {q \in Callers : Open(q)}}

Live == Ongoing \cup inflight

Sweeping == {"walk", "judge", "batch", "mint", "readback", "commit", "failing", "replay"}

\* The call's own acceptance has taken place.
Own(c) == record[c.key].found /\ record[c.key].fencing = c.fencing

\* A call's fencing token is its own; a call that sweeps was accepted; one that
\* asks to be has a preview behind it.
CallOk(c) ==
    /\ \A i \in 1..Len(accepted) :
          accepted[i].fencing = c.fencing =>
              accepted[i].key = c.key /\ accepted[i].command = c.command
              /\ accepted[i].version = c.version
    /\ c.pc \in Sweeping => Own(c)
    /\ c.pc = "mint" => c.command.dry
    /\ c.pc = "accept" =>
          /\ c.fencing # 0
          /\ ~c.command.dry =>
                \E i \in 1..Len(accepted) :
                    Authorizes(accepted[i], c.command.token, c.command.selection, c.version)
    /\ c.command.token # 0 =>
          \E k \in IdemKeys : record[k].found /\ record[k].outcome.token = c.command.token

\* Two live calls with one fencing token are one call of the handler.
SameCall(c, d) ==
    c.fencing # 0 /\ c.fencing = d.fencing =>
        c.key = d.key /\ c.command = d.command /\ c.version = d.version

\* The retries: what was read of the record is still so, or the sweep has ended.
RetryOk(c) ==
    /\ c.pc = "standing" =>
          /\ c.seen.found /\ record[c.key].found
          /\ c.seen.command = record[c.key].command /\ c.seen.fencing = record[c.key].fencing
          /\ c.seen.terminal => record[c.key] = c.seen
    /\ c.pc \in {"finalize", "finalizing", "finalized"} =>
          record[c.key].found /\ record[c.key].command = c.command
    /\ c.pc \in {"finalize", "finalizing"} => record[c.key].fencing # lease

\* The walk: what it has not met it will meet, and what it met is in the batch, was
\* named in one, or was gone.
WalkOk(c) ==
    /\ c.pc \in {"lookup", "token", "accept"} =>
          c.left = Selected[c.command.selection] /\ c.batch = {} /\ ~c.over
    /\ c.pc \in {"walk", "judge", "batch"} =>
          Selected[c.command.selection]
              \subseteq ran[c.fencing].named \cup c.skipped \cup c.left \cup c.batch
    /\ c.pc = "mint" \/ (c.pc = "commit" /\ ~c.command.dry) =>
          Selected[c.command.selection] \subseteq ran[c.fencing].named \cup c.skipped
    /\ c.over => c.left = {}
    /\ c.pc = "walk" /\ c.over => c.batch = {}
    /\ c.pc \in {"readback", "failing"} => c.cause # "none"

\* The count, without late calls: that of the record wherever it is recorded, and
\* the token of a preview is disclosed after its minting only.
CountOk(c) ==
    /\ c.pc \in {"lookup", "token", "accept"} => c.counted = 0
    /\ c.pc = "finalizing" => c.counted = record[c.key].progress
    /\ Own(c) /\ c.pc \in {"lookup", "accept", "walk", "judge", "mint", "commit", "failing"}
          => c.counted = record[c.key].progress
    /\ Own(c) /\ c.pc \notin {"commit", "replay"} => record[c.key].outcome.token = 0

CallerOk(c) == RetryOk(c) /\ WalkOk(c) /\ (~world.late => CountOk(c))

\* The calls that answered an outcome: it is the one recorded.
Told == {call[p] : p \in {q \in Callers : ~Open(q) /\ call[q].kind = "outcome"}}

Recorded(c) ==
    /\ record[c.key].found /\ record[c.key].terminal
    /\ record[c.key].outcome = c.outcome /\ record[c.key].command = c.command

CallsInv ==
    /\ \A c \in Live : CallOk(c)
    /\ \A c, d \in Live : SameCall(c, d)
    /\ \A p, q \in Callers :
          p # q /\ Open(p) /\ Open(q) /\ call[p].fencing # 0 => call[p].fencing # call[q].fencing
    /\ \A c \in Ongoing : CallerOk(c)
    /\ \A c \in Told : Recorded(c)

BulkInv == StoreInv /\ HandlerTypes /\ CallsInv

-----------------------------------------------------------------------------
(* What a step of the store guarantees to every call but the one it runs:  *)
(* a is that call.                                                         *)

Guarantees(a) ==
    /\ \A k \in IdemKeys :
          record[k].found =>
              /\ record'[k].found
              /\ record'[k].fencing = record[k].fencing /\ record'[k].command = record[k].command
              /\ record[k].terminal => record'[k] = record[k]
              /\ record'[k].progress # record[k].progress =>
                    record[k].fencing = a.fencing /\ record[k].fencing = lease
              /\ record'[k].outcome.token # record[k].outcome.token =>
                    record[k].fencing = a.fencing \/ record'[k].outcome.token = 0
    /\ \A k \in IdemKeys :
          record'[k].found /\ ~record[k].found => record'[k].fencing = a.fencing /\ k = a.key
    /\ Len(accepted') \in Nat /\ Len(accepted) <= Len(accepted')
    /\ \A i \in 1..Len(accepted) : accepted'[i] = accepted[i]
    /\ \A i \in 1..Len(accepted') :
          i > Len(accepted) =>
              accepted'[i].key = a.key /\ accepted'[i].command = a.command
              /\ accepted'[i].fencing = a.fencing /\ accepted'[i].version = a.version
    /\ \A f \in Fencings : ran[f].named \subseteq ran'[f].named
    /\ lease' # lease => lease' = 0 \/ \A k \in IdemKeys : record[k].found => record[k].fencing # lease'

-----------------------------------------------------------------------------
(* Lemmas about the store.                                                 *)

\* The types a step meets.
LEMMA StoreFacts ==
    ASSUME StoreTypes
    PROVE  /\ NoRecord.found = FALSE
           /\ \A k \in IdemKeys : record[k].found => record[k] \in Record
           /\ \A k \in IdemKeys : ~record[k].found => record[k] = NoRecord
           /\ Len(accepted) \in Nat
           /\ \A i \in 1..Len(accepted) : accepted[i] \in Acceptance
           /\ \A f \in Fencings : f \in Nat /\ f # 0 /\ f \in 0..MaxFencings
           /\ MaxFencings \in Nat
<1>1. NoRecord.found = FALSE
  BY Zenon DEF NoRecord
<1>2. \A k \in IdemKeys : record[k] = NoRecord \/ record[k] \in Record
  BY Zenon DEF StoreTypes
<1>3. \A r \in Record : r.found = TRUE
  BY Zenon DEF Record
<1>4. Len(accepted) \in Nat /\ \A i \in 1..Len(accepted) : accepted[i] \in Acceptance
  BY DEF StoreTypes
<1>5. MaxFencings \in Nat /\ \A f \in Fencings : f \in Nat /\ f # 0 /\ f \in 0..MaxFencings
  BY BulkConstants DEF Fencings
<1> QED
  BY <1>1, <1>2, <1>3, <1>4, <1>5, Zenon

\* A step that leaves the store alone guarantees everything.
LEMMA QuietStore ==
    ASSUME StoreInv, UNCHANGED rvars, world'.late = world.late
    PROVE  StoreInv' /\ \A a : Guarantees(a)
<1>1. /\ record' = record /\ lease' = lease /\ tokens' = tokens /\ accepted' = accepted
      /\ ran' = ran
  BY Zenon DEF rvars
<1>2. StoreTypes'
  BY <1>1, Zenon DEF StoreInv, StoreTypes
<1>3. Bindings' /\ Holding' /\ TokensPreviewed' /\ ExecutionsAuthorized'
  BY <1>1 DEF StoreInv, Bindings, Holding, TokensPreviewed, ExecutionsAuthorized
<1>4. ProgressOfRuns' /\ TokensDisclosed'
  BY <1>1, Zenon DEF StoreInv, ProgressOfRuns, TokensDisclosed
<1>5. Timely'
  BY <1>1, Zenon DEF StoreInv, Timely, SingleUse
<1>6. \A a : Guarantees(a)
  BY <1>1, StoreFacts DEF StoreInv, Guarantees
<1> QED
  BY <1>2, <1>3, <1>4, <1>5, <1>6, Zenon DEF StoreInv

\* Time in the store: the lease and the tokens expire.
LEMMA ExpiryStore ==
    ASSUME StoreInv, LeaseExpires \/ \E t \in tokens : TokenExpires(t), world'.late = world.late
    PROVE  StoreInv' /\ \A a : Guarantees(a)
<1>1. /\ record' = record /\ lease' \in {lease, 0} /\ tokens' \subseteq tokens
      /\ accepted' = accepted /\ ran' = ran
  BY Zenon DEF LeaseExpires, TokenExpires
<1>2. StoreTypes'
  BY <1>1, BulkConstants DEF StoreInv, StoreTypes
<1>3. Bindings' /\ Holding' /\ TokensPreviewed' /\ ExecutionsAuthorized'
  BY <1>1 DEF StoreInv, Bindings, Holding, TokensPreviewed, ExecutionsAuthorized
<1>4. ProgressOfRuns' /\ TokensDisclosed'
  BY <1>1, Zenon DEF StoreInv, ProgressOfRuns, TokensDisclosed
<1>5. Timely'
  BY <1>1, Zenon DEF StoreInv, Timely, SingleUse
<1>6. \A a : Guarantees(a)
  BY <1>1, StoreFacts DEF StoreInv, Guarantees
<1> QED
  BY <1>2, <1>3, <1>4, <1>5, <1>6, Zenon DEF StoreInv

\* The acceptance of a call that sweeps.
LEMMA OwnAcceptance ==
    ASSUME StoreInv, NEW a \in OpenCall, CallOk(a), Own(a)
    PROVE  /\ a.fencing \in Fencings /\ record[a.key] \in Record
           /\ record[a.key].command = a.command
           /\ \E i \in 1..Len(accepted) :
                 /\ accepted[i].fencing = a.fencing /\ accepted[i].key = a.key
                 /\ accepted[i].command = a.command /\ accepted[i].version = a.version
           /\ \A k \in IdemKeys : record[k].found /\ record[k].fencing = a.fencing => k = a.key
<1>1. a.key \in IdemKeys
  BY Zenon DEF OpenCall
<1>2. record[a.key] \in Record /\ record[a.key].fencing = a.fencing
  BY <1>1, StoreFacts, Zenon DEF Own, StoreInv
<1>3. a.fencing \in Fencings
  BY <1>2, Zenon DEF Record
<1>4. PICK i \in 1..Len(accepted) : accepted[i].key = a.key
  BY <1>1, Zenon DEF StoreInv, Bindings, Own
<1>5. accepted[i].fencing = a.fencing /\ record[a.key].command = accepted[i].command
  BY <1>2, <1>4, Zenon DEF StoreInv, Bindings
<1>6. accepted[i].command = a.command /\ accepted[i].version = a.version
  BY <1>5, Zenon DEF CallOk
<1>7. \A k \in IdemKeys : record[k].found /\ record[k].fencing = a.fencing => k = a.key
  BY <1>1, Zenon DEF StoreInv, Bindings, Own
<1> QED
  BY <1>2, <1>3, <1>4, <1>5, <1>6, <1>7, Zenon

\* Put: the token a preview mints stands for what it looked at.
LEMMA MintStore ==
    ASSUME StoreInv, NEW a \in OpenCall, CallOk(a), Own(a), a.command.dry, MintOf(a),
           ~world.late => record[a.key].outcome.token = 0, world'.late = world.late
    PROVE  StoreInv' /\ Guarantees(a)
<1> DEFINE t == [id |-> a.fencing, selection |-> a.command.selection, version |-> a.version]
<1>1. /\ record' = record /\ lease' = lease /\ tokens' = tokens \cup {t}
      /\ accepted' = accepted /\ ran' = ran
  BY Zenon DEF MintOf, Put
<1>2. t \in Token
  BY OwnAcceptance, Zenon DEF Token, OpenCall, Command
<1>3. StoreTypes'
  BY <1>1, <1>2, Zenon DEF StoreInv, StoreTypes
<1>4. Bindings' /\ Holding' /\ ExecutionsAuthorized'
  BY <1>1, Zenon DEF StoreInv, Bindings, Holding, ExecutionsAuthorized
<1>5. TokensPreviewed'
  <2>1. \E i \in 1..Len(accepted) : Authorizes(accepted[i], t.id, t.selection, t.version)
    BY OwnAcceptance DEF Authorizes
  <2> QED
    BY <1>1, <2>1, Zenon DEF StoreInv, TokensPreviewed
<1>6. ProgressOfRuns' /\ TokensDisclosed'
  BY <1>1, Zenon DEF StoreInv, ProgressOfRuns, TokensDisclosed
<1>7. ASSUME ~world.late, NEW i \in 1..Len(accepted)
      PROVE  accepted[i].command.token # t.id
  <2> SUFFICES ASSUME accepted[i].command.token = a.fencing PROVE FALSE
    BY Zenon
  <2>1. a.fencing # 0
    BY OwnAcceptance, StoreFacts, Zenon DEF StoreInv
  <2>2. PICK k \in IdemKeys : record[k].found /\ record[k].outcome.token = a.fencing
    BY <2>1, Zenon DEF StoreInv, TokensDisclosed
  <2>3. record[k].fencing = a.fencing
    BY <2>1, <2>2, Zenon DEF StoreInv, TokensDisclosed
  <2> QED
    BY <1>7, <2>1, <2>2, <2>3, OwnAcceptance, Zenon
<1>8. Timely'
  BY <1>1, <1>7, Zenon DEF StoreInv, Timely, SingleUse
<1>9. Guarantees(a)
  BY <1>1, StoreFacts DEF StoreInv, Guarantees
<1> QED
  BY <1>3, <1>4, <1>5, <1>6, <1>8, <1>9, Zenon DEF StoreInv

\* A step that accepts nothing.
LEMMA OutcomeOnly ==
    ASSUME StoreInv, NEW a, accepted' = accepted, lease' \in {lease, 0},
           \A k \in IdemKeys : record'[k].found = record[k].found,
           \A k \in IdemKeys :
               record[k].found =>
                   /\ record'[k].fencing = record[k].fencing /\ record'[k].command = record[k].command
                   /\ record[k].terminal => record'[k] = record[k]
                   /\ record'[k].progress # record[k].progress =>
                         record[k].fencing = a.fencing /\ record[k].fencing = lease
                   /\ record'[k].outcome.token # record[k].outcome.token =>
                         record[k].fencing = a.fencing \/ record'[k].outcome.token = 0,
           \A f \in Fencings : ran[f].named \subseteq ran'[f].named
    PROVE  Guarantees(a)
<1>1. Len(accepted) \in Nat
  BY StoreFacts, Zenon DEF StoreInv
<1>2. \A k \in IdemKeys : record'[k].found <=> record[k].found
  BY Zenon
<1>3. \A i \in 1..Len(accepted') : ~(i > Len(accepted))
  BY <1>1
<1> QED
  BY <1>1, <1>2, <1>3 DEF Guarantees

\* batchScript: under the lease, of a record that has no outcome yet.
LEMMA BatchStore ==
    ASSUME StoreInv, NEW a \in OpenCall, CallOk(a), Own(a), BatchOf(a), world'.late = world.late
    PROVE  /\ StoreInv' /\ Guarantees(a)
           /\ lease = a.fencing => /\ a.batch \subseteq ran'[a.fencing].named
                                   /\ record'[a.key].progress = a.counted
                                   /\ record'[a.key].outcome = record[a.key].outcome
           /\ \A f \in Fencings : ran'[f] # ran[f] => f = lease
<1> USE DEF BatchOf, BatchScript
<1>1. CASE lease # a.fencing
  BY <1>1, QuietStore, Zenon DEF rvars
<1>2. CASE lease = a.fencing
  <2> DEFINE r == record[a.key]
             s == [r EXCEPT !.progress = a.counted]
             n == ran[a.fencing]
             m == [named |-> n.named \cup a.batch, counted |-> a.counted]
  <2>1. /\ a.fencing \in Fencings /\ r \in Record /\ a.key \in IdemKeys
        /\ a.counted \in Nat /\ a.batch \subseteq Counters
        /\ \A k \in IdemKeys : record[k].found /\ record[k].fencing = a.fencing => k = a.key
    BY OwnAcceptance, Zenon DEF OpenCall
  <2>2. /\ lease' = lease /\ tokens' = tokens /\ accepted' = accepted
        /\ record' = [record EXCEPT ![a.key].progress = a.counted]
        /\ ran' = [ran EXCEPT ![a.fencing].named = @ \cup a.batch, ![a.fencing].counted = a.counted]
    BY <1>2, Zenon
  <2>3. /\ s \in Record /\ s.progress = a.counted /\ s.found /\ s.fencing = r.fencing
        /\ s.command = r.command /\ s.terminal = r.terminal /\ s.outcome = r.outcome
    BY <2>1, Zenon DEF Record
  <2>4. /\ record' \in [IdemKeys -> {NoRecord} \cup Record] /\ record'[a.key] = s
        /\ \A k \in IdemKeys : k # a.key => record'[k] = record[k]
    BY <2>1, <2>2, <2>3, Zenon DEF StoreInv, StoreTypes
  <2>5. n \in [named : SUBSET Counters, counted : Nat] /\ m \in [named : SUBSET Counters, counted : Nat]
    BY <2>1, Zenon DEF StoreInv, StoreTypes
  <2>6. /\ ran' \in [Fencings -> [named : SUBSET Counters, counted : Nat]]
        /\ ran'[a.fencing].named = n.named \cup a.batch /\ ran'[a.fencing].counted = a.counted
        /\ \A f \in Fencings : f # a.fencing => ran'[f] = ran[f]
    BY <2>1, <2>2, <2>5, Zenon DEF StoreInv, StoreTypes
  <2>7. r.found /\ r.fencing = a.fencing /\ ~r.terminal
    BY <1>2, <2>1, StoreFacts, Zenon DEF Own, StoreInv, Holding
  <2> HIDE DEF s, m, n, r
  <2>8. StoreTypes'
    BY <2>2, <2>4, <2>6, Zenon DEF StoreInv, StoreTypes
  <2>9. \A k \in IdemKeys :
           /\ record'[k].found = record[k].found
           /\ record[k].found =>
                 /\ record'[k].fencing = record[k].fencing /\ record'[k].command = record[k].command
                 /\ record'[k].terminal = record[k].terminal /\ record'[k].outcome = record[k].outcome
    <3> TAKE k \in IdemKeys
    <3>1. CASE k # a.key
      BY <2>4, <3>1, Zenon
    <3>2. CASE k = a.key
      <4>1. record'[k] = s /\ record[k] = r
        BY <2>4, <3>2, Zenon DEF r
      <4>2. s.found = r.found
        BY <2>3, <2>7
      <4> QED
        BY <4>1, <4>2, <2>3, Zenon
    <3> QED
      BY <3>1, <3>2, Zenon
  <2>10. Bindings' /\ Holding' /\ TokensPreviewed' /\ ExecutionsAuthorized'
    BY <2>2, <2>9 DEF StoreInv, Bindings, Holding, TokensPreviewed, ExecutionsAuthorized
  <2>11. ProgressOfRuns' /\ TokensDisclosed'
    <3>1. \A k \in IdemKeys : record'[k].found => record'[k].progress = ran'[record'[k].fencing].counted
      <4> SUFFICES ASSUME NEW k \in IdemKeys, record'[k].found
                   PROVE  record'[k].progress = ran'[record'[k].fencing].counted
        BY Zenon
      <4>1. CASE k = a.key
        BY <2>3, <2>4, <2>6, <2>7, <4>1, Zenon
      <4>2. CASE k # a.key
        <5>1. record[k].found /\ record'[k] = record[k] /\ record[k].fencing # a.fencing
          BY <2>1, <2>4, <4>2, Zenon
        <5>2. record[k].fencing \in Fencings
          BY <5>1, StoreFacts, Zenon DEF StoreInv, Record
        <5> QED
          BY <2>6, <5>1, <5>2 DEF StoreInv, ProgressOfRuns
      <4> QED
        BY <4>1, <4>2, Zenon
    <3>2. \A f \in Fencings :
             (\A k \in IdemKeys : record'[k].found => record'[k].fencing # f)
                 => ran'[f] = [named |-> {}, counted |-> 0]
      BY <2>1, <2>6, <2>7, <2>9 DEF StoreInv, ProgressOfRuns, r
    <3>3. TokensDisclosed'
      BY <2>2, <2>9 DEF StoreInv, TokensDisclosed
    <3> QED
      BY <3>1, <3>2, <3>3, Zenon DEF ProgressOfRuns
  <2>12. Timely'
    BY <2>2, <2>4, <2>7, <2>9, Zenon DEF StoreInv, Timely, SingleUse, r
  <2>13. Guarantees(a)
    <3>1. \A k \in IdemKeys :
             record[k].found =>
                 /\ record[k].terminal => record'[k] = record[k]
                 /\ record'[k].progress # record[k].progress =>
                       record[k].fencing = a.fencing /\ record[k].fencing = lease
      BY <1>2, <2>4, <2>7, Zenon DEF r
    <3>2. \A f \in Fencings : ran[f].named \subseteq ran'[f].named
      BY <2>1, <2>6, Zenon DEF n
    <3> QED
      BY <2>2, <2>9, <3>1, <3>2, OutcomeOnly, Zenon
  <2> QED
    BY <1>2, <2>3, <2>4, <2>6, <2>8, <2>10, <2>11, <2>12, <2>13, Zenon DEF StoreInv, r
<1> QED
  BY <1>1, <1>2, Zenon

\* What commitScript and finalizeScript write.
OutcomePut(k, o) ==
    /\ record' = [record EXCEPT ![k].terminal = TRUE, ![k].outcome = o]
    /\ lease' = 0 /\ tokens' = tokens /\ accepted' = accepted /\ ran' = ran

\* The outcome of a record that has none, and a domain free after it.
LEMMA OutcomeWritten ==
    ASSUME StoreInv, NEW a, NEW k \in IdemKeys, NEW o \in Outcome,
           record[k].found, ~record[k].terminal,
           o.token = 0 \/ (o.token = record[k].fencing /\ record[k].fencing = a.fencing),
           ~world.late => o.progress = record[k].progress,
           OutcomePut(k, o), world'.late = world.late
    PROVE  /\ StoreInv' /\ Guarantees(a)
           /\ record'[k].terminal /\ record'[k].outcome = o
           /\ record'[k].progress = record[k].progress
<1> DEFINE r == record[k]
           s == [r EXCEPT !.terminal = TRUE, !.outcome = o]
<1>1. r \in Record
  BY StoreFacts, Zenon DEF StoreInv
<1>2. /\ s \in Record /\ s.found /\ s.command = r.command /\ s.fencing = r.fencing
      /\ s.progress = r.progress /\ s.terminal /\ s.outcome = o
  BY <1>1, Zenon DEF Record
<1>3. /\ record' \in [IdemKeys -> {NoRecord} \cup Record] /\ record'[k] = s
      /\ \A j \in IdemKeys : j # k => record'[j] = record[j]
  BY <1>2, Zenon DEF StoreInv, StoreTypes, OutcomePut
<1>0. lease' = 0 /\ tokens' = tokens /\ accepted' = accepted /\ ran' = ran
  BY Zenon DEF OutcomePut
<1> USE <1>0
<1> HIDE DEF s, r
<1>4. /\ \A j \in IdemKeys : record'[j].found = record[j].found
      /\ \A j \in IdemKeys : record[j].found =>
            /\ record'[j].fencing = record[j].fencing /\ record'[j].command = record[j].command
            /\ record'[j].progress = record[j].progress
            /\ record[j].terminal => record'[j] = record[j]
  <2>1. r.found = TRUE /\ s.found = TRUE
    BY <1>1, <1>2, Zenon DEF Record
  <2> QED
    BY <1>2, <1>3, <2>1, Zenon DEF r
<1>5. \A j \in IdemKeys : record'[j].found <=> record[j].found
  BY <1>4, Zenon
<1>6. StoreTypes'
  BY <1>3, BulkConstants DEF StoreInv, StoreTypes
<1>7. Bindings' /\ Holding' /\ TokensPreviewed' /\ ExecutionsAuthorized' /\ ProgressOfRuns'
  <2>1. Bindings'
    <3>1. ASSUME NEW i \in 1..Len(accepted) PROVE accepted[i].key \in IdemKeys
      <4>1. accepted[i] \in Acceptance
        BY StoreFacts, Zenon DEF StoreInv
      <4> QED
        BY <4>1, Zenon DEF Acceptance
    <3>2. /\ \A j \in IdemKeys : record[j].found => \E i \in 1..Len(accepted) : accepted[i].key = j
          /\ \A i \in 1..Len(accepted) :
                /\ record[accepted[i].key].found
                /\ record[accepted[i].key].fencing = accepted[i].fencing
                /\ record[accepted[i].key].command = accepted[i].command
          /\ \A i, j \in 1..Len(accepted) : i # j => accepted[i].key # accepted[j].key
          /\ \A h, j \in IdemKeys : record[h].found /\ record[j].found
                                     /\ record[h].fencing = record[j].fencing => h = j
      BY DEF StoreInv, Bindings
    <3>3. ASSUME NEW i \in 1..Len(accepted)
          PROVE  /\ record'[accepted[i].key].found
                 /\ record'[accepted[i].key].fencing = accepted[i].fencing
                 /\ record'[accepted[i].key].command = accepted[i].command
      <4>1. /\ accepted[i].key \in IdemKeys /\ record[accepted[i].key].found
            /\ record[accepted[i].key].fencing = accepted[i].fencing
            /\ record[accepted[i].key].command = accepted[i].command
        BY <3>1, <3>2, Zenon
      <4> QED
        BY <1>4, <1>5, <4>1, Zenon
    <3>4. ASSUME NEW h \in IdemKeys, NEW j \in IdemKeys, record'[h].found, record'[j].found,
                 record'[h].fencing = record'[j].fencing
          PROVE  h = j
      <4>1. record[h].found /\ record[j].found /\ record[h].fencing = record[j].fencing
        BY <1>4, <1>5, <3>4, Zenon
      <4> QED
        BY <3>2, <4>1, Zenon
    <3> QED
      BY <1>5, <3>2, <3>3, <3>4 DEF Bindings
  <2>2. Holding' /\ TokensPreviewed' /\ ExecutionsAuthorized'
    BY Zenon DEF StoreInv, Holding, TokensPreviewed, ExecutionsAuthorized
  <2>3. ProgressOfRuns'
    BY <1>4, <1>5 DEF StoreInv, ProgressOfRuns
  <2> QED
    BY <2>1, <2>2, <2>3, Zenon
<1>8. TokensDisclosed'
  <2>1. \A j \in IdemKeys : record[j].found /\ record[j].outcome.token # 0 => record'[j] = record[j]
    BY <1>3, Zenon DEF StoreInv, TokensDisclosed
  <2>2. \A j \in IdemKeys :
           record'[j].found /\ record'[j].outcome.token # 0
               => record'[j].terminal /\ record'[j].outcome.token = record'[j].fencing
    BY <1>2, <1>3, Zenon DEF StoreInv, TokensDisclosed, r
  <2>3. \A i \in 1..Len(accepted') :
           accepted'[i].command.token # 0
               => \E j \in IdemKeys :
                     record'[j].found /\ record'[j].outcome.token = accepted'[i].command.token
    BY <2>1 DEF StoreInv, TokensDisclosed
  <2> QED
    BY <2>2, <2>3, Zenon DEF TokensDisclosed
<1>9. Timely'
  BY <1>2, <1>3, Zenon DEF StoreInv, Timely, SingleUse, r
<1>10. Guarantees(a)
  <2>1. \A j \in IdemKeys :
           record[j].found /\ record'[j].outcome.token # record[j].outcome.token =>
               record[j].fencing = a.fencing \/ record'[j].outcome.token = 0
    BY <1>2, <1>3, Zenon
  <2> QED
    BY <1>4, <2>1, OutcomeOnly, Zenon
<1> QED
  BY <1>2, <1>3, <1>4, <1>6, <1>7, <1>8, <1>9, <1>10, Zenon DEF StoreInv

\* commitScript: the outcome under the sweep's own lease.
LEMMA CommitStore ==
    ASSUME StoreInv, NEW a \in OpenCall, CallOk(a), Own(a), CommitOf(a),
           ~world.late => a.counted = record[a.key].progress, world'.late = world.late
    PROVE  /\ StoreInv' /\ Guarantees(a)
           /\ record'[a.key].progress = record[a.key].progress
           /\ IF lease = a.fencing
              THEN record'[a.key].terminal /\ record'[a.key].outcome = OutcomeOf(a)
              ELSE UNCHANGED rvars
<1> USE DEF CommitOf, CommitScript
<1>1. CASE lease # a.fencing
  BY <1>1, QuietStore, Zenon DEF rvars
<1>2. CASE lease = a.fencing
  <2> DEFINE o == OutcomeOf(a)
  <2>1. a.fencing \in Fencings /\ a.key \in IdemKeys
    BY OwnAcceptance, Zenon DEF OpenCall
  <2>2. /\ o \in Outcome /\ o.progress = a.counted
        /\ o.token = 0 \/ o.token = a.fencing
    BY <2>1, StoreFacts DEF OutcomeOf, Outcome, OpenCall, Causes, StoreInv
  <2>3. record[a.key].found /\ record[a.key].fencing = a.fencing /\ ~record[a.key].terminal
    BY <1>2, <2>1, StoreFacts, Zenon DEF Own, StoreInv, Holding
  <2>4. OutcomePut(a.key, o)
    BY <1>2, Zenon DEF OutcomePut
  <2> HIDE DEF o
  <2>5. ~world.late => o.progress = record[a.key].progress
    BY <2>2, Zenon
  <2>6. /\ StoreInv' /\ Guarantees(a)
        /\ record'[a.key].terminal /\ record'[a.key].outcome = o
        /\ record'[a.key].progress = record[a.key].progress
    BY <2>1, <2>2, <2>3, <2>4, <2>5, OutcomeWritten
  <2> QED
    BY <1>2, <2>6, Zenon DEF o
<1> QED
  BY <1>1, <1>2, Zenon

\* finalizeScript: the outcome of a sweep that lost the domain.
LEMMA FinalizeStore ==
    ASSUME StoreInv, NEW a \in OpenCall, FinalizeOf(a),
           ~world.late => a.counted = record[a.key].progress, world'.late = world.late
    PROVE  /\ StoreInv' /\ Guarantees(a)
           /\ record'[a.key].progress = record[a.key].progress
           /\ \/ record'[a.key].outcome.token = 0
              \/ record'[a.key].outcome.token = record[a.key].outcome.token
<1> USE DEF FinalizeOf, FinalizeScript
<1> DEFINE o == [cause |-> "interrupted", progress |-> a.counted, token |-> 0, error |-> a.self]
<1>1. CASE ~(record[a.key].found /\ ~record[a.key].terminal /\ lease = 0)
  BY <1>1, QuietStore, Zenon DEF rvars
<1>2. CASE record[a.key].found /\ ~record[a.key].terminal /\ lease = 0
  <2>1. o \in Outcome /\ o.token = 0 /\ o.progress = a.counted /\ a.key \in IdemKeys
    BY StoreFacts DEF Outcome, OpenCall, Causes, StoreInv
  <2>2. OutcomePut(a.key, o)
    BY <1>2, Zenon DEF OutcomePut
  <2> HIDE DEF o
  <2> QED
    BY <1>2, <2>1, <2>2, OutcomeWritten
<1> QED
  BY <1>1, <1>2, Zenon

\* What an acceptance writes: the record of the key, the lease, the token gone.
Accepted(a, s, b) ==
    /\ record' = [record EXCEPT ![a.key] = s]
    /\ lease' = a.fencing /\ tokens' = tokens \ TokenOf(a.command.token)
    /\ accepted' = Append(accepted, b) /\ ran' = ran

\* acceptScript: a key nobody was accepted with, a free domain, a token that lives.
LEMMA AcceptStore ==
    ASSUME StoreInv, NEW a \in OpenCall, a.pc = "accept", CallOk(a), AcceptOf(a),
           world'.late = world.late
    PROVE  /\ StoreInv' /\ Guarantees(a)
           /\ AcceptVerdict(a.key, a.command) # "accepted" => UNCHANGED rvars
           /\ AcceptVerdict(a.key, a.command) = "accepted" =>
                 /\ record'[a.key].found /\ record'[a.key].fencing = a.fencing
                 /\ record'[a.key].progress = 0 /\ record'[a.key].outcome.token = 0
<1>1. CASE AcceptVerdict(a.key, a.command) # "accepted"
  <2>1. UNCHANGED rvars
    BY <1>1, Zenon DEF AcceptOf, AcceptScript
  <2> QED
    BY <1>1, <2>1, QuietStore, Zenon
<1>2. CASE AcceptVerdict(a.key, a.command) = "accepted"
  <2> DEFINE L == Len(accepted)
             s == [found |-> TRUE, command |-> a.command, fencing |-> a.fencing, progress |-> 0,
                   terminal |-> FALSE, outcome |-> NoOutcome]
             b == [key |-> a.key, command |-> a.command, fencing |-> a.fencing,
                   version |-> a.version]
  <2>1. Accepted(a, s, b)
    BY <1>2, Zenon DEF AcceptOf, AcceptScript, Accepted
  <2>2. /\ ~record[a.key].found /\ lease = 0
        /\ a.command.token # 0 => TokenOf(a.command.token) # {}
    BY <1>2, Zenon DEF AcceptVerdict
  <2>3. /\ a.key \in IdemKeys /\ a.fencing \in Fencings /\ a.command \in Command
        /\ a.version \in Versions /\ a.fencing \in 0..MaxFencings /\ a.fencing # 0
    BY BulkConstants DEF CallOk, OpenCall, Fencings
  <2>4. b \in Acceptance
    BY <2>3, Zenon DEF Acceptance
  <2>5. NoOutcome \in Outcome /\ NoOutcome.token = 0 /\ NoOutcome.progress = 0
    BY BulkConstants DEF NoOutcome, Outcome, Causes
  <2>6. /\ s \in Record /\ s.found /\ s.command = a.command /\ s.fencing = a.fencing
        /\ s.progress = 0 /\ ~s.terminal /\ s.outcome = NoOutcome
    BY <2>3, <2>5, Zenon DEF Record
  <2>7. /\ b.key = a.key /\ b.command = a.command /\ b.fencing = a.fencing /\ b.version = a.version
    BY Zenon
  <2> HIDE DEF s, b
  <2>8. /\ record' \in [IdemKeys -> {NoRecord} \cup Record] /\ record'[a.key] = s
        /\ \A k \in IdemKeys : k # a.key => record'[k] = record[k]
    BY <2>1, <2>3, <2>6, Zenon DEF StoreInv, StoreTypes, Accepted
  <2>9. /\ accepted' \in Seq(Acceptance) /\ L \in Nat /\ Len(accepted') = L + 1
        /\ accepted'[L + 1] = b /\ \A i \in 1..L : accepted'[i] = accepted[i]
    BY <2>1, <2>4 DEF StoreInv, StoreTypes, Accepted
  <2>10. /\ lease' = a.fencing /\ tokens' = tokens \ TokenOf(a.command.token) /\ ran' = ran
    BY <2>1, Zenon DEF Accepted
  <2> HIDE DEF L
  <2>11. /\ \A i \in 1..L : accepted[i].key # a.key /\ accepted[i].fencing # a.fencing
         /\ \A k \in IdemKeys : record[k].found => record[k].fencing # a.fencing /\ k # a.key
    <3>1. \A i \in 1..L : accepted[i].key # a.key
      BY <2>2, Zenon DEF StoreInv, Bindings, L
    <3>2. \A i \in 1..L : accepted[i].fencing # a.fencing
      BY <3>1, Zenon DEF CallOk, L
    <3>3. \A k \in IdemKeys : record[k].found => record[k].fencing # a.fencing
      BY <3>2 DEF StoreInv, Bindings, L
    <3> QED
      BY <2>2, <3>1, <3>2, <3>3, Zenon
  <2>12. StoreTypes'
    BY <2>3, <2>8, <2>9, <2>10, Zenon DEF StoreInv, StoreTypes
  <2>13. \A k \in IdemKeys : record[k].found => record'[k] = record[k]
    BY <2>8, <2>11, Zenon
  <2>14. \A k \in IdemKeys : record'[k].found => k = a.key \/ record[k].found
    BY <2>8, Zenon
  <2>15. \A i \in 1..Len(accepted') : i \in 1..L \/ i = L + 1
    BY <2>9
  <2>16. Bindings'
    <3>1. \A k \in IdemKeys : record'[k].found => \E i \in 1..Len(accepted') : accepted'[i].key = k
      <4> SUFFICES ASSUME NEW k \in IdemKeys, record'[k].found
                   PROVE  \E i \in 1..Len(accepted') : accepted'[i].key = k
        BY Zenon
      <4>1. CASE k = a.key
        BY <2>7, <2>9, <4>1
      <4>2. CASE record[k].found
        <5>1. PICK i \in 1..L : accepted[i].key = k
          BY <4>2, Zenon DEF StoreInv, Bindings, L
        <5> QED
          BY <2>9, <5>1
      <4> QED
        BY <2>14, <4>1, <4>2, Zenon
    <3>2. ASSUME NEW i \in 1..Len(accepted')
          PROVE  LET c == accepted'[i]
                 IN record'[c.key].found /\ record'[c.key].fencing = c.fencing
                    /\ record'[c.key].command = c.command
      <4>1. CASE i = L + 1
        BY <2>6, <2>7, <2>8, <2>9, <4>1, Zenon
      <4>2. CASE i \in 1..L
        <5>1. accepted[i].key \in IdemKeys
          BY <4>2, StoreFacts, Zenon DEF StoreInv, Acceptance, L
        <5> QED
          BY <2>9, <2>13, <4>2, <5>1 DEF StoreInv, Bindings, L
      <4> QED
        BY <2>15, <4>1, <4>2, Zenon
    <3>3. \A i, j \in 1..Len(accepted') : i # j => accepted'[i].key # accepted'[j].key
      BY <2>7, <2>9, <2>11, <2>15 DEF StoreInv, Bindings, L
    <3>4. \A j, k \in IdemKeys :
             record'[j].found /\ record'[k].found /\ record'[j].fencing = record'[k].fencing => j = k
      BY <2>6, <2>8, <2>11, <2>13, <2>14 DEF StoreInv, Bindings
    <3> QED
      BY <3>1, <3>2, <3>3, <3>4, Zenon DEF Bindings
  <2>17. Holding'
    <3>1. accepted' # <<>> /\ accepted'[Len(accepted')].fencing = lease'
      BY <2>7, <2>9, <2>10
    <3>2. \A k \in IdemKeys : record'[k].found /\ record'[k].fencing = lease' => ~record'[k].terminal
      BY <2>6, <2>8, <2>10, <2>11, <2>13, <2>14, Zenon
    <3> QED
      BY <3>1, <3>2, Zenon DEF Holding
  <2>18. TokensPreviewed' /\ ExecutionsAuthorized'
    <3>1. ASSUME NEW t \in tokens'
          PROVE  \E i \in 1..Len(accepted') : Authorizes(accepted'[i], t.id, t.selection, t.version)
      <4>1. PICK i \in 1..L : Authorizes(accepted[i], t.id, t.selection, t.version)
        BY <2>10, Zenon DEF StoreInv, TokensPreviewed, L
      <4> QED
        BY <2>9, <4>1
    <3>2. ASSUME NEW i \in 1..Len(accepted'), ~accepted'[i].command.dry
          PROVE  \E j \in 1..(i - 1) :
                    Authorizes(accepted'[j], accepted'[i].command.token,
                               accepted'[i].command.selection, accepted'[i].version)
      <4>1. CASE i = L + 1
        <5>1. PICK j \in 1..L :
                 Authorizes(accepted[j], a.command.token, a.command.selection, a.version)
          BY <2>7, <2>9, <3>2, <4>1, Zenon DEF CallOk, L
        <5> QED
          BY <2>7, <2>9, <4>1, <5>1
      <4>2. CASE i \in 1..L
        <5>1. accepted'[i] = accepted[i]
          BY <2>9, <4>2, Zenon
        <5>2. PICK j \in 1..(i - 1) :
                 Authorizes(accepted[j], accepted[i].command.token, accepted[i].command.selection,
                            accepted[i].version)
          BY <3>2, <4>2, <5>1, Zenon DEF StoreInv, ExecutionsAuthorized, L
        <5>3. accepted'[j] = accepted[j]
          BY <2>9, <4>2
        <5> QED
          BY <5>1, <5>2, <5>3, Zenon
      <4> QED
        BY <2>15, <4>1, <4>2, Zenon
    <3> QED
      BY <3>1, <3>2, Zenon DEF TokensPreviewed, ExecutionsAuthorized
  <2>19. ProgressOfRuns' /\ TokensDisclosed'
    <3>1. ran[a.fencing] = [named |-> {}, counted |-> 0]
      BY <2>3, <2>11, Zenon DEF StoreInv, ProgressOfRuns
    <3>2. ProgressOfRuns'
      BY <2>6, <2>8, <2>10, <2>13, <2>14, <3>1 DEF StoreInv, ProgressOfRuns
    <3>3. \A k \in IdemKeys :
             record'[k].found /\ record'[k].outcome.token # 0
                 => record'[k].terminal /\ record'[k].outcome.token = record'[k].fencing
      BY <2>5, <2>6, <2>8, <2>13, <2>14 DEF StoreInv, TokensDisclosed
    <3>4. ASSUME NEW i \in 1..Len(accepted'), accepted'[i].command.token # 0
          PROVE  \E k \in IdemKeys :
                    record'[k].found /\ record'[k].outcome.token = accepted'[i].command.token
      <4>1. PICK k \in IdemKeys :
               record[k].found /\ record[k].outcome.token = accepted'[i].command.token
        BY <2>7, <2>9, <2>15, <3>4 DEF StoreInv, TokensDisclosed, CallOk, L
      <4> QED
        BY <2>13, <4>1, Zenon
    <3> QED
      BY <3>2, <3>3, <3>4, Zenon DEF TokensDisclosed
  <2>20. Timely'
    <3> SUFFICES ASSUME ~world.late
                 PROVE  /\ SingleUse'
                        /\ \A t \in tokens', i \in 1..Len(accepted') : accepted'[i].command.token # t.id
                        /\ \A k \in IdemKeys :
                              record'[k].found /\ record'[k].terminal
                                  => record'[k].outcome.progress = record'[k].progress
      BY Zenon DEF Timely
    <3>1. \A t \in tokens, i \in 1..L : accepted[i].command.token # t.id
      BY Zenon DEF StoreInv, Timely, L
    <3>2. \A i \in 1..L : a.command.token # 0 => accepted[i].command.token # a.command.token
      BY <2>2, <3>1, Zenon DEF TokenOf
    <3>3. SingleUse'
      <4> SUFFICES ASSUME NEW i \in 1..Len(accepted'), NEW j \in 1..(i - 1),
                          accepted'[i].command.token # 0
                   PROVE  accepted'[j].command.token # accepted'[i].command.token
        BY Zenon DEF SingleUse
      <4>1. j \in 1..L /\ accepted'[j] = accepted[j]
        BY <2>9
      <4>2. CASE i = L + 1
        BY <2>7, <2>9, <3>2, <4>1, <4>2, Zenon
      <4>3. CASE i \in 1..L
        BY <2>9, <4>1, <4>3, Zenon DEF StoreInv, Timely, SingleUse, L
      <4> QED
        BY <2>15, <4>2, <4>3, Zenon
    <3>4. \A t \in tokens', i \in 1..Len(accepted') : accepted'[i].command.token # t.id
      BY <2>7, <2>9, <2>10, <2>15, <3>1, Zenon DEF TokenOf
    <3>5. \A k \in IdemKeys :
             record'[k].found /\ record'[k].terminal => record'[k].outcome.progress = record'[k].progress
      BY <2>6, <2>8, <2>13, <2>14, Zenon DEF StoreInv, Timely
    <3> QED
      BY <3>3, <3>4, <3>5, Zenon
  <2>21. Guarantees(a)
    <3>1. \A k \in IdemKeys :
             record'[k].found /\ ~record[k].found => record'[k].fencing = a.fencing /\ k = a.key
      BY <2>6, <2>8, <2>14, Zenon
    <3>2. \A i \in 1..Len(accepted') : i > Len(accepted) => i = L + 1
      BY <2>9, <2>15 DEF L
    <3>3. Len(accepted') \in Nat /\ Len(accepted) <= Len(accepted')
      BY <2>9 DEF L
    <3>4. lease' # lease => \A k \in IdemKeys : record[k].found => record[k].fencing # lease'
      BY <2>10, <2>11, Zenon
    <3>5. \A f \in Fencings : ran[f].named \subseteq ran'[f].named
      BY <2>10, Zenon
    <3>6. \A i \in 1..Len(accepted) : accepted'[i] = accepted[i]
      BY <2>9, Zenon DEF L
    <3>7. accepted'[L + 1].key = a.key /\ accepted'[L + 1].command = a.command
          /\ accepted'[L + 1].fencing = a.fencing /\ accepted'[L + 1].version = a.version
      BY <2>7, <2>9, Zenon
    <3> QED
      BY <2>13, <3>1, <3>2, <3>3, <3>4, <3>5, <3>6, <3>7, Zenon DEF Guarantees
  <2> QED
    BY <1>2, <2>5, <2>6, <2>8, <2>12, <2>16, <2>17, <2>18, <2>19, <2>20, <2>21, Zenon DEF StoreInv
<1> QED
  BY <1>1, <1>2, Zenon

-----------------------------------------------------------------------------
(* What a step of the store leaves of the calls it does not run.           *)

\* A step of the store for another call leaves what a call knows of the store.
LEMMA CallKept ==
    ASSUME StoreInv, StoreInv', NEW a, Guarantees(a), NEW c \in OpenCall, CallOk(c), SameCall(a, c)
    PROVE  CallOk(c)'
<1>1. ASSUME NEW i \in 1..Len(accepted'), accepted'[i].fencing = c.fencing
      PROVE  accepted'[i].key = c.key /\ accepted'[i].command = c.command
             /\ accepted'[i].version = c.version
  <2>0. Len(accepted) \in Nat /\ Len(accepted') \in Nat
    BY StoreFacts, Zenon DEF StoreInv, Guarantees
  <2>1. CASE i \in 1..Len(accepted)
    BY <1>1, <2>1 DEF CallOk, Guarantees
  <2>2. CASE i > Len(accepted)
    <3>1. accepted' \in Seq(Acceptance)
      BY Zenon DEF StoreInv, StoreTypes
    <3>2. accepted'[i] \in Acceptance
      BY <3>1
    <3>3. accepted'[i].fencing # 0
      BY <3>2, BulkConstants DEF Acceptance, Fencings
    <3> QED
      BY <1>1, <2>2, <3>3, Zenon DEF Guarantees, SameCall
  <2> QED
    BY <2>0, <2>1, <2>2, SMTT(60)
<1>2. c.key \in IdemKeys
  BY Zenon DEF OpenCall
<1>3. c.pc \in Sweeping => record'[c.key].found /\ record'[c.key].fencing = c.fencing
  BY <1>2, Zenon DEF CallOk, Own, Guarantees
<1>4. ASSUME c.pc = "accept", ~c.command.dry
      PROVE  \E i \in 1..Len(accepted') :
                Authorizes(accepted'[i], c.command.token, c.command.selection, c.version)
  <2>1. PICK i \in 1..Len(accepted) :
           Authorizes(accepted[i], c.command.token, c.command.selection, c.version)
    BY <1>4, Zenon DEF CallOk
  <2>2. i \in 1..Len(accepted') /\ accepted'[i] = accepted[i]
    BY StoreFacts DEF StoreInv, Guarantees
  <2> QED
    BY <2>1, <2>2, Zenon
<1>5. ASSUME c.command.token # 0
      PROVE  \E k \in IdemKeys : record'[k].found /\ record'[k].outcome.token = c.command.token
  <2>1. PICK k \in IdemKeys : record[k].found /\ record[k].outcome.token = c.command.token
    BY <1>5, Zenon DEF CallOk
  <2>2. record'[k].found /\ record'[k] = record[k]
    BY <1>5, <2>1, Zenon DEF StoreInv, TokensDisclosed, Guarantees
  <2> QED
    BY <2>1, <2>2, Zenon
<1> QED
  BY <1>1, <1>3, <1>4, <1>5, Zenon DEF CallOk, Own

\* And what it knows of its own retry.
LEMMA RetryKept ==
    ASSUME StoreInv, NEW a, Guarantees(a), NEW c \in OpenCall, RetryOk(c)
    PROVE  RetryOk(c)'
<1>1. c.key \in IdemKeys
  BY Zenon DEF OpenCall
<1>2. record[c.key].found => record[c.key].fencing # 0
  BY <1>1, StoreFacts, Zenon DEF StoreInv, Record
<1>3. ASSUME c.pc = "standing"
      PROVE  /\ c.seen.found /\ record'[c.key].found
             /\ c.seen.command = record'[c.key].command /\ c.seen.fencing = record'[c.key].fencing
             /\ c.seen.terminal => record'[c.key] = c.seen
  BY <1>1, <1>3, Zenon DEF RetryOk, Guarantees
<1>4. ASSUME c.pc \in {"finalize", "finalizing", "finalized"}
      PROVE  record'[c.key].found /\ record'[c.key].command = c.command
  BY <1>1, <1>4, Zenon DEF RetryOk, Guarantees
<1>5. ASSUME c.pc \in {"finalize", "finalizing"}
      PROVE  record'[c.key].fencing # lease'
  <2>1. record[c.key].found /\ record[c.key].fencing # lease
    BY <1>5, Zenon DEF RetryOk
  <2>2. record'[c.key].fencing = record[c.key].fencing
    BY <1>1, <2>1, Zenon DEF Guarantees
  <2>3. lease' = lease \/ lease' = 0 \/ record[c.key].fencing # lease'
    BY <1>1, <2>1, Zenon DEF Guarantees
  <2> QED
    BY <1>2, <2>1, <2>2, <2>3, Zenon
<1> QED
  BY <1>3, <1>4, <1>5, Zenon DEF RetryOk

\* And what its walk has covered.
LEMMA WalkKept ==
    ASSUME StoreInv, NEW a, Guarantees(a), NEW c \in OpenCall, CallOk(c), WalkOk(c)
    PROVE  WalkOk(c)'
<1>1. ASSUME c.pc \in Sweeping
      PROVE  ran[c.fencing].named \subseteq ran'[c.fencing].named
  BY <1>1, OwnAcceptance, Zenon DEF CallOk, Guarantees
<1>2. c.pc \in {"walk", "judge", "batch"} =>
          Selected[c.command.selection]
              \subseteq ran'[c.fencing].named \cup c.skipped \cup c.left \cup c.batch
  BY <1>1, Zenon DEF WalkOk, Sweeping
<1>3. c.pc = "mint" \/ (c.pc = "commit" /\ ~c.command.dry) =>
          Selected[c.command.selection] \subseteq ran'[c.fencing].named \cup c.skipped
  BY <1>1, Zenon DEF WalkOk, Sweeping
<1> QED
  BY <1>2, <1>3, Zenon DEF WalkOk

\* And what its batches have counted.
LEMMA CountKept ==
    ASSUME StoreInv, StoreInv', NEW a, Guarantees(a), NEW c \in OpenCall, RetryOk(c), CountOk(c),
           c.fencing = 0 \/ c.fencing # a.fencing
    PROVE  CountOk(c)'
<1>1. c.key \in IdemKeys
  BY Zenon DEF OpenCall
<1>2. record'[c.key].found => record'[c.key].fencing # 0
  <2>1. record'[c.key] = NoRecord \/ record'[c.key] \in Record
    BY <1>1, Zenon DEF StoreInv, StoreTypes
  <2>2. \A r \in Record : r.fencing # 0
    BY BulkConstants DEF Record, Fencings
  <2>3. NoRecord.found = FALSE
    BY Zenon DEF NoRecord
  <2> QED
    BY <2>1, <2>2, <2>3, Zenon
<1>3. ASSUME c.pc = "finalizing" PROVE c.counted = record'[c.key].progress
  <2>1. record[c.key].found /\ record[c.key].fencing # lease /\ c.counted = record[c.key].progress
    BY <1>3, Zenon DEF RetryOk, CountOk
  <2> QED
    BY <1>1, <2>1, Zenon DEF Guarantees
<1>4. ASSUME record'[c.key].found /\ record'[c.key].fencing = c.fencing
      PROVE  /\ Own(c) /\ record'[c.key].progress = record[c.key].progress
             /\ record'[c.key].outcome.token # record[c.key].outcome.token
                   => record'[c.key].outcome.token = 0
  <2>1. c.fencing # a.fencing
    BY <1>2, <1>4, Zenon
  <2>2. record[c.key].found
    BY <1>1, <1>4, <2>1, Zenon DEF Guarantees
  <2>3. record[c.key].fencing = c.fencing
    BY <1>1, <1>4, <2>2, Zenon DEF Guarantees
  <2> QED
    BY <1>1, <2>1, <2>2, <2>3, Zenon DEF Own, Guarantees
<1>5. ASSUME record'[c.key].found /\ record'[c.key].fencing = c.fencing,
             c.pc \in {"lookup", "accept", "walk", "judge", "mint", "commit", "failing"}
      PROVE  c.counted = record'[c.key].progress
  BY <1>4, <1>5, Zenon DEF CountOk
<1>6. ASSUME record'[c.key].found /\ record'[c.key].fencing = c.fencing,
             c.pc \notin {"commit", "replay"}
      PROVE  record'[c.key].outcome.token = 0
  BY <1>4, <1>6, Zenon DEF CountOk
<1>7. c.pc \in {"lookup", "token", "accept"} => c.counted = 0
  BY Zenon DEF CountOk
<1> QED
  BY <1>3, <1>5, <1>6, <1>7, Zenon DEF CountOk, Own

\* And so everything that its caller may rely on.
LEMMA CallerKept ==
    ASSUME StoreInv, StoreInv', world'.late = world.late, NEW a, Guarantees(a),
           NEW c \in OpenCall, CallOk(c), CallerOk(c),
           world.late \/ c.fencing = 0 \/ c.fencing # a.fencing
    PROVE  CallerOk(c)'
<1>1. RetryOk(c)'
  BY RetryKept, Zenon DEF CallerOk
<1>2. WalkOk(c)'
  BY WalkKept, Zenon DEF CallerOk
<1>3. ~world'.late => CountOk(c)'
  BY CountKept, Zenon DEF CallerOk
<1> QED
  BY <1>1, <1>2, <1>3, Zenon DEF CallerOk

\* What a call has answered stays so.
LEMMA ToldKept ==
    ASSUME BulkInv, NEW a, Guarantees(a), NEW c \in Told
    PROVE  Recorded(c)'
<1>1. PICK q \in Callers : c = call[q] /\ ~Open(q) /\ call[q].kind = "outcome"
  BY Zenon DEF Told
<1>2. c \in OutcomeCall
  <2>1. \A e \in OpenCall : e.pc # "answered"
    BY Zenon DEF OpenCall, Writes, Reads
  <2>2. \A e \in AnswerCall : e.kind # "outcome"
    BY Zenon DEF AnswerCall
  <2> QED
    BY <1>1, <2>1, <2>2, Zenon DEF Open, BulkInv, HandlerTypes
<1>3. c.key \in IdemKeys /\ Recorded(c)
  BY <1>2, Zenon DEF OutcomeCall, BulkInv, CallsInv
<1> QED
  BY <1>3, Zenon DEF Recorded, Guarantees

\* A step that runs the call a and puts its caller p, if any, at d.
LEMMA CallMoves ==
    ASSUME BulkInv, StoreInv', NEW a, Guarantees(a), NEW p \in Callers,
           NEW d \in OpenCall \cup AnswerCall \cup OutcomeCall, Goto(p, d),
           \A c \in Live : SameCall(a, c),
           \A q \in Callers : q # p /\ Open(q) /\ call[q].fencing # 0 => call[q].fencing # a.fencing,
           inflight' \subseteq Live, HandlerTypes',
           world'.late = world.late,
           d.pc # "answered" =>
               /\ CallOk(d)' /\ CallerOk(d)'
               /\ \A c \in Live : SameCall(d, c)
               /\ \A q \in Callers : q # p /\ Open(q) /\ d.fencing # 0 => call[q].fencing # d.fencing,
           d.pc = "answered" /\ d.kind = "outcome" => Recorded(d)'
    PROVE  BulkInv'
<1>1. call' = [call EXCEPT ![p] = d] /\ call'[p] = d /\ \A q \in Callers : q # p => call'[q] = call[q]
  BY Zenon DEF Goto, BulkInv, HandlerTypes
<1>2. \A c \in Live : c \in OpenCall
  <2>1. \A c \in AnswerCall \cup OutcomeCall : c.pc = "answered"
    BY Zenon DEF AnswerCall, OutcomeCall
  <2> QED
    BY <2>1, Zenon DEF Live, Ongoing, Open, BulkInv, HandlerTypes
<1>3. \A c \in Live' : c \in Live \/ (c = d /\ d.pc # "answered")
  BY <1>1, Zenon DEF Live, Ongoing, Open
<1>4. \A c \in Ongoing' : (c = d /\ d.pc # "answered")
          \/ \E q \in Callers : q # p /\ Open(q) /\ c = call[q]
  BY <1>1 DEF Ongoing, Open
<1>5. \A c \in Live' : CallOk(c)'
  <2> SUFFICES ASSUME NEW c \in Live' PROVE CallOk(c)'
    BY Zenon
  <2>1. CASE c \in Live
    <3>1. c \in OpenCall /\ CallOk(c) /\ SameCall(a, c)
      BY <1>2, <2>1, Zenon DEF BulkInv, CallsInv
    <3> QED
      BY <3>1, CallKept, Zenon DEF BulkInv
  <2>2. CASE c = d /\ d.pc # "answered"
    BY <2>2, Zenon
  <2> QED
    BY <1>3, <2>1, <2>2, Zenon
<1>6. \A c, e \in Live' : SameCall(c, e)
  <2>1. \A c, e \in Live : SameCall(c, e)
    BY Zenon DEF BulkInv, CallsInv
  <2>2. \A c : d.pc # "answered" /\ c \in Live => SameCall(c, d) /\ SameCall(d, c)
    BY Zenon DEF SameCall
  <2>3. SameCall(d, d)
    BY Zenon DEF SameCall
  <2> QED
    BY <1>3, <2>1, <2>2, <2>3, Zenon
<1>7. \A r, q \in Callers :
         r # q /\ Open(r)' /\ Open(q)' /\ call'[r].fencing # 0 => call'[r].fencing # call'[q].fencing
  <2> SUFFICES ASSUME NEW r \in Callers, NEW q \in Callers, r # q, Open(r)', Open(q)',
                      call'[r].fencing # 0
               PROVE  call'[r].fencing # call'[q].fencing
    BY Zenon
  <2>1. \A s, t \in Callers : s # t /\ Open(s) /\ Open(t) /\ call[s].fencing # 0 =>
                                  call[s].fencing # call[t].fencing
    BY Zenon DEF BulkInv, CallsInv
  <2>2. \A s \in Callers : s # p => (Open(s)' <=> Open(s)) /\ call'[s].fencing = call[s].fencing
    BY <1>1, Zenon DEF Open
  <2>3. Open(p)' <=> d.pc # "answered"
    BY <1>1, Zenon DEF Open
  <2>4. call'[p].fencing = d.fencing
    BY <1>1, Zenon
  <2>5. CASE r # p /\ q # p
    BY <2>1, <2>2, <2>5, Zenon
  <2>6. CASE r = p
    BY <2>2, <2>3, <2>4, <2>6, Zenon
  <2>7. CASE q = p
    BY <2>2, <2>3, <2>4, <2>7, Zenon
  <2> QED
    BY <2>5, <2>6, <2>7, Zenon
<1>8. \A c \in Ongoing' : CallerOk(c)'
  <2> SUFFICES ASSUME NEW c \in Ongoing' PROVE CallerOk(c)'
    BY Zenon
  <2>1. CASE \E q \in Callers : q # p /\ Open(q) /\ c = call[q]
    <3>1. c \in Ongoing /\ c \in Live /\ (c.fencing = 0 \/ c.fencing # a.fencing)
      BY <2>1, Zenon DEF Ongoing, Live
    <3>2. c \in OpenCall /\ CallOk(c) /\ CallerOk(c)
      BY <1>2, <3>1, Zenon DEF BulkInv, CallsInv
    <3> QED
      BY <3>1, <3>2, CallerKept, Zenon DEF BulkInv
  <2>2. CASE c = d /\ d.pc # "answered"
    BY <2>2, Zenon
  <2> QED
    BY <1>4, <2>1, <2>2, Zenon
<1>9. \A c \in Told' : Recorded(c)'
  <2>1. \A c \in Told' : c \in Told \/ (c = d /\ d.pc = "answered" /\ d.kind = "outcome")
    BY <1>1 DEF Told, Open
  <2> QED
    BY <2>1, ToldKept, Zenon
<1> QED
  BY <1>5, <1>6, <1>7, <1>8, <1>9, Zenon DEF BulkInv, CallsInv

-----------------------------------------------------------------------------
(* The steps.                                                              *)

Same(a, d) ==
    d.key = a.key /\ d.command = a.command /\ d.version = a.version /\ d.fencing = a.fencing

\* What is known of a call that goes on.
LEMMA CallFacts ==
    ASSUME BulkInv, NEW p \in Callers, Open(p), NEW a, a = call[p]
    PROVE  /\ a \in OpenCall /\ CallOk(a) /\ RetryOk(a) /\ WalkOk(a) /\ (~world.late => CountOk(a))
           /\ CallerOk(a) /\ a \in Live /\ a.key \in IdemKeys
           /\ \A c \in Live : SameCall(a, c)
           /\ \A q \in Callers : q # p /\ Open(q) /\ a.fencing # 0 => call[q].fencing # a.fencing
<1>1. \A c \in AnswerCall \cup OutcomeCall : c.pc = "answered"
  BY Zenon DEF AnswerCall, OutcomeCall
<1>2. a \in OpenCall
  BY <1>1, Zenon DEF Open, BulkInv, HandlerTypes
<1>3. a \in Ongoing /\ a \in Live
  BY Zenon DEF Ongoing, Live
<1>4. CallOk(a) /\ CallerOk(a) /\ \A c \in Live : SameCall(a, c)
  BY <1>3, Zenon DEF BulkInv, CallsInv
<1>5. RetryOk(a) /\ WalkOk(a) /\ (~world.late => CountOk(a))
  BY <1>4, Zenon DEF CallerOk
<1>6. \A q \in Callers : q # p /\ Open(q) /\ a.fencing # 0 => call[q].fencing # a.fencing
  BY Zenon DEF BulkInv, CallsInv
<1>7. a.key \in IdemKeys
  BY <1>2, Zenon DEF OpenCall
<1> QED
  BY <1>2, <1>3, <1>4, <1>5, <1>6, <1>7, Zenon

\* A call goes on after a write of its own, or ends.
LEMMA WriteMove ==
    ASSUME BulkInv, StoreInv', NEW p \in Callers, Open(p), NEW a, a = call[p], Guarantees(a),
           NEW d \in OpenCall \cup AnswerCall \cup OutcomeCall, Goto(p, d),
           inflight' \subseteq inflight \cup {a}, a \in inflight' => a \in inflight \/ a.pc \in Writes,
           ~world.late => inflight' = inflight,
           world' \in WorldType, world'.late = world.late,
           d.pc # "answered" => CallOk(d)' /\ CallerOk(d)' /\ Same(a, d),
           d.pc = "answered" /\ d.kind = "outcome" => Recorded(d)'
    PROVE  BulkInv'
<1>1. /\ a \in OpenCall /\ a \in Live /\ \A c \in Live : SameCall(a, c)
      /\ \A q \in Callers : q # p /\ Open(q) /\ a.fencing # 0 => call[q].fencing # a.fencing
  BY CallFacts, Zenon
<1>2. HandlerTypes'
  <2>1. call' \in [Callers -> OpenCall \cup AnswerCall \cup OutcomeCall]
    BY Zenon DEF Goto, BulkInv, HandlerTypes
  <2>2. inflight' \subseteq {c \in OpenCall : c.pc \in Writes}
    BY <1>1, Zenon DEF BulkInv, HandlerTypes
  <2> QED
    BY <2>1, <2>2, Zenon DEF BulkInv, HandlerTypes
<1>3. inflight' \subseteq Live
  BY <1>1, Zenon DEF Live
<1>4. \A q \in Callers : q # p /\ Open(q) /\ call[q].fencing # 0 => call[q].fencing # a.fencing
  BY <1>1, Zenon
<1>5. d.pc # "answered" =>
         /\ \A c \in Live : SameCall(d, c)
         /\ \A q \in Callers : q # p /\ Open(q) /\ d.fencing # 0 => call[q].fencing # d.fencing
  BY <1>1, Zenon DEF Same, SameCall
<1> QED
  BY <1>1, <1>2, <1>3, <1>4, <1>5, CallMoves, Zenon

\* A call that goes on, or ends, with the store as it was.
LEMMA QuietMove ==
    ASSUME BulkInv, UNCHANGED rvars, NEW p \in Callers, Open(p), NEW a, a = call[p],
           NEW d \in OpenCall \cup AnswerCall \cup OutcomeCall, Goto(p, d),
           inflight' \subseteq inflight \cup {a}, a \in inflight' => a \in inflight \/ a.pc \in Writes,
           ~world.late => inflight' = inflight,
           world' \in WorldType, world'.late = world.late,
           d.pc # "answered" => CallOk(d) /\ CallerOk(d) /\ Same(a, d),
           d.pc = "answered" /\ d.kind = "outcome" => Recorded(d)
    PROVE  BulkInv'
<1>1. StoreInv' /\ Guarantees(a)
  BY QuietStore, Zenon DEF BulkInv
<1>2. d.pc # "answered" => CallOk(d)' /\ CallerOk(d)'
  BY Zenon DEF CallOk, Own, CallerOk, RetryOk, WalkOk, CountOk, rvars
<1>3. d.pc = "answered" /\ d.kind = "outcome" => Recorded(d)'
  BY Zenon DEF Recorded, rvars
<1> QED
  BY <1>1, <1>2, <1>3, WriteMove, Zenon

\* The store alone, or the store and a call whose caller gave up.
LEMMA CallsStay ==
    ASSUME BulkInv, StoreInv', NEW a, Guarantees(a), \A c \in Live : SameCall(a, c),
           world.late \/ a.fencing = 0, call' = call, inflight' \subseteq inflight,
           world' \in WorldType, world'.late = world.late
    PROVE  BulkInv'
<1>1. \A c \in Live : c \in OpenCall
  <2>1. \A c \in AnswerCall \cup OutcomeCall : c.pc = "answered"
    BY Zenon DEF AnswerCall, OutcomeCall
  <2> QED
    BY <2>1, Zenon DEF Live, Ongoing, Open, BulkInv, HandlerTypes
<1>2. Ongoing' = Ongoing /\ Live' \subseteq Live /\ Ongoing \subseteq Live
  BY Zenon DEF Ongoing, Live, Open
<1>3. \A c \in Live' : CallOk(c)'
  <2> SUFFICES ASSUME NEW c \in Live PROVE CallOk(c)'
    BY <1>2, Zenon
  <2>1. c \in OpenCall /\ CallOk(c) /\ SameCall(a, c)
    BY <1>1, Zenon DEF BulkInv, CallsInv
  <2> QED
    BY <2>1, CallKept, Zenon DEF BulkInv
<1>4. \A c \in Ongoing' : CallerOk(c)'
  <2> SUFFICES ASSUME NEW c \in Ongoing PROVE CallerOk(c)'
    BY <1>2, Zenon
  <2>1. c \in OpenCall /\ CallOk(c) /\ CallerOk(c)
    BY <1>1, <1>2, Zenon DEF BulkInv, CallsInv
  <2>2. world.late \/ c.fencing = 0 \/ c.fencing # a.fencing
    BY Zenon
  <2> QED
    BY <2>1, <2>2, CallerKept, Zenon DEF BulkInv
<1>5. HandlerTypes'
  BY Zenon DEF BulkInv, HandlerTypes
<1>6. /\ \A c, d \in Live' : SameCall(c, d)
      /\ \A p, q \in Callers :
            p # q /\ Open(p)' /\ Open(q)' /\ call'[p].fencing # 0 => call'[p].fencing # call'[q].fencing
  BY <1>2, Zenon DEF BulkInv, CallsInv, Open
<1>7. \A c \in Told' : Recorded(c)'
  BY ToldKept, Zenon DEF Told, Open
<1> QED
  BY <1>3, <1>4, <1>5, <1>6, <1>7, Zenon DEF BulkInv, CallsInv

\* Every write of the handler is one of the scripts, whenever the store runs it.
LEMMA EffectStore ==
    ASSUME StoreInv, NEW a \in OpenCall, a.pc \in Writes, CallOk(a), ~world.late => CountOk(a),
           Effect(a), world'.late = world.late
    PROVE  StoreInv' /\ Guarantees(a)
<1>1. CASE a.pc = "accept"
  BY <1>1, AcceptStore, Zenon DEF Effect
<1>2. CASE a.pc = "batch"
  <2>1. BatchOf(a) /\ Own(a)
    BY <1>2, Zenon DEF Effect, CallOk, Sweeping
  <2> QED
    BY <2>1, BatchStore, Zenon
<1>3. CASE a.pc = "mint"
  <2>1. MintOf(a) /\ Own(a) /\ a.command.dry /\ (~world.late => record[a.key].outcome.token = 0)
    BY <1>3, Zenon DEF Effect, CallOk, Sweeping, CountOk
  <2> QED
    BY <2>1, MintStore, Zenon
<1>4. CASE a.pc \in {"commit", "failing"}
  <2>1. CommitOf(a) /\ Own(a) /\ (~world.late => a.counted = record[a.key].progress)
    BY <1>4, Zenon DEF Effect, CallOk, Sweeping, CountOk
  <2> QED
    BY <2>1, CommitStore, Zenon
<1>5. CASE a.pc = "finalizing"
  <2>1. FinalizeOf(a) /\ (~world.late => a.counted = record[a.key].progress)
    BY <1>5, Zenon DEF Effect, CountOk
  <2> QED
    BY <2>1, FinalizeStore, Zenon
<1> QED
  BY <1>1, <1>2, <1>3, <1>4, <1>5, Zenon DEF Writes

\* The caller that waits for the reply of its write may make it again.
LEMMA EffectKeeps ==
    ASSUME StoreInv, NEW a \in OpenCall, a.pc \in Writes, CallOk(a), RetryOk(a), WalkOk(a),
           ~world.late => CountOk(a), Effect(a), world'.late = world.late
    PROVE  CallOk(a)' /\ CallerOk(a)'
<1>0. StoreInv' /\ Guarantees(a)
  BY EffectStore, Zenon
<1>1. CallOk(a)'
  BY <1>0, CallKept, Zenon DEF SameCall
<1>2. RetryOk(a)' /\ WalkOk(a)'
  BY <1>0, RetryKept, WalkKept, Zenon
<1>3. ASSUME ~world.late PROVE CountOk(a)'
  <2>0. a.key \in IdemKeys /\ CountOk(a)
    BY <1>3, Zenon DEF OpenCall
  <2>1. CASE a.pc = "accept"
    <3>1. /\ AcceptVerdict(a.key, a.command) # "accepted" => UNCHANGED rvars
          /\ AcceptVerdict(a.key, a.command) = "accepted" =>
                record'[a.key].progress = 0 /\ record'[a.key].outcome.token = 0
      BY <2>1, AcceptStore, Zenon DEF Effect
    <3>2. a.counted = 0
      BY <2>0, <2>1, Zenon DEF CountOk
    <3>3. CASE AcceptVerdict(a.key, a.command) # "accepted"
      BY <2>0, <3>1, <3>3, ZenonT(40) DEF CountOk, Own, rvars
    <3>4. CASE AcceptVerdict(a.key, a.command) = "accepted"
      BY <2>1, <3>1, <3>2, <3>4, Zenon DEF CountOk, Own
    <3> QED
      BY <3>3, <3>4, Zenon
  <2>2. CASE a.pc = "batch"
    <3>1. BatchOf(a) /\ Own(a) /\ record[a.key].outcome.token = 0
      BY <2>0, <2>2, Zenon DEF Effect, CallOk, Sweeping, CountOk
    <3>2. CASE lease = a.fencing
      <4>1. record'[a.key].outcome = record[a.key].outcome
        BY <3>1, <3>2, BatchStore, Zenon
      <4> QED
        BY <2>2, <3>1, <4>1, Zenon DEF CountOk
    <3>3. CASE lease # a.fencing
      BY <2>0, <3>1, <3>3, Zenon DEF BatchOf, BatchScript, CountOk, Own, rvars
    <3> QED
      BY <3>2, <3>3, Zenon
  <2>3. CASE a.pc = "mint"
    BY <2>0, <2>3, Zenon DEF Effect, MintOf, Put, CountOk, Own
  <2>4. CASE a.pc \in {"commit", "failing"}
    <3>1. CommitOf(a) /\ Own(a) /\ a.counted = record[a.key].progress
      BY <2>0, <2>4, Zenon DEF Effect, CallOk, Sweeping, CountOk
    <3>2. record'[a.key].progress = record[a.key].progress
      BY <3>1, CommitStore, Zenon
    <3>3. ASSUME a.pc = "failing" PROVE record'[a.key].outcome.token = 0
      <4>1. OutcomeOf(a).token = 0
        BY <3>3, Zenon DEF WalkOk, OutcomeOf
      <4>2. record[a.key].outcome.token = 0
        BY <2>0, <3>1, <3>3, Zenon DEF CountOk
      <4>3. record'[a.key].outcome = OutcomeOf(a) \/ UNCHANGED rvars
        BY <3>1, CommitStore, Zenon
      <4> QED
        BY <4>1, <4>2, <4>3, Zenon DEF rvars
    <3> QED
      BY <2>4, <3>1, <3>2, <3>3, Zenon DEF CountOk
  <2>5. CASE a.pc = "finalizing"
    <3>1. FinalizeOf(a) /\ a.counted = record[a.key].progress
      BY <2>0, <2>5, Zenon DEF Effect, CountOk
    <3>2. /\ record'[a.key].progress = record[a.key].progress
          /\ \/ record'[a.key].outcome.token = 0
             \/ record'[a.key].outcome.token = record[a.key].outcome.token
      BY <3>1, FinalizeStore, Zenon
    <3>3. Own(a)' => Own(a)
      BY <2>0, <2>5, <1>0, Zenon DEF Own, RetryOk, Guarantees
    <3> QED
      BY <2>0, <2>5, <3>1, <3>2, <3>3, Zenon DEF CountOk
  <2> QED
    BY <2>1, <2>2, <2>3, <2>4, <2>5, Zenon DEF Writes
<1> QED
  BY <1>1, <1>2, <1>3, Zenon DEF CallerOk

Rest(a, d) ==
    /\ d.left = a.left /\ d.batch = a.batch /\ d.skipped = a.skipped /\ d.over = a.over
    /\ d.size = a.size

Pcs == Writes \cup Reads \cup {"walk", "judge"}

\* The locals of a call that moves on.
LEMMA MovedOn ==
    ASSUME NEW a \in OpenCall, NEW x \in Pcs
    PROVE  LET d == [a EXCEPT !.pc = x]
           IN /\ d \in OpenCall /\ d.pc = x /\ Same(a, d) /\ Rest(a, d)
              /\ d.counted = a.counted /\ d.cause = a.cause /\ d.seen = a.seen
BY Zenon DEF OpenCall, Same, Rest, Pcs

\* The handler's answers.
LEMMA Answers ==
    ASSUME NEW x \in {"none", "refused", "command_mismatch", "poll", "gone", "stale_confirmation",
                      "stale_rule_set", "sweep_in_flight", "unavailable"},
           NEW a \in OpenCall, NEW o \in Outcome
    PROVE  /\ Answer(x) \in AnswerCall /\ Answer(x).pc = "answered" /\ Answer(x).kind = x
           /\ Replay(a, o) \in OutcomeCall /\ Replay(a, o).pc = "answered"
           /\ Replay(a, o).kind = "outcome" /\ Replay(a, o).key = a.key
           /\ Replay(a, o).command = a.command /\ Replay(a, o).outcome = o
BY Zenon DEF Answer, Replay, AnswerCall, OutcomeCall, OpenCall

\* A replay tells the outcome it is given.
LEMMA Replays ==
    ASSUME NEW a \in OpenCall, NEW o \in Outcome
    PROVE  /\ Replay(a, o) \in OutcomeCall /\ Replay(a, o).pc = "answered"
           /\ Replay(a, o).key = a.key /\ Replay(a, o).command = a.command
           /\ Replay(a, o).outcome = o
<1>1. "none" \in {"none", "command_mismatch", "poll", "gone", "stale_confirmation",
                  "stale_rule_set", "sweep_in_flight", "unavailable"}
  BY Zenon
<1> QED
  BY <1>1, Answers

\* A fencing token nothing refers to.
LEMMA FreshMove ==
    ASSUME BulkInv, UNCHANGED rvars, Quiet, NEW p \in Callers, Open(p), NEW a, a = call[p],
           a.pc \in {"lookup", "token"}, Fence(p),
           ~a.command.dry =>
              \E i \in 1..Len(accepted) :
                  Authorizes(accepted[i], a.command.token, a.command.selection, a.version)
    PROVE  BulkInv'
<1>1. PICK f \in Fencings \ InUse : Goto(p, [a EXCEPT !.pc = "accept", !.fencing = f])
  BY ZenonT(40) DEF Fence
<1> DEFINE d == [a EXCEPT !.pc = "accept", !.fencing = f]
<1>2. /\ a \in OpenCall /\ CallOk(a) /\ WalkOk(a) /\ (~world.late => CountOk(a))
  BY CallFacts, Zenon
<1>0. f \in 0..MaxFencings
  <2>1. \A g \in Fencings : g \in 0..MaxFencings
    BY StoreFacts, Zenon DEF BulkInv, StoreInv
  <2> QED
    BY <2>1, Zenon
<1>3. /\ d \in OpenCall /\ d.pc = "accept" /\ d.fencing = f /\ d.key = a.key
      /\ d.command = a.command /\ d.version = a.version /\ Rest(a, d) /\ d.counted = a.counted
  BY <1>0, <1>2, Zenon DEF OpenCall, Writes, Rest
<1>4. Goto(p, d)
  BY <1>1, Zenon
<1> HIDE DEF d
<1>5. f # 0 /\ \A i \in 1..Len(accepted) : accepted[i].fencing # f
  <2>1. \A g \in Fencings : g \in Nat /\ g # 0
    BY StoreFacts, Zenon DEF BulkInv, StoreInv
  <2>2. ASSUME NEW i \in 1..Len(accepted)
        PROVE  \E k \in IdemKeys : record[k].found /\ record[k].fencing = accepted[i].fencing
    <3>1. accepted[i] \in Acceptance
      BY StoreFacts, Zenon DEF BulkInv, StoreInv
    <3>2. accepted[i].key \in IdemKeys
      BY <3>1, Zenon DEF Acceptance
    <3> QED
      BY <3>2, Zenon DEF BulkInv, StoreInv, Bindings
  <2>3. \A k \in IdemKeys : record[k].found => record[k].fencing \in InUse
    BY Zenon DEF InUse
  <2> QED
    BY <2>1, <2>2, <2>3, Zenon
<1>6. \A k \in IdemKeys : record[k].found => record[k].fencing # f
  BY Zenon DEF InUse
<1>7. \A c \in Live : c.fencing # f
  BY Zenon DEF InUse, Live, Ongoing, Open, At
<1>8. CallOk(d)
  BY <1>2, <1>3, <1>5, ZenonT(40) DEF CallOk, Sweeping
<1>9. a.key \in IdemKeys
  BY <1>2, Zenon DEF OpenCall
<1>10. CallerOk(d)
  <2>1. RetryOk(d)
    BY <1>3, Zenon DEF RetryOk
  <2>2. WalkOk(d)
    BY <1>2, <1>3, ZenonT(40) DEF WalkOk, Rest
  <2>3. ~world.late => CountOk(d)
    BY <1>2, <1>3, <1>6, <1>9, ZenonT(40) DEF CountOk, Own
  <2> QED
    BY <2>1, <2>2, <2>3, Zenon DEF CallerOk
<1>11. CallOk(d)' /\ CallerOk(d)'
  <2>1. CallOk(d)'
    BY <1>8, ZenonT(40) DEF CallOk, Own, rvars, Quiet
  <2>2. RetryOk(d)' /\ WalkOk(d)'
    BY <1>10, ZenonT(40) DEF CallerOk, RetryOk, WalkOk, rvars, Quiet
  <2>3. ~world'.late => CountOk(d)'
    BY <1>10, ZenonT(40) DEF CallerOk, CountOk, Own, rvars, Quiet
  <2> QED
    BY <2>1, <2>2, <2>3, Zenon DEF CallerOk
<1>12. StoreInv' /\ Guarantees(d)
  BY QuietStore, Zenon DEF BulkInv, Quiet
<1>13. HandlerTypes'
  BY <1>3, <1>4, Zenon DEF Goto, BulkInv, HandlerTypes, Quiet
<1>14. inflight' \subseteq Live /\ world'.late = world.late
  BY Zenon DEF Quiet, Live
<1>15. /\ \A c \in Live : SameCall(d, c)
       /\ \A q \in Callers : q # p /\ Open(q) => call[q].fencing # d.fencing
  BY <1>3, <1>7, ZenonT(40) DEF SameCall, Live, Ongoing
<1> QED
  BY <1>3, <1>4, <1>11, <1>12, <1>13, <1>14, <1>15, CallMoves, ZenonT(40)

\* The rule set of the replica refuses a request before its record is read.
LEMMA RefusedStep ==
    ASSUME BulkInv, NEW p \in Callers, NEW d \in AnswerCall, Goto(p, d), Quiet, UNCHANGED rvars
    PROVE  BulkInv'
<1>1. PICK a : a = [fencing |-> 0]
  BY ZenonT(40)
<1>2. a.fencing = 0 /\ \A c \in Live : SameCall(a, c)
  BY <1>1, Zenon DEF SameCall
<1>3. StoreInv' /\ Guarantees(a)
  BY QuietStore, Zenon DEF BulkInv, Quiet
<1>4. HandlerTypes' /\ inflight' \subseteq Live /\ world'.late = world.late
  BY Zenon DEF Goto, BulkInv, HandlerTypes, Quiet, Live
<1>5. d.pc = "answered" /\ d.kind # "outcome"
  BY Zenon DEF AnswerCall
<1>6. \A q \in Callers : call[q].fencing # 0 => call[q].fencing # a.fencing
  BY <1>2, Zenon
<1> QED
  BY <1>2, <1>3, <1>4, <1>5, <1>6, CallMoves, ZenonT(40)

\* A request that parseBulk let through arrives.
LEMMA BeginStep ==
    ASSUME BulkInv, NEW p \in Callers, NEW req \in world.requests,
           NEW token \in KnownTokens \cup {0}, NEW version \in world.versions,
           Begin(p, req, token, version)
    PROVE  BulkInv'
<1> DEFINE m == [dry |-> req.dry, selection |-> req.selection, token |-> token]
           d == [pc |-> "lookup", self |-> p, key |-> req.key, version |-> version,
                 command |-> m, fencing |-> 0, seen |-> NoRecord, left |-> Selected[req.selection],
                 batch |-> {}, size |-> 0, skipped |-> {}, repeats |-> 0, over |-> FALSE,
                 counted |-> 0, cause |-> "none"]
<1>0. Quiet /\ UNCHANGED rvars /\ ~Open(p)
  BY Zenon DEF Begin, At, Open
<1>a. CASE req.selection \notin Admits[version]
  <2>1. Goto(p, Answer("refused")) /\ Answer("refused") \in AnswerCall
    BY <1>a, Zenon DEF Begin, Answer, AnswerCall
  <2> QED
    BY <1>0, <2>1, RefusedStep, Zenon
<1> SUFFICES ASSUME req.selection \in Admits[version] PROVE BulkInv'
  BY <1>a, Zenon
<1>1. Goto(p, d) /\ Quiet /\ UNCHANGED rvars /\ ~Open(p)
  BY <1>0, Zenon DEF Begin
<1>2. /\ req \in [key : IdemKeys, dry : BOOLEAN, selection : Selections]
      /\ version \in Versions
  BY Zenon DEF BulkInv, HandlerTypes, WorldType
<1>3. /\ token \in 0..MaxFencings
      /\ token # 0 => \E k \in IdemKeys : record[k].found /\ record[k].outcome.token = token
  <2>1. CASE token = 0
    BY <2>1, BulkConstants
  <2>2. CASE token # 0
    <3>1. PICK k \in IdemKeys : record[k].found /\ record[k].outcome.token = token
      BY <2>2, Zenon DEF KnownTokens
    <3>2. record[k] \in Record
      BY <3>1, StoreFacts, Zenon DEF BulkInv, StoreInv
    <3> QED
      BY <3>1, <3>2, Zenon DEF Record, Outcome
  <2> QED
    BY <2>1, <2>2, Zenon
<1>4. m \in Command
  BY <1>2, <1>3, Zenon DEF Command
<1>5. Selected[req.selection] \in SUBSET Counters
  BY <1>2, BulkConstants, Zenon
<1>6. m.selection = req.selection /\ m.token = token
  BY Zenon
<1> HIDE DEF m
<1>7. d \in OpenCall
  <2>1. req.key \in IdemKeys /\ version \in Versions
    BY <1>2, Zenon
  <2>2. 0 \in 0..MaxFencings /\ 0 \in Nat
    BY BulkConstants
  <2>3. "lookup" \in Writes \cup Reads \cup {"walk", "judge"} /\ "none" \in Causes
    BY Zenon DEF Reads, Causes
  <2>4. {} \in SUBSET Counters /\ NoRecord \in {NoRecord} \cup Record /\ FALSE \in BOOLEAN
    BY Zenon
  <2> QED
    BY <1>4, <1>5, <2>1, <2>2, <2>3, <2>4, Zenon DEF OpenCall
<1>8. /\ d.pc = "lookup" /\ d.fencing = 0 /\ d.command = m /\ d.key = req.key /\ d.batch = {}
      /\ d.over = FALSE /\ d.counted = 0 /\ d.left = Selected[req.selection]
  BY Zenon
<1> HIDE DEF d
<1>9. /\ \A i \in 1..Len(accepted) : accepted[i].fencing # 0
      /\ \A k \in IdemKeys : record[k].found => record[k].fencing # 0
  BY StoreFacts, ZenonT(40) DEF BulkInv, StoreInv, Acceptance, Record
<1>10. CallOk(d)
  BY <1>3, <1>6, <1>8, <1>9, Zenon DEF CallOk, Sweeping
<1>11. CallerOk(d)
  <2>1. RetryOk(d)
    BY <1>8, Zenon DEF RetryOk
  <2>2. WalkOk(d)
    BY <1>6, <1>8, Zenon DEF WalkOk
  <2>3. CountOk(d)
    BY <1>2, <1>8, <1>9, Zenon DEF CountOk, Own
  <2> QED
    BY <2>1, <2>2, <2>3, Zenon DEF CallerOk
<1>12. CallOk(d)' /\ CallerOk(d)'
  <2>1. CallOk(d)'
    BY <1>1, <1>10, ZenonT(40) DEF CallOk, Own, rvars, Quiet
  <2>2. RetryOk(d)' /\ WalkOk(d)'
    BY <1>1, <1>11, ZenonT(40) DEF CallerOk, RetryOk, WalkOk, rvars, Quiet
  <2>3. ~world'.late => CountOk(d)'
    BY <1>1, <1>11, ZenonT(40) DEF CallerOk, CountOk, Own, rvars, Quiet
  <2> QED
    BY <2>1, <2>2, <2>3, Zenon DEF CallerOk
<1>13. StoreInv' /\ Guarantees(d)
  BY <1>1, QuietStore, Zenon DEF BulkInv, Quiet
<1>14. HandlerTypes'
  BY <1>1, <1>7, Zenon DEF Goto, BulkInv, HandlerTypes, Quiet
<1>15. inflight' \subseteq Live /\ world'.late = world.late
  BY <1>1, Zenon DEF Quiet, Live
<1>16. /\ \A c \in Live : SameCall(d, c)
       /\ \A q \in Callers : call[q].fencing # 0 => call[q].fencing # d.fencing
  BY <1>8, Zenon DEF SameCall
<1> QED
  BY <1>1, <1>7, <1>8, <1>12, <1>13, <1>14, <1>15, <1>16, CallMoves, ZenonT(40)

\* The record of the call's key is read.
LEMMA ReadRecordStep ==
    ASSUME BulkInv, NEW p \in Callers, ReadRecord(p)
    PROVE  BulkInv'
<1>1. PICK a : a = call[p]
  BY Zenon
<1>2. Open(p) /\ a.pc = "lookup" /\ Quiet /\ UNCHANGED rvars
  BY <1>1, Zenon DEF ReadRecord, At, Open
<1>3. /\ a \in OpenCall /\ CallOk(a) /\ RetryOk(a) /\ WalkOk(a) /\ (~world.late => CountOk(a))
      /\ a.key \in IdemKeys
  BY <1>1, <1>2, CallFacts, Zenon
<1>4. inflight' = inflight /\ world' = world /\ world \in WorldType
  BY <1>2, Zenon DEF Quiet, BulkInv, HandlerTypes
<1>5. CASE ~record[a.key].found /\ a.command.dry /\ Fence(p)
  BY <1>1, <1>2, <1>5, FreshMove, Zenon
<1>6. CASE ~record[a.key].found /\ To(p, "token")
  <2> DEFINE d == [a EXCEPT !.pc = "token"]
  <2>1. /\ Goto(p, d) /\ d \in OpenCall /\ d.pc = "token" /\ Same(a, d) /\ Rest(a, d)
        /\ d.counted = a.counted
    BY <1>1, <1>3, <1>6, MovedOn, Zenon DEF To, Pcs, Reads
  <2> HIDE DEF d
  <2>2. CallOk(d)
    BY <1>2, <1>3, <2>1, ZenonT(40) DEF CallOk, Same, Sweeping
  <2>3. CallerOk(d)
    BY <1>2, <1>3, <1>6, <2>1, ZenonT(40) DEF CallerOk, RetryOk, WalkOk, CountOk, Own, Same, Rest
  <2> QED
    BY <1>1, <1>2, <1>4, <2>1, <2>2, <2>3, QuietMove, Zenon
<1>7. CASE record[a.key].found /\ record[a.key].fencing = a.fencing
           /\ Goto(p, [a EXCEPT !.pc = "walk"])
  <2> DEFINE d == [a EXCEPT !.pc = "walk"]
  <2>1. /\ Goto(p, d) /\ d \in OpenCall /\ d.pc = "walk" /\ Same(a, d) /\ Rest(a, d)
        /\ d.counted = a.counted
    BY <1>3, <1>7, MovedOn, Zenon DEF Pcs
  <2> HIDE DEF d
  <2>2. CallOk(d)
    BY <1>2, <1>3, <1>7, <2>1, Zenon DEF CallOk, Same, Sweeping, Own
  <2>3. RetryOk(d) /\ WalkOk(d)
    BY <1>2, <1>3, <2>1, Zenon DEF RetryOk, WalkOk, Same, Rest
  <2>4. ~world.late => CountOk(d)
    BY <1>2, <1>3, <1>7, <2>1, Zenon DEF CountOk, Own, Same
  <2> QED
    BY <1>1, <1>2, <1>4, <2>1, <2>2, <2>3, <2>4, QuietMove, Zenon DEF CallerOk
<1>8. CASE record[a.key].found /\ record[a.key].fencing # a.fencing
           /\ Goto(p, [a EXCEPT !.pc = "standing", !.seen = record[a.key]])
  <2>0. PICK r \in {NoRecord} \cup Record : r = record[a.key]
    BY <1>3, <1>8, StoreFacts, Zenon DEF BulkInv, StoreInv
  <2> DEFINE d == [a EXCEPT !.pc = "standing", !.seen = r]
  <2>a. Goto(p, d)
    BY <1>8, <2>0, Zenon
  <2>1. /\ Goto(p, d) /\ d \in OpenCall /\ d.pc = "standing" /\ Same(a, d) /\ Rest(a, d)
        /\ d.counted = a.counted /\ d.seen = record[a.key]
    <3>1. a \in OpenCall
      BY <1>3, Zenon
    <3>2. /\ d \in OpenCall /\ d.pc = "standing" /\ Same(a, d) /\ Rest(a, d)
          /\ d.counted = a.counted /\ d.seen = r
      BY <3>1, Zenon DEF OpenCall, Same, Rest, Reads
    <3> QED
      BY <2>0, <2>a, <3>2, Zenon
  <2> HIDE DEF d
  <2>2. CallOk(d)
    BY <1>2, <1>3, <2>1, Zenon DEF CallOk, Same, Sweeping
  <2>3. RetryOk(d) /\ WalkOk(d)
    BY <1>2, <1>3, <1>8, <2>1, Zenon DEF RetryOk, WalkOk, Same, Rest
  <2>4. ~world.late => CountOk(d)
    BY <1>2, <1>3, <1>8, <2>1, Zenon DEF CountOk, Own, Same
  <2> QED
    BY <1>1, <1>2, <1>4, <2>1, <2>2, <2>3, <2>4, QuietMove, Zenon DEF CallerOk
<1> QED
  BY <1>1, <1>5, <1>6, <1>7, <1>8, Zenon DEF ReadRecord

\* An answer: nothing about the outcome, or what is recorded.
Tells(d) == d \in AnswerCall \/ (d \in OutcomeCall /\ Recorded(d))

\* A call that ends with the store as it was.
LEMMA QuietAnswer ==
    ASSUME BulkInv, UNCHANGED rvars, Quiet, NEW p \in Callers, Open(p),
           \E d : Tells(d) /\ Goto(p, d)
    PROVE  BulkInv'
<1>0. PICK d : Tells(d) /\ Goto(p, d)
  BY Zenon
<1>1. /\ d \in AnswerCall \cup OutcomeCall /\ d.pc = "answered"
      /\ d.kind = "outcome" => Recorded(d)
  BY <1>0, Zenon DEF AnswerCall, OutcomeCall, Tells
<1>2. inflight' = inflight /\ world' = world /\ world \in WorldType
  BY Zenon DEF Quiet, BulkInv, HandlerTypes
<1> QED
  BY <1>0, <1>1, <1>2, QuietMove

\* A retry is answered by what stands under its key, or takes over a dead sweep.
LEMMA StandingStep ==
    ASSUME BulkInv, NEW p \in Callers, Standing(p)
    PROVE  BulkInv'
<1>1. PICK a : a = call[p]
  OBVIOUS
<1>2. Open(p) /\ a.pc = "standing" /\ Quiet /\ UNCHANGED rvars
  BY <1>1, Zenon DEF Standing, At, Open
<1>3. /\ a \in OpenCall /\ CallOk(a) /\ RetryOk(a) /\ WalkOk(a) /\ (~world.late => CountOk(a))
      /\ a.key \in IdemKeys
  BY <1>1, <1>2, CallFacts, Zenon
<1>4. inflight' = inflight /\ world' = world /\ world \in WorldType
  BY <1>2, Zenon DEF Quiet, BulkInv, HandlerTypes
<1>5. a.seen.found /\ a.seen \in Record
  <2>1. a.seen.found /\ a.seen \in {NoRecord} \cup Record
    BY <1>2, <1>3, Zenon DEF RetryOk, OpenCall
  <2> QED
    BY <2>1, StoreFacts, Zenon DEF BulkInv, StoreInv
<1>6. a.seen.outcome \in Outcome
  BY <1>5, Zenon DEF Record
<1>7. CASE \E d : Tells(d) /\ Goto(p, d)
  BY <1>2, <1>7, QuietAnswer, Zenon
<1>8. CASE a.seen.command = a.command /\ ~a.seen.terminal /\ ~Alive(a.seen, lease)
           /\ Goto(p, [a EXCEPT !.pc = "finalize", !.seen = NoRecord])
  <2> DEFINE d == [a EXCEPT !.pc = "finalize", !.seen = NoRecord]
  <2>1. /\ d \in OpenCall /\ d.pc = "finalize" /\ Same(a, d) /\ Rest(a, d)
        /\ d.counted = a.counted
    BY <1>3, Zenon DEF OpenCall, Same, Rest, Reads
  <2>a. Goto(p, d)
    BY <1>8, Zenon
  <2> HIDE DEF d
  <2>2. CallOk(d)
    BY <1>2, <1>3, <2>1, Zenon DEF CallOk, Same, Sweeping
  <2>3. RetryOk(d)
    BY <1>2, <1>3, <1>8, <2>1, Zenon DEF RetryOk, Same, Alive
  <2>4. WalkOk(d)
    BY <1>2, <1>3, <2>1, ZenonT(40) DEF WalkOk, Rest
  <2>5. ~world.late => CountOk(d)
    BY <1>2, <1>3, <2>1, Zenon DEF CountOk, Own, Same
  <2> QED
    BY <1>1, <1>2, <1>4, <2>1, <2>a, <2>2, <2>3, <2>4, <2>5, QuietMove, Zenon DEF CallerOk
<1>9. Tells(Answer("command_mismatch")) /\ Tells(Answer("poll"))
  BY Zenon DEF Answer, AnswerCall, Tells
<1>10. ASSUME a.seen.command = a.command, a.seen.terminal
       PROVE  Tells(Replay(a, a.seen.outcome))
  <2>1. record[a.key] = a.seen /\ record[a.key].found
    BY <1>2, <1>3, <1>10, Zenon DEF RetryOk
  <2>2. PICK d : d = Replay(a, a.seen.outcome)
    BY Zenon
  <2>3. d \in OutcomeCall /\ d.key = a.key /\ d.command = a.command /\ d.outcome = a.seen.outcome
    BY <1>3, <1>6, <2>2, Replays, Zenon
  <2> QED
    BY <1>10, <2>1, <2>2, <2>3, Zenon DEF Tells, Recorded
<1> QED
  BY <1>1, <1>7, <1>8, <1>9, <1>10, Zenon DEF Standing

\* Finalize reads the progress a dead sweep committed.
LEMMA FinalizeReadsStep ==
    ASSUME BulkInv, NEW p \in Callers, FinalizeReads(p)
    PROVE  BulkInv'
<1>1. PICK a : a = call[p]
  OBVIOUS
<1>2. Open(p) /\ a.pc = "finalize" /\ Quiet /\ UNCHANGED rvars
  BY <1>1, Zenon DEF FinalizeReads, At, Open
<1>3. /\ a \in OpenCall /\ CallOk(a) /\ RetryOk(a) /\ WalkOk(a) /\ (~world.late => CountOk(a))
      /\ a.key \in IdemKeys
  BY <1>1, <1>2, CallFacts, Zenon
<1>4. inflight' = inflight /\ world' = world /\ world \in WorldType
  BY <1>2, Zenon DEF Quiet, BulkInv, HandlerTypes
<1>5. record[a.key] \in Record
  BY <1>2, <1>3, StoreFacts, Zenon DEF RetryOk, BulkInv, StoreInv
<1>6. record[a.key].outcome \in Outcome /\ record[a.key].progress \in Nat
  BY <1>5, Zenon DEF Record
<1>7. CASE \E d : Tells(d) /\ Goto(p, d)
  BY <1>2, <1>7, QuietAnswer, Zenon
<1>8. CASE Goto(p, [a EXCEPT !.pc = "finalizing", !.counted = record[a.key].progress])
  <2>0. PICK n \in Nat : n = record[a.key].progress
    BY <1>6, Zenon
  <2> DEFINE d == [a EXCEPT !.pc = "finalizing", !.counted = n]
  <2>1. /\ d \in OpenCall /\ d.pc = "finalizing" /\ Same(a, d) /\ Rest(a, d) /\ d.counted = n
    BY <1>3, ZenonT(40) DEF OpenCall, Same, Rest, Writes
  <2>a. Goto(p, d)
    BY <1>8, <2>0, Zenon
  <2> HIDE DEF d
  <2>2. CallOk(d)
    BY <1>2, <1>3, <2>1, Zenon DEF CallOk, Same, Sweeping
  <2>3. RetryOk(d)
    BY <1>2, <1>3, <2>1, Zenon DEF RetryOk, Same
  <2>4. WalkOk(d)
    BY <1>2, <1>3, <2>1, Zenon DEF WalkOk, Rest
  <2>5. ~world.late => CountOk(d)
    BY <1>2, <1>3, <2>0, <2>1, ZenonT(40) DEF CountOk, Own, Same
  <2> QED
    BY <1>1, <1>2, <1>4, <2>1, <2>a, <2>2, <2>3, <2>4, <2>5, QuietMove, Zenon DEF CallerOk
<1>9. ASSUME record[a.key].terminal
      PROVE  Tells(Replay(a, record[a.key].outcome))
  <2>1. record[a.key].found /\ record[a.key].command = a.command
    BY <1>2, <1>3, ZenonT(40) DEF RetryOk
  <2>2. PICK d : d = Replay(a, record[a.key].outcome)
    BY Zenon
  <2>3. /\ d \in OutcomeCall /\ d.key = a.key /\ d.command = a.command
        /\ d.outcome = record[a.key].outcome
    BY <1>3, <1>6, <2>2, Replays, Zenon
  <2> QED
    BY <1>9, <2>1, <2>2, <2>3, Zenon DEF Tells, Recorded
<1> QED
  BY <1>1, <1>7, <1>8, <1>9, Zenon DEF FinalizeReads

\* Finalize writes the outcome of the dead sweep.
LEMMA FinalizeStep ==
    ASSUME BulkInv, NEW p \in Callers, Finalize(p)
    PROVE  BulkInv'
<1>1. PICK a : a = call[p]
  OBVIOUS
<1>2. Open(p) /\ a.pc = "finalizing" /\ Quiet /\ FinalizeOf(a) /\ To(p, "finalized")
  BY <1>1, Zenon DEF Finalize, At, Open
<1>3. /\ a \in OpenCall /\ CallOk(a) /\ RetryOk(a) /\ WalkOk(a) /\ (~world.late => CountOk(a))
      /\ a.key \in IdemKeys
  BY <1>1, <1>2, CallFacts, Zenon
<1>4. inflight' = inflight /\ world' = world /\ world \in WorldType
  BY <1>2, Zenon DEF Quiet, BulkInv, HandlerTypes
<1>5. a.pc \in Writes /\ Effect(a)
  BY <1>2, Zenon DEF Effect, Writes
<1>6. StoreInv' /\ Guarantees(a) /\ CallOk(a)' /\ CallerOk(a)'
  BY <1>3, <1>4, <1>5, EffectStore, EffectKeeps, Zenon DEF BulkInv
<1> DEFINE d == [a EXCEPT !.pc = "finalized"]
<1>7. /\ d \in OpenCall /\ d.pc = "finalized" /\ Same(a, d) /\ Rest(a, d) /\ d.counted = a.counted
  BY <1>3, Zenon DEF OpenCall, Same, Rest, Reads
<1>8. Goto(p, d)
  BY <1>1, <1>2, Zenon DEF To
<1> HIDE DEF d
<1>9. CallOk(d)'
  BY <1>2, <1>6, <1>7, ZenonT(40) DEF CallOk, Same, Sweeping
<1>10. CallerOk(d)'
  BY <1>2, <1>6, <1>7, ZenonT(40) DEF CallerOk, RetryOk, WalkOk, CountOk, Own, Same, Rest
<1> QED
  BY <1>1, <1>2, <1>4, <1>6, <1>7, <1>8, <1>9, <1>10, WriteMove, Zenon

\* Finalize answers with what it then reads.
LEMMA FinalizeAnswersStep ==
    ASSUME BulkInv, NEW p \in Callers, FinalizeAnswers(p)
    PROVE  BulkInv'
<1>1. PICK a : a = call[p]
  OBVIOUS
<1>2. Open(p) /\ a.pc = "finalized" /\ Quiet /\ UNCHANGED rvars
  BY <1>1, Zenon DEF FinalizeAnswers, At, Open
<1>3. a \in OpenCall /\ RetryOk(a) /\ a.key \in IdemKeys
  BY <1>1, <1>2, CallFacts, Zenon
<1>4. record[a.key] \in Record
  BY <1>2, <1>3, StoreFacts, Zenon DEF RetryOk, BulkInv, StoreInv
<1>5. record[a.key].outcome \in Outcome
  BY <1>4, Zenon DEF Record
<1>0. Tells(Answer("poll"))
  BY Zenon DEF Answer, AnswerCall, Tells
<1>6. ASSUME record[a.key].terminal
      PROVE  Tells(Replay(a, record[a.key].outcome))
  <2>1. record[a.key].found /\ record[a.key].command = a.command
    BY <1>2, <1>3, Zenon DEF RetryOk
  <2>2. PICK d : d = Replay(a, record[a.key].outcome)
    OBVIOUS
  <2>3. /\ d \in OutcomeCall /\ d.key = a.key /\ d.command = a.command
        /\ d.outcome = record[a.key].outcome
    BY <1>3, <1>5, <2>2, Replays, Zenon
  <2> QED
    BY <1>6, <2>1, <2>2, <2>3, SMTT(60) DEF Tells, Recorded
<1>7. \E d : Tells(d) /\ Goto(p, d)
  BY <1>0, <1>1, <1>6, Zenon DEF FinalizeAnswers
<1> QED
  BY <1>2, <1>7, QuietAnswer, Zenon

\* checkToken validates what the token is bound to.
LEMMA CheckTokenStep ==
    ASSUME BulkInv, NEW p \in Callers, CheckToken(p)
    PROVE  BulkInv'
<1>1. PICK a : a = call[p]
  OBVIOUS
<1>2. Open(p) /\ a.pc = "token" /\ Quiet /\ UNCHANGED rvars
  BY <1>1, Zenon DEF CheckToken, At, Open
<1>3. a \in OpenCall
  BY <1>1, <1>2, CallFacts, Zenon
<1>4. CASE /\ TokenOf(a.command.token) # {}
           /\ \A t \in TokenOf(a.command.token) :
                 t.selection = a.command.selection /\ t.version = a.version
           /\ Fence(p)
  <2>1. PICK t \in tokens : t.id = a.command.token /\ t.selection = a.command.selection
                            /\ t.version = a.version
    BY <1>4, Zenon DEF TokenOf
  <2>2. \E i \in 1..Len(accepted) : Authorizes(accepted[i], t.id, t.selection, t.version)
    BY Zenon DEF BulkInv, StoreInv, TokensPreviewed
  <2> QED
    BY <1>1, <1>2, <1>4, <2>1, <2>2, FreshMove, Zenon
<1>5. CASE \E d : Tells(d) /\ Goto(p, d)
  BY <1>2, <1>5, QuietAnswer, Zenon
<1>6. /\ Tells(Answer("gone")) /\ Tells(Answer("stale_confirmation"))
      /\ Tells(Answer("stale_rule_set"))
  BY Zenon DEF Answer, AnswerCall, Tells
<1> QED
  BY <1>1, <1>4, <1>5, <1>6, ZenonT(40) DEF CheckToken

\* The acceptance script runs for the call.
LEMMA AcceptStep ==
    ASSUME BulkInv, NEW p \in Callers, Accept(p)
    PROVE  BulkInv'
<1>1. PICK a : a = call[p]
  OBVIOUS
<1> DEFINE v == AcceptVerdict(a.key, a.command)
<1>2. Open(p) /\ a.pc = "accept" /\ Quiet /\ AcceptOf(a)
  BY <1>1, Zenon DEF Accept, At, Open
<1>3. /\ a \in OpenCall /\ CallOk(a) /\ RetryOk(a) /\ WalkOk(a) /\ (~world.late => CountOk(a))
      /\ a.key \in IdemKeys
  BY <1>1, <1>2, CallFacts, Zenon
<1>4. inflight' = inflight /\ world' = world /\ world \in WorldType
  BY <1>2, Zenon DEF Quiet, BulkInv, HandlerTypes
<1>5. a.pc \in Writes /\ Effect(a)
  BY <1>2, Zenon DEF Effect, Writes
<1>6. StoreInv' /\ Guarantees(a) /\ CallOk(a)' /\ CallerOk(a)'
  BY <1>3, <1>4, <1>5, EffectStore, EffectKeeps DEF BulkInv
<1>7. /\ v # "accepted" => UNCHANGED rvars
      /\ v = "accepted" =>
            /\ record'[a.key].found /\ record'[a.key].fencing = a.fencing
            /\ record'[a.key].progress = 0 /\ record'[a.key].outcome.token = 0
  BY <1>2, <1>3, <1>4, AcceptStore, Zenon DEF BulkInv
<1>8. v \in {"existing", "busy", "no_token", "accepted"}
  BY Zenon DEF AcceptVerdict
<1>9. /\ v = "existing" => Goto(p, [a EXCEPT !.pc = "lookup"])
      /\ v = "busy" => Goto(p, Answer("sweep_in_flight"))
      /\ v = "no_token" => Goto(p, Answer("gone"))
      /\ v = "accepted" => Goto(p, [a EXCEPT !.pc = "walk"])
  BY <1>1, Zenon DEF Accept
<1> HIDE DEF v
<1>10. CASE v = "existing"
  <2> DEFINE d == [a EXCEPT !.pc = "lookup"]
  <2>1. /\ d \in OpenCall /\ d.pc = "lookup" /\ Same(a, d) /\ Rest(a, d) /\ d.counted = a.counted
    BY <1>3, Zenon DEF OpenCall, Same, Rest, Reads
  <2>2. Goto(p, d)
    BY <1>9, <1>10, Zenon
  <2> HIDE DEF d
  <2>3. CallOk(d)
    BY <1>2, <1>3, <2>1, ZenonT(40) DEF CallOk, Same, Sweeping
  <2>4. RetryOk(d) /\ WalkOk(d)
    BY <1>2, <1>3, <2>1, ZenonT(40) DEF RetryOk, WalkOk, Same, Rest
  <2>5. ~world.late => CountOk(d)
    BY <1>2, <1>3, <2>1, Zenon DEF CountOk, Own, Same
  <2> QED
    BY <1>1, <1>2, <1>4, <1>7, <1>10, <2>1, <2>2, <2>3, <2>4, <2>5, QuietMove, Zenon DEF CallerOk
<1>11. CASE v \in {"busy", "no_token"}
  <2>1. Tells(Answer("gone")) /\ Tells(Answer("sweep_in_flight"))
    BY Zenon DEF Answer, AnswerCall, Tells
  <2> QED
    BY <1>2, <1>7, <1>9, <1>11, <2>1, QuietAnswer, Zenon
<1>12. CASE v = "accepted"
  <2> DEFINE d == [a EXCEPT !.pc = "walk"]
  <2>1. /\ d \in OpenCall /\ d.pc = "walk" /\ Same(a, d) /\ Rest(a, d) /\ d.counted = a.counted
    BY <1>3, Zenon DEF OpenCall, Same, Rest
  <2>2. Goto(p, d)
    BY <1>9, <1>12, Zenon
  <2> HIDE DEF d
  <2>3. CallOk(d)'
    BY <1>2, <1>6, <1>7, <1>12, <2>1, ZenonT(40) DEF CallOk, Same, Sweeping, Own
  <2>4. RetryOk(d)' /\ WalkOk(d)'
    BY <1>2, <1>3, <2>1, ZenonT(40) DEF RetryOk, WalkOk, Same, Rest
  <2>5. ~world.late => CountOk(d)'
    BY <1>2, <1>3, <1>7, <1>12, <2>1, Zenon DEF CountOk, Own, Same
  <2>6. CallerOk(d)'
    BY <1>4, <2>4, <2>5, Zenon DEF CallerOk
  <2> QED
    BY <1>1, <1>2, <1>4, <1>6, <2>1, <2>2, <2>3, <2>6, WriteMove, Zenon
<1> QED
  BY <1>8, <1>10, <1>11, <1>12, Zenon

=============================================================================

---------------------------- MODULE BulkProofs ------------------------------
(***************************************************************************)
(* Proofs about the bulk reset: a key runs once and a token authorizes     *)
(* what its preview looked at, two sweeps of a domain never overlap, an    *)
(* outcome is final and the same for everybody, it discloses what the      *)
(* batches did, and a completed sweep dealt with its whole selection, for  *)
(* every number of calls, keys and counters and any number of faults.      *)
(***************************************************************************)
EXTENDS BulkLemmas, FiniteSetTheorems

-----------------------------------------------------------------------------
(* The walk.                                                               *)

Covers(c) ==
    Selected[c.command.selection]
        \subseteq ran[c.fencing].named \cup c.skipped \cup c.left \cup c.batch

\* A call inside the walk, and what it may become.
Walking(c) ==
    /\ c \in OpenCall /\ c.pc \in {"walk", "judge"} /\ CallOk(c) /\ Own(c)
    /\ Covers(c) /\ (c.over => c.left = {})
    /\ ~world.late => c.counted = record[c.key].progress /\ record[c.key].outcome.token = 0

Good(c, d) == d \in OpenCall /\ d.pc # "answered" /\ Same(c, d) /\ CallOk(d) /\ CallerOk(d)

\* A call in its sweep walks over its own selection.
LEMMA WalkingOf ==
    ASSUME BulkInv, NEW p \in Callers, Open(p), NEW a, a = call[p], a.pc \in {"walk", "judge"}
    PROVE  Walking(a) /\ (a.pc = "walk" /\ a.over => a.batch = {})
<1>1. a \in OpenCall /\ CallOk(a) /\ WalkOk(a) /\ (~world.late => CountOk(a))
  BY CallFacts, Zenon
<1>2. Own(a)
  BY <1>1, ZenonT(40) DEF CallOk, Sweeping
<1> QED
  BY <1>1, <1>2, ZenonT(40) DEF Walking, WalkOk, CountOk, Covers

\* A walking call that stays in the walk, or goes to the filter.
LEMMA WalksOn ==
    ASSUME NEW c, Walking(c), NEW d \in OpenCall, Same(c, d), d.pc \in {"walk", "judge"},
           Covers(d), d.over => d.left = {}, d.pc = "walk" /\ d.over => d.batch = {},
           d.counted = c.counted
    PROVE  Good(c, d)
<1>1. CallOk(d)
  BY Zenon DEF Walking, CallOk, Same, Own, Sweeping
<1>2. RetryOk(d) /\ WalkOk(d)
  BY Zenon DEF RetryOk, WalkOk, Covers
<1>3. ~world.late => CountOk(d)
  BY Zenon DEF Walking, CountOk, Same, Own
<1> QED
  BY <1>1, <1>2, <1>3, ZenonT(40) DEF Good, CallerOk

\* What the walker counts before the store runs the batch.
LEMMA CountedCall ==
    ASSUME NEW c, Walking(c), NEW keep \in SUBSET c.batch, NEW size \in Nat, keep = {} => size = 0
    PROVE  Good(c, Counted(c, keep, size))
<1> DEFINE d == Counted(c, keep, size)
<1>0. c \in OpenCall
  BY Zenon DEF Walking
<1>1. /\ d \in OpenCall /\ Same(c, d) /\ d.left = c.left /\ d.over = c.over /\ d.batch = keep
      /\ d.skipped = c.skipped \cup (c.batch \ keep) /\ d.counted = c.counted + size
      /\ d.pc = IF keep = {} THEN "walk" ELSE "batch"
  <2> DEFINE x == IF keep = {} THEN "walk" ELSE "batch"
             y == c.skipped \cup (c.batch \ keep)
             n == c.counted + size
  <2>1. /\ x \in Writes \cup Reads \cup {"walk", "judge"} /\ y \in SUBSET Counters /\ n \in Nat
        /\ keep \in SUBSET Counters
    BY <1>0 DEF OpenCall, Writes
  <2>2. d = [c EXCEPT !.batch = keep, !.size = size, !.skipped = y, !.counted = n, !.pc = x]
    BY Zenon DEF Counted
  <2> HIDE DEF x, y, n, d
  <2>3. /\ d \in OpenCall /\ Same(c, d) /\ d.left = c.left /\ d.over = c.over /\ d.batch = keep
        /\ d.skipped = y /\ d.counted = n /\ d.pc = x
    BY <1>0, <2>1, <2>2, Zenon DEF OpenCall, Same
  <2> QED
    BY <2>3, Zenon DEF x, y, n
<1> HIDE DEF d
<1>2. Covers(d) /\ (d.over => d.left = {})
  BY <1>1, Zenon DEF Walking, Covers, Same
<1>3. CASE keep = {}
  <2>1. d.pc = "walk" /\ d.counted = c.counted /\ d.batch = {}
    BY <1>0, <1>1, <1>3, SMTT(60) DEF OpenCall
  <2> QED
    BY <1>1, <1>2, <2>1, WalksOn, Zenon DEF d
<1>4. CASE keep # {}
  <2>1. d.pc = "batch"
    BY <1>1, <1>4, Zenon
  <2>2. CallOk(d)
    BY <1>1, <2>1, ZenonT(40) DEF Walking, CallOk, Same, Own, Sweeping
  <2>3. RetryOk(d) /\ WalkOk(d)
    BY <1>2, <2>1, Zenon DEF RetryOk, WalkOk, Covers
  <2>4. ~world.late => CountOk(d)
    BY <1>1, <2>1, Zenon DEF Walking, CountOk, Same, Own
  <2> QED
    BY <1>1, <2>2, <2>3, <2>4, Zenon DEF Good, CallerOk, d
<1> QED
  BY <1>3, <1>4, Zenon

\* A full batch goes to the peek or straight to its deletion (commitBatch).
LEMMA CommittedBatch ==
    ASSUME NEW c, Walking(c), c.batch # {}
    PROVE  Good(c, CommitBatch(c))
<1>0. c \in OpenCall /\ c.size \in Nat
  BY Zenon DEF Walking, OpenCall
<1>1. CASE c.command.selection \in Limited
  <2> DEFINE d == [c EXCEPT !.pc = "judge"]
  <2>1. /\ d \in OpenCall /\ d.pc = "judge" /\ Same(c, d) /\ Rest(c, d) /\ d.counted = c.counted
    BY <1>0, Zenon DEF OpenCall, Same, Rest
  <2>2. CommitBatch(c) = d
    BY <1>1, Zenon DEF CommitBatch
  <2> HIDE DEF d
  <2>3. Covers(d) /\ (d.over => d.left = {})
    BY <2>1, Zenon DEF Walking, Covers, Same, Rest
  <2> QED
    BY <2>1, <2>2, <2>3, WalksOn, Zenon
<1>2. CASE c.command.selection \notin Limited
  <2>1. CommitBatch(c) = Counted(c, c.batch, c.size)
    BY <1>2, Zenon DEF CommitBatch
  <2> QED
    BY <1>0, <2>1, CountedCall, Zenon
<1> QED
  BY <1>1, <1>2, Zenon

\* The walk looks at one more counter.
LEMMA VisitedKey ==
    ASSUME NEW c, Walking(c), c.pc = "walk", ~c.over, NEW p, Visit(p, c)
    PROVE  \E d : Good(c, d) /\ Goto(p, d)
<1>0. c \in OpenCall
  BY Zenon DEF Walking
<1>1. PICK k \in Selected[c.command.selection] :
         LET seen == [c EXCEPT !.left = @ \ {k},
                               !.repeats = IF k \in c.left THEN @ ELSE @ + 1]
             d == [seen EXCEPT !.batch = @ \cup {k}, !.size = @ + 1]
         IN \/ k \in c.left /\ Goto(p, [seen EXCEPT !.skipped = @ \cup {k}])
            \/ Goto(p, IF d.size < SweepBatch THEN d ELSE CommitBatch(d))
  BY Zenon DEF Visit
<1>2. k \in Counters
  BY <1>0, BulkConstants, Zenon DEF OpenCall, Command
<1> DEFINE s == [c EXCEPT !.left = @ \ {k}, !.repeats = IF k \in c.left THEN @ ELSE @ + 1]
           b == [s EXCEPT !.batch = @ \cup {k}, !.size = @ + 1]
           g == [s EXCEPT !.skipped = @ \cup {k}]
<1>3. /\ s \in OpenCall /\ Same(c, s) /\ s.left = c.left \ {k} /\ s.batch = c.batch
      /\ s.skipped = c.skipped /\ s.over = c.over /\ s.counted = c.counted /\ s.pc = c.pc
  <2> DEFINE l == c.left \ {k}
             r == IF k \in c.left THEN c.repeats ELSE c.repeats + 1
  <2>1. l \in SUBSET Counters /\ r \in Nat
    BY <1>0 DEF OpenCall
  <2>2. s = [c EXCEPT !.left = l, !.repeats = r]
    BY Zenon
  <2> HIDE DEF l, r, s
  <2>3. /\ s \in OpenCall /\ Same(c, s) /\ s.left = l /\ s.batch = c.batch
        /\ s.skipped = c.skipped /\ s.over = c.over /\ s.counted = c.counted /\ s.pc = c.pc
    BY <1>0, <2>1, <2>2, ZenonT(40) DEF OpenCall, Same
  <2> QED
    BY <2>3, Zenon DEF l
<1>4. \/ Goto(p, g)
      \/ Goto(p, b) \/ Goto(p, CommitBatch(b))
  BY <1>1, Zenon
<1> HIDE DEF s
<1>5. /\ b \in OpenCall /\ Same(c, b) /\ b.left = c.left \ {k} /\ b.batch = c.batch \cup {k}
      /\ b.skipped = c.skipped /\ b.over = c.over /\ b.counted = c.counted /\ b.pc = c.pc
  <2> DEFINE x == s.batch \cup {k}
             n == s.size + 1
  <2>1. x \in SUBSET Counters /\ n \in Nat
    BY <1>2, <1>3, SMTT(60) DEF OpenCall
  <2>2. b = [s EXCEPT !.batch = x, !.size = n]
    BY Zenon
  <2> HIDE DEF x, n, b
  <2>3. /\ b \in OpenCall /\ Same(s, b) /\ b.left = s.left /\ b.batch = x
        /\ b.skipped = s.skipped /\ b.over = s.over /\ b.counted = s.counted /\ b.pc = s.pc
    BY <1>3, <2>1, <2>2, Zenon DEF OpenCall, Same
  <2> QED
    BY <1>3, <2>3, Zenon DEF x, Same
<1>6. /\ g \in OpenCall /\ Same(c, g) /\ g.left = c.left \ {k} /\ g.batch = c.batch
      /\ g.skipped = c.skipped \cup {k} /\ g.over = c.over /\ g.counted = c.counted /\ g.pc = c.pc
  BY <1>2, <1>3, Zenon DEF OpenCall, Same
<1> HIDE DEF b, g
<1>7. Covers(b) /\ Covers(g)
  BY <1>5, <1>6, ZenonT(40) DEF Walking, Covers, Same
<1>8. Good(c, g) /\ Good(c, b)
  BY <1>5, <1>6, <1>7, WalksOn, Zenon
<1>9. Walking(b)
  BY <1>5, <1>7, <1>8, ZenonT(40) DEF Walking, Good, Same, Own
<1>10. Good(b, CommitBatch(b))
  BY <1>5, <1>9, CommittedBatch, Zenon
<1>11. Good(c, CommitBatch(b))
  BY <1>5, <1>10, Zenon DEF Good, Same
<1> QED
  BY <1>4, <1>8, <1>11, Zenon

\* A call takes a step of its walk.
LEMMA WalkStep ==
    ASSUME BulkInv, NEW p \in Callers, Walk(p)
    PROVE  BulkInv'
<1>1. PICK a : a = call[p]
  BY Zenon
<1>2. Open(p) /\ a.pc = "walk" /\ Quiet /\ UNCHANGED rvars
  BY <1>1, Zenon DEF Walk, At, Open
<1>3. Walking(a) /\ (a.over => a.batch = {}) /\ a \in OpenCall
  BY <1>1, <1>2, WalkingOf, Zenon DEF Walking
<1>4. inflight' = inflight /\ world' = world /\ world \in WorldType
  BY <1>2, Zenon DEF Quiet, BulkInv, HandlerTypes
<1>5. \E d : Good(a, d) /\ Goto(p, d)
  <2>1. CASE ~a.over /\ Visit(p, a)
    BY <1>2, <1>3, <2>1, VisitedKey, Zenon
  <2>2. CASE /\ ~a.over /\ a.left = {} /\ a.batch # {}
             /\ Goto(p, CommitBatch([a EXCEPT !.over = TRUE]))
    <3> DEFINE c == [a EXCEPT !.over = TRUE]
    <3>1. /\ c \in OpenCall /\ Same(a, c) /\ c.left = a.left /\ c.batch = a.batch /\ c.over = TRUE
          /\ c.skipped = a.skipped /\ c.counted = a.counted /\ c.pc = a.pc
      BY <1>3, Zenon DEF OpenCall, Same
    <3>2. Goto(p, CommitBatch(c))
      BY <2>2, Zenon
    <3> HIDE DEF c
    <3>3. CallOk(c)
      BY <1>2, <1>3, <3>1, Zenon DEF Walking, CallOk, Same, Own, Sweeping
    <3>4. Walking(c)
      BY <1>3, <2>2, <3>1, <3>3, Zenon DEF Walking, Covers, Same, Own
    <3>5. Good(c, CommitBatch(c))
      BY <2>2, <3>1, <3>4, CommittedBatch, Zenon
    <3> QED
      BY <3>1, <3>2, <3>5, Zenon DEF Good, Same
  <2>3. CASE /\ a.over \/ (a.left = {} /\ a.batch = {})
             /\ To(p, IF a.command.dry THEN "mint" ELSE "commit")
    <3>1. PICK x \in {"mint", "commit"} : x = IF a.command.dry THEN "mint" ELSE "commit"
      BY Zenon
    <3> DEFINE d == [a EXCEPT !.pc = x]
    <3>2. /\ d \in OpenCall /\ d.pc = x /\ Same(a, d) /\ Rest(a, d) /\ d.counted = a.counted
      BY <1>3, Zenon DEF OpenCall, Same, Rest, Writes
    <3>3. Goto(p, d)
      BY <1>1, <2>3, <3>1, Zenon DEF To
    <3> HIDE DEF d
    <3>4. CallOk(d)
      BY <1>3, <3>1, <3>2, ZenonT(40) DEF Walking, CallOk, Same, Own, Sweeping
    <3>5. RetryOk(d)
      BY <3>2, Zenon DEF RetryOk
    <3>6. WalkOk(d)
      BY <1>3, <2>3, <3>2, ZenonT(40) DEF Walking, WalkOk, Covers, Same, Rest
    <3>7. ~world.late => CountOk(d)
      BY <1>3, <3>2, ZenonT(40) DEF Walking, CountOk, Same, Own
    <3> QED
      BY <3>2, <3>3, <3>4, <3>5, <3>6, <3>7, Zenon DEF Good, CallerOk
  <2> QED
    BY <1>1, <2>1, <2>2, <2>3, Zenon DEF Walk
<1> QED
  BY <1>1, <1>2, <1>4, <1>5, QuietMove, Zenon DEF Good

\* The walk runs out of its deadline.
LEMMA DeadlineStep ==
    ASSUME BulkInv, NEW p \in Callers, Deadline(p)
    PROVE  BulkInv'
<1>1. PICK a : a = call[p]
  OBVIOUS
<1>2. Open(p) /\ a.pc = "walk" /\ ~a.over /\ Quiet /\ UNCHANGED rvars
  BY <1>1, Zenon DEF Deadline, At, Open
<1>3. Walking(a) /\ a \in OpenCall
  BY <1>1, <1>2, WalkingOf, Zenon DEF Walking
<1>4. inflight' = inflight /\ world' = world /\ world \in WorldType
  BY <1>2, Zenon DEF Quiet, BulkInv, HandlerTypes
<1> DEFINE d == [a EXCEPT !.pc = "failing", !.cause = "work_limit"]
<1>5. /\ d \in OpenCall /\ d.pc = "failing" /\ Same(a, d) /\ Rest(a, d) /\ d.counted = a.counted
      /\ d.cause = "work_limit"
  BY <1>3, Zenon DEF OpenCall, Same, Rest, Writes, Causes
<1>6. Goto(p, d)
  BY <1>1, Zenon DEF Deadline
<1> HIDE DEF d
<1>7. CallOk(d)
  BY <1>3, <1>5, ZenonT(40) DEF Walking, CallOk, Same, Own, Sweeping
<1>8. RetryOk(d) /\ WalkOk(d)
  BY <1>2, <1>5, ZenonT(40) DEF RetryOk, WalkOk, Rest
<1>9. ~world.late => CountOk(d)
  BY <1>3, <1>5, Zenon DEF Walking, CountOk, Same, Own
<1> QED
  BY <1>1, <1>2, <1>4, <1>5, <1>6, <1>7, <1>8, <1>9, QuietMove, Zenon DEF CallerOk

\* A store call inside the sweep that gives no answer.
LEMMA ErrorCall ==
    ASSUME NEW a \in OpenCall, a.pc \in {"walk", "judge", "batch", "mint"}
    PROVE  /\ OnError(a) \in OpenCall /\ OnError(a).pc = "readback" /\ Same(a, OnError(a))
           /\ CallOk(a) /\ CallerOk(a) => CallOk(OnError(a)) /\ CallerOk(OnError(a))
           /\ CallOk(a)' /\ CallerOk(a)' => CallOk(OnError(a))' /\ CallerOk(OnError(a))'
<1> DEFINE d == [a EXCEPT !.pc = "readback", !.cause = "interrupted"]
<1>1. /\ d \in OpenCall /\ d.pc = "readback" /\ Same(a, d) /\ Rest(a, d) /\ d.cause = "interrupted"
  BY Zenon DEF OpenCall, Same, Rest, Reads, Causes
<1>2. OnError(a) = d
  BY Zenon DEF OnError
<1> HIDE DEF d
<1>3. CallOk(a) => CallOk(d)
  BY <1>1, ZenonT(40) DEF CallOk, Same, Own, Sweeping
<1>4. CallerOk(a) => CallerOk(d)
  BY <1>1, ZenonT(40) DEF CallerOk, RetryOk, WalkOk, CountOk, Own, Same, Rest
<1>5. CallOk(a)' => CallOk(d)'
  BY <1>1, ZenonT(40) DEF CallOk, Same, Own, Sweeping
<1>6. CallerOk(a)' => CallerOk(d)'
  BY <1>1, Zenon DEF CallerOk, RetryOk, WalkOk, CountOk, Own, Same, Rest
<1> QED
  BY <1>1, <1>2, <1>3, <1>4, <1>5, <1>6, Zenon

\* Whatever the call, an error ends it or turns it to its record.
LEMMA ErrorMoves ==
    ASSUME NEW a \in OpenCall, CallOk(a), CallerOk(a), NEW d, d = OnError(a)
    PROVE  /\ d \in OpenCall \cup AnswerCall \cup OutcomeCall
           /\ d.pc # "answered" => CallOk(d) /\ CallerOk(d) /\ Same(a, d)
           /\ d.pc = "answered" => d.kind # "outcome"
<1>1. CASE a.pc \in {"walk", "judge", "batch", "mint"}
  BY <1>1, ErrorCall, Zenon
<1>2. CASE a.pc \notin {"walk", "judge", "batch", "mint"}
  BY <1>2, Zenon DEF OnError, Answer, AnswerCall
<1> QED
  BY <1>1, <1>2, Zenon

\* The keys of a batch that would refuse a request are singled out (refusing).
LEMMA JudgeStep ==
    ASSUME BulkInv, NEW p \in Callers, Judge(p)
    PROVE  BulkInv'
<1>1. PICK a : a = call[p]
  OBVIOUS
<1>2. Open(p) /\ a.pc = "judge" /\ Quiet /\ UNCHANGED rvars
  BY <1>1, Zenon DEF Judge, At, Open
<1>3. Walking(a) /\ a \in OpenCall /\ CallOk(a) /\ CallerOk(a)
  BY <1>1, <1>2, WalkingOf, CallFacts, Zenon
<1>4. inflight' = inflight /\ world' = world /\ world \in WorldType
  BY <1>2, Zenon DEF Quiet, BulkInv, HandlerTypes
<1>5. CASE Goto(p, OnError(a))
  <2>1. PICK d : d = OnError(a)
    BY Zenon
  <2>2. Goto(p, d)
    BY <1>5, <2>1, Zenon
  <2>3. /\ d \in OpenCall \cup AnswerCall \cup OutcomeCall
        /\ d.pc # "answered" => CallOk(d) /\ CallerOk(d) /\ Same(a, d)
        /\ d.pc = "answered" => d.kind # "outcome"
    BY <1>3, <2>1, ErrorMoves, Zenon
  <2> QED
    BY <1>1, <1>2, <1>4, <2>2, <2>3, QuietMove, Zenon
<1>6. CASE \E keep \in SUBSET a.batch : Goto(p, Counted(a, keep, Cardinality(keep)))
  <2>1. PICK keep \in SUBSET a.batch : Goto(p, Counted(a, keep, Cardinality(keep)))
    BY <1>6, Zenon
  <2>2. IsFiniteSet(keep)
    BY <1>3, BulkConstants, FS_Subset, Zenon DEF OpenCall
  <2>3. Cardinality(keep) \in Nat /\ (keep = {} => Cardinality(keep) = 0)
    BY <2>2, FS_CardinalityType, FS_EmptySet, Zenon
  <2>4. PICK d : d = Counted(a, keep, Cardinality(keep))
    BY Zenon
  <2>5. Good(a, d) /\ Goto(p, d)
    BY <1>3, <2>1, <2>3, <2>4, CountedCall, Zenon
  <2> QED
    BY <1>1, <1>2, <1>4, <2>5, QuietMove, ZenonT(40) DEF Good
<1> QED
  BY <1>1, <1>5, <1>6, Zenon DEF Judge

\* A batch of deletions is sent, and its script runs.
LEMMA BatchStep ==
    ASSUME BulkInv, NEW p \in Callers, Batch(p)
    PROVE  BulkInv'
<1>1. PICK a : a = call[p]
  OBVIOUS
<1>2. Open(p) /\ a.pc = "batch" /\ Quiet /\ BatchOf(a)
  BY <1>1, Zenon DEF Batch, At, Open
<1>3. /\ a \in OpenCall /\ CallOk(a) /\ RetryOk(a) /\ WalkOk(a) /\ (~world.late => CountOk(a))
      /\ a.key \in IdemKeys /\ CallerOk(a)
  BY <1>1, <1>2, CallFacts, Zenon
<1>4. inflight' = inflight /\ world' = world /\ world \in WorldType
  BY <1>2, Zenon DEF Quiet, BulkInv, HandlerTypes
<1>5. a.pc \in Writes /\ Effect(a) /\ Own(a)
  BY <1>2, <1>3, Zenon DEF Effect, Writes, CallOk, Sweeping
<1>6. StoreInv' /\ Guarantees(a) /\ CallOk(a)' /\ CallerOk(a)'
  BY <1>3, <1>4, <1>5, EffectStore, EffectKeeps, Zenon DEF BulkInv
<1>7. CASE lease = a.fencing
  <2> DEFINE d == [a EXCEPT !.pc = "walk", !.batch = {}, !.size = 0]
  <2>1. /\ d \in OpenCall /\ d.pc = "walk" /\ Same(a, d) /\ d.batch = {} /\ d.left = a.left
        /\ d.skipped = a.skipped /\ d.over = a.over /\ d.counted = a.counted
    BY <1>3, ZenonT(40) DEF OpenCall, Same
  <2>2. Goto(p, d)
    BY <1>1, <1>7, Zenon DEF Batch
  <2> HIDE DEF d
  <2>3. /\ a.batch \subseteq ran'[a.fencing].named /\ record'[a.key].progress = a.counted
        /\ record'[a.key].outcome = record[a.key].outcome
    BY <1>2, <1>3, <1>4, <1>5, <1>7, BatchStore, Zenon DEF BulkInv
  <2>4. CallOk(d)'
    BY <1>2, <1>6, <2>1, ZenonT(40) DEF CallOk, Same, Sweeping, Own
  <2>5. RetryOk(d)'
    BY <2>1, Zenon DEF RetryOk
  <2>6. WalkOk(a)'
    BY <1>6, Zenon DEF CallerOk
  <2>7. Selected[a.command.selection]
            \subseteq ran'[a.fencing].named \cup a.skipped \cup a.left \cup a.batch
    BY <1>2, <2>6, Zenon DEF WalkOk
  <2>8. WalkOk(d)'
    BY <1>2, <1>3, <2>1, <2>3, <2>7, ZenonT(40) DEF WalkOk, Same
  <2>9. ~world.late => CountOk(d)'
    BY <1>2, <1>3, <1>5, <2>1, <2>3, Zenon DEF CountOk, Own, Same
  <2>10. CallerOk(d)'
    BY <1>4, <2>5, <2>8, <2>9, Zenon DEF CallerOk
  <2> QED
    BY <1>1, <1>2, <1>4, <1>6, <2>1, <2>2, <2>4, <2>10, WriteMove, Zenon
<1>8. CASE lease # a.fencing
  <2>1. UNCHANGED rvars
    BY <1>2, <1>8, Zenon DEF BatchOf, BatchScript
  <2>2. PICK d : d = OnError(a)
    OBVIOUS
  <2>3. Goto(p, d)
    BY <1>1, <1>2, <1>8, <2>2, Zenon DEF Batch, OnError
  <2>4. /\ d \in OpenCall \cup AnswerCall \cup OutcomeCall
        /\ d.pc # "answered" => CallOk(d) /\ CallerOk(d) /\ Same(a, d)
        /\ d.pc = "answered" => d.kind # "outcome"
    BY <1>3, <2>2, ErrorMoves, Zenon
  <2> QED
    BY <1>1, <1>2, <1>4, <2>1, <2>3, <2>4, QuietMove, Zenon
<1> QED
  BY <1>7, <1>8, Zenon

\* A preview mints its token.
LEMMA MintStep ==
    ASSUME BulkInv, NEW p \in Callers, Mint(p)
    PROVE  BulkInv'
<1>1. PICK a : a = call[p]
  OBVIOUS
<1>2. Open(p) /\ a.pc = "mint" /\ Quiet /\ MintOf(a) /\ To(p, "commit")
  BY <1>1, Zenon DEF Mint, At, Open
<1>3. /\ a \in OpenCall /\ CallOk(a) /\ RetryOk(a) /\ WalkOk(a) /\ (~world.late => CountOk(a))
  BY <1>1, <1>2, CallFacts, Zenon
<1>4. inflight' = inflight /\ world' = world /\ world \in WorldType
  BY <1>2, Zenon DEF Quiet, BulkInv, HandlerTypes
<1>5. a.pc \in Writes /\ Effect(a)
  BY <1>2, Zenon DEF Effect, Writes
<1>6. StoreInv' /\ Guarantees(a) /\ CallOk(a)' /\ CallerOk(a)'
  BY <1>3, <1>4, <1>5, EffectStore, EffectKeeps, Zenon DEF BulkInv
<1> DEFINE d == [a EXCEPT !.pc = "commit"]
<1>7. /\ d \in OpenCall /\ d.pc = "commit" /\ Same(a, d) /\ Rest(a, d) /\ d.counted = a.counted
  BY <1>3, Zenon DEF OpenCall, Same, Rest, Writes
<1>8. Goto(p, d)
  BY <1>1, <1>2, Zenon DEF To
<1> HIDE DEF d
<1>9. CallOk(d)'
  BY <1>2, <1>6, <1>7, ZenonT(40) DEF CallOk, Same, Sweeping, Own
<1>10. CallerOk(d)'
  BY <1>2, <1>6, <1>7, ZenonT(40) DEF CallerOk, RetryOk, WalkOk, CountOk, Own, Same, Rest
<1> QED
  BY <1>1, <1>2, <1>4, <1>6, <1>7, <1>8, <1>9, <1>10, WriteMove, Zenon

\* A failed sweep reads its progress back (recordFailure).
LEMMA ReadBackStep ==
    ASSUME BulkInv, NEW p \in Callers, ReadBack(p)
    PROVE  BulkInv'
<1>1. PICK a : a = call[p]
  OBVIOUS
<1>2. Open(p) /\ a.pc = "readback" /\ Quiet /\ UNCHANGED rvars
  BY <1>1, Zenon DEF ReadBack, At, Open
<1>3. /\ a \in OpenCall /\ CallOk(a) /\ RetryOk(a) /\ WalkOk(a) /\ (~world.late => CountOk(a))
  BY <1>1, <1>2, CallFacts, Zenon
<1>4. inflight' = inflight /\ world' = world /\ world \in WorldType
  BY <1>2, Zenon DEF Quiet, BulkInv, HandlerTypes
<1>5. Own(a)
  BY <1>2, <1>3, Zenon DEF CallOk, Sweeping
<1>6. record[a.key].progress \in Nat
  BY <1>3, <1>5, OwnAcceptance, Zenon DEF BulkInv, Record
<1>7. PICK n \in Nat : n = record[a.key].progress
  BY <1>6, Zenon
<1> DEFINE d == [a EXCEPT !.pc = "failing", !.counted = n]
<1>8. /\ d \in OpenCall /\ d.pc = "failing" /\ Same(a, d) /\ Rest(a, d) /\ d.counted = n
      /\ d.cause = a.cause
  BY <1>3, Zenon DEF OpenCall, Same, Rest, Writes
<1>9. Goto(p, d)
  BY <1>1, <1>7, Zenon DEF ReadBack
<1> HIDE DEF d
<1>10. CallOk(d)
  BY <1>2, <1>3, <1>5, <1>8, ZenonT(40) DEF CallOk, Same, Own, Sweeping
<1>11. RetryOk(d) /\ WalkOk(d)
  BY <1>2, <1>3, <1>8, ZenonT(40) DEF RetryOk, WalkOk, Rest
<1>12. ~world.late => CountOk(d)
  BY <1>2, <1>3, <1>5, <1>7, <1>8, Zenon DEF CountOk, Same, Own
<1> QED
  BY <1>1, <1>2, <1>4, <1>8, <1>9, <1>10, <1>11, <1>12, QuietMove, Zenon DEF CallerOk

\* The outcome is committed, or found committed by another.
LEMMA CommitStep ==
    ASSUME BulkInv, NEW p \in Callers, Commit(p)
    PROVE  BulkInv'
<1>1. PICK a : a = call[p]
  OBVIOUS
<1>2. Open(p) /\ a.pc \in {"commit", "failing"} /\ Quiet /\ CommitOf(a)
  BY <1>1, Zenon DEF Commit, Open
<1>3. /\ a \in OpenCall /\ CallOk(a) /\ RetryOk(a) /\ WalkOk(a) /\ (~world.late => CountOk(a))
  BY <1>1, <1>2, CallFacts, Zenon
<1>4. inflight' = inflight /\ world' = world /\ world \in WorldType
  BY <1>2, Zenon DEF Quiet, BulkInv, HandlerTypes
<1>5. a.pc \in Writes /\ Effect(a)
  BY <1>2, Zenon DEF Effect, Writes
<1>6. StoreInv' /\ Guarantees(a) /\ CallOk(a)' /\ CallerOk(a)'
  BY <1>3, <1>4, <1>5, EffectStore, EffectKeeps DEF BulkInv
<1>7. CASE lease = a.fencing /\ Goto(p, Replay(a, OutcomeOf(a)))
  <2>1. OutcomeOf(a) \in Outcome
    BY <1>3, BulkConstants DEF OutcomeOf, Outcome, OpenCall, Causes
  <2>2. PICK d : d = Replay(a, OutcomeOf(a))
    BY Zenon
  <2>3. /\ d \in OutcomeCall /\ d.pc = "answered" /\ Goto(p, d)
        /\ d.key = a.key /\ d.command = a.command /\ d.outcome = OutcomeOf(a)
    BY <1>3, <1>7, <2>1, <2>2, Replays, Zenon
  <2>4. Own(a) /\ (~world.late => a.counted = record[a.key].progress)
    BY <1>2, <1>3, Zenon DEF CallOk, Sweeping, CountOk
  <2>5. record'[a.key].terminal /\ record'[a.key].outcome = OutcomeOf(a)
    BY <1>2, <1>3, <1>4, <1>7, <2>4, CommitStore, Zenon DEF BulkInv
  <2>6. record'[a.key].found /\ record'[a.key].command = a.command
    BY <1>3, <1>6, <2>4, OwnAcceptance, SMTT(60) DEF BulkInv, Own, Guarantees, OpenCall
  <2>7. Recorded(d)'
    BY <2>3, <2>5, <2>6, Zenon DEF Recorded
  <2> QED
    BY <1>1, <1>2, <1>4, <1>6, <2>3, <2>7, WriteMove, Zenon
<1>8. CASE Goto(p, [a EXCEPT !.pc = "replay"])
  <2> DEFINE d == [a EXCEPT !.pc = "replay"]
  <2>1. /\ d \in OpenCall /\ d.pc = "replay" /\ Same(a, d) /\ Rest(a, d) /\ d.counted = a.counted
    BY <1>3, Zenon DEF OpenCall, Same, Rest, Reads
  <2>2. Goto(p, d)
    BY <1>8, Zenon
  <2> HIDE DEF d
  <2>3. CallOk(d)'
    BY <1>2, <1>6, <2>1, ZenonT(40) DEF CallOk, Same, Sweeping, Own
  <2>4. CallerOk(d)'
    BY <1>2, <1>6, <2>1, Zenon DEF CallerOk, RetryOk, WalkOk, CountOk, Own, Same, Rest
  <2> QED
    BY <1>1, <1>2, <1>4, <1>6, <2>1, <2>2, <2>3, <2>4, WriteMove, Zenon
<1> QED
  BY <1>1, <1>7, <1>8, Zenon DEF Commit

\* A call answers from the record of its key.
LEMMA ReplayFromStep ==
    ASSUME BulkInv, NEW p \in Callers, ReplayFrom(p)
    PROVE  BulkInv'
<1>1. PICK a : a = call[p]
  OBVIOUS
<1>2. Open(p) /\ a.pc = "replay" /\ Quiet /\ UNCHANGED rvars
  BY <1>1, Zenon DEF ReplayFrom, At, Open
<1>3. a \in OpenCall /\ CallOk(a)
  BY <1>1, <1>2, CallFacts, Zenon
<1>4. Own(a)
  BY <1>2, <1>3, Zenon DEF CallOk, Sweeping
<1>5. record[a.key].outcome \in Outcome
  BY <1>3, <1>4, OwnAcceptance, Zenon DEF BulkInv, Record
<1>0. Tells(Answer("unavailable"))
  BY Zenon DEF Answer, AnswerCall, Tells
<1>6. ASSUME record[a.key].terminal
      PROVE  Tells(Replay(a, record[a.key].outcome))
  <2>1. record[a.key].found /\ record[a.key].command = a.command
    BY <1>3, <1>4, OwnAcceptance, Zenon DEF Own, BulkInv
  <2>2. PICK d : d = Replay(a, record[a.key].outcome)
    BY Zenon
  <2>3. /\ d \in OutcomeCall /\ d.key = a.key /\ d.command = a.command
        /\ d.outcome = record[a.key].outcome
    BY <1>3, <1>5, <2>2, Replays, Zenon
  <2> QED
    BY <1>6, <2>1, <2>2, <2>3, Zenon DEF Tells, Recorded
<1>7. \E d : Tells(d) /\ Goto(p, d)
  BY <1>0, <1>1, <1>6, Zenon DEF ReplayFrom
<1> QED
  BY <1>2, <1>7, QuietAnswer, Zenon

\* The faults the store, the network and the process have left.
LEMMA FaultWorld ==
    ASSUME BulkInv, Fault
    PROVE  world' \in WorldType /\ world'.late = world.late
<1>1. world \in WorldType /\ world.faults \in Nat /\ world.faults > 0
  BY Zenon DEF BulkInv, HandlerTypes, WorldType, Fault
<1>2. PICK n \in Nat : n = world.faults - 1
  BY <1>1
<1>3. world' = [world EXCEPT !.faults = n]
  BY <1>2, Zenon DEF Fault
<1> QED
  BY <1>1, <1>3, Zenon DEF WorldType

\* A call to the store fails before it reaches it.
LEMMA CallFailsStep ==
    ASSUME BulkInv, NEW p \in Callers, CallFails(p)
    PROVE  BulkInv'
<1>1. PICK a : a = call[p]
  OBVIOUS
<1>2. PICK d : d = OnError(a)
  OBVIOUS
<1>3. Open(p) /\ Fault /\ Goto(p, d) /\ inflight' = inflight /\ UNCHANGED rvars
  BY <1>1, <1>2, Zenon DEF CallFails, At, Open, Writes, Reads
<1>4. a \in OpenCall /\ CallOk(a) /\ CallerOk(a)
  BY <1>1, <1>3, CallFacts, Zenon
<1>5. /\ d \in OpenCall \cup AnswerCall \cup OutcomeCall
      /\ d.pc # "answered" => CallOk(d) /\ CallerOk(d) /\ Same(a, d)
      /\ d.pc = "answered" => d.kind # "outcome"
  BY <1>2, <1>4, ErrorMoves, Zenon
<1>6. world' \in WorldType /\ world'.late = world.late
  BY <1>3, FaultWorld, Zenon
<1> QED
  BY <1>1, <1>3, <1>5, <1>6, QuietMove, Zenon

\* A call to the store runs and its reply is lost.
LEMMA ReplyLostStep ==
    ASSUME BulkInv, NEW p \in Callers, ReplyLost(p)
    PROVE  BulkInv'
<1>1. PICK a : a = call[p]
  OBVIOUS
<1>2. Open(p) /\ a.pc \in Writes /\ Fault /\ Effect(a) /\ inflight' = inflight
  BY <1>1, Zenon DEF ReplyLost, Open, Writes
<1>3. /\ a \in OpenCall /\ CallOk(a) /\ RetryOk(a) /\ WalkOk(a) /\ (~world.late => CountOk(a))
  BY <1>1, <1>2, CallFacts, Zenon
<1>4. world' \in WorldType /\ world'.late = world.late
  BY <1>2, FaultWorld, Zenon
<1>5. StoreInv' /\ Guarantees(a) /\ CallOk(a)' /\ CallerOk(a)'
  BY <1>2, <1>3, <1>4, EffectStore, EffectKeeps, Zenon DEF BulkInv
<1>6. PICK d \in {a, OnError(a)} : Goto(p, d)
  BY <1>1, Zenon DEF ReplyLost
<1>7. /\ d \in OpenCall \cup AnswerCall \cup OutcomeCall
      /\ d.pc # "answered" => CallOk(d)' /\ CallerOk(d)' /\ Same(a, d)
      /\ d.pc = "answered" => d.kind # "outcome"
  <2>1. CASE d = a
    BY <1>2, <1>3, <1>5, <2>1, Zenon DEF Same, Writes
  <2>2. CASE d = OnError(a) /\ a.pc \in {"walk", "judge", "batch", "mint"}
    BY <1>3, <1>5, <2>2, ErrorCall, Zenon
  <2>3. CASE d = OnError(a) /\ a.pc \notin {"walk", "judge", "batch", "mint"}
    BY <2>3, Zenon DEF OnError, Answer, AnswerCall
  <2> QED
    BY <2>1, <2>2, <2>3, Zenon
<1> QED
  BY <1>1, <1>2, <1>4, <1>5, <1>6, <1>7, WriteMove, ZenonT(40)

\* A caller gives up on a call that runs later.
LEMMA CallLateStep ==
    ASSUME BulkInv, NEW p \in Callers, CallLate(p)
    PROVE  BulkInv'
<1>1. PICK a : a = call[p]
  OBVIOUS
<1>2. /\ Open(p) /\ a.pc \in Writes /\ Fault /\ UNCHANGED rvars
      /\ inflight' = inflight \cup {a} /\ world.late
  BY <1>1, Zenon DEF CallLate, Open, Writes
<1>3. a \in OpenCall /\ CallOk(a) /\ CallerOk(a)
  BY <1>1, <1>2, CallFacts, ZenonT(40)
<1>4. world' \in WorldType /\ world'.late = world.late
  BY <1>2, FaultWorld, Zenon
<1>5. PICK d \in {a, OnError(a)} : Goto(p, d)
  BY <1>1, Zenon DEF CallLate
<1>6. /\ d \in OpenCall \cup AnswerCall \cup OutcomeCall
      /\ d.pc # "answered" => CallOk(d) /\ CallerOk(d) /\ Same(a, d)
      /\ d.pc = "answered" => d.kind # "outcome"
  <2>1. CASE d = a
    BY <1>2, <1>3, <2>1, Zenon DEF Same, Writes
  <2>2. CASE d = OnError(a)
    BY <1>3, <2>2, ErrorMoves, Zenon
  <2> QED
    BY <2>1, <2>2, Zenon
<1> QED
  BY <1>1, <1>2, <1>4, <1>5, <1>6, QuietMove, ZenonT(40)

\* The replica of a call crashes.
LEMMA CrashStep ==
    ASSUME BulkInv, NEW p \in Callers, Crash(p)
    PROVE  BulkInv'
<1>1. PICK a : a = call[p]
  OBVIOUS
<1>2. PICK d : d = Answer("none")
  BY Zenon
<1>3. Open(p) /\ Fault /\ Goto(p, d) /\ inflight' = inflight /\ UNCHANGED rvars
  BY <1>2, Zenon DEF Crash, Open
<1>4. d \in AnswerCall /\ d.pc = "answered" /\ d.kind = "none"
  BY <1>2, Zenon DEF Answer, AnswerCall
<1>5. world' \in WorldType /\ world'.late = world.late
  BY <1>3, FaultWorld
<1> QED
  BY <1>1, <1>3, <1>4, <1>5, QuietMove, Zenon

\* A call whose caller gave up reaches the store.
LEMMA DeliverStep ==
    ASSUME BulkInv, NEW a \in inflight, Deliver(a)
    PROVE  BulkInv'
<1>1. /\ a \in OpenCall /\ a.pc \in Writes /\ world.late /\ a \in Live
      /\ Effect(a) /\ call' = call /\ world' = world /\ inflight' \subseteq inflight
  BY Zenon DEF BulkInv, HandlerTypes, Live, Deliver
<1>2. CallOk(a) /\ \A c \in Live : SameCall(a, c)
  BY <1>1, Zenon DEF BulkInv, CallsInv
<1>3. StoreInv' /\ Guarantees(a)
  BY <1>1, <1>2, EffectStore, Zenon DEF BulkInv
<1>4. world' \in WorldType
  BY <1>1, Zenon DEF BulkInv, HandlerTypes
<1> QED
  BY <1>1, <1>2, <1>3, <1>4, CallsStay, Zenon

\* What the store does by itself: records and locks expire.
LEMMA StoreAloneStep ==
    ASSUME BulkInv, StoreAlone, UNCHANGED <<call, inflight, world>>
    PROVE  BulkInv'
<1>1. PICK a : a = [fencing |-> 0]
  BY ZenonT(40)
<1>2. a.fencing = 0 /\ \A c \in Live : SameCall(a, c)
  BY <1>1, Zenon DEF SameCall
<1>3. StoreInv' /\ Guarantees(a)
  BY ExpiryStore, Zenon DEF BulkInv, StoreAlone
<1>4. world' \in WorldType
  BY Zenon DEF BulkInv, HandlerTypes
<1> QED
  BY <1>2, <1>3, <1>4, CallsStay, Zenon

\* Nothing moves but the rule sets that are enforced.
LEMMA RetireStep ==
    ASSUME BulkInv, UNCHANGED <<call, inflight, rvars>>, world' \in WorldType,
           world'.late = world.late
    PROVE  BulkInv'
<1>1. PICK a : a = [fencing |-> 0]
  BY ZenonT(40)
<1>2. a.fencing = 0 /\ \A c \in Live : SameCall(a, c)
  BY <1>1, Zenon DEF SameCall
<1>3. StoreInv' /\ Guarantees(a)
  BY QuietStore, Zenon DEF BulkInv
<1> QED
  BY <1>2, <1>3, CallsStay, Zenon

\* The initial states.
LEMMA BulkInit ==
    ASSUME BInit
    PROVE  BulkInv
<1> USE DEF BInit, RInit
<1>1. /\ record = [k \in IdemKeys |-> NoRecord] /\ lease = 0 /\ tokens = {} /\ accepted = <<>>
      /\ ran = [f \in Fencings |-> [named |-> {}, counted |-> 0]] /\ inflight = {}
      /\ world \in Worlds /\ call = [p \in Callers |-> Answer("none")]
  BY Zenon
<1>2. \A k \in IdemKeys : record[k] = NoRecord /\ ~record[k].found
  BY Zenon DEF NoRecord
<1>3. Len(accepted) = 0
  BY <1>1, Zenon
<1>4. StoreTypes
  <2>1. \A f \in Fencings : ran[f] \in [named : SUBSET Counters, counted : Nat]
    BY <1>1, SMTT(60)
  <2> QED
    BY <1>1, <2>1, BulkConstants, SMTT(60) DEF StoreTypes
<1>5. Bindings /\ Holding /\ TokensPreviewed /\ ExecutionsAuthorized
  BY <1>1, <1>2, <1>3, SMTT(60) DEF Bindings, Holding, TokensPreviewed, ExecutionsAuthorized
<1>6. ProgressOfRuns /\ TokensDisclosed
  BY <1>1, <1>2, <1>3, SMTT(60) DEF ProgressOfRuns, TokensDisclosed
<1>7. Timely
  BY <1>1, <1>2, <1>3 DEF Timely, SingleUse
<1>8. Answer("none") \in AnswerCall /\ Answer("none").pc = "answered"
  BY Zenon DEF Answer, AnswerCall
<1>9. HandlerTypes
  BY <1>1, <1>8, BulkConstants, ZenonT(40) DEF HandlerTypes, WorldType
<1>10. \A p \in Callers : ~Open(p)
  BY <1>1, <1>8, Zenon DEF Open
<1>11. CallsInv
  <2>1. \A p \in Callers : call[p].kind = "none"
    BY <1>1, SMTT(60) DEF Answer
  <2>2. Live = {} /\ Ongoing = {} /\ Told = {}
    BY <1>1, <1>10, <2>1, Zenon DEF Live, Ongoing, Told
  <2> QED
    BY <1>10, <2>2, Zenon DEF CallsInv
<1> QED
  BY <1>4, <1>5, <1>6, <1>7, <1>9, <1>11, Zenon DEF BulkInv, StoreInv

\* The calls that come and end between two steps of the store, too.
LEMMA BulkStep ==
    ASSUME BulkInv, [BNext]_bvars
    PROVE  BulkInv'
<1>1. ASSUME NEW p \in Callers, Step(p) PROVE BulkInv'
  BY <1>1, ReadRecordStep, StandingStep, FinalizeReadsStep, FinalizeStep, FinalizeAnswersStep,
     CheckTokenStep, AcceptStep, WalkStep, JudgeStep, BatchStep, MintStep, ReadBackStep,
     CommitStep, ReplayFromStep, Zenon DEF Step
<1>2. CASE UNCHANGED bvars
  <2>1. UNCHANGED <<call, inflight, rvars>> /\ world' = world /\ world \in WorldType
    BY <1>2, Zenon DEF bvars, rvars, BulkInv, HandlerTypes
  <2> QED
    BY <2>1, RetireStep, Zenon
<1>3. ASSUME NEW version \in world.versions, Retire(version) PROVE BulkInv'
  <2>1. world' \in WorldType /\ world'.late = world.late
    BY <1>3, ZenonT(40) DEF Retire, BulkInv, HandlerTypes, WorldType
  <2> QED
    BY <1>3, <2>1, RetireStep, Zenon DEF Retire
<1> QED
  BY <1>1, <1>2, <1>3, DeadlineStep, CallFailsStep, ReplyLostStep, CallLateStep, CrashStep, BeginStep,
     DeliverStep, StoreAloneStep, Zenon DEF BNext

-----------------------------------------------------------------------------
(* The theorems.                                                           *)

\* The invariant the others rest on: the records, the lease, the tokens and
\* every call, those whose callers gave up included, agree at every step.
THEOREM BulkSafe == BSpec => []BulkInv
BY BulkInit, BulkStep, PTL DEF BSpec

\* An Idempotency-Key starts at most one sweep, whatever is lost, repeated or late
\* (acceptScript binds the key), and an execution is of the selection and under
\* the version its preview looked at; without late calls its token is spent once.
THEOREM KeysRunOnce == BSpec => []RunsOnce
<1>1. ASSUME BulkInv PROVE RunsOnce
  <2>1. BTypeOK
    <3>1. record \in [IdemKeys -> {NoRecord} \cup Record] /\ lease \in 0..MaxFencings
      BY <1>1, Zenon DEF BulkInv, StoreInv, StoreTypes
    <3>2. ASSUME NEW p \in Callers
          PROVE  /\ call[p].pc \in Writes \cup Reads \cup {"walk", "judge", "answered"}
                 /\ call[p].pc \in {"walk", "judge", "batch", "mint", "readback", "commit", "failing"}
                       => record[call[p].key].found /\ record[call[p].key].fencing = call[p].fencing
      <4>1. CASE Open(p)
        <5>1. PICK a : a = call[p]
          BY Zenon
        <5>2. a \in OpenCall /\ CallOk(a)
          BY <1>1, <4>1, <5>1, CallFacts, Zenon
        <5> QED
          BY <5>1, <5>2, Zenon DEF OpenCall, CallOk, Sweeping, Own
      <4>2. CASE ~Open(p)
        BY <4>2, Zenon DEF Open
      <4> QED
        BY <4>1, <4>2, Zenon
    <3> QED
      BY <3>1, <3>2, Zenon DEF BTypeOK
  <2>2. ~world.late => SingleUse
    BY <1>1, Zenon DEF BulkInv, StoreInv, Timely
  <2>3. Len(accepted) \in Nat
    BY <1>1, StoreFacts, Zenon DEF BulkInv, StoreInv
  <2>4. \A i \in 1..Len(accepted) : \A j \in 1..(i - 1) : accepted[j].key # accepted[i].key
    BY <1>1, <2>3, SMTT(60) DEF BulkInv, StoreInv, Bindings
  <2> QED
    BY <1>1, <2>1, <2>2, <2>4, Zenon DEF RunsOnce, BulkInv, StoreInv, ExecutionsAuthorized, Authorizes
<1> QED
  BY <1>1, BulkSafe, PTL

\* A recorded outcome, of a completed sweep, of a failure or of a finalization,
\* discloses exactly what the batches of its sweep had counted (batchScript
\* writes the progress it deletes under).
THEOREM OutcomesExact == BSpec => []ProgressExact
<1>1. ASSUME BulkInv PROVE ProgressExact
  BY <1>1, Zenon DEF BulkInv, StoreInv, Timely, ProgressOfRuns, ProgressExact
<1> QED
  BY <1>1, BulkSafe, PTL

\* A sweep that completes has dealt with its whole selection, whatever its batches
\* and their order (walk, commitBatch and the remainder of the last batch).
THEOREM SweepsComplete == BSpec => []SweepComplete
<1>1. ASSUME BulkInv PROVE SweepComplete
  <2> SUFFICES ASSUME NEW p \in Callers, At(p, "mint") \/ (At(p, "commit") /\ ~call[p].command.dry)
               PROVE  Selected[call[p].command.selection] \subseteq
                          ran[call[p].fencing].named \cup call[p].skipped
    BY Zenon DEF SweepComplete
  <2>1. PICK a : a = call[p]
    BY Zenon
  <2>2. Open(p)
    BY Zenon DEF Open, At
  <2>3. WalkOk(a)
    BY <1>1, <2>1, <2>2, CallFacts, Zenon
  <2> QED
    BY <2>1, <2>3, Zenon DEF WalkOk, At
<1> QED
  BY <1>1, BulkSafe, PTL

\* What a step does to the store: nothing, time alone, or a write of a call.
LEMMA StoreSteps ==
    ASSUME BulkInv, [BNext]_bvars
    PROVE  \/ UNCHANGED rvars
           \/ StoreAlone /\ world' = world
           \/ \E a \in OpenCall : /\ a.pc \in Writes /\ CallOk(a) /\ (~world.late => CountOk(a))
                                  /\ Effect(a) /\ world'.late = world.late
<1> DEFINE Written(a) == /\ a.pc \in Writes /\ CallOk(a) /\ (~world.late => CountOk(a))
                         /\ Effect(a) /\ world'.late = world.late
           Goal == UNCHANGED rvars \/ (StoreAlone /\ world' = world) \/ \E a \in OpenCall : Written(a)
<1>1. ASSUME NEW p \in Callers, call[p].pc \in Writes, Effect(call[p]), world'.late = world.late
      PROVE  Goal
  <2>1. PICK a : a = call[p]
    BY Zenon
  <2>2. Open(p)
    BY <1>1, Zenon DEF Open, Writes
  <2>3. a \in OpenCall /\ CallOk(a) /\ (~world.late => CountOk(a))
    BY <2>1, <2>2, CallFacts, Zenon
  <2> QED
    BY <1>1, <2>1, <2>3, Zenon
<1>2. ASSUME NEW p \in Callers, Step(p) PROVE Goal
  <2>1. CASE Finalize(p) \/ Accept(p) \/ Batch(p) \/ Mint(p) \/ Commit(p)
    <3>1. call[p].pc \in Writes /\ Effect(call[p]) /\ world' = world
      BY <2>1, Zenon DEF Finalize, Accept, Batch, Mint, Commit, At, Effect, Writes, Quiet
    <3> QED
      BY <1>1, <3>1, Zenon
  <2>2. CASE \/ ReadRecord(p) \/ Standing(p) \/ FinalizeReads(p) \/ FinalizeAnswers(p)
             \/ CheckToken(p) \/ Walk(p) \/ Judge(p) \/ ReadBack(p) \/ ReplayFrom(p)
    BY <2>2, Zenon DEF ReadRecord, Standing, FinalizeReads, FinalizeAnswers, CheckToken, Walk, Judge,
                ReadBack, ReplayFrom
  <2> QED
    BY <1>2, <2>1, <2>2, Zenon DEF Step
<1>3. ASSUME NEW p \in Callers, ReplyLost(p) PROVE Goal
  BY <1>1, <1>3, FaultWorld, Zenon DEF ReplyLost
<1>4. ASSUME NEW c \in inflight, Deliver(c) PROVE Goal
  <2>1. c \in OpenCall /\ c.pc \in Writes /\ world.late /\ c \in Live
    BY Zenon DEF BulkInv, HandlerTypes, Live
  <2>2. CallOk(c)
    BY <2>1, Zenon DEF BulkInv, CallsInv
  <2> QED
    BY <1>4, <2>1, <2>2, Zenon DEF Deliver
<1>5. CASE UNCHANGED bvars
  BY <1>5, Zenon DEF bvars, rvars
<1>6. ASSUME NEW p \in Callers,
             \/ Deadline(p) \/ CallFails(p) \/ CallLate(p) \/ Crash(p)
             \/ \E req \in world.requests, token \in KnownTokens \cup {0}, version \in world.versions :
                   Begin(p, req, token, version)
      PROVE  Goal
  BY <1>6, Zenon DEF Deadline, CallFails, CallLate, Crash, Begin
<1>7. CASE StoreAlone /\ UNCHANGED <<call, inflight, world>>
  BY <1>7, Zenon
<1>9. ASSUME NEW version \in world.versions, Retire(version) PROVE Goal
  BY <1>9, Zenon DEF Retire
<1> HIDE DEF Goal
<1>8. ASSUME BNext PROVE Goal
  <2>1. CASE StoreAlone /\ UNCHANGED <<call, inflight, world>>
    BY <1>7, <2>1, Zenon DEF Goal
  <2> QED
    BY <1>8, <1>2, <1>3, <1>4, <1>6, <1>9, <2>1, Zenon DEF BNext
<1> QED
  BY <1>5, <1>8, Zenon DEF Goal

\* A command has one outcome for everybody: no late walker, repeated call or second
\* finalization changes it, and every answer is the one recorded (commitScript,
\* finalizeScript and the replays).
THEOREM OutcomesFinal == BSpec => OneOutcome
<1>1. ASSUME BulkInv, [BNext]_bvars
      PROVE  \A k \in IdemKeys : record[k].found /\ record[k].terminal => record'[k] = record[k]
  <2>1. \E a : Guarantees(a)
    <3>1. CASE UNCHANGED rvars \/ (StoreAlone /\ world' = world)
      <4>1. StoreAlone /\ world' = world => \A a : Guarantees(a)
        BY <1>1, ExpiryStore, Zenon DEF BulkInv, StoreAlone
      <4>2. UNCHANGED rvars => \A a : Guarantees(a)
        BY <1>1, StoreFacts DEF BulkInv, StoreInv, Guarantees, rvars
      <4> QED
        BY <3>1, <4>1, <4>2, Zenon
    <3>2. ASSUME NEW a \in OpenCall, a.pc \in Writes, CallOk(a), ~world.late => CountOk(a),
                 Effect(a), world'.late = world.late
          PROVE  Guarantees(a)
      BY <1>1, <3>2, EffectStore, Zenon DEF BulkInv
    <3> QED
      BY <1>1, <3>1, <3>2, StoreSteps, Zenon
  <2> QED
    BY <2>1, Zenon DEF Guarantees
<1>2. ASSUME BulkInv' 
      PROVE  \A p \in Callers :
                LET c == call'[p]
                IN c # call[p] /\ c.pc = "answered" /\ c.kind = "outcome" =>
                     LET r == record'[c.key]
                     IN r.terminal /\ r.outcome = c.outcome /\ r.command = c.command
  <2> SUFFICES ASSUME NEW p \in Callers, call'[p].pc = "answered", call'[p].kind = "outcome"
               PROVE  LET c == call'[p] IN
                      LET r == record'[c.key]
                      IN r.terminal /\ r.outcome = c.outcome /\ r.command = c.command
    BY Zenon
  <2>1. PICK c : c = call'[p]
    BY Zenon
  <2>2. c \in Told'
    BY <2>1, Zenon DEF Told, Open
  <2>3. Recorded(c)'
    BY <1>2, <2>2, Zenon DEF BulkInv, CallsInv
  <2> QED
    BY <2>1, <2>3, Zenon DEF Recorded
<1> QED
  BY <1>1, <1>2, BulkSafe, BulkStep, PTL DEF BSpec, OneOutcome, OutcomeIsFinal, AnswersAgree

\* Two sweeps of a domain never overlap: a batch takes effect only for the last
\* command accepted, however late it arrives (batchScript proves the lease first).
THEOREM SweepsApart == BSpec => SweepsDoNotOverlap
<1>1. ASSUME BulkInv, [BNext]_bvars
      PROVE  \A f \in Fencings : ran'[f] # ran[f] => accepted[Len(accepted)].fencing = f
  <2> SUFFICES ASSUME NEW f \in Fencings, ran'[f] # ran[f]
               PROVE  accepted[Len(accepted)].fencing = f
    BY Zenon
  <2>1. f = lease
    <3>1. CASE UNCHANGED rvars
      BY <1>1, <3>1, Zenon DEF rvars
    <3>2. CASE StoreAlone
      BY <1>1, <3>2, Zenon DEF StoreAlone, LeaseExpires, TokenExpires
    <3>3. ASSUME NEW a \in OpenCall, a.pc \in Writes, CallOk(a), Effect(a), world'.late = world.late
          PROVE  f = lease
      <4>1. CASE a.pc = "batch"
        <5>1. BatchOf(a) /\ Own(a)
          BY <3>3, <4>1, Zenon DEF Effect, CallOk, Sweeping
        <5> QED
          BY <1>1, <3>3, <5>1, BatchStore, Zenon DEF BulkInv
      <4>2. CASE a.pc # "batch"
        <5>1. ran' = ran
          BY <3>3, <4>2, Zenon DEF Effect, Writes, AcceptOf, AcceptScript, MintOf, Put, CommitOf,
             CommitScript, FinalizeOf, FinalizeScript, rvars
        <5> QED
          BY <1>1, <5>1, Zenon
      <4> QED
        BY <4>1, <4>2, Zenon
    <3> QED
      BY <1>1, <3>1, <3>2, <3>3, StoreSteps, Zenon
  <2>2. f # 0
    BY BulkConstants DEF Fencings
  <2> QED
    BY <1>1, <2>1, <2>2, Zenon DEF BulkInv, StoreInv, Holding
<1> QED
  BY <1>1, BulkSafe, PTL DEF BSpec, SweepsDoNotOverlap

=============================================================================

--------------------------- MODULE AddressedProofs --------------------------
(***************************************************************************)
(* Proofs about the addressed reset: what a key's one run acted on, that   *)
(* it runs once and every success reports it, and that a completed command *)
(* goes on being replayed, for every set of callers, keys, commands and    *)
(* rule sets and any number of faults.                                     *)
(***************************************************************************)
EXTENDS AddressedReset, FiniteSetTheorems, TLAPS

-----------------------------------------------------------------------------
(* The inductive invariant.                                                *)

AnswerType == [version : Versions, keys : SUBSET Windows]

BoundRecord ==
    [found : {TRUE}, command : Commands, count : 0..Cardinality(Windows), answer : AnswerType]

\* A call between its arrival and its answer.
OpenCall ==
    [pc : {"lookup", "peek", "run"}, key : IdemKeys, command : Commands, version : Versions,
     drop : SUBSET Windows, known : BOOLEAN]

ReplyCall == [pc : {"answered"}, kind : {"none", "not_found", "invalid", "stale_rule_set",
                                         "command_mismatch", "unavailable"}]

DoneCall ==
    [pc : {"answered"}, kind : {"done"}, key : IdemKeys, command : Commands,
     count : 0..Cardinality(Windows), answer : AnswerType]

\* What was judged stays judged: the call has something to drop, of the windows
\* its replica's rule set has and its command names, under the version it pins.
JudgedCall(c) ==
    /\ c.command.expected \in {0, c.version}
    /\ Computed(c) # {}
    /\ c.drop \subseteq Computed(c)

AddressedTypes ==
    /\ binding \in [IdemKeys -> {Unbound} \cup BoundRecord]
    /\ call \in [Callers -> OpenCall \cup ReplyCall \cup DoneCall]
    /\ late \subseteq {c \in OpenCall : c.pc = "run"}
    /\ faults \in 0..MaxFaults

\* A call that goes past the lookup had found its key unbound on arrival too.
CallsJudged ==
    /\ \A p \in Callers :
          /\ call[p].pc \in {"peek", "run"} => JudgedCall(call[p]) /\ ~call[p].known
          /\ call[p].pc = "lookup" /\ call[p].known => binding[call[p].key].found
    /\ \A c \in late : JudgedCall(c)

\* What the store recorded is what a judged call computed.
RecordsJudged ==
    \A k \in IdemKeys :
        binding[k].found =>
            LET b == binding[k]
            IN /\ b.command.expected \in {0, b.answer.version}
               /\ b.answer.keys # {}
               /\ b.answer.keys = Enforced[b.answer.version] \cap b.command.windows
               /\ b.count <= Cardinality(b.answer.keys)

AddressedInv == AddressedTypes /\ CallsJudged /\ RecordsJudged

-----------------------------------------------------------------------------
(* Lemmas.                                                                 *)

\* The number of keys a call drops is at most what it computed, and at most the
\* windows there are.
LEMMA DropCounts ==
    ASSUME NEW c \in OpenCall, c.drop \subseteq Computed(c)
    PROVE  /\ Computed(c) \subseteq Windows
           /\ Cardinality(c.drop) \in Nat
           /\ Cardinality(Computed(c)) \in Nat
           /\ Cardinality(Windows) \in Nat
           /\ Cardinality(c.drop) <= Cardinality(Computed(c))
           /\ Cardinality(Computed(c)) <= Cardinality(Windows)
<1>1. Computed(c) \subseteq Windows
  BY Zenon DEF OpenCall, Computed, Windows, Versions
<1>2. IsFiniteSet(Computed(c)) /\ IsFiniteSet(c.drop) /\ IsFiniteSet(Windows)
  BY <1>1, AddressedConstants, FS_Subset, Zenon
<1>3. /\ Cardinality(c.drop) \in Nat
      /\ Cardinality(Computed(c)) \in Nat
      /\ Cardinality(Windows) \in Nat
  BY <1>2, FS_CardinalityType, Zenon
<1>4. Cardinality(c.drop) <= Cardinality(Computed(c))
  BY <1>2, FS_Subset, Zenon
<1>5. Cardinality(Computed(c)) <= Cardinality(Windows)
  BY <1>1, <1>2, FS_Subset, Zenon
<1> QED
  BY <1>1, <1>3, <1>4, <1>5, Zenon

\* resetScript, of a judged call: a bound key keeps its record, the call's key is
\* bound after it, and what is recorded is what the call computed.
LEMMA ScriptRecords ==
    ASSUME AddressedInv, NEW c \in OpenCall, JudgedCall(c),
           NEW count \in 0..Cardinality(c.drop), ResetScript(c, count)
    PROVE  /\ binding' \in [IdemKeys -> {Unbound} \cup BoundRecord]
           /\ RecordsJudged'
           /\ binding'[c.key] \in BoundRecord
           /\ \A k \in IdemKeys : binding[k].found => binding'[k] = binding[k]
<1> DEFINE new == [found |-> TRUE, command |-> c.command, count |-> count, answer |-> AnswerOf(c)]
<1>1. /\ binding \in [IdemKeys -> {Unbound} \cup BoundRecord]
      /\ RecordsJudged
      /\ c.key \in IdemKeys
  BY Zenon DEF AddressedInv, AddressedTypes, OpenCall
<1>2. CASE binding[c.key].found
  <2>1. binding' = binding
    BY <1>2, Zenon DEF ResetScript
  <2>2. binding[c.key] \in BoundRecord
    BY <1>1, <1>2 DEF Unbound
  <2> QED
    BY <1>1, <2>1, <2>2, Zenon DEF RecordsJudged
<1>3. CASE ~binding[c.key].found
  <2>1. binding' = [binding EXCEPT ![c.key] = new]
    BY <1>3, Zenon DEF ResetScript
  <2>2. /\ Cardinality(c.drop) \in Nat /\ Cardinality(Computed(c)) \in Nat
        /\ Cardinality(Windows) \in Nat
        /\ count <= Cardinality(Computed(c)) /\ count <= Cardinality(Windows)
        /\ Computed(c) \subseteq Windows
    BY DropCounts DEF JudgedCall
  <2>3. AnswerOf(c) \in AnswerType /\ AnswerOf(c).version = c.version
        /\ AnswerOf(c).keys = Computed(c)
    BY <2>2, Zenon DEF AnswerOf, AnswerType, OpenCall
  <2>4. new \in BoundRecord
    BY <2>2, <2>3 DEF BoundRecord, OpenCall
  <2>5. binding' \in [IdemKeys -> {Unbound} \cup BoundRecord]
    BY <1>1, <2>1, <2>4, Zenon
  <2>6. \A k \in IdemKeys : binding[k].found => binding'[k] = binding[k]
    BY <1>1, <1>3, <2>1, Zenon
  <2>7. RecordsJudged'
    <3> SUFFICES ASSUME NEW k \in IdemKeys, binding'[k].found
                 PROVE  LET b == binding'[k]
                        IN /\ b.command.expected \in {0, b.answer.version}
                           /\ b.answer.keys # {}
                           /\ b.answer.keys = Enforced[b.answer.version] \cap b.command.windows
                           /\ b.count <= Cardinality(b.answer.keys)
      BY Zenon DEF RecordsJudged
    <3>1. CASE k = c.key
      <4>1. binding'[k] = new
        BY <1>1, <2>1, <3>1, Zenon
      <4> QED
        BY <4>1, <2>2, <2>3, SMTT(60) DEF JudgedCall, Computed
    <3>2. CASE k # c.key
      <4>1. binding'[k] = binding[k]
        BY <1>1, <2>1, <3>2, Zenon
      <4> QED
        BY <1>1, <4>1, Zenon DEF RecordsJudged
    <3> QED
      BY <3>1, <3>2, Zenon
  <2>8. binding'[c.key] = new
    BY <1>1, <2>1, Zenon
  <2> QED
    BY <2>4, <2>5, <2>6, <2>7, <2>8, Zenon
<1> QED
  BY <1>2, <1>3, Zenon

\* parseReset and the pinned version: a new command is refused, or goes on with
\* the windows it names.
LEMMA JudgeJudges ==
    ASSUME NEW c \in OpenCall
    PROVE  \/ JudgeNew(c) \in ReplyCall /\ JudgeNew(c).kind \in {"not_found", "invalid", "stale_rule_set"}
           \/ /\ JudgeNew(c) \in OpenCall
              /\ JudgeNew(c).pc \in {"peek", "run"}
              /\ JudgedCall(JudgeNew(c))
              /\ JudgeNew(c).known = c.known
<1> DEFINE on == [c EXCEPT !.pc = IF c.command.limited THEN "peek" ELSE "run", !.drop = Computed(c)]
<1>1. \A kind \in {"not_found", "invalid", "stale_rule_set"} :
         Reply(kind) \in ReplyCall /\ Reply(kind).kind = kind
  BY Zenon DEF Reply, ReplyCall
<1>2. Computed(c) \subseteq Windows
  BY Zenon DEF OpenCall, Computed, Windows, Versions
<1>3. /\ on \in OpenCall /\ on.pc \in {"peek", "run"} /\ on.drop = Computed(c)
      /\ on.known = c.known /\ on.version = c.version /\ on.command = c.command
  BY <1>2, Zenon DEF OpenCall
<1>4. Computed(on) = Computed(c)
  BY <1>3, Zenon DEF Computed
<1>5. CASE JudgeNew(c) = on /\ c.command.expected \in {0, c.version} /\ Computed(c) # {}
  BY <1>3, <1>4, <1>5, Zenon DEF JudgedCall
<1> QED
  BY <1>1, <1>5, Zenon DEF JudgeNew

\* A step that moves one call and forgets no record keeps the calls judged.
LEMMA GoKeeps ==
    ASSUME AddressedInv, NEW p \in Callers, NEW d \in OpenCall \cup ReplyCall \cup DoneCall,
           Go(p, d),
           \A k \in IdemKeys : binding[k].found => binding'[k] = binding[k],
           d.pc \in {"peek", "run"} => JudgedCall(d) /\ ~d.known,
           d.pc = "lookup" /\ d.known => binding'[d.key].found
    PROVE  /\ call' \in [Callers -> OpenCall \cup ReplyCall \cup DoneCall]
           /\ \A q \in Callers :
                 /\ call'[q].pc \in {"peek", "run"} => JudgedCall(call'[q]) /\ ~call'[q].known
                 /\ call'[q].pc = "lookup" /\ call'[q].known => binding'[call'[q].key].found
<1>1. /\ call \in [Callers -> OpenCall \cup ReplyCall \cup DoneCall]
      /\ call' = [call EXCEPT ![p] = d]
  BY Zenon DEF AddressedInv, AddressedTypes, Go
<1>2. call'[p] = d /\ \A q \in Callers : q # p => call'[q] = call[q]
  BY <1>1, Zenon
<1>3. \A q \in Callers :
          /\ call[q].pc \in {"peek", "run"} => JudgedCall(call[q]) /\ ~call[q].known
          /\ call[q].pc = "lookup" /\ call[q].known => binding[call[q].key].found
  BY Zenon DEF AddressedInv, CallsJudged
<1>4. \A q \in Callers : call[q].pc = "lookup" => call[q].key \in IdemKeys
  BY <1>1, Zenon DEF OpenCall, ReplyCall, DoneCall
<1>5. call' \in [Callers -> OpenCall \cup ReplyCall \cup DoneCall]
  BY <1>1, Zenon
<1>6. ASSUME NEW q \in Callers
      PROVE  /\ call'[q].pc \in {"peek", "run"} => JudgedCall(call'[q]) /\ ~call'[q].known
             /\ call'[q].pc = "lookup" /\ call'[q].known => binding'[call'[q].key].found
  <2>1. CASE q = p
    BY <1>2, <2>1, Zenon
  <2>2. CASE q # p
    BY <1>2, <1>3, <1>4, <2>2, Zenon
  <2> QED
    BY <2>1, <2>2, Zenon
<1> QED
  BY <1>5, <1>6, Zenon

\* The calls a step meets: an open call is typed, and a call that runs is judged.
LEMMA OpenCalls ==
    ASSUME AddressedInv
    PROVE  /\ \A p \in Callers : call[p].pc \in {"lookup", "peek", "run"} => call[p] \in OpenCall
           /\ \A p \in Callers : call[p].pc # "answered" => call[p] \in OpenCall
           /\ \A p \in Callers :
                 call[p].pc \in {"peek", "run"} => JudgedCall(call[p]) /\ ~call[p].known
           /\ \A c \in late : c \in OpenCall /\ JudgedCall(c) /\ c.pc = "run"
           /\ \A k \in IdemKeys : binding[k].found => binding[k] \in BoundRecord
  BY DEF AddressedInv, AddressedTypes, CallsJudged, OpenCall, ReplyCall, DoneCall, Unbound

\* The answers without a body, and what a call that succeeds answers.
LEMMA Answers ==
    /\ \A kind \in {"none", "not_found", "invalid", "stale_rule_set", "command_mismatch",
                  "unavailable"} :
          Reply(kind) \in ReplyCall /\ Reply(kind).pc = "answered" /\ Reply(kind).kind = kind
    /\ \A c \in OpenCall, count \in 0..Cardinality(Windows), answer \in AnswerType :
          /\ Success(c, count, answer) \in DoneCall
          /\ Success(c, count, answer).pc = "answered"
          /\ Success(c, count, answer).kind = "done"
          /\ Success(c, count, answer).key = c.key
          /\ Success(c, count, answer).command = c.command
          /\ Success(c, count, answer).count = count
  BY DEF Reply, ReplyCall, Success, DoneCall, OpenCall

-----------------------------------------------------------------------------
(* The invariant holds initially and every action keeps it.                *)

\* Nothing has run at the start.
LEMMA AddressedInit == AInit => AddressedInv
<1> SUFFICES ASSUME AInit PROVE AddressedInv
  BY Zenon
<1>1. AddressedTypes
  BY Answers, AddressedConstants DEF AInit, AddressedTypes, Unbound
<1>2. CallsJudged
  BY Answers, Zenon DEF AInit, CallsJudged
<1>3. RecordsJudged
  BY Zenon DEF AInit, RecordsJudged, Unbound
<1> QED
  BY <1>1, <1>2, <1>3, Zenon DEF AddressedInv

\* A step that leaves the records and the late calls alone and moves one call.
LEMMA MoveKeeps ==
    ASSUME AddressedInv, NEW p \in Callers, NEW d \in OpenCall \cup ReplyCall \cup DoneCall,
           Go(p, d), UNCHANGED <<binding, late>>, faults' \in 0..MaxFaults,
           d.pc \in {"peek", "run"} => JudgedCall(d) /\ ~d.known,
           d.pc = "lookup" /\ d.known => binding[d.key].found
    PROVE  AddressedInv'
<1>1. /\ call' \in [Callers -> OpenCall \cup ReplyCall \cup DoneCall]
      /\ \A q \in Callers :
            /\ call'[q].pc \in {"peek", "run"} => JudgedCall(call'[q]) /\ ~call'[q].known
            /\ call'[q].pc = "lookup" /\ call'[q].known => binding'[call'[q].key].found
  BY GoKeeps, Zenon
<1>2. AddressedTypes'
  BY <1>1, Zenon DEF AddressedInv, AddressedTypes
<1>3. CallsJudged'
  BY <1>1, Zenon DEF AddressedInv, CallsJudged
<1>4. RecordsJudged'
  BY Zenon DEF AddressedInv, RecordsJudged
<1> QED
  BY <1>2, <1>3, <1>4, Zenon DEF AddressedInv

\* A step that runs the script of a judged call and moves one call or none.
LEMMA ScriptKeeps ==
    ASSUME AddressedInv, NEW c \in OpenCall, JudgedCall(c),
           NEW count \in 0..Cardinality(c.drop), ResetScript(c, count),
           call' \in [Callers -> OpenCall \cup ReplyCall \cup DoneCall],
           \A q \in Callers :
              /\ call'[q].pc \in {"peek", "run"} => JudgedCall(call'[q]) /\ ~call'[q].known
              /\ call'[q].pc = "lookup" /\ call'[q].known => binding'[call'[q].key].found,
           late' \subseteq late, faults' \in 0..MaxFaults
    PROVE  AddressedInv'
<1>1. binding' \in [IdemKeys -> {Unbound} \cup BoundRecord] /\ RecordsJudged'
  BY ScriptRecords, Zenon
<1>2. AddressedTypes'
  BY <1>1, Zenon DEF AddressedInv, AddressedTypes
<1>3. CallsJudged'
  BY Zenon DEF AddressedInv, CallsJudged
<1> QED
  BY <1>1, <1>2, <1>3, Zenon DEF AddressedInv

\* The faults stay within their bound.
LEMMA FaultsBounded ==
    ASSUME AddressedInv
    PROVE  /\ faults \in 0..MaxFaults
           /\ AFault => faults' \in 0..MaxFaults
           /\ Calm => faults' \in 0..MaxFaults /\ late' = late
  BY AddressedConstants DEF AddressedInv, AddressedTypes, AFault, Calm

\* Every step of the addressed reset keeps the invariant.
LEMMA AddressedStep == AddressedInv /\ [ANext]_avars => AddressedInv'
<1> SUFFICES ASSUME AddressedInv, [ANext]_avars PROVE AddressedInv'
  BY Zenon
<1>1. ASSUME NEW p \in Callers, NEW k \in IdemKeys, NEW command \in Commands,
             NEW v \in Versions \cup {0}, Arrive(p, k, command, v)
      PROVE  AddressedInv'
  <2> DEFINE d == [pc |-> "lookup", key |-> k, command |-> command, version |-> v, drop |-> {},
                   known |-> binding[k].found]
  <2>1. binding[k].found \in BOOLEAN
    <3>1. binding[k] = Unbound \/ binding[k] \in BoundRecord
      BY Zenon DEF AddressedInv, AddressedTypes
    <3>2. binding[k] = Unbound => binding[k].found = FALSE
      BY DEF Unbound
    <3>3. binding[k] \in BoundRecord => binding[k].found = TRUE
      BY Zenon DEF BoundRecord
    <3> QED
      BY <3>1, <3>2, <3>3, Zenon
  <2>2. v # 0 => d \in OpenCall
    BY <2>1, Zenon DEF OpenCall
  <2>3. Go(p, IF v = 0 THEN Reply("not_found") ELSE d) /\ UNCHANGED <<binding, late>>
    BY <1>1, Zenon DEF Arrive, Calm
  <2>4. faults' \in 0..MaxFaults
    BY <1>1, FaultsBounded, Zenon DEF Arrive
  <2>5. d.pc = "lookup" /\ d.key = k /\ d.known = binding[k].found
    BY Zenon
  <2> HIDE DEF d
  <2>6. CASE v = 0
    BY <2>3, <2>4, <2>6, Answers, MoveKeeps, Zenon
  <2>7. CASE v # 0
    BY <2>2, <2>3, <2>4, <2>5, <2>7, MoveKeeps, Zenon
  <2> QED
    BY <2>6, <2>7, Zenon
<1>2. ASSUME NEW p \in Callers, Lookup(p)
      PROVE  AddressedInv'
  <2> DEFINE c == call[p]
             b == binding[c.key]
  <2>1. c \in OpenCall /\ c.pc = "lookup" /\ UNCHANGED <<binding, late>> /\ faults' \in 0..MaxFaults
    BY <1>2, OpenCalls, FaultsBounded, Zenon DEF Lookup, Calm
  <2>2. c.key \in IdemKeys /\ (c.known => b.found)
    BY <2>1, Zenon DEF AddressedInv, CallsJudged, OpenCall
  <2>3. CASE ~b.found
    <3>1. Go(p, JudgeNew(c))
      BY <1>2, <2>3, Zenon DEF Lookup
    <3>2. /\ JudgeNew(c) \in OpenCall \cup ReplyCall \cup DoneCall
          /\ JudgeNew(c).pc \in {"peek", "run"} => JudgedCall(JudgeNew(c)) /\ ~JudgeNew(c).known
          /\ JudgeNew(c).pc # "lookup"
      BY <2>1, <2>2, <2>3, JudgeJudges, Zenon DEF ReplyCall
    <3> QED
      BY <3>1, <3>2, <2>1, MoveKeeps, Zenon
  <2>4. CASE b.found /\ b.command # c.command
    <3>1. Go(p, Reply("command_mismatch"))
      BY <1>2, <2>4, Zenon DEF Lookup
    <3> QED
      BY <3>1, <2>1, Answers, MoveKeeps, Zenon
  <2>5. CASE b.found /\ b.command = c.command
    <3>1. Go(p, Success(c, b.count, b.answer))
      BY <1>2, <2>5, Zenon DEF Lookup
    <3>2. b.count \in 0..Cardinality(Windows) /\ b.answer \in AnswerType
      BY <2>2, <2>5, OpenCalls, Zenon DEF BoundRecord
    <3>3. Success(c, b.count, b.answer) \in DoneCall
          /\ Success(c, b.count, b.answer).pc = "answered"
      BY <2>1, <3>2, Answers, Zenon
    <3> QED
      BY <3>1, <3>3, <2>1, MoveKeeps, Zenon
  <2> QED
    BY <2>3, <2>4, <2>5, Zenon
<1>3. ASSUME NEW p \in Callers, Peek(p)
      PROVE  AddressedInv'
  <2>1. PICK kept \in SUBSET call[p].drop : Go(p, [call[p] EXCEPT !.pc = "run", !.drop = kept])
    BY <1>3, Zenon DEF Peek
  <2> DEFINE c == call[p]
             d == [c EXCEPT !.pc = "run", !.drop = kept]
  <2>2. c \in OpenCall /\ JudgedCall(c) /\ ~c.known /\ UNCHANGED <<binding, late>>
        /\ faults' \in 0..MaxFaults
    BY <1>3, OpenCalls, FaultsBounded, Zenon DEF Peek, Calm
  <2>3. d \in OpenCall /\ d.pc = "run" /\ d.drop = kept /\ d.command = c.command
        /\ d.version = c.version /\ d.known = c.known
    BY <2>2, Zenon DEF OpenCall
  <2>4. JudgedCall(d)
    BY <2>2, <2>3, Zenon DEF JudgedCall, Computed
  <2> QED
    BY <2>1, <2>2, <2>3, <2>4, MoveKeeps, Zenon
<1>4. ASSUME NEW p \in Callers, RunReset(p)
      PROVE  AddressedInv'
  <2> DEFINE c == call[p]
  <2>1. PICK count \in 0..Cardinality(c.drop) :
           /\ ResetScript(c, count)
           /\ LET b == binding'[c.key]
              IN Go(p, IF b.command # c.command THEN Reply("command_mismatch")
                       ELSE Success(c, b.count, AnswerOf(c)))
    BY <1>4, Zenon DEF RunReset
  <2>2. c \in OpenCall /\ JudgedCall(c) /\ ~c.known /\ late' = late /\ faults' \in 0..MaxFaults
    BY <1>4, OpenCalls, FaultsBounded, Zenon DEF RunReset
  <2>3. /\ binding'[c.key] \in BoundRecord
        /\ \A k \in IdemKeys : binding[k].found => binding'[k] = binding[k]
    BY <2>1, <2>2, ScriptRecords, Zenon
  <2>4. AnswerOf(c) \in AnswerType
    BY <2>2, DropCounts, Zenon DEF AnswerOf, AnswerType, OpenCall, JudgedCall
  <2>5. PICK d \in ReplyCall \cup DoneCall : Go(p, d) /\ d.pc = "answered"
    <3>1. binding'[c.key].count \in 0..Cardinality(Windows)
      BY <2>3, Zenon DEF BoundRecord
    <3>2. Success(c, binding'[c.key].count, AnswerOf(c)) \in DoneCall
          /\ Success(c, binding'[c.key].count, AnswerOf(c)).pc = "answered"
      BY <2>2, <2>4, <3>1, Answers, Zenon
    <3> QED
      BY <2>1, <3>2, Answers, Zenon
  <2>6. /\ call' \in [Callers -> OpenCall \cup ReplyCall \cup DoneCall]
        /\ \A q \in Callers :
              /\ call'[q].pc \in {"peek", "run"} => JudgedCall(call'[q]) /\ ~call'[q].known
              /\ call'[q].pc = "lookup" /\ call'[q].known => binding'[call'[q].key].found
    BY <2>3, <2>5, GoKeeps, Zenon
  <2> QED
    BY <2>1, <2>2, <2>6, ScriptKeeps, Zenon
<1>5. ASSUME NEW p \in Callers, Unreached(p)
      PROVE  AddressedInv'
  BY <1>5, Answers, FaultsBounded, MoveKeeps, Zenon DEF Unreached
<1>6. ASSUME NEW p \in Callers, Unheard(p)
      PROVE  AddressedInv'
  <2>1. PICK count \in 0..Cardinality(call[p].drop) : ResetScript(call[p], count)
    BY <1>6, Zenon DEF Unheard
  <2>2. PICK d \in {call[p], Reply("unavailable")} : Go(p, d)
    BY <1>6, Zenon DEF Unheard
  <2>3. call[p] \in OpenCall /\ JudgedCall(call[p]) /\ ~call[p].known /\ call[p].pc = "run"
        /\ late' = late /\ faults' \in 0..MaxFaults
    BY <1>6, OpenCalls, FaultsBounded, Zenon DEF Unheard
  <2>4. \A k \in IdemKeys : binding[k].found => binding'[k] = binding[k]
    BY <2>1, <2>3, ScriptRecords, Zenon
  <2>5. /\ d \in OpenCall \cup ReplyCall \cup DoneCall
        /\ d.pc \in {"peek", "run"} => JudgedCall(d) /\ ~d.known
        /\ d.pc # "lookup"
    BY <2>3, Answers, Zenon
  <2>6. /\ call' \in [Callers -> OpenCall \cup ReplyCall \cup DoneCall]
        /\ \A q \in Callers :
              /\ call'[q].pc \in {"peek", "run"} => JudgedCall(call'[q]) /\ ~call'[q].known
              /\ call'[q].pc = "lookup" /\ call'[q].known => binding'[call'[q].key].found
    BY <2>2, <2>4, <2>5, GoKeeps, Zenon
  <2> QED
    BY <2>1, <2>3, <2>6, ScriptKeeps, Zenon
<1>7. ASSUME NEW p \in Callers, Delayed(p)
      PROVE  AddressedInv'
  <2>1. PICK d \in {call[p], Reply("unavailable")} : Go(p, d)
    BY <1>7, Zenon DEF Delayed
  <2>2. call[p] \in OpenCall /\ JudgedCall(call[p]) /\ ~call[p].known /\ call[p].pc = "run"
        /\ late' = late \cup {call[p]} /\ binding' = binding /\ faults' \in 0..MaxFaults
    BY <1>7, OpenCalls, FaultsBounded, Zenon DEF Delayed
  <2>3. /\ d \in OpenCall \cup ReplyCall \cup DoneCall
        /\ d.pc \in {"peek", "run"} => JudgedCall(d) /\ ~d.known
        /\ d.pc # "lookup"
    BY <2>2, Answers, Zenon
  <2>4. /\ call' \in [Callers -> OpenCall \cup ReplyCall \cup DoneCall]
        /\ \A q \in Callers :
              /\ call'[q].pc \in {"peek", "run"} => JudgedCall(call'[q]) /\ ~call'[q].known
              /\ call'[q].pc = "lookup" /\ call'[q].known => binding'[call'[q].key].found
    BY <2>1, <2>2, <2>3, GoKeeps, Zenon
  <2>5. AddressedTypes'
    BY <2>2, <2>4, Zenon DEF AddressedInv, AddressedTypes
  <2>6. CallsJudged'
    BY <2>2, <2>4, Zenon DEF AddressedInv, CallsJudged
  <2>7. RecordsJudged'
    BY <2>2, Zenon DEF AddressedInv, RecordsJudged
  <2> QED
    BY <2>5, <2>6, <2>7, Zenon DEF AddressedInv
<1>8. ASSUME NEW p \in Callers, Dies(p)
      PROVE  AddressedInv'
  BY <1>8, Answers, FaultsBounded, MoveKeeps, Zenon DEF Dies
<1>9. ASSUME NEW c \in late, Arrives(c)
      PROVE  AddressedInv'
  <2>1. PICK count \in 0..Cardinality(c.drop) : ResetScript(c, count)
    BY <1>9, Zenon DEF Arrives
  <2>2. c \in OpenCall /\ JudgedCall(c) /\ late' \subseteq late /\ call' = call
        /\ faults' \in 0..MaxFaults
    BY <1>9, OpenCalls, FaultsBounded, Zenon DEF Arrives
  <2>3. \A k \in IdemKeys : binding[k].found => binding'[k] = binding[k]
    BY <2>1, <2>2, ScriptRecords, Zenon
  <2>4. call \in [Callers -> OpenCall \cup ReplyCall \cup DoneCall]
    BY Zenon DEF AddressedInv, AddressedTypes
  <2>5. \A q \in Callers :
           /\ call'[q].pc \in {"peek", "run"} => JudgedCall(call'[q]) /\ ~call'[q].known
           /\ call'[q].pc = "lookup" /\ call'[q].known => binding'[call'[q].key].found
    BY <2>2, <2>3, OpenCalls, Zenon DEF AddressedInv, CallsJudged, OpenCall
  <2> QED
    BY <2>1, <2>2, <2>4, <2>5, ScriptKeeps, Zenon
<1>10. CASE UNCHANGED avars
  BY <1>10, Zenon DEF avars, AddressedInv, AddressedTypes, CallsJudged, RecordsJudged
<1> QED
  BY <1>1, <1>2, <1>3, <1>4, <1>5, <1>6, <1>7, <1>8, <1>9, <1>10, Zenon DEF ANext

-----------------------------------------------------------------------------
(* What the runs check, for every value of the constants.                  *)

\* The invariant of the proofs holds in every state of the addressed reset.
THEOREM AddressedJudged == ASpec => []AddressedInv
  BY AddressedInit, AddressedStep, PTL DEF ASpec

\* What a reset dropped is what its command named, under the version it pins
\* and of that rule set's windows only (parseReset, runReset, resetScript).
THEOREM PinnedReset == ASpec => []ActsOnPinned
<1>1. AddressedInv => ActsOnPinned
  <2> SUFFICES ASSUME AddressedInv PROVE ActsOnPinned
    BY Zenon
  <2>1. \A k \in IdemKeys :
           binding[k] = Unbound
           \/ binding[k] \in [found : {TRUE}, command : Commands, count : 0..Cardinality(Windows),
                              answer : [version : Versions, keys : SUBSET Windows]]
    BY Zenon DEF AddressedInv, AddressedTypes, BoundRecord, AnswerType
  <2>2. \A p \in Callers :
           /\ call[p].pc \in {"answered", "lookup", "peek", "run"}
           /\ call[p].pc \in {"peek", "run"} => call[p].drop \subseteq Computed(call[p])
    BY OpenCalls, Zenon DEF AddressedInv, AddressedTypes, OpenCall, ReplyCall, DoneCall, JudgedCall
  <2>3. ATypeOK
    BY <2>1, <2>2, Zenon DEF ATypeOK, AddressedInv, AddressedTypes
  <2> QED
    BY <2>3, Zenon DEF ActsOnPinned, AddressedInv, RecordsJudged
<1> QED
  BY <1>1, AddressedJudged, PTL

\* No step changes the record of a bound key (resetScript's early return).
LEMMA BindsOnceStep ==
    ASSUME AddressedInv, [ANext]_avars
    PROVE  \A k \in IdemKeys : binding[k].found => binding'[k] = binding[k]
<1>1. ASSUME NEW p \in Callers, RunReset(p) \/ Unheard(p)
      PROVE  \A k \in IdemKeys : binding[k].found => binding'[k] = binding[k]
  <2>1. PICK count \in 0..Cardinality(call[p].drop) : ResetScript(call[p], count)
    BY <1>1, Zenon DEF RunReset, Unheard
  <2>2. call[p] \in OpenCall /\ JudgedCall(call[p])
    BY <1>1, OpenCalls, Zenon DEF RunReset, Unheard
  <2> QED
    BY <2>1, <2>2, ScriptRecords, Zenon
<1>2. ASSUME NEW c \in late, Arrives(c)
      PROVE  \A k \in IdemKeys : binding[k].found => binding'[k] = binding[k]
  <2>1. PICK count \in 0..Cardinality(c.drop) : ResetScript(c, count)
    BY <1>2 DEF Arrives
  <2> QED
    BY <2>1, OpenCalls, ScriptRecords, Zenon
<1>3. ASSUME NEW p \in Callers,
             \/ \E k \in IdemKeys, command \in Commands, v \in Versions \cup {0} :
                   Arrive(p, k, command, v)
             \/ Lookup(p) \/ Peek(p) \/ Unreached(p) \/ Delayed(p) \/ Dies(p)
      PROVE  binding' = binding
  BY <1>3, Zenon DEF Arrive, Lookup, Peek, Unreached, Delayed, Dies
<1>4. CASE UNCHANGED avars
  BY <1>4, Zenon DEF avars
<1> QED
  BY <1>1, <1>2, <1>3, <1>4, Zenon DEF ANext

\* A call that has just succeeded reports the record of its key.
LEMMA CountsAgreeStep ==
    ASSUME AddressedInv, [ANext]_avars, NEW q \in Callers,
           call'[q] # call[q], call'[q].pc = "answered", call'[q].kind = "done"
    PROVE  /\ binding'[call'[q].key].found
           /\ binding'[call'[q].key].command = call'[q].command
           /\ binding'[call'[q].key].count = call'[q].count
<1> DEFINE Reports == /\ binding'[call'[q].key].found
                      /\ binding'[call'[q].key].command = call'[q].command
                      /\ binding'[call'[q].key].count = call'[q].count
<1>0. call \in [Callers -> OpenCall \cup ReplyCall \cup DoneCall]
  BY Zenon DEF AddressedInv, AddressedTypes
<1>1. ASSUME NEW p \in Callers, Lookup(p)
      PROVE  Reports
  <2> DEFINE c == call[p]
             b == binding[c.key]
  <2>1. c \in OpenCall /\ binding' = binding
    BY <1>1, OpenCalls, Zenon DEF Lookup
  <2>2. q = p
    BY <1>0, <1>1, Zenon DEF Lookup, Go
  <2>3. call'[q] = IF ~b.found THEN JudgeNew(c)
                   ELSE IF b.command # c.command THEN Reply("command_mismatch")
                   ELSE Success(c, b.count, b.answer)
    BY <1>0, <1>1, <2>2, Zenon DEF Lookup, Go
  <2>4. JudgeNew(c).pc = "answered" => JudgeNew(c).kind # "done"
    BY <2>1, JudgeJudges, Zenon
  <2>5. b.found /\ b.command = c.command /\ call'[q] = Success(c, b.count, b.answer)
    BY <2>3, <2>4, Answers, Zenon
  <2>6. b.count \in 0..Cardinality(Windows) /\ b.answer \in AnswerType
    BY <2>1, <2>5, OpenCalls, Zenon DEF BoundRecord, OpenCall
  <2>7. call'[q].key = c.key /\ call'[q].command = c.command /\ call'[q].count = b.count
    BY <2>1, <2>5, <2>6, Answers
  <2> QED
    BY <2>1, <2>5, <2>7, Zenon
<1>2. ASSUME NEW p \in Callers, RunReset(p)
      PROVE  Reports
  <2> DEFINE c == call[p]
             b == binding'[c.key]
  <2>1. PICK count \in 0..Cardinality(c.drop) :
           /\ ResetScript(c, count)
           /\ Go(p, IF b.command # c.command THEN Reply("command_mismatch")
                    ELSE Success(c, b.count, AnswerOf(c)))
    BY <1>2, Zenon DEF RunReset
  <2>2. c \in OpenCall /\ JudgedCall(c)
    BY <1>2, OpenCalls, Zenon DEF RunReset
  <2>3. b \in BoundRecord
    BY <2>1, <2>2, ScriptRecords, Zenon
  <2>4. q = p /\ call'[q] = IF b.command # c.command THEN Reply("command_mismatch")
                            ELSE Success(c, b.count, AnswerOf(c))
    BY <1>0, <2>1, Zenon DEF Go
  <2>5. b.command = c.command /\ call'[q] = Success(c, b.count, AnswerOf(c))
    BY <2>4, Answers, Zenon
  <2>6. AnswerOf(c) \in AnswerType
    BY <2>2, DropCounts, Zenon DEF AnswerOf, AnswerType, OpenCall, JudgedCall
  <2>7. b.found /\ b.count \in 0..Cardinality(Windows)
    BY <2>3, Zenon DEF BoundRecord
  <2>8. call'[q].key = c.key /\ call'[q].command = c.command /\ call'[q].count = b.count
    BY <2>2, <2>5, <2>6, <2>7, Answers
  <2> QED
    BY <2>5, <2>7, <2>8, Zenon
<1>3. ASSUME NEW p \in Callers, NEW k \in IdemKeys, NEW command \in Commands,
             NEW v \in Versions \cup {0}, Arrive(p, k, command, v)
      PROVE  FALSE
  BY <1>0, <1>3, Answers, Zenon DEF Arrive, Go
<1>4. ASSUME NEW p \in Callers, Peek(p)
      PROVE  FALSE
  <2>1. call[p] \in OpenCall
    BY <1>4, OpenCalls, Zenon DEF Peek
  <2>2. PICK kept \in SUBSET call[p].drop : Go(p, [call[p] EXCEPT !.pc = "run", !.drop = kept])
    BY <1>4, Zenon DEF Peek
  <2>3. [call[p] EXCEPT !.pc = "run", !.drop = kept].pc = "run"
    BY <2>1, Zenon DEF OpenCall
  <2> QED
    BY <1>0, <2>2, <2>3, Zenon DEF Go
<1>5. ASSUME NEW p \in Callers, Unreached(p) \/ Unheard(p) \/ Delayed(p) \/ Dies(p)
      PROVE  FALSE
  <2>1. PICK d \in {call[p], Reply("unavailable"), Reply("none")} : Go(p, d)
    BY <1>5, Zenon DEF Unreached, Unheard, Delayed, Dies
  <2> QED
    BY <1>0, <2>1, Answers, Zenon DEF Go
<1>6. ASSUME NEW c \in late, Arrives(c)
      PROVE  FALSE
  BY <1>6, Zenon DEF Arrives
<1>7. CASE UNCHANGED avars
  BY <1>7, Zenon DEF avars
<1> QED
  BY <1>1, <1>2, <1>3, <1>4, <1>5, <1>6, <1>7, Zenon DEF ANext

\* A key stands for one run of its reset: the run is recorded once, deletes
\* once, and is what every call that succeeds reports (resetScript, runReset).
THEOREM OneReset == ASpec => ResetOnce
<1>1. AddressedInv /\ [ANext]_avars =>
        [\A k \in IdemKeys : binding[k].found => binding'[k] = binding[k]]_avars
  BY BindsOnceStep, Zenon
<1>2. AddressedInv /\ [ANext]_avars =>
        [\A p \in Callers :
            LET c == call'[p]
            IN c # call[p] /\ c.pc = "answered" /\ c.kind = "done" =>
                 /\ binding'[c.key].found
                 /\ binding'[c.key].command = c.command
                 /\ binding'[c.key].count = c.count]_avars
  BY CountsAgreeStep, Zenon
<1>3. ASpec => BindsOnce
  BY <1>1, AddressedJudged, PTL DEF ASpec, BindsOnce
<1>4. ASpec => CountsAgree
  BY <1>2, AddressedJudged, PTL DEF ASpec, CountsAgree
<1> QED
  BY <1>3, <1>4, Zenon DEF ResetOnce

\* A retry of a completed command is replayed or fails with the store; nothing
\* it meets later refuses it (replayReset before parseReset's checks).
LEMMA RetryStep ==
    ASSUME AddressedInv, [ANext]_avars, NEW q \in Callers,
           call[q].pc # "answered", call[q].known,
           binding[call[q].key].command = call[q].command, call'[q].pc = "answered"
    PROVE  call'[q].kind \in {"done", "unavailable", "none"}
<1>0. call \in [Callers -> OpenCall \cup ReplyCall \cup DoneCall]
  BY Zenon DEF AddressedInv, AddressedTypes
<1>1. call[q] \in OpenCall /\ call[q].pc = "lookup"
  BY OpenCalls, Zenon DEF OpenCall
<1>2. binding[call[q].key].found
  BY <1>1, Zenon DEF AddressedInv, CallsJudged
<1>3. ASSUME NEW p \in Callers, Lookup(p), p = q
      PROVE  call'[q].kind \in {"done", "unavailable", "none"}
  <2> DEFINE c == call[q]
             b == binding[c.key]
  <2>1. call'[q] = Success(c, b.count, b.answer)
    BY <1>0, <1>2, <1>3, Zenon DEF Lookup, Go
  <2>2. b.count \in 0..Cardinality(Windows) /\ b.answer \in AnswerType
    BY <1>1, <1>2, OpenCalls, Zenon DEF BoundRecord, OpenCall
  <2> QED
    BY <1>1, <2>1, <2>2, Answers
<1>4. ASSUME NEW p \in Callers, Unreached(p) \/ Dies(p), p = q
      PROVE  call'[q].kind \in {"done", "unavailable", "none"}
  <2>1. PICK d \in {Reply("unavailable"), Reply("none")} : Go(p, d)
    BY <1>4, Zenon DEF Unreached, Dies
  <2> QED
    BY <1>0, <1>4, <2>1, Answers DEF Go
<1>5. ASSUME NEW p \in Callers,
             \/ \E k \in IdemKeys, command \in Commands, v \in Versions \cup {0} :
                   Arrive(p, k, command, v)
             \/ Peek(p) \/ RunReset(p) \/ Unheard(p) \/ Delayed(p)
      PROVE  p # q
  BY <1>1, <1>5, Zenon DEF Arrive, Peek, RunReset, Unheard, Delayed
<1>6. ASSUME NEW p \in Callers, NEW d, Go(p, d), p # q
      PROVE  FALSE
  BY <1>0, <1>1, <1>6, Zenon DEF Go
<1>7. ASSUME NEW p \in Callers, p # q
      PROVE  ~(\/ \E k \in IdemKeys, command \in Commands, v \in Versions \cup {0} :
                   Arrive(p, k, command, v)
               \/ Lookup(p) \/ Peek(p) \/ RunReset(p)
               \/ Unreached(p) \/ Unheard(p) \/ Delayed(p) \/ Dies(p))
  BY <1>6, <1>7, Zenon DEF Arrive, Lookup, Peek, RunReset, Unreached, Unheard, Delayed, Dies
<1>8. ASSUME call' = call PROVE FALSE
  BY <1>1, <1>8, Zenon
<1> QED
  BY <1>3, <1>4, <1>5, <1>7, <1>8, Zenon DEF ANext, Arrives, avars

\* A completed command does not start failing after the fact where its domain is
\* enforced: a retry that snapshot lets in is replayed, whatever the rule set has
\* made of its rule by then, or fails with the store (replayReset).
THEOREM CompletedReplays == ASpec => RetryReplays
<1>1. AddressedInv /\ [ANext]_avars =>
        [\A p \in Callers :
            LET c == call[p]
            IN (c.pc # "answered" /\ c.known /\ binding[c.key].command = c.command) =>
                 (call'[p].pc = "answered" => call'[p].kind \in {"done", "unavailable", "none"})]_avars
  BY RetryStep, Zenon
<1> QED
  BY <1>1, AddressedJudged, PTL DEF ASpec, RetryReplays

=============================================================================

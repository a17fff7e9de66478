--------------------------- MODULE AddressedReset ---------------------------
(***************************************************************************)
(* The addressed reset (service/internal/management, handleReset): one     *)
(* rule, its identity fully named, its keys computed from the enforced     *)
(* rule set, and one script that binds the Idempotency-Key, deletes and    *)
(* records the answer.                                                     *)
(*                                                                         *)
(* A command is what its hash covers: [dry, limited, expected, windows,    *)
(* mixed], with the pinned rule set version, 0 for none, the windows that  *)
(* algorithm and period leave, and whether an axis value it names is not   *)
(* in lower case.  The rule set changes between calls, the domain comes    *)
(* and goes with it, and replicas need not enforce the same one at a time. *)
(***************************************************************************)
EXTENDS Integers, FiniteSets

CONSTANTS
    Callers,     \* calls that may run at one time
    IdemKeys,    \* Idempotency-Keys
    Commands,    \* the commands clients send
    Enforced,    \* rule set version -> the windows of the rule, {} when it has no such rule
    Lowering,    \* the rule sets that lowercase the axes
    LateCalls,   \* whether the store may run a call its caller gave up on
    MaxFaults    \* bound: faults of the store, the network and the process

VARIABLES
    binding,  \* Idempotency-Key -> its record
    call,     \* caller -> the handler's locals
    late,     \* calls the store may still run, whose callers gave up
    faults    \* faults so far

avars == <<binding, call, late, faults>>

Versions == DOMAIN Enforced

Windows == UNION {Enforced[v] : v \in Versions}

ASSUME AddressedConstants ==
    /\ IsFiniteSet(Windows)
    /\ MaxFaults \in Nat

Unbound == [found |-> FALSE]

Reply(kind) == [pc |-> "answered", kind |-> kind]

Success(c, count, answer) ==
    [pc |-> "answered", kind |-> "done", key |-> c.key, command |-> c.command,
     count |-> count, answer |-> answer]

Go(p, c) == call' = [call EXCEPT ![p] = c]

Calm == UNCHANGED <<late, faults>>

AInit ==
    /\ binding = [k \in IdemKeys |-> Unbound]
    /\ call = [p \in Callers |-> Reply("none")]
    /\ late = {}
    /\ faults = 0

-----------------------------------------------------------------------------
\* A request arrives on a replica that enforces v, 0 when its rule set does not
\* have the domain: then snapshot answers before the record is read.  known is a
\* ghost: the key was bound already.
Arrive(p, k, command, v) ==
    /\ call[p].pc = "answered"
    /\ Go(p, IF v = 0 THEN Reply("not_found")
             ELSE [pc |-> "lookup", key |-> k, command |-> command, version |-> v, drop |-> {},
                   known |-> binding[k].found])
    /\ Calm /\ UNCHANGED binding

\* command.keys: computed from the snapshot, never scanned.
Computed(c) == Enforced[c.version] \cap c.command.windows

\* A mutant: the pinned version is not compared.
JudgeUnpinned(c) ==
    IF Enforced[c.version] = {} THEN Reply("not_found")
    ELSE IF c.command.mixed /\ c.version \in Lowering THEN Reply("invalid")
    ELSE IF Computed(c) = {} THEN Reply("not_found")
    ELSE [c EXCEPT !.pc = IF c.command.limited THEN "peek" ELSE "run", !.drop = Computed(c)]

\* parseReset, unnormalized, the pinned version, and what runReset computes.
JudgeNew(c) ==
    IF Enforced[c.version] = {} THEN Reply("not_found")
    ELSE IF c.command.mixed /\ c.version \in Lowering THEN Reply("invalid")
    ELSE IF c.command.expected \notin {0, c.version} THEN Reply("stale_rule_set")
    ELSE IF Computed(c) = {} THEN Reply("not_found")
    ELSE [c EXCEPT !.pc = IF c.command.limited THEN "peek" ELSE "run", !.drop = Computed(c)]

\* A mutant: the enforced set is consulted before the record.
LookupAfterJudging(p) ==
    /\ call[p].pc = "lookup"
    /\ LET c == call[p]  b == binding[c.key]
       IN Go(p, IF JudgeNew(c).pc = "answered" \/ ~b.found THEN JudgeNew(c)
                ELSE IF b.command # c.command THEN Reply("command_mismatch")
                ELSE Success(c, b.count, b.answer))
    /\ Calm /\ UNCHANGED binding

\* replayReset: a retry is answered from the record, before the enforced set is
\* consulted; a new command is judged against it.
Lookup(p) ==
    /\ call[p].pc = "lookup"
    /\ LET c == call[p]  b == binding[c.key]
       IN Go(p, IF ~b.found THEN JudgeNew(c)
                ELSE IF b.command # c.command THEN Reply("command_mismatch")
                ELSE Success(c, b.count, b.answer))
    /\ Calm /\ UNCHANGED binding

\* refusing: the limited filter keeps the windows that would refuse a request.
Peek(p) ==
    /\ call[p].pc = "peek"
    /\ \E kept \in SUBSET call[p].drop : Go(p, [call[p] EXCEPT !.pc = "run", !.drop = kept])
    /\ Calm /\ UNCHANGED binding

\* The body settled before the store runs.
AnswerOf(c) == [version |-> c.version, keys |-> Computed(c)]

\* A mutant: every run deletes and records again.
ResetScriptAgain(c, count) ==
    binding' = [binding EXCEPT ![c.key] =
        [found |-> TRUE, command |-> c.command, count |-> count, answer |-> AnswerOf(c)]]

\* resetScript: binds, counts or deletes the keys that exist, and records.
ResetScript(c, count) ==
    IF binding[c.key].found THEN UNCHANGED binding
    ELSE binding' = [binding EXCEPT ![c.key] =
            [found |-> TRUE, command |-> c.command, count |-> count, answer |-> AnswerOf(c)]]

\* runReset: the count is the store's, the body is this call's own.
RunReset(p) ==
    /\ call[p].pc = "run"
    /\ \E count \in 0..Cardinality(call[p].drop) :
          /\ ResetScript(call[p], count)
          /\ LET c == call[p]  b == binding'[c.key]
             IN Go(p, IF b.command # c.command THEN Reply("command_mismatch")
                      ELSE Success(c, b.count, AnswerOf(c)))
    /\ Calm

-----------------------------------------------------------------------------
AFault ==
    /\ faults < MaxFaults
    /\ faults' = faults + 1

\* The call does not reach the store, or a read's reply is lost.
Unreached(p) ==
    /\ call[p].pc \in {"lookup", "peek", "run"}
    /\ AFault
    /\ Go(p, Reply("unavailable"))
    /\ UNCHANGED <<binding, late>>

\* The script ran and its reply is lost; the client library repeats it or not.
Unheard(p) ==
    /\ call[p].pc = "run"
    /\ AFault
    /\ \E count \in 0..Cardinality(call[p].drop) : ResetScript(call[p], count)
    /\ \E c \in {call[p], Reply("unavailable")} : Go(p, c)
    /\ UNCHANGED late

\* The caller gives up, or repeats, before the store runs the script.
Delayed(p) ==
    /\ LateCalls
    /\ call[p].pc = "run"
    /\ AFault
    /\ late' = late \cup {call[p]}
    /\ \E c \in {call[p], Reply("unavailable")} : Go(p, c)
    /\ UNCHANGED binding

Arrives(c) ==
    /\ \E count \in 0..Cardinality(c.drop) : ResetScript(c, count)
    /\ late' = late \ {c}
    /\ UNCHANGED <<call, faults>>

Dies(p) ==
    /\ call[p].pc # "answered"
    /\ AFault
    /\ Go(p, Reply("none"))
    /\ UNCHANGED <<binding, late>>

ANext ==
    \/ \E p \in Callers :
          \/ \E k \in IdemKeys, command \in Commands, v \in Versions \cup {0} :
                Arrive(p, k, command, v)
          \/ Lookup(p) \/ Peek(p) \/ RunReset(p)
          \/ Unreached(p) \/ Unheard(p) \/ Delayed(p) \/ Dies(p)
    \/ \E c \in late : Arrives(c)

ASpec == AInit /\ [][ANext]_avars

-----------------------------------------------------------------------------
\* Types of the bindings and of the calls; a call drops only what it computed.
ATypeOK ==
    /\ \A k \in IdemKeys :
          binding[k] = Unbound
          \/ binding[k] \in [found : {TRUE}, command : Commands, count : 0..Cardinality(Windows),
                             answer : [version : Versions, keys : SUBSET Windows]]
    /\ \A p \in Callers :
          /\ call[p].pc \in {"answered", "lookup", "peek", "run"}
          /\ call[p].pc \in {"peek", "run"} => call[p].drop \subseteq Computed(call[p])
    /\ faults \in 0..MaxFaults

\* An addressed reset runs once for its key: no retry, repeated or late call of
\* it changes what is recorded, and none deletes a second time.
BindsOnce == [][\A k \in IdemKeys : binding[k].found => binding'[k] = binding[k]]_avars

\* Every call of one key that succeeds reports the number of keys the one run
\* dropped, for the command the key is bound to.
CountsAgree ==
    [][\A p \in Callers :
          LET c == call'[p]
          IN c # call[p] /\ c.pc = "answered" /\ c.kind = "done" =>
               /\ binding'[c.key].found
               /\ binding'[c.key].command = c.command
               /\ binding'[c.key].count = c.count]_avars

\* A key stands for one run of its reset: the run is recorded once, deletes once,
\* and is what every call that succeeds reports (records Reset, runReset).
ResetOnce == BindsOnce /\ CountsAgree

\* What a reset dropped is what its command named: under the pinned version when
\* it pins one, and of that rule set's windows only.
ActsOnPinned ==
    ATypeOK /\ \A k \in IdemKeys :
        binding[k].found =>
            LET b == binding[k]
            IN /\ b.command.expected \in {0, b.answer.version}
               /\ b.answer.keys # {}
               /\ b.answer.keys \subseteq Enforced[b.answer.version] \cap b.command.windows
               /\ b.count <= Cardinality(b.answer.keys)

\* A completed command does not start failing after the fact where its domain is
\* still enforced: a retry that snapshot lets in is replayed, whatever the rule set
\* has made of the rule, of its windows, of the axes and of the version by then,
\* unless the store is away (handleReset reads the record before it judges).
RetryReplays ==
    [][\A p \in Callers :
          LET c == call[p]
          IN (c.pc # "answered" /\ c.known /\ binding[c.key].command = c.command) =>
               (call'[p].pc = "answered" => call'[p].kind \in {"done", "unavailable", "none"})]_avars

\* A retry answers the version and the keys the command acted on.
ReplaysAnswer ==
    [][\A p \in Callers :
          LET c == call'[p]
          IN c # call[p] /\ c.pc = "answered" /\ c.kind = "done" =>
               binding'[c.key].answer = c.answer]_avars

=============================================================================

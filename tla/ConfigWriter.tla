---------------------------- MODULE ConfigWriter ----------------------------
(***************************************************************************)
(* The writer of the configuration (operator/internal/config): the leader  *)
(* among the operator's pods compiles the policies its informer holds,     *)
(* against the last-good bundles of the ConfigMap, and replaces the        *)
(* ConfigMap whole.                                                        *)
(*                                                                         *)
(* A pass is the steps of Reconcile that other actors come between: the    *)
(* list from the informer's cache, Store.Load, the read of Save, its       *)
(* write.  A pod's informer lags behind the API server, and a watch opened *)
(* before a change of the resource's schema reads new fields pruned until  *)
(* it lists again.  A pod that loses the lease ends its process, and a     *)
(* write it had sent may still arrive.                                     *)
(*                                                                         *)
(* A resourceVersion is modelled by what it decides: `fresh' says that     *)
(* nothing wrote the ConfigMap since the request's sender read it.         *)
(***************************************************************************)
EXTENDS PolicyCompile

CONSTANTS
    Pods,       \* pods of the operator's Deployment
    Build,      \* pod -> its build
    Pruned,     \* spec -> what a watch of the old schema reads of it
    Worlds      \* scenarios: what may happen, and how often

VARIABLES
    world,      \* what may still happen: numbers of edits, crashes, faults and
                \* hands, the specs the author of a name writes, the pods
                \* that run, and those of them with an old watch
    policies,   \* the RateLimitPolicy objects of the API server
    uids,       \* name -> the number of objects the name has had
    written,    \* every bundle an author has written, as every watch reads it
    config,     \* ratelimit-config
    cache,      \* pod -> the policies its informer holds
    oldWatch,   \* the pods whose watch predates the schema change
    leader,     \* the pod that holds the lease
    queued,     \* the leader's work queue holds the request
    pass,       \* the leader's Reconcile
    late        \* the write a dead process sent and the API server has not handled

vars == <<world, policies, uids, written, config, cache, oldWatch, leader, queued, pass, late>>

NoPod == "no pod"

Absent == [present |-> FALSE, by |-> "none", entries |-> <<>>, damaged |-> {}]

Idle == [pc |-> "idle", view |-> {}, result |-> <<>>, create |-> FALSE, fresh |-> FALSE]

NoWrite == [sent |-> FALSE, by |-> "none", entries |-> <<>>, create |-> FALSE, fresh |-> FALSE]

\* What a scenario says.
Scenario ==
    [edits : Int, crashes : Int, faults : Int, hands : Int,
     pods : SUBSET Pods, old : SUBSET Pods, specs : [Names -> SUBSET Specs]]

ASSUME WriterConstants ==
    /\ IsFiniteSet(Names) /\ Names \subseteq Int
    /\ SizeOf \in [Specs -> Nat] /\ Limit \in Nat
    /\ Build \in [Pods -> Builds]
    /\ Pruned \in [Specs -> Specs]
    /\ Worlds \subseteq Scenario
    /\ NoPod \notin Pods

Init ==
    /\ world \in Worlds
    /\ policies = {}
    /\ uids = [n \in Names |-> 0]
    /\ written = {}
    /\ config = Absent
    /\ cache = [p \in Pods |-> {}]
    /\ oldWatch = world.old
    /\ leader = NoPod
    /\ queued = FALSE
    /\ pass = Idle
    /\ late = NoWrite

May(kind) == world[kind] > 0
Once(kind) == world' = [world EXCEPT ![kind] = @ - 1]

-----------------------------------------------------------------------------
(* Authors, and the informers that follow them.                            *)

Applied(n, o) ==
    /\ May("edits") /\ Once("edits")
    /\ policies' = {x \in policies : x.name # n} \cup o
    /\ written' = written \cup
          UNION {{[name |-> x.name, uid |-> x.uid, gen |-> x.gen, spec |-> s] :
                     s \in {x.spec, Pruned[x.spec]}} : x \in o}
    /\ UNCHANGED <<config, cache, oldWatch, leader, queued, pass, late>>

\* The API server's bookkeeping: a new object is generation 1 of a new UID.
CreatePolicy(n, s) ==
    /\ n \notin Named(policies)
    /\ uids' = [uids EXCEPT ![n] = @ + 1]
    /\ Applied(n, {[name |-> n, uid |-> uids[n] + 1, gen |-> 1, spec |-> s]})

EditPolicy(n, s) ==
    /\ n \in Named(policies)
    /\ s # Object(policies, n).spec
    /\ UNCHANGED uids
    /\ Applied(n, {[Object(policies, n) EXCEPT !.gen = @ + 1, !.spec = s]})

DeletePolicy(n) ==
    /\ n \in Named(policies)
    /\ UNCHANGED uids
    /\ Applied(n, {})

\* What a pod's informer reads of the API server's objects.
Read(p) ==
    IF p \in oldWatch THEN {[o EXCEPT !.spec = Pruned[@]] : o \in policies} ELSE policies

\* Events of the watch: a creation, a deletion and a new generation pass the
\* GenerationChangedPredicate.
Deliver(p) ==
    /\ cache[p] # Read(p)
    /\ cache' = [cache EXCEPT ![p] = Read(p)]
    /\ queued' = (queued \/ p = leader)
    /\ UNCHANGED <<world, policies, uids, written, config, oldWatch, leader, pass, late>>

\* The watch is closed and the informer lists again, under the new schema.  The
\* events of it carry the generations the informer has, and the predicate drops
\* them.
Relist(p) ==
    /\ p \in oldWatch
    /\ cache[p] = Read(p)
    /\ oldWatch' = oldWatch \ {p}
    /\ cache' = [cache EXCEPT ![p] = policies]
    /\ UNCHANGED <<world, policies, uids, written, config, leader, queued, pass, late>>

-----------------------------------------------------------------------------
(* The lease.                                                              *)

\* The start kick, sent once the lease is taken, with the informer's initial
\* events.
Elect(p) ==
    /\ leader = NoPod
    /\ leader' = p
    /\ queued' = TRUE
    /\ UNCHANGED <<world, policies, uids, written, config, cache, oldWatch, pass, late>>

\* The write that carries what a pass decided on.
Request ==
    [sent |-> TRUE, by |-> Build[leader], entries |-> Render(pass.result),
     create |-> pass.create, fresh |-> pass.fresh]

\* The leader's process ends, with the lease lost or by itself; the pod starts
\* again and lists the policies.
Crash ==
    /\ leader # NoPod
    /\ May("crashes") /\ Once("crashes")
    /\ leader' = NoPod
    /\ pass' = Idle
    /\ queued' = FALSE
    /\ oldWatch' = oldWatch \ {leader}
    /\ cache' = [cache EXCEPT ![leader] = policies]
    /\ late' \in {late} \cup (IF pass.pc = "write" THEN {Request} ELSE {})
    /\ UNCHANGED <<policies, uids, written, config>>

-----------------------------------------------------------------------------
(* The ConfigMap.  Every change of it is an event for the leader.          *)

\* The content a request writes.
Content(request) ==
    [present |-> TRUE, by |-> request.by, entries |-> request.entries, damaged |-> {}]

\* The API server's answer to a create, and to an update that carries a
\* resourceVersion.
Accepts(request) ==
    IF request.create THEN ~config.present ELSE config.present /\ request.fresh

LateWrite ==
    /\ late.sent
    /\ IF Accepts(late)
       THEN /\ config' = Content(late)
            /\ queued' = (leader # NoPod)
            /\ pass' = [pass EXCEPT !.fresh = FALSE]
       ELSE UNCHANGED <<config, queued, pass>>
    /\ late' = NoWrite
    /\ UNCHANGED <<world, policies, uids, written, cache, oldWatch, leader>>

\* Somebody changes the ConfigMap.
ByHand(new) ==
    /\ May("hands") /\ Once("hands")
    /\ config.present
    /\ config' = new
    /\ queued' = (leader # NoPod)
    /\ pass' = [pass EXCEPT !.fresh = FALSE]
    /\ late' = [late EXCEPT !.fresh = FALSE]
    /\ UNCHANGED <<policies, uids, written, cache, oldWatch, leader>>

DeleteConfig == ByHand(Absent)

\* A payload that does not decode or does not match its hash, or a manifest
\* that does not decode.
DamageConfig(names) ==
    /\ config.damaged # names
    /\ ByHand([config EXCEPT !.damaged = names])

-----------------------------------------------------------------------------
(* Reconcile, in the leader.                                               *)

Step(from) == leader # NoPod /\ pass.pc = from

Others == <<policies, uids, written, cache, oldWatch, leader>>

\* policy.Load, from the cache.
Begin ==
    /\ Step("idle")
    /\ queued
    /\ queued' = FALSE
    /\ pass' = [Idle EXCEPT !.pc = "load", !.view = cache[leader]]
    /\ UNCHANGED <<world, config, late, Others>>

\* A mutant: the request is not queued again.
FailForGood == pass' = Idle /\ UNCHANGED queued

\* An error of Reconcile: nothing more is done, and the queue has the request
\* again.
Fail == pass' = Idle /\ queued' = TRUE

\* Store.Load: the readable bundles of the given domains.  A payload is decoded
\* strictly, so one with a field the build does not define is skipped too.
StoreLoad(object, build, names) ==
    [n \in {x \in names \cap DOMAIN object.entries :
              x \notin object.damaged /\ object.entries[x].spec \notin Undefined[build]}
        |-> object.entries[n]]

\* Store.Load, Compile, Fit, and render of Save, which refuses what the object
\* cannot hold.
Load ==
    /\ Step("load")
    /\ \E result \in {Fit(Build[leader], pass.view,
                          StoreLoad(config, Build[leader], Named(pass.view)))} :
          IF Size(Render(result)) <= Limit
          THEN /\ pass' = [pass EXCEPT !.pc = "get", !.result = result]
               /\ UNCHANGED queued
          ELSE Fail
    /\ UNCHANGED <<world, config, late, Others>>

\* The read of Save; what is already written ends the pass.
Get ==
    /\ Step("get")
    /\ pass' = IF config = Content(Request) THEN Idle
               ELSE [pass EXCEPT !.pc = "write", !.create = ~config.present, !.fresh = TRUE]
    /\ UNCHANGED <<world, config, queued, late, Others>>

\* The write as the API server makes it.
Written ==
    /\ Accepts(Request)
    /\ config' = Content(Request)
    /\ queued' = TRUE
    /\ pass' = Idle
    /\ late' = [late EXCEPT !.fresh = FALSE]

\* The create or the update of Save.
Write ==
    /\ Step("write")
    /\ \/ Written
       \/ ~Accepts(Request) /\ Fail /\ UNCHANGED <<config, late>>
    /\ UNCHANGED <<world, Others>>

\* A request that does not reach the API server, in any of the steps; or a write
\* that is made, and its answer lost.
Fault ==
    /\ leader # NoPod /\ pass.pc \in {"load", "get", "write"}
    /\ May("faults") /\ Once("faults")
    /\ \/ Fail /\ UNCHANGED <<config, late>>
       \/ pass.pc = "write" /\ Written
    /\ UNCHANGED Others

Reconcile == Begin \/ Load \/ Get \/ Write

Next ==
    \/ \E n \in Names :
          \/ \E s \in world.specs[n] : CreatePolicy(n, s) \/ EditPolicy(n, s)
          \/ DeletePolicy(n)
    \/ \E p \in world.pods : Deliver(p) \/ Relist(p) \/ Elect(p)
    \/ Reconcile \/ Fault \/ Crash \/ LateWrite
    \/ DeleteConfig
    \/ \E names \in SUBSET DOMAIN config.entries : DamageConfig(names)

\* Events are delivered, a closed watch lists again, a free lease is taken, and
\* the leader's worker goes on; nothing else has to happen.
Fairness ==
    /\ \A p \in Pods : WF_vars(p \in world.pods /\ Deliver(p)) /\ WF_vars(Relist(p))
    /\ WF_vars(\E p \in world.pods : Elect(p))
    /\ WF_vars(Reconcile)
    /\ WF_vars(LateWrite)

Spec == Init /\ [][Next]_vars
FairSpec == Spec /\ Fairness

-----------------------------------------------------------------------------
(* What has to hold.                                                       *)

Objects == [name : Names, uid : Nat, gen : Nat, spec : Specs]
Bundles == [uid : Nat \ {0}, gen : Nat, spec : Specs]
AreEntries(f) == DOMAIN f \subseteq Names /\ \A n \in DOMAIN f : f[n] \in Bundles

\* The variables have their types, and a pass runs in the process that holds the
\* lease.
WTypeOK ==
    /\ policies \subseteq Objects /\ written \subseteq Objects
    /\ \A x, y \in policies : x.name = y.name => x = y
    /\ DOMAIN uids = Names /\ \A n \in Names : uids[n] \in Nat
    /\ config.present \in BOOLEAN /\ config.by \in Builds \cup {"none"}
    /\ AreEntries(config.entries) /\ config.damaged \subseteq Names
    /\ DOMAIN cache = Pods /\ \A p \in Pods : cache[p] \subseteq Objects
    /\ oldWatch \subseteq Pods
    /\ leader \in Pods \cup {NoPod} /\ queued \in BOOLEAN
    /\ pass.pc \in {"idle", "load", "get", "write"}
    /\ leader = NoPod => pass = Idle /\ ~queued
    /\ pass.view \subseteq Objects /\ AreEntries(Render(pass.result))
    /\ AreEntries(late.entries)

\* The step is the leader's write.
Writes == pass.pc = "write" /\ config' # config /\ pass' = Idle /\ leader # NoPod

\* The entry of an object that a build can still serve: it is the object's, it
\* decodes and compiles, and it was not saved from a pruned read of a generation
\* that now reads as skewed.
Servable(build, o) ==
    /\ o.name \in DOMAIN config.entries \ config.damaged
    /\ LET entry == config.entries[o.name]
       IN /\ entry.uid = o.uid
          /\ entry.spec \in Compiles[build] \ Undefined[build]
          /\ ~(o.spec \in Undefined[build] /\ entry.gen = o.gen)

\* New entries keep what was good last, or replace it by the object's own latest
\* generation.
Keeps(entries) ==
    \A o \in pass.view :
        Servable(Build[leader], o) =>
            /\ o.name \in DOMAIN entries
            /\ entries[o.name] \in {config.entries[o.name], BundleOf(o)}

\* "a typo in one team's policy must not turn another gateway's limits off", nor
\* its own: whatever else is in the namespace, too large, damaged or recreated, a
\* pass decides to keep the last-good entry of every object it sees, or to
\* replace it by the object's latest generation.
FallbackKept ==
    [][pass.pc = "load" /\ pass'.pc = "get" => Keeps(Render(pass'.result))]_vars

\* "if it does not and the manifest holds the domain with the same UID, that entry
\* stays": the same, of the manifest that the write replaces.
EntryStays == [][Writes => Keeps(config'.entries)]_vars

\* What a write puts in force is a generation its author wrote for the object
\* of that name the writer sees, under that UID: a recreated policy never
\* revives the spec of the one deleted before it, and a deleted one is gone.
ServesItsAuthor ==
    []WTypeOK /\ [][Writes =>
        \A n \in DOMAIN config'.entries :
            /\ \E o \in pass.view : o.name = n /\ o.uid = config'.entries[n].uid
            /\ [name |-> n, uid |-> config'.entries[n].uid, gen |-> config'.entries[n].gen,
                spec |-> config'.entries[n].spec] \in written]_vars

\* "Both compile the same objects against the same persisted state and run this
\* same function, so they reach the same verdict": the state is the ConfigMap,
\* which the writer has just changed, so compiling against what it wrote has to
\* give what it wrote, with the same verdict on every policy.
StatusAgrees ==
    [][Writes =>
        LET again == Fit(Build[leader], pass.view,
                         StoreLoad(config', Build[leader], Named(pass.view)))
            Verdict(outcome) == <<outcome.compiled, outcome.tooLarge, outcome.bundle>>
        IN \A n \in DOMAIN again : Verdict(again[n]) = Verdict(pass.result[n])]_vars

\* A pass refuses to write for the size only when something was over the limit
\* before, or reads differently under the generation it was saved for: what
\* authors add is set back to fit, and never stops the other domains.
RoomIsMade ==
    [][Step("load") /\ pass' = Idle /\ world' = world /\ leader' = leader =>
        LET state == StoreLoad(config, Build[leader], Named(pass.view))
        IN \/ Size(state) > Limit
           \/ \E o \in pass.view :
                 /\ o.name \in DOMAIN state
                 /\ state[o.name].uid = o.uid /\ state[o.name].gen = o.gen
                 /\ state[o.name].spec # o.spec]_vars

\* Once authors, crashes, faults and hands are done, the ConfigMap is there, has
\* nothing of a policy that is gone or of another object of its name, and, when
\* there is room for everything, holds every latest generation that the leader's
\* build compiles: no event is missed and no error is the last word.  The one
\* exception is a ConfigMap that stays refused for its size (see RoomIsMade).
Refused ==
    \E result \in {Fit(Build[leader], policies,
                       StoreLoad(config, Build[leader], Named(policies)))} :
        Size(Render(result)) > Limit

Settled ==
    /\ config.present /\ config.by = Build[leader]
    /\ \A n \in DOMAIN config.entries :
          \E o \in policies : o.name = n /\ o.uid = config.entries[n].uid
    /\ \A all \in {Render(Compile(Build[leader], policies, config.entries, {}))} :
          Size(all) <= Limit =>
            \A o \in policies :
                LatestCompiles(Build[leader], o) =>
                    /\ o.name \in DOMAIN config.entries
                    /\ config.entries[o.name].gen = o.gen
WriterConverges == <>[](leader # NoPod /\ (Settled \/ Refused))

\* "That bundle is the guess this refusal exists to prevent, so it does not serve
\* either": a generation that carries a field the leader's build does not define
\* does not stay in force from a read that dropped the field.
Guessed ==
    /\ leader # NoPod
    /\ \E o \in cache[leader] :
          /\ o.spec \in Undefined[Build[leader]]
          /\ o.name \in DOMAIN config.entries
          /\ config.entries[o.name].uid = o.uid /\ config.entries[o.name].gen = o.gen
GuessNotServed == Guessed ~> ~Guessed

=============================================================================

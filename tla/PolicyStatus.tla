---------------------------- MODULE PolicyStatus ----------------------------
(***************************************************************************)
(* The status of one policy, written by the operator's leader              *)
(* (operator/internal/controller): the reconciler compiles the policy,     *)
(* asks every ready replica which generation of it the replica enforces,   *)
(* and writes the conditions Accepted, Ready and Stalled.                  *)
(*                                                                         *)
(* The reconciler is one worker.  Between its reads - the object, then the *)
(* compilation of the cache, then one replica after another - the object   *)
(* is edited, deleted and created again, the writer saves what it          *)
(* compiled, replicas apply it, refuse it, fall back, join, leave and fall *)
(* silent, the cache and its copy of the EndpointSlices lag, and leaders   *)
(* change.  The reconciles of the other domains share the round of answers *)
(* that the probe keeps.                                                   *)
(*                                                                         *)
(* Time passes in ticks of half a probe interval, which is longer than a   *)
(* reconcile or the lag of an informer, and every moment is kept as an     *)
(* age, capped where its reader stops telling ages apart.                  *)
(***************************************************************************)
EXTENDS PolicyCompile

CONSTANTS
    Replicas,     \* pods of the service
    Build,        \* the operator's build
    Deadline,     \* PropagationDeadline, in ticks
    Interval,     \* ProbeInterval, and the probe's Freshness, in ticks
    CheckMaxAge,  \* lastCheckMaxAge, in ticks
    Worlds        \* the specs written, the pods that are ready at first, and how often
                  \* all else changes, by kind

World ==
    [spec : Specs, next : Specs, fleet : SUBSET Replicas, edit : Nat, recreate : Nat,
     room : Nat, scale : Nat, refuse : Nat, fall : Nat, reach : Nat, crash : Nat, others : Nat,
     lost : Nat]

ASSUME StatusConstants ==
    /\ IsFiniteSet(Replicas)
    /\ "none" \in Specs
    /\ Deadline \in Nat /\ Interval \in Nat \ {0}
    /\ CheckMaxAge \in Nat /\ Interval <= CheckMaxAge
    /\ Worlds \subseteq World

VARIABLES
    world,      \* the changes that are left
    object,     \* the policy in the API server
    status,     \* its status there
    saved,      \* its bundle in the ConfigMap
    room,       \* whether the ConfigMap can hold another generation of it
    pods,       \* the replicas
    cache,      \* the leader's copy of the policy
    slices,     \* the leader's copy of the ready endpoints
    queued,     \* whether the policy is in the work queue
    wake,       \* ticks until its delayed request, or Never
    round,      \* the probe's last round
    pass,       \* the reconcile under way
    published,  \* the fleet series of the domain
    warned,     \* history: generations of this object announced as broken
    spread,     \* history: ticks that the status has told of propagation
    seen        \* history: ticks since a replica enforced what the object says

cluster == <<object, status, saved, room, pods>>
leader == <<cache, slices, queued, wake, round, pass, published>>
svars == <<world, cluster, leader, warned, spread, seen>>

Never == -1
Unseen == Interval
AgeCap == Deadline + 1
Lowest(a, b) == IF a < b THEN a ELSE b

Nowhere == [uid |-> 0, gen |-> 0]
Identity(x) == [uid |-> x.uid, gen |-> x.gen]

\* A replica: its readiness, whether the leader reaches it, and what it
\* reports - a generation of an object, and a refusal of the last manifest.
Pod(ready, bundle) == [ready |-> ready, reach |-> TRUE, refuses |-> FALSE,
                       uid |-> bundle.uid, gen |-> bundle.gen]
Report(p) == [uid |-> pods[p].uid, gen |-> pods[p].gen, refuses |-> pods[p].refuses]
Endpoints == {p \in Replicas : pods[p].ready}

NoObject == [name |-> 1, uid |-> 0, gen |-> 0, spec |-> "none"]
Exists(o) == o.uid # 0

\* The conditions carry the observed generation; Stalled has the reason of
\* Ready when it is True.
NoStatus ==
    [observed |-> 0, active |-> 0, accepted |-> "None", ready |-> "None",
     reason |-> "None", age |-> 0, stalled |-> "None", total |-> 0, applied |-> 0,
     check |-> Never]

\* A round that no observation reuses any more counts as none.
NoRound == [age |-> Interval, endpoints |-> {}, answers |-> <<>>, err |-> FALSE,
            since |-> Nowhere]
NoPass == [pc |-> "idle"]
NoSample == [known |-> FALSE, stalled |-> FALSE]

PropagationReasons == {"Reconciling", "Propagating", "ReplicaStale"}

-----------------------------------------------------------------------------
(* Compilation, as the writer and the reconciler do it.                    *)

\* Compile and Fit of a namespace whose other domains leave room or do not:
\* a generation that is not the one saved is kept out when it has no room.
Outcome(o, previous) ==
    IF ~Exists(o)
      THEN [compiled |-> TRUE, tooLarge |-> FALSE, active |-> 0,
            bundle |-> NoBundle, lost |-> FALSE, uid |-> 0]
      ELSE LET tooLarge == ~room /\ Identity(previous) # Identity(o)
               outcome == CompileDomain(Build, o, previous, tooLarge)
           IN [compiled |-> outcome.compiled, tooLarge |-> outcome.tooLarge,
               active |-> outcome.active, bundle |-> outcome.bundle,
               lost |-> outcome.lost, uid |-> o.uid]

-----------------------------------------------------------------------------
(* The probe.                                                              *)

\* currentRound: whether the round taken earlier answers this observation.
Reused(fresh) ==
    /\ ~fresh
    /\ round.age < Interval
    /\ round.endpoints = slices

\* takeRound, once every endpoint was asked.
RoundOf(asked, answers, since) ==
    [age |-> 0, endpoints |-> asked, answers |-> answers,
     err |-> asked # {} /\ DOMAIN answers = {}, since |-> since]

\* currentRound, when the EndpointSlices cannot be listed.
Unlisted ==
    [age |-> 0, endpoints |-> {}, answers |-> <<>>, err |-> TRUE, since |-> Identity(object)]

\* Whether the report names the domain.
ReportsDomain(answer) == answer.uid # 0

\* A mutant: the name of the domain is enough.
ViewByGeneration(r, want) ==
    [total |-> Cardinality(r.endpoints),
     applied |-> Cardinality({p \in DOMAIN r.answers :
                             ReportsDomain(r.answers[p]) /\ r.answers[p].gen = want.gen}),
     refusing |-> {p \in DOMAIN r.answers : r.answers[p].refuses}]

\* fleetRound.view
View(r, want) ==
    [total |-> Cardinality(r.endpoints),
     applied |-> Cardinality({p \in DOMAIN r.answers :
                             ReportsDomain(r.answers[p]) /\ Identity(r.answers[p]) = want}),
     refusing |-> {p \in DOMAIN r.answers : r.answers[p].refuses}]

-----------------------------------------------------------------------------
(* The judgement.                                                          *)

Verdict(ready, reason, stalled) == [ready |-> ready, reason |-> reason, stalled |-> stalled]

Judge(outcome, view, failed, since) ==
    IF ~outcome.compiled THEN Verdict("False", "NotCompiled", "True")
    ELSE IF outcome.tooLarge THEN Verdict("False", "ConfigMapTooLarge", "True")
    ELSE IF failed THEN Verdict("Unknown", "ProbeFailed", "Unknown")
    ELSE IF view.total = 0 THEN Verdict("False", "NoReplicas", "False")
    ELSE IF view.applied = view.total THEN Verdict("True", "AllReplicas", "False")
    ELSE IF view.refusing # {} THEN Verdict("False", "ReplicaFormatUnsupported", "True")
    ELSE IF since > Deadline THEN Verdict("False", "ReplicaStale", "True")
    ELSE IF view.applied = 0 THEN Verdict("False", "Reconciling", "False")
    ELSE Verdict("False", "Propagating", "False")

\* readyAge: how long this generation has been propagating.
ReadyAge(before, gen) ==
    IF before.observed = gen /\ before.reason \in PropagationReasons
      THEN before.age ELSE 0

\* A mutant: only a new generation restarts the clock.
RestartsOnEdit(before, reason, gen) == before.ready # "None" /\ before.observed # gen

RestartsPropagationClock(before, reason, gen) ==
    /\ before.ready # "None"
    /\ \/ before.observed # gen
       \/ before.reason \notin PropagationReasons /\ reason \in PropagationReasons

\* setReadyCondition: the age of its LastTransitionTime.
ReadyStamp(before, verdict, gen) ==
    IF before.ready # verdict.ready \/ RestartsPropagationClock(before, verdict.reason, gen)
      THEN 0 ELSE before.age

\* Reconcile: the status it would write, given the round it judged by.
After(o, before, outcome, r) ==
    LET view == View(r, [uid |-> outcome.uid, gen |-> outcome.active])
        verdict == Judge(outcome, view, r.err, ReadyAge(before, o.gen))
        after == [observed |-> o.gen, active |-> outcome.active,
                  accepted |-> IF outcome.compiled THEN "True" ELSE "False",
                  ready |-> verdict.ready, reason |-> verdict.reason,
                  age |-> ReadyStamp(before, verdict, o.gen),
                  stalled |-> verdict.stalled,
                  total |-> IF r.err THEN before.total ELSE view.total,
                  applied |-> IF r.err THEN before.applied ELSE view.applied,
                  check |-> before.check]
        staleCheckTime == before.check = Never \/ before.check >= CheckMaxAge
    IN IF ~r.err /\ (after # before \/ staleCheckTime)
         THEN [after EXCEPT !.check = r.age] ELSE after

\* turnedNotCompiled
TurnedNotCompiled(before, gen) == before.accepted # "False" \/ before.observed # gen

\* policyView
PolicyView(o, after) ==
    [ready |-> after.ready = "True", enforced |-> after.active # 0,
     lag |-> o.gen - after.active]

\* The fleet series: while Stalled is Unknown it keeps what was published.
Sample(o, after) ==
    LET kept == after.stalled = "Unknown" /\ published.known
    IN [known |-> TRUE,
        stalled |-> IF kept THEN published.stalled ELSE after.stalled = "True",
        reason |-> IF kept THEN published.reason
                   ELSE IF after.stalled = "True" THEN after.reason ELSE "Progressing",
        observed |-> after.check # Never,
        policy |-> PolicyView(o, after)]

-----------------------------------------------------------------------------
(* The reconciler.                                                         *)

\* Reconcile reads the object, or drops the series of one that is gone.
Get ==
    /\ queued /\ pass.pc = "idle"
    /\ queued' = FALSE
    /\ IF Exists(cache.object)
         THEN /\ pass' = [pc |-> "got", object |-> cache.object,
                          before |-> cache.status, current |-> cache.current]
              /\ UNCHANGED published
         ELSE /\ published' = NoSample
              /\ UNCHANGED pass
    /\ UNCHANGED <<world, cluster, cache, slices, wake, round, warned, spread>>

Asking(own, reuse, asked, p) ==
    [pc |-> "ask", own |-> own, object |-> p.object, before |-> p.before,
     current |-> p.current, outcome |-> Outcome(cache.object, saved),
     reuse |-> reuse, asked |-> asked, left |-> asked, answers |-> <<>>,
     since |-> Identity(object)]

\* A reconcile of a generation that the status has not observed.
Fresh(p) == p.object.gen # p.before.observed

\* compile, and currentRound up to the asking.
CompileAndObserve ==
    /\ pass.pc = "got"
    /\ pass' = IF Reused(Fresh(pass)) THEN Asking(TRUE, TRUE, {}, pass)
                                      ELSE Asking(TRUE, FALSE, slices, pass)
    /\ UNCHANGED <<world, cluster, cache, slices, queued, wake, round, published, warned, spread>>

\* The last-good state cannot be loaded; the request is retried.
LoadFails ==
    /\ pass.pc = "got" /\ world.lost > 0
    /\ world' = [world EXCEPT !.lost = @ - 1]
    /\ pass' = NoPass
    /\ queued' = TRUE
    /\ UNCHANGED <<cluster, cache, slices, wake, round, published, warned, spread>>

\* The EndpointSlices cannot be listed, for this domain or for another one.
ListFails ==
    /\ world.lost > 0
    /\ world' = [world EXCEPT !.lost = @ - 1]
    /\ round' = Unlisted
    /\ \/ pass.pc = "got" /\ pass' = Asking(TRUE, TRUE, {}, pass)
       \/ pass.pc = "idle" /\ UNCHANGED pass
    /\ UNCHANGED <<cluster, cache, slices, queued, wake, published, warned, spread>>

\* The reconcile of another domain takes a round.
Elsewhere ==
    /\ pass.pc = "idle" /\ world.others > 0
    /\ world' = [world EXCEPT !.others = @ - 1]
    /\ pass' = Asking(FALSE, FALSE, slices,
                      [object |-> NoObject, before |-> NoStatus, current |-> FALSE])
    /\ UNCHANGED <<cluster, cache, slices, queued, wake, round, published, warned, spread>>

\* ask: one replica answers or does not.
Ask(p) ==
    /\ pass.pc = "ask" /\ p \in pass.left
    /\ pass' = [pass EXCEPT
          !.left = @ \ {p},
          !.answers = IF pods[p].reach
                        THEN [q \in DOMAIN @ \cup {p} |->
                                IF q = p THEN Report(p) ELSE pass.answers[q]]
                        ELSE @]
    /\ UNCHANGED <<world, cluster, cache, slices, queued, wake, round, published, warned, spread>>

RoundUsed ==
    IF pass.reuse THEN round
    ELSE RoundOf(pass.asked, pass.answers, pass.since)

FinishElsewhere ==
    /\ pass.pc = "ask" /\ ~pass.own /\ pass.left = {}
    /\ round' = RoundUsed
    /\ pass' = NoPass
    /\ UNCHANGED <<world, cluster, cache, slices, queued, wake, published, warned, spread>>

\* A mutant: a round that was answered is not followed by another.
NextProbeOnce(r) == IF r.err THEN Interval ELSE wake

\* nextProbe, put in the queue of delays, which keeps the earlier moment.
NextProbe(r) ==
    LET wait == IF r.err THEN Interval ELSE Interval - r.age
    IN IF wake = Never THEN wait ELSE Lowest(wake, wait)

Announce(id) ==
    [told |-> warned.told \cup {id}, again |-> warned.again \/ id \in warned.told]

\* The end of a reconcile whose write did not fail: the event, the next probe.
Succeed(r, after) ==
    /\ warned' = IF ~pass.outcome.compiled /\ TurnedNotCompiled(pass.before, pass.object.gen)
                    THEN Announce(Identity(pass.object)) ELSE warned
    /\ wake' = NextProbe(r)
    /\ UNCHANGED queued

Retry == queued' = TRUE /\ UNCHANGED <<warned, wake>>

\* The API server takes the status; the history of what it tells goes on.
Lands(after) ==
    /\ status' = after
    /\ cache' = [cache EXCEPT !.current = FALSE]
    /\ spread' = IF /\ after.reason \in PropagationReasons
                    /\ status.reason \in PropagationReasons
                    /\ status.observed = after.observed
                   THEN spread ELSE 0

\* A mutant: the update carries no resource version.
WriteStatusUnchecked(r, after) ==
    /\ after # pass.before /\ Exists(object)
    /\ Lands(after) /\ Succeed(r, after)
    /\ UNCHANGED world

\* writeStatus: nothing for a status that does not change; a conflict for an
\* object that moved since it was read.
WriteStatus(r, after) ==
    \/ /\ after = pass.before
       /\ Succeed(r, after)
       /\ UNCHANGED <<world, status, cache, spread>>
    \/ /\ after # pass.before /\ pass.current
       /\ Lands(after) /\ Succeed(r, after)
       /\ UNCHANGED world
    \/ /\ after # pass.before /\ ~pass.current
       /\ Retry
       /\ UNCHANGED <<world, status, cache, spread>>
    \/ /\ after # pass.before /\ world.lost > 0
       /\ world' = [world EXCEPT !.lost = @ - 1]
       /\ Retry
       /\ \/ pass.current /\ Lands(after)
          \/ UNCHANGED <<status, cache, spread>>

\* The end of Reconcile: the judgement, the series, the write.
Finish ==
    /\ pass.pc = "ask" /\ pass.own /\ pass.left = {}
    /\ \E r \in {RoundUsed} :
          \E after \in {After(pass.object, pass.before, pass.outcome, r)} :
             /\ round' = r
             /\ published' = Sample(pass.object, after)
             /\ WriteStatus(r, after)
    /\ pass' = NoPass
    /\ UNCHANGED <<object, saved, room, pods, slices>>

-----------------------------------------------------------------------------
(* The informers, the delayed queue and the change of leaders.             *)

\* An event of the policy: the cache follows, and the policy is enqueued.
Deliver ==
    /\ ~cache.current
    /\ cache' = [object |-> object, status |-> status, current |-> TRUE]
    /\ queued' = TRUE
    /\ UNCHANGED <<world, cluster, slices, wake, round, pass, published, warned, spread>>

\* policiesBehind: an event of the EndpointSlices enqueues every policy.
DeliverSlices ==
    /\ slices # Endpoints
    /\ slices' = Endpoints
    /\ queued' = (queued \/ Exists(cache.object))
    /\ UNCHANGED <<world, cluster, cache, wake, round, pass, published, warned, spread>>

Wake ==
    /\ wake = 0
    /\ wake' = Never
    /\ queued' = TRUE
    /\ UNCHANGED <<world, cluster, cache, slices, round, pass, published, warned, spread>>

\* Another process leads: nothing in memory is left, the caches are listed.
NewLeader ==
    /\ world.crash > 0
    /\ world' = [world EXCEPT !.crash = @ - 1]
    /\ cache' = [object |-> object, status |-> status, current |-> TRUE]
    /\ slices' = Endpoints
    /\ queued' = Exists(object)
    /\ wake' = Never
    /\ round' = NoRound
    /\ pass' = NoPass
    /\ published' = NoSample
    /\ UNCHANGED <<cluster, warned, spread>>

-----------------------------------------------------------------------------
(* The surroundings.                                                       *)

\* A write to the object: the copies of it are out of date.
Touched ==
    /\ cache' = [cache EXCEPT !.current = FALSE]
    /\ pass' = IF pass.pc = "idle" THEN pass ELSE [pass EXCEPT !.current = FALSE]

Edit ==
    /\ world.edit > 0 /\ Exists(object) /\ object.spec # world.next
    /\ world' = [world EXCEPT !.edit = @ - 1]
    /\ object' = [object EXCEPT !.spec = world.next, !.gen = @ + 1]
    /\ Touched
    /\ UNCHANGED <<status, saved, room, pods, slices, queued, wake, round, published, warned, spread>>

Delete ==
    /\ world.recreate > 0 /\ Exists(object)
    /\ object' = NoObject
    /\ status' = NoStatus
    /\ spread' = 0
    /\ Touched
    /\ UNCHANGED <<world, saved, room, pods, slices, queued, wake, round, published, warned>>

Create ==
    /\ world.recreate > 0 /\ ~Exists(object)
    /\ world' = [world EXCEPT !.recreate = @ - 1]
    /\ object' = [name |-> 1, uid |-> world.recreate + 1, gen |-> 1, spec |-> world.next]
    /\ Touched
    /\ UNCHANGED <<status, saved, room, pods, slices, queued, wake, round, published, warned, spread>>

\* The writer, which compiles the same cache.
Save ==
    /\ saved # Outcome(cache.object, saved).bundle
    /\ saved' = Outcome(cache.object, saved).bundle
    /\ UNCHANGED <<world, object, status, room, pods, leader, warned, spread>>

\* The other domains of the namespace grow or shrink.
Resize ==
    /\ world.room > 0
    /\ world' = [world EXCEPT !.room = @ - 1]
    /\ room' = ~room
    /\ UNCHANGED <<object, status, saved, pods, leader, warned, spread>>

\* A replica applies the manifest of the ConfigMap.
Applied(p) ==
    /\ pods[p] # [pods[p] EXCEPT !.uid = saved.uid, !.gen = saved.gen, !.refuses = FALSE]
    /\ pods' = [pods EXCEPT ![p].uid = saved.uid, ![p].gen = saved.gen, ![p].refuses = FALSE]
    /\ UNCHANGED <<world, object, status, saved, room, leader, warned, spread>>

\* A replica refuses the manifest, falls back, or changes its reachability.
Trouble(p) ==
    /\ \/ /\ world.refuse > 0 /\ ~pods[p].refuses
          /\ pods' = [pods EXCEPT ![p].refuses = TRUE]
          /\ world' = [world EXCEPT !.refuse = @ - 1]
       \/ /\ world.fall > 0 /\ pods[p].uid # 0
          /\ pods' = [pods EXCEPT ![p].uid = 0, ![p].gen = 0]
          /\ world' = [world EXCEPT !.fall = @ - 1]
       \/ /\ world.reach > 0
          /\ pods' = [pods EXCEPT ![p].reach = ~@]
          /\ world' = [world EXCEPT !.reach = @ - 1]
    /\ UNCHANGED <<object, status, saved, room, leader, warned, spread>>

\* A pod leaves the fleet, or one joins with what its volume holds.
Scale(p) ==
    /\ world.scale > 0
    /\ world' = [world EXCEPT !.scale = @ - 1]
    /\ pods' = [pods EXCEPT ![p] = IF @.ready THEN [@ EXCEPT !.ready = FALSE]
                                   ELSE Pod(TRUE, saved)]
    /\ UNCHANGED <<object, status, saved, room, leader, warned, spread>>

-----------------------------------------------------------------------------
(* Time.                                                                   *)

Older(s) == [s EXCEPT !.age = Lowest(@ + 1, AgeCap),
                      !.check = IF @ = Never THEN Never ELSE Lowest(@ + 1, CheckMaxAge)]

Tick ==
    /\ pass.pc = "idle" /\ ~queued /\ wake # 0
    /\ cache.current /\ slices = Endpoints
    /\ status' = IF status = NoStatus THEN status ELSE Older(status)
    /\ cache' = [cache EXCEPT !.status = status']
    /\ wake' = IF wake = Never THEN Never ELSE wake - 1
    /\ round' = IF round.age + 1 < Interval THEN [round EXCEPT !.age = @ + 1] ELSE NoRound
    /\ spread' = IF status.reason \in PropagationReasons
                   THEN Lowest(spread + 1, AgeCap) ELSE 0
    /\ UNCHANGED <<world, object, saved, room, pods, slices, queued, pass, published, warned>>

\* The history of what the replicas enforce.
Watch(ticks) ==
    seen' = [p \in Replicas |->
        IF Identity(pods'[p]) = Identity(object') THEN 0
        ELSE IF Identity(object') # Identity(object) THEN Unseen
        ELSE Lowest(seen[p] + ticks, Unseen)]

-----------------------------------------------------------------------------

\* A leader starts over a policy that was never reconciled.
SInit ==
    /\ world \in Worlds
    /\ object = [name |-> 1, uid |-> 1, gen |-> 1, spec |-> world.spec]
    /\ status = NoStatus
    /\ saved = NoBundle
    /\ room = TRUE
    /\ pods = [p \in Replicas |-> Pod(p \in world.fleet, NoBundle)]
    /\ cache = [object |-> object, status |-> NoStatus, current |-> TRUE]
    /\ slices = Endpoints
    /\ queued = TRUE
    /\ wake = Never
    /\ round = NoRound
    /\ pass = NoPass
    /\ published = NoSample
    /\ warned = [told |-> {}, again |-> FALSE]
    /\ spread = 0
    /\ seen = [p \in Replicas |-> Unseen]

Reconciles == Get \/ CompileAndObserve \/ (\E p \in Replicas : Ask(p)) \/ FinishElsewhere \/ Finish

SNext ==
    \/ Tick /\ Watch(1)
    \/ /\ \/ Reconciles \/ LoadFails \/ ListFails \/ Elsewhere
          \/ Deliver \/ DeliverSlices \/ Wake \/ NewLeader
          \/ Edit \/ Delete \/ Create \/ Save \/ Resize
          \/ \E p \in Replicas : Applied(p) \/ Trouble(p) \/ Scale(p)
       /\ Watch(0)

\* Informers deliver, the writer saves, and the worker and the clock go on.
\* Nothing makes a replica apply.
SFairness ==
    /\ WF_svars((Deliver \/ DeliverSlices) /\ Watch(0))
    /\ WF_svars(Save /\ Watch(0))
    /\ WF_svars(((Reconciles \/ Wake) /\ Watch(0)) \/ (Tick /\ Watch(1)))

SSpec == SInit /\ [][SNext]_svars /\ SFairness

-----------------------------------------------------------------------------
(* Properties.                                                             *)

\* Every variable has its type.
STypeOK ==
    /\ object.uid \in Nat /\ object.spec \in Specs
    /\ status.age \in 0 .. AgeCap /\ status.check \in Never .. CheckMaxAge
    /\ status.applied <= status.total /\ status.total <= Cardinality(Replicas)
    /\ wake \in Never .. Interval
    /\ round.age \in 0 .. Interval /\ DOMAIN round.answers \subseteq round.endpoints
    /\ spread \in 0 .. AgeCap
    /\ seen \in [Replicas -> 0 .. Unseen]

\* What the API server holds was judged of one object at one generation: no
\* status tells of an active generation newer than the one it observed, and
\* one that is Ready tells of the very generation it observed, although the
\* object and the compilation are two reads of a cache that moves between
\* them.
StatusCoherent ==
    /\ STypeOK
    /\ status.active <= status.observed /\ status.observed <= object.gen
    /\ status.ready = "True" => status.active = status.observed /\ status.accepted = "True"
    /\ status.accepted = "False" => status.active < status.observed

\* A Warning that a generation does not compile is sent once at most, however
\* often the reconcile is retried, repeated from an old cache or taken over.
AnnouncedOnce == ~warned.again

\* Ready is written as True only if every endpoint of the round enforced this
\* generation of this very object within the probe interval.
ReadyMeansEnforced ==
    [][pass.pc = "ask" /\ status' # status /\ status'.ready = "True" =>
         /\ round'.endpoints # {}
         /\ \A p \in round'.endpoints : seen[p] < Unseen]_svars

\* ReplicaStale, the reason that pages, is written only for a generation whose
\* status has told of propagation without a break for the whole deadline.
NoFalsePage ==
    [][status'.reason = "ReplicaStale" /\ status.reason # "ReplicaStale" =>
         /\ status.observed = object.gen /\ status.reason \in PropagationReasons
         /\ spread > Deadline]_svars

\* A generation that the status had not observed is judged by a round taken
\* after that generation existed.
JudgedByFreshRound ==
    [][status'.observed # status.observed /\ status'.observed # 0 =>
         round'.since = Identity(object')]_svars

\* What the status says of the fleet rests on a round that can know it: taken after
\* the generation existed, with every endpoint's answer for a Ready.
FleetJudged == ReadyMeansEnforced /\ JudgedByFreshRound

\* A fleet that cannot be observed neither raises the alert on a domain nor
\* clears it.
AlertHeld ==
    [][published.known /\ published'.known /\ published'.stalled # published.stalled =>
         ~round'.err \/ ~pass.outcome.compiled \/ pass.outcome.tooLarge]_svars

\* Nobody is alarmed without ground: no page before the deadline, no alert moved by
\* a fleet that cannot be observed, no second Warning.
NoFalseAlarm == NoFalsePage /\ AlertHeld /\ []AnnouncedOnce

\* What the status has to say once nothing moves.
Truth ==
    LET outcome == Outcome(object, saved)
        want == [uid |-> outcome.uid, gen |-> outcome.active]
        r == RoundOf(Endpoints, [p \in {q \in Endpoints : pods[q].reach} |-> Report(p)],
                     Nowhere)
    IN Judge(outcome, View(r, want), r.err, Deadline + 1)

\* When the surroundings come to rest the status comes to say what is true of
\* them, and so does the series: a fleet that enforces the policy becomes
\* Ready, and one that never will becomes stalled.
StatusSettles ==
    <>[](Exists(object) =>
            /\ status.observed = object.gen
            /\ status.ready = Truth.ready /\ status.reason = Truth.reason
            /\ Truth.ready # "Unknown" => published.stalled = (Truth.stalled = "True"))

=============================================================================

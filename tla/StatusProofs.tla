---------------------------- MODULE StatusProofs ----------------------------
(***************************************************************************)
(* Proofs about the status of a policy: what it says is of one generation  *)
(* of one object, of a fleet that was asked about that generation, and     *)
(* nobody is alarmed without ground, for every number of replicas and      *)
(* however the object, the caches, the fleet and the leaders change        *)
(* between the reads of a reconcile.                                       *)
(***************************************************************************)
EXTENDS PolicyStatus, FiniteSetTheorems, TLAPS

-----------------------------------------------------------------------------
(* The inductive invariant.                                                *)

Ids == [uid : Nat, gen : Nat]
Objects == [name : {1}, uid : Nat, gen : Nat, spec : Specs]
Bundles == [uid : Nat, gen : Nat, spec : Specs]
Reports == [uid : Nat, gen : Nat, refuses : BOOLEAN]
Answers == UNION {[D -> Reports] : D \in SUBSET Replicas}
Pods == [ready : BOOLEAN, reach : BOOLEAN, refuses : BOOLEAN, uid : Nat, gen : Nat]

Words == {"None", "True", "False", "Unknown"}
Reasons ==
    {"None", "NotCompiled", "ConfigMapTooLarge", "ProbeFailed", "NoReplicas", "AllReplicas",
     "ReplicaFormatUnsupported", "ReplicaStale", "Reconciling", "Propagating"}

Statuses ==
    [observed : Nat, active : Nat, accepted : Words, ready : Words, reason : Reasons,
     age : 0 .. AgeCap, stalled : Words, total : Nat, applied : Nat,
     check : Never .. CheckMaxAge]

Caches == [object : Objects, status : Statuses, current : BOOLEAN]

Rounds ==
    [age : 0 .. Interval, endpoints : SUBSET Replicas, answers : Answers, err : BOOLEAN,
     since : Ids]

Outcomes ==
    [compiled : BOOLEAN, tooLarge : BOOLEAN, active : Nat, bundle : Bundles,
     lost : BOOLEAN, uid : Nat]

Got == [pc : {"got"}, object : Objects, before : Statuses, current : BOOLEAN]

Asks ==
    [pc : {"ask"}, own : BOOLEAN, object : Objects, before : Statuses, current : BOOLEAN,
     outcome : Outcomes, reuse : BOOLEAN, asked : SUBSET Replicas, left : SUBSET Replicas,
     answers : Answers, since : Ids]

\* UIDs are not used again: the one of the next object is recreate + 1.
Used(uid) == uid <= 1 \/ uid >= world.recreate + 2

\* What was read of the object, at any time, is not newer than the object.
Known(x) ==
    /\ Used(x.uid)
    /\ Exists(object) /\ x.uid = object.uid => x.gen <= object.gen

Copied(x) ==
    /\ Known(x)
    /\ Exists(object) /\ Identity(x) = Identity(object) => x.spec = object.spec

\* What tells of the object's own generation.
Enforces(x) == Exists(object) /\ Identity(x) = Identity(object)

ObjectInv ==
    /\ world \in World
    /\ object \in Objects /\ Used(object.uid)
    /\ Exists(object) <=> object.gen # 0
    /\ room \in BOOLEAN
    /\ slices \subseteq Replicas
    /\ wake \in Never .. Interval

SavedInv(bundle) == bundle \in Bundles /\ Copied(bundle)

PodsInv(fleet) == fleet \in [Replicas -> Pods] /\ \A p \in Replicas : Known(fleet[p])

SeenInv ==
    /\ seen \in [Replicas -> 0 .. Unseen]
    /\ \A p \in Replicas : Enforces(pods[p]) => seen[p] = 0

\* A copy that no write has followed is of the object as it stands.
CacheInv(copy) ==
    /\ copy \in Caches
    /\ Copied(copy.object)
    /\ copy.current => copy.object = object /\ copy.status = status

\* An answer that tells of the object's generation is not older than what the
\* history says of the replica.
AnswersInv(answers, age) ==
    \A p \in DOMAIN answers :
        /\ Known(answers[p])
        /\ Enforces(answers[p]) => seen[p] <= age

RoundInv(r) ==
    /\ r \in Rounds
    /\ DOMAIN r.answers \subseteq r.endpoints
    /\ AnswersInv(r.answers, r.age)

\* What the compilation found, of the object as it stands.
Compiled(outcome) ==
    /\ outcome.uid = object.uid
    /\ outcome.compiled <=> LatestCompiles(Build, object)
    /\ outcome.active <= object.gen
    /\ outcome.compiled /\ ~outcome.tooLarge => outcome.active = object.gen
    /\ ~outcome.compiled => outcome.active < object.gen

\* A reconcile whose reads no write has followed is of the object as it stands.
ReadInv(x) == x.current => Exists(object) /\ x.object = object /\ x.before = status

AsksInv(x) ==
    /\ x.left \subseteq x.asked
    /\ DOMAIN x.answers \subseteq x.asked
    /\ AnswersInv(x.answers, 0)
    /\ x.current => /\ x.own
                    /\ Compiled(x.outcome)
                    /\ x.since = Identity(object)

PassInv(x) ==
    \/ x = NoPass
    \/ x \in Got /\ ReadInv(x)
    \/ x \in Asks /\ ReadInv(x) /\ AsksInv(x)

PassLinked ==
    /\ pass.pc # "idle" /\ pass.current => cache.object = object
    /\ pass.pc = "ask" /\ pass.reuse =>
          /\ round.age < Interval
          /\ pass.current => ~Fresh(pass) \/ round.since = Identity(object)

\* A generation announced as broken is one the status tells of as broken.
ToldInv(history) ==
    /\ history \in [told : SUBSET Ids, again : BOOLEAN]
    /\ ~history.again
    /\ \A id \in history.told :
          /\ Known(id)
          /\ Enforces(id) => /\ status.accepted = "False" /\ status.observed = object.gen
                             /\ ~LatestCompiles(Build, object)

\* The clock of a propagation is not ahead of the history.
ClockInv ==
    /\ spread \in 0 .. AgeCap
    /\ status.reason \in PropagationReasons => status.age <= spread

CoherentInv ==
    /\ status \in Statuses
    /\ status.applied <= status.total /\ status.total <= Cardinality(Replicas)
    /\ status.active <= status.observed /\ status.observed <= object.gen
    /\ status.ready = "True" => status.active = status.observed /\ status.accepted = "True"
    /\ status.accepted = "False" => status.active < status.observed

StatusInv ==
    /\ ObjectInv /\ SavedInv(saved) /\ PodsInv(pods) /\ SeenInv
    /\ CacheInv(cache) /\ RoundInv(round) /\ PassInv(pass) /\ PassLinked
    /\ ToldInv(warned) /\ ClockInv /\ CoherentInv

-----------------------------------------------------------------------------
(* Lemmas.                                                                 *)

\* Nothing has been asked of anybody yet.
LEMMA NoAnswers == <<>> \in Answers /\ DOMAIN <<>> = {}
<1>1. <<>> \in [{} -> Reports] /\ DOMAIN <<>> = {}
  OBVIOUS
<1> QED
  BY <1>1, Zenon DEF Answers

\* The constants that stand for the absence of something have their types.
LEMMA Absences ==
    /\ NoObject \in Objects /\ ~Exists(NoObject)
    /\ NoObject.gen = 0 /\ NoObject.uid = 0
    /\ NoBundle \in Bundles /\ NoBundle.uid = 0
    /\ NoStatus \in Statuses
    /\ NoRound \in Rounds /\ DOMAIN NoRound.answers = {} /\ NoRound.age = Interval
    /\ NoPass.pc = "idle"
<1>1. NoObject \in Objects /\ ~Exists(NoObject) /\ NoObject.gen = 0 /\ NoObject.uid = 0
  BY StatusConstants, Zenon DEF NoObject, Objects, Exists
<1>2. NoBundle \in Bundles /\ NoBundle.uid = 0
  BY StatusConstants, Zenon DEF NoBundle, Bundles
<1>3. AgeCap \in Nat
  BY StatusConstants DEF AgeCap
<1>4. NoStatus \in Statuses
  <2>1. 0 \in 0 .. AgeCap /\ Never \in Never .. CheckMaxAge
    BY <1>3, StatusConstants DEF Never
  <2> QED
    BY <2>1, Zenon DEF NoStatus, Statuses, Words, Reasons
<1>5. Interval \in 0 .. Interval /\ Nowhere \in Ids
  BY StatusConstants DEF Nowhere, Ids
<1>6. NoRound \in Rounds /\ DOMAIN NoRound.answers = {} /\ NoRound.age = Interval
  BY <1>5, NoAnswers, Zenon DEF NoRound, Rounds
<1> QED
  BY <1>1, <1>2, <1>4, <1>6, Zenon DEF NoPass

\* The history of what replicas enforce, in a step of no time.
LEMMA WatchNow ==
    ASSUME SeenInv, Watch(0)
    PROVE  SeenInv' /\ (object' = object => \A p \in Replicas : seen'[p] <= seen[p])
<1>1. Unseen \in Nat /\ seen \in [Replicas -> 0 .. Unseen]
  BY StatusConstants, Zenon DEF Unseen, SeenInv
<1>2. \A p \in Replicas : seen[p] \in 0 .. Unseen
  BY <1>1, Zenon
<1>3. ASSUME NEW p \in Replicas
      PROVE  /\ seen'[p] \in 0 .. Unseen
             /\ Identity(pods'[p]) = Identity(object') => seen'[p] = 0
             /\ object' = object => seen'[p] <= seen[p]
  BY <1>1, <1>2 DEF Watch, Lowest
<1>4. seen' \in [Replicas -> 0 .. Unseen]
  BY <1>3, Zenon DEF Watch
<1> QED
  BY <1>3, <1>4, Zenon DEF SeenInv, Enforces

\* What is known stays known while no object is written.
LEMMA KnownStays ==
    ASSUME object' = object, world'.recreate = world.recreate, NEW x
    PROVE  /\ Known(x) => Known(x)'
           /\ Copied(x) => Copied(x)'
BY Zenon DEF Known, Copied, Used

\* The leader starts over a policy that nothing was said of.
LEMMA StatusStart == ASSUME SInit PROVE StatusInv
<1>1. /\ world \in World /\ object = [name |-> 1, uid |-> 1, gen |-> 1, spec |-> world.spec]
      /\ world.spec \in Specs /\ world.recreate \in Nat
  BY StatusConstants, Zenon DEF SInit, World
<1>2. object \in Objects /\ object.uid = 1 /\ object.gen = 1
  BY <1>1, Zenon DEF Objects
<1>3. pass = NoPass /\ round = NoRound /\ warned = [told |-> {}, again |-> FALSE]
      /\ status = NoStatus /\ saved = NoBundle
      /\ cache = [object |-> object, status |-> NoStatus, current |-> TRUE]
  BY Zenon DEF SInit
<1>4. Used(0) /\ Used(1)
  BY DEF Used
<1>5. ObjectInv
  <2>1. wake \in Never .. Interval
    BY StatusConstants DEF SInit, Never
  <2>2. slices \subseteq Replicas
    BY Zenon DEF SInit, Endpoints
  <2>3. room = TRUE
    BY Zenon DEF SInit
  <2> QED
    BY <1>1, <1>2, <1>4, <2>1, <2>2, <2>3, Zenon DEF ObjectInv, Exists
<1>6. SavedInv(saved)
  BY <1>2, <1>3, <1>4, Absences DEF SavedInv, Copied, Known, Identity
<1>7. PodsInv(pods) /\ SeenInv
  <2>1. \A p \in Replicas : pods[p] \in Pods /\ pods[p].uid = 0 /\ seen[p] = Unseen
    <3> TAKE p \in Replicas
    <3> DEFINE b == p \in world.fleet
    <3>1. b \in BOOLEAN
      OBVIOUS
    <3>2. pods[p] = Pod(b, NoBundle) /\ seen[p] = Unseen
      BY DEF SInit
    <3> HIDE DEF b
    <3>3. NoBundle.uid = 0 /\ NoBundle.uid \in Nat /\ NoBundle.gen \in Nat
      BY Absences, Zenon DEF Bundles
    <3> QED
      BY <3>1, <3>2, <3>3 DEF Pod, Pods
  <2>2. pods \in [Replicas -> Pods]
    BY <2>1, Zenon DEF SInit
  <2>3. seen \in [Replicas -> 0 .. Unseen]
    BY StatusConstants DEF SInit, Unseen
  <2>4. \A p \in Replicas : Known(pods[p]) /\ ~Enforces(pods[p])
    BY <1>2, <1>4, <2>1 DEF Known, Enforces, Identity
  <2> QED
    BY <2>2, <2>3, <2>4, Zenon DEF PodsInv, SeenInv
<1>8. CacheInv(cache)
  <2>1. cache \in Caches /\ cache.object = object /\ cache.status = status
    BY <1>2, <1>3, Absences, Zenon DEF Caches
  <2>2. Copied(object)
    BY <1>2, <1>4 DEF Copied, Known
  <2> QED
    BY <2>1, <2>2, Zenon DEF CacheInv
<1>9. RoundInv(round) /\ PassInv(pass) /\ PassLinked
  BY <1>3, Absences, Zenon DEF RoundInv, AnswersInv, PassInv, PassLinked
<1>10. ToldInv(warned)
  BY <1>3, Zenon DEF ToldInv
<1>11. ClockInv
  BY <1>3, StatusConstants DEF SInit, ClockInv, NoStatus, PropagationReasons, AgeCap
<1>12. CoherentInv
  <2>1. Cardinality(Replicas) \in Nat
    BY StatusConstants, FS_CardinalityType, Zenon
  <2>2. /\ status.applied = 0 /\ status.total = 0 /\ status.active = 0 /\ status.observed = 0
        /\ status.ready = "None" /\ status.accepted = "None"
    BY <1>3, Zenon DEF NoStatus
  <2> QED
    BY <1>2, <1>3, <2>1, <2>2, Absences DEF CoherentInv
<1> QED
  BY <1>5, <1>6, <1>7, <1>8, <1>9, <1>10, <1>11, <1>12, Zenon DEF StatusInv

\* A step that writes neither the object nor its status keeps the invariant when
\* what it leaves is as good, of the object, as what it found.
LEMMA QuietStep ==
    ASSUME StatusInv, Watch(0), object' = object, status' = status,
           world' \in World, world'.recreate = world.recreate,
           room' \in BOOLEAN, slices' \subseteq Replicas, wake' \in Never .. Interval,
           SavedInv(saved'), PodsInv(pods'), CacheInv(cache'), RoundInv(round'),
           PassInv(pass'), PassLinked', warned' = warned, spread' = spread
    PROVE  StatusInv'
<1>1. SeenInv' /\ \A p \in Replicas : seen'[p] <= seen[p]
  BY WatchNow, Zenon DEF StatusInv
<1>2. \A p \in Replicas : seen[p] \in Nat /\ seen'[p] \in Nat
  BY <1>1, StatusConstants DEF SeenInv, StatusInv, Unseen
<1>3. ObjectInv'
  BY Zenon DEF StatusInv, ObjectInv, Used
<1>4. SavedInv(saved)'
  BY KnownStays, Zenon DEF SavedInv
<1>5. PodsInv(pods)'
  BY KnownStays, Zenon DEF PodsInv
<1>6. CacheInv(cache)'
  BY KnownStays, Zenon DEF CacheInv
<1>7. ASSUME NEW answers \in Answers, NEW age \in Nat, AnswersInv(answers, age)
      PROVE  AnswersInv(answers, age)'
  <2>1. DOMAIN answers \subseteq Replicas
    BY Zenon DEF Answers
  <2>2. ASSUME NEW p \in DOMAIN answers
        PROVE  Known(answers[p])' /\ (Enforces(answers[p])' => seen'[p] <= age)
    <3>1. Known(answers[p]) /\ (Enforces(answers[p]) => seen[p] <= age)
      BY <1>7, Zenon DEF AnswersInv
    <3>2. Enforces(answers[p])' => Enforces(answers[p])
      BY Zenon DEF Enforces
    <3> QED
      BY <1>1, <1>2, <2>1, <3>1, <3>2, KnownStays
  <2> QED
    BY <2>2, Zenon DEF AnswersInv
<1>8. RoundInv(round)'
  <2>1. round'.answers \in Answers /\ round'.age \in Nat
    BY StatusConstants DEF RoundInv, Rounds
  <2> QED
    BY <1>7, <2>1, Zenon DEF RoundInv
<1>9. PassInv(pass)'
  <2>1. CASE pass' = NoPass
    BY <2>1, Zenon DEF PassInv
  <2>2. CASE pass' \in Got /\ ReadInv(pass')
    BY <2>2, Zenon DEF PassInv, ReadInv
  <2>3. CASE pass' \in Asks /\ ReadInv(pass') /\ AsksInv(pass')
    <3>1. pass'.answers \in Answers
      BY <2>3, Zenon DEF Asks
    <3>2. AnswersInv(pass.answers, 0)'
      BY <1>7, <2>3, <3>1, Zenon DEF AsksInv
    <3>3. AsksInv(pass)' /\ ReadInv(pass)'
      BY <2>3, <3>2, Zenon DEF AsksInv, ReadInv, Compiled
    <3> QED
      BY <2>3, <3>3, Zenon DEF PassInv
  <2> QED
    BY <2>1, <2>2, <2>3, Zenon DEF PassInv
<1>10. ToldInv(warned)'
  BY KnownStays, Zenon DEF StatusInv, ToldInv, Enforces
<1>11. ClockInv' /\ CoherentInv'
  BY Zenon DEF StatusInv, ClockInv, CoherentInv
<1> QED
  BY <1>1, <1>3, <1>4, <1>5, <1>6, <1>8, <1>9, <1>10, <1>11, Zenon DEF StatusInv

\* What a compilation keeps is of the object, and is the generation compiled
\* unless that one does not compile or has no room.
LEMMA OutcomeTells ==
    ASSUME StatusInv, NEW o \in Objects, Copied(o)
    PROVE  /\ Outcome(o, saved) \in Outcomes
           /\ SavedInv(Outcome(o, saved).bundle)
           /\ Exists(object) /\ o = object => Compiled(Outcome(o, saved))
<1>1. saved \in Bundles /\ Copied(saved) /\ object \in Objects /\ world \in World
  BY Zenon DEF StatusInv, SavedInv, ObjectInv
<1>2. NoBundle \in Bundles /\ NoBundle.gen = 0 /\ Copied(NoBundle)
  BY Absences DEF NoBundle, Copied, Known, Used, Identity, Exists
<1>3. CASE ~Exists(o)
  BY <1>2, <1>3, Zenon DEF Outcome, Outcomes, SavedInv
<1>4. CASE Exists(o)
  <2> DEFINE over == ~room /\ Identity(saved) # Identity(o)
             c == CompileDomain(Build, o, saved, over)
             x == Outcome(o, saved)
             latest == LatestCompiles(Build, o)
             lost == \/ o.spec \in Undefined[Build] /\ saved.gen = o.gen
                     \/ saved.spec \notin Compiles[Build]
  <2>1. x = [compiled |-> c.compiled, tooLarge |-> c.tooLarge, active |-> c.active,
             bundle |-> c.bundle, lost |-> c.lost, uid |-> o.uid]
    BY <1>4, Zenon DEF Outcome
  <2>2. over \in BOOLEAN /\ latest \in BOOLEAN /\ o.uid \in Nat /\ o.gen \in Nat
    BY Zenon DEF LatestCompiles, Objects
  <2>3. c.compiled = latest /\ c.tooLarge = (latest /\ over) /\ c.active = c.bundle.gen
        /\ c.lost \in BOOLEAN
    BY Zenon DEF CompileDomain
  <2>4. \/ latest /\ ~over /\ c.bundle = BundleOf(o)
        \/ ~(latest /\ ~over) /\ c.bundle = NoBundle
        \/ ~(latest /\ ~over) /\ Good(saved, o.uid) /\ ~lost /\ c.bundle = saved
    BY Zenon DEF CompileDomain
  <2> HIDE DEF c
  <2>5. BundleOf(o) \in Bundles /\ Copied(BundleOf(o)) /\ BundleOf(o).gen = o.gen
    BY Zenon DEF BundleOf, Objects, Bundles, Copied, Known, Identity
  <2>6. SavedInv(c.bundle) /\ c.bundle.gen \in Nat
    BY <1>1, <1>2, <2>4, <2>5, Zenon DEF SavedInv, Bundles
  <2>7. x \in Outcomes /\ SavedInv(x.bundle)
    <3>1. c.compiled \in BOOLEAN /\ c.tooLarge \in BOOLEAN /\ c.active \in Nat
          /\ c.bundle \in Bundles
      BY <2>2, <2>3, <2>6, Zenon DEF SavedInv
    <3> QED
      BY <2>1, <2>2, <2>3, <2>6, <3>1 DEF Outcomes
  <2>8. ASSUME Exists(object), o = object
        PROVE  Compiled(x)
    <3>1. o.gen # 0
      BY <2>8, Zenon DEF StatusInv, ObjectInv
    <3>2. Good(saved, o.uid) => saved.gen \in Nat /\ saved.gen <= o.gen
      BY <1>1, <2>8, Zenon DEF Copied, Known, Good, Bundles
    <3>3. Good(saved, o.uid) /\ saved.gen = o.gen => saved.spec = o.spec
      BY <1>1, <2>8, Zenon DEF Copied, Good, Identity
    <3>4. ~latest /\ Good(saved, o.uid) /\ ~lost => saved.gen < o.gen
      BY <2>2, <3>2, <3>3 DEF LatestCompiles
    <3>5. latest /\ ~over => c.active = o.gen
      BY <2>3, <2>4, <2>5, Zenon
    <3>6. c.active <= o.gen /\ (~latest => c.active < o.gen)
      BY <1>2, <2>2, <2>3, <2>4, <2>5, <3>1, <3>2, <3>4
    <3>7. x.uid = o.uid /\ x.compiled = latest /\ x.tooLarge = (latest /\ over)
          /\ x.active = c.active
      BY <2>1, <2>3
    <3> QED
      BY <2>2, <2>8, <3>5, <3>6, <3>7, Zenon DEF Compiled
  <2> QED
    BY <2>7, <2>8, Zenon
<1> QED
  BY <1>3, <1>4, Zenon

\* The writer, the other domains of the namespace and the replicas.
LEMMA SurroundingsStep ==
    ASSUME StatusInv, Watch(0),
           \/ Save \/ Resize
           \/ \E p \in Replicas : Applied(p) \/ Trouble(p) \/ Scale(p)
    PROVE  StatusInv'
<1> USE DEF cluster, leader
<1>1. /\ ObjectInv /\ SavedInv(saved) /\ PodsInv(pods) /\ CacheInv(cache)
      /\ RoundInv(round) /\ PassInv(pass) /\ PassLinked
  BY Zenon DEF StatusInv
<1>2. world \in World /\ room \in BOOLEAN /\ slices \subseteq Replicas
      /\ wake \in Never .. Interval
  BY <1>1, Zenon DEF ObjectInv
<1>3. Known(NoBundle) /\ Known(saved) /\ saved \in Bundles
  <2>1. Known(NoBundle)
    BY Absences DEF Known, Used, Exists
  <2> QED
    BY <1>1, <2>1, Zenon DEF SavedInv, Copied
<1>4. CASE Save
  <2>1. cache.object \in Objects /\ Copied(cache.object)
    BY <1>1, Zenon DEF CacheInv, Caches
  <2>2. SavedInv(saved')
    BY <1>4, <2>1, OutcomeTells, Zenon DEF Save
  <2>3. /\ object' = object /\ status' = status /\ world' = world /\ room' = room
        /\ slices' = slices /\ wake' = wake /\ pods' = pods /\ cache' = cache
        /\ round' = round /\ pass' = pass /\ warned' = warned /\ spread' = spread
    BY <1>4, Zenon DEF Save
  <2>4. PassLinked'
    BY <1>1, <2>3, Zenon DEF PassLinked
  <2> QED
    BY <1>1, <1>2, <2>2, <2>3, <2>4, QuietStep, Zenon
<1>5. CASE Resize
  <2>1. /\ object' = object /\ status' = status /\ saved' = saved
        /\ slices' = slices /\ wake' = wake /\ pods' = pods /\ cache' = cache
        /\ round' = round /\ pass' = pass /\ warned' = warned /\ spread' = spread
    BY <1>5, Zenon DEF Resize
  <2>2. world' \in World /\ world'.recreate = world.recreate
    BY <1>2, <1>5 DEF Resize, World
  <2>3. room' \in BOOLEAN
    BY <1>2, <1>5, Zenon DEF Resize
  <2>4. PassLinked'
    BY <1>1, <2>1, Zenon DEF PassLinked
  <2> QED
    BY <1>1, <1>2, <2>1, <2>2, <2>3, <2>4, QuietStep, Zenon
<1>6. ASSUME NEW p \in Replicas, Applied(p) \/ Trouble(p) \/ Scale(p)
      PROVE  StatusInv'
  <2>1. /\ object' = object /\ status' = status /\ saved' = saved /\ room' = room
        /\ slices' = slices /\ wake' = wake /\ cache' = cache
        /\ round' = round /\ pass' = pass /\ warned' = warned /\ spread' = spread
    BY <1>6, Zenon DEF Applied, Trouble, Scale
  <2>2. world' \in World /\ world'.recreate = world.recreate
    <3>1. CASE Applied(p)
      BY <1>2, <3>1, Zenon DEF Applied
    <3>2. CASE Trouble(p)
      BY <1>2, <3>2 DEF Trouble, World
    <3>3. CASE Scale(p)
      BY <1>2, <3>3 DEF Scale, World
    <3> QED
      BY <1>6, <3>1, <3>2, <3>3, Zenon
  <2>3. \A q \in Replicas : pods[q] \in Pods /\ Known(pods[q])
    BY <1>1, Zenon DEF PodsInv
  <2>4. PICK pod \in Pods : pods' = [pods EXCEPT ![p] = pod] /\ Known(pod)
    <3>1. CASE Applied(p)
      <4> DEFINE pod == [pods[p] EXCEPT !.uid = saved.uid, !.gen = saved.gen,
                                        !.refuses = FALSE]
      <4>1. pod \in Pods /\ pod.uid = saved.uid /\ pod.gen = saved.gen
        BY <1>3, <2>3, Zenon DEF Pods, Bundles
      <4>2. pods' = [pods EXCEPT ![p] = pod]
        BY <1>1, <2>3, <3>1, Zenon DEF Applied, PodsInv, Pods
      <4> QED
        BY <1>3, <4>1, <4>2, Zenon DEF Known
    <3>2. CASE Trouble(p)
      <4>1. CASE pods' = [pods EXCEPT ![p].refuses = TRUE]
        <5> DEFINE pod == [pods[p] EXCEPT !.refuses = TRUE]
        <5>1. pod \in Pods /\ pod.uid = pods[p].uid /\ pod.gen = pods[p].gen
          BY <1>3, <2>3, Zenon DEF Pods
        <5>2. pods' = [pods EXCEPT ![p] = pod]
          BY <1>1, <2>3, <4>1, Zenon DEF PodsInv, Pods
        <5> QED
          BY <1>3, <2>3, <5>1, <5>2, Zenon DEF Known
      <4>2. CASE pods' = [pods EXCEPT ![p].uid = 0, ![p].gen = 0]
        <5> DEFINE pod == [pods[p] EXCEPT !.uid = 0, !.gen = 0]
        <5>1. pod \in Pods /\ pod.uid = 0 /\ pod.gen = 0
          BY <1>3, <2>3, Zenon DEF Pods
        <5>2. pods' = [pods EXCEPT ![p] = pod]
          BY <1>1, <2>3, <4>2, Zenon DEF PodsInv, Pods
        <5>3. Known(pod)
          BY <5>1 DEF Known, Used, Exists
        <5> HIDE DEF pod
        <5> QED
          BY <5>1, <5>2, <5>3, Zenon
      <4>3. CASE pods' = [pods EXCEPT ![p].reach = ~@]
        <5> DEFINE pod == [pods[p] EXCEPT !.reach = ~@]
        <5>1. pod \in Pods /\ pod.uid = pods[p].uid /\ pod.gen = pods[p].gen
          BY <1>3, <2>3, Zenon DEF Pods
        <5>2. pods' = [pods EXCEPT ![p] = pod]
          BY <1>1, <2>3, <4>3, Zenon DEF PodsInv, Pods
        <5> QED
          BY <1>3, <2>3, <5>1, <5>2, Zenon DEF Known
      <4> QED
        BY <3>2, <4>1, <4>2, <4>3, Zenon DEF Trouble
    <3>3. CASE Scale(p)
      <4>1. CASE pods[p].ready
        <5> DEFINE pod == [pods[p] EXCEPT !.ready = FALSE]
        <5>1. pod \in Pods /\ pod.uid = pods[p].uid /\ pod.gen = pods[p].gen
          BY <1>3, <2>3, Zenon DEF Pods
        <5>2. pods' = [pods EXCEPT ![p] = pod]
          BY <1>1, <2>3, <3>3, <4>1, Zenon DEF PodsInv, Pods, Scale
        <5> QED
          BY <1>3, <2>3, <5>1, <5>2, Zenon DEF Known
      <4>2. CASE ~pods[p].ready
        <5> DEFINE pod == Pod(TRUE, saved)
        <5>1. pod \in Pods /\ pod.uid = saved.uid /\ pod.gen = saved.gen
          BY <1>3, <2>3, Zenon DEF Pods, Pod, Bundles
        <5>2. pods' = [pods EXCEPT ![p] = pod]
          BY <1>1, <2>3, <3>3, <4>2, Zenon DEF PodsInv, Pods, Scale
        <5> QED
          BY <1>3, <2>3, <5>1, <5>2, Zenon DEF Known
      <4> QED
        BY <4>1, <4>2, Zenon
    <3> QED
      BY <1>6, <3>1, <3>2, <3>3, Zenon
  <2>5. PodsInv(pods')
    BY <1>1, <2>3, <2>4, Zenon DEF PodsInv
  <2>6. PassLinked'
    BY <1>1, <2>1, Zenon DEF PassLinked
  <2> QED
    BY <1>1, <1>2, <2>1, <2>2, <2>5, <2>6, QuietStep, Zenon
<1> QED
  BY <1>4, <1>5, <1>6, Zenon

\* A compilation's answers are not in yet: the asking, from the reconcile it
\* belongs to.
LEMMA AskingStarts ==
    ASSUME StatusInv, NEW x, NEW y, y = Asking(y.own, y.reuse, y.asked, x),
           y.own \in BOOLEAN, y.reuse \in BOOLEAN, y.asked \in SUBSET Replicas,
           x.object \in Objects, x.before \in Statuses, x.current \in BOOLEAN, ReadInv(x),
           x.current => y.own /\ cache.object = object
    PROVE  PassInv(y) /\ y.current = x.current /\ (Fresh(y) <=> Fresh(x))
<1> DEFINE o == Outcome(cache.object, saved)
<1>1. cache.object \in Objects /\ Copied(cache.object) /\ object \in Objects
  BY Zenon DEF StatusInv, CacheInv, Caches, ObjectInv
<1>2. o \in Outcomes /\ (Exists(object) /\ cache.object = object => Compiled(o))
  BY <1>1, OutcomeTells, Zenon
<1> HIDE DEF o
<1>3. Identity(object) \in Ids
  BY <1>1, Zenon DEF Identity, Ids, Objects
<1>4. y = [pc |-> "ask", own |-> y.own, object |-> x.object, before |-> x.before,
           current |-> x.current, outcome |-> o, reuse |-> y.reuse, asked |-> y.asked,
           left |-> y.asked, answers |-> <<>>, since |-> Identity(object)]
  BY Zenon DEF Asking, o
<1>5. y \in Asks
  <2>1. /\ y.pc = "ask" /\ y.own \in BOOLEAN /\ y.object \in Objects /\ y.before \in Statuses
        /\ y.current \in BOOLEAN /\ y.outcome \in Outcomes /\ y.reuse \in BOOLEAN
        /\ y.asked \in SUBSET Replicas /\ y.left \in SUBSET Replicas
        /\ y.answers \in Answers /\ y.since \in Ids
    BY <1>2, <1>3, <1>4, NoAnswers
  <2>2. y = [pc |-> y.pc, own |-> y.own, object |-> y.object, before |-> y.before,
             current |-> y.current, outcome |-> y.outcome, reuse |-> y.reuse,
             asked |-> y.asked, left |-> y.left, answers |-> y.answers, since |-> y.since]
    BY <1>4, Zenon
  <2> QED
    BY <2>1, <2>2, Zenon DEF Asks
<1>6. ReadInv(y)
  BY <1>4 DEF ReadInv
<1>7. AsksInv(y)
  <2>1. DOMAIN y.answers = {} /\ y.left = y.asked
    BY <1>4, NoAnswers
  <2>2. AnswersInv(y.answers, 0)
    BY <2>1, Zenon DEF AnswersInv
  <2>4. y.current => y.own /\ Compiled(y.outcome) /\ y.since = Identity(object)
    BY <1>2, <1>4 DEF ReadInv
  <2> QED
    BY <2>1, <2>2, <2>4, Zenon DEF AsksInv
<1>8. Fresh(y) <=> Fresh(x)
  <2>1. y.object = x.object /\ y.before = x.before
    BY <1>4
  <2> QED
    BY <2>1, Zenon DEF Fresh
<1> QED
  BY <1>4, <1>5, <1>6, <1>7, <1>8 DEF PassInv

\* The round that a reconcile leaves: the one it took, or the one it found.
LEMMA RoundKept ==
    ASSUME RoundInv(round), pass \in Asks, AsksInv(pass)
    PROVE  RoundInv(RoundUsed)
<1>1. CASE pass.reuse
  BY <1>1, Zenon DEF RoundUsed
<1>2. CASE ~pass.reuse
  <2>1. pass.asked \in SUBSET Replicas /\ pass.answers \in Answers /\ pass.since \in Ids
    BY Zenon DEF Asks
  <2> DEFINE r == RoundUsed
  <2>2. r = [age |-> 0, endpoints |-> pass.asked, answers |-> pass.answers,
             err |-> pass.asked # {} /\ DOMAIN pass.answers = {}, since |-> pass.since]
    BY <1>2, Zenon DEF RoundUsed, RoundOf
  <2>3. r.age = 0 /\ r.endpoints = pass.asked /\ r.answers = pass.answers
    BY <2>2, Zenon
  <2>4. r \in Rounds
    BY <2>1, <2>2, StatusConstants DEF Rounds
  <2> HIDE DEF r
  <2>5. RoundInv(r)
    BY <2>3, <2>4, Zenon DEF RoundInv, AsksInv
  <2> QED
    BY <2>5, Zenon DEF r
<1> QED
  BY <1>1, <1>2, Zenon

\* No reconcile is under way.
LEMMA NoPassLinked == pass' = NoPass => PassInv(pass') /\ PassLinked'
BY DEF PassInv, PassLinked, NoPass

\* The steps of the reconciler that write no status.
LEMMA ReconcilerStep ==
    ASSUME StatusInv, Watch(0),
           \/ Get \/ CompileAndObserve \/ LoadFails \/ ListFails \/ Elsewhere
           \/ FinishElsewhere \/ \E p \in Replicas : Ask(p)
    PROVE  StatusInv'
<1> USE DEF cluster
<1>1. /\ ObjectInv /\ SavedInv(saved) /\ PodsInv(pods) /\ CacheInv(cache)
      /\ RoundInv(round) /\ PassInv(pass) /\ PassLinked
  BY Zenon DEF StatusInv
<1>2. world \in World /\ room \in BOOLEAN /\ slices \subseteq Replicas
      /\ wake \in Never .. Interval
  BY <1>1, Zenon DEF ObjectInv
<1>3. /\ object' = object /\ status' = status /\ saved' = saved /\ room' = room
      /\ pods' = pods /\ cache' = cache /\ slices' = slices /\ wake' = wake
      /\ warned' = warned /\ spread' = spread
  BY Zenon DEF Get, CompileAndObserve, LoadFails, ListFails, Elsewhere, FinishElsewhere, Ask
<1>4. world' \in World /\ world'.recreate = world.recreate
  <2>1. CASE LoadFails \/ ListFails \/ Elsewhere
    <3>1. \/ world' = [world EXCEPT !.lost = @ - 1] /\ world.lost > 0
          \/ world' = [world EXCEPT !.others = @ - 1] /\ world.others > 0
      BY <2>1, Zenon DEF LoadFails, ListFails, Elsewhere
    <3> QED
      BY <1>2, <3>1 DEF World
  <2>2. CASE ~(LoadFails \/ ListFails \/ Elsewhere)
    BY <1>2, <2>2, Zenon DEF Get, CompileAndObserve, FinishElsewhere, Ask
  <2> QED
    BY <2>1, <2>2, Zenon
<1>5. SUFFICES RoundInv(round') /\ PassInv(pass') /\ PassLinked'
  BY <1>1, <1>2, <1>3, <1>4, QuietStep, Zenon
<1>6. CASE pass' = NoPass /\ round' = round
  BY <1>1, <1>6, Zenon DEF PassInv, PassLinked, NoPass
<1>7. CASE Get
  <2>1. CASE Exists(cache.object)
    <3>1. cache.object \in Objects /\ cache.status \in Statuses /\ cache.current \in BOOLEAN
          /\ (cache.current => cache.object = object /\ cache.status = status)
      BY <1>1, Zenon DEF CacheInv, Caches
    <3>2. pass' = [pc |-> "got", object |-> cache.object, before |-> cache.status,
                   current |-> cache.current] /\ round' = round
      BY <1>7, <2>1, Zenon DEF Get
    <3>3. pass' \in Got /\ ReadInv(pass')
      BY <2>1, <3>1, <3>2, Zenon DEF Got, ReadInv
    <3>4. PassLinked'
      BY <1>3, <3>1, <3>2, Zenon DEF PassLinked
    <3> QED
      BY <1>1, <3>2, <3>3, <3>4, Zenon DEF PassInv
  <2>2. CASE ~Exists(cache.object)
    BY <1>1, <1>3, <1>7, <2>2, Zenon DEF Get, PassLinked
  <2> QED
    BY <2>1, <2>2, Zenon
<1>8. CASE CompileAndObserve
  <2>1. pass \in Got /\ ReadInv(pass)
    BY <1>1, <1>8 DEF CompileAndObserve, PassInv, NoPass, Asks
  <2>2. /\ pass.object \in Objects /\ pass.before \in Statuses /\ pass.current \in BOOLEAN
        /\ pass.pc = "got"
    BY <2>1, Zenon DEF Got
  <2>3. pass.current => cache.object = object
    BY <1>1, <2>2, Zenon DEF PassLinked
  <2>4. PICK reuse \in BOOLEAN, asked \in SUBSET Replicas :
           /\ pass' = Asking(TRUE, reuse, asked, pass)
           /\ reuse => ~Fresh(pass) /\ round.age < Interval
    <3>1. CASE Reused(Fresh(pass))
      <4>2. pass' = Asking(TRUE, TRUE, {}, pass)
        BY <1>8, <3>1, Zenon DEF CompileAndObserve
      <4>3. {} \in SUBSET Replicas
        BY Zenon
      <4> QED
        BY <3>1, <4>2, <4>3, Zenon DEF Reused
    <3>2. CASE ~Reused(Fresh(pass))
      <4>2. pass' = Asking(TRUE, FALSE, slices, pass)
        BY <1>8, <3>2, Zenon DEF CompileAndObserve
      <4> QED
        BY <1>2, <4>2, Zenon
    <3> QED
      BY <3>1, <3>2, Zenon
  <2>8. pass'.own = TRUE /\ pass'.reuse = reuse /\ pass'.asked = asked /\ pass'.pc = "ask"
    BY <2>4, Zenon DEF Asking
  <2>9. pass' = Asking(pass'.own, pass'.reuse, pass'.asked, pass)
    BY <2>4, <2>8, Zenon
  <2>5. PassInv(pass') /\ pass'.current = pass.current /\ (Fresh(pass') <=> Fresh(pass))
    BY <2>1, <2>2, <2>3, <2>4, <2>8, <2>9, AskingStarts, Zenon
  <2>6. round' = round
    BY <1>8, Zenon DEF CompileAndObserve
  <2>7. PassLinked'
    BY <1>3, <2>3, <2>4, <2>5, <2>6, <2>8, Zenon DEF PassLinked
  <2> QED
    BY <1>1, <2>5, <2>6, <2>7, Zenon
<1>9. CASE Elsewhere
  <2> DEFINE x == [object |-> NoObject, before |-> NoStatus, current |-> FALSE]
  <2>1. x.object \in Objects /\ x.before \in Statuses /\ x.current = FALSE /\ ReadInv(x)
    BY Absences, Zenon DEF ReadInv
  <2>3. pass' = Asking(FALSE, FALSE, slices, x)
    BY <1>9, Zenon DEF Elsewhere
  <2> HIDE DEF x
  <2>6. pass'.own = FALSE /\ pass'.reuse = FALSE /\ pass'.asked = slices
    BY <2>3, Zenon DEF Asking
  <2>7. pass' = Asking(pass'.own, pass'.reuse, pass'.asked, x)
    BY <2>3, <2>6, Zenon
  <2>4. PassInv(pass') /\ pass'.current = FALSE
    BY <1>2, <2>1, <2>6, <2>7, AskingStarts, Zenon
  <2>5. round' = round
    BY <1>9, Zenon DEF Elsewhere
  <2> QED
    BY <1>1, <2>4, <2>5, <2>6, Zenon DEF PassLinked
<1>10. CASE FinishElsewhere
  <2>1. pass \in Asks /\ AsksInv(pass)
    BY <1>1, <1>10 DEF FinishElsewhere, PassInv, NoPass, Got
  <2>2. RoundInv(RoundUsed)
    BY <1>1, <2>1, RoundKept, Zenon
  <2> QED
    BY <1>10, <2>2, NoPassLinked, Zenon DEF FinishElsewhere
<1>11. ASSUME NEW p \in Replicas, Ask(p)
       PROVE  RoundInv(round') /\ PassInv(pass') /\ PassLinked'
  <2>1. pass \in Asks /\ AsksInv(pass) /\ ReadInv(pass)
    <3>1. pass.pc = "ask"
      BY <1>11, Zenon DEF Ask
    <3> QED
      BY <1>1, <3>1 DEF PassInv, NoPass, Got
  <2> DEFINE said == IF pods[p].reach
                       THEN [q \in DOMAIN pass.answers \cup {p} |->
                               IF q = p THEN Report(p) ELSE pass.answers[q]]
                       ELSE pass.answers
  <2>2. pass' = [pass EXCEPT !.left = pass.left \ {p}, !.answers = said]
    BY <1>11, Zenon DEF Ask
  <2>3. pass.answers \in Answers /\ pass.left \in SUBSET Replicas
        /\ pass.left \subseteq pass.asked /\ DOMAIN pass.answers \subseteq pass.asked
        /\ AnswersInv(pass.answers, 0) /\ p \in pass.asked /\ pass.asked \in SUBSET Replicas
    BY <1>11, <2>1, Zenon DEF Asks, AsksInv, Ask
  <2>4. Report(p) \in Reports /\ Known(Report(p)) /\ (Enforces(Report(p)) => seen[p] = 0)
    <3>1. pods[p] \in Pods /\ Known(pods[p]) /\ (Enforces(pods[p]) => seen[p] = 0)
      BY <1>1, Zenon DEF StatusInv, PodsInv, SeenInv
    <3> QED
      BY <3>1, Zenon DEF Report, Reports, Pods, Known, Enforces, Identity
  <2>5. said \in Answers /\ DOMAIN said \subseteq pass.asked /\ AnswersInv(said, 0)
    <3>1. CASE ~pods[p].reach
      BY <2>3, <3>1, Zenon
    <3>2. CASE pods[p].reach
      <4>1. said = [q \in DOMAIN pass.answers \cup {p} |->
                      IF q = p THEN Report(p) ELSE pass.answers[q]]
        BY <3>2, Zenon
      <4>2. DOMAIN pass.answers \in SUBSET Replicas
            /\ pass.answers \in [DOMAIN pass.answers -> Reports]
        BY <2>3, Zenon DEF Answers
      <4>3. DOMAIN said = DOMAIN pass.answers \cup {p}
            /\ \A q \in DOMAIN said : said[q] = IF q = p THEN Report(p) ELSE pass.answers[q]
        BY <4>1
      <4>4. said \in [DOMAIN pass.answers \cup {p} -> Reports]
        BY <2>4, <4>1, <4>2
      <4>5. said \in Answers
        BY <4>2, <4>4, Zenon DEF Answers
      <4> HIDE DEF said
      <4>6. AnswersInv(said, 0)
        BY <2>3, <2>4, <4>3 DEF AnswersInv
      <4> QED
        BY <2>3, <4>3, <4>5, <4>6, Zenon
    <3> QED
      BY <3>1, <3>2, Zenon
  <2> HIDE DEF said
  <2>6. /\ pass' \in Asks /\ pass'.left = pass.left \ {p} /\ pass'.answers = said
        /\ pass'.asked = pass.asked /\ pass'.current = pass.current /\ pass'.own = pass.own
        /\ pass'.object = pass.object /\ pass'.before = pass.before
        /\ pass'.outcome = pass.outcome /\ pass'.since = pass.since
        /\ pass'.reuse = pass.reuse /\ pass'.pc = "ask"
    BY <2>1, <2>2, <2>3, <2>5, Zenon DEF Asks
  <2>7. ReadInv(pass') /\ AsksInv(pass')
    BY <2>1, <2>3, <2>5, <2>6, Zenon DEF ReadInv, AsksInv, Fresh
  <2>8. round' = round /\ pass.pc = "ask"
    BY <1>11, Zenon DEF Ask
  <2> QED
    BY <1>1, <1>3, <2>6, <2>7, <2>8, Zenon DEF PassInv, PassLinked, Fresh
<1>12. CASE LoadFails
  BY <1>6, <1>12, Zenon DEF LoadFails
<1>13. CASE ListFails
  <2>1. RoundInv(round') /\ round'.age < Interval /\ round'.since = Identity(object)
    <3>1. object \in Objects
      BY <1>1, Zenon DEF ObjectInv
    <3>2. Identity(object) \in Ids /\ 0 \in 0 .. Interval /\ 0 < Interval
      BY <3>1, StatusConstants DEF Identity, Ids, Objects
    <3>3. /\ round' \in Rounds /\ round'.age = 0 /\ round'.answers = <<>>
          /\ round'.since = Identity(object)
      BY <1>13, <3>2, NoAnswers, Zenon DEF ListFails, Unlisted, Rounds
    <3> QED
      BY <3>2, <3>3, NoAnswers, Zenon DEF RoundInv, AnswersInv
  <2>2. CASE pass.pc = "idle" /\ pass' = pass
    BY <1>1, <2>1, <2>2, Zenon DEF PassLinked
  <2>3. CASE pass.pc = "got" /\ pass' = Asking(TRUE, TRUE, {}, pass)
    <3>1. pass \in Got /\ ReadInv(pass)
      BY <1>1, <2>3 DEF PassInv, NoPass, Asks
    <3>2. /\ pass.object \in Objects /\ pass.before \in Statuses /\ pass.current \in BOOLEAN
          /\ (pass.current => cache.object = object)
      BY <1>1, <2>3, <3>1, Zenon DEF Got, PassLinked
    <3>3. pass'.own = TRUE /\ pass'.reuse = TRUE /\ pass'.asked = {} /\ pass'.pc = "ask"
      BY <2>3, Zenon DEF Asking
    <3>4. pass' = Asking(pass'.own, pass'.reuse, pass'.asked, pass)
      BY <2>3, <3>3, Zenon
    <3>5. PassInv(pass') /\ pass'.current = pass.current
      BY <3>1, <3>2, <3>3, <3>4, AskingStarts, Zenon
    <3>6. PassLinked'
      BY <1>3, <2>1, <3>2, <3>5, Zenon DEF PassLinked
    <3> QED
      BY <2>1, <3>5, <3>6, Zenon
  <2> QED
    BY <1>13, <2>2, <2>3, Zenon DEF ListFails
<1> QED
  BY <1>7, <1>8, <1>9, <1>10, <1>11, <1>12, <1>13, Zenon

\* The informers, the delayed queue and the change of leaders.
LEMMA LeaderStep ==
    ASSUME StatusInv, Watch(0), Deliver \/ DeliverSlices \/ Wake \/ NewLeader
    PROVE  StatusInv'
<1> USE DEF cluster
<1>1. /\ ObjectInv /\ SavedInv(saved) /\ PodsInv(pods) /\ CacheInv(cache)
      /\ RoundInv(round) /\ PassInv(pass) /\ PassLinked
  BY Zenon DEF StatusInv
<1>2. /\ world \in World /\ room \in BOOLEAN /\ slices \subseteq Replicas
      /\ wake \in Never .. Interval /\ object \in Objects /\ status \in Statuses
  BY <1>1, Zenon DEF StatusInv, ObjectInv, CoherentInv
<1>3. /\ object' = object /\ status' = status /\ saved' = saved /\ room' = room
      /\ pods' = pods /\ warned' = warned /\ spread' = spread
  BY Zenon DEF Deliver, DeliverSlices, Wake, NewLeader
<1>4. world' \in World /\ world'.recreate = world.recreate
  BY <1>2 DEF Deliver, DeliverSlices, Wake, NewLeader, World
<1>5. slices' \subseteq Replicas /\ wake' \in Never .. Interval
  BY <1>2, StatusConstants DEF Deliver, DeliverSlices, Wake, NewLeader, Endpoints, Never
<1>6. CacheInv(cache')
  <2>1. CASE cache' = [object |-> object, status |-> status, current |-> TRUE]
    <3>1. cache' \in Caches /\ cache'.object = object /\ cache'.status = status
      BY <1>2, <2>1, Zenon DEF Caches
    <3>2. Copied(object)
      BY <1>1, <1>2 DEF Copied, Known, ObjectInv, Objects
    <3> QED
      BY <3>1, <3>2, Zenon DEF CacheInv
  <2>2. CASE cache' = cache
    BY <1>1, <2>2, Zenon
  <2> QED
    BY <2>1, <2>2, Zenon DEF Deliver, DeliverSlices, Wake, NewLeader
<1>7. RoundInv(round')
  BY <1>1, Absences, Zenon DEF Deliver, DeliverSlices, Wake, NewLeader, RoundInv, AnswersInv
<1>8. PassInv(pass') /\ PassLinked'
  <2>1. CASE NewLeader
    BY <2>1, NoPassLinked, Zenon DEF NewLeader
  <2>2. CASE Deliver \/ DeliverSlices \/ Wake
    <3>1. pass' = pass /\ round' = round /\ (cache' = cache \/ cache'.object = object)
      BY <2>2 DEF Deliver, DeliverSlices, Wake
    <3> QED
      BY <1>1, <1>3, <3>1, Zenon DEF PassLinked
  <2> QED
    BY <2>1, <2>2, Zenon
<1> QED
  BY <1>1, <1>2, <1>3, <1>4, <1>5, <1>6, <1>7, <1>8, QuietStep, Zenon

\* An edit is another generation of the same object.
LEMMA EditMoves ==
    ASSUME ObjectInv, Edit
    PROVE  object' \in Objects /\ object'.uid = object.uid /\ object'.gen = object.gen + 1
<1>1. object' = [object EXCEPT !.spec = world.next, !.gen = object.gen + 1]
  BY Zenon DEF Edit
<1> DEFINE next == world.next
      gen == object.gen + 1
<1>2. next \in Specs /\ gen \in Nat
  BY DEF ObjectInv, Objects, World
<1>3. object' = [object EXCEPT !.spec = next, !.gen = gen] /\ object \in Objects
  BY <1>1, Zenon DEF ObjectInv
<1> HIDE DEF next, gen
<1>4. object' \in Objects /\ object'.uid = object.uid /\ object'.gen = gen
  BY <1>2, <1>3, Zenon DEF Objects
<1> QED
  BY <1>4, Zenon DEF gen

\* When an object is written nothing that was read before is of it as it
\* stands, for UIDs and generations are not used again.
LEMMA ObjectMoves ==
    ASSUME StatusInv, Edit \/ Delete \/ Create
    PROVE  /\ ObjectInv'
           /\ \A x : Known(x) /\ x.gen \in Nat /\ x.uid \in Nat => Known(x)' /\ ~Enforces(x)'
<1>1. ObjectInv
  BY Zenon DEF StatusInv
<1>2. /\ world \in World /\ object \in Objects /\ Used(object.uid)
      /\ (Exists(object) <=> object.gen # 0)
  BY <1>1, Zenon DEF ObjectInv
<1>3. object.uid \in Nat /\ object.gen \in Nat /\ world.recreate \in Nat /\ world.next \in Specs
  BY <1>2, Zenon DEF Objects, World
<1>4. room' = room /\ slices' = slices /\ wake' = wake
  BY Zenon DEF Edit, Delete, Create
<1>5. CASE Edit
  <2>1. world' \in World /\ world'.recreate = world.recreate
    BY <1>2, <1>5 DEF Edit, World
  <2>2. object' \in Objects /\ object'.uid = object.uid /\ object'.gen = object.gen + 1
    BY <1>1, <1>5, EditMoves, Zenon
  <2>3. Exists(object)
    BY <1>5, Zenon DEF Edit
  <2>4. ObjectInv'
    BY <1>1, <1>2, <1>3, <1>4, <2>1, <2>2, <2>3 DEF ObjectInv, Used, Exists
  <2>5. ASSUME NEW x, Known(x), x.gen \in Nat, x.uid \in Nat
        PROVE  Known(x)' /\ ~Enforces(x)'
    <3>1. Used(x.uid)' /\ (x.uid = object.uid => x.gen <= object.gen)
      BY <2>1, <2>3, <2>5, Zenon DEF Known, Used
    <3>2. x.uid = object'.uid => x.gen < object'.gen
      BY <1>3, <2>2, <2>5, <3>1
    <3>3. Identity(x)' # Identity(object')
      BY <1>3, <2>2, <2>5, <3>2, SMTT(60) DEF Identity
    <3> QED
      BY <1>3, <2>2, <2>5, <3>1, <3>2, <3>3 DEF Known, Enforces
  <2> QED
    BY <2>4, <2>5, Zenon
<1>6. CASE Delete
  <2>1. world' = world /\ object' = NoObject
    BY <1>6, Zenon DEF Delete
  <2>2. ObjectInv'
    BY <1>1, <1>4, <2>1, Absences DEF ObjectInv, Used
  <2>3. ~Exists(object)'
    BY <2>1, Absences, Zenon DEF Exists
  <2> QED
    BY <2>1, <2>2, <2>3, Zenon DEF Known, Used, Enforces
<1>7. CASE Create
  <2>1. world.recreate > 0 /\ world' \in World /\ world'.recreate = world.recreate - 1
    BY <1>2, <1>3, <1>7 DEF Create, World
  <2>2. object' \in Objects /\ object'.uid = world.recreate + 1 /\ object'.gen = 1
    BY <1>3, <1>7 DEF Create, Objects
  <2>3. ObjectInv'
    BY <1>1, <1>3, <1>4, <2>1, <2>2 DEF ObjectInv, Used, Exists
  <2>4. ASSUME NEW x, Known(x), x.gen \in Nat, x.uid \in Nat
        PROVE  Known(x)' /\ ~Enforces(x)'
    <3>1. x.uid <= 1 \/ x.uid >= world.recreate + 2
      BY <2>4, Zenon DEF Known, Used
    <3>2. Used(x.uid)' /\ x.uid # object'.uid
      BY <1>3, <2>1, <2>2, <2>4, <3>1 DEF Used
    <3> QED
      BY <3>2, Zenon DEF Known, Enforces, Identity
  <2> QED
    BY <2>3, <2>4
<1> QED
  BY <1>5, <1>6, <1>7, Zenon

\* The object is edited, deleted or created again.
LEMMA ObjectStep ==
    ASSUME StatusInv, Watch(0), Edit \/ Delete \/ Create
    PROVE  StatusInv'
<1>1. /\ ObjectInv /\ SavedInv(saved) /\ PodsInv(pods) /\ SeenInv /\ CacheInv(cache)
      /\ RoundInv(round) /\ PassInv(pass) /\ PassLinked /\ ToldInv(warned) /\ ClockInv
      /\ CoherentInv
  BY Zenon DEF StatusInv
<1>2. ObjectInv' /\ \A x : Known(x) /\ x.gen \in Nat /\ x.uid \in Nat
                           => Known(x)' /\ ~Enforces(x)'
  BY ObjectMoves, Zenon
<1>3. /\ saved' = saved /\ pods' = pods /\ round' = round /\ warned' = warned
      /\ Touched
  BY Zenon DEF Edit, Delete, Create
<1>4. ASSUME NEW x, Copied(x), x.gen \in Nat, x.uid \in Nat
      PROVE  Copied(x)'
  BY <1>2, <1>4, Zenon DEF Copied, Enforces
<1>5. SavedInv(saved)'
  BY <1>1, <1>3, <1>4, Zenon DEF SavedInv, Bundles
<1>6. PodsInv(pods)'
  <2>1. \A p \in Replicas : pods[p].gen \in Nat /\ pods[p].uid \in Nat
    BY <1>1, Zenon DEF PodsInv, Pods
  <2> QED
    BY <1>1, <1>2, <1>3, <2>1, Zenon DEF PodsInv
<1>7. SeenInv'
  BY <1>1, WatchNow, Zenon
<1>8. CacheInv(cache)'
  <2>1. cache \in Caches /\ cache.object \in Objects /\ Copied(cache.object)
    BY <1>1, Zenon DEF CacheInv, Caches
  <2>2. cache' \in Caches /\ cache'.object = cache.object /\ cache'.current = FALSE
    BY <1>3, <2>1, Zenon DEF Touched, Caches
  <2>3. cache.object.gen \in Nat /\ cache.object.uid \in Nat
    BY <2>1, Zenon DEF Objects
  <2>4. Copied(cache.object)'
    <3> DEFINE x == cache.object
    <3>1. Copied(x) /\ x.gen \in Nat /\ x.uid \in Nat
      BY <2>1, <2>3, Zenon
    <3> QED
      BY <1>2, <2>1, <2>2, <2>3, Zenon DEF Copied, Enforces, Known, Identity
  <2> QED
    BY <2>2, <2>4, Zenon DEF CacheInv
<1>9. ASSUME NEW answers \in Answers, NEW age, AnswersInv(answers, age)
      PROVE  AnswersInv(answers, age)'
  <2>1. \A p \in DOMAIN answers : answers[p] \in Reports
    BY Zenon DEF Answers
  <2>2. \A p \in DOMAIN answers : answers[p].gen \in Nat /\ answers[p].uid \in Nat
    BY <2>1, Zenon DEF Reports
  <2> QED
    BY <1>2, <1>9, <2>2, Zenon DEF AnswersInv
<1>10. RoundInv(round)'
  <2>1. round.answers \in Answers
    BY <1>1, Zenon DEF RoundInv, Rounds
  <2> QED
    BY <1>1, <1>3, <1>9, <2>1, Zenon DEF RoundInv
<1>11. PassInv(pass)' /\ PassLinked'
  <2>1. CASE pass = NoPass
    BY <1>3, <2>1, NoPassLinked, Zenon DEF Touched, NoPass, PassInv
  <2>2. CASE pass \in Got
    <3>1. pass' \in Got /\ pass'.current = FALSE /\ pass'.pc = "got"
      BY <1>3, <2>2, Zenon DEF Touched, Got
    <3> QED
      BY <3>1, Zenon DEF PassInv, PassLinked, ReadInv
  <2>3. CASE pass \in Asks /\ AsksInv(pass)
    <3>1. /\ pass' \in Asks /\ pass'.current = FALSE /\ pass'.pc = "ask"
          /\ pass'.left = pass.left /\ pass'.asked = pass.asked
          /\ pass'.answers = pass.answers /\ pass'.reuse = pass.reuse
      BY <1>3, <2>3, Zenon DEF Touched, Asks
    <3>2. pass.answers \in Answers /\ pass.pc = "ask"
      BY <2>3, Zenon DEF Asks
    <3>3. AnswersInv(pass.answers, 0)'
      BY <1>9, <2>3, <3>1, <3>2, Zenon DEF AsksInv
    <3>4. AsksInv(pass)' /\ ReadInv(pass)'
      BY <2>3, <3>1, <3>3, Zenon DEF AsksInv, ReadInv
    <3> QED
      BY <1>1, <1>3, <3>1, <3>2, <3>4, Zenon DEF PassInv, PassLinked
  <2> QED
    BY <1>1, <2>1, <2>2, <2>3, Zenon DEF PassInv
<1>12. ToldInv(warned)'
  BY <1>1, <1>2, <1>3, Zenon DEF ToldInv, Ids
<1>13. ClockInv' /\ CoherentInv'
  <2>1. CASE Delete
    <3>1. status' = NoStatus /\ spread' = 0 /\ object' = NoObject
      BY <2>1, Zenon DEF Delete
    <3>2. Cardinality(Replicas) \in Nat
      BY StatusConstants, FS_CardinalityType, Zenon
    <3>3. ClockInv'
      BY <3>1, StatusConstants DEF ClockInv, NoStatus, PropagationReasons, AgeCap
    <3>4. CoherentInv'
      BY <3>1, <3>2, Absences DEF CoherentInv, NoStatus
    <3> QED
      BY <3>3, <3>4, Zenon
  <2>2. CASE Edit \/ Create
    <3>1. status' = status /\ spread' = spread
      BY <2>2, Zenon DEF Edit, Create
    <3>2. object'.gen \in Nat /\ object.gen <= object'.gen /\ object.gen \in Nat
      <4>1. object.gen \in Nat /\ object'.gen \in Nat /\ (Exists(object) <=> object.gen # 0)
        BY <1>1, <1>2, Zenon DEF ObjectInv, Objects
      <4>2. CASE Edit
        BY <1>1, <4>1, <4>2, EditMoves
      <4>3. CASE Create
        BY <4>1, <4>3 DEF Create
      <4> QED
        BY <2>2, <4>1, <4>2, <4>3, Zenon
    <3>3. status.observed \in Nat
      BY <1>1, Zenon DEF CoherentInv, Statuses
    <3> QED
      BY <1>1, <3>1, <3>2, <3>3 DEF ClockInv, CoherentInv
  <2> QED
    BY <2>1, <2>2, Zenon
<1> QED
  BY <1>2, <1>5, <1>6, <1>7, <1>8, <1>10, <1>11, <1>12, <1>13, Zenon DEF StatusInv

-----------------------------------------------------------------------------
(* Time, and the end of a reconcile.                                       *)

\* A status grows older and says the same.
LEMMA OlderTells ==
    ASSUME status \in Statuses
    PROVE  /\ Older(status) \in Statuses
           /\ Older(status).age <= status.age + 1 /\ Older(status).age <= AgeCap
           /\ \A f \in {"observed", "active", "accepted", "ready", "reason", "stalled",
                        "total", "applied"} : Older(status)[f] = status[f]
<1> DEFINE age == Lowest(status.age + 1, AgeCap)
           check == IF status.check = Never THEN Never
                    ELSE Lowest(status.check + 1, CheckMaxAge)
<1>1. AgeCap \in Nat /\ CheckMaxAge \in Nat
  BY StatusConstants DEF AgeCap
<1>2. status.age \in 0 .. AgeCap /\ status.check \in Never .. CheckMaxAge
  BY Zenon DEF Statuses
<1>3. age \in 0 .. AgeCap /\ age <= status.age + 1 /\ age <= AgeCap
  BY <1>1, <1>2 DEF Lowest
<1>4. check \in Never .. CheckMaxAge
  BY <1>1, <1>2 DEF Lowest, Never
<1>5. Older(status) = [status EXCEPT !.age = age, !.check = check]
  BY Zenon DEF Older
<1> HIDE DEF age, check
<1>6. Older(status) \in Statuses /\ Older(status).age = age
  BY <1>3, <1>4, <1>5, Zenon DEF Statuses
<1>7. /\ Older(status).observed = status.observed /\ Older(status).active = status.active
      /\ Older(status).accepted = status.accepted /\ Older(status).ready = status.ready
      /\ Older(status).reason = status.reason /\ Older(status).stalled = status.stalled
      /\ Older(status).total = status.total /\ Older(status).applied = status.applied
  BY <1>5, Zenon DEF Statuses
<1> QED
  BY <1>3, <1>6, <1>7, Zenon

\* A tick makes every moment one older.
LEMMA TickStep == ASSUME StatusInv, Watch(1), Tick PROVE StatusInv'
<1>1. /\ ObjectInv /\ SavedInv(saved) /\ PodsInv(pods) /\ SeenInv /\ CacheInv(cache)
      /\ RoundInv(round) /\ PassInv(pass) /\ PassLinked /\ ToldInv(warned) /\ ClockInv
      /\ CoherentInv
  BY Zenon DEF StatusInv
<1>2. /\ world' = world /\ object' = object /\ saved' = saved /\ room' = room
      /\ pods' = pods /\ slices' = slices /\ pass' = pass /\ warned' = warned
      /\ cache.current /\ pass.pc = "idle" /\ wake # 0
      /\ status' = (IF status = NoStatus THEN status ELSE Older(status))
      /\ cache' = [cache EXCEPT !.status = status']
      /\ wake' = (IF wake = Never THEN Never ELSE wake - 1)
      /\ round' = (IF round.age + 1 < Interval THEN [round EXCEPT !.age = @ + 1] ELSE NoRound)
      /\ spread' = (IF status.reason \in PropagationReasons
                      THEN Lowest(spread + 1, AgeCap) ELSE 0)
  BY Zenon DEF Tick
<1>3. /\ status \in Statuses /\ AgeCap \in Nat /\ Interval \in Nat
      /\ status.age \in 0 .. AgeCap /\ spread \in 0 .. AgeCap
  BY <1>1, StatusConstants DEF CoherentInv, ClockInv, AgeCap, Statuses
<1>4. /\ status' \in Statuses
      /\ status'.observed = status.observed /\ status'.active = status.active
      /\ status'.accepted = status.accepted /\ status'.ready = status.ready
      /\ status'.reason = status.reason
      /\ status'.total = status.total /\ status'.applied = status.applied
      /\ status' = status \/ (status'.age <= status.age + 1 /\ status'.age <= AgeCap)
  <2>1. CASE status = NoStatus
    BY <1>2, <1>3, <2>1, Zenon
  <2>2. CASE status # NoStatus
    BY <1>2, <1>3, <2>2, OlderTells, Zenon
  <2> QED
    BY <2>1, <2>2, Zenon
<1>5. \A x : /\ Known(x)' = Known(x) /\ Copied(x)' = Copied(x) /\ Enforces(x)' = Enforces(x)
  BY <1>2, Zenon DEF Known, Copied, Enforces, Used
<1>6. SeenInv' /\ \A p \in Replicas : seen[p] \in Nat /\ seen'[p] \in Nat
                                      /\ seen'[p] <= seen[p] + 1
  <2>1. Unseen \in Nat /\ seen \in [Replicas -> 0 .. Unseen]
    BY <1>1, StatusConstants, Zenon DEF Unseen, SeenInv
  <2>2. \A p \in Replicas : seen[p] \in 0 .. Unseen
    BY <2>1, Zenon
  <2>3. ASSUME NEW p \in Replicas
        PROVE  /\ seen'[p] \in 0 .. Unseen /\ seen'[p] <= seen[p] + 1
               /\ Identity(pods'[p]) = Identity(object') => seen'[p] = 0
    BY <1>2, <2>1, <2>2 DEF Watch, Lowest
  <2>4. seen' \in [Replicas -> 0 .. Unseen]
    BY <2>3, Zenon DEF Watch
  <2> QED
    BY <2>1, <2>2, <2>3, <2>4 DEF SeenInv, Enforces
<1>7. ObjectInv'
  <2>1. wake' \in Never .. Interval
    BY <1>1, <1>2, <1>3 DEF ObjectInv, Never
  <2> QED
    BY <1>1, <1>2, <2>1, Zenon DEF ObjectInv, Used
<1>8. SavedInv(saved)' /\ PodsInv(pods)'
  BY <1>1, <1>2, <1>5, Zenon DEF SavedInv, PodsInv
<1>9. CacheInv(cache)'
  <2>1. cache \in Caches /\ cache.object = object /\ Copied(cache.object)
    BY <1>1, <1>2, Zenon DEF CacheInv
  <2>2. cache' \in Caches /\ cache'.object = cache.object /\ cache'.status = status'
    BY <1>2, <1>4, <2>1, Zenon DEF Caches
  <2> QED
    BY <1>2, <1>5, <2>1, <2>2, Zenon DEF CacheInv
<1>10. RoundInv(round)'
  <2>1. CASE round.age + 1 < Interval
    <3>1. round \in Rounds /\ round.age \in 0 .. Interval /\ round.answers \in Answers
      BY <1>1, Zenon DEF RoundInv, Rounds
    <3> DEFINE age == round.age + 1
    <3>2. age \in 0 .. Interval
      BY <1>3, <2>1, <3>1
    <3>3. round' = [round EXCEPT !.age = age]
      BY <1>2, <2>1, Zenon
    <3> HIDE DEF age
    <3>4. /\ round' \in Rounds /\ round'.age = age /\ round'.answers = round.answers
          /\ round'.endpoints = round.endpoints
      BY <3>1, <3>2, <3>3, Zenon DEF Rounds
    <3>5. DOMAIN round.answers \subseteq Replicas
      BY <3>1, Zenon DEF Answers
    <3>6. ASSUME NEW p \in DOMAIN round.answers
          PROVE  Known(round.answers[p])' /\ (Enforces(round.answers[p])' => seen'[p] <= age)
      <4>1. Known(round.answers[p]) /\ (Enforces(round.answers[p]) => seen[p] <= round.age)
        BY <1>1, Zenon DEF RoundInv, AnswersInv
      <4> DEFINE x == round.answers[p]
      <4>2. round'.answers[p] = x
        BY <3>4, Zenon
      <4> QED
        BY <1>2, <1>6, <3>1, <3>4, <3>5, <4>1 DEF Known, Enforces, Used, age
    <3> QED
      BY <1>1, <3>4, <3>6, Zenon DEF RoundInv, AnswersInv
  <2>2. CASE ~(round.age + 1 < Interval)
    BY <1>2, <2>2, Absences, Zenon DEF RoundInv, AnswersInv
  <2> QED
    BY <2>1, <2>2, Zenon
<1>11. PassInv(pass)' /\ PassLinked'
  <2>1. pass' = NoPass
    BY <1>1, <1>2, Zenon DEF PassInv, Got, Asks
  <2> QED
    BY <2>1, NoPassLinked, Zenon DEF PassInv
<1>12. ToldInv(warned)'
  BY <1>1, <1>2, <1>4, <1>5, Zenon DEF ToldInv
<1>13. ClockInv'
  BY <1>1, <1>2, <1>3, <1>4 DEF ClockInv, Lowest, Statuses
<1>14. CoherentInv'
  BY <1>1, <1>2, <1>4, Zenon DEF CoherentInv
<1> QED
  BY <1>6, <1>7, <1>8, <1>9, <1>10, <1>11, <1>12, <1>13, <1>14, Zenon DEF StatusInv

\* What a judgement says, and what it takes to say that the fleet is ready, or
\* late.
LEMMA JudgeTells ==
    ASSUME NEW outcome, NEW view, NEW failed, NEW since \in Nat
    PROVE  LET v == Judge(outcome, view, failed, since) IN
           /\ v.ready \in Words \ {"None"} /\ v.reason \in Reasons /\ v.stalled \in Words
           /\ v.ready = "True" => /\ outcome.compiled /\ ~outcome.tooLarge
                                  /\ view.total # 0 /\ view.applied = view.total
           /\ v.reason = "ReplicaStale" => since > Deadline
BY Zenon DEF Judge, Verdict, Words, Reasons

\* What a round says of a generation.
LEMMA ViewTells ==
    ASSUME NEW r \in Rounds, DOMAIN r.answers \subseteq r.endpoints, NEW want
    PROVE  /\ View(r, want).total \in Nat /\ View(r, want).applied \in Nat
           /\ View(r, want).applied <= View(r, want).total
           /\ View(r, want).total <= Cardinality(Replicas)
           /\ View(r, want).total # 0 => r.endpoints # {}
           /\ View(r, want).applied = View(r, want).total =>
                 \A p \in r.endpoints : p \in DOMAIN r.answers /\ Identity(r.answers[p]) = want
<1> DEFINE hold == {p \in DOMAIN r.answers :
                      ReportsDomain(r.answers[p]) /\ Identity(r.answers[p]) = want}
<1>1. r.endpoints \in SUBSET Replicas /\ IsFiniteSet(Replicas)
  BY StatusConstants, Zenon DEF Rounds
<1>2. IsFiniteSet(r.endpoints) /\ Cardinality(r.endpoints) <= Cardinality(Replicas)
  BY <1>1, FS_Subset, Zenon
<1>3. hold \subseteq r.endpoints
  BY Zenon
<1>4. IsFiniteSet(hold) /\ Cardinality(hold) <= Cardinality(r.endpoints)
      /\ (Cardinality(hold) = Cardinality(r.endpoints) => hold = r.endpoints)
  BY <1>2, <1>3, FS_Subset, Zenon
<1>5. Cardinality(hold) \in Nat /\ Cardinality(r.endpoints) \in Nat
  BY <1>2, <1>4, FS_CardinalityType, Zenon
<1>6. r.endpoints = {} => Cardinality(r.endpoints) = 0
  BY FS_EmptySet, Zenon
<1>7. View(r, want).total = Cardinality(r.endpoints)
      /\ View(r, want).applied = Cardinality(hold)
  BY Zenon DEF View
<1> QED
  BY <1>2, <1>4, <1>5, <1>6, <1>7, Zenon

\* The status that a reconcile would write: of the generation it read, of the
\* compilation and of the round it judged by, its clock restarted whenever a
\* propagation starts.
Tells(o, before, outcome, r, after) ==
    /\ after \in Statuses
    /\ after.observed = o.gen /\ after.active = outcome.active
    /\ outcome.compiled => after.accepted = "True"
    /\ ~outcome.compiled => after.accepted = "False"
    /\ \/ after.applied = before.applied /\ after.total = before.total
       \/ after.applied <= after.total /\ after.total <= Cardinality(Replicas)
    /\ after.ready = "True" =>
          /\ outcome.compiled /\ ~outcome.tooLarge /\ r.endpoints # {}
          /\ \A p \in r.endpoints :
                /\ p \in DOMAIN r.answers
                /\ Identity(r.answers[p]) = [uid |-> outcome.uid, gen |-> outcome.active]
    /\ after.reason = "ReplicaStale" =>
          /\ before.observed = o.gen /\ before.reason \in PropagationReasons
          /\ before.age > Deadline
    /\ after.age = 0 \/ after.age = before.age
    /\ after.reason \in PropagationReasons =>
          \/ after.age = 0
          \/ before.observed = o.gen /\ before.reason \in PropagationReasons

\* So it is of the status that Reconcile computes.
LEMMA AfterTells ==
    ASSUME NEW o \in Objects, NEW before \in Statuses, NEW outcome \in Outcomes,
           NEW r \in Rounds, DOMAIN r.answers \subseteq r.endpoints,
           NEW after, after = After(o, before, outcome, r)
    PROVE  Tells(o, before, outcome, r, after)
<1> DEFINE want == [uid |-> outcome.uid, gen |-> outcome.active]
           view == View(r, want)
           since == ReadyAge(before, o.gen)
           v == Judge(outcome, view, r.err, since)
           stamp == ReadyStamp(before, v, o.gen)
           accepted == IF outcome.compiled THEN "True" ELSE "False"
           total == IF r.err THEN before.total ELSE view.total
           applied == IF r.err THEN before.applied ELSE view.applied
           plain == [observed |-> o.gen, active |-> outcome.active, accepted |-> accepted,
                     ready |-> v.ready, reason |-> v.reason, age |-> stamp,
                     stalled |-> v.stalled, total |-> total, applied |-> applied,
                     check |-> before.check]
<1>1. /\ before.age \in 0 .. AgeCap /\ before.check \in Never .. CheckMaxAge
      /\ before.total \in Nat /\ before.applied \in Nat /\ before.observed \in Nat
      /\ before.ready \in Words /\ before.reason \in Reasons
  BY Zenon DEF Statuses
<1>2. AgeCap \in Nat /\ Deadline \in Nat /\ CheckMaxAge \in Nat
  BY StatusConstants DEF AgeCap
<1>3. o.gen \in Nat /\ outcome.active \in Nat
  BY Zenon DEF Objects, Outcomes
<1>4. r.age \in 0 .. Interval /\ r.age \in Never .. CheckMaxAge
  BY StatusConstants DEF Rounds, Never
<1>5. since \in Nat /\ (since # 0 => /\ before.observed = o.gen /\ since = before.age
                                     /\ before.reason \in PropagationReasons)
  BY <1>1, <1>2 DEF ReadyAge
<1>6. /\ view.total \in Nat /\ view.applied \in Nat /\ view.applied <= view.total
      /\ view.total <= Cardinality(Replicas)
      /\ view.total # 0 => r.endpoints # {}
      /\ view.applied = view.total =>
            \A p \in r.endpoints : p \in DOMAIN r.answers /\ Identity(r.answers[p]) = want
  BY ViewTells, Zenon
<1>7. after = IF ~r.err /\ (plain # before \/ before.check = Never
                              \/ before.check >= CheckMaxAge)
                THEN [plain EXCEPT !.check = r.age] ELSE plain
  BY Zenon DEF After
<1> HIDE DEF want, view, since
<1>8. /\ v.ready \in Words \ {"None"} /\ v.reason \in Reasons /\ v.stalled \in Words
      /\ v.ready = "True" => /\ outcome.compiled /\ ~outcome.tooLarge
                             /\ view.total # 0 /\ view.applied = view.total
      /\ v.reason = "ReplicaStale" => since > Deadline
  BY <1>5, JudgeTells, Zenon
<1> HIDE DEF v
<1>9. /\ stamp \in 0 .. AgeCap /\ (stamp = 0 \/ stamp = before.age)
      /\ v.reason \in PropagationReasons =>
            \/ stamp = 0
            \/ before.observed = o.gen /\ before.reason \in PropagationReasons
  <2>1. stamp = 0 \/ stamp = before.age
    BY Zenon DEF ReadyStamp
  <2>2. stamp \in 0 .. AgeCap
    BY <1>1, <1>2, <2>1
  <2>3. CASE before.ready # v.ready \/ RestartsPropagationClock(before, v.reason, o.gen)
    BY <2>1, <2>2, <2>3, Zenon DEF ReadyStamp
  <2>4. CASE before.ready = v.ready /\ ~RestartsPropagationClock(before, v.reason, o.gen)
    BY <1>8, <2>1, <2>2, <2>4, Zenon DEF RestartsPropagationClock
  <2> QED
    BY <2>3, <2>4, Zenon
<1>10. accepted \in Words /\ total \in Nat /\ applied \in Nat
  BY <1>1, <1>6, Zenon DEF Words
<1>11. \/ applied = before.applied /\ total = before.total
       \/ applied <= total /\ total <= Cardinality(Replicas)
  BY <1>6, Zenon
<1> HIDE DEF stamp, accepted, total, applied
<1>12. plain \in Statuses
  BY <1>1, <1>3, <1>8, <1>9, <1>10, Zenon DEF Statuses
<1>13. /\ plain.observed = o.gen /\ plain.active = outcome.active /\ plain.accepted = accepted
       /\ plain.ready = v.ready /\ plain.reason = v.reason /\ plain.age = stamp
       /\ plain.stalled = v.stalled /\ plain.total = total /\ plain.applied = applied
  BY Zenon
<1> HIDE DEF plain
<1>14. /\ after \in Statuses
       /\ after.observed = o.gen /\ after.active = outcome.active /\ after.accepted = accepted
       /\ after.ready = v.ready /\ after.reason = v.reason /\ after.age = stamp
       /\ after.stalled = v.stalled /\ after.total = total /\ after.applied = applied
  <2>1. CASE after = plain
    BY <1>12, <1>13, <2>1, Zenon
  <2>2. CASE after = [plain EXCEPT !.check = r.age]
    BY <1>4, <1>12, <1>13, <2>2, Zenon DEF Statuses
  <2> QED
    BY <1>7, <2>1, <2>2, Zenon
<1>15. after.ready = "True" =>
          /\ outcome.compiled /\ ~outcome.tooLarge /\ r.endpoints # {}
          /\ \A p \in r.endpoints : p \in DOMAIN r.answers /\ Identity(r.answers[p]) = want
  BY <1>6, <1>8, <1>14, Zenon
<1>16. after.reason = "ReplicaStale" =>
          /\ before.observed = o.gen /\ before.reason \in PropagationReasons
          /\ before.age > Deadline
  BY <1>2, <1>5, <1>8, <1>14, SMTT(60)
<1> QED
  BY <1>9, <1>11, <1>14, <1>15, <1>16, Zenon DEF Tells, want, accepted

\* What a status says of the compilation, by itself.
LEMMA AfterAccepts ==
    ASSUME NEW o, NEW before, NEW outcome, NEW r
    PROVE  /\ After(o, before, outcome, r).observed = o.gen
           /\ ~outcome.compiled => After(o, before, outcome, r).accepted = "False"
BY Zenon DEF After

\* A status of a fleet that cannot be observed does not know whether it is stalled.
LEMMA AfterHolds ==
    ASSUME NEW o, NEW before, NEW outcome, NEW r,
           outcome.compiled, ~outcome.tooLarge, r.err
    PROVE  After(o, before, outcome, r).stalled = "Unknown"
BY Zenon DEF After, Judge, Verdict

\* What a reconcile ends with, whatever becomes of its write.
LEMMA FinishTells ==
    ASSUME StatusInv, Finish
    PROVE  /\ pass \in Asks /\ ReadInv(pass) /\ AsksInv(pass) /\ RoundInv(RoundUsed)
           /\ round' = RoundUsed
           /\ published' = Sample(pass.object,
                                  After(pass.object, pass.before, pass.outcome, RoundUsed))
           /\ WriteStatus(RoundUsed, After(pass.object, pass.before, pass.outcome, RoundUsed))
           /\ pass' = NoPass /\ object' = object /\ saved' = saved /\ room' = room
           /\ pods' = pods /\ slices' = slices
<1>1. pass.pc = "ask" /\ PassInv(pass) /\ RoundInv(round)
  BY Zenon DEF Finish, StatusInv
<1>2. pass \in Asks /\ ReadInv(pass) /\ AsksInv(pass)
  BY <1>1 DEF PassInv, NoPass, Got
<1>3. RoundInv(RoundUsed)
  BY <1>1, <1>2, RoundKept, Zenon
<1> QED
  BY <1>2, <1>3, Zenon DEF Finish

\* A status that lands is of the object as it stands.
LEMMA LandsTells ==
    ASSUME StatusInv, pass \in Asks, ReadInv(pass), AsksInv(pass), pass.current,
           RoundInv(RoundUsed),
           NEW after, after = After(pass.object, pass.before, pass.outcome, RoundUsed)
    PROVE  /\ after \in Statuses /\ Exists(object) /\ after.observed = object.gen
           /\ after.active <= object.gen
           /\ after.ready = "True" => after.active = object.gen /\ after.accepted = "True"
           /\ after.accepted = "False" => after.active < object.gen
           /\ ~LatestCompiles(Build, object) => after.accepted = "False"
           /\ after.applied <= after.total /\ after.total <= Cardinality(Replicas)
           /\ after.ready = "True" =>
                 /\ RoundUsed.endpoints # {}
                 /\ \A p \in RoundUsed.endpoints : seen[p] <= RoundUsed.age
           /\ after.reason = "ReplicaStale" =>
                 /\ status.observed = object.gen /\ status.reason \in PropagationReasons
                 /\ status.age > Deadline
           /\ after.age = 0 \/ after.age = status.age
           /\ after.reason \in PropagationReasons =>
                 \/ after.age = 0
                 \/ status.observed = object.gen /\ status.reason \in PropagationReasons
           /\ status.observed # object.gen => RoundUsed.since = Identity(object)
<1> DEFINE r == RoundUsed
           outcome == pass.outcome
<1>1. Exists(object) /\ pass.object = object /\ pass.before = status
  BY Zenon DEF ReadInv
<1>2. /\ Compiled(outcome) /\ pass.since = Identity(object)
      /\ pass.reuse => ~Fresh(pass) \/ round.since = Identity(object)
  BY Zenon DEF AsksInv, StatusInv, PassLinked, Asks
<1>3. object \in Objects /\ status \in Statuses /\ outcome \in Outcomes /\ r \in Rounds
      /\ DOMAIN r.answers \subseteq r.endpoints /\ AnswersInv(r.answers, r.age)
  BY Zenon DEF StatusInv, ObjectInv, CoherentInv, Asks, RoundInv
<1>4. after = After(object, status, outcome, r)
  BY <1>1, Zenon
<1>5. ~Fresh(pass) => status.observed = object.gen
  BY <1>1, Zenon DEF Fresh
<1>6. status.observed # object.gen => r.since = Identity(object)
  BY <1>2, <1>5, Zenon DEF RoundUsed, RoundOf
<1>7. status.applied <= status.total /\ status.total <= Cardinality(Replicas)
  BY Zenon DEF StatusInv, CoherentInv
<1> HIDE DEF r, outcome
<1>8. /\ after \in Statuses
      /\ after.observed = object.gen /\ after.active = outcome.active
      /\ outcome.compiled => after.accepted = "True"
      /\ ~outcome.compiled => after.accepted = "False"
      /\ \/ after.applied = status.applied /\ after.total = status.total
         \/ after.applied <= after.total /\ after.total <= Cardinality(Replicas)
      /\ after.ready = "True" =>
            /\ outcome.compiled /\ ~outcome.tooLarge /\ r.endpoints # {}
            /\ \A p \in r.endpoints :
                  /\ p \in DOMAIN r.answers
                  /\ Identity(r.answers[p]) = [uid |-> outcome.uid, gen |-> outcome.active]
      /\ after.reason = "ReplicaStale" =>
            /\ status.observed = object.gen /\ status.reason \in PropagationReasons
            /\ status.age > Deadline
      /\ after.age = 0 \/ after.age = status.age
      /\ after.reason \in PropagationReasons =>
            \/ after.age = 0
            \/ status.observed = object.gen /\ status.reason \in PropagationReasons
  <2>1. Tells(object, status, outcome, r, after)
    BY <1>3, <1>4, AfterTells, Zenon
  <2> QED
    BY <2>1, Zenon DEF Tells
<1>9. /\ outcome.uid = object.uid
      /\ outcome.compiled <=> LatestCompiles(Build, object)
      /\ outcome.active <= object.gen
      /\ outcome.compiled /\ ~outcome.tooLarge => outcome.active = object.gen
      /\ ~outcome.compiled => outcome.active < object.gen
  BY <1>2, Zenon DEF Compiled
<1>10. after.ready = "True" =>
          r.endpoints # {} /\ \A p \in r.endpoints : seen[p] <= r.age
  <2>1. SUFFICES ASSUME after.ready = "True", NEW p \in r.endpoints
                 PROVE  seen[p] <= r.age
    BY <1>8, Zenon
  <2>2. p \in DOMAIN r.answers
        /\ Identity(r.answers[p]) = [uid |-> object.uid, gen |-> object.gen]
    BY <1>8, <1>9, <2>1, Zenon
  <2>3. Enforces(r.answers[p])
    BY <1>1, <2>2, Zenon DEF Enforces, Identity
  <2> QED
    BY <1>3, <2>2, <2>3, Zenon DEF AnswersInv
<1>11. /\ after.active <= object.gen
       /\ after.ready = "True" => after.active = object.gen /\ after.accepted = "True"
       /\ after.accepted = "False" => after.active < object.gen
       /\ ~LatestCompiles(Build, object) => after.accepted = "False"
  BY <1>8, <1>9, Zenon
<1>12. after.applied <= after.total /\ after.total <= Cardinality(Replicas)
  BY <1>7, <1>8, Zenon
<1> QED
  BY <1>1, <1>6, <1>8, <1>10, <1>11, <1>12, Zenon DEF r

\* The end of a reconcile, whether its status lands or not.
LEMMA FinishStep == ASSUME StatusInv, Watch(0), Finish PROVE StatusInv'
<1> DEFINE r == RoundUsed
           after == After(pass.object, pass.before, pass.outcome, r)
<1>1. /\ ObjectInv /\ SavedInv(saved) /\ PodsInv(pods) /\ SeenInv /\ CacheInv(cache)
      /\ RoundInv(round) /\ PassInv(pass) /\ PassLinked /\ ToldInv(warned) /\ ClockInv
      /\ CoherentInv
  BY Zenon DEF StatusInv
<1>2. /\ pass \in Asks /\ ReadInv(pass) /\ AsksInv(pass) /\ RoundInv(r)
      /\ round' = r /\ WriteStatus(r, after)
      /\ pass' = NoPass /\ object' = object /\ saved' = saved /\ room' = room
      /\ pods' = pods /\ slices' = slices
  BY FinishTells, Zenon
<1>3. PassInv(pass') /\ PassLinked'
  BY <1>2, NoPassLinked, Zenon
<1>4. world \in World /\ room \in BOOLEAN /\ slices \subseteq Replicas
      /\ wake \in Never .. Interval
  BY <1>1, Zenon DEF ObjectInv
<1>5. NextProbe(r) \in Never .. Interval
  <2>1. r.age \in 0 .. Interval /\ r.err \in BOOLEAN
    BY <1>2, Zenon DEF RoundInv, Rounds
  <2> HIDE DEF r
  <2> QED
    BY <1>4, <2>1, StatusConstants DEF NextProbe, Lowest, Never
<1>6. world' \in World /\ world'.recreate = world.recreate /\ wake' \in Never .. Interval
  <2>1. world' = world \/ (world' = [world EXCEPT !.lost = @ - 1] /\ world.lost > 0)
    BY <1>2, Zenon DEF WriteStatus
  <2>2. wake' = wake \/ wake' = NextProbe(r)
    BY <1>2, Zenon DEF WriteStatus, Succeed, Retry
  <2> QED
    BY <1>4, <1>5, <2>1, <2>2 DEF World
<1>7. /\ pass.object \in Objects /\ pass.before \in Statuses /\ pass.outcome \in Outcomes
      /\ r \in Rounds /\ DOMAIN r.answers \subseteq r.endpoints
  BY <1>2, Zenon DEF Asks, RoundInv
<1> HIDE DEF r
<1>8. /\ after.observed = pass.object.gen
      /\ ~pass.outcome.compiled => after.accepted = "False"
  BY <1>7, AfterAccepts
<1> HIDE DEF after
<1>9. \/ /\ status' = status /\ cache' = cache /\ spread' = spread /\ warned' = warned
      \/ /\ pass.current /\ Lands(after)
         /\ \/ warned' = warned
            \/ /\ ~pass.outcome.compiled /\ TurnedNotCompiled(pass.before, pass.object.gen)
               /\ warned' = Announce(Identity(pass.object))
  <2>1. CASE after = pass.before
    <3>1. ~pass.outcome.compiled => ~TurnedNotCompiled(pass.before, pass.object.gen)
      BY <1>8, <2>1, Zenon DEF TurnedNotCompiled
    <3> QED
      BY <1>2, <2>1, <3>1, Zenon DEF WriteStatus, Succeed
  <2>2. CASE after # pass.before
    BY <1>2, <2>2, Zenon DEF WriteStatus, Succeed, Retry
  <2> QED
    BY <2>1, <2>2, Zenon
<1>10. CASE status' = status /\ cache' = cache /\ spread' = spread /\ warned' = warned
  BY <1>1, <1>2, <1>3, <1>4, <1>6, <1>10, QuietStep, Zenon
<1>11. ASSUME pass.current, Lands(after),
              \/ warned' = warned
              \/ /\ ~pass.outcome.compiled /\ TurnedNotCompiled(pass.before, pass.object.gen)
                 /\ warned' = Announce(Identity(pass.object))
       PROVE  StatusInv'
  <2>1. /\ after \in Statuses /\ Exists(object) /\ after.observed = object.gen
        /\ after.active <= object.gen
        /\ after.ready = "True" => after.active = object.gen /\ after.accepted = "True"
        /\ after.accepted = "False" => after.active < object.gen
        /\ ~LatestCompiles(Build, object) => after.accepted = "False"
        /\ after.applied <= after.total /\ after.total <= Cardinality(Replicas)
        /\ after.age = 0 \/ after.age = status.age
        /\ after.reason \in PropagationReasons =>
              \/ after.age = 0
              \/ status.observed = object.gen /\ status.reason \in PropagationReasons
    BY <1>2, <1>11, LandsTells, Zenon DEF after, r
  <2>2. /\ status' = after /\ cache' = [cache EXCEPT !.current = FALSE]
        /\ spread' = (IF /\ after.reason \in PropagationReasons
                         /\ status.reason \in PropagationReasons
                         /\ status.observed = after.observed
                        THEN spread ELSE 0)
    BY <1>11, Zenon DEF Lands
  <2>3. /\ pass.object = object /\ pass.before = status
        /\ pass.outcome.compiled <=> LatestCompiles(Build, object)
    BY <1>2, <1>11, Zenon DEF ReadInv, AsksInv, Compiled
  <2>4. object \in Objects /\ object.uid \in Nat /\ object.gen \in Nat
    BY <1>1, Zenon DEF ObjectInv, Objects
  <2>5. \A x : /\ Known(x)' = Known(x) /\ Copied(x)' = Copied(x)
               /\ Enforces(x)' = Enforces(x)
    BY <1>2, <1>6, Zenon DEF Known, Copied, Enforces, Used
  <2>6. SeenInv' /\ \A p \in Replicas : seen'[p] <= seen[p]
    BY <1>1, <1>2, WatchNow, Zenon
  <2>7. ObjectInv'
    BY <1>1, <1>2, <1>6, Zenon DEF ObjectInv, Used
  <2>8. SavedInv(saved)' /\ PodsInv(pods)'
    BY <1>1, <1>2, <2>5, Zenon DEF SavedInv, PodsInv
  <2>9. CacheInv(cache)'
    <3>1. cache \in Caches /\ Copied(cache.object)
      BY <1>1, Zenon DEF CacheInv
    <3>2. cache' \in Caches /\ cache'.object = cache.object /\ cache'.current = FALSE
      BY <2>2, <3>1, Zenon DEF Caches
    <3> QED
      BY <2>5, <3>1, <3>2, Zenon DEF CacheInv
  <2>10. RoundInv(round)'
    <3>1. DOMAIN r.answers \subseteq Replicas /\ r.age \in Nat
      BY <1>7, StatusConstants DEF Rounds, Answers
    <3>2. \A p \in Replicas : seen[p] \in Nat /\ seen'[p] \in Nat
      BY <1>1, <2>6, StatusConstants DEF SeenInv, Unseen
    <3>3. ASSUME NEW p \in DOMAIN r.answers
          PROVE  Known(round.answers[p])' /\ (Enforces(round.answers[p])' => seen'[p] <= r.age)
      <4>1. Known(r.answers[p]) /\ (Enforces(r.answers[p]) => seen[p] <= r.age)
        BY <1>2, Zenon DEF RoundInv, AnswersInv
      <4>2. (Known(round.answers[p])' <=> Known(r.answers[p]))
            /\ (Enforces(round.answers[p])' <=> Enforces(r.answers[p]))
        BY <1>2, <1>6, Zenon DEF Known, Enforces, Used
      <4> QED
        BY <2>6, <3>1, <3>2, <4>1, <4>2
    <3> QED
      BY <1>2, <1>7, <3>3, Zenon DEF RoundInv, AnswersInv
  <2>11. ToldInv(warned)'
    <3>1. \A id \in warned.told : Known(id) /\ (Enforces(id) => ~LatestCompiles(Build, object))
      BY <1>1, Zenon DEF ToldInv
    <3>2. ASSUME NEW id \in warned.told
          PROVE  Known(id)' /\ (Enforces(id)' => /\ status'.accepted = "False"
                                                 /\ status'.observed = object'.gen
                                                 /\ ~LatestCompiles(Build, object'))
      BY <1>2, <2>1, <2>2, <2>5, <3>1, Zenon
    <3>3. CASE warned' = warned
      BY <1>1, <3>2, <3>3, Zenon DEF ToldInv
    <3>4. CASE /\ ~pass.outcome.compiled /\ TurnedNotCompiled(pass.before, pass.object.gen)
               /\ warned' = Announce(Identity(pass.object))
      <4>8. PICK new : new = Identity(object)
        BY Zenon
      <4>1. new \in Ids /\ new.uid = object.uid /\ new.gen = object.gen
        BY <2>4, <4>8, Zenon DEF Identity, Ids
      <4>2. Enforces(new) /\ Known(new)
        <5>1. Identity(new) = Identity(object) /\ Used(new.uid) /\ new.gen <= object.gen
          BY <1>1, <2>4, <4>1 DEF Identity, ObjectInv
        <5> QED
          BY <2>1, <5>1, Zenon DEF Enforces, Known
      <4>3. new \notin warned.told
        BY <1>1, <2>3, <3>4, <4>2, Zenon DEF ToldInv, TurnedNotCompiled
      <4>4. warned.told \in SUBSET Ids /\ warned.again = FALSE
        BY <1>1, Zenon DEF ToldInv
      <4>5. warned' = [told |-> warned.told \cup {new}, again |-> FALSE]
        BY <2>3, <3>4, <4>3, <4>4, <4>8, Zenon DEF Announce
      <4>6. warned' \in [told : SUBSET Ids, again : BOOLEAN] /\ ~warned'.again
            /\ warned'.told = warned.told \cup {new}
        BY <4>1, <4>4, <4>5, Zenon
      <4>7. Known(new)' /\ status'.accepted = "False" /\ status'.observed = object'.gen
            /\ ~LatestCompiles(Build, object')
        BY <1>2, <2>1, <2>2, <2>3, <2>5, <3>4, <4>2, Zenon
      <4> QED
        BY <3>2, <4>6, <4>7, Zenon DEF ToldInv
    <3> QED
      BY <1>11, <3>3, <3>4, Zenon
  <2>12. ClockInv'
    <3>1. spread \in 0 .. AgeCap /\ (status.reason \in PropagationReasons => status.age <= spread)
          /\ AgeCap \in Nat
      BY <1>1, StatusConstants DEF ClockInv, AgeCap
    <3>2. status.age \in 0 .. AgeCap
      BY <1>1, Zenon DEF CoherentInv, Statuses
    <3> QED
      BY <2>1, <2>2, <3>1, <3>2 DEF ClockInv
  <2>13. CoherentInv'
    BY <1>2, <2>1, <2>2, <2>4 DEF CoherentInv
  <2> QED
    BY <1>2, <1>3, <2>6, <2>7, <2>8, <2>9, <2>10, <2>11, <2>12, <2>13, Zenon DEF StatusInv, PassInv
<1> QED
  BY <1>9, <1>10, <1>11, Zenon

-----------------------------------------------------------------------------
(* The theorems.                                                           *)

\* Every step keeps the invariant.
LEMMA StatusStep == ASSUME StatusInv, [SNext]_svars PROVE StatusInv'
<1>1. CASE UNCHANGED svars
  <2>1. /\ world' = world /\ object' = object /\ status' = status /\ saved' = saved
        /\ room' = room /\ pods' = pods /\ cache' = cache /\ slices' = slices
        /\ wake' = wake /\ round' = round /\ pass' = pass /\ warned' = warned
        /\ spread' = spread /\ seen' = seen
    BY <1>1, Zenon DEF svars, cluster, leader
  <2>2. ObjectInv' /\ SavedInv(saved)' /\ PodsInv(pods)' /\ SeenInv'
    BY <2>1, Zenon DEF StatusInv, ObjectInv, SavedInv, PodsInv, SeenInv, Used, Known, Copied, Enforces
  <2>3. CacheInv(cache)' /\ RoundInv(round)'
    BY <2>1, Zenon DEF StatusInv, CacheInv, RoundInv, AnswersInv, Used, Known, Copied, Enforces
  <2>4. PassInv(pass)' /\ PassLinked'
    <3>1. (ReadInv(pass)' <=> ReadInv(pass)) /\ (AsksInv(pass)' <=> AsksInv(pass))
      BY <2>1, Zenon DEF ReadInv, AsksInv, AnswersInv, Compiled, Used, Known, Enforces
    <3> QED
      BY <2>1, <3>1, Zenon DEF StatusInv, PassInv, PassLinked
  <2>5. ToldInv(warned)' /\ ClockInv' /\ CoherentInv'
    BY <2>1, Zenon DEF StatusInv, ToldInv, ClockInv, CoherentInv, Used, Known, Enforces
  <2> QED
    BY <2>2, <2>3, <2>4, <2>5, Zenon DEF StatusInv
<1>2. CASE SNext
  BY <1>2, TickStep, ReconcilerStep, FinishStep, LeaderStep, ObjectStep, SurroundingsStep, Zenon
     DEF SNext, Reconciles
<1> QED
  BY <1>1, <1>2, Zenon

\* What writes a status: the reconcile that read the object as it stands, the
\* deletion of the object, and time.
LEMMA StatusMoves ==
    ASSUME StatusInv, [SNext]_svars
    PROVE  \/ status' = status
           \/ status' = NoStatus /\ object' = NoObject
           \/ /\ pass.pc = "idle" /\ status'.reason = status.reason
              /\ status'.observed = status.observed
           \/ /\ Finish /\ pass.current
              /\ status' = After(pass.object, pass.before, pass.outcome, RoundUsed)
<1> USE DEF cluster
<1>1. CASE UNCHANGED svars
  BY <1>1, Zenon DEF svars
<1>2. CASE Tick
  <2>1. status \in Statuses
    BY Zenon DEF StatusInv, CoherentInv
  <2>2. status' = status \/ status' = Older(status)
    BY <1>2, Zenon DEF Tick
  <2>3. Older(status).reason = status.reason /\ Older(status).observed = status.observed
    BY <2>1, OlderTells, Zenon
  <2> QED
    BY <1>2, <2>2, <2>3, Zenon DEF Tick
<1>3. CASE Finish
  <2>1. WriteStatus(RoundUsed, After(pass.object, pass.before, pass.outcome, RoundUsed))
    BY <1>3, FinishTells, Zenon
  <2> QED
    BY <1>3, <2>1, Zenon DEF WriteStatus, Lands
<1>4. CASE Delete
  BY <1>4, Zenon DEF Delete
<1>5. CASE \/ Get \/ CompileAndObserve \/ LoadFails \/ ListFails \/ Elsewhere
           \/ FinishElsewhere \/ \E p \in Replicas : Ask(p)
  BY <1>5, Zenon DEF Get, CompileAndObserve, LoadFails, ListFails, Elsewhere, FinishElsewhere, Ask
<1>6. CASE Deliver \/ DeliverSlices \/ Wake \/ NewLeader
  BY <1>6, Zenon DEF Deliver, DeliverSlices, Wake, NewLeader
<1>7. CASE \/ Edit \/ Create \/ Save \/ Resize
           \/ \E p \in Replicas : Applied(p) \/ Trouble(p) \/ Scale(p)
  BY <1>7, Zenon DEF Edit, Create, Save, Resize, Applied, Trouble, Scale
<1> QED
  BY <1>1, <1>2, <1>3, <1>4, <1>5, <1>6, <1>7, Zenon DEF SNext, Reconciles

\* What a status that lands was judged by: the round, of the object as it is.
LEMMA LandedTells ==
    ASSUME StatusInv, Finish, pass.current,
           status' = After(pass.object, pass.before, pass.outcome, RoundUsed)
    PROVE  /\ object' = object /\ status'.observed = object.gen
           /\ status'.ready = "True" =>
                 /\ round'.endpoints # {}
                 /\ \A p \in round'.endpoints : seen[p] < Unseen
           /\ status'.reason = "ReplicaStale" =>
                 /\ status.observed = object.gen /\ status.reason \in PropagationReasons
                 /\ status.age > Deadline
           /\ status.observed # object.gen => round'.since = Identity(object)
<1>1. /\ pass \in Asks /\ ReadInv(pass) /\ AsksInv(pass) /\ RoundInv(RoundUsed)
      /\ round' = RoundUsed /\ object' = object
  BY FinishTells, Zenon
<1>2. /\ status'.observed = object.gen
      /\ status'.ready = "True" =>
            /\ RoundUsed.endpoints # {}
            /\ \A p \in RoundUsed.endpoints : seen[p] <= RoundUsed.age
      /\ status'.reason = "ReplicaStale" =>
            /\ status.observed = object.gen /\ status.reason \in PropagationReasons
            /\ status.age > Deadline
      /\ status.observed # object.gen => RoundUsed.since = Identity(object)
  BY <1>1, LandsTells, Zenon
<1>3. RoundUsed.age \in Nat /\ RoundUsed.age < Unseen /\ Unseen \in Nat
  <2>1. Interval \in Nat \ {0} /\ Unseen = Interval
    BY StatusConstants, Zenon DEF Unseen
  <2>2. CASE pass.reuse
    <3>1. round.age < Interval /\ round.age \in 0 .. Interval
      BY <2>2, Zenon DEF StatusInv, PassLinked, Finish, RoundInv, Rounds
    <3> QED
      BY <2>1, <2>2, <3>1 DEF RoundUsed
  <2>3. CASE ~pass.reuse
    <3>1. RoundUsed.age = 0
      BY <2>3, Zenon DEF RoundUsed, RoundOf
    <3> QED
      BY <2>1, <3>1
  <2> QED
    BY <2>2, <2>3, Zenon
<1>4. \A p \in RoundUsed.endpoints : seen[p] \in Nat
  <2>1. RoundUsed.endpoints \subseteq Replicas
    BY <1>1, Zenon DEF RoundInv, Rounds
  <2>2. \A p \in Replicas : seen[p] \in 0 .. Unseen
    BY Zenon DEF StatusInv, SeenInv
  <2> QED
    BY <1>3, <2>1, <2>2
<1>5. ASSUME status'.ready = "True", NEW p \in RoundUsed.endpoints
      PROVE  seen[p] < Unseen
  BY <1>2, <1>3, <1>4, <1>5
<1> QED
  BY <1>1, <1>2, <1>5, Zenon

\* Reconcile writes a status of one generation of one object: what the API
\* server holds never tells of an active generation newer than the one it
\* observed, and a policy is Ready only as the very generation observed,
\* although Reconcile reads the object and the compilation one after the other
\* from a cache that moves between the two reads, and the update is refused
\* only if the object moved since it was read.
THEOREM CoherentStatus == SSpec => []StatusCoherent
<1>1. StatusInv => StatusCoherent
  BY Zenon DEF StatusInv, StatusCoherent, STypeOK, ObjectInv, Objects, CoherentInv, Statuses,
         RoundInv, Rounds, ClockInv, SeenInv
<1> QED
  BY StatusStart, StatusStep, <1>1, PTL DEF SSpec

\* The status rests on a round that can know what it says: the probe reuses a
\* round of answers only for a generation that the status already observed, and
\* Ready is written only when every endpoint of the round enforced this very
\* generation of this very object within the probe interval.
THEOREM RoundsKnow == SSpec => FleetJudged
<1>1. ASSUME StatusInv, [SNext]_svars
      PROVE  pass.pc = "ask" /\ status' # status /\ status'.ready = "True" =>
               /\ round'.endpoints # {}
               /\ \A p \in round'.endpoints : seen[p] < Unseen
  <2>1. NoStatus.ready # "True"
    BY Zenon DEF NoStatus
  <2> QED
    BY <1>1, <2>1, StatusMoves, LandedTells, Zenon
<1>2. ASSUME StatusInv, [SNext]_svars
      PROVE  status'.observed # status.observed /\ status'.observed # 0 =>
               round'.since = Identity(object')
  <2>1. NoStatus.observed = 0
    BY Zenon DEF NoStatus
  <2> QED
    BY <1>2, <2>1, StatusMoves, LandedTells, Zenon
<1> QED
  BY StatusStart, StatusStep, <1>1, <1>2, PTL
     DEF SSpec, FleetJudged, ReadyMeansEnforced, JudgedByFreshRound

\* Nobody is alarmed without ground.  ReplicaStale is written only for a
\* generation that has been propagating without a break for the whole deadline,
\* because setReadyCondition restarts the clock whenever a propagation starts;
\* the series keeps its last alert while the fleet cannot be observed; and a
\* generation that does not compile is announced once, however often its
\* reconcile is retried, repeated from an old cache or taken over.
THEOREM AlarmsHaveGround == SSpec => NoFalseAlarm
<1>1. ASSUME StatusInv, [SNext]_svars
      PROVE  status'.reason = "ReplicaStale" /\ status.reason # "ReplicaStale" =>
               /\ status.observed = object.gen /\ status.reason \in PropagationReasons
               /\ spread > Deadline
  <2>1. NoStatus.reason # "ReplicaStale"
    BY Zenon DEF NoStatus
  <2>2. status.reason \in PropagationReasons => status.age <= spread
    BY <1>1, Zenon DEF StatusInv, ClockInv
  <2>3. status.age \in Nat /\ spread \in Nat /\ Deadline \in Nat
    BY <1>1, StatusConstants DEF StatusInv, ClockInv, CoherentInv, Statuses, AgeCap
  <2>4. CASE /\ Finish /\ pass.current
             /\ status' = After(pass.object, pass.before, pass.outcome, RoundUsed)
    <3>1. status'.reason = "ReplicaStale" =>
             /\ status.observed = object.gen /\ status.reason \in PropagationReasons
             /\ status.age > Deadline
      BY <1>1, <2>4, LandedTells, Zenon
    <3> QED
      BY <2>2, <2>3, <3>1
  <2>5. CASE status'.reason = status.reason \/ status' = NoStatus
    BY <2>1, <2>5, Zenon
  <2> QED
    BY <1>1, <2>4, <2>5, StatusMoves, Zenon
<1>2. ASSUME StatusInv, [SNext]_svars
      PROVE  published.known /\ published'.known /\ published'.stalled # published.stalled =>
               ~round'.err \/ ~pass.outcome.compiled \/ pass.outcome.tooLarge
  <2>1. \/ published' = published \/ published' = NoSample \/ Finish
    BY <1>2, Zenon DEF SNext, Reconciles, svars, cluster, leader, Tick, Get, CompileAndObserve, Ask,
       FinishElsewhere, LoadFails, ListFails, Elsewhere, Deliver, DeliverSlices, Wake, NewLeader, Edit,
       Delete, Create, Save, Resize, Applied, Trouble, Scale
  <2>2. ASSUME Finish, round'.err, pass.outcome.compiled, ~pass.outcome.tooLarge,
               published.known
        PROVE  published'.stalled = published.stalled
    <3> DEFINE after == After(pass.object, pass.before, pass.outcome, RoundUsed)
    <3>1. /\ pass \in Asks /\ RoundInv(RoundUsed) /\ round' = RoundUsed
          /\ published' = Sample(pass.object, after)
      BY <1>2, <2>2, FinishTells, Zenon
    <3>2. /\ pass.object \in Objects /\ pass.before \in Statuses /\ pass.outcome \in Outcomes
          /\ RoundUsed \in Rounds /\ DOMAIN RoundUsed.answers \subseteq RoundUsed.endpoints
      BY <3>1, Zenon DEF Asks, RoundInv
    <3>3. after.stalled = "Unknown"
      BY <2>2, <3>1, <3>2, AfterHolds, Zenon
    <3> QED
      BY <2>2, <3>1, <3>3, Zenon DEF Sample
  <2>3. ~NoSample.known
    BY Zenon DEF NoSample
  <2> QED
    BY <2>1, <2>2, <2>3, Zenon
<1>3. StatusInv => AnnouncedOnce
  BY Zenon DEF StatusInv, ToldInv, AnnouncedOnce
<1> QED
  BY StatusStart, StatusStep, <1>1, <1>2, <1>3, PTL
     DEF SSpec, NoFalseAlarm, NoFalsePage, AlertHeld

=============================================================================

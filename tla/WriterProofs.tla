---------------------------- MODULE WriterProofs ----------------------------
(***************************************************************************)
(* Proofs about the writer of the configuration: what a pass decides and   *)
(* what it puts in force, for every set of policies, builds, pods and      *)
(* scenarios.                                                              *)
(***************************************************************************)
EXTENDS ConfigWriter, FiniteSetTheorems, TLAPS

-----------------------------------------------------------------------------
(* What one compilation gives.                                             *)

AnyBundle == [uid : Nat, gen : Nat, spec : Specs \cup {"none"}]
EntryMaps == UNION {[D -> Bundles] : D \in SUBSET Names}
Apart(objects) == \A x, y \in objects : x.name = y.name => x = y

\* What was good last and still serves: it is the object's, the build compiles
\* it, and it is not a guess at a skewed generation.
Stays(build, o, previous) ==
    /\ Good(previous, o.uid)
    /\ previous.spec \in Compiles[build]
    /\ ~(o.spec \in Undefined[build] /\ previous.gen = o.gen)

\* The bundle the policy of a name is served by.
Served(build, objects, state, kept, n) ==
    IF LatestCompiles(build, Object(objects, n)) /\ n \notin kept
    THEN BundleOf(Object(objects, n))
    ELSE IF Stays(build, Object(objects, n), Previous(state, n)) THEN Previous(state, n)
    ELSE NoBundle

\* Objects of different names: the object of a name is the one that has it.
LEMMA ObjectOf ==
    ASSUME NEW objects, Apart(objects), NEW o \in objects
    PROVE  o.name \in Named(objects) /\ Object(objects, o.name) = o
BY Zenon DEF Apart, Named, Object

\* The result of a compilation, name by name: compileDomainFitting in these words.
LEMMA CompileServes ==
    ASSUME NEW build, NEW objects, NEW state, NEW kept, NEW n \in Named(objects)
    PROVE  LET r == Compile(build, objects, state, kept)[n]
           IN /\ r.compiled = LatestCompiles(build, Object(objects, n))
              /\ r.tooLarge = (LatestCompiles(build, Object(objects, n)) /\ n \in kept)
              /\ r.bundle = Served(build, objects, state, kept, n)
<1> DEFINE r == Compile(build, objects, state, kept)[n]
           o == Object(objects, n)
           p == Previous(state, n)
<1>1. r = CompileDomain(build, o, p, n \in kept)
  BY Zenon DEF Compile
<1>2. Served(build, objects, state, kept, n) =
        IF LatestCompiles(build, o) /\ n \notin kept THEN BundleOf(o)
        ELSE IF Stays(build, o, p) THEN p ELSE NoBundle
  BY Zenon DEF Served
<1> HIDE DEF p, o, r
<1>3. CASE LatestCompiles(build, o) /\ n \notin kept
  BY <1>1, <1>2, <1>3 DEF CompileDomain, o, r
<1>4. CASE ~(LatestCompiles(build, o) /\ n \notin kept) /\ ~Good(p, o.uid)
  BY <1>1, <1>2, <1>4 DEF CompileDomain, Stays, o, r
<1>5. CASE ~(LatestCompiles(build, o) /\ n \notin kept) /\ Good(p, o.uid)
  BY <1>1, <1>2, <1>5 DEF CompileDomain, Stays, o, r
<1> QED
  BY <1>3, <1>4, <1>5, Zenon

\* What is rendered of a compilation: the bundles that serve, name by name.
LEMMA RenderServes ==
    ASSUME NEW build, NEW objects, NEW state, NEW kept
    PROVE  LET entries == Render(Compile(build, objects, state, kept))
               Bundle(n) == Served(build, objects, state, kept, n)
           IN /\ DOMAIN entries \subseteq Named(objects)
              /\ \A n \in Named(objects) :
                    /\ n \in DOMAIN entries <=> Bundle(n).uid # 0
                    /\ n \in DOMAIN entries => entries[n] = Bundle(n)
<1> DEFINE result == Compile(build, objects, state, kept)
           entries == Render(result)
<1>1. DOMAIN result = Named(objects)
  BY Zenon DEF Compile
<1>2. \A n \in Named(objects) : result[n].bundle = Served(build, objects, state, kept, n)
  BY CompileServes
<1> HIDE DEF result
<1> QED
  BY <1>1, <1>2, Zenon DEF Render, result

\* Entries that are those of the bundles that serve.
Renders(entries, build, objects, state, kept) ==
    /\ DOMAIN entries \subseteq Named(objects)
    /\ \A n \in Named(objects) :
          /\ n \in DOMAIN entries <=> Served(build, objects, state, kept, n).uid # 0
          /\ n \in DOMAIN entries => entries[n] = Served(build, objects, state, kept, n)

\* The same, of entries known to be rendered of a compilation.
LEMMA RenderTells ==
    ASSUME NEW build, NEW objects, NEW state, NEW kept, NEW entries,
           entries = Render(Compile(build, objects, state, kept))
    PROVE  Renders(entries, build, objects, state, kept)
BY RenderServes, Zenon DEF Renders

\* Fit compiles, with some generations kept out.
LEMMA FitCompiles ==
    ASSUME NEW build, NEW objects, NEW state
    PROVE  \E kept : Fit(build, objects, state) = Compile(build, objects, state, kept)
BY Zenon DEF Fit

\* Two compilations that serve every name alike are rendered alike.
LEMMA SameRendered ==
    ASSUME NEW build, NEW objects, NEW s, NEW t, NEW x, NEW y,
           \A n \in Named(objects) :
              Served(build, objects, s, x, n) = Served(build, objects, t, y, n)
    PROVE  Render(Compile(build, objects, s, x)) = Render(Compile(build, objects, t, y))
<1> DEFINE a == Compile(build, objects, s, x)
           b == Compile(build, objects, t, y)
<1>1. DOMAIN a = Named(objects) /\ DOMAIN b = Named(objects)
  BY Zenon DEF Compile
<1>2. \A n \in Named(objects) : a[n].bundle = b[n].bundle
  BY CompileServes
<1> HIDE DEF a, b
<1> QED
  BY <1>1, <1>2 DEF Render, a, b

\* A family of finite sets has a smallest member: none of the others is part of it.
LEMMA SmallestMember ==
    ASSUME NEW U, IsFiniteSet(U), NEW F, F \subseteq SUBSET U, F # {}
    PROVE  \E x \in F : \A y \in F : y \subseteq x => y = x
<1>1. IsWellFoundedOn(StrictSubsetOrdering(U), FiniteSubsetsOf(U))
  BY FS_StrictSubsetOrderingWellFounded, Zenon
<1>2. F \subseteq FiniteSubsetsOf(U)
  BY FS_Subset, Zenon DEF FiniteSubsetsOf
<1>3. PICK x \in F : \A y \in F : ~(<<y, x>> \in StrictSubsetOrdering(U))
  BY <1>1, <1>2, WFMin, Zenon
<1>4. ASSUME NEW y \in F, y \subseteq x, y # x PROVE FALSE
  BY <1>3, <1>4, Zenon DEF StrictSubsetOrdering
<1> QED
  BY <1>4, Zenon

Fits(build, objects, state, kept) ==
    Size(Render(Compile(build, objects, state, kept))) <= Limit

\* What Fit keeps out: a beginning of the generations that moved, so that the
\* total fits or nothing is left to set back, and no shorter one fits.
KeepsOut(build, objects, state, entries, kept) ==
    /\ kept \in Beginnings(entries, Moved(entries, state))
    /\ Fits(build, objects, state, kept) \/ kept = Moved(entries, state)
    /\ \A less \in Beginnings(entries, kept) :
          less # kept => ~Fits(build, objects, state, less)

\* There is such a beginning, and Fit takes one.
LEMMA KeptOutTells ==
    ASSUME NEW build, NEW objects, NEW state, NEW entries, IsFiniteSet(DOMAIN entries)
    PROVE  KeepsOut(build, objects, state, entries, KeptOut(build, objects, state, entries))
<1> DEFINE moved == Moved(entries, state)
           F == {b \in Beginnings(entries, moved) :
                    Fits(build, objects, state, b) \/ b = moved}
<1>1. moved \subseteq DOMAIN entries
  BY Zenon DEF Moved
<1>2. IsFiniteSet(moved)
  BY <1>1, FS_Subset, Zenon
<1> HIDE DEF moved
<1>3. F \subseteq SUBSET moved
  BY Zenon DEF Beginnings
<1>4. moved \in F
  BY Zenon DEF Beginnings
<1>5. PICK kept \in F : \A y \in F : y \subseteq kept => y = kept
  <2> HIDE DEF F
  <2> QED
    BY <1>2, <1>3, <1>4, SmallestMember
<1>6. ASSUME NEW less \in Beginnings(entries, kept), less # kept
      PROVE  ~Fits(build, objects, state, less)
  <2>1. less \subseteq kept /\ kept \subseteq moved
    BY <1>5, Zenon DEF Beginnings
  <2>2. less \in Beginnings(entries, moved)
    BY <1>5, <1>6, <2>1, Zenon DEF Beginnings
  <2> QED
    BY <1>5, <1>6, <2>1, <2>2, Zenon
<1>7. KeepsOut(build, objects, state, entries, kept)
  BY <1>5, <1>6, Zenon DEF KeepsOut, moved
<1>8. \E k \in Beginnings(entries, Moved(entries, state)) :
         KeepsOut(build, objects, state, entries, k)
  BY <1>7, Zenon DEF KeepsOut
<1>9. KeptOut(build, objects, state, entries) =
        CHOOSE k \in Beginnings(entries, Moved(entries, state)) :
           /\ Fits(build, objects, state, k) \/ k = Moved(entries, state)
           /\ \A less \in Beginnings(entries, k) :
                 less # k => ~Fits(build, objects, state, less)
  BY Zenon DEF KeptOut, Fits
<1> QED
  BY <1>8, <1>9, Zenon DEF KeepsOut

-----------------------------------------------------------------------------
(* Compiling against what a compilation wrote.                             *)

\* What serves a policy is what serves it after it was written, with no more
\* generations kept out than before.
LEMMA ServedAgain ==
    ASSUME NEW build, NEW objects, NEW state, NEW kept, NEW x \in SUBSET kept,
           NEW t, t = Render(Compile(build, objects, state, kept)),
           NEW n \in Named(objects)
    PROVE  Served(build, objects, t, x, n) = Served(build, objects, state, x, n)
<1> DEFINE o == Object(objects, n)
           p == Previous(state, n)
           b == Served(build, objects, state, kept, n)
<1>1. (n \in DOMAIN t <=> b.uid # 0) /\ (n \in DOMAIN t => t[n] = b)
  BY RenderServes, Zenon
<1>2. CASE LatestCompiles(build, o) /\ n \notin x
  BY <1>2, Zenon DEF Served
<1>3. CASE ~(LatestCompiles(build, o) /\ n \notin x)
  <2>1. ~(LatestCompiles(build, o) /\ n \notin kept)
    BY <1>3, Zenon
  <2>2. CASE Stays(build, o, p)
    <3>1. b = p /\ p.uid # 0
      BY <2>1, <2>2, Zenon DEF Served, Stays, Good
    <3>2. Previous(t, n) = p
      BY <1>1, <3>1, Zenon DEF Previous
    <3> QED
      BY <3>2, Zenon DEF Served
  <2>3. CASE ~Stays(build, o, p)
    <3>1. b = NoBundle
      BY <2>1, <2>3, Zenon DEF Served
    <3>2. Previous(t, n) = NoBundle
      BY <1>1, <3>1, Zenon DEF Previous, NoBundle
    <3>3. ~Stays(build, o, NoBundle)
      BY Zenon DEF Stays, Good, NoBundle
    <3> QED
      BY <1>3, <2>3, <3>2, <3>3, Zenon DEF Served
  <2> QED
    BY <2>2, <2>3, Zenon
<1> QED
  BY <1>2, <1>3, Zenon

\* So a compilation against what was written renders as before.
LEMMA RenderedAgain ==
    ASSUME NEW build, NEW objects, NEW state, NEW kept, NEW x \in SUBSET kept,
           NEW t, t = Render(Compile(build, objects, state, kept))
    PROVE  Render(Compile(build, objects, t, x)) = Render(Compile(build, objects, state, x))
<1>1. \A n \in Named(objects) :
        Served(build, objects, t, x, n) = Served(build, objects, state, x, n)
  BY ServedAgain, Zenon
<1> QED
  BY <1>1, SameRendered

\* After a write the generations that moved are the ones that were kept out.
LEMMA MovedAgain ==
    ASSUME NEW build, NEW objects, NEW state, NEW kept,
           NEW entries, entries = Render(Compile(build, objects, state, {})),
           NEW t, t = Render(Compile(build, objects, state, kept)),
           kept \subseteq Moved(entries, state)
    PROVE  Moved(entries, t) = kept
<1>1. DOMAIN entries \subseteq Named(objects)
  BY RenderServes, Zenon
<1>2. ASSUME NEW n \in DOMAIN entries
      PROVE  entries[n] = Served(build, objects, state, {}, n) /\ entries[n].uid # 0
  BY <1>1, RenderServes
<1>3. ASSUME NEW n \in DOMAIN entries
      PROVE  LET b == Served(build, objects, state, kept, n)
             IN (n \in DOMAIN t <=> b.uid # 0) /\ (n \in DOMAIN t => t[n] = b)
  BY <1>1, RenderServes, Zenon
<1>4. ASSUME NEW n \in kept PROVE n \in Moved(entries, t)
  <2>1. n \in DOMAIN entries
    BY Zenon DEF Moved
  <2> DEFINE p == Previous(state, n)
  <2>2. CASE n \notin DOMAIN t
    BY <2>1, <2>2, Zenon DEF Moved
  <2>3. CASE n \in DOMAIN t
    <3>1. t[n] = p /\ p.uid # 0
      BY <1>3, <2>1, <2>3, Zenon DEF Served, NoBundle
    <3>2. n \in DOMAIN state /\ p = state[n]
      BY <3>1, Zenon DEF Previous, NoBundle
    <3> QED
      BY <2>1, <3>1, <3>2 DEF Moved
  <2> QED
    BY <2>2, <2>3, Zenon
<1>5. ASSUME NEW n \in Moved(entries, t), n \notin kept PROVE FALSE
  <2>1. n \in DOMAIN entries
    BY Zenon DEF Moved
  <2>2. Served(build, objects, state, kept, n) = Served(build, objects, state, {}, n)
    BY <1>5, Zenon DEF Served
  <2>3. n \in DOMAIN t /\ t[n] = entries[n]
    BY <1>2, <1>3, <2>1, <2>2, Zenon
  <2> QED
    BY <2>3, Zenon DEF Moved
<1> QED
  BY <1>4, <1>5, Zenon

\* A pass that compiles against what a pass of the same build wrote for the same
\* objects reaches the same verdict on every policy.
LEMMA FitAgain ==
    ASSUME NEW build, NEW objects, IsFiniteSet(Named(objects)), NEW state,
           NEW result, result = Fit(build, objects, state),
           NEW n \in Named(objects)
    PROVE  LET again == Fit(build, objects, Render(result))
           IN /\ again[n].compiled = result[n].compiled
              /\ again[n].tooLarge = result[n].tooLarge
              /\ again[n].bundle = result[n].bundle
<1> DEFINE entries == Render(Compile(build, objects, state, {}))
           t == Render(result)
           again == Fit(build, objects, t)
<1>1. SUFFICES \E kept : /\ result = Compile(build, objects, state, kept)
                         /\ again = Compile(build, objects, t, kept)
  <2>1. PICK kept : /\ result = Compile(build, objects, state, kept)
                    /\ again = Compile(build, objects, t, kept)
    BY <1>1, Zenon
  <2> HIDE DEF again, t
  <2>2. /\ again[n].compiled = LatestCompiles(build, Object(objects, n))
        /\ again[n].tooLarge = (LatestCompiles(build, Object(objects, n)) /\ n \in kept)
        /\ again[n].bundle = Served(build, objects, t, kept, n)
    BY <2>1, CompileServes
  <2>3. /\ result[n].compiled = LatestCompiles(build, Object(objects, n))
        /\ result[n].tooLarge = (LatestCompiles(build, Object(objects, n)) /\ n \in kept)
        /\ result[n].bundle = Served(build, objects, state, kept, n)
    BY <2>1, CompileServes
  <2>4. Served(build, objects, t, kept, n) = Served(build, objects, state, kept, n)
    <3>1. kept \in SUBSET kept /\ t = Render(Compile(build, objects, state, kept))
      BY <2>1, Zenon DEF t
    <3> QED
      BY <3>1, ServedAgain, Zenon
  <2> QED
    BY <2>2, <2>3, <2>4, Zenon DEF again, t
<1>2. CASE Size(entries) <= Limit
  <2>1. result = Compile(build, objects, state, {})
    BY <1>2, Zenon DEF Fit
  <2>2. Render(Compile(build, objects, t, {})) = entries
    BY <2>1, RenderedAgain
  <2>3. again = Compile(build, objects, t, {})
    BY <1>2, <2>2, Zenon DEF Fit
  <2> QED
    BY <2>1, <2>3, Zenon
<1>3. CASE ~(Size(entries) <= Limit)
  <2> DEFINE kept == KeptOut(build, objects, state, entries)
             once == KeptOut(build, objects, t, entries)
  <2>1. result = Compile(build, objects, state, kept)
    BY <1>3, Zenon DEF Fit
  <2>2. t = Render(Compile(build, objects, state, kept))
    BY <2>1, Zenon
  <2>3. IsFiniteSet(DOMAIN entries)
    <3>1. DOMAIN entries \subseteq Named(objects)
      BY RenderServes, Zenon
    <3> QED
      BY <3>1, FS_Subset, Zenon
  <2>4. KeepsOut(build, objects, state, entries, kept)
    BY <2>3, KeptOutTells, Zenon
  <2>5. KeepsOut(build, objects, t, entries, once)
    BY <2>3, KeptOutTells, Zenon
  <2> HIDE DEF kept, once, t, entries
  <2>6. Render(Compile(build, objects, t, {})) = entries
    <3>1. {} \in SUBSET kept
      BY Zenon
    <3> QED
      BY <2>2, <3>1, RenderedAgain DEF entries
  <2>7. again = Compile(build, objects, t, once)
    BY <1>3, <2>6, Zenon DEF Fit, once
  <2>8. Moved(entries, t) = kept
    <3>1. kept \subseteq Moved(entries, state)
      BY <2>4, Zenon DEF KeepsOut, Beginnings
    <3> QED
      BY <2>2, <3>1, MovedAgain DEF entries
  <2>9. once \in Beginnings(entries, kept) /\ once \in SUBSET kept
    BY <2>5, <2>8, Zenon DEF KeepsOut, Beginnings
  <2>10. Fits(build, objects, t, once) = Fits(build, objects, state, once)
    <3>1. Render(Compile(build, objects, t, once)) = Render(Compile(build, objects, state, once))
      BY <2>2, <2>9, RenderedAgain
    <3> QED
      BY <3>1, Zenon DEF Fits
  <2>11. once = kept
    BY <2>4, <2>5, <2>8, <2>9, <2>10, Zenon DEF KeepsOut
  <2> QED
    BY <2>1, <2>7, <2>11, Zenon
<1> QED
  BY <1>2, <1>3, Zenon

-----------------------------------------------------------------------------
(* The invariant.                                                          *)

\* Objects the API server has had: their UIDs count from one.
Live == [name : Names, uid : Nat \ {0}, gen : Nat, spec : Specs]

Outcomes ==
    [compiled : BOOLEAN, tooLarge : BOOLEAN, active : Nat,
     bundle : Bundles \cup {NoBundle}, lost : BOOLEAN]
Results == UNION {[D -> Outcomes] : D \in SUBSET Names}

ConfigMaps ==
    [present : BOOLEAN, by : Builds \cup {"none"}, entries : EntryMaps, damaged : SUBSET Names]

Sent ==
    [sent : BOOLEAN, by : Builds \cup {"none"}, entries : EntryMaps,
     create : BOOLEAN, fresh : BOOLEAN]

Passes ==
    [pc : {"idle", "load", "get", "write"}, view : SUBSET Live, result : Results,
     create : BOOLEAN, fresh : BOOLEAN]

\* What an informer may hold: one object of a name, as some watch reads a
\* generation that was written.
Seen(objects, w) == objects \subseteq w /\ Apart(objects)

\* Entries whose bundles were written for the objects of their names.
Authored(entries, w) ==
    \A n \in DOMAIN entries :
        [name |-> n, uid |-> entries[n].uid, gen |-> entries[n].gen,
         spec |-> entries[n].spec] \in w

\* What a pass compiled against: bundles that were written and that the build
\* decodes.
Loaded(state, build, w) ==
    /\ state \in EntryMaps
    /\ Authored(state, w)
    /\ \A n \in DOMAIN state : state[n].spec \notin Undefined[build]

ObjectsInv ==
    /\ world \in Scenario
    /\ written \subseteq Live
    /\ uids \in [Names -> Nat]
    /\ Seen(policies, written)
    /\ \A o \in policies : [o EXCEPT !.spec = Pruned[@]] \in written

InformersInv ==
    /\ cache \in [Pods -> SUBSET Live]
    /\ \A p \in Pods : Seen(cache[p], written)
    /\ oldWatch \subseteq Pods

ConfigInv ==
    /\ config \in ConfigMaps /\ Authored(config.entries, written)
    /\ late \in Sent /\ Authored(late.entries, written)

\* A pass runs in the process that holds the lease, on objects that were written;
\* from the compilation on, its result is a fit of them against bundles that were
\* written.
PassInv ==
    /\ leader \in Pods \cup {NoPod}
    /\ queued \in BOOLEAN
    /\ pass \in Passes
    /\ leader = NoPod => pass = Idle /\ ~queued
    /\ Seen(pass.view, written)
    /\ pass.pc \in {"idle", "load"} => pass.result = <<>>
    /\ pass.pc \in {"get", "write"} =>
          \E state : /\ Loaded(state, Build[leader], written)
                     /\ pass.result = Fit(Build[leader], pass.view, state)

WriterInv == ObjectsInv /\ InformersInv /\ ConfigInv /\ PassInv

\* What serves a policy is a bundle of the policy's object that was written and
\* that the build decodes, or nothing.
LEMMA ServedWritten ==
    ASSUME NEW build, NEW w \in SUBSET Live, NEW view, Seen(view, w),
           NEW state, Loaded(state, build, w), NEW kept, NEW n \in Named(view),
           NEW b, b = Served(build, view, state, kept, n)
    PROVE  /\ n \in Names
           /\ b \in Bundles \cup {NoBundle}
           /\ b.uid # 0 =>
                 /\ b \in Bundles
                 /\ b.spec \notin Undefined[build]
                 /\ \E o \in view : o.name = n /\ o.uid = b.uid
                 /\ [name |-> n, uid |-> b.uid, gen |-> b.gen, spec |-> b.spec] \in w
<1> DEFINE o == Object(view, n)
           p == Previous(state, n)
<1>1. o \in view /\ o.name = n
  BY Zenon DEF Named, Object
<1>2. o \in Live /\ o \in w
  BY <1>1, Zenon DEF Seen
<1>3. n \in Names
  BY <1>1, <1>2, Zenon DEF Live
<1>4. b = IF LatestCompiles(build, o) /\ n \notin kept THEN BundleOf(o)
          ELSE IF Stays(build, o, p) THEN p ELSE NoBundle
  BY Zenon DEF Served
<1>5. CASE LatestCompiles(build, o) /\ n \notin kept
  <2>1. b = [uid |-> o.uid, gen |-> o.gen, spec |-> o.spec]
    BY <1>4, <1>5, Zenon DEF BundleOf
  <2>2. [name |-> n, uid |-> b.uid, gen |-> b.gen, spec |-> b.spec] = o
    BY <1>1, <1>2, <2>1 DEF Live
  <2> HIDE DEF o
  <2> QED
    BY <1>1, <1>2, <1>3, <1>5, <2>1, <2>2 DEF Live, Bundles, LatestCompiles
<1>6. CASE b = NoBundle
  BY <1>3, <1>6 DEF NoBundle
<1>7. CASE Stays(build, o, p) /\ b = p
  <2>1. p.uid # 0 /\ p.uid = o.uid
    BY <1>7, Zenon DEF Stays, Good
  <2>2. n \in DOMAIN state /\ p = state[n]
    BY <2>1, Zenon DEF Previous, NoBundle
  <2>3. state[n] \in Bundles
    BY <2>2, Zenon DEF Loaded, EntryMaps
  <2>4. [name |-> n, uid |-> p.uid, gen |-> p.gen, spec |-> p.spec] \in w
        /\ p.spec \notin Undefined[build]
    BY <2>2, Zenon DEF Loaded, Authored
  <2> QED
    BY <1>1, <1>3, <1>7, <2>1, <2>2, <2>3, <2>4, Zenon
<1> QED
  BY <1>4, <1>5, <1>6, <1>7, Zenon

\* The outcome of one policy has its type.
LEMMA OutcomeTypes ==
    ASSUME NEW build, NEW w \in SUBSET Live, NEW view, Seen(view, w),
           NEW state, Loaded(state, build, w), NEW kept, NEW n \in Named(view)
    PROVE  Compile(build, view, state, kept)[n] \in Outcomes
<1> DEFINE r == Compile(build, view, state, kept)[n]
           o == Object(view, n)
           p == Previous(state, n)
<1>1. r = CompileDomain(build, o, p, n \in kept)
  BY Zenon DEF Compile
<1>2. r.bundle = Served(build, view, state, kept, n)
  BY CompileServes
<1>3. r.bundle \in Bundles \cup {NoBundle}
  <2> DEFINE b == r.bundle
  <2> HIDE DEF b
  <2>1. b = Served(build, view, state, kept, n)
    BY <1>2, Zenon DEF b
  <2>2. b \in Bundles \cup {NoBundle}
    BY <2>1, ServedWritten, Zenon
  <2> QED
    BY <2>2, Zenon DEF b
<1>4. \E b \in {BundleOf(o), NoBundle, p}, lost \in BOOLEAN :
        r = [compiled |-> LatestCompiles(build, o),
             tooLarge |-> LatestCompiles(build, o) /\ n \in kept,
             active |-> b.gen, bundle |-> b, lost |-> lost]
  <2> HIDE DEF o, p, r
  <2> QED
    BY <1>1, Zenon DEF CompileDomain
<1>5. PICK b \in {BundleOf(o), NoBundle, p}, lost \in BOOLEAN :
        r = [compiled |-> LatestCompiles(build, o),
             tooLarge |-> LatestCompiles(build, o) /\ n \in kept,
             active |-> b.gen, bundle |-> b, lost |-> lost]
  BY <1>4, Zenon
<1> HIDE DEF r, o
<1>6. b \in Bundles \cup {NoBundle}
  BY <1>3, <1>5, Zenon
<1>7. b.gen \in Nat
  BY <1>6 DEF Bundles, NoBundle
<1>8. LatestCompiles(build, o) \in BOOLEAN
  BY Zenon DEF LatestCompiles
<1> QED
  BY <1>5, <1>6, <1>7, <1>8 DEF Outcomes, r

\* What a pass decides: a result of its type, whose entries were written for the
\* objects it sees.
Decides(result, view, build, w) ==
    /\ result \in Results
    /\ DOMAIN result = Named(view)
    /\ DOMAIN Render(result) \subseteq Named(view)
    /\ Loaded(Render(result), build, w)
    /\ \A n \in DOMAIN Render(result) :
          \E o \in view : o.name = n /\ o.uid = Render(result)[n].uid

\* Fit decides so.
LEMMA FitDecides ==
    ASSUME NEW build, NEW w \in SUBSET Live, NEW view, Seen(view, w),
           NEW state, Loaded(state, build, w),
           NEW result, result = Fit(build, view, state)
    PROVE  Decides(result, view, build, w)
<1>1. PICK kept : result = Compile(build, view, state, kept)
  BY FitCompiles, Zenon
<1> DEFINE entries == Render(result)
<1>2. DOMAIN result = Named(view) /\ result = [n \in Named(view) |-> result[n]]
  BY <1>1, Zenon DEF Compile
<1>3. \A n \in Named(view) : n \in Names /\ result[n] \in Outcomes
  <2>1. \A n \in Named(view) : n \in Names
    BY Zenon DEF Seen, Named, Live
  <2>2. \A n \in Named(view) : result[n] \in Outcomes
    BY <1>1, OutcomeTypes, Zenon
  <2> QED
    BY <2>1, <2>2, Zenon
<1>4. result \in Results
  <2> HIDE DEF entries
  <2>1. Named(view) \in SUBSET Names
    BY <1>3, Zenon
  <2>2. result \in [Named(view) -> Outcomes]
    BY <1>2, <1>3, Zenon
  <2> QED
    BY <2>1, <2>2, Zenon DEF Results
<1>5. entries = [n \in DOMAIN entries |-> entries[n]]
  BY Zenon DEF Render
<1> HIDE DEF entries
<1>6. DOMAIN entries \subseteq Named(view)
  BY <1>1, RenderServes, Zenon DEF entries
<1>7. ASSUME NEW n \in DOMAIN entries
      PROVE  /\ n \in Names
             /\ entries[n] \in Bundles
             /\ entries[n].spec \notin Undefined[build]
             /\ \E o \in view : o.name = n /\ o.uid = entries[n].uid
             /\ [name |-> n, uid |-> entries[n].uid, gen |-> entries[n].gen,
                 spec |-> entries[n].spec] \in w
  <2> DEFINE b == entries[n]
  <2> HIDE DEF b
  <2>1. b = Served(build, view, state, kept, n) /\ b.uid # 0
    BY <1>1, <1>6, RenderServes DEF entries, b
  <2>2. n \in Named(view)
    BY <1>6, Zenon
  <2>3. /\ n \in Names
        /\ b \in Bundles
        /\ b.spec \notin Undefined[build]
        /\ \E o \in view : o.name = n /\ o.uid = b.uid
        /\ [name |-> n, uid |-> b.uid, gen |-> b.gen, spec |-> b.spec] \in w
    BY <2>1, <2>2, ServedWritten
  <2> QED
    BY <2>3, Zenon DEF b
<1>8. entries \in EntryMaps
  <2>1. DOMAIN entries \in SUBSET Names
    BY <1>7, Zenon
  <2>2. entries \in [DOMAIN entries -> Bundles]
    BY <1>5, <1>7, Zenon
  <2> QED
    BY <2>1, <2>2, Zenon DEF EntryMaps
<1>9. Loaded(entries, build, w)
  BY <1>7, <1>8, Zenon DEF Loaded, Authored
<1> QED
  BY <1>2, <1>4, <1>6, <1>7, <1>9, Zenon DEF Decides, entries

\* What Store.Load gives was written, and the build decodes it.
LEMMA LoadDecodes ==
    ASSUME ConfigInv, NEW build, NEW names
    PROVE  Loaded(StoreLoad(config, build, names), build, written)
<1> DEFINE state == StoreLoad(config, build, names)
           entries == config.entries
<1>1. entries \in EntryMaps /\ Authored(entries, written)
  BY Zenon DEF ConfigInv, ConfigMaps
<1>2. /\ DOMAIN state \subseteq DOMAIN entries
      /\ state = [n \in DOMAIN state |-> entries[n]]
      /\ \A n \in DOMAIN state : entries[n].spec \notin Undefined[build]
  BY Zenon DEF StoreLoad
<1> HIDE DEF state, entries
<1>3. PICK D \in SUBSET Names : entries \in [D -> Bundles]
  BY <1>1, Zenon DEF EntryMaps
<1>4. DOMAIN state \in SUBSET Names /\ state \in [DOMAIN state -> Bundles]
  BY <1>2, <1>3, Zenon
<1>5. state \in EntryMaps
  BY <1>4, Zenon DEF EntryMaps
<1>6. \A n \in DOMAIN state : state[n] = entries[n]
  BY <1>2, Zenon
<1> QED
  BY <1>1, <1>2, <1>5, <1>6, Zenon DEF Loaded, Authored, state

\* Every informer's read of the API server's objects was written.
LEMMA ReadSeen ==
    ASSUME ObjectsInv, NEW p
    PROVE  Seen(Read(p), written)
<1>1. policies \subseteq Live
  BY Zenon DEF ObjectsInv, Seen
<1> DEFINE AsRead(o) == [o EXCEPT !.spec = Pruned[@]]
<1>2. \A o \in policies : AsRead(o).name = o.name
  BY <1>1, Zenon DEF Live
<1>3. CASE p \in oldWatch
  <2>1. Read(p) = {AsRead(o) : o \in policies}
    BY <1>3, Zenon DEF Read
  <2>2. \A o \in policies : AsRead(o) \in written
    BY Zenon DEF ObjectsInv
  <2>3. Apart(policies)
    BY Zenon DEF ObjectsInv, Seen
  <2> HIDE DEF AsRead
  <2> QED
    BY <1>2, <2>1, <2>2, <2>3 DEF Seen, Apart
<1>4. CASE p \notin oldWatch
  BY <1>4, Zenon DEF Read, ObjectsInv
<1> QED
  BY <1>3, <1>4, Zenon

-----------------------------------------------------------------------------
(* The invariant holds.                                                    *)

\* Nothing is a map of entries, and a result.
LEMMA Nothing ==
    /\ <<>> \in EntryMaps /\ <<>> \in Results
    /\ \A w : Authored(<<>>, w)
    /\ Render(<<>>) = <<>>
<1>1. {} \in SUBSET Names /\ <<>> \in [{} -> Bundles] /\ <<>> \in [{} -> Outcomes]
  OBVIOUS
<1>2. <<>> \in EntryMaps /\ <<>> \in Results
  BY <1>1, Zenon DEF EntryMaps, Results
<1> QED
  BY <1>2 DEF Authored, Render

\* Before the first pass nothing has been written.
LEMMA InitHolds == Init => WriterInv
<1> SUFFICES ASSUME Init PROVE WriterInv
  BY Zenon
<1>1. ObjectsInv
  BY WriterConstants, Zenon DEF Init, ObjectsInv, Seen, Apart
<1>2. InformersInv
  BY WriterConstants, Zenon DEF Init, InformersInv, Seen, Apart, Scenario
<1>3. ConfigInv
  BY Nothing, Zenon DEF Init, ConfigInv, Absent, NoWrite, ConfigMaps, Sent
<1>4. PassInv
  BY Nothing, Zenon DEF Init, PassInv, Idle, Passes, Seen, Apart
<1> QED
  BY <1>1, <1>2, <1>3, <1>4, Zenon DEF WriterInv

\* A scenario stays one, whatever of it is spent.
LEMMA SpentWorld ==
    ASSUME world \in Scenario, NEW kind \in {"edits", "crashes", "faults", "hands"},
           Once(kind)
    PROVE  world' \in Scenario
BY DEF Scenario, Once

\* More that was written changes nothing for what informers, the ConfigMap and a
\* pass hold.
LEMMA MoreWritten ==
    ASSUME WriterInv, written \subseteq written',
           UNCHANGED <<config, cache, oldWatch, leader, queued, pass, late>>
    PROVE  InformersInv' /\ ConfigInv' /\ PassInv'
<1> USE DEF WriterInv
<1>1. InformersInv'
  BY Zenon DEF InformersInv, Seen
<1>2. ConfigInv'
  BY Zenon DEF ConfigInv, Authored
<1>3. \A state, build : Loaded(state, build, written) => Loaded(state, build, written')
  BY Zenon DEF Loaded, Authored
<1>4. PassInv'
  BY <1>3, Zenon DEF PassInv, Seen
<1> QED
  BY <1>1, <1>2, <1>4, Zenon

\* An author's step: the name has at most the given object, which was written as
\* every watch reads it.
LEMMA AppliedHolds ==
    ASSUME WriterInv, NEW n \in Names, NEW o, Applied(n, o),
           uids' \in [Names -> Nat],
           o \subseteq Live, \A x, y \in o : x = y, \A x \in o : x.name = n
    PROVE  WriterInv'
<1> DEFINE Read2(x) ==
        {[name |-> x.name, uid |-> x.uid, gen |-> x.gen, spec |-> s] :
            s \in {x.spec, Pruned[x.spec]}}
           new == UNION {Read2(x) : x \in o}
           rest == {x \in policies : x.name # n}
<1>1. policies' = rest \cup o /\ written' = written \cup new
  BY Zenon DEF Applied
<1>2. world' \in Scenario
  BY SpentWorld, Zenon DEF Applied, WriterInv, ObjectsInv
<1>3. ASSUME NEW x \in Live
      PROVE  /\ x = [name |-> x.name, uid |-> x.uid, gen |-> x.gen, spec |-> x.spec]
             /\ [x EXCEPT !.spec = Pruned[@]] =
                  [name |-> x.name, uid |-> x.uid, gen |-> x.gen, spec |-> Pruned[x.spec]]
             /\ Read2(x) \subseteq Live
  BY WriterConstants DEF Live
<1>4. \A x \in o : x \in Read2(x) /\ [x EXCEPT !.spec = Pruned[@]] \in Read2(x)
  BY <1>3, Zenon
<1> HIDE DEF Read2
<1>5. new \subseteq Live /\ \A x \in o : x \in new /\ [x EXCEPT !.spec = Pruned[@]] \in new
  <2>1. \A x \in o : Read2(x) \subseteq new
    BY Zenon
  <2>2. \A x \in o : Read2(x) \subseteq Live
    BY <1>3, Zenon
  <2>3. new \subseteq Live
    BY <2>2, Zenon
  <2> HIDE DEF new
  <2> QED
    BY <1>4, <2>1, <2>3, Zenon
<1> HIDE DEF new
<1>6. rest \subseteq policies
  BY Zenon
<1>7. Apart(rest \cup o)
  BY Zenon DEF Apart, WriterInv, ObjectsInv, Seen
<1> HIDE DEF rest
<1>8. Seen(policies', written')
  BY <1>1, <1>5, <1>6, <1>7, Zenon DEF Seen, WriterInv, ObjectsInv
<1>9. \A x \in policies' : [x EXCEPT !.spec = Pruned[@]] \in written'
  <2>1. \A x \in policies : [x EXCEPT !.spec = Pruned[@]] \in written
    BY Zenon DEF WriterInv, ObjectsInv
  <2> QED
    BY <1>1, <1>5, <1>6, <2>1, Zenon
<1>10. written' \subseteq Live
  BY <1>1, <1>5, Zenon DEF WriterInv, ObjectsInv
<1>11. ObjectsInv'
  BY <1>2, <1>8, <1>9, <1>10, Zenon DEF ObjectsInv
<1>12. InformersInv' /\ ConfigInv' /\ PassInv'
  BY <1>1, MoreWritten, Zenon DEF Applied
<1> QED
  BY <1>11, <1>12, Zenon DEF WriterInv

\* The authors' steps.
LEMMA AuthorsHold ==
    ASSUME WriterInv, NEW n \in Names, NEW s \in world.specs[n],
           CreatePolicy(n, s) \/ EditPolicy(n, s)
    PROVE  WriterInv'
<1>1. s \in Specs /\ uids \in [Names -> Nat]
  BY Zenon DEF WriterInv, ObjectsInv, Scenario
<1>2. CASE CreatePolicy(n, s)
  <2> DEFINE x == [name |-> n, uid |-> uids[n] + 1, gen |-> 1, spec |-> s]
  <2>1. x \in Live /\ x.name = n
    BY <1>1 DEF Live
  <2>2. uids' \in [Names -> Nat] /\ Applied(n, {x})
    BY <1>1, <1>2 DEF CreatePolicy
  <2> HIDE DEF x
  <2> QED
    BY <2>1, <2>2, AppliedHolds
<1>3. CASE EditPolicy(n, s)
  <2> DEFINE old == Object(policies, n)
             x == [old EXCEPT !.gen = @ + 1, !.spec = s]
  <2>1. old \in policies /\ old.name = n
    BY <1>3, Zenon DEF EditPolicy, Named, Object
  <2>2. old \in Live
    BY <2>1, Zenon DEF WriterInv, ObjectsInv, Seen
  <2>3. uids' \in [Names -> Nat] /\ Applied(n, {x})
    BY <1>1, <1>3, Zenon DEF EditPolicy
  <2> HIDE DEF old
  <2>4. old.gen + 1 \in Nat /\ old.uid \in Nat \ {0} /\ old.name \in Names
    BY <2>2 DEF Live
  <2>5. x = [name |-> old.name, uid |-> old.uid, gen |-> old.gen + 1, spec |-> s]
    <3> DEFINE y == [old EXCEPT !.gen = @ + 1]
    <3>1. y \in Live /\ y = [name |-> old.name, uid |-> old.uid, gen |-> old.gen + 1,
                            spec |-> old.spec]
      BY <2>2 DEF Live
    <3>2. x = [y EXCEPT !.spec = s]
      BY <2>2, Zenon DEF Live
    <3> HIDE DEF x, y
    <3> QED
      BY <3>1, <3>2, Zenon DEF Live
  <2>6. x \in Live /\ x.name = n
    <3> HIDE DEF x
    <3> QED
      BY <1>1, <2>1, <2>4, <2>5, Zenon DEF Live
  <2> HIDE DEF x
  <2> QED
    BY <2>3, <2>6, AppliedHolds
<1> QED
  BY <1>2, <1>3, Zenon

\* The deletion of a policy.
LEMMA DeletionHolds ==
    ASSUME WriterInv, NEW n \in Names, DeletePolicy(n)
    PROVE  WriterInv'
<1>1. uids' \in [Names -> Nat] /\ Applied(n, {})
  BY Zenon DEF DeletePolicy, WriterInv, ObjectsInv
<1> QED
  BY <1>1, AppliedHolds

\* What the API server has stays as it is.
LEMMA ObjectsStay ==
    ASSUME ObjectsInv, UNCHANGED <<policies, uids, written>>, world' \in Scenario
    PROVE  ObjectsInv'
BY Zenon DEF ObjectsInv, Seen

\* What an informer holds is replaced by what was written.
LEMMA InformerReads ==
    ASSUME ObjectsInv, InformersInv, UNCHANGED written, NEW p \in Pods, NEW objects,
           Seen(objects, written), cache' = [cache EXCEPT ![p] = objects],
           oldWatch' \subseteq oldWatch
    PROVE  InformersInv'
<1>1. objects \in SUBSET Live
  BY Zenon DEF Seen, ObjectsInv
<1>2. cache' \in [Pods -> SUBSET Live]
  BY <1>1, Zenon DEF InformersInv
<1>3. \A q \in Pods : cache'[q] \in {cache[q], objects}
  BY Zenon DEF InformersInv
<1> QED
  BY <1>2, <1>3, Zenon DEF InformersInv

\* A pass at one of its last two steps holds a decision, and its write carries it.
LEMMA PassDecides ==
    ASSUME WriterInv, pass.pc \in {"get", "write"}
    PROVE  /\ leader \in Pods
           /\ Decides(pass.result, pass.view, Build[leader], written)
           /\ Request \in Sent /\ Authored(Request.entries, written)
<1>1. leader \in Pods
  BY DEF WriterInv, PassInv, Idle
<1>2. PICK state : /\ Loaded(state, Build[leader], written)
                   /\ pass.result = Fit(Build[leader], pass.view, state)
  BY Zenon DEF WriterInv, PassInv
<1>3. Seen(pass.view, written) /\ written \in SUBSET Live
  BY Zenon DEF WriterInv, PassInv, ObjectsInv
<1>4. Decides(pass.result, pass.view, Build[leader], written)
  BY <1>2, <1>3, FitDecides, Zenon
<1>5. Render(pass.result) \in EntryMaps /\ Authored(Render(pass.result), written)
  BY <1>4, Zenon DEF Decides, Loaded
<1>6. Build[leader] \in Builds /\ pass.create \in BOOLEAN /\ pass.fresh \in BOOLEAN
  BY <1>1, WriterConstants, Zenon DEF WriterInv, PassInv, Passes
<1> QED
  BY <1>1, <1>4, <1>5, <1>6, Zenon DEF Request, Sent

\* Events, a new list, an election.
LEMMA InformersHold ==
    ASSUME WriterInv, NEW p \in world.pods, Deliver(p) \/ Relist(p) \/ Elect(p)
    PROVE  WriterInv'
<1> USE DEF WriterInv
<1>1. p \in Pods
  BY Zenon DEF ObjectsInv, Scenario
<1>2. ObjectsInv'
  BY ObjectsStay, Zenon DEF Deliver, Relist, Elect, ObjectsInv
<1>3. ConfigInv'
  BY Zenon DEF ConfigInv, Deliver, Relist, Elect
<1>4. CASE Deliver(p)
  <2>1. InformersInv'
    BY <1>1, <1>4, ReadSeen, InformerReads, Zenon DEF Deliver
  <2>2. PassInv'
    BY <1>1, <1>4, WriterConstants, Zenon DEF Deliver, PassInv
  <2> QED
    BY <1>2, <1>3, <2>1, <2>2, Zenon
<1>5. CASE Relist(p)
  <2>1. Seen(policies, written)
    BY Zenon DEF ObjectsInv
  <2>2. InformersInv'
    BY <1>1, <1>5, <2>1, InformerReads, Zenon DEF Relist
  <2>3. PassInv'
    BY <1>5, Zenon DEF Relist, PassInv
  <2> QED
    BY <1>2, <1>3, <2>2, <2>3
<1>6. CASE Elect(p)
  <2>1. InformersInv'
    BY <1>6, Zenon DEF Elect, InformersInv
  <2>2. pass = Idle
    BY <1>6, Zenon DEF Elect, PassInv
  <2>3. PassInv'
    BY <1>1, <1>6, <2>2, WriterConstants, Zenon DEF Elect, PassInv, Idle
  <2> QED
    BY <1>2, <1>3, <2>1, <2>3
<1> QED
  BY <1>4, <1>5, <1>6, Zenon

\* A pass that has ended holds nothing.
LEMMA IdlePass ==
    ASSUME leader' \in Pods \cup {NoPod}, queued' \in BOOLEAN, pass' = Idle,
           leader' = NoPod => ~queued'
    PROVE  PassInv'
BY Nothing, Zenon DEF PassInv, Idle, Passes, Seen, Apart

\* A write in flight that another one overtook.
LEMMA Overtaken ==
    ASSUME ConfigInv, UNCHANGED written, late' = [late EXCEPT !.fresh = FALSE],
           config' \in ConfigMaps, Authored(config'.entries, written)
    PROVE  ConfigInv'
<1>1. late' \in Sent /\ late'.entries = late.entries
  BY Zenon DEF ConfigInv, Sent
<1> QED
  BY <1>1, Zenon DEF ConfigInv

\* A pass whose read another write overtook.
LEMMA OvertakenPass ==
    ASSUME PassInv, UNCHANGED <<written, leader>>, queued' = (leader # NoPod),
           pass' = [pass EXCEPT !.fresh = FALSE]
    PROVE  PassInv'
<1>1. /\ pass' \in Passes /\ pass'.pc = pass.pc /\ pass'.view = pass.view
      /\ pass'.result = pass.result
  BY Zenon DEF PassInv, Passes
<1>2. ASSUME pass = Idle PROVE pass' = Idle
  <2>1. pass \in Passes /\ pass.fresh = FALSE
    BY <1>2, Zenon DEF PassInv, Idle
  <2>2. pass' = pass
    BY <2>1, Zenon DEF Passes
  <2> QED
    BY <1>2, <2>2, Zenon
<1> QED
  BY <1>1, <1>2, Zenon DEF PassInv

\* What a request writes.
LEMMA ContentTypes ==
    ASSUME NEW request \in Sent, Authored(request.entries, written)
    PROVE  Content(request) \in ConfigMaps /\ Authored(Content(request).entries, written)
BY Zenon DEF Content, Sent, ConfigMaps

\* The lease is lost.
LEMMA CrashHolds ==
    ASSUME WriterInv, Crash
    PROVE  WriterInv'
<1> USE DEF WriterInv
<1>1. leader \in Pods
  BY Zenon DEF Crash, PassInv
<1>2. ObjectsInv'
  <2>1. world' \in Scenario
    BY SpentWorld, Zenon DEF Crash, ObjectsInv
  <2> QED
    BY <2>1, ObjectsStay, Zenon DEF Crash
<1>3. InformersInv'
  <2>1. Seen(policies, written)
    BY Zenon DEF ObjectsInv
  <2> QED
    BY <1>1, <2>1, InformerReads, Zenon DEF Crash
<1>4. PassInv'
  BY IdlePass, Zenon DEF Crash
<1>5. ConfigInv'
  <2>1. late' = late \/ (pass.pc = "write" /\ late' = Request)
    BY Zenon DEF Crash
  <2>2. late' \in Sent /\ Authored(late'.entries, written)
    BY <2>1, PassDecides, Zenon DEF ConfigInv
  <2> QED
    BY <2>2, Zenon DEF ConfigInv, Crash
<1> QED
  BY <1>2, <1>3, <1>4, <1>5, Zenon

\* A late write arrives, or somebody changes the ConfigMap.
LEMMA HandsHold ==
    ASSUME WriterInv,
           LateWrite \/ DeleteConfig
             \/ \E names \in SUBSET DOMAIN config.entries : DamageConfig(names)
    PROVE  WriterInv'
<1> USE DEF WriterInv
<1>1. CASE LateWrite
  <2>1. ObjectsInv'
    BY <1>1, ObjectsStay, Zenon DEF LateWrite, ObjectsInv
  <2>2. InformersInv'
    BY <1>1, Zenon DEF LateWrite, InformersInv
  <2>3. NoWrite \in Sent /\ Authored(NoWrite.entries, written)
    BY Nothing, Zenon DEF NoWrite, Sent
  <2>4. Content(late) \in ConfigMaps /\ Authored(Content(late).entries, written)
    BY ContentTypes, Zenon DEF ConfigInv
  <2>5. ConfigInv'
    BY <1>1, <2>3, <2>4, Zenon DEF LateWrite, ConfigInv
  <2>6. PassInv'
    <3>1. CASE Accepts(late)
      BY <1>1, <3>1, OvertakenPass, Zenon DEF LateWrite
    <3>2. CASE ~Accepts(late)
      BY <1>1, <3>2, Zenon DEF LateWrite, PassInv
    <3> QED
      BY <3>1, <3>2, Zenon
  <2> QED
    BY <2>1, <2>2, <2>5, <2>6, Zenon
<1>2. ASSUME NEW new \in ConfigMaps, Authored(new.entries, written), ByHand(new)
      PROVE  WriterInv'
  <2>1. ObjectsInv'
    <3>1. world' \in Scenario
      BY <1>2, SpentWorld, Zenon DEF ByHand, ObjectsInv
    <3> QED
      BY <1>2, <3>1, ObjectsStay, Zenon DEF ByHand
  <2>2. InformersInv'
    BY <1>2, Zenon DEF ByHand, InformersInv
  <2>3. ConfigInv'
    BY <1>2, Overtaken, Zenon DEF ByHand
  <2>4. PassInv'
    BY <1>2, OvertakenPass, Zenon DEF ByHand
  <2> QED
    BY <2>1, <2>2, <2>3, <2>4, Zenon
<1>3. CASE DeleteConfig
  <2>1. Absent \in ConfigMaps /\ Authored(Absent.entries, written)
    BY Nothing, Zenon DEF Absent, ConfigMaps
  <2> QED
    BY <1>2, <1>3, <2>1, Zenon DEF DeleteConfig
<1>4. ASSUME NEW names \in SUBSET DOMAIN config.entries, DamageConfig(names)
      PROVE  WriterInv'
  <2>1. names \in SUBSET Names
    BY Zenon DEF ConfigInv, ConfigMaps, EntryMaps
  <2> DEFINE new == [config EXCEPT !.damaged = names]
  <2>2. new \in ConfigMaps /\ new.entries = config.entries
    BY <2>1, Zenon DEF ConfigInv, ConfigMaps
  <2>3. ByHand(new)
    BY <1>4, Zenon DEF DamageConfig
  <2> HIDE DEF new
  <2> QED
    BY <1>2, <2>2, <2>3, Zenon DEF ConfigInv
<1> QED
  BY <1>1, <1>3, <1>4, Zenon

\* The write as the API server makes it.
LEMMA WrittenHolds ==
    ASSUME WriterInv, pass.pc = "write", Written, UNCHANGED Others, world' \in Scenario
    PROVE  WriterInv'
<1> USE DEF WriterInv
<1>1. ObjectsInv' /\ InformersInv'
  BY ObjectsStay, Zenon DEF Others, InformersInv
<1>2. leader \in Pods /\ Request \in Sent /\ Authored(Request.entries, written)
  BY PassDecides, Zenon
<1>3. config' \in ConfigMaps /\ Authored(config'.entries, written)
  BY <1>2, ContentTypes, Zenon DEF Written
<1>4. ConfigInv'
  BY <1>3, Overtaken, Zenon DEF Written, Others
<1>5. PassInv'
  BY <1>2, WriterConstants, IdlePass, Zenon DEF Written, Others
<1> QED
  BY <1>1, <1>4, <1>5, Zenon

\* A pass that fails.
LEMMA FailHolds ==
    ASSUME WriterInv, leader # NoPod, Fail, UNCHANGED <<config, late, Others>>,
           world' \in Scenario
    PROVE  WriterInv'
<1> USE DEF WriterInv
<1>1. ObjectsInv' /\ InformersInv' /\ ConfigInv'
  BY ObjectsStay, Zenon DEF Others, InformersInv, ConfigInv
<1>2. PassInv'
  BY IdlePass, Zenon DEF Fail, Others, PassInv
<1> QED
  BY <1>1, <1>2, Zenon

\* What Load decides on is a fit against what was written.
LEMMA LoadFits ==
    ASSUME WriterInv, Load, pass'.pc # "idle"
    PROVE  LET state == StoreLoad(config, Build[leader], Named(pass.view))
           IN /\ Loaded(state, Build[leader], written)
              /\ pass'.result = Fit(Build[leader], pass.view, state)
              /\ pass' = [pass EXCEPT !.pc = "get", !.result = pass'.result]
              /\ pass'.view = pass.view
              /\ UNCHANGED queued
<1> DEFINE state == StoreLoad(config, Build[leader], Named(pass.view))
           result == Fit(Build[leader], pass.view, state)
<1>1. Loaded(state, Build[leader], written)
  BY LoadDecodes, Zenon DEF WriterInv
<1> HIDE DEF state
<1>2. pass' = [pass EXCEPT !.pc = "get", !.result = result] /\ UNCHANGED queued
  BY DEF Load, Fail, Idle, state
<1> HIDE DEF result
<1>3. pass \in Passes
  BY Zenon DEF WriterInv, PassInv
<1>4. pass'.result = result /\ pass'.view = pass.view
  BY <1>2, <1>3, Zenon DEF Passes
<1> QED
  BY <1>1, <1>2, <1>4, Zenon DEF state, result

\* Reconcile.
LEMMA ReconcileHolds ==
    ASSUME WriterInv, Reconcile
    PROVE  WriterInv'
<1> USE DEF WriterInv
<1>1. CASE Begin
  <2>1. ObjectsInv' /\ InformersInv' /\ ConfigInv'
    BY <1>1, ObjectsStay, Zenon DEF Begin, Others, ObjectsInv, InformersInv, ConfigInv
  <2>2. leader \in Pods
    BY <1>1, Zenon DEF Begin, Step, PassInv
  <2>3. pass' = [pc |-> "load", view |-> cache[leader], result |-> <<>>,
                 create |-> FALSE, fresh |-> FALSE]
    BY <1>1, Zenon DEF Begin, Idle
  <2>4. cache[leader] \in SUBSET Live /\ Seen(cache[leader], written)
    BY <2>2, Zenon DEF InformersInv
  <2>5. PassInv'
    <3>1. pass' \in Passes
      BY <2>3, <2>4, Nothing, Zenon DEF Passes
    <3>2. leader' = leader /\ written' = written /\ queued' = FALSE /\ leader # NoPod
      BY <1>1, Zenon DEF Begin, Others, Step
    <3>3. pass'.pc = "load" /\ pass'.view = cache[leader] /\ pass'.result = <<>>
      BY <2>3, Zenon
    <3> QED
      BY <2>2, <2>4, <3>1, <3>2, <3>3, Zenon DEF PassInv
  <2> QED
    BY <2>1, <2>5, Zenon
<1>2. CASE Load
  <2>1. leader # NoPod /\ world' \in Scenario
    BY <1>2, Zenon DEF Load, Step, ObjectsInv
  <2>2. CASE Fail
    BY <1>2, <2>1, <2>2, FailHolds, Zenon DEF Load
  <2>3. CASE pass'.pc # "idle"
    <3>1. ObjectsInv' /\ InformersInv' /\ ConfigInv'
      BY <1>2, ObjectsStay, Zenon DEF Load, Others, ObjectsInv, InformersInv, ConfigInv
    <3> DEFINE state == StoreLoad(config, Build[leader], Named(pass.view))
    <3>2. /\ Loaded(state, Build[leader], written)
          /\ pass'.result = Fit(Build[leader], pass.view, state)
          /\ pass' = [pass EXCEPT !.pc = "get", !.result = pass'.result]
          /\ pass'.view = pass.view
          /\ UNCHANGED queued
      BY <1>2, <2>3, LoadFits, Zenon
    <3> HIDE DEF state
    <3>3. Seen(pass.view, written) /\ written \in SUBSET Live /\ pass \in Passes
      BY Zenon DEF PassInv, ObjectsInv
    <3>4. pass'.result \in Results
      <4> DEFINE result == pass'.result
      <4> HIDE DEF result
      <4>1. result = Fit(Build[leader], pass.view, state)
        BY <3>2, Zenon DEF result
      <4>2. Decides(result, pass.view, Build[leader], written)
        BY <3>2, <3>3, <4>1, FitDecides, Zenon
      <4> QED
        BY <4>2, Zenon DEF Decides, result
    <3>5. pass' \in Passes /\ pass'.pc = "get"
      BY <3>2, <3>3, <3>4, Zenon DEF Passes
    <3>6. UNCHANGED <<written, leader, queued>>
      BY <1>2, <3>2, Zenon DEF Load, Others
    <3>7. PassInv'
      BY <2>1, <3>2, <3>3, <3>5, <3>6, Zenon DEF PassInv
    <3> QED
      BY <3>1, <3>7
  <2> QED
    BY <1>2, <2>2, <2>3, Zenon DEF Load, Passes, PassInv
<1>3. CASE Get
  <2>1. ObjectsInv' /\ InformersInv' /\ ConfigInv'
    BY <1>3, ObjectsStay, Zenon DEF Get, Others, ObjectsInv, InformersInv, ConfigInv
  <2>2. UNCHANGED <<written, leader, queued>> /\ leader # NoPod /\ pass.pc = "get"
    BY <1>3, Zenon DEF Get, Others, Step
  <2>3. CASE pass' = Idle
    BY <2>1, <2>2, <2>3, IdlePass, Zenon DEF PassInv
  <2>4. CASE pass' = [pass EXCEPT !.pc = "write", !.create = ~config.present, !.fresh = TRUE]
    <3>1. pass \in Passes /\ (~config.present) \in BOOLEAN
      BY Zenon DEF PassInv
    <3>2. /\ pass' \in Passes /\ pass'.pc = "write"
          /\ pass'.view = pass.view /\ pass'.result = pass.result
      BY <2>4, <3>1, Zenon DEF Passes
    <3>3. PassInv'
      BY <2>2, <3>2, Zenon DEF PassInv
    <3> QED
      BY <2>1, <3>3
  <2> QED
    BY <1>3, <2>3, <2>4, Zenon DEF Get
<1>4. CASE Write
  <2>1. world' \in Scenario /\ leader # NoPod /\ pass.pc = "write"
    BY <1>4, Zenon DEF Write, Step, ObjectsInv
  <2>2. CASE Written
    BY <1>4, <2>1, <2>2, WrittenHolds, Zenon DEF Write
  <2>3. CASE Fail /\ UNCHANGED <<config, late>>
    BY <1>4, <2>1, <2>3, FailHolds, Zenon DEF Write
  <2> QED
    BY <1>4, <2>2, <2>3, Zenon DEF Write
<1> QED
  BY <1>1, <1>2, <1>3, <1>4, Zenon DEF Reconcile

\* A request that is lost, or whose answer is.
LEMMA FaultHolds ==
    ASSUME WriterInv, Fault
    PROVE  WriterInv'
<1>1. world' \in Scenario
  BY SpentWorld, Zenon DEF Fault, WriterInv, ObjectsInv
<1>2. CASE Fail /\ UNCHANGED <<config, late>>
  BY <1>1, <1>2, FailHolds, Zenon DEF Fault
<1>3. CASE pass.pc = "write" /\ Written
  BY <1>1, <1>3, WrittenHolds, Zenon DEF Fault
<1> QED
  BY <1>2, <1>3, Zenon DEF Fault

\* Every step keeps the invariant.
LEMMA StepHolds == WriterInv /\ [Next]_vars => WriterInv'
<1> SUFFICES ASSUME WriterInv, [Next]_vars PROVE WriterInv'
  BY Zenon
<1>1. ASSUME NEW n \in Names, NEW s \in world.specs[n],
             CreatePolicy(n, s) \/ EditPolicy(n, s)
      PROVE  WriterInv'
  BY <1>1, AuthorsHold, Zenon
<1>2. ASSUME NEW n \in Names, DeletePolicy(n) PROVE WriterInv'
  BY <1>2, DeletionHolds, Zenon
<1>3. ASSUME NEW p \in world.pods, Deliver(p) \/ Relist(p) \/ Elect(p) PROVE WriterInv'
  BY <1>3, InformersHold, Zenon
<1>4. CASE Reconcile
  BY <1>4, ReconcileHolds, Zenon
<1>5. CASE Fault
  BY <1>5, FaultHolds, Zenon
<1>6. CASE Crash
  BY <1>6, CrashHolds
<1>7. CASE LateWrite \/ DeleteConfig
             \/ \E names \in SUBSET DOMAIN config.entries : DamageConfig(names)
  BY <1>7, HandsHold, Zenon
<1>8. CASE UNCHANGED vars
  <2>1. ObjectsInv' /\ InformersInv'
    BY <1>8, ObjectsStay, Zenon DEF WriterInv, vars, InformersInv, ObjectsInv
  <2>2. ConfigInv' /\ PassInv'
    BY <1>8, Zenon DEF WriterInv, vars, ConfigInv, PassInv
  <2> QED
    BY <2>1, <2>2, Zenon DEF WriterInv
<1> QED
  BY <1>1, <1>2, <1>3, <1>4, <1>5, <1>6, <1>7, <1>8, Zenon DEF Next

\* The invariant of the writer: whatever authors, informers, elections, crashes,
\* late writes and hands do, what informers, the ConfigMap, a request in flight
\* and a pass hold was written by an author.
THEOREM WriterInvariant == Spec => []WriterInv
BY InitHolds, StepHolds, PTL DEF Spec

-----------------------------------------------------------------------------
(* What a pass decides, and what it puts in force.                         *)

\* A pass comes from its load to its read of the ConfigMap by Load only.
LEMMA OnlyLoad ==
    ASSUME WriterInv, [Next]_vars, pass.pc = "load", pass'.pc = "get"
    PROVE  Load
<1>1. pass \in Passes
  BY Zenon DEF WriterInv, PassInv
<1>2. [pass EXCEPT !.fresh = FALSE].pc = "load"
  BY <1>1, Zenon DEF Passes
<1>3. pass' # pass /\ pass' # Idle /\ pass' # [pass EXCEPT !.fresh = FALSE]
  <2>1. pass' # pass
    BY Zenon
  <2>2. pass' # Idle
    BY DEF Idle
  <2> QED
    BY <1>2, <2>1, <2>2, Zenon
<1>4. ~UNCHANGED vars
  BY <1>3, Zenon DEF vars
<1>5. \A n, s : ~CreatePolicy(n, s) /\ ~EditPolicy(n, s) /\ ~DeletePolicy(n)
  BY <1>3, Zenon DEF CreatePolicy, EditPolicy, DeletePolicy, Applied
<1>6. \A p : ~Deliver(p) /\ ~Relist(p) /\ ~Elect(p)
  BY <1>3, Zenon DEF Deliver, Relist, Elect
<1>7. ~Fault /\ ~Crash
  BY <1>3, Zenon DEF Fault, Crash, Fail, Written
<1>8. ~LateWrite /\ ~DeleteConfig /\ \A names : ~DamageConfig(names)
  BY <1>3, Zenon DEF LateWrite, DeleteConfig, DamageConfig, ByHand
<1>9. ~Begin /\ ~Get /\ ~Write
  BY Zenon DEF Begin, Get, Write, Step
<1> QED
  BY <1>4, <1>5, <1>6, <1>7, <1>8, <1>9, Zenon DEF Next, Reconcile

\* Load keeps what was good last.
LEMMA LoadKeeps ==
    ASSUME WriterInv, Load, pass'.pc = "get"
    PROVE  Keeps(Render(pass'.result))
<1> DEFINE build == Build[leader]
           view == pass.view
           state == StoreLoad(config, build, Named(view))
           entries == Render(pass'.result)
<1>1. pass'.result = Fit(build, view, state)
  BY LoadFits, Zenon
<1> HIDE DEF state
<1>2. PICK kept : pass'.result = Compile(build, view, state, kept)
  BY <1>1, FitCompiles
<1>3. Apart(view) /\ view \subseteq Live
  BY Zenon DEF WriterInv, PassInv, ObjectsInv, Seen
<1> HIDE DEF view, build
<1>4. ASSUME NEW o \in view, Servable(build, o)
      PROVE  o.name \in DOMAIN entries /\ entries[o.name] \in {config.entries[o.name], BundleOf(o)}
  <2> DEFINE n == o.name
             entry == config.entries[n]
             b == Served(build, view, state, kept, n)
  <2>1. n \in Named(view) /\ Object(view, n) = o
    BY <1>3, ObjectOf, Zenon
  <2>2. /\ n \in DOMAIN config.entries /\ n \notin config.damaged
        /\ entry.uid = o.uid /\ entry.spec \in Compiles[build] /\ entry.spec \notin Undefined[build]
        /\ ~(o.spec \in Undefined[build] /\ entry.gen = o.gen)
    BY <1>4, Zenon DEF Servable
  <2>3. n \in DOMAIN state /\ state[n] = entry
    BY <2>1, <2>2, Zenon DEF state, StoreLoad
  <2>4. o.uid # 0
    BY <1>3, Zenon DEF Live
  <2>5. Stays(build, o, entry) /\ Previous(state, n) = entry
    BY <2>2, <2>3, <2>4, Zenon DEF Stays, Good, Previous
  <2> HIDE DEF entry
  <2>6. b = IF LatestCompiles(build, o) /\ n \notin kept THEN BundleOf(o) ELSE entry
    BY <2>1, <2>5, Zenon DEF Served
  <2>7. b.uid # 0
    <3>1. entry.uid # 0 /\ BundleOf(o).uid # 0
      BY <2>2, <2>4, Zenon DEF BundleOf
    <3> QED
      BY <2>6, <3>1, Zenon
  <2> HIDE DEF b
  <2>8. n \in DOMAIN entries /\ entries[n] = b
    BY <1>2, <2>1, <2>7, RenderServes DEF b
  <2> QED
    BY <2>6, <2>8, Zenon DEF entry
<1> QED
  BY <1>4, Zenon DEF Keeps, view, build

\* "a typo in one team's policy must not turn another gateway's limits off": a
\* pass keeps the last-good entry of every object it sees, or replaces it by the
\* object's latest generation, for any number of policies, specs, builds and pods
\* and whatever else the namespace holds.
THEOREM FallbackStays == Spec => FallbackKept
<1>1. WriterInv /\ [Next]_vars =>
        [pass.pc = "load" /\ pass'.pc = "get" => Keeps(Render(pass'.result))]_vars
  BY OnlyLoad, LoadKeeps, Zenon
<1> QED
  BY <1>1, WriterInvariant, PTL DEF Spec, FallbackKept

\* The leader's write is the write that carries what its pass decided on.
LEMMA OnlyWritten ==
    ASSUME WriterInv, [Next]_vars, Writes
    PROVE  config' = Content(Request)
<1>1. pass.pc = "write" /\ pass' = Idle /\ config' # config /\ pass \in Passes
  BY Zenon DEF Writes, WriterInv, PassInv
<1>2. pass' # pass /\ pass' # [pass EXCEPT !.fresh = FALSE]
  <2>1. [pass EXCEPT !.fresh = FALSE].pc = "write" /\ Idle.pc = "idle"
    BY <1>1, Zenon DEF Passes, Idle
  <2> QED
    BY <1>1, <2>1, Zenon
<1>3. ~UNCHANGED vars
  BY <1>2, Zenon DEF vars
<1>4. \A n, s : ~CreatePolicy(n, s) /\ ~EditPolicy(n, s) /\ ~DeletePolicy(n)
  BY <1>2, Zenon DEF CreatePolicy, EditPolicy, DeletePolicy, Applied
<1>5. \A p : ~Deliver(p) /\ ~Relist(p) /\ ~Elect(p)
  BY <1>2, Zenon DEF Deliver, Relist, Elect
<1>6. ~Crash /\ ~Begin /\ ~Load /\ ~Get
  BY <1>1, Zenon DEF Crash, Begin, Load, Get
<1>7. ~LateWrite /\ ~DeleteConfig /\ \A names : ~DamageConfig(names)
  BY <1>1, <1>2, Zenon DEF LateWrite, DeleteConfig, DamageConfig, ByHand
<1>8. Write \/ Fault
  BY <1>3, <1>4, <1>5, <1>6, <1>7, Zenon DEF Next, Reconcile
<1>9. Written
  BY <1>1, <1>8, Zenon DEF Write, Fault
<1> QED
  BY <1>9, Zenon DEF Written

\* The invariant has the types.
LEMMA InvTypes == WriterInv => WTypeOK
<1> SUFFICES ASSUME WriterInv PROVE WTypeOK
  BY Zenon
<1> USE DEF WriterInv
<1>1. Live \subseteq Objects
  BY Zenon DEF Live, Objects
<1>2. ASSUME NEW f \in EntryMaps PROVE AreEntries(f)
  BY Zenon DEF EntryMaps, AreEntries
<1>3. policies \subseteq Objects /\ written \subseteq Objects
      /\ \A x, y \in policies : x.name = y.name => x = y
  BY <1>1, Zenon DEF ObjectsInv, Seen, Apart
<1>4. DOMAIN uids = Names /\ \A n \in Names : uids[n] \in Nat
  BY Zenon DEF ObjectsInv
<1>5. /\ config.present \in BOOLEAN /\ config.by \in Builds \cup {"none"}
      /\ AreEntries(config.entries) /\ config.damaged \subseteq Names
  BY <1>2, Zenon DEF ConfigInv, ConfigMaps
<1>6. /\ DOMAIN cache = Pods /\ \A p \in Pods : cache[p] \subseteq Objects
      /\ oldWatch \subseteq Pods
  BY <1>1, Zenon DEF InformersInv
<1>7. /\ leader \in Pods \cup {NoPod} /\ queued \in BOOLEAN
      /\ pass.pc \in {"idle", "load", "get", "write"}
      /\ leader = NoPod => pass = Idle /\ ~queued
      /\ pass.view \subseteq Objects
  BY <1>1, Zenon DEF PassInv, Passes
<1>8. Render(pass.result) \in EntryMaps
  <2>1. CASE pass.pc \in {"get", "write"}
    BY <2>1, PassDecides, Zenon DEF Decides, Loaded
  <2>2. CASE pass.pc \in {"idle", "load"}
    BY <2>2, Nothing, Zenon DEF PassInv
  <2> QED
    BY <1>7, <2>1, <2>2, Zenon
<1>9. AreEntries(Render(pass.result))
  BY <1>2, <1>8, Zenon
<1>10. AreEntries(late.entries)
  BY <1>2, Zenon DEF ConfigInv, Sent
<1> QED
  BY <1>3, <1>4, <1>5, <1>6, <1>7, <1>9, <1>10, Zenon DEF WTypeOK

\* What a write puts in force is a generation its author wrote for the object of
\* that name and UID the writer sees: a recreated policy never revives the spec
\* of the one deleted before it.
THEOREM AuthorServed == Spec => ServesItsAuthor
<1> DEFINE Own(entries) ==
        \A n \in DOMAIN entries :
            /\ \E o \in pass.view : o.name = n /\ o.uid = entries[n].uid
            /\ [name |-> n, uid |-> entries[n].uid, gen |-> entries[n].gen,
                spec |-> entries[n].spec] \in written
<1>1. ASSUME WriterInv, [Next]_vars, Writes PROVE Own(config'.entries)
  <2>1. config'.entries = Render(pass.result)
    BY <1>1, OnlyWritten DEF Content, Request
  <2>2. pass.pc = "write"
    BY <1>1, Zenon DEF Writes
  <2>3. Decides(pass.result, pass.view, Build[leader], written)
    BY <1>1, <2>2, PassDecides, Zenon
  <2> DEFINE entries == Render(pass.result)
  <2>4. Own(entries)
    <3> HIDE DEF entries
    <3>1. \A n \in DOMAIN entries : \E o \in pass.view : o.name = n /\ o.uid = entries[n].uid
      BY <2>3, Zenon DEF Decides, entries
    <3>2. Authored(entries, written)
      BY <2>3, Zenon DEF Decides, Loaded, entries
    <3> QED
      BY <3>1, <3>2, Zenon DEF Authored
  <2> QED
    BY <2>1, <2>4, Zenon
<1>2. WriterInv /\ [Next]_vars => [Writes => Own(config'.entries)]_vars
  BY <1>1, Zenon
<1>3. Spec => []WTypeOK
  BY InvTypes, WriterInvariant, PTL
<1>4. Spec => [][Writes => Own(config'.entries)]_vars
  BY <1>2, WriterInvariant, PTL DEF Spec
<1> QED
  BY <1>3, <1>4, Zenon DEF ServesItsAuthor

\* "so they reach the same verdict": compiling the same objects against what the
\* writer has just written gives what it wrote, with the same verdict on every
\* policy, whatever had to be kept out for its size.
THEOREM VerdictsAgree == Spec => StatusAgrees
<1> DEFINE build == Build[leader]
           names == Named(pass.view)
           again == Fit(build, pass.view, StoreLoad(config', build, names))
           Verdict(outcome) == <<outcome.compiled, outcome.tooLarge, outcome.bundle>>
           Agree == \A n \in DOMAIN again : Verdict(again[n]) = Verdict(pass.result[n])
<1>1. ASSUME WriterInv, [Next]_vars, Writes PROVE Agree
  <2> DEFINE entries == Render(pass.result)
  <2>1. config'.entries = entries /\ config'.damaged = {}
    BY <1>1, OnlyWritten DEF Content, Request
  <2>2. pass.pc = "write"
    BY <1>1 DEF Writes
  <2>3. Decides(pass.result, pass.view, build, written)
    BY <1>1, <2>2, PassDecides, Zenon
  <2>4. /\ DOMAIN entries \subseteq names
        /\ \A n \in DOMAIN entries : entries[n].spec \notin Undefined[build]
        /\ entries = [n \in DOMAIN entries |-> entries[n]]
    BY <2>3, Zenon DEF Decides, Loaded, Render
  <2> HIDE DEF entries
  <2>5. StoreLoad(config', build, names) = entries
    BY <2>1, <2>4, Zenon DEF StoreLoad
  <2>6. IsFiniteSet(names)
    <3>1. names \subseteq Names
      BY <1>1 DEF WriterInv, PassInv, Passes, Live, Named
    <3> QED
      BY <3>1, FS_Subset, WriterConstants, Zenon
  <2>7. PICK state : pass.result = Fit(build, pass.view, state)
    BY <1>1, <2>2, Zenon DEF WriterInv, PassInv
  <2>8. DOMAIN again = names
    BY <2>5, FitCompiles DEF Compile
  <2>9. ASSUME NEW n \in names
        PROVE  /\ again[n].compiled = pass.result[n].compiled
               /\ again[n].tooLarge = pass.result[n].tooLarge
               /\ again[n].bundle = pass.result[n].bundle
    BY <2>5, <2>6, <2>7, FitAgain DEF entries
  <2> HIDE DEF again
  <2> QED
    BY <2>8, <2>9, Zenon
<1>2. WriterInv /\ [Next]_vars => [Writes => Agree]_vars
  BY <1>1, Zenon
<1>3. Spec => [][Writes => Agree]_vars
  BY <1>2, WriterInvariant, PTL DEF Spec
<1> QED
  BY <1>3, Zenon DEF StatusAgrees

-----------------------------------------------------------------------------
(* The size of the ConfigMap is a sum, which no order and no part changes. *)

\* A set of numbers with 0 and every successor has them all.
LEMMA NumbersUp ==
    ASSUME NEW S, 0 \in S, \A n \in Nat : n \in S => n + 1 \in S
    PROVE  Nat \subseteq S
<1> SUFFICES ASSUME Nat \ S # {} PROVE FALSE
  BY Zenon
<1>1. PICK x \in Nat \ S : \A y \in Nat \ S : ~(<<y, x>> \in OpToRel(<, Nat))
  BY NatLessThanWellFounded, WFMin, Zenon
<1>2. \A y \in Nat : y < x => <<y, x>> \in OpToRel(<, Nat)
  BY <1>1, Zenon DEF OpToRel
<1>3. \A y \in Nat \ S : ~(y < x)
  BY <1>1, <1>2, Zenon
<1>4. x # 0 /\ x - 1 \in Nat
  OBVIOUS
<1>5. x - 1 \in S
  BY <1>3, <1>4
<1> QED
  BY <1>4, <1>5

Pick(s) == CHOOSE x \in s : TRUE

\* One way of summing weights over a set.
IsSum(g, W, U) ==
    \A s \in SUBSET U :
        g[s] = IF s = {} THEN 0 ELSE W[Pick(s)] + g[s \ {Pick(s)}]

\* The weights of a finite set have a sum.
LEMMA SumExists ==
    ASSUME NEW U, IsFiniteSet(U), NEW W \in [U -> Nat]
    PROVE  \E g \in [SUBSET U -> Nat] : IsSum(g, W, U)
<1> DEFINE L(n) == {s \in SUBSET U : Cardinality(s) <= n}
           Upto(n, g) ==
             /\ g \in [L(n) -> Nat]
             /\ \A s \in L(n) : g[s] = IF s = {} THEN 0 ELSE W[Pick(s)] + g[s \ {Pick(s)}]
           S == {n \in Nat : \E g : Upto(n, g)}
<1>1. \A s \in SUBSET U : IsFiniteSet(s) /\ Cardinality(s) \in Nat
  BY FS_Subset, FS_CardinalityType, Zenon
<1>2. \A s \in SUBSET U : s # {} => /\ Pick(s) \in s
                                    /\ s \ {Pick(s)} \in SUBSET U
                                    /\ Cardinality(s \ {Pick(s)}) = Cardinality(s) - 1
  <2> TAKE s \in SUBSET U
  <2> HAVE s # {}
  <2>1. Pick(s) \in s
    BY Zenon DEF Pick
  <2> QED
    BY <1>1, <2>1, FS_RemoveElement, Zenon
<1>3. 0 \in S
  <2> DEFINE g == [s \in L(0) |-> 0]
  <2>1. \A s \in L(0) : s = {}
    BY <1>1, FS_EmptySet
  <2>2. Upto(0, g)
    BY <2>1, Zenon
  <2> QED
    BY <2>2, Zenon
<1>4. ASSUME NEW n \in Nat, n \in S PROVE n + 1 \in S
  <2>1. PICK g : Upto(n, g)
    BY <1>4, Zenon
  <2> DEFINE h == [s \in L(n + 1) |-> IF s = {} THEN 0 ELSE W[Pick(s)] + g[s \ {Pick(s)}]]
  <2>2. \A s \in L(n + 1) : s # {} => s \ {Pick(s)} \in L(n) /\ s \ {Pick(s)} \in L(n + 1)
    BY <1>1, <1>2
  <2>3. \A s \in L(n) : s \in L(n + 1) /\ h[s] = g[s]
    BY <1>1, <2>1
  <2>4. \A s \in L(n + 1) : h[s] \in Nat
    BY <1>2, <2>1, <2>2
  <2>5. Upto(n + 1, h)
    BY <2>2, <2>3, <2>4, Zenon
  <2> HIDE DEF h
  <2>6. \E f : Upto(n + 1, f)
    BY <2>5, Zenon
  <2> HIDE DEF Upto
  <2> QED
    BY <2>6
<1>5. Cardinality(U) \in S
  <2> HIDE DEF S
  <2>1. Nat \subseteq S
    BY <1>3, <1>4, NumbersUp, Zenon
  <2> QED
    BY <1>1, <2>1, Zenon
<1>6. PICK g : Upto(Cardinality(U), g)
  BY <1>5, Zenon
<1>7. L(Cardinality(U)) = SUBSET U
  BY FS_Subset, Zenon
<1> QED
  BY <1>6, <1>7, Zenon DEF IsSum

\* The order of summing does not matter.
LEMMA SumAnyOrder ==
    ASSUME NEW U, IsFiniteSet(U), NEW W \in [U -> Nat], 
           NEW g \in [SUBSET U -> Nat], IsSum(g, W, U),
           NEW s \in SUBSET U, NEW x \in s
    PROVE  g[s] = W[x] + g[s \ {x}]
<1> DEFINE Bad == {t \in SUBSET U : \E y \in t : g[t] # W[y] + g[t \ {y}]}
<1> SUFFICES ASSUME Bad # {} PROVE FALSE
  BY Zenon
<1>1. PICK t \in Bad : \A r \in Bad : r \subseteq t => r = t
  <2>1. Bad \subseteq SUBSET U
    BY Zenon
  <2> HIDE DEF Bad
  <2> QED
    BY <2>1, SmallestMember
<1>2. PICK y \in t : g[t] # W[y] + g[t \ {y}]
  BY <1>1, Zenon
<1> DEFINE p == Pick(t)
<1>3. p \in t /\ t \in SUBSET U
  BY <1>1, <1>2, Zenon DEF Pick
<1>4. g[t] = W[p] + g[t \ {p}]
  BY <1>2, <1>3, Zenon DEF IsSum
<1> HIDE DEF p
<1>5. p # y
  BY <1>2, <1>4, Zenon
<1>6. t \ {p} \notin Bad /\ t \ {y} \notin Bad
  BY <1>1, <1>2, <1>3, Zenon
<1>7. g[t \ {p}] = W[y] + g[(t \ {p}) \ {y}] /\ g[t \ {y}] = W[p] + g[(t \ {y}) \ {p}]
  BY <1>2, <1>3, <1>5, <1>6, Zenon
<1>8. (t \ {p}) \ {y} = (t \ {y}) \ {p}
  BY Zenon
<1> DEFINE c == g[(t \ {y}) \ {p}]
<1>9. W[p] \in Nat /\ W[y] \in Nat /\ c \in Nat
  BY <1>2, <1>3, Zenon
<1>10. g[t] = W[p] + (W[y] + c) /\ g[t \ {y}] = W[p] + c
  BY <1>4, <1>7, <1>8, Zenon
<1> HIDE DEF Bad, c
<1> QED
  BY <1>2, <1>9, <1>10

\* More weighs no less.
LEMMA SumGrows ==
    ASSUME NEW U, IsFiniteSet(U), NEW W \in [U -> Nat], 
           NEW g \in [SUBSET U -> Nat], IsSum(g, W, U),
           NEW s \in SUBSET U
    PROVE  g[s] <= g[U]
<1> DEFINE Bad == {t \in SUBSET U : s \subseteq t /\ ~(g[s] <= g[t])}
<1> SUFFICES ASSUME Bad # {} PROVE FALSE
  BY Zenon
<1>1. PICK t \in Bad : \A r \in Bad : r \subseteq t => r = t
  <2>1. Bad \subseteq SUBSET U
    BY Zenon
  <2> HIDE DEF Bad
  <2> QED
    BY <2>1, SmallestMember
<1>2. t \in SUBSET U /\ s \subseteq t /\ ~(g[s] <= g[t])
  BY <1>1, Zenon
<1>3. g \in [SUBSET U -> Nat]
  BY Zenon
<1>4. t # s
  BY <1>2, <1>3
<1>5. PICK x \in t : x \notin s
  BY <1>2, <1>4, Zenon
<1>6. g[t] = W[x] + g[t \ {x}]
  <2>1. t \in SUBSET U
    BY <1>2, Zenon
  <2> HIDE DEF Bad
  <2> QED
    BY <2>1, SumAnyOrder
<1>7. t \ {x} \notin Bad
  BY <1>1, <1>5, Zenon
<1>8. g[s] <= g[t \ {x}]
  BY <1>2, <1>5, <1>7, Zenon
<1>9. W[x] \in Nat /\ g[s] \in Nat /\ g[t \ {x}] \in Nat
  BY <1>2, <1>3, <1>5, Zenon
<1> QED
  BY <1>2, <1>6, <1>8, <1>9

\* One sum of the same weights.
LEMMA SumUnique ==
    ASSUME NEW U, IsFiniteSet(U), NEW W, NEW g, NEW h, IsSum(g, W, U), IsSum(h, W, U)
    PROVE  h[U] = g[U]
<1> DEFINE Bad == {t \in SUBSET U : h[t] # g[t]}
<1> SUFFICES ASSUME Bad # {} PROVE FALSE
  BY Zenon
<1>1. PICK t \in Bad : \A r \in Bad : r \subseteq t => r = t
  <2>1. Bad \subseteq SUBSET U
    BY Zenon
  <2> HIDE DEF Bad
  <2> QED
    BY <2>1, SmallestMember
<1>2. t \in SUBSET U /\ h[t] # g[t]
  BY <1>1, Zenon
<1>3. t # {}
  BY <1>2, Zenon DEF IsSum
<1> DEFINE p == Pick(t)
<1>4. p \in t
  BY <1>3, Zenon DEF Pick
<1>5. h[t] = W[p] + h[t \ {p}] /\ g[t] = W[p] + g[t \ {p}]
  BY <1>2, <1>3, Zenon DEF IsSum
<1> HIDE DEF p
<1>6. h[t \ {p}] = g[t \ {p}]
  BY <1>1, <1>2, <1>4
<1> QED
  BY <1>2, <1>5, <1>6, Zenon

Weights(entries) == [n \in DOMAIN entries |-> SizeOf[entries[n].spec]]

\* Size is such a sum.
LEMMA SizeSums ==
    ASSUME NEW entries, IsFiniteSet(DOMAIN entries),
           Weights(entries) \in [DOMAIN entries -> Nat]
    PROVE  \E g \in [SUBSET DOMAIN entries -> Nat] :
              IsSum(g, Weights(entries), DOMAIN entries) /\ Size(entries) = g[DOMAIN entries]
<1> DEFINE V(n) == SizeOf[entries[n].spec]
           U == DOMAIN entries
           W == Weights(entries)
           It(g) ==
             g = [s \in SUBSET U |-> IF s = {} THEN 0 ELSE V(Pick(s)) + g[s \ {Pick(s)}]]
           iter == CHOOSE g : It(g)
<1>1. \A s \in SUBSET U : s # {} => V(Pick(s)) = W[Pick(s)]
  BY DEF Pick, Weights
<1>2. Size(entries) = iter[U]
  BY Zenon DEF Size, MapThenSumSet, MapThenFoldSet, Pick
<1> HIDE DEF V, U, W
<1>3. IsFiniteSet(U) /\ W \in [U -> Nat]
  BY Zenon DEF U, W
<1>4. PICK g \in [SUBSET U -> Nat] : IsSum(g, W, U)
  BY <1>3, SumExists, Zenon
<1>5. It(g)
  BY <1>1, <1>4, Zenon DEF IsSum
<1>6. It(iter)
  BY <1>5, Zenon
<1> HIDE DEF iter
<1>7. \A s \in SUBSET U :
        iter[s] = IF s = {} THEN 0 ELSE V(Pick(s)) + iter[s \ {Pick(s)}]
  BY <1>6, Zenon
<1> HIDE DEF It
<1>8. IsSum(iter, W, U)
  BY <1>1, <1>7, Zenon DEF IsSum
<1>9. iter[U] = g[U]
  BY <1>3, <1>4, <1>8, SumUnique
<1> QED
  BY <1>2, <1>4, <1>9, Zenon DEF U, W

\* A part of what the ConfigMap holds is no larger than the whole.
LEMMA SizeGrows ==
    ASSUME NEW a, NEW b, IsFiniteSet(DOMAIN b), DOMAIN a \subseteq DOMAIN b,
           \A n \in DOMAIN b : b[n].spec \in Specs,
           \A n \in DOMAIN a : a[n] = b[n]
    PROVE  Size(a) \in Nat /\ Size(b) \in Nat /\ Size(a) <= Size(b)
<1> DEFINE U == DOMAIN b
           T == DOMAIN a
           W == Weights(b)
           X == Weights(a)
<1>1. W \in [U -> Nat] /\ X \in [T -> Nat] /\ \A n \in T : W[n] = X[n]
  BY WriterConstants, Zenon DEF Weights
<1>2. T \in SUBSET U /\ U \in SUBSET U /\ T \in SUBSET T /\ IsFiniteSet(T) /\ IsFiniteSet(U)
  BY FS_Subset, Zenon
<1>3. PICK g \in [SUBSET U -> Nat] : IsSum(g, W, U) /\ Size(b) = g[U]
  BY <1>1, <1>2, SizeSums, Zenon
<1>4. PICK h \in [SUBSET T -> Nat] : IsSum(h, X, T) /\ Size(a) = h[T]
  BY <1>1, <1>2, SizeSums, Zenon
<1> HIDE DEF U, T, W, X
<1>5. IsSum(g, X, T)
  <2>1. \A s \in SUBSET T : s # {} => W[Pick(s)] = X[Pick(s)]
    BY <1>1, Zenon DEF Pick
  <2> QED
    BY <1>2, <1>3, <2>1, Zenon DEF IsSum
<1>6. h[T] = g[T]
  BY <1>2, <1>4, <1>5, SumUnique
<1>7. g[T] <= g[U]
  BY <1>1, <1>2, <1>3, SumGrows, Zenon
<1> QED
  BY <1>2, <1>3, <1>4, <1>6, <1>7

\* Entries that were all read as they are.
PartOf(t, state) == DOMAIN t \subseteq DOMAIN state /\ \A n \in DOMAIN t : t[n] = state[n]

\* A pass that sets back every generation that moved writes a part of what it
\* read, unless something reads differently under the generation it was saved for.
LEMMA SetBack ==
    ASSUME NEW build, NEW view, NEW state, NEW entries, NEW kept, NEW t,
           entries = Render(Compile(build, view, state, {})),
           kept = Moved(entries, state),
           t = Render(Compile(build, view, state, kept)),
           \A o \in view : o.name \in DOMAIN state /\ state[o.name].uid = o.uid
                             /\ state[o.name].gen = o.gen => state[o.name].spec = o.spec,
           \A n \in DOMAIN state : state[n] \in Bundles
    PROVE  PartOf(t, state)
<1> SUFFICES ASSUME NEW n \in DOMAIN t PROVE n \in DOMAIN state /\ t[n] = state[n]
  BY Zenon DEF PartOf
<1>0. Renders(entries, build, view, state, {}) /\ Renders(t, build, view, state, kept)
  BY RenderTells, Zenon
<1> DEFINE o == Object(view, n)
           p == Previous(state, n)
<1>1. n \in Named(view)
  BY <1>0, Zenon DEF Renders
<1>2. t[n] = Served(build, view, state, kept, n) /\ t[n].uid # 0
  BY <1>0, <1>1, Zenon DEF Renders
<1>3. o \in view /\ o.name = n
  BY <1>1, Zenon DEF Named, Object
<1>4. p.uid # 0 => n \in DOMAIN state /\ p = state[n]
  BY Zenon DEF Previous, NoBundle
<1>5. CASE LatestCompiles(build, o) /\ n \notin kept
  <2>1. t[n] = BundleOf(o) /\ Served(build, view, state, {}, n) = BundleOf(o)
    BY <1>2, <1>5, Zenon DEF Served
  <2>2. n \in DOMAIN entries /\ entries[n] = BundleOf(o)
    <3>1. BundleOf(o).uid # 0
      BY <1>2, <2>1, Zenon
    <3> QED
      BY <1>0, <1>1, <2>1, <3>1, Zenon DEF Renders
  <2>3. n \in DOMAIN state /\ state[n].uid = o.uid /\ state[n].gen = o.gen
    <3>1. n \in DOMAIN state /\ state[n].uid = BundleOf(o).uid /\ state[n].gen = BundleOf(o).gen
      BY <1>5, <2>2, Zenon DEF Moved
    <3> QED
      BY <3>1, Zenon DEF BundleOf
  <2>4. state[n].spec = o.spec
    BY <1>3, <2>3, Zenon
  <2>5. state[n] = [uid |-> state[n].uid, gen |-> state[n].gen, spec |-> state[n].spec]
    BY <2>3, Zenon DEF Bundles
  <2> QED
    BY <2>1, <2>3, <2>4, <2>5, Zenon DEF BundleOf
<1>6. CASE ~(LatestCompiles(build, o) /\ n \notin kept)
  <2>1. t[n] = p \/ t[n] = NoBundle
    BY <1>2, <1>6, Zenon DEF Served
  <2>2. NoBundle.uid = 0
    BY Zenon DEF NoBundle
  <2> QED
    BY <1>2, <1>4, <2>1, <2>2, Zenon
<1> QED
  BY <1>5, <1>6, Zenon

\* A pass that fails at its load, with no fault, fails in Load.
LEMMA OnlyLoadFails ==
    ASSUME WriterInv, [Next]_vars, Step("load"), pass' = Idle, world' = world,
           leader' = leader
    PROVE  Load
<1>1. pass \in Passes /\ pass.pc = "load" /\ leader # NoPod /\ world \in Scenario
  BY Zenon DEF WriterInv, PassInv, ObjectsInv, Step
<1>2. pass' # pass /\ pass' # [pass EXCEPT !.fresh = FALSE]
  <2>1. [pass EXCEPT !.fresh = FALSE].pc = "load" /\ Idle.pc = "idle"
    BY <1>1, Zenon DEF Passes, Idle
  <2> QED
    BY <1>1, <2>1, Zenon
<1>3. ~Once("faults")
  <2>1. ASSUME Once("faults") PROVE FALSE
    <3>1. world.faults \in Int
      BY <1>1, Zenon DEF Scenario
    <3>2. world'.faults = world.faults - 1
      BY <1>1, <2>1, Zenon DEF Once, Scenario
    <3> QED
      BY <3>1, <3>2
  <2> QED
    BY <2>1, Zenon
<1>4. ~UNCHANGED vars
  BY <1>2, Zenon DEF vars
<1>5. \A n, s : ~CreatePolicy(n, s) /\ ~EditPolicy(n, s) /\ ~DeletePolicy(n)
  BY <1>2, Zenon DEF CreatePolicy, EditPolicy, DeletePolicy, Applied
<1>6. \A p : ~Deliver(p) /\ ~Relist(p) /\ ~Elect(p)
  BY <1>2, Zenon DEF Deliver, Relist, Elect
<1>7. ~Fault /\ ~Crash
  BY <1>1, <1>3, Zenon DEF Fault, Crash
<1>8. ~LateWrite /\ ~DeleteConfig /\ \A names : ~DamageConfig(names)
  BY <1>2, Zenon DEF LateWrite, DeleteConfig, DamageConfig, ByHand
<1>9. ~Begin /\ ~Get /\ ~Write
  BY <1>1, Zenon DEF Begin, Get, Write, Step
<1> QED
  BY <1>4, <1>5, <1>6, <1>7, <1>8, <1>9, Zenon DEF Next, Reconcile

\* What authors add never stops the other domains: a pass refuses to write for
\* the size only when what it read was over the limit, or when something reads
\* differently under the generation it was saved for.
THEOREM RoomForAll == Spec => RoomIsMade
<1> DEFINE build == Build[leader]
           view == pass.view
           state == StoreLoad(config, build, Named(view))
           Skewed == \E o \in view :
                        /\ o.name \in DOMAIN state
                        /\ state[o.name].uid = o.uid /\ state[o.name].gen = o.gen
                        /\ state[o.name].spec # o.spec
           Refuses == \/ Size(state) > Limit
                      \/ Skewed
           Stops == Step("load") /\ pass' = Idle /\ world' = world /\ leader' = leader
           result == Fit(build, view, state)
<1>1. ASSUME WriterInv, [Next]_vars, Stops, ~(Size(state) > Limit), ~Skewed PROVE FALSE
  <2>1. Load
    BY <1>1, OnlyLoadFails, Zenon
  <2>2. Loaded(state, build, written)
    BY <1>1, LoadDecodes, Zenon DEF WriterInv
  <2>3. ~(Size(Render(result)) <= Limit)
    <3>1. pass \in Passes /\ pass' = Idle
      BY <1>1, Zenon DEF WriterInv, PassInv
    <3>2. [pass EXCEPT !.pc = "get", !.result = result].pc = "get" /\ Idle.pc = "idle"
      BY <3>1, Zenon DEF Passes, Idle
    <3> QED
      BY <2>1, <3>1, <3>2, Zenon DEF Load
  <2>4. /\ \A n \in DOMAIN state : state[n] \in Bundles
        /\ DOMAIN state \subseteq Names
    BY <2>2, Zenon DEF Loaded, EntryMaps
  <2>5. \A o \in view : o.name \in DOMAIN state /\ state[o.name].uid = o.uid
                          /\ state[o.name].gen = o.gen => state[o.name].spec = o.spec
    BY <1>1, Zenon
  <2>6. Named(view) \subseteq Names
    BY <1>1 DEF WriterInv, PassInv, Passes, Live, Named
  <2>7. ~(Size(state) > Limit)
    BY <1>1, Zenon
  <2> HIDE DEF state, view, build
  <2> DEFINE entries == Render(Compile(build, view, state, {}))
             moved == Moved(entries, state)
             kept == KeptOut(build, view, state, entries)
             t == Render(Compile(build, view, state, moved))
  <2>8. result = Compile(build, view, state, kept)
    BY <2>3, Zenon DEF Fit
  <2>9. kept = moved
    <3>1. DOMAIN entries \subseteq Named(view)
      BY RenderServes, Zenon
    <3>2. IsFiniteSet(DOMAIN entries)
      BY <2>6, <3>1, FS_Subset, WriterConstants, Zenon
    <3>3. KeepsOut(build, view, state, entries, kept)
      BY <3>2, KeptOutTells, Zenon
    <3>4. ~Fits(build, view, state, kept)
      BY <2>3, <2>8, Zenon DEF Fits
    <3> QED
      BY <3>3, <3>4, Zenon DEF KeepsOut
  <2>10. ~(Size(t) <= Limit)
    BY <2>3, <2>8, <2>9, Zenon
  <2> HIDE DEF entries, moved, kept, result
  <2>11. PartOf(t, state)
    BY <2>4, <2>5, SetBack, ZenonT(40) DEF entries, moved
  <2> HIDE DEF t
  <2>12. IsFiniteSet(DOMAIN state)
    BY <2>4, FS_Subset, WriterConstants, Zenon
  <2>13. \A n \in DOMAIN state : state[n].spec \in Specs
    BY <2>4, Zenon DEF Bundles
  <2>14. Size(t) \in Nat /\ Size(state) \in Nat /\ Size(t) <= Size(state)
    BY <2>11, <2>12, <2>13, SizeGrows, Zenon DEF PartOf
  <2> QED
    BY <2>7, <2>10, <2>14, WriterConstants
<1>2. WriterInv /\ [Next]_vars => [Stops => Refuses]_vars
  BY <1>1, Zenon
<1>3. Spec => [][Stops => Refuses]_vars
  BY <1>2, WriterInvariant, PTL DEF Spec
<1> QED
  BY <1>3, Zenon DEF RoomIsMade

=============================================================================

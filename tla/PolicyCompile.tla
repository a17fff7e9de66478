---------------------------- MODULE PolicyCompile ---------------------------
(***************************************************************************)
(* The operator's compilation of a namespace (operator/internal/policy):   *)
(* which generation of every policy is in effect, given the objects, the   *)
(* last-good bundles persisted before, the operator's build, and what one  *)
(* ConfigMap holds.                                                        *)
(*                                                                         *)
(* A policy's name is its domain; names are numbers in the order of the    *)
(* names.  An object is [name, uid, gen, spec], and a bundle is [uid, gen, *)
(* spec], where uid 0 is Bundle{}.  A spec is a model value: all that the  *)
(* compilation asks of it is its compressed size, whether a build compiles *)
(* it, and whether it carries a field that a build's schema does not       *)
(* define.  Objects whose name is not their domain, which the resource's   *)
(* own validation rejects, are left out.                                   *)
(***************************************************************************)
EXTENDS Integers, FiniteSets, FiniteSetsExt

CONSTANTS
    Names,      \* names of policies, in order
    Specs,      \* specs
    SizeOf,     \* spec -> the bytes of its payload and of its manifest entry, all
                \* entries counted alike
    Builds,     \* builds of the operator
    Compiles,   \* build -> the specs it compiles
    Undefined,  \* build -> the specs with a field it does not define
    Limit       \* ConfigMapLimit, less the frame of the manifest around the entries

NoBundle == [uid |-> 0, gen |-> 0, spec |-> "none"]

BundleOf(o) == [uid |-> o.uid, gen |-> o.gen, spec |-> o.spec]

\* A mutant: the name is enough.
GoodNamesake(bundle, uid) == bundle.uid # 0

\* Bundle.good: the bundle of the object itself, not of a namesake.
Good(bundle, uid) == bundle.uid # 0 /\ bundle.uid = uid

\* latestGeneration: a skewed object is never compiled.
LatestCompiles(build, o) == o.spec \notin Undefined[build] /\ o.spec \in Compiles[build]

\* A mutant: what does not fit is served by nothing.
CompileDomainOrNothing(build, o, previous, tooLarge) ==
    LET compiled == LatestCompiles(build, o)
        bundle == IF compiled THEN (IF tooLarge THEN NoBundle ELSE BundleOf(o))
                  ELSE IF Good(previous, o.uid) THEN previous ELSE NoBundle
    IN [compiled |-> compiled, tooLarge |-> compiled /\ tooLarge,
        active |-> bundle.gen, bundle |-> bundle, lost |-> FALSE]

\* A mutant: last-good is saved again under the latest generation.
CompileDomainRelabelled(build, o, previous, tooLarge) ==
    LET compiled == LatestCompiles(build, o)
        kept == Good(previous, o.uid) /\ previous.spec \in Compiles[build]
                /\ ~(o.spec \in Undefined[build] /\ previous.gen = o.gen)
        bundle == IF compiled /\ ~tooLarge THEN BundleOf(o)
                  ELSE IF kept THEN [previous EXCEPT !.gen = o.gen] ELSE NoBundle
    IN [compiled |-> compiled, tooLarge |-> compiled /\ tooLarge,
        active |-> bundle.gen, bundle |-> bundle, lost |-> FALSE]

\* compileDomainFitting: the latest generation, or what was good last.
CompileDomain(build, o, previous, tooLarge) ==
    LET compiled == LatestCompiles(build, o)
        outcome(bundle, lost) ==
            [compiled |-> compiled, tooLarge |-> compiled /\ tooLarge,
             active |-> bundle.gen, bundle |-> bundle, lost |-> lost]
        lost ==
            \/ o.spec \in Undefined[build] /\ previous.gen = o.gen
            \/ previous.spec \notin Compiles[build]
    IN IF compiled /\ ~tooLarge THEN outcome(BundleOf(o), FALSE)
       ELSE IF ~Good(previous, o.uid) THEN outcome(NoBundle, FALSE)
       ELSE IF lost THEN outcome(NoBundle, TRUE)
       ELSE outcome(previous, FALSE)

\* The object of a name, of those that exist.
Object(objects, n) == CHOOSE o \in objects : o.name = n

Named(objects) == {o.name : o \in objects}

Previous(state, n) == IF n \in DOMAIN state THEN state[n] ELSE NoBundle

\* Compile, with the generations of some names kept out for their size.
Compile(build, objects, state, kept) ==
    [n \in Named(objects) |->
        CompileDomain(build, Object(objects, n), Previous(state, n), n \in kept)]

\* Render: a bundle without a UID is left out.
Render(result) ==
    [n \in {j \in DOMAIN result : result[j].bundle.uid # 0} |-> result[n].bundle]

\* Rendered.Size, less the frame.
Size(entries) == MapThenSumSet(LAMBDA n : SizeOf[entries[n].spec], DOMAIN entries)

\* The domains whose bundle a compilation changed.
Moved(entries, state) ==
    {n \in DOMAIN entries :
        \/ n \notin DOMAIN state
        \/ state[n].uid # entries[n].uid
        \/ state[n].gen # entries[n].gen}

\* Largest first, by name after.
Before(entries, a, b) ==
    LET x == SizeOf[entries[a].spec]  y == SizeOf[entries[b].spec]
    IN x > y \/ (x = y /\ a < b)

\* Fit: the generations that moved are set back, one after another, until the
\* total fits or none is left; what is set back is a beginning of their order.
Beginnings(entries, moved) ==
    {kept \in SUBSET moved :
        \A a \in moved, b \in kept : Before(entries, a, b) => a \in kept}

KeptOut(build, objects, state, entries) ==
    LET fits(kept) == Size(Render(Compile(build, objects, state, kept))) <= Limit
    IN CHOOSE kept \in Beginnings(entries, Moved(entries, state)) :
          /\ fits(kept) \/ kept = Moved(entries, state)
          /\ \A less \in Beginnings(entries, kept) : less # kept => ~fits(less)

\* A mutant: no fit.
FitNothing(build, objects, state) == Compile(build, objects, state, {})

Fit(build, objects, state) ==
    LET result == Compile(build, objects, state, {})
    IN IF Size(Render(result)) <= Limit THEN result
       ELSE Compile(build, objects, state, KeptOut(build, objects, state, Render(result)))

=============================================================================

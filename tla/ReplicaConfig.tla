--------------------------- MODULE ReplicaConfig ----------------------------
(***************************************************************************)
(* One service replica and its configuration (service/internal/config and  *)
(* service/internal/store): the mounted directory, the reading of it file  *)
(* by file, the domains compiled and swapped, and the report of what the   *)
(* replica enforces.                                                       *)
(*                                                                         *)
(* A manifest is [form, entries]: its form is "good", "undecodable" or     *)
(* "blank" (no bytes at all), its entries map a domain to the generation,  *)
(* the UID and the spec it was published with.  A payload is its spec, and *)
(* so is its hash.  The bytes of a manifest are the manifest itself.       *)
(***************************************************************************)
EXTENDS Integers

CONSTANTS
    Domains,      \* domains
    Manifests,    \* the manifests the ConfigMap may hold
    Compiles,     \* the specs that compile in this build
    MaxSwaps,     \* bound: changes of the mounted directory
    MaxFaults     \* bound: failed reads and restarts

VARIABLES
    mount,    \* the manifest in the mounted directory, Nil when there is none
    swaps,    \* changes of the directory so far
    faults,   \* failed reads and restarts so far
    reading,  \* the watcher's read in progress
    set,      \* the current rule set: domains, and whether it carries a refusal
    ready,    \* Applier.ready
    absent,   \* Watcher.absent and Applier.absent
    applied,  \* Watcher.applied, a manifest's bytes
    refused,  \* Watcher.refused, a manifest's bytes
    last      \* ghost: how the last read ended

watcher == <<ready, absent, applied, refused>>

pvars == <<mount, swaps, faults, reading, set, ready, absent, applied, refused, last>>

Nil == [form |-> "nil", entries |-> <<>>]

Idle == [raw |-> Nil, left |-> {}, specs |-> <<>>]

\* What a domain without an engine of its own enforces.
Nothing == "nothing"

\* What the operator publishes: an entry is of a policy's generation, which the
\* API server counts from one, and its payload is never empty.
ASSUME ManifestTypes ==
    /\ Compiles \subseteq STRING \ {"", Nothing}
    /\ \A m \in Manifests :
          /\ m.form \in {"good", "undecodable", "blank"}
          /\ DOMAIN m.entries \subseteq Domains
          /\ \A d \in DOMAIN m.entries :
                m.entries[d] \in [generation : Nat \ {0}, uid : STRING, spec : STRING \ {""}]

\* bytes.Equal: no bytes at all equal a nil slice.
SameBytes(a, b) == a = b \/ {a.form, b.form} \subseteq {"nil", "blank"}

EmptySet == [domains |-> <<>>, refusal |-> FALSE]

Started ==
    [reading |-> Idle, set |-> EmptySet, ready |-> FALSE, absent |-> FALSE,
     applied |-> Nil, refused |-> Nil, last |-> "none"]

PInit ==
    /\ mount = Nil /\ swaps = 0 /\ faults = 0
    /\ reading = Idle /\ set = EmptySet /\ ready = FALSE /\ absent = FALSE
    /\ applied = Nil /\ refused = Nil /\ last = "none"

-----------------------------------------------------------------------------
\* The kubelet swaps the whole directory by one rename; the ConfigMap may vanish.
Swap(m) ==
    /\ swaps < MaxSwaps
    /\ m # mount
    /\ mount' = m
    /\ swaps' = swaps + 1
    /\ UNCHANGED <<faults, reading, set, watcher, last>>

\* Watcher.read ends without a change of the rule set.
Keep(ending) ==
    /\ reading' = Idle
    /\ last' = ending
    /\ UNCHANGED <<set, ready, applied>>

\* Refuse: the refusal is published on the set that stays current, once per
\* manifest.
Refuse(raw) ==
    /\ absent' = FALSE
    /\ reading' = Idle
    /\ last' = "refused"
    /\ IF SameBytes(raw, refused) THEN UNCHANGED <<set, refused>>
       ELSE /\ refused' = raw
            /\ set' = [set EXCEPT !.refusal = TRUE]
    /\ UNCHANGED <<ready, applied>>

\* A mutant: a domain whose spec does not compile enforces nothing.
BuildDropsLastGood(d, entry, spec) ==
    IF spec \in Compiles
    THEN [engine |-> spec, generation |-> entry.generation, uid |-> entry.uid, hash |-> entry.spec]
    ELSE [engine |-> Nothing, generation |-> 0, uid |-> entry.uid, hash |-> ""]

\* A mutant: a kept engine is reported under the new generation.
BuildReportsNew(d, entry, spec) ==
    LET kept == d \in DOMAIN set.domains
    IN IF spec \in Compiles
       THEN [engine |-> spec, generation |-> entry.generation, uid |-> entry.uid, hash |-> entry.spec]
       ELSE IF kept /\ set.domains[d].hash # ""
       THEN [set.domains[d] EXCEPT !.generation = entry.generation]
       ELSE [engine |-> Nothing, generation |-> 0, uid |-> entry.uid, hash |-> ""]

\* Apply, of one domain: the engine kept for an unchanged hash, the one built
\* from the spec, the last good one with the generation it came from, or none.
Build(d, entry, spec) ==
    LET kept == d \in DOMAIN set.domains
    IN IF kept /\ set.domains[d].hash = entry.spec
       THEN [set.domains[d] EXCEPT !.generation = entry.generation, !.uid = entry.uid]
       ELSE IF spec \in Compiles
       THEN [engine |-> spec, generation |-> entry.generation, uid |-> entry.uid, hash |-> entry.spec]
       ELSE IF kept /\ set.domains[d].hash # ""
       THEN set.domains[d]
       ELSE [engine |-> Nothing, generation |-> 0, uid |-> entry.uid, hash |-> ""]

\* Apply: every domain of the manifest, swapped in one publication.
Apply(raw, specs) ==
    /\ set' = [domains |-> [d \in DOMAIN raw.entries |-> Build(d, raw.entries[d], specs[d])],
               refusal |-> FALSE]
    /\ ready' = TRUE

\* Watcher.read, of a whole reading: applied when it differs from the last one
\* applied, or to clear a refusal that came between.
Applies(raw, specs) ==
    /\ absent' = FALSE
    /\ reading' = Idle
    /\ last' = "applied"
    /\ IF SameBytes(raw, applied) /\ refused = Nil THEN UNCHANGED <<set, ready, applied, refused>>
       ELSE /\ applied' = raw /\ refused' = Nil
            /\ Apply(raw, specs)

-----------------------------------------------------------------------------
\* A mutant: a manifest refused once is not read again.
ReadManifestSkipsRefused ==
    /\ reading = Idle
    /\ UNCHANGED <<mount, swaps, faults>>
    /\ \/ mount = Nil /\ Keep("absent") /\ absent' = TRUE /\ UNCHANGED refused
       \/ mount # Nil /\ mount.form # "good" /\ Refuse(mount)
       \/ /\ mount.form = "good" /\ (mount = refused \/ DOMAIN mount.entries = {})
          /\ IF mount = refused THEN UNCHANGED <<reading, set, watcher, last>> ELSE Applies(mount, <<>>)
       \/ /\ mount.form = "good" /\ mount # refused /\ DOMAIN mount.entries # {}
          /\ reading' = [raw |-> mount, left |-> DOMAIN mount.entries, specs |-> <<>>]
          /\ UNCHANGED <<set, watcher, last>>

\* Read, the manifest.
ReadManifest ==
    /\ reading = Idle
    /\ UNCHANGED <<mount, swaps, faults>>
    /\ \/ mount = Nil /\ Keep("absent") /\ absent' = TRUE /\ UNCHANGED refused
       \/ mount # Nil /\ mount.form # "good" /\ Refuse(mount)
       \/ /\ mount.form = "good" /\ DOMAIN mount.entries = {}
          /\ Applies(mount, <<>>)
       \/ /\ mount.form = "good" /\ DOMAIN mount.entries # {}
          /\ reading' = [raw |-> mount, left |-> DOMAIN mount.entries, specs |-> <<>>]
          /\ UNCHANGED <<set, watcher, last>>

\* The payloads read so far, and one more.
WithSpec(specs, d, spec) ==
    [e \in DOMAIN specs \cup {d} |-> IF e = d THEN spec ELSE specs[e]]

\* A mutant: the payload's hash is not compared with the manifest's.
ReadPayloadUnhashed(d) ==
    /\ d \in reading.left
    /\ UNCHANGED <<mount, swaps, faults>>
    /\ IF d \notin DOMAIN mount.entries THEN Refuse(reading.raw)
       ELSE LET specs == WithSpec(reading.specs, d, mount.entries[d].spec)
            IN IF reading.left = {d} THEN Applies(reading.raw, specs)
               ELSE /\ reading' = [reading EXCEPT !.left = @ \ {d}, !.specs = specs]
                    /\ UNCHANGED <<set, watcher, last>>

\* Read, one payload, from the directory as it is by then; the last one ends the
\* reading.  The order of the domains is fixed, and no property depends on it.
ReadPayload(d) ==
    /\ d \in reading.left
    /\ UNCHANGED <<mount, swaps, faults>>
    /\ IF d \notin DOMAIN mount.entries \/ mount.entries[d].spec # reading.raw.entries[d].spec
       THEN Refuse(reading.raw)
       ELSE LET specs == WithSpec(reading.specs, d, mount.entries[d].spec)
            IN IF reading.left = {d} THEN Applies(reading.raw, specs)
               ELSE /\ reading' = [reading EXCEPT !.left = @ \ {d}, !.specs = specs]
                    /\ UNCHANGED <<set, watcher, last>>

Faulty ==
    /\ faults < MaxFaults
    /\ faults' = faults + 1
    /\ UNCHANGED <<mount, swaps>>

\* A file that exists cannot be read: the manifest's read is given up, and a
\* payload's is a refusal.
ReadError ==
    /\ Faulty
    /\ \/ reading = Idle /\ mount # Nil /\ Keep("failed") /\ absent' = FALSE /\ UNCHANGED refused
       \/ reading # Idle /\ Refuse(reading.raw)

\* The process restarts: nothing but the mounted directory survives.
Restart ==
    /\ Faulty
    /\ reading' = Started.reading /\ set' = Started.set /\ ready' = Started.ready
    /\ absent' = Started.absent /\ applied' = Started.applied /\ refused' = Started.refused
    /\ last' = Started.last

Reads ==
    \/ ReadManifest
    \/ \E d \in reading.left : ReadPayload(d)

PNext ==
    \/ \E m \in Manifests \cup {Nil} : Swap(m)
    \/ Reads
    \/ ReadError
    \/ Restart

\* The resync timer reads the directory again and again.
PSpec == PInit /\ [][PNext]_pvars /\ WF_pvars(Reads)

-----------------------------------------------------------------------------
\* Types of the rule set and of the watcher's state; a ready replica has applied
\* some manifest, and its set has exactly that manifest's domains.
PTypeOK ==
    /\ {mount, applied, refused, reading.raw} \subseteq Manifests \cup {Nil}
    /\ reading.left \subseteq Domains
    /\ \A d \in DOMAIN set.domains :
          set.domains[d].engine \in Compiles \cup {Nothing} /\ set.domains[d].generation \in Nat
    /\ ready <=> applied # Nil
    /\ DOMAIN set.domains = DOMAIN applied.entries

\* The report is honest: what a domain reports as its generation and UID is what
\* was published under them, and generation zero is a domain that enforces
\* nothing.
ReportHonest ==
    \A d \in DOMAIN set.domains :
        LET s == set.domains[d]
        IN IF s.generation = 0 THEN s.engine = Nothing
           ELSE \E m \in Manifests :
                  /\ d \in DOMAIN m.entries
                  /\ m.entries[d] = [generation |-> s.generation, uid |-> s.uid, spec |-> s.engine]

\* An entry whose spec compiles here is enforced and reported as it was published.
InForce(entry, s) ==
    entry.spec \in Compiles =>
        s.engine = entry.spec /\ s.generation = entry.generation /\ s.uid = entry.uid

\* However the directory changes under a read, what compiles of the manifest last
\* applied is in force, spec, generation and UID together; a domain whose entry
\* does not compile keeps its last good engine beside them (Read, Apply).
NoTornSet == \A d \in DOMAIN applied.entries : InForce(applied.entries[d], set.domains[d])

\* While the process lives, a domain that enforces something and stays in the
\* manifest goes on enforcing something, whatever is published next.
LastGoodKept ==
    [][\A d \in DOMAIN set.domains :
          (set.domains[d].engine # Nothing /\ ready' /\ d \in DOMAIN set'.domains) =>
              set'.domains[d].engine # Nothing]_pvars

\* A refusal is reported with the set it was made under: the report carries one
\* exactly when the last reading that was whole or refused was refused.
RefusalReported ==
    /\ last = "refused" => set.refusal
    /\ last = "applied" => ~set.refusal

\* What the operator reads of a replica is so: the generations, and whether the
\* last reading was refused (store.go RuleSet, served by the report).
ReportTells == PTypeOK /\ ReportHonest /\ RefusalReported

\* The specs of a manifest all compile here.
CompilesWhole(m) == \A d \in DOMAIN m.entries : m.entries[d].spec \in Compiles

\* A manifest that stays in the directory has every domain that compiles here in
\* force in the end, also beside one that does not compile (Apply: "the others of
\* the namespace move on"), and when all of it compiles no refusal is left,
\* whatever was torn or refused before.
Converges ==
    \A m \in Manifests :
        <>[](mount = m /\ m.form = "good") =>
            <>[](/\ DOMAIN set.domains = DOMAIN m.entries
                 /\ \A d \in DOMAIN set.domains : InForce(m.entries[d], set.domains[d])
                 /\ CompilesWhole(m) => ~set.refusal)

\* What the head of read.go says, and the code does not do: a manifest is applied
\* when every payload it names compiles here.
AppliedWhole == CompilesWhole(applied)

=============================================================================

--------------------------- MODULE ReplicaProofs ----------------------------
(***************************************************************************)
(* Proofs about one replica's configuration: what it reports is what was   *)
(* published, no torn reading is enforced, and a domain that enforces      *)
(* something goes on enforcing something, for every set of manifests and   *)
(* however often the directory changes under a read.                       *)
(***************************************************************************)
EXTENDS ReplicaConfig, TLAPS

-----------------------------------------------------------------------------
(* The inductive invariant.                                                *)

DomainState ==
    [engine : Compiles \cup {Nothing}, generation : Nat, uid : STRING, hash : Compiles \cup {""}]

RuleSets ==
    [domains : UNION {[D -> DomainState] : D \in SUBSET Domains}, refusal : BOOLEAN]

\* What a domain enforces was published under what it reports, or is nothing;
\* the hash it remembers tells which.
HonestDomain(d, s) ==
    \/ s.engine = Nothing /\ s.generation = 0 /\ s.hash = ""
    \/ /\ s.engine \in Compiles /\ s.hash = s.engine
       /\ \E m \in Manifests :
             /\ d \in DOMAIN m.entries
             /\ m.entries[d] = [generation |-> s.generation, uid |-> s.uid, spec |-> s.engine]

Readings ==
    [raw : Manifests, left : SUBSET Domains,
     specs : UNION {[D -> STRING] : D \in SUBSET Domains}]

\* What has been read so far is what the manifest of this reading names.
WholeReading(r) ==
    /\ r \in Readings
    /\ r.raw.form = "good"
    /\ r.left \subseteq DOMAIN r.raw.entries /\ r.left # {}
    /\ DOMAIN r.specs = DOMAIN r.raw.entries \ r.left
    /\ \A d \in DOMAIN r.specs : r.specs[d] = r.raw.entries[d].spec

NoBlank == \A m \in Manifests : m.form # "blank"

WatcherTypes ==
    /\ mount \in Manifests \cup {Nil}
    /\ applied \in {m \in Manifests : m.form = "good"} \cup {Nil}
    /\ refused \in Manifests \cup {Nil}
    /\ ready \in BOOLEAN /\ (ready <=> applied # Nil)

\* The set is of the manifest last applied, entry by entry.
SetOfApplied ==
    /\ set \in RuleSets
    /\ DOMAIN set.domains = DOMAIN applied.entries
    /\ \A d \in DOMAIN set.domains :
          /\ HonestDomain(d, set.domains[d])
          /\ InForce(applied.entries[d], set.domains[d])

\* A refusal is carried while the watcher remembers the manifest it refused.
RefusalKept ==
    /\ set.refusal <=> refused # Nil
    /\ NoBlank /\ last = "refused" => set.refusal
    /\ last = "applied" => ~set.refusal

ReplicaInv ==
    /\ WatcherTypes
    /\ reading = Idle \/ WholeReading(reading)
    /\ SetOfApplied
    /\ RefusalKept

-----------------------------------------------------------------------------
(* Lemmas.                                                                 *)

\* A manifest is not the absence of one, and has entries of known domains.
LEMMA ManifestFacts ==
    /\ Nil \notin Manifests /\ DOMAIN Nil.entries = {} /\ Nil.form = "nil"
    /\ Nothing \notin Compiles /\ "" \notin Compiles
    /\ \A m \in Manifests : m # Nil /\ m.form # "nil"
<1>1. Nil.form = "nil" /\ DOMAIN Nil.entries = {}
  BY DEF Nil
<1>2. \A m \in Manifests : m # Nil /\ m.form # "nil"
  BY <1>1, ManifestTypes, Zenon
<1>3. Nothing \notin Compiles /\ "" \notin Compiles
  BY ManifestTypes, Zenon
<1> QED
  BY <1>1, <1>2, <1>3, Zenon

\* Apply, of one domain: what it leaves is honest, an entry that compiles is in
\* force, and an engine is never given up for none.
LEMMA BuildHonest ==
    ASSUME ReplicaInv, NEW m \in Manifests, NEW d \in DOMAIN m.entries
    PROVE  /\ Build(d, m.entries[d], m.entries[d].spec) \in DomainState
           /\ HonestDomain(d, Build(d, m.entries[d], m.entries[d].spec))
           /\ InForce(m.entries[d], Build(d, m.entries[d], m.entries[d].spec))
           /\ d \in DOMAIN set.domains /\ set.domains[d].engine # Nothing
                 => Build(d, m.entries[d], m.entries[d].spec).engine # Nothing
<1> DEFINE entry == m.entries[d]
           old == set.domains[d]
           new == Build(d, entry, entry.spec)
           fresh == [engine |-> entry.spec, generation |-> entry.generation, uid |-> entry.uid,
                     hash |-> entry.spec]
           none == [engine |-> Nothing, generation |-> 0, uid |-> entry.uid, hash |-> ""]
<1>1. entry \in [generation : Nat \ {0}, uid : STRING, spec : STRING \ {""}]
  BY ManifestTypes, Zenon
<1>2. d \in DOMAIN set.domains => old \in DomainState /\ HonestDomain(d, old)
  BY Zenon DEF ReplicaInv, SetOfApplied, RuleSets
<1>3. CASE d \in DOMAIN set.domains /\ old.hash = entry.spec
  <2>1. new = [old EXCEPT !.generation = entry.generation, !.uid = entry.uid]
    BY <1>3, Zenon DEF Build
  <2>2. old.engine \in Compiles /\ old.hash = old.engine
    BY <1>1, <1>2, <1>3, Zenon DEF HonestDomain
  <2>3. /\ new \in DomainState /\ new.engine = old.engine /\ new.hash = old.hash
        /\ new.generation = entry.generation /\ new.uid = entry.uid
    BY <1>1, <1>2, <1>3, <2>1, Zenon DEF DomainState
  <2>4. entry = [generation |-> new.generation, uid |-> new.uid, spec |-> new.engine]
    BY <1>1, <1>3, <2>2, <2>3, Zenon
  <2>5. HonestDomain(d, new)
    BY <2>2, <2>3, <2>4, Zenon DEF HonestDomain
  <2> QED
    BY <1>3, <2>2, <2>3, <2>5, ManifestFacts, Zenon DEF InForce
<1>4. CASE ~(d \in DOMAIN set.domains /\ old.hash = entry.spec) /\ entry.spec \in Compiles
  <2>1. new = fresh
    BY <1>4, Zenon DEF Build
  <2>2. /\ fresh \in DomainState
        /\ entry = [generation |-> fresh.generation, uid |-> fresh.uid, spec |-> fresh.engine]
    BY <1>1, <1>4, Zenon DEF DomainState
  <2>3. HonestDomain(d, fresh)
    BY <1>4, <2>2, Zenon DEF HonestDomain
  <2>4. InForce(entry, fresh) /\ fresh.engine # Nothing
    BY <1>4, ManifestFacts, Zenon DEF InForce
  <2> QED
    BY <2>1, <2>2, <2>3, <2>4, Zenon
<1>5. CASE /\ ~(d \in DOMAIN set.domains /\ old.hash = entry.spec) /\ entry.spec \notin Compiles
           /\ d \in DOMAIN set.domains /\ old.hash # ""
  <2>1. new = old
    BY <1>5, Zenon DEF Build
  <2> QED
    BY <1>2, <1>5, <2>1, Zenon DEF InForce
<1>6. CASE /\ ~(d \in DOMAIN set.domains /\ old.hash = entry.spec) /\ entry.spec \notin Compiles
           /\ ~(d \in DOMAIN set.domains /\ old.hash # "")
  <2>1. new = none
    BY <1>6, Zenon DEF Build
  <2>2. none \in DomainState
    BY <1>1, ManifestFacts, Zenon DEF DomainState
  <2>4. HonestDomain(d, none)
    BY Zenon DEF HonestDomain
  <2>3. d \in DOMAIN set.domains => old.engine = Nothing
    BY <1>2, <1>6, ManifestFacts, Zenon DEF HonestDomain
  <2> QED
    BY <1>6, <2>1, <2>2, <2>3, <2>4, Zenon DEF InForce
<1> QED
  BY <1>3, <1>4, <1>5, <1>6, Zenon

\* A whole reading of a manifest: the specs read are the ones it names.
ReadWhole(raw, specs) ==
    /\ raw \in Manifests /\ raw.form = "good"
    /\ \A d \in DOMAIN raw.entries : specs[d] = raw.entries[d].spec

\* Apply: the set it swaps in is of the manifest, entry by entry.
LEMMA ApplySets ==
    ASSUME ReplicaInv, NEW raw, NEW specs, ReadWhole(raw, specs), Apply(raw, specs)
    PROVE  /\ set' \in RuleSets /\ ~set'.refusal /\ ready' = TRUE
           /\ DOMAIN set'.domains = DOMAIN raw.entries
           /\ \A d \in DOMAIN raw.entries :
                 /\ HonestDomain(d, set'.domains[d])
                 /\ InForce(raw.entries[d], set'.domains[d])
                 /\ d \in DOMAIN set.domains /\ set.domains[d].engine # Nothing
                       => set'.domains[d].engine # Nothing
<1> DEFINE built == [d \in DOMAIN raw.entries |-> Build(d, raw.entries[d], specs[d])]
<1>1. set' = [domains |-> built, refusal |-> FALSE] /\ ready' = TRUE
  BY Zenon DEF Apply
<1>2. \A d \in DOMAIN raw.entries : built[d] = Build(d, raw.entries[d], raw.entries[d].spec)
  BY Zenon DEF ReadWhole
<1>3. \A d \in DOMAIN raw.entries :
         /\ built[d] \in DomainState
         /\ HonestDomain(d, built[d])
         /\ InForce(raw.entries[d], built[d])
         /\ d \in DOMAIN set.domains /\ set.domains[d].engine # Nothing
               => built[d].engine # Nothing
  BY <1>2, BuildHonest, Zenon DEF ReadWhole
<1>4. DOMAIN raw.entries \subseteq Domains
  BY ManifestTypes, Zenon DEF ReadWhole
<1>5. built \in [DOMAIN raw.entries -> DomainState]
  BY <1>3, Zenon
<1>6. set'.domains = built /\ set'.refusal = FALSE /\ DOMAIN built = DOMAIN raw.entries
  BY <1>1, Zenon
<1>7. set' \in RuleSets
  BY <1>1, <1>4, <1>5, Zenon DEF RuleSets
<1> HIDE DEF built
<1> QED
  BY <1>1, <1>3, <1>6, <1>7, Zenon

\* The end of a whole reading keeps the invariant, and gives up no engine.
LEMMA AppliesKeeps ==
    ASSUME ReplicaInv, NEW raw, NEW specs, ReadWhole(raw, specs), Applies(raw, specs),
           mount' = mount
    PROVE  /\ ReplicaInv'
           /\ \A d \in DOMAIN set.domains :
                 set.domains[d].engine # Nothing /\ d \in DOMAIN set'.domains
                     => set'.domains[d].engine # Nothing
<1>1. reading' = Idle /\ last' = "applied"
  BY Zenon DEF Applies
<1>2. CASE SameBytes(raw, applied) /\ refused = Nil
  <2>1. UNCHANGED <<set, ready, applied, refused>>
    BY <1>2, Zenon DEF Applies
  <2>2. WatcherTypes'
    BY <2>1, Zenon DEF ReplicaInv, WatcherTypes
  <2>3. SetOfApplied'
    BY <2>1, Zenon DEF ReplicaInv, SetOfApplied
  <2>4. RefusalKept'
    BY <1>1, <1>2, <2>1, Zenon DEF ReplicaInv, RefusalKept
  <2> QED
    BY <1>1, <2>1, <2>2, <2>3, <2>4, Zenon DEF ReplicaInv
<1>3. CASE ~(SameBytes(raw, applied) /\ refused = Nil)
  <2>1. applied' = raw /\ refused' = Nil /\ Apply(raw, specs)
    BY <1>3, Zenon DEF Applies
  <2>2. /\ set' \in RuleSets /\ ~set'.refusal /\ ready' = TRUE
        /\ DOMAIN set'.domains = DOMAIN raw.entries
        /\ \A d \in DOMAIN raw.entries :
              /\ HonestDomain(d, set'.domains[d])
              /\ InForce(raw.entries[d], set'.domains[d])
              /\ d \in DOMAIN set.domains /\ set.domains[d].engine # Nothing
                    => set'.domains[d].engine # Nothing
    BY <2>1, ApplySets, Zenon
  <2>3. WatcherTypes'
    BY <2>1, <2>2, ManifestFacts, Zenon DEF ReplicaInv, WatcherTypes, ReadWhole
  <2>4. SetOfApplied'
    BY <2>1, <2>2, Zenon DEF SetOfApplied
  <2>5. RefusalKept'
    BY <1>1, <2>1, <2>2, Zenon DEF RefusalKept
  <2> QED
    BY <1>1, <2>2, <2>3, <2>4, <2>5, Zenon DEF ReplicaInv
<1> QED
  BY <1>2, <1>3, Zenon

\* A refusal keeps the invariant, and the domains of the set.
LEMMA RefuseKeeps ==
    ASSUME ReplicaInv, NEW raw \in Manifests, Refuse(raw), mount' = mount
    PROVE  ReplicaInv' /\ set'.domains = set.domains
<1>1. reading' = Idle /\ last' = "refused" /\ ready' = ready /\ applied' = applied
  BY Zenon DEF Refuse
<1>2. CASE SameBytes(raw, refused)
  <2>1. set' = set /\ refused' = refused
    BY <1>2, Zenon DEF Refuse
  <2>2. NoBlank => refused # Nil
    BY <1>2, ManifestFacts, Zenon DEF SameBytes, NoBlank
  <2>3. WatcherTypes'
    BY <1>1, <2>1, Zenon DEF ReplicaInv, WatcherTypes
  <2>4. SetOfApplied'
    BY <1>1, <2>1, Zenon DEF ReplicaInv, SetOfApplied
  <2>5. RefusalKept'
    BY <1>1, <2>1, <2>2, Zenon DEF ReplicaInv, RefusalKept
  <2> QED
    BY <1>1, <2>1, <2>3, <2>4, <2>5, Zenon DEF ReplicaInv
<1>3. CASE ~SameBytes(raw, refused)
  <2>1. refused' = raw /\ set' = [set EXCEPT !.refusal = TRUE]
    BY <1>3, Zenon DEF Refuse
  <2>2. set \in RuleSets
    BY Zenon DEF ReplicaInv, SetOfApplied
  <2>3. set' \in RuleSets /\ set'.refusal = TRUE /\ set'.domains = set.domains
    BY <2>1, <2>2, Zenon DEF RuleSets
  <2>4. WatcherTypes'
    BY <1>1, <2>1, Zenon DEF ReplicaInv, WatcherTypes
  <2>5. SetOfApplied'
    BY <1>1, <2>3, Zenon DEF ReplicaInv, SetOfApplied
  <2>6. RefusalKept'
    BY <1>1, <2>1, <2>3, ManifestFacts, Zenon DEF RefusalKept
  <2> QED
    BY <1>1, <2>3, <2>4, <2>5, <2>6, Zenon DEF ReplicaInv
<1> QED
  BY <1>2, <1>3, Zenon

-----------------------------------------------------------------------------
(* The invariant holds initially and every step keeps it.                  *)

\* What a replica starts with: no source read, and the empty rule set.
LEMMA StartedKeeps ==
    /\ Idle.left = {} /\ Idle.raw = Nil
    /\ EmptySet \in RuleSets /\ EmptySet.refusal = FALSE /\ DOMAIN EmptySet.domains = {}
<1>1. Idle.left = {} /\ Idle.raw = Nil
  BY Zenon DEF Idle
<1>2. EmptySet.refusal = FALSE /\ EmptySet.domains = <<>> /\ DOMAIN EmptySet.domains = {}
  BY DEF EmptySet
<1>3. <<>> \in [{} -> DomainState]
  OBVIOUS
<1>4. EmptySet \in RuleSets
  BY <1>3, Zenon DEF EmptySet, RuleSets
<1> QED
  BY <1>1, <1>2, <1>4, Zenon

\* A state with nothing applied and nothing refused.
LEMMA FreshInv ==
    ASSUME mount \in Manifests \cup {Nil}, reading = Idle, set = EmptySet, ready = FALSE,
           applied = Nil, refused = Nil, last = "none"
    PROVE  ReplicaInv
<1>1. WatcherTypes
  BY Zenon DEF WatcherTypes
<1>2. SetOfApplied
  BY StartedKeeps, ManifestFacts, Zenon DEF SetOfApplied
<1>3. RefusalKept
  BY StartedKeeps, Zenon DEF RefusalKept
<1> QED
  BY <1>1, <1>2, <1>3, Zenon DEF ReplicaInv

\* Before the first configuration nothing is served.
LEMMA ReplicaInit == PInit => ReplicaInv
  BY FreshInv, Zenon DEF PInit

\* A step that leaves the set and what the watcher remembers alone.
LEMMA QuietKeeps ==
    ASSUME ReplicaInv, UNCHANGED <<set, ready, applied, refused>>,
           mount' \in Manifests \cup {Nil},
           reading' = Idle \/ WholeReading(reading'),
           last' = last \/ last' \notin {"refused", "applied"}
    PROVE  ReplicaInv'
<1>1. WatcherTypes'
  BY Zenon DEF ReplicaInv, WatcherTypes
<1>2. SetOfApplied'
  BY Zenon DEF ReplicaInv, SetOfApplied
<1>3. RefusalKept'
  BY Zenon DEF ReplicaInv, RefusalKept
<1> QED
  BY <1>1, <1>2, <1>3, Zenon DEF ReplicaInv

\* What a step may do to the engines: an engine is not given up for none.
KeepsEngines ==
    \A d \in DOMAIN set.domains :
        (set.domains[d].engine # Nothing /\ ready' /\ d \in DOMAIN set'.domains) =>
            set'.domains[d].engine # Nothing

\* Reading one payload leaves a reading that has read only what its manifest names.
LEMMA PayloadReads ==
    ASSUME WholeReading(reading), NEW d \in reading.left,
           NEW specs,
           specs = WithSpec(reading.specs, d, reading.raw.entries[d].spec)
    PROVE  /\ reading.left = {d} => ReadWhole(reading.raw, specs)
           /\ reading.left # {d} => WholeReading([reading EXCEPT !.left = @ \ {d}, !.specs = specs])
<1>1. /\ DOMAIN specs = {d} \cup DOMAIN reading.specs
      /\ specs[d] = reading.raw.entries[d].spec
      /\ \A e \in DOMAIN reading.specs : specs[e] = IF e = d THEN specs[d] ELSE reading.specs[e]
  BY Zenon DEF WithSpec
<1>2. \A e \in DOMAIN specs : specs[e] = reading.raw.entries[e].spec
  BY <1>1, Zenon DEF WholeReading
<1>3. DOMAIN specs = DOMAIN reading.raw.entries \ (reading.left \ {d})
  BY <1>1, Zenon DEF WholeReading
<1>4. ASSUME reading.left = {d}
      PROVE  ReadWhole(reading.raw, specs)
  BY <1>2, <1>3, <1>4, Zenon DEF WholeReading, Readings, ReadWhole
<1>5. ASSUME reading.left # {d}
      PROVE  WholeReading([reading EXCEPT !.left = @ \ {d}, !.specs = specs])
  <2> DEFINE next == [reading EXCEPT !.left = @ \ {d}, !.specs = specs]
  <2>1. DOMAIN specs \in SUBSET Domains /\ specs \in [DOMAIN specs -> STRING]
    <3>1. \A e \in DOMAIN reading.raw.entries : e \in Domains /\ reading.raw.entries[e].spec \in STRING
      BY ManifestTypes, Zenon DEF WholeReading, Readings
    <3>2. specs = [e \in DOMAIN specs |-> specs[e]]
      BY Zenon DEF WithSpec
    <3> QED
      BY <1>2, <1>3, <3>1, <3>2, Zenon
  <2>2. /\ next \in Readings
        /\ next.raw = reading.raw /\ next.left = reading.left \ {d} /\ next.specs = specs
    BY <2>1, ZenonT(40) DEF WholeReading, Readings
  <2> HIDE DEF next
  <2>3. WholeReading(next)
    BY <1>2, <1>3, <1>5, <2>2, Zenon DEF WholeReading
  <2> QED
    BY <2>3, Zenon DEF next
<1> QED
  BY <1>4, <1>5, Zenon

\* Every step keeps the invariant, and no step gives up an engine for none.
LEMMA ReplicaStep == ReplicaInv /\ [PNext]_pvars => ReplicaInv' /\ KeepsEngines
<1> SUFFICES ASSUME ReplicaInv, [PNext]_pvars PROVE ReplicaInv' /\ KeepsEngines
  BY Zenon
<1>0. ASSUME set'.domains = set.domains PROVE KeepsEngines
  BY <1>0, Zenon DEF KeepsEngines
<1>1. ASSUME NEW m \in Manifests \cup {Nil}, Swap(m)
      PROVE  ReplicaInv' /\ KeepsEngines
  <2>1. UNCHANGED <<set, ready, applied, refused, reading, last>> /\ mount' = m
    BY <1>1, Zenon DEF Swap, watcher
  <2>2. reading' = Idle \/ WholeReading(reading')
    BY <2>1, Zenon DEF ReplicaInv
  <2> QED
    BY <1>0, <2>1, <2>2, QuietKeeps, Zenon
<1>2. ASSUME ReadManifest
      PROVE  ReplicaInv' /\ KeepsEngines
  <2>1. mount' = mount /\ mount \in Manifests \cup {Nil}
    BY <1>2, Zenon DEF ReadManifest, ReplicaInv, WatcherTypes
  <2>2. CASE mount = Nil /\ Keep("absent") /\ absent' = TRUE /\ UNCHANGED refused
    <3>1. UNCHANGED <<set, ready, applied, refused>> /\ reading' = Idle /\ last' = "absent"
      BY <2>2, Zenon DEF Keep
    <3> QED
      BY <1>0, <2>1, <3>1, QuietKeeps, Zenon
  <2>3. CASE mount # Nil /\ mount.form # "good" /\ Refuse(mount)
    BY <1>0, <2>1, <2>3, RefuseKeeps, Zenon
  <2>4. CASE mount.form = "good" /\ DOMAIN mount.entries = {} /\ Applies(mount, <<>>)
    <3>1. ReadWhole(mount, <<>>)
      BY <2>1, <2>4, ManifestFacts, Zenon DEF ReadWhole
    <3> QED
      BY <2>1, <2>4, <3>1, AppliesKeeps, Zenon DEF KeepsEngines
  <2>5. CASE /\ mount.form = "good" /\ DOMAIN mount.entries # {}
             /\ reading' = [raw |-> mount, left |-> DOMAIN mount.entries, specs |-> <<>>]
             /\ UNCHANGED <<set, watcher, last>>
    <3>1. mount \in Manifests /\ DOMAIN mount.entries \subseteq Domains
      BY <2>1, <2>5, ManifestFacts, ManifestTypes, Zenon
    <3>2. <<>> \in [{} -> STRING] /\ DOMAIN <<>> = {}
      OBVIOUS
    <3>3. reading' \in Readings
      BY <2>5, <3>1, <3>2, Zenon DEF Readings
    <3>4. WholeReading(reading')
      BY <2>5, <3>2, <3>3, Zenon DEF WholeReading
    <3> QED
      BY <1>0, <2>1, <2>5, <3>4, QuietKeeps, Zenon DEF watcher
  <2> QED
    BY <1>2, <2>2, <2>3, <2>4, <2>5, Zenon DEF ReadManifest
<1>3. ASSUME NEW d \in reading.left, ReadPayload(d)
      PROVE  ReplicaInv' /\ KeepsEngines
  <2>1. WholeReading(reading) /\ mount' = mount /\ reading.raw \in Manifests
    BY <1>3, StartedKeeps, Zenon DEF ReplicaInv, ReadPayload, WholeReading, Readings
  <2>2. mount \in Manifests \cup {Nil}
    BY Zenon DEF ReplicaInv, WatcherTypes
  <2>3. CASE d \notin DOMAIN mount.entries \/ mount.entries[d].spec # reading.raw.entries[d].spec
    <3>1. Refuse(reading.raw)
      BY <1>3, <2>3, Zenon DEF ReadPayload
    <3> QED
      BY <1>0, <2>1, <3>1, RefuseKeeps, Zenon
  <2>4. CASE ~(d \notin DOMAIN mount.entries \/ mount.entries[d].spec # reading.raw.entries[d].spec)
    <3> DEFINE specs == WithSpec(reading.specs, d, reading.raw.entries[d].spec)
    <3>1. IF reading.left = {d} THEN Applies(reading.raw, specs)
          ELSE /\ reading' = [reading EXCEPT !.left = @ \ {d}, !.specs = specs]
               /\ UNCHANGED <<set, watcher, last>>
      BY <1>3, <2>4, Zenon DEF ReadPayload
    <3>2. /\ reading.left = {d} => ReadWhole(reading.raw, specs)
          /\ reading.left # {d}
                => WholeReading([reading EXCEPT !.left = @ \ {d}, !.specs = specs])
      BY <2>1, PayloadReads, Zenon
    <3> HIDE DEF specs
    <3>3. CASE reading.left = {d}
      BY <2>1, <3>1, <3>2, <3>3, AppliesKeeps, Zenon DEF KeepsEngines
    <3>4. CASE reading.left # {d}
      <4>1. WholeReading(reading') /\ UNCHANGED <<set, ready, applied, refused, last>>
        BY <3>1, <3>2, <3>4, Zenon DEF watcher
      <4> QED
        BY <1>0, <2>1, <2>2, <4>1, QuietKeeps, Zenon
    <3> QED
      BY <3>3, <3>4, Zenon
  <2> QED
    BY <2>3, <2>4, Zenon
<1>4. ASSUME ReadError
      PROVE  ReplicaInv' /\ KeepsEngines
  <2>1. mount' = mount /\ mount \in Manifests \cup {Nil}
    BY <1>4, Zenon DEF ReadError, Faulty, ReplicaInv, WatcherTypes
  <2>2. CASE reading = Idle /\ mount # Nil /\ Keep("failed") /\ absent' = FALSE /\ UNCHANGED refused
    <3>1. UNCHANGED <<set, ready, applied, refused>> /\ reading' = Idle /\ last' = "failed"
      BY <2>2, Zenon DEF Keep
    <3> QED
      BY <1>0, <2>1, <3>1, QuietKeeps, Zenon
  <2>3. CASE reading # Idle /\ Refuse(reading.raw)
    <3>1. reading.raw \in Manifests
      BY <2>3, Zenon DEF ReplicaInv, WholeReading, Readings
    <3> QED
      BY <1>0, <2>1, <2>3, <3>1, RefuseKeeps, Zenon
  <2> QED
    BY <1>4, <2>2, <2>3, Zenon DEF ReadError
<1>5. ASSUME Restart
      PROVE  ReplicaInv' /\ KeepsEngines
  <2>1. /\ mount' = mount /\ reading' = Idle /\ set' = EmptySet /\ ready' = FALSE
        /\ applied' = Nil /\ refused' = Nil /\ last' = "none"
    BY <1>5, Zenon DEF Restart, Faulty, Started
  <2>2. mount' \in Manifests \cup {Nil}
    BY <2>1, Zenon DEF ReplicaInv, WatcherTypes
  <2>3. WatcherTypes'
    BY <2>1, <2>2, Zenon DEF WatcherTypes
  <2>4. SetOfApplied'
    BY <2>1, StartedKeeps, ManifestFacts, Zenon DEF SetOfApplied
  <2>5. RefusalKept'
    BY <2>1, StartedKeeps, Zenon DEF RefusalKept
  <2>6. KeepsEngines
    BY <2>1, Zenon DEF KeepsEngines
  <2> QED
    BY <2>1, <2>3, <2>4, <2>5, <2>6, Zenon DEF ReplicaInv
<1>6. CASE UNCHANGED pvars
  <2>1. UNCHANGED <<mount, reading, set, ready, applied, refused, last>>
    BY <1>6, Zenon DEF pvars
  <2> QED
    BY <1>0, <2>1, QuietKeeps, Zenon DEF ReplicaInv, WatcherTypes
<1> QED
  BY <1>1, <1>2, <1>3, <1>4, <1>5, <1>6, Zenon DEF PNext, Reads

-----------------------------------------------------------------------------
(* What the runs check, for every value of the constants.                  *)

\* The invariant of the proofs holds in every state of a replica.
THEOREM ReplicaSafe == PSpec => []ReplicaInv
  BY ReplicaInit, ReplicaStep, PTL DEF PSpec

\* What the operator reads of a replica is so: what a domain reports as its
\* generation and UID was published under them, and a refusal is reported while
\* the last reading was refused (Apply, Refuse, RuleSet).  Without the file of no
\* bytes at all, whose refusal is lost.
THEOREM ReportIsHonest ==
    ASSUME NoBlank
    PROVE  PSpec => []ReportTells
<1>1. ReplicaInv => ReportTells
  <2> SUFFICES ASSUME ReplicaInv PROVE ReportTells
    BY Zenon
  <2>1. {mount, applied, refused} \subseteq Manifests \cup {Nil}
    BY Zenon DEF ReplicaInv, WatcherTypes
  <2>2. reading.raw \in Manifests \cup {Nil} /\ reading.left \subseteq Domains
    BY StartedKeeps, Zenon DEF ReplicaInv, WholeReading, Readings
  <2>3. \A d \in DOMAIN set.domains :
           set.domains[d].engine \in Compiles \cup {Nothing} /\ set.domains[d].generation \in Nat
    <3>1. \A d \in DOMAIN set.domains : set.domains[d] \in DomainState
      BY DEF ReplicaInv, SetOfApplied, RuleSets
    <3> QED
      BY <3>1, Zenon DEF DomainState
  <2>4. PTypeOK
    BY <2>1, <2>2, <2>3, Zenon DEF PTypeOK, ReplicaInv, WatcherTypes, SetOfApplied
  <2>5. ReportHonest
    <3> SUFFICES ASSUME NEW d \in DOMAIN set.domains
                 PROVE  LET s == set.domains[d]
                        IN IF s.generation = 0 THEN s.engine = Nothing
                           ELSE \E m \in Manifests :
                                  /\ d \in DOMAIN m.entries
                                  /\ m.entries[d] = [generation |-> s.generation, uid |-> s.uid,
                                                     spec |-> s.engine]
      BY Zenon DEF ReportHonest
    <3>1. HonestDomain(d, set.domains[d])
      BY Zenon DEF ReplicaInv, SetOfApplied
    <3> DEFINE s == set.domains[d]
               Published == \E m \in Manifests :
                   /\ d \in DOMAIN m.entries
                   /\ m.entries[d] = [generation |-> s.generation, uid |-> s.uid, spec |-> s.engine]
    <3>2. CASE s.engine = Nothing /\ s.generation = 0
      BY <3>2, Zenon
    <3>3. CASE Published
      <4>1. PICK m \in Manifests :
               /\ d \in DOMAIN m.entries
               /\ m.entries[d] = [generation |-> s.generation, uid |-> s.uid, spec |-> s.engine]
        BY <3>3, Zenon
      <4>2. m.entries[d].generation = s.generation
        BY <4>1
      <4>3. m.entries[d].generation # 0
        BY <4>1, ManifestTypes, Zenon
      <4> QED
        BY <3>3, <4>2, <4>3, Zenon
    <3> QED
      BY <3>1, <3>2, <3>3, Zenon DEF HonestDomain
  <2>6. RefusalReported
    BY Zenon DEF ReplicaInv, RefusalKept, RefusalReported
  <2> QED
    BY <2>4, <2>5, <2>6, Zenon DEF ReportTells
<1> QED
  BY <1>1, ReplicaSafe, PTL

\* However the directory changes under a read, what compiles of the manifest last
\* applied is in force, spec, generation and UID together (Read's comparison of
\* the hashes, Apply's one publication).
THEOREM SetsAreWhole == PSpec => []NoTornSet
<1>1. ReplicaInv => NoTornSet
  BY Zenon DEF ReplicaInv, SetOfApplied, NoTornSet
<1> QED
  BY <1>1, ReplicaSafe, PTL

\* While the process lives, a domain that enforces something and stays in the
\* manifest goes on enforcing something (Apply's last good engine).
THEOREM EnginesKept == PSpec => LastGoodKept
<1>1. ReplicaInv /\ [PNext]_pvars =>
        [\A d \in DOMAIN set.domains :
            (set.domains[d].engine # Nothing /\ ready' /\ d \in DOMAIN set'.domains) =>
                set'.domains[d].engine # Nothing]_pvars
  BY ReplicaStep, Zenon DEF KeepsEngines
<1> QED
  BY <1>1, ReplicaSafe, PTL DEF PSpec, LastGoodKept

=============================================================================

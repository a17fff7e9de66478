------------------------------ MODULE Identity ------------------------------
(***************************************************************************)
(* Identity extraction (engine/identity): from a token, or from the keys a *)
(* direct caller sends, to the values of the descriptor keys.              *)
(*                                                                         *)
(* A token is [text, decodes, claims]; text is "" where the request has    *)
(* none, and decodes says whether payload returns the claims.  A claim is  *)
(* [kind, items, fields]: a "string" has one item, an "array" its items,   *)
(* where Foreign stands for an item that is not a string, an "object" its  *)
(* fields, and "other" is a number, a boolean or null.                     *)
(*                                                                         *)
(* The cache of what was extracted (engine/tokencache.go) is operators on  *)
(* its value [half, halfBytes, single, cur, prev, bytes].  cur and prev    *)
(* are the two generations, functions from a token to its entry, and bytes *)
(* is curBytes.  An entry is [data, size].  The hash of a token stands for *)
(* the token.                                                              *)
(***************************************************************************)
EXTENDS PolicyModel, FiniteSets, FiniteSetsExt, SequencesExt, Functions

CONSTANTS
    Lowered,        \* a value -> the value in lower case, where they differ
    TooLongValues,  \* values longer than MaxValueBytes
    Foreign,        \* an item of an array that is not a string
    MaxArrayItems

ToLower(v) == IF v \in DOMAIN Lowered THEN Lowered[v] ELSE v

LowerAll(values) == [i \in DOMAIN values |-> ToLower(values[i])]

NonEmpty(values) == SelectSeq(values, LAMBDA v : v # "")

NoKeys == [k \in {} |-> <<>>]

Result(values, reason) == [values |-> values, reason |-> reason]

\* The bounds of an array claim and of explicit values: the first item out of
\* them voids the whole key.
Bounded(values) ==
    LET bad == {i \in DOMAIN values : values[i] = Foreign \/ values[i] \in TooLongValues}
    IN IF Len(values) > MaxArrayItems THEN Result(<<>>, "too_many_items")
       ELSE IF bad = {} THEN Result(NonEmpty(values), "")
       ELSE Result(<<>>, IF values[Min(bad)] = Foreign THEN "bad_type" ELSE "too_long")

\* No claim at all.
Absent == [kind |-> "absent", items |-> <<>>, fields |-> NoKeys]

\* An empty claim carries no reason, and neither does an absent one.
Coerce(claim, type) ==
    IF claim.kind = "absent" THEN Result(<<>>, "")
    ELSE IF claim.kind # (IF type = "StringArray" THEN "array" ELSE "string")
    THEN Result(<<>>, "bad_type")
    ELSE Bounded(claim.items)

\* walk: through the fields of nested objects; nothing else has fields.
Walk(claims, path) ==
    FoldLeft(LAMBDA c, segment : IF segment \in DOMAIN c.fields THEN c.fields[segment] ELSE Absent,
             claims, path)

\* The first non-empty valid candidate, and the first anomaly met on the way to
\* it.
FirstValid(got) ==
    LET good == {i \in DOMAIN got : got[i].values # <<>>}
        bad  == {i \in DOMAIN got : got[i].reason # "" /\ \A j \in good : i <= j}
    IN Result(IF good = {} THEN <<>> ELSE got[Min(good)].values,
              IF bad = {} THEN "" ELSE got[Min(bad)].reason)

\* extractKey: the primary path, then the fallbacks.
ExtractKey(claims, e) ==
    LET paths == <<e.path>> \o e.fallbacks
        first == FirstValid([i \in DOMAIN paths |-> Coerce(Walk(claims, paths[i]), e.type)])
    IN IF e.normalization = "Lowercase" THEN [first EXCEPT !.values = LowerAll(@)] ELSE first

\* Extract: the keys found, and the anomalies.
Extract(plan, token) ==
    LET got == [i \in DOMAIN plan |->
                   IF token.text = "" THEN Result(<<>>, "")
                   ELSE IF ~token.decodes THEN Result(<<>>, "decode_failed")
                   ELSE ExtractKey(token.claims, plan[i])]
        found == {i \in DOMAIN plan : got[i].values # <<>>}
    IN [keys  |-> [k \in {plan[i].key : i \in found} |->
                      got[Max({i \in found : plan[i].key = k})].values],
        skips |-> {[key |-> plan[i].key, reason |-> got[i].reason] :
                      i \in {j \in DOMAIN plan : got[j].reason # ""}}]

\* distinct: a repeated value counts once, at its first position.
Distinct(values) ==
    FoldLeft(LAMBDA kept, v : IF Contains(kept, v) THEN kept ELSE Append(kept, v), <<>>, values)

\* Explicit: the rules of extraction for values that arrive as they are; a skip
\* only for a key the plan declares.
Explicit(plan, keys) ==
    LET declared == {plan[i].key : i \in DOMAIN plan}
        lowers   == {plan[i].key : i \in {j \in DOMAIN plan : plan[j].normalization = "Lowercase"}}
        got      == [k \in DOMAIN keys |-> Bounded(keys[k])]
    IN [keys  |-> [k \in {n \in DOMAIN keys : got[n].values # <<>>} |->
                      Distinct(IF k \in lowers THEN LowerAll(got[k].values) ELSE got[k].values)],
        skips |-> {[key |-> k, reason |-> got[k].reason] :
                      k \in {n \in DOMAIN keys \cap declared : got[n].reason # ""}}]

\* maps.Copy(extracted, explicit): the explicit value of a key wins.
Overlay(extracted, explicit) == explicit @@ extracted

-----------------------------------------------------------------------------
(* The token cache.                                                        *)

\* The overheads entrySize adds up, and the bound of one entry; the bytes of a
\* value are in ValueOverhead.
CONSTANTS EntryOverhead, MapOverhead, KeyOverhead, ValueOverhead, SkipOverhead,
          MaxCachedEntryBytes

EntrySize(keys, skips) ==
    EntryOverhead + SkipOverhead * Cardinality(skips)
    + (IF DOMAIN keys = {} THEN 0 ELSE MapOverhead)
    + MapThenSumSet(LAMBDA k : KeyOverhead + ValueOverhead * Cardinality(DOMAIN keys[k]), DOMAIN keys)

NoEntries == [h \in {} |-> h]

\* newTokenCache.
NewCache(capacity, budget) ==
    LET single == capacity < 2
    IN [half |-> IF single THEN 1 ELSE capacity \div 2,
        halfBytes |-> IF single THEN budget ELSE budget \div 2,
        single |-> single, cur |-> NoEntries, prev |-> NoEntries, bytes |-> 0]

\* What the entries of a generation weigh.
BytesOf(entries) == MapThenSumSet(LAMBDA h : entries[h].size, DOMAIN entries)

Cached(c, h) == h \in DOMAIN c.cur \/ h \in DOMAIN c.prev

\* The entry lookup finds, in the current generation or in the previous one.
Found(c, h) == IF h \in DOMAIN c.cur THEN c.cur[h] ELSE c.prev[h]

\* The current generation has no room for one more entry.
Full(c, e) == Cardinality(DOMAIN c.cur) >= c.half \/ c.bytes + e.size > c.halfBytes

\* The current generation ages into the previous one; a cache of one entry
\* drops it instead.
Rotated(c) ==
    [c EXCEPT !.prev = IF c.single THEN @ ELSE c.cur, !.cur = NoEntries, !.bytes = 0]

Put(f, h, e) == [g \in DOMAIN f \cup {h} |-> IF g = h THEN e ELSE f[g]]

\* store: an entry that is already there is replaced without being counted.
Store(c, h, e) ==
    IF h \in DOMAIN c.cur THEN [c EXCEPT !.cur = Put(@, h, e)]
    ELSE LET room == IF Full(c, e) THEN Rotated(c) ELSE c
         IN [room EXCEPT !.cur = Put(@, h, e), !.bytes = @ + e.size]

=============================================================================

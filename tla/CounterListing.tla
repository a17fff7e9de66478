--------------------------- MODULE CounterListing ---------------------------
(***************************************************************************)
(* The listing of live counters (management/counters.go, selector.go) over *)
(* the walk a store offers (Scan of engine/store/memory and of             *)
(* engine/store/redis).                                                    *)
(*                                                                         *)
(* A client follows the cursors of a listing page by page.  Between any    *)
(* two steps of a page counters appear, expire and change their verdict, a *)
(* Redis table is resized, the slot moves to another master, the rule set  *)
(* is swapped, a store call fails, an answer is lost, or a cursor expires. *)
(***************************************************************************)
EXTENDS CounterKeys, Bags

CONSTANTS
    Counters,       \* key name -> the counter behind it: [block, rule, algorithm, period, axes]
    Foreign,        \* key name -> a text under the domain's prefix that is no counter's key
    Order,          \* the key names in the order of their texts
    Placed,         \* master -> key name -> its hash there
    ScanBudget,     \* scanBudget
    MaxScanSteps,   \* maxScanSteps
    Selections,     \* name -> what a client selects: [ids, algorithm, period, axes, limited]
    RuleSets,       \* name -> a set of rates: [block, rule, algorithm, period, axes]
    Worlds          \* name -> what surrounds the listing in a behaviour:
                    \*   store, "memory" or "redis"; keys, those that may live, and
                    \*   refusable, those of them that may refuse
                    \*   selections, and malformed, those of them the parser or
                    \*   the normalization refuses
                    \*   pageSize; masters, and sizes of their tables; ruleSets
                    \*   changes and faults, bounds; probes, counters whose keys are compared

VARIABLES
    world,      \* the name of this behaviour's world
    store,      \* [live, refusing, size, owner]: the counters alive, those that
                \*   would refuse a request of cost one, and the Redis table
    enforced,   \* the name of the rule set in force
    call,       \* the page in the making
    client,     \* [state, selection, cursor, listed, steady]; steady is a ghost: the
                \*   counters that were to be listed at every moment of the walk
    left        \* [changes, faults]: what may still happen

gvars == <<world, store, enforced, call, client, left>>

World == Worlds[world]

Keys == DOMAIN Counters \cup DOMAIN Foreign

Text == [k \in Keys |-> IF k \in DOMAIN Counters THEN KeyOf(Counters[k]) ELSE Foreign[k]]

Parsed == [k \in Keys |-> ParseCounterKey(Text[k])]

-----------------------------------------------------------------------------
(***************************************************************************)
(* The selection.                                                          *)
(***************************************************************************)
\* newRateIndex: the names of a rate's axes by the prefix of its keys.
NewRateIndex(rules) ==
    LET prefix(r) == RatePrefix(r.block, r.rule, r.algorithm, r.period)
    IN [p \in {prefix(r) : r \in rules} |-> (CHOOSE r \in rules : prefix(r) = p).axes]

Index == [n \in DOMAIN RuleSets |-> NewRateIndex(RuleSets[n])]

\* selector.matches.
Matches(sel, parsed) ==
    /\ sel.algorithm # <<>> => parsed.algorithm = sel.algorithm
    /\ sel.period # "" => parsed.period = sel.period
    /\ sel.ids # {} => {<<parsed.block>>, <<parsed.block, parsed.rule>>} \cap sel.ids # {}

\* selector.matchesAxes, over the axes namedAxes gives their names.
MatchesAxes(sel, names, values) ==
    \A n \in DOMAIN sel.axes : \E i \in DOMAIN names : names[i] = n /\ values[i] \in sel.axes[n]

Admit(index, sel, k) ==
    \E parsed \in Parsed[k] :
        /\ Matches(sel, parsed)
        /\ parsed.ratePrefix \in DOMAIN index
        /\ Len(parsed.axes) = Len(index[parsed.ratePrefix])
        /\ MatchesAxes(sel, index[parsed.ratePrefix], parsed.axes)

ScanPrefix(sel) ==
    IF Cardinality(sel.ids) # 1 THEN DomainPrefix
    ELSE LET id == CHOOSE i \in sel.ids : TRUE
         IN IF Len(id) = 2 THEN RulePrefix(id[1], id[2]) ELSE BlockPrefix(id[1])

-----------------------------------------------------------------------------
(***************************************************************************)
(* One step of the stores' Scan: what it may return, [keys, next].  A      *)
(* cursor is <<>> at the start and after the end.                          *)
(***************************************************************************)
Start == <<>>

Covered == [n \in DOMAIN Selections |-> {k \in Keys : IsPrefix(ScanPrefix(Selections[n]), Text[k])}]

Under(sel) == store.live \cap Covered[sel]

\* The in-process store: the smallest limit keys above the cursor, a position in
\* the order of the keys.
MemoryScan(sel, cursor, limit) ==
    LET above == SelectSeq(Order, LAMBDA k : k \in Under(sel) /\
                     (cursor = Start \/ SelectInSeq(Order, LAMBDA j : j = k) > cursor[1]))
    IN IF Len(above) <= limit THEN {[keys |-> ToSet(above), next |-> Start]}
       ELSE {[keys |-> ToSet(SubSeq(above, 1, limit)),
              next |-> <<SelectInSeq(Order, LAMBDA j : j = above[limit])>>]}

\* The order in which SCAN visits the slots of a table, and its cursors: the
\* counter that is incremented has its bits reversed.
VisitOrder(size) == CASE size = 1 -> <<0>> [] size = 2 -> <<0, 1>> [] size = 4 -> <<0, 2, 1, 3>>

\* SCAN visits whole slots until it has met the keys it was asked for, those of
\* other prefixes included, or the table ends.
RedisScan(sel, cursor, limit) ==
    LET order == VisitOrder(store.size)
        pos   == IF cursor = Start THEN 0 ELSE cursor[2]
        first == SelectInSeq(order, LAMBDA v : v = pos % store.size)
        met(last) == {k \in Under(sel) : \E i \in first .. last :
                         Placed[store.owner][k] % store.size = order[i]}
    IN {[keys |-> met(last),
         next |-> IF last = Len(order) THEN Start ELSE <<store.owner, order[last + 1]>>] :
            last \in {l \in first .. Len(order) : Cardinality(met(l - 1)) < limit}}

\* parseScanCursor: the cursor names a master that does not own the slot.
BadCursor(cursor) == World.store = "redis" /\ cursor # Start /\ cursor[1] # store.owner

StepsOf(sel, cursor, limit) ==
    IF World.store = "memory" THEN MemoryScan(sel, cursor, limit)
    ELSE RedisScan(sel, cursor, limit)

-----------------------------------------------------------------------------
(***************************************************************************)
(* The page.                                                               *)
(***************************************************************************)
NoCall == [pc |-> "none"]

Refusal == [pc |-> "answer", kind |-> "refused"]
Outage  == [pc |-> "answer", kind |-> "down"]

\* handleCounters up to the walk.
Received(selection, cursor) ==
    IF \/ selection \in World.malformed
       \/ cursor # Start /\ (cursor.selection # selection \/ cursor.expired)
    THEN Refusal
    ELSE [pc |-> "scan", selection |-> selection, rules |-> enforced,
          next |-> IF cursor = Start THEN Start ELSE cursor.step,
          found |-> EmptyBag, scanned |-> 0, steps |-> 0, more |-> FALSE]

Full(c) ==
    \/ BagCardinality(c.found) >= World.pageSize
    \/ c.scanned >= ScanBudget
    \/ c.steps >= MaxScanSteps

\* A mutant: every step asks for a whole page.
RoomWhole(c) == World.pageSize

Room(c) ==
    LET page == World.pageSize - BagCardinality(c.found)
        budget == ScanBudget - c.scanned
    IN IF page < budget THEN page ELSE budget

\* A mutant: a page that found nothing ends the listing.
StoppedEmpty(c) == [c EXCEPT !.pc = "judge", !.more = c.found # EmptyBag]

\* stopped: the page is cut short and resumes at the next step.
Stopped(c) == [c EXCEPT !.pc = "judge", !.more = TRUE]

\* take, and the end of the walk.
Taken(c, step) ==
    LET kept == {k \in step.keys : Admit(Index[c.rules], Selections[c.selection], k)}
        d == [c EXCEPT !.found = @ (+) SetToBag(kept), !.scanned = @ + Cardinality(step.keys)]
    IN IF step.next = Start THEN [d EXCEPT !.pc = "judge"]
       ELSE [d EXCEPT !.next = step.next, !.steps = @ + 1]

Shown(sel, keys) == {k \in keys : Selections[sel].limited => k \in store.refusing}

\* A mutant: a page resumes where it started.
PageRewound(c, cursor) ==
    [pc |-> "answer", kind |-> "page", items |-> Shown(c.selection, BagToSet(c.found)),
     more |-> c.more, step |-> IF cursor = Start THEN Start ELSE cursor.step]

\* The rendered page; step is what its cursor resumes at.
Page(c, cursor) ==
    [pc |-> "answer", kind |-> "page", items |-> Shown(c.selection, BagToSet(c.found)),
     more |-> c.more, step |-> c.next]

\* judge: Peek refuses buckets of which two have one key.
Judged(c) ==
    IF \E k \in BagToSet(c.found) : CopiesIn(k, c.found) > 1 THEN Outage ELSE Page(c, client.cursor)

Scan ==
    /\ call.pc = "scan"
    /\ \/ Full(call) /\ call' = Stopped(call)
       \/ ~Full(call) /\ BadCursor(call.next) /\ call' = Refusal
       \/ /\ ~Full(call) /\ ~BadCursor(call.next)
          /\ \E step \in StepsOf(call.selection, call.next, Room(call)) : call' = Taken(call, step)
    /\ UNCHANGED <<world, store, enforced, client, left>>

Judge ==
    /\ call.pc = "judge"
    /\ call' = Judged(call)
    /\ UNCHANGED <<world, store, enforced, client, left>>

\* The store does not answer the scan or the read.
StoreFails ==
    /\ left.faults > 0
    /\ \/ call.pc = "scan" /\ ~Full(call)
       \/ call.pc = "judge" /\ call.found # EmptyBag
    /\ call' = Outage
    /\ left' = [left EXCEPT !.faults = @ - 1]
    /\ UNCHANGED <<world, store, enforced, client>>

-----------------------------------------------------------------------------
(***************************************************************************)
(* The client.                                                             *)
(***************************************************************************)
\* The counter is one the selection asks for, read off the counter itself.
Wanted(rules, sel, k) ==
    /\ k \in DOMAIN Counters
    /\ \E r \in rules :
          LET c == Counters[k]
          IN /\ r.block = c.block /\ r.rule = c.rule /\ r.algorithm = c.algorithm
             /\ r.period = c.period /\ Len(r.axes) = Len(c.axes)
             /\ sel.ids # {} => <<c.block>> \in sel.ids \/ <<c.block, c.rule>> \in sel.ids
             /\ sel.algorithm \in {<<>>, c.algorithm} /\ sel.period \in {"", c.period}
             /\ \A n \in DOMAIN sel.axes :
                    \E i \in DOMAIN r.axes : r.axes[i] = n /\ c.axes[i] \in sel.axes[n]

\* Of the counters, those that are to be listed now.
Due(sel, keys) == {k \in keys \cap Shown(sel, store.live) : Wanted(RuleSets[enforced], Selections[sel], k)}

\* A request for a page is sent, and the handler takes it up.
Ask(selection, cursor, listed, steady) ==
    /\ call' = Received(selection, cursor)
    /\ client' = [state |-> "asking", selection |-> selection, cursor |-> cursor,
                  listed |-> listed, steady |-> steady]
    /\ UNCHANGED <<world, store, enforced, left>>

Begin ==
    /\ client.state \in {"idle", "ended"}
    /\ \E sel \in World.selections : Ask(sel, Start, {}, Due(sel, Keys))

\* The next page, or the same one again after an outage or a lost answer.
Follow ==
    /\ client.state = "holding"
    /\ Ask(client.selection, client.cursor, client.listed, Due(client.selection, client.steady))

\* The cursor of one listing is presented with another selection.
Mix ==
    /\ client.state = "holding" /\ client.cursor # Start
    /\ client.cursor.selection = client.selection
    /\ \E sel \in World.selections \ {client.selection} : Ask(sel, client.cursor, {}, Due(sel, Keys))

\* What the client makes of an answer.  A refusal tells it to start over.
Deliver ==
    /\ call.pc = "answer"
    /\ client' =
         IF call.kind = "refused"
         THEN [client EXCEPT !.state = "idle", !.cursor = Start, !.listed = {}, !.steady = {}]
         ELSE IF call.kind = "down" THEN [client EXCEPT !.state = "holding"]
         ELSE IF call.more
         THEN [client EXCEPT !.state = "holding", !.listed = @ \cup call.items,
                             !.cursor = [step |-> call.step, selection |-> client.selection, expired |-> FALSE]]
         ELSE [client EXCEPT !.state = "ended", !.cursor = Start, !.listed = @ \cup call.items]
    /\ call' = NoCall
    /\ UNCHANGED <<world, store, enforced, left>>

\* The answer is lost.
Lose ==
    /\ call.pc = "answer" /\ left.faults > 0
    /\ client' = [client EXCEPT !.state = "holding"]
    /\ call' = NoCall
    /\ left' = [left EXCEPT !.faults = @ - 1]
    /\ UNCHANGED <<world, store, enforced>>

\* The cursor in hand outlives its time.
Expire ==
    /\ client.state = "holding" /\ client.cursor # Start /\ left.faults > 0
    /\ ~client.cursor.expired
    /\ client' = [client EXCEPT !.cursor.expired = TRUE]
    /\ left' = [left EXCEPT !.faults = @ - 1]
    /\ UNCHANGED <<world, store, enforced, call>>

-----------------------------------------------------------------------------
(***************************************************************************)
(* Around the listing.                                                     *)
(***************************************************************************)
\* The store is as given from here on; what is no longer due stops being steady.
Becomes(live, refusing, size, owner) ==
    /\ client.state \in {"asking", "holding"} /\ left.changes > 0
    /\ store' = [live |-> live, refusing |-> refusing, size |-> size, owner |-> owner]
    /\ store' # store
    /\ client' = [client EXCEPT !.steady = @ \cap live \cap (IF Selections[client.selection].limited THEN refusing ELSE live)]
    /\ left' = [left EXCEPT !.changes = @ - 1]
    /\ UNCHANGED <<world, enforced, call>>

\* Traffic charges a counter, which refuses from now on or does not.
Charge ==
    \E k \in World.keys, refuses \in BOOLEAN :
        (refuses => k \in World.refusable) /\
        Becomes(store.live \cup {k},
                IF refuses THEN store.refusing \cup {k} ELSE store.refusing \ {k},
                store.size, store.owner)

\* A counter expires or is reset.
Drop ==
    \E k \in store.live :
        Becomes(store.live \ {k}, store.refusing \ {k}, store.size, store.owner)

\* Redis resizes its table.
Resize ==
    \E size \in World.sizes : Becomes(store.live, store.refusing, size, store.owner)

\* The slot moves to another master, or another master takes over.
Move ==
    \E owner \in World.masters \ {store.owner}, size \in World.sizes :
        Becomes(store.live, store.refusing, size, owner)

\* The replica swaps its rule set.
Swap ==
    /\ client.state \in {"asking", "holding"} /\ left.changes > 0
    /\ \E rules \in World.ruleSets \ {enforced} : enforced' = rules
    /\ left' = [left EXCEPT !.changes = @ - 1]
    /\ UNCHANGED <<world, store, call, client>>

GInit ==
    /\ world \in DOMAIN Worlds
    /\ \E live \in SUBSET World.keys : \E refusing \in SUBSET (live \cap World.refusable) :
       \E size \in World.sizes, owner \in World.masters :
          store = [live |-> live, refusing |-> refusing, size |-> size, owner |-> owner]
    /\ enforced \in World.ruleSets
    /\ call = NoCall
    /\ client = [state |-> "idle", selection |-> "none", cursor |-> Start, listed |-> {}, steady |-> {}]
    /\ left = [changes |-> World.changes, faults |-> World.faults]

GNext ==
    \/ Begin \/ Follow \/ Mix \/ Scan \/ Judge \/ Deliver
    \/ StoreFails \/ Lose \/ Expire
    \/ Charge \/ Drop \/ Resize \/ Move \/ Swap

GSpec == GInit /\ [][GNext]_gvars

\* The handler runs to its answer, and the client follows the cursors it gets.
GFairSpec == GSpec /\ WF_gvars(Scan \/ Judge) /\ WF_gvars(Deliver) /\ WF_gvars(Follow)

-----------------------------------------------------------------------------
\* Types; and a step of the walk asks for at least one key and for no more than a
\* page, which is what Scan accepts (counters.go room).
GTypeOK ==
    /\ store.refusing \subseteq store.live /\ store.live \subseteq World.keys
    /\ client.state \in {"idle", "asking", "holding", "ended"}
    /\ client.listed \subseteq Keys /\ client.steady \subseteq Keys
    /\ call.pc \in {"none", "scan", "judge", "answer"}
    /\ (call.pc # "none") = (client.state = "asking")
    /\ call.pc = "scan" /\ ~Full(call) => Room(call) \in 1 .. World.pageSize
    /\ left.changes \in 0 .. World.changes /\ left.faults \in 0 .. World.faults

\* A listing that ended has shown every counter that was to be shown at every
\* moment of its walk, whatever was resized, swapped, retried or lost between
\* its pages (counters.go selectCandidates: a missing nextCursor is the end).
CompleteListing == client.state = "ended" => client.steady \subseteq client.listed

\* The largest slot a table of the world can have.
LargestSlot ==
    LET sizes == {Cardinality({k \in World.keys : Placed[o][k] % s = v}) :
                     o \in World.masters, s \in World.sizes, v \in 0 .. 3}
    IN CHOOSE n \in sizes : \A m \in sizes : m <= n

\* A page keeps to its size, to the budget of keys and to the cap of steps:
\* exactly on a store whose step is exact, and on Redis over it by less than the
\* last slot it read (counters.go full, room).
PageBounded ==
    LET margin == IF World.store = "memory" THEN 0 ELSE LargestSlot - 1
    IN GTypeOK /\ (call.pc \in {"scan", "judge"} =>
           /\ BagCardinality(call.found) <= World.pageSize + margin
           /\ call.scanned <= ScanBudget + margin
           /\ call.steps <= MaxScanSteps)

\* A client that follows the cursors comes to the end of the listing, or is told
\* to start over (counters.go stopped, full: every page reads on from where the
\* one before it stopped).
ListingEnds == client.state \in {"asking", "holding"} ~> client.state \in {"idle", "ended"}

\* A key reads back as its counter, no two counters have one key, and the prefixes
\* of a block, of a rule and of leading axes cover exactly the keys of their own
\* counters, whatever characters the names and the identities have (engine/key,
\* and management/keys.go, which reads what the other writes).
KeysTell ==
    LET probes == World.probes
        key == [c \in probes |-> KeyOf(c)]
        rule == [c \in probes |-> RulePrefix(c.block, c.rule)]
        block == [c \in probes |-> BlockPrefix(c.block)]
    IN \A c \in probes :
          /\ \E parsed \in ParseCounterKey(key[c]) : [f \in DOMAIN c |-> parsed[f]] = c
          /\ \A d \in probes :
                /\ IsPrefix(block[c], key[d]) <=> c.block = d.block
                /\ IsPrefix(rule[c], key[d]) <=> c.block = d.block /\ c.rule = d.rule
                /\ IsPrefix(key[c], key[d]) <=>
                      /\ [c EXCEPT !.axes = <<>>] = [d EXCEPT !.axes = <<>>]
                      /\ IsPrefix(c.axes, d.axes)

=============================================================================

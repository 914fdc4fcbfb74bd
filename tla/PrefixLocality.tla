--------------------------- MODULE PrefixLocality ---------------------------
(***************************************************************************)
(* Rolling prefix locality (internal/router/prefixlocality.go): a bounded  *)
(* table from a conversation's prefix to the node that completed it, with  *)
(* an eviction queue of (key, sequence number) slots in which only the     *)
(* newest slot of a key counts, a sweep, rows written in the background,   *)
(* and a reseed from those rows when the feature is switched on.           *)
(*                                                                         *)
(* A conversation is a sequence of turns; its key is the API key's domain  *)
(* with the sequence.  Hashing and the 200-character cut are left out.     *)
(***************************************************************************)
EXTENDS Integers, FiniteSets, SequencesExt

CONSTANTS Domains,           \* API key names, the anonymous one included
          Histories,         \* the conversations, as sequences of turns
          LocalNodes,
          PrefixCap,         \* prefixLocalityMaxEntries
          ProbeDepth,        \* prefixLocalityProbeDepth
          MaxRecords,        \* completions recorded in one behaviour
          MaxToggles         \* changes of the setting, sweeps and restarts

Keys == Domains \X Histories
ASSUME PrefixAssumption ==
    /\ PrefixCap \in Nat \ {0} /\ ProbeDepth \in Nat /\ MaxRecords \in Nat /\ MaxToggles \in Nat
    /\ \A h \in Histories : h \in Seq({1, 2}) /\ h # <<>>

VARIABLES entries,    \* key -> the node and the sequence number of its last record
          order,      \* the slots, oldest first
          nextSeq,
          enabled,    \* prefixLocalityEnabled
          writes,     \* rows on their way to the store
          rows,       \* the prefix_locality table, in id order
          nodesNow,   \* the nodes the router has
          hint,       \* the node the last lookup preferred
          used
prefixVars == <<entries, order, nextSeq, enabled, writes, rows, nodesNow, hint, used>>

PrefixInit ==
    /\ entries = <<>> /\ order = <<>> /\ nextSeq = 0
    /\ enabled \in BOOLEAN
    /\ writes = {} /\ rows = <<>>
    /\ nodesNow = LocalNodes
    /\ hint = "-"
    /\ used = [records |-> 0, toggles |-> 0]

Put(e, key, val) == [k \in DOMAIN e \cup {key} |-> IF k = key THEN val ELSE e[k]]
Without(e, keys) == [k \in DOMAIN e \ keys |-> e[k]]
Toggles == used.toggles < MaxToggles /\ used' = [used EXCEPT !.toggles = @ + 1]

\* A slot counts while it is the newest of its key.
Current(t, slot) == slot.key \in DOMAIN t.entries /\ t.entries[slot.key].seq = slot.seq

\* evictOldestLocked: slots are taken from the front up to the first that counts.
EvictOldest(t) ==
    LET counting == {i \in DOMAIN t.order : Current(t, t.order[i])} IN
    IF counting = {} THEN [t EXCEPT !.order = <<>>]
    ELSE LET i == CHOOSE i \in counting : \A j \in counting : i <= j IN
         [t EXCEPT !.entries = Without(@, {t.order[i].key}),
                   !.order = SubSeq(@, i + 1, Len(@))]

\* setLocked: a new key makes room first when the table is full.
SetLockedReusingSlot(t, key, n) ==
    LET room == IF key \notin DOMAIN t.entries /\ Cardinality(DOMAIN t.entries) >= PrefixCap
                THEN EvictOldest(t) ELSE t
        seq == t.next + 1 IN
    [entries |-> Put(room.entries, key, [node |-> n, seq |-> seq, old |-> FALSE]),
     order   |-> IF key \in DOMAIN t.entries THEN room.order
                 ELSE Append(room.order, [key |-> key, seq |-> seq]),
     next    |-> seq]
SetLocked(t, key, n) ==
    LET room == IF key \notin DOMAIN t.entries /\ Cardinality(DOMAIN t.entries) >= PrefixCap
                THEN EvictOldest(t) ELSE t
        seq == t.next + 1 IN
    [entries |-> Put(room.entries, key, [node |-> n, seq |-> seq, old |-> FALSE]),
     order   |-> Append(room.order, [key |-> key, seq |-> seq]),
     next    |-> seq]
SetIfAbsent(t, key, n) == IF key \in DOMAIN t.entries THEN t ELSE SetLocked(t, key, n)

Table == [entries |-> entries, order |-> order, next |-> nextSeq]
Becomes(t) == entries' = t.entries /\ order' = t.order /\ nextSeq' = t.next

\* RecordPrefixLocality after a request that succeeded: the table at once, the row
\* in the background.
RecordPrefixLocality(key, n) ==
    /\ enabled /\ used.records < MaxRecords
    /\ Becomes(SetLocked(Table, key, n))
    /\ writes' = writes \cup {[key |-> key, node |-> n, seq |-> nextSeq + 1, old |-> FALSE]}
    /\ used' = [used EXCEPT !.records = @ + 1]
    /\ UNCHANGED <<enabled, rows, nodesNow, hint>>

\* AppendPrefixLocality, in any order, or failing: a lost row is only logged.
AppendRow(w) ==
    /\ w \in writes /\ writes' = writes \ {w}
    /\ \/ rows' = Append(rows, w)
       \/ UNCHANGED rows
    /\ UNCHANGED <<entries, order, nextSeq, enabled, nodesNow, hint, used>>

\* prefixLookupCandidates: the history without its last turns, longest first, and
\* then the history itself.
Probes(h) == LET depth == IF Len(h) - 1 < ProbeDepth THEN Len(h) - 1 ELSE ProbeDepth IN
             [i \in 1 .. depth |-> SubSeq(h, 1, Len(h) - i)] \o <<h>>
Hits(d, h) == {i \in DOMAIN Probes(h) :
                 <<d, Probes(h)[i]>> \in DOMAIN entries /\ ~entries[<<d, Probes(h)[i]>>].old}

\* PrefixLocalityLookup: the first probe with a live entry answers.
PrefixLocalityLookup(d, h) ==
    /\ enabled /\ Hits(d, h) # {}
    /\ LET i == CHOOSE i \in Hits(d, h) : \A j \in Hits(d, h) : i <= j IN
       hint' = entries[<<d, Probes(h)[i]>>].node
    /\ UNCHANGED <<entries, order, nextSeq, enabled, writes, rows, nodesNow, used>>

\* An entry, and the row written with it, grow older than prefixLocalityTTL.
Expires(key) ==
    /\ key \in DOMAIN entries /\ ~entries[key].old
    /\ entries' = [entries EXCEPT ![key].old = TRUE]
    /\ rows' = [i \in DOMAIN rows |-> IF rows[i].seq <= entries[key].seq
                                      THEN [rows[i] EXCEPT !.old = TRUE] ELSE rows[i]]
    /\ UNCHANGED <<order, nextSeq, enabled, writes, nodesNow, hint, used>>

\* sweep: expired entries go, and the slots that no longer count.
Live(t, slots) ==
    FoldLeft(LAMBDA live, slot : IF Current(t, slot) THEN Append(live, slot) ELSE live, <<>>, slots)
Sweep ==
    /\ Toggles
    /\ LET t == [Table EXCEPT !.entries = Without(@, {k \in DOMAIN @ : @[k].old})] IN
       Becomes([t EXCEPT !.order = Live(t, @)])
    /\ UNCHANGED <<enabled, writes, rows, nodesNow, hint>>

\* seedPrefixLocalityFromStore: the rows from the newest to the oldest, those of
\* nodes still in the pool and within the TTL, each key once, up to the cap.
SeedRow(acc, r, nodes) ==
    IF r.old \/ r.node \notin nodes \/ acc.seeded >= PrefixCap THEN acc
    ELSE [table |-> SetIfAbsent(acc.table, r.key, r.node),
          seeded |-> acc.seeded + (IF r.key \in DOMAIN acc.table.entries THEN 0 ELSE 1)]
Seeded(t, nodes) ==
    FoldLeft(LAMBDA acc, r : SeedRow(acc, r, nodes), [table |-> t, seeded |-> 0], Reverse(rows)).table

\* SetPrefixLocality: switching the feature on reseeds; switching it off leaves the
\* table, which nothing reads.
SetPrefixLocality(on) ==
    /\ Toggles /\ enabled' = on
    /\ Becomes(IF on /\ ~enabled THEN Seeded(Table, nodesNow) ELSE Table)
    /\ UNCHANGED <<writes, rows, nodesNow, hint>>

\* A restart: an empty table, reseeded when the feature is on; a node may have been
\* removed, and rows on their way are lost.
PrefixRestart ==
    /\ Toggles
    /\ \E left \in SUBSET LocalNodes :
         /\ nodesNow' = left
         /\ LET none == [entries |-> <<>>, order |-> <<>>, next |-> nextSeq] IN
            Becomes(IF enabled THEN Seeded(none, left) ELSE none)
    /\ writes' = {}
    /\ UNCHANGED <<enabled, rows, hint>>

PrefixNext ==
    \/ \E k \in Keys : \/ \E n \in nodesNow : RecordPrefixLocality(k, n)
                       \/ PrefixLocalityLookup(k[1], k[2])
                       \/ Expires(k)
    \/ \E w \in writes : AppendRow(w)
    \/ \E on \in BOOLEAN : SetPrefixLocality(on)
    \/ Sweep \/ PrefixRestart
PrefixSpec == PrefixInit /\ [][PrefixNext]_prefixVars

-----------------------------------------------------------------------------
PrefixTypeOK ==
    /\ DOMAIN entries \subseteq Keys /\ nextSeq \in Nat /\ enabled \in BOOLEAN
    /\ \A k \in DOMAIN entries : entries[k].node \in LocalNodes
    /\ \A i \in DOMAIN order : order[i].key \in Keys
    /\ nodesNow \subseteq LocalNodes /\ hint \in LocalNodes \cup {"-"}

\* The table never exceeds its cap, and every entry has exactly one slot that counts,
\* so that an eviction always finds a victim and takes the entry recorded longest ago.
PrefixEvictable ==
    /\ Cardinality(DOMAIN entries) <= PrefixCap
    /\ \A k \in DOMAIN entries :
         Cardinality({i \in DOMAIN order : order[i] = [key |-> k, seq |-> entries[k].seq]}) = 1
    /\ \A i, j \in DOMAIN order : i < j => order[i].seq < order[j].seq
=============================================================================

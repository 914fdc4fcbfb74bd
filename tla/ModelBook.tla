------------------------------ MODULE ModelBook ------------------------------
(***************************************************************************)
(* What the router remembers of each model of a node                       *)
(* (internal/router/eviction.go): when it was last used ("used") and how   *)
(* much memory it last took ("known").  Each book is a map with a counter  *)
(* and an index of its keys beside it, bounded per node, written by        *)
(* requests and polls and emptied when the node is removed.  One node.     *)
(***************************************************************************)
EXTENDS Naturals, FiniteSets, FiniteSetsExt

CONSTANTS BookModels, Recorders,
          MaxTracked,   \* maxTrackedModelsPerNode
          TrimBatch,    \* entries one trimming drops
          Recent,       \* age up to which a use counts as recent (one poll interval)
          MaxStamp      \* bound: time

ASSUME BookAssumption ==
    /\ IsFiniteSet(BookModels)
    /\ MaxTracked \in Nat \ {0} /\ TrimBatch \in Nat \ {0}
    /\ Recent \in Nat /\ MaxStamp \in Nat \ {0}

VARIABLES pooled,    \* the node is in the router's list
          lifecycle,  \* holder of nodeLifecycleMu, or "free"
          loadedNow,  \* the models the last poll saw loaded
          which,      \* the book: "used" or "known", two that nothing connects
          book,       \* its content: [at, keys, count]
          rec,        \* per recorder: [at, model, loaded]
          stamp       \* the time

bookVars == <<pooled, lifecycle, loadedNow, which, book, rec, stamp>>

EmptyBook == [at |-> [m \in {} |-> 0], keys |-> {}, count |-> 0]
NoStamping == [at |-> "idle", model |-> "", loaded |-> {}]

BookInit ==
    /\ pooled = TRUE /\ lifecycle = "free" /\ loadedNow = {}
    /\ which \in {"used", "known"} /\ book = EmptyBook
    /\ rec = [r \in Recorders |-> NoStamping]
    /\ stamp = 1

Entries == DOMAIN book.at

\* The order in which trimNodeEntries drops: what is neither loaded nor recently
\* used first, then recent use, loaded last, and the older before the newer.  The
\* sizes carry no time, so in that book only loading counts.
Keep(m, loaded) ==
    IF m \in loaded THEN 2
    ELSE IF which = "used" /\ book.at[m] + Recent > stamp THEN 1 ELSE 0
Before(m, n, loaded) ==
    \/ Keep(m, loaded) < Keep(n, loaded)
    \/ Keep(m, loaded) = Keep(n, loaded) /\ which = "used" /\ book.at[m] < book.at[n]

TrimNodeEntries(loaded) ==
    LET present_ == book.keys \cap Entries
        drop == CHOOSE d \in SUBSET present_ :
                  /\ Cardinality(d) = IF TrimBatch < Cardinality(present_) THEN TrimBatch
                                      ELSE Cardinality(present_)
                  /\ \A m \in d, n \in present_ \ d : ~Before(n, m, loaded)
        kept == present_ \ drop
    IN [at |-> [m \in Entries \ drop |-> book.at[m]], keys |-> kept,
        count |-> Cardinality(kept)]

\* lastUsedFullLocked and its counterpart in putLastKnownVRAM.
FullFor(m) == book.count >= MaxTracked /\ m \notin Entries

\* stampLastUsedLocked, storeLastKnownLocked: trim if need be, count a new key,
\* write it, note it in the index.
Stamp(m, loaded) ==
    LET old == IF FullFor(m) THEN TrimNodeEntries(loaded) ELSE book
    IN [at |-> [n \in DOMAIN old.at \cup {m} |-> IF n = m THEN stamp ELSE old.at[n]],
        keys |-> old.keys \cup {m},
        count |-> IF m \in Entries THEN old.count ELSE old.count + 1]

(***************************************************************************)
(* Recording: RecordModelUse, recordLastKnownVRAM                          *)
(***************************************************************************)
Record(r, m) ==
    /\ rec[r].at = "idle" /\ pooled
    /\ rec' = [rec EXCEPT ![r] = [at |-> "stamp", model |-> m, loaded |-> {}]]
    /\ UNCHANGED <<which, pooled, lifecycle, loadedNow, book, stamp>>

\* Under the book's lock: a full book is left again to gather the loaded models
\* without it, once; otherwise the entry is written.
TryStamp(r) ==
    /\ rec[r].at \in {"stamp", "again"}
    /\ IF rec[r].at = "stamp" /\ FullFor(rec[r].model)
       THEN rec' = [rec EXCEPT ![r].at = "gather"] /\ UNCHANGED book
       ELSE /\ book' = Stamp(rec[r].model, rec[r].loaded)
            /\ rec' = [rec EXCEPT ![r].at = "check"]
    /\ UNCHANGED <<which, pooled, lifecycle, loadedNow, stamp>>

LoadedModelSet(r) ==
    /\ rec[r].at = "gather"
    /\ rec' = [rec EXCEPT ![r] = [@ EXCEPT !.at = "again",
                                           !.loaded = IF pooled THEN loadedNow ELSE {}]]
    /\ UNCHANGED <<which, pooled, lifecycle, loadedNow, book, stamp>>

\* undoIfNodeRemoved: a look without the lifecycle lock, and one with it.
LookForNode(r) ==
    /\ rec[r].at = "check"
    /\ rec' = [rec EXCEPT ![r] = IF pooled THEN NoStamping ELSE [@ EXCEPT !.at = "undo"]]
    /\ UNCHANGED <<which, pooled, lifecycle, loadedNow, book, stamp>>

UndoIfNodeRemoved(r) ==
    /\ rec[r].at = "undo" /\ lifecycle = "free"
    /\ book' = IF pooled THEN book ELSE EmptyBook
    /\ rec' = [rec EXCEPT ![r] = NoStamping]
    /\ UNCHANGED <<which, pooled, lifecycle, loadedNow, stamp>>

(***************************************************************************)
(* The node comes and goes under the lifecycle lock; polls; time           *)
(***************************************************************************)
RemoveBookNode ==
    /\ pooled /\ lifecycle = "free"
    /\ pooled' = FALSE /\ lifecycle' = "remove"
    /\ UNCHANGED <<which, loadedNow, book, rec, stamp>>

\* forgetLastUsedForNode, forgetLastKnownForNode
ForgetNode ==
    /\ lifecycle = "remove" /\ lifecycle' = "free"
    /\ book' = EmptyBook
    /\ loadedNow' = {}
    /\ UNCHANGED <<which, pooled, rec, stamp>>

AddBookNode ==
    /\ ~pooled /\ lifecycle = "free" /\ stamp < MaxStamp
    /\ pooled' = TRUE /\ stamp' = stamp + 1
    /\ UNCHANGED <<which, lifecycle, loadedNow, book, rec>>

PollLoaded ==
    /\ pooled /\ stamp < MaxStamp /\ stamp' = stamp + 1
    /\ loadedNow' \in SUBSET BookModels
    /\ UNCHANGED <<which, pooled, lifecycle, book, rec>>

BookNext ==
    \/ \E r \in Recorders :
         \/ \E m \in BookModels : Record(r, m)
         \/ TryStamp(r) \/ LoadedModelSet(r) \/ LookForNode(r) \/ UndoIfNodeRemoved(r)
    \/ RemoveBookNode \/ ForgetNode \/ AddBookNode \/ PollLoaded

BookSpec == BookInit /\ [][BookNext]_bookVars

(***************************************************************************)
(* Properties                                                              *)
(***************************************************************************)
BookTypeOK ==
    /\ pooled \in BOOLEAN /\ lifecycle \in {"free", "remove"}
    /\ loadedNow \subseteq BookModels /\ stamp \in 1..MaxStamp
    /\ book.keys \subseteq BookModels /\ book.count \in Nat

\* The counter and the index that bound a node's books agree with the map they
\* stand for, never past the limit, whatever recordings, trimmings and removals of
\* the node interleave; and once a removed node's recordings are over nothing of
\* it is left.
BooksBalanced ==
    /\ book.count = Cardinality(Entries) /\ book.keys = Entries /\ book.count <= MaxTracked
    /\ (~pooled /\ lifecycle = "free" /\ \A r \in Recorders : rec[r].at = "idle") => Entries = {}

=============================================================================

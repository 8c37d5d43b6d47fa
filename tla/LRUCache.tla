------------------------------ MODULE LRUCache ------------------------------
(***************************************************************************)
(* The bounded cache of database rows with single-flight fills             *)
(* (framework/lrucache/lrucache.go), its readers, and a writer that        *)
(* changes a row and then evicts it.                                       *)
(*                                                                         *)
(* A row has a version that grows with every write.  A reader looks a key  *)
(* up and fills it on a miss.  Each section the cache runs under its mutex *)
(* is one action; validators, loaders and predicates run between them.     *)
(* A loader returns the row's identity as the secondary-index key.         *)
(***************************************************************************)
EXTENDS Naturals, Sequences, FiniteSets

CONSTANTS
    Keys,         \* cache keys
    Rows,         \* row identities, the secondary-index keys
    Readers,      \* goroutines that look keys up
    None,         \* no key, row, entry or reader
    Capacity,     \* the cache's bound
    MaxWrites,    \* bound: writes to each row
    MaxLookups    \* bound: lookups of all readers

ASSUME CacheAssumption ==
    /\ Capacity \in Nat \ {0} /\ MaxWrites \in Nat /\ MaxLookups \in Nat
    /\ None \notin Keys /\ None \notin Rows /\ None \notin Readers

VARIABLES
    items,        \* items[k]: the entry cached under k, or None
    order,        \* cached keys, most recently used first
    byIndex,      \* byIndex[r]: the key cached for row r, or None
    generation,   \* explicit evictions so far
    inflight,     \* inflight[k]: the reader leading the fill of k, or None
    reader,       \* reader[d]: what goroutine d is doing
    at,           \* database: the key row r is stored under, or None
    ver,          \* database: the version of row r
    writer,       \* the write whose eviction is due, and its swept keys
    floor,        \* history: the version of r when it was last invalidated
    serial,       \* list elements allocated so far
    lookups       \* lookups so far

cacheVars == <<items, order, byIndex, generation, serial>>
dbVars == <<at, ver, writer, floor>>
vars == <<cacheVars, inflight, reader, dbVars, lookups>>

Entry == [row : Rows, ver : Nat, elem : Nat, version : Nat]
Cached(k) == items[k] # None

ASSUME EntryAssumption == None \notin Entry

ReaderSteps ==
    {"idle", "hit", "fill", "follow", "lead", "load", "loaded", "clear", "close"}

Looking(step, k, e) == [at |-> step, key |-> k, seen |-> e, gen |-> 0, call |-> None]
Idle == Looking("idle", None, None)

TypeOK ==
    /\ items \in [Keys -> Entry \cup {None}]
    /\ byIndex \in [Rows -> Keys \cup {None}]
    /\ generation \in Nat /\ serial \in Nat /\ lookups \in 0..MaxLookups
    /\ inflight \in [Keys -> Readers \cup {None}]
    /\ reader \in [Readers -> [at : ReaderSteps, key : Keys \cup {None},
                               seen : Entry \cup {None}, gen : Nat,
                               call : Readers \cup {None}]]
    /\ at \in [Rows -> Keys \cup {None}]
    /\ ver \in [Rows -> Nat] /\ floor \in [Rows -> Nat]
    /\ \A d \in Readers :
         /\ reader[d].at # "idle" => reader[d].key # None
         /\ reader[d].at \in {"hit", "loaded"} => reader[d].seen # None
         /\ reader[d].at = "follow" => reader[d].call # None
    /\ writer \in [at : {"idle", "evict", "sweep"}, row : Rows \cup {None},
                   keys : SUBSET Keys, swept : SUBSET Keys]

NoWrite == [at |-> "idle", row |-> None, keys |-> {}, swept |-> {}]

Init ==
    /\ items = [k \in Keys |-> None]
    /\ order = <<>>
    /\ byIndex = [r \in Rows |-> None]
    /\ generation = 0 /\ serial = 0 /\ lookups = 0
    /\ inflight = [k \in Keys |-> None]
    /\ reader = [d \in Readers |-> Idle]
    /\ at \in {f \in [Rows -> Keys \cup {None}] :
                 \A r, s \in Rows : r # s /\ f[r] # None => f[r] # f[s]}
    /\ ver = [r \in Rows |-> 0]
    /\ writer = NoWrite
    /\ floor = [r \in Rows |-> 0]

Goto(d, step) == reader' = [reader EXCEPT ![d].at = step]

-----------------------------------------------------------------------------
(* removeLocked, for a set of cached keys.                                 *)

Unbind(gone) ==
    [r \in Rows |-> IF byIndex[r] \in gone /\ items[byIndex[r]].row = r THEN None ELSE byIndex[r]]

Remove(gone) ==
    /\ items' = [k \in Keys |-> IF k \in gone THEN None ELSE items[k]]
    /\ order' = SelectSeq(order, LAMBDA k : k \notin gone)
    /\ byIndex' = Unbind(gone)

-----------------------------------------------------------------------------
(* Get.                                                                    *)

GetMiss(d, k) ==
    /\ reader[d].at = "idle" /\ lookups < MaxLookups
    /\ ~Cached(k)
    /\ reader' = [reader EXCEPT ![d] = Looking("fill", k, None)]
    /\ lookups' = lookups + 1
    /\ UNCHANGED <<cacheVars, inflight, dbVars>>

GetRead(d, k) ==
    /\ reader[d].at = "idle" /\ lookups < MaxLookups
    /\ Cached(k)
    /\ reader' = [reader EXCEPT ![d] = Looking("hit", k, items[k])]
    /\ lookups' = lookups + 1
    /\ UNCHANGED <<cacheVars, inflight, dbVars>>

SameElement(d) ==
    LET k == reader[d].key
    IN  Cached(k) /\ items[k].elem = reader[d].seen.elem

\* The validator accepted the value that was read.
GetAccept(d) ==
    /\ reader[d].at = "hit"
    /\ IF SameElement(d)
       THEN order' = <<reader[d].key>> \o SelectSeq(order, LAMBDA k : k # reader[d].key)
       ELSE UNCHANGED order
    /\ reader' = [reader EXCEPT ![d] = Idle]
    /\ UNCHANGED <<items, byIndex, generation, serial, inflight, dbVars, lookups>>

\* Mutant: the entry's version is not compared.
SameElementOnly(d) == SameElement(d)

\* The element still holds the value the validator rejected.
Unchanged(d) ==
    SameElement(d) /\ items[reader[d].key].version = reader[d].seen.version

\* The validator rejected it: the entry is removed if it is still the one read.
GetReject(d) ==
    /\ reader[d].at = "hit"
    /\ IF Unchanged(d) THEN Remove({reader[d].key}) ELSE UNCHANGED <<items, order, byIndex>>
    /\ reader' = [reader EXCEPT ![d].at = "fill", ![d].seen = None]
    /\ UNCHANGED <<generation, serial, inflight, dbVars, lookups>>

-----------------------------------------------------------------------------
(* Fill.                                                                   *)

FillFollow(d) ==
    /\ reader[d].at = "fill"
    /\ inflight[reader[d].key] # None
    /\ reader' = [reader EXCEPT ![d].at = "follow", ![d].call = inflight[reader[d].key]]
    /\ UNCHANGED <<cacheVars, inflight, dbVars, lookups>>

FillLead(d) ==
    /\ reader[d].at = "fill"
    /\ inflight[reader[d].key] = None
    /\ inflight' = [inflight EXCEPT ![reader[d].key] = d]
    /\ Goto(d, "lead")
    /\ UNCHANGED <<cacheVars, dbVars, lookups>>

\* A follower whose own context is done stops waiting.
FollowCancelled(d) ==
    /\ reader[d].at = "follow"
    /\ reader' = [reader EXCEPT ![d] = Idle]
    /\ UNCHANGED <<cacheVars, inflight, dbVars, lookups>>

ReadGeneration(d) ==
    /\ reader[d].at = "lead"
    /\ reader' = [reader EXCEPT ![d].at = "load", ![d].gen = generation]
    /\ UNCHANGED <<cacheVars, inflight, dbVars, lookups>>

\* The loader reads the row stored under the key.
LoadRow(d) ==
    /\ reader[d].at = "load"
    /\ \E r \in Rows :
        /\ at[r] = reader[d].key
        /\ reader' = [reader EXCEPT ![d].at = "loaded",
                        ![d].seen = [row |-> r, ver |-> ver[r], elem |-> 0, version |-> 0]]
    /\ UNCHANGED <<cacheVars, inflight, dbVars, lookups>>

\* The loader failed, panicked or found no row: nothing is cached.
LoadFail(d) ==
    /\ reader[d].at = "load"
    /\ Goto(d, "clear")
    /\ UNCHANGED <<cacheVars, inflight, dbVars, lookups>>

\* Mutant: the previous owner of the row stays cached.
NoIndexOwner(d) == {}

\* evictIndexOwnerLocked: the other key bound to the loaded row.
IndexOwner(d) ==
    LET owner == byIndex[reader[d].seen.row]
    IN  IF owner # None /\ owner # reader[d].key /\ Cached(owner) THEN {owner} ELSE {}

\* Mutant: room is made one entry too late.
OverflowLate(d) ==
    LET rest == SelectSeq(order, LAMBDA k : k \notin IndexOwner(d))
    IN  IF ~Cached(reader[d].key) /\ Len(rest) > Capacity THEN {rest[Len(rest)]} ELSE {}

\* The least recently used entry, when an insertion has no room for one more.
Overflow(d) ==
    LET rest == SelectSeq(order, LAMBDA k : k \notin IndexOwner(d))
    IN  IF ~Cached(reader[d].key) /\ Len(rest) >= Capacity THEN {rest[Len(rest)]} ELSE {}

InstallEntry(d) ==
    LET k == reader[d].key
        new == reader[d].seen
        gone == IndexOwner(d) \cup Overflow(d)
        bound == Unbind(gone)
    IN  /\ items' = [j \in Keys |->
                       IF j = k
                       THEN IF Cached(k)
                            THEN [new EXCEPT !.elem = items[k].elem, !.version = items[k].version + 1]
                            ELSE [new EXCEPT !.elem = serial + 1]
                       ELSE IF j \in gone THEN None ELSE items[j]]
        /\ order' = <<k>> \o SelectSeq(order, LAMBDA j : j # k /\ j \notin gone)
        /\ byIndex' = [r \in Rows |-> IF r = new.row THEN k
                                      ELSE IF bound[r] = k THEN None ELSE bound[r]]
        /\ generation' = generation + Cardinality(IndexOwner(d))
        /\ serial' = IF Cached(k) THEN serial ELSE serial + 1

\* Mutant: the generation is not compared.
InstallAlways(d) ==
    /\ reader[d].at = "loaded"
    /\ InstallEntry(d)
    /\ Goto(d, "clear")
    /\ UNCHANGED <<inflight, dbVars, lookups>>

\* setIfGeneration: an eviction since the generation was read discards the value.
SetIfGeneration(d) ==
    /\ reader[d].at = "loaded"
    /\ IF generation = reader[d].gen THEN InstallEntry(d) ELSE UNCHANGED cacheVars
    /\ Goto(d, "clear")
    /\ UNCHANGED <<inflight, dbVars, lookups>>

\* The deferred end of Fill clears the in-flight slot, then releases the followers.
ClearInflight(d) ==
    /\ reader[d].at = "clear"
    /\ inflight' = [inflight EXCEPT ![reader[d].key] = None]
    /\ Goto(d, "close")
    /\ UNCHANGED <<cacheVars, dbVars, lookups>>

CloseDone(d) ==
    /\ reader[d].at = "close"
    /\ reader' = [e \in Readers |-> IF e = d \/ (reader[e].at = "follow" /\ reader[e].call = d)
                                    THEN Idle ELSE reader[e]]
    /\ UNCHANGED <<cacheVars, inflight, dbVars, lookups>>

-----------------------------------------------------------------------------
(* A writer changes a row, then invalidates the cache.                     *)

\* A row changes in place, moves to a free key, or is deleted.
WriteRow(r, k) ==
    /\ writer.at = "idle" /\ ver[r] < MaxWrites
    /\ k # None => \A s \in Rows \ {r} : at[s] # k
    /\ ver' = [ver EXCEPT ![r] = @ + 1]
    /\ at' = [at EXCEPT ![r] = k]
    /\ writer' = [at |-> "evict", row |-> r, keys |-> {at[r]} \ {None}, swept |-> {}]
    /\ UNCHANGED <<cacheVars, inflight, reader, floor, lookups>>

Invalidated ==
    /\ floor' = [floor EXCEPT ![writer.row] = ver[writer.row]]
    /\ writer' = NoWrite

\* Evict, by the key the row was stored under.
Evict ==
    /\ writer.at = "evict" /\ writer.keys # {}
    /\ generation' = generation + 1
    /\ Remove({k \in writer.keys : Cached(k)})
    /\ Invalidated
    /\ UNCHANGED <<serial, inflight, reader, at, ver, lookups>>

\* EvictByIndex, by the row's identity.
EvictByIndex ==
    /\ writer.at = "evict"
    /\ generation' = generation + 1
    /\ Remove({k \in {byIndex[writer.row]} \ {None} : Cached(k)})
    /\ Invalidated
    /\ UNCHANGED <<serial, inflight, reader, at, ver, lookups>>

\* EvictWhere lists the keys under one lock and, after running the predicate
\* (true of the keys in K), removes them under another.
EvictWhereBegin(K) ==
    /\ writer.at = "evict" /\ writer.keys \subseteq K
    /\ generation' = generation + 1
    /\ writer' = [writer EXCEPT !.at = "sweep", !.swept = {k \in K : Cached(k)}]
    /\ UNCHANGED <<items, order, byIndex, serial, inflight, reader, at, ver, floor, lookups>>

EvictWhereEnd ==
    /\ writer.at = "sweep"
    /\ Remove({k \in writer.swept : Cached(k)})
    /\ Invalidated
    /\ UNCHANGED <<generation, serial, inflight, reader, at, ver, lookups>>

Flush ==
    /\ writer.at = "evict"
    /\ generation' = generation + 1
    /\ items' = [k \in Keys |-> None]
    /\ order' = <<>>
    /\ byIndex' = [r \in Rows |-> None]
    /\ Invalidated
    /\ UNCHANGED <<serial, inflight, reader, at, ver, lookups>>

-----------------------------------------------------------------------------
FillStep(d) ==
    \/ FillFollow(d) \/ FillLead(d) \/ ReadGeneration(d) \/ LoadRow(d) \/ LoadFail(d)
    \/ SetIfGeneration(d) \/ ClearInflight(d) \/ CloseDone(d)

Read(d) ==
    \/ \E k \in Keys : GetMiss(d, k) \/ GetRead(d, k)
    \/ GetAccept(d) \/ GetReject(d) \/ FollowCancelled(d) \/ FillStep(d)

Write ==
    \/ \E r \in Rows, k \in Keys \cup {None} : WriteRow(r, k)
    \/ Evict \/ EvictByIndex \/ EvictWhereEnd \/ Flush
    \/ \E K \in SUBSET Keys : EvictWhereBegin(K)

Next == (\E d \in Readers : Read(d)) \/ Write

Spec == Init /\ [][Next]_vars

\* A loader returns, and the goroutine that leads a fill is scheduled.
FairSpec == Spec /\ \A d \in Readers : WF_vars(FillStep(d))

-----------------------------------------------------------------------------
\* An entry is never older than the last invalidation of its row: a fill racing
\* an eviction cannot re-install what the eviction removed (setIfGeneration).
CachedIsFresh == \A k \in Keys : Cached(k) => items[k].ver >= floor[items[k].row]

\* The secondary index is exact: a row is indexed under the key that caches it
\* and a row is cached under one key, so EvictByIndex reaches it.
IndexExact ==
    \A r \in Rows, k \in Keys :
        byIndex[r] = k <=> Cached(k) /\ items[k].row = r

\* The recency list holds every cached key once and never more than Capacity.
OrderExact ==
    /\ order \in Seq(Keys) /\ Len(order) <= Capacity
    /\ \A k \in Keys : Cached(k) <=> \E i \in DOMAIN order : order[i] = k
    /\ \A i, j \in DOMAIN order : order[i] = order[j] => i = j

\* One fill per key: two readers never load the same key at the same time, and
\* a follower waits for a reader that still leads that key's fill.
SingleFlight ==
    /\ \A d, e \in Readers :
         /\ reader[d].at \in {"lead", "load", "loaded"}
         /\ reader[e].at \in {"lead", "load", "loaded"}
         /\ reader[d].key = reader[e].key
         => d = e
    /\ \A d \in Readers : reader[d].at = "follow" =>
         /\ reader[reader[d].call].at \in {"lead", "load", "loaded", "clear", "close"}
         /\ reader[reader[d].call].key = reader[d].key

\* Items and index agree, and a key has one fill.
CacheOrderly == TypeOK /\ IndexExact /\ SingleFlight

\* A validator's verdict removes only the value it was given, never a value a
\* concurrent fill has installed since (Get's element and version check).
RejectsWhatItRead ==
    \A d \in Readers :
        reader[d].at = "hit" /\ reader'[d].at = "fill" =>
            \A k \in Keys : Cached(k) /\ items'[k] = None => items[k].ver = reader[d].seen.ver

RejectRemovesWhatItRead == [][RejectsWhatItRead]_vars

\* A reader waiting for another reader's fill is released.
FollowersReleased == \A d \in Readers : reader[d].at = "follow" ~> reader[d].at # "follow"
=============================================================================

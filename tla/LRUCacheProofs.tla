--------------------------- MODULE LRUCacheProofs ---------------------------
(***************************************************************************)
(* Proofs about LRUCache, for any keys, rows, readers and capacity: the    *)
(* secondary index is exact, and a fill that races an invalidation never   *)
(* leaves a row in the cache that is older than the invalidation.          *)
(***************************************************************************)
EXTENDS LRUCache, FiniteSetTheorems, TLAPS

Reading == [at : ReaderSteps, key : Keys \cup {None}, seen : Entry \cup {None},
            gen : Nat, call : Readers \cup {None}]
Writing == [at : {"idle", "evict", "sweep"}, row : Rows \cup {None},
            keys : SUBSET Keys, swept : SUBSET Keys]

\* The part of TypeOK the argument needs: it is not about the recency list.
CacheType ==
    /\ items \in [Keys -> Entry \cup {None}]
    /\ byIndex \in [Rows -> Keys \cup {None}]
    /\ generation \in Nat /\ serial \in Nat
    /\ inflight \in [Keys -> Readers \cup {None}]

DbType ==
    /\ at \in [Rows -> Keys \cup {None}]
    /\ ver \in [Rows -> Nat] /\ floor \in [Rows -> Nat]
    /\ writer \in Writing
    /\ writer.at # "idle" => writer.row \in Rows
    /\ \A r \in Rows : floor[r] <= ver[r]

ReaderType ==
    /\ reader \in [Readers -> Reading]
    /\ \A d \in Readers :
         /\ reader[d].at # "idle" => reader[d].key \in Keys
         /\ reader[d].at = "loaded" => reader[d].seen \in Entry
         /\ reader[d].gen <= generation

\* Version v of row r under key k is what the database holds.
Current(r, v, k) == v = ver[r] /\ at[r] = k

\* The invalidation under way removes what is cached for row r under key k.
Doomed(r, k) ==
    /\ writer.row = r
    /\ \/ writer.at = "evict" /\ k \in writer.keys
       \/ writer.at = "sweep" /\ k \in writer.swept

\* A cached row is current, or is about to be removed.
ItemsOK ==
    \A k \in Keys : Cached(k) =>
        \/ Current(items[k].row, items[k].ver, k)
        \/ Doomed(items[k].row, k) /\ items[k].ver >= floor[items[k].row]

\* So is a loaded row whose generation still stands, except that the sweep of
\* EvictWhere, which has listed its keys, would miss it: it must be current.
Storable(d) ==
    LET e == reader[d].seen
    IN  \/ Current(e.row, e.ver, reader[d].key)
        \/ /\ writer.at = "evict" /\ Doomed(e.row, reader[d].key)
           /\ e.ver >= floor[e.row]
LoadedOK ==
    \A d \in Readers :
        reader[d].at = "loaded" /\ reader[d].gen = generation => Storable(d)

CacheInv == CacheType /\ DbType /\ ReaderType /\ IndexExact /\ ItemsOK /\ LoadedOK
-----------------------------------------------------------------------------
(* What one reader's step does to the invariant. *)

\* The record of one reader changes, and the generation does not go back.
LEMMA ReaderUpdate ==
    ASSUME NEW d \in Readers, NEW new \in Reading, ReaderType,
           generation \in Nat, generation' \in Nat, generation <= generation',
           new.at # "idle" => new.key \in Keys,
           new.at = "loaded" => new.seen \in Entry,
           new.gen <= generation,
           reader' = [reader EXCEPT ![d] = new]
    PROVE  ReaderType'
<1>1. \A e \in Readers : reader'[e] = IF e = d THEN new ELSE reader[e]
  BY DEF ReaderType
<1>2. reader' \in [Readers -> Reading]
  BY DEF ReaderType
<1>3. \A e \in Readers : reader[e].gen \in Nat /\ new.gen \in Nat
  BY DEF ReaderType, Reading
<1> QED
  BY <1>1, <1>2, <1>3 DEF ReaderType

\* A reader that does not come to hold a stale row does no harm to the others.
LEMMA LoadedUpdate ==
    ASSUME NEW d \in Readers, NEW new \in Reading, ReaderType, LoadedOK,
           generation \in Nat, generation' \in Nat, generation <= generation',
           new.at = "loaded" => Current(new.seen.row, new.seen.ver, new.key),
           reader' = [reader EXCEPT ![d] = new], UNCHANGED dbVars
    PROVE  LoadedOK'
<1>1. \A e \in Readers : reader'[e] = IF e = d THEN new ELSE reader[e]
  BY DEF ReaderType
<1>2. \A e \in Readers : reader[e].gen \in Nat /\ reader[e].gen <= generation
  BY DEF ReaderType, Reading
<1>3. \A e \in Readers \ {d} :
         reader[e].gen = generation' => reader[e].gen = generation
  BY <1>2
<1> SUFFICES ASSUME NEW e \in Readers,
                    reader'[e].at = "loaded", reader'[e].gen = generation'
             PROVE  Storable(e)'
  BY DEF LoadedOK
<1>4. CASE e = d
  BY <1>1, <1>4 DEF Storable, Current, dbVars
<1>5. CASE e # d
  BY <1>1, <1>3, <1>5 DEF LoadedOK, Storable, Current, Doomed, dbVars
<1> QED
  BY <1>4, <1>5

\* A step of one reader that leaves the cached rows and the database alone.
LEMMA QuietStep ==
    ASSUME NEW d \in Readers, NEW new \in Reading, CacheInv,
           new.at # "idle" => new.key \in Keys,
           new.at = "loaded" => new.seen \in Entry,
           new.at = "loaded" => Current(new.seen.row, new.seen.ver, new.key),
           new.gen <= generation,
           reader' = [reader EXCEPT ![d] = new],
           inflight' \in [Keys -> Readers \cup {None}],
           UNCHANGED <<items, byIndex, generation, serial, dbVars>>
    PROVE  CacheInv'
<1>1. generation \in Nat /\ generation' \in Nat /\ generation <= generation'
  BY DEF CacheInv, CacheType
<1>2. ReaderType'
  BY <1>1, ReaderUpdate, Zenon DEF CacheInv
<1>3. LoadedOK'
  BY <1>1, LoadedUpdate, Zenon DEF CacheInv
<1>4. CacheType' /\ DbType' /\ IndexExact' /\ ItemsOK'
  BY DEF CacheInv, CacheType, DbType, IndexExact, ItemsOK, Cached, Current, Doomed, dbVars
<1> QED
  BY <1>2, <1>3, <1>4 DEF CacheInv

\* A reader that does nothing (the start of Get).
LEMMA IdleReading == Idle \in Reading
BY DEF Idle, Looking, Reading, ReaderSteps

\* Looking up, following and leading a fill, failing and finishing it.
LEMMA LookupSteps ==
    CacheInv /\ (\E d \in Readers :
                    \/ \E k \in Keys : GetMiss(d, k) \/ GetRead(d, k)
                    \/ GetAccept(d) \/ FillFollow(d) \/ FillLead(d)
                    \/ FollowCancelled(d) \/ ReadGeneration(d) \/ LoadFail(d)
                    \/ ClearInflight(d))
        => CacheInv'
<1> SUFFICES ASSUME CacheInv,
                    NEW d \in Readers,
                    \/ \E k \in Keys : GetMiss(d, k) \/ GetRead(d, k)
                    \/ GetAccept(d) \/ FillFollow(d) \/ FillLead(d)
                    \/ FollowCancelled(d) \/ ReadGeneration(d) \/ LoadFail(d)
                    \/ ClearInflight(d)
             PROVE  CacheInv'
  OBVIOUS
<1>1. ASSUME NEW k \in Keys, GetMiss(d, k) PROVE CacheInv'
  <2> DEFINE new == Looking("fill", k, None)
  <2>1. new \in Reading /\ new.gen <= generation
    <3>1. reader[d] \in Reading /\ Idle \in Reading /\ generation \in Nat
      BY IdleReading DEF CacheInv, CacheType, ReaderType
    <3>2. new \in Reading
      <4>1. new = [at |-> "fill", key |-> k, seen |-> None, gen |-> 0, call |-> None]
        BY DEF Looking
      <4>2. None \in Entry \cup {None}
        BY DEF CacheInv, CacheType
      <4> HIDE DEF new
      <4> QED
        BY <4>1, <4>2 DEF Reading, ReaderSteps
    <3>3. new.gen <= generation
      BY <1>1, <3>1 DEF CacheInv, ReaderType, Reading, Idle, Looking, GetMiss
    <3> QED
      BY <3>2, <3>3
  <2>2. new.at # "idle" => new.key \in Keys
    BY <1>1 DEF CacheInv, ReaderType, Reading, Idle, Looking, GetMiss
  <2>3. new.at # "loaded"
    BY <1>1 DEF CacheInv, Idle, Looking, GetMiss
  <2>4. reader' = [reader EXCEPT ![d] = new]
    BY <1>1 DEF CacheInv, ReaderType, Reading, Idle, Looking, Goto, GetMiss
  <2>5. /\ inflight' \in [Keys -> Readers \cup {None}]
        /\ UNCHANGED <<items, byIndex, generation, serial, dbVars>>
    BY <1>1 DEF CacheInv, CacheType, ReaderType, Reading, GetMiss, cacheVars
  <2> HIDE DEF new
  <2> QED
    BY <2>1, <2>2, <2>3, <2>4, <2>5, QuietStep, Zenon
<1>2. ASSUME NEW k \in Keys, GetRead(d, k) PROVE CacheInv'
  <2> DEFINE new == Looking("hit", k, items[k])
  <2>1. new \in Reading /\ new.gen <= generation
    <3>1. reader[d] \in Reading /\ Idle \in Reading /\ generation \in Nat
      BY IdleReading DEF CacheInv, CacheType, ReaderType
    <3>2. new \in Reading
      <4>1. new = [at |-> "hit", key |-> k, seen |-> items[k], gen |-> 0, call |-> None]
        BY DEF Looking
      <4>2. items[k] \in Entry \cup {None}
        BY DEF CacheInv, CacheType
      <4> HIDE DEF new
      <4> QED
        BY <4>1, <4>2 DEF Reading, ReaderSteps
    <3>3. new.gen <= generation
      BY <1>2, <3>1 DEF CacheInv, ReaderType, Reading, Idle, Looking, GetRead
    <3> QED
      BY <3>2, <3>3
  <2>2. new.at # "idle" => new.key \in Keys
    BY <1>2, Zenon DEF CacheInv, ReaderType, Reading, Idle, Looking, GetRead
  <2>3. new.at # "loaded"
    BY <1>2 DEF CacheInv, Idle, Looking, GetRead
  <2>4. reader' = [reader EXCEPT ![d] = new]
    BY <1>2, Zenon DEF CacheInv, ReaderType, Reading, Idle, Looking, Goto, GetRead
  <2>5. /\ inflight' \in [Keys -> Readers \cup {None}]
        /\ UNCHANGED <<items, byIndex, generation, serial, dbVars>>
    BY <1>2 DEF CacheInv, CacheType, ReaderType, Reading, GetRead, cacheVars
  <2> HIDE DEF new
  <2> QED
    BY <2>1, <2>2, <2>3, <2>4, <2>5, QuietStep, Zenon
<1>3. ASSUME GetAccept(d) PROVE CacheInv'
  <2> DEFINE new == Idle
  <2>1. new \in Reading /\ new.gen <= generation
    <3>1. reader[d] \in Reading /\ Idle \in Reading /\ generation \in Nat
      BY IdleReading DEF CacheInv, CacheType, ReaderType
    <3>2. new \in Reading
      BY <1>3, <3>1, Zenon DEF CacheInv, CacheType, ReaderType, Reading, ReaderSteps, GetAccept
    <3>3. new.gen <= generation
      BY <1>3, <3>1 DEF CacheInv, ReaderType, Reading, Idle, Looking, GetAccept
    <3> QED
      BY <3>2, <3>3
  <2>2. new.at # "idle" => new.key \in Keys
    BY <1>3, Zenon DEF CacheInv, ReaderType, Reading, Idle, Looking, GetAccept
  <2>3. new.at # "loaded"
    BY <1>3, Zenon DEF CacheInv, Idle, Looking, GetAccept
  <2>4. reader' = [reader EXCEPT ![d] = new]
    BY <1>3, Zenon DEF CacheInv, ReaderType, Reading, Idle, Looking, Goto, GetAccept
  <2>5. /\ inflight' \in [Keys -> Readers \cup {None}]
        /\ UNCHANGED <<items, byIndex, generation, serial, dbVars>>
    BY <1>3, Zenon DEF CacheInv, CacheType, ReaderType, Reading, GetAccept, cacheVars
  <2> HIDE DEF new
  <2> QED
    BY <2>1, <2>2, <2>3, <2>4, <2>5, QuietStep, Zenon
<1>4. ASSUME FillFollow(d) PROVE CacheInv'
  <2> DEFINE new == [reader[d] EXCEPT !.at = "follow", !.call = inflight[reader[d].key]]
  <2>1. new \in Reading /\ new.gen <= generation
    <3>1. reader[d] \in Reading /\ Idle \in Reading /\ generation \in Nat
      BY IdleReading DEF CacheInv, CacheType, ReaderType
    <3>2. new \in Reading
      BY <1>4, <3>1, Zenon DEF CacheInv, CacheType, ReaderType, Reading, ReaderSteps, FillFollow
    <3>3. new.gen <= generation
      BY <1>4, <3>1 DEF CacheInv, ReaderType, Reading, Idle, Looking, FillFollow
    <3> QED
      BY <3>2, <3>3
  <2>2. new.at # "idle" => new.key \in Keys
    BY <1>4 DEF CacheInv, ReaderType, Reading, Idle, Looking, FillFollow
  <2>3. new.at # "loaded"
    BY <1>4 DEF CacheInv, Idle, Looking, FillFollow
  <2>4. reader' = [reader EXCEPT ![d] = new]
    BY <1>4, Zenon DEF CacheInv, ReaderType, Reading, Idle, Looking, Goto, FillFollow
  <2>5. /\ inflight' \in [Keys -> Readers \cup {None}]
        /\ UNCHANGED <<items, byIndex, generation, serial, dbVars>>
    BY <1>4 DEF CacheInv, CacheType, ReaderType, Reading, FillFollow, cacheVars
  <2> HIDE DEF new
  <2> QED
    BY <2>1, <2>2, <2>3, <2>4, <2>5, QuietStep, Zenon
<1>5. ASSUME FillLead(d) PROVE CacheInv'
  <2> DEFINE new == [reader[d] EXCEPT !.at = "lead"]
  <2>1. new \in Reading /\ new.gen <= generation
    <3>1. reader[d] \in Reading /\ Idle \in Reading /\ generation \in Nat
      BY IdleReading DEF CacheInv, CacheType, ReaderType
    <3>2. new \in Reading
      BY <1>5, <3>1 DEF CacheInv, CacheType, ReaderType, Reading, ReaderSteps, FillLead
    <3>3. new.gen <= generation
      BY <1>5, <3>1 DEF CacheInv, ReaderType, Reading, Idle, Looking, FillLead
    <3> QED
      BY <3>2, <3>3
  <2>2. new.at # "idle" => new.key \in Keys
    BY <1>5 DEF CacheInv, ReaderType, Reading, Idle, Looking, FillLead
  <2>3. new.at # "loaded"
    BY <1>5 DEF CacheInv, Idle, Looking, FillLead
  <2>4. reader' = [reader EXCEPT ![d] = new]
    BY <1>5 DEF CacheInv, ReaderType, Reading, Idle, Looking, Goto, FillLead
  <2>5. /\ inflight' \in [Keys -> Readers \cup {None}]
        /\ UNCHANGED <<items, byIndex, generation, serial, dbVars>>
    BY <1>5 DEF CacheInv, CacheType, ReaderType, Reading, FillLead, cacheVars
  <2> HIDE DEF new
  <2> QED
    BY <2>1, <2>2, <2>3, <2>4, <2>5, QuietStep, Zenon
<1>6. ASSUME FollowCancelled(d) PROVE CacheInv'
  <2> DEFINE new == Idle
  <2>1. new \in Reading /\ new.gen <= generation
    <3>1. reader[d] \in Reading /\ Idle \in Reading /\ generation \in Nat
      BY IdleReading DEF CacheInv, CacheType, ReaderType
    <3>2. new \in Reading
      BY <1>6, <3>1 DEF CacheInv, CacheType, ReaderType, Reading, ReaderSteps, FollowCancelled
    <3>3. new.gen <= generation
      BY <1>6, <3>1 DEF CacheInv, ReaderType, Reading, Idle, Looking, FollowCancelled
    <3> QED
      BY <3>2, <3>3
  <2>2. new.at # "idle" => new.key \in Keys
    BY <1>6 DEF CacheInv, ReaderType, Reading, Idle, Looking, FollowCancelled
  <2>3. new.at # "loaded"
    BY <1>6 DEF CacheInv, Idle, Looking, FollowCancelled
  <2>4. reader' = [reader EXCEPT ![d] = new]
    BY <1>6 DEF CacheInv, ReaderType, Reading, Idle, Looking, Goto, FollowCancelled
  <2>5. /\ inflight' \in [Keys -> Readers \cup {None}]
        /\ UNCHANGED <<items, byIndex, generation, serial, dbVars>>
    BY <1>6 DEF CacheInv, CacheType, ReaderType, Reading, FollowCancelled, cacheVars
  <2> HIDE DEF new
  <2> QED
    BY <2>1, <2>2, <2>3, <2>4, <2>5, QuietStep, Zenon
<1>7. ASSUME ReadGeneration(d) PROVE CacheInv'
  <2> DEFINE new == [reader[d] EXCEPT !.at = "load", !.gen = generation]
  <2>1. new \in Reading /\ new.gen <= generation
    <3>1. reader[d] \in Reading /\ Idle \in Reading /\ generation \in Nat
      BY IdleReading DEF CacheInv, CacheType, ReaderType
    <3>2. new \in Reading
      BY <1>7, <3>1, Zenon DEF CacheInv, CacheType, ReaderType, Reading, ReaderSteps, ReadGeneration
    <3>3. new.gen <= generation
      BY <1>7, <3>1 DEF CacheInv, ReaderType, Reading, Idle, Looking, ReadGeneration
    <3> QED
      BY <3>2, <3>3
  <2>2. new.at # "idle" => new.key \in Keys
    BY <1>7 DEF CacheInv, ReaderType, Reading, Idle, Looking, ReadGeneration
  <2>3. new.at # "loaded"
    BY <1>7 DEF CacheInv, Idle, Looking, ReadGeneration
  <2>4. reader' = [reader EXCEPT ![d] = new]
    BY <1>7, Zenon DEF CacheInv, ReaderType, Reading, Idle, Looking, Goto, ReadGeneration
  <2>5. /\ inflight' \in [Keys -> Readers \cup {None}]
        /\ UNCHANGED <<items, byIndex, generation, serial, dbVars>>
    BY <1>7 DEF CacheInv, CacheType, ReaderType, Reading, ReadGeneration, cacheVars
  <2> HIDE DEF new
  <2> QED
    BY <2>1, <2>2, <2>3, <2>4, <2>5, QuietStep, Zenon
<1>8. ASSUME LoadFail(d) PROVE CacheInv'
  <2> DEFINE new == [reader[d] EXCEPT !.at = "clear"]
  <2>1. new \in Reading /\ new.gen <= generation
    <3>1. reader[d] \in Reading /\ Idle \in Reading /\ generation \in Nat
      BY IdleReading DEF CacheInv, CacheType, ReaderType
    <3>2. new \in Reading
      BY <1>8, <3>1, Zenon DEF CacheInv, CacheType, ReaderType, Reading, ReaderSteps, LoadFail
    <3>3. new.gen <= generation
      BY <1>8, <3>1 DEF CacheInv, ReaderType, Reading, Idle, Looking, LoadFail
    <3> QED
      BY <3>2, <3>3
  <2>2. new.at # "idle" => new.key \in Keys
    BY <1>8 DEF CacheInv, ReaderType, Reading, Idle, Looking, LoadFail
  <2>3. new.at # "loaded"
    BY <1>8 DEF CacheInv, Idle, Looking, LoadFail
  <2>4. reader' = [reader EXCEPT ![d] = new]
    BY <1>8 DEF CacheInv, ReaderType, Reading, Idle, Looking, Goto, LoadFail
  <2>5. /\ inflight' \in [Keys -> Readers \cup {None}]
        /\ UNCHANGED <<items, byIndex, generation, serial, dbVars>>
    BY <1>8 DEF CacheInv, CacheType, ReaderType, Reading, LoadFail, cacheVars
  <2> HIDE DEF new
  <2> QED
    BY <2>1, <2>2, <2>3, <2>4, <2>5, QuietStep, Zenon
<1>9. ASSUME ClearInflight(d) PROVE CacheInv'
  <2> DEFINE new == [reader[d] EXCEPT !.at = "close"]
  <2>1. new \in Reading /\ new.gen <= generation
    <3>1. reader[d] \in Reading /\ Idle \in Reading /\ generation \in Nat
      BY IdleReading DEF CacheInv, CacheType, ReaderType
    <3>2. new \in Reading
      BY <1>9, <3>1, Zenon DEF CacheInv, CacheType, ReaderType, Reading, ReaderSteps, ClearInflight
    <3>3. new.gen <= generation
      BY <1>9, <3>1 DEF CacheInv, ReaderType, Reading, Idle, Looking, ClearInflight
    <3> QED
      BY <3>2, <3>3
  <2>2. new.at # "idle" => new.key \in Keys
    BY <1>9 DEF CacheInv, ReaderType, Reading, Idle, Looking, ClearInflight
  <2>3. new.at # "loaded"
    BY <1>9 DEF CacheInv, Idle, Looking, ClearInflight
  <2>4. reader' = [reader EXCEPT ![d] = new]
    BY <1>9 DEF CacheInv, ReaderType, Reading, Idle, Looking, Goto, ClearInflight
  <2>5. /\ inflight' \in [Keys -> Readers \cup {None}]
        /\ UNCHANGED <<items, byIndex, generation, serial, dbVars>>
    BY <1>9 DEF CacheInv, CacheType, ReaderType, Reading, ClearInflight, cacheVars
  <2> HIDE DEF new
  <2> QED
    BY <2>1, <2>2, <2>3, <2>4, <2>5, QuietStep, Zenon
<1> QED
  BY <1>1, <1>2, <1>3, <1>4, <1>5, <1>6, <1>7, <1>8, <1>9

\* The loader returns what the database holds now (LoadRow).
LEMMA LoadStep == CacheInv /\ (\E d \in Readers : LoadRow(d)) => CacheInv'
<1> SUFFICES ASSUME CacheInv, NEW d \in Readers, LoadRow(d) PROVE CacheInv'
  OBVIOUS
<1>1. PICK r \in Rows :
         /\ at[r] = reader[d].key
         /\ reader' = [reader EXCEPT ![d].at = "loaded",
                        ![d].seen = [row |-> r, ver |-> ver[r], elem |-> 0, version |-> 0]]
  BY Zenon DEF LoadRow
<1> DEFINE e == [row |-> r, ver |-> ver[r], elem |-> 0, version |-> 0]
           new == [reader[d] EXCEPT !.at = "loaded", !.seen = e]
<1>2. reader[d] \in Reading /\ reader[d].key \in Keys /\ reader[d].gen <= generation
  BY DEF LoadRow, CacheInv, ReaderType, Reading
<1>3. e \in Entry
  BY DEF CacheInv, DbType, Entry
<1>4. new \in Reading /\ new.key \in Keys /\ new.gen <= generation /\ new.seen = e
  <2> HIDE DEF e
  <2> QED
    BY <1>2, <1>3, Zenon DEF Reading, ReaderSteps
<1>5. Current(new.seen.row, new.seen.ver, new.key)
  BY <1>1, <1>2 DEF Current, Reading
<1>6. reader' = [reader EXCEPT ![d] = new]
  BY <1>1, Zenon DEF CacheInv, ReaderType, Reading
<1>7. /\ inflight' \in [Keys -> Readers \cup {None}]
      /\ UNCHANGED <<items, byIndex, generation, serial, dbVars>>
  BY DEF LoadRow, CacheInv, CacheType, cacheVars
<1> HIDE DEF new
<1> QED
  BY <1>3, <1>4, <1>5, <1>6, <1>7, QuietStep, Zenon

\* The leader releases its followers (the close of Fill's channel).
LEMMA CloseStep == CacheInv /\ (\E d \in Readers : CloseDone(d)) => CacheInv'
<1> SUFFICES ASSUME CacheInv, NEW d \in Readers, CloseDone(d) PROVE CacheInv'
  OBVIOUS
<1>1. /\ reader' \in [Readers -> Reading]
      /\ \A e \in Readers : reader'[e] \in {Idle, reader[e]}
  BY IdleReading DEF CloseDone, CacheInv, ReaderType
<1>2. UNCHANGED <<items, byIndex, generation, serial, inflight, dbVars>>
  BY DEF CloseDone, cacheVars
<1>3. Idle.at = "idle" /\ Idle.gen = 0
  BY DEF Idle, Looking
<1>4. ReaderType'
  BY <1>1, <1>2, <1>3 DEF CacheInv, CacheType, ReaderType
<1>5. LoadedOK'
  BY <1>1, <1>2, <1>3 DEF CacheInv, LoadedOK, Storable, Current, Doomed, dbVars
<1>6. CacheType' /\ DbType' /\ IndexExact' /\ ItemsOK'
  BY <1>2 DEF CacheInv, CacheType, DbType, IndexExact, ItemsOK, Cached, Current, Doomed, dbVars
<1> QED
  BY <1>4, <1>5, <1>6 DEF CacheInv
-----------------------------------------------------------------------------
(* Removal and installation. *)

\* removeLocked keeps the index exact and touches no other entry.
LEMMA RemoveKeeps ==
    ASSUME NEW gone \in SUBSET Keys, CacheType, IndexExact, Remove(gone)
    PROVE  /\ items' \in [Keys -> Entry \cup {None}]
           /\ byIndex' \in [Rows -> Keys \cup {None}]
           /\ IndexExact'
           /\ \A k \in Keys : items'[k] = IF k \in gone THEN None ELSE items[k]
<1>1. /\ items' \in [Keys -> Entry \cup {None}]
      /\ \A k \in Keys : items'[k] = IF k \in gone THEN None ELSE items[k]
  BY DEF Remove, CacheType
<1>2. \A r \in Rows : byIndex'[r] = IF byIndex[r] \in gone THEN None ELSE byIndex[r]
  BY DEF Remove, Unbind, CacheType, IndexExact
<1>3. byIndex' \in [Rows -> Keys \cup {None}]
  BY DEF Remove, Unbind, CacheType
<1>4. IndexExact'
  BY <1>1, <1>2, CacheAssumption DEF IndexExact, Cached, CacheType
<1> QED
  BY <1>1, <1>3, <1>4

\* setIfGeneration keeps the index exact: the previous owner of the row goes, so
\* that a row is cached under one key.
LEMMA InstallKeeps ==
    ASSUME NEW d \in Readers, CacheType, ReaderType, IndexExact,
           reader[d].at = "loaded", InstallEntry(d)
    PROVE  /\ items' \in [Keys -> Entry \cup {None}]
           /\ byIndex' \in [Rows -> Keys \cup {None}]
           /\ IndexExact'
           /\ generation' \in Nat /\ generation <= generation' /\ serial' \in Nat
           /\ \A k \in Keys :
                IF k = reader[d].key
                THEN /\ items'[k].row = reader[d].seen.row
                     /\ items'[k].ver = reader[d].seen.ver
                ELSE items'[k] \in {None, items[k]}
<1> DEFINE k == reader[d].key
           new == reader[d].seen
           gone == IndexOwner(d) \cup Overflow(d)
           entry == IF Cached(k)
                    THEN [new EXCEPT !.elem = items[k].elem, !.version = items[k].version + 1]
                    ELSE [new EXCEPT !.elem = serial + 1]
<1>1. k \in Keys /\ new \in Entry
  BY DEF ReaderType
<1>2. entry \in Entry /\ entry # None /\ entry.row = new.row /\ entry.ver = new.ver
  <2> HIDE DEF new, k
  <2>1. Cached(k) => items[k] \in Entry
    BY <1>1 DEF CacheType, Cached
  <2> QED
    <3>1. CASE Cached(k)
      <4>1. entry = [new EXCEPT !.elem = items[k].elem, !.version = items[k].version + 1]
        BY <3>1
      <4>0. items[k].elem \in Nat /\ items[k].version + 1 \in Nat
        BY <2>1, <3>1 DEF Entry
      <4> HIDE DEF entry
      <4>2. entry \in Entry /\ entry.row = new.row /\ entry.ver = new.ver
        <5>1. \A a, b \in Nat :
                 LET x == [new EXCEPT !.elem = a, !.version = b]
                 IN  x \in Entry /\ x.row = new.row /\ x.ver = new.ver
          BY <1>1, Zenon DEF Entry
        <5> QED
          BY <4>0, <4>1, <5>1, Zenon
      <4> QED
        BY <4>2, EntryAssumption
    <3>2. CASE ~Cached(k)
      <4>1. entry = [new EXCEPT !.elem = serial + 1]
        BY <3>2
      <4> HIDE DEF entry
      <4>2. entry \in Entry /\ entry.row = new.row /\ entry.ver = new.ver
        BY <1>1, <4>1 DEF Entry, CacheType
      <4> QED
        BY <4>2, EntryAssumption
    <3> QED
      BY <3>1, <3>2
<1>3. \A j \in Keys : items'[j] = IF j = k THEN entry
                                 ELSE IF j \in gone THEN None ELSE items[j]
  BY DEF InstallEntry
<1>4. items' \in [Keys -> Entry \cup {None}]
  <2>1. items' = [j \in Keys |-> IF j = k THEN entry
                                 ELSE IF j \in gone THEN None ELSE items[j]]
    BY DEF InstallEntry
  <2> HIDE DEF entry, gone
  <2> QED
    BY <1>2, <2>1 DEF CacheType
<1>5. \A r \in Rows : byIndex'[r] =
          IF r = new.row THEN k
          ELSE IF byIndex[r] = k \/ byIndex[r] \in gone THEN None ELSE byIndex[r]
  <2>1. \A r \in Rows : byIndex[r] \in Keys => items[byIndex[r]].row = r
    BY DEF IndexExact, CacheType
  <2>2. \A r \in Rows : byIndex[r] \in gone /\ byIndex[r] \notin Keys => byIndex[r] = None
    BY DEF CacheType
  <2>3. \A r \in Rows : Unbind(gone)[r] = IF byIndex[r] \in gone THEN None ELSE byIndex[r]
    <3> HIDE DEF gone
    <3> QED
      BY <2>1, <2>2 DEF Unbind
  <2>4. byIndex' = [r \in Rows |-> IF r = new.row THEN k
                                   ELSE IF Unbind(gone)[r] = k THEN None ELSE Unbind(gone)[r]]
    BY DEF InstallEntry
  <2> HIDE DEF gone, new, k
  <2> QED
    BY <2>3, <2>4, Zenon
<1>6. byIndex' \in [Rows -> Keys \cup {None}]
  <2>1. byIndex' = [r \in Rows |-> IF r = new.row THEN k
                                   ELSE IF Unbind(gone)[r] = k THEN None ELSE Unbind(gone)[r]]
    BY DEF InstallEntry
  <2> HIDE DEF gone, new, k
  <2>2. \A r \in Rows : Unbind(gone)[r] \in Keys \cup {None}
    BY DEF Unbind, CacheType
  <2> QED
    BY <1>1, <2>1, <2>2
<1>7. \A j \in Keys : Cached(j) /\ items[j].row = new.row /\ j # k => j \in gone
  <2> SUFFICES ASSUME NEW j \in Keys, Cached(j), items[j].row = new.row, j # k
               PROVE  j \in IndexOwner(d)
    OBVIOUS
  <2>1. new.row \in Rows
    <3> HIDE DEF new
    <3> QED
      BY <1>1 DEF Entry
  <2>2. byIndex[new.row] = j
    BY <2>1 DEF IndexExact
  <2> QED
    BY <2>2, CacheAssumption DEF IndexOwner
<1>8. IndexExact'
  <2> HIDE DEF gone, new, k, entry
  <2> QED
    BY <1>1, <1>2, <1>3, <1>5, <1>7, CacheAssumption, EntryAssumption DEF IndexExact, Cached, CacheType, Entry
<1>9. generation' \in Nat /\ generation <= generation' /\ serial' \in Nat
  <2>1. Cardinality(IndexOwner(d)) \in Nat
    <3>1. IndexOwner(d) = {} \/ \E x : IndexOwner(d) = {x}
      BY Zenon DEF IndexOwner
    <3>2. CASE IndexOwner(d) = {}
      <4>1. Cardinality(IndexOwner(d)) = 0
        BY <3>2, FS_EmptySet, Zenon
      <4> QED
        BY <4>1
    <3>3. ASSUME NEW x, IndexOwner(d) = {x} PROVE Cardinality(IndexOwner(d)) \in Nat
      <4>1. Cardinality(IndexOwner(d)) = 1
        BY <3>3, FS_Singleton, Zenon
      <4> QED
        BY <4>1
    <3> QED
      BY <3>2, <3>3, <3>1
  <2> QED
    BY <2>1 DEF InstallEntry, CacheType
<1> QED
  BY <1>2, <1>3, <1>4, <1>6, <1>8, <1>9, Zenon

\* A rejected value is removed, if it is still there.
LEMMA RejectStep == CacheInv /\ (\E d \in Readers : GetReject(d)) => CacheInv'
<1> SUFFICES ASSUME CacheInv, NEW d \in Readers, GetReject(d) PROVE CacheInv'
  OBVIOUS
<1> DEFINE new == [reader[d] EXCEPT !.at = "fill", !.seen = None]
<1>1. reader[d] \in Reading /\ reader[d].key \in Keys /\ reader[d].gen <= generation
  BY DEF GetReject, CacheInv, ReaderType
<1>2. new \in Reading /\ new.key \in Keys /\ new.gen <= generation /\ new.at = "fill"
  BY <1>1, Zenon DEF Reading, ReaderSteps
<1>3. reader' = [reader EXCEPT ![d] = new]
  BY Zenon DEF GetReject, CacheInv, ReaderType, Reading
<1>4. /\ UNCHANGED <<generation, serial, inflight, dbVars>>
      /\ generation \in Nat /\ generation' \in Nat /\ generation <= generation'
  BY DEF GetReject, CacheInv, CacheType
<1>5. /\ CacheType' /\ IndexExact'
      /\ \A k \in Keys : items'[k] \in {None, items[k]}
  <2>1. CASE Unchanged(d)
    <3>1. Remove({reader[d].key}) /\ {reader[d].key} \in SUBSET Keys
      BY <1>1, <2>1 DEF GetReject
    <3>2. /\ items' \in [Keys -> Entry \cup {None}]
          /\ byIndex' \in [Rows -> Keys \cup {None}]
          /\ IndexExact'
          /\ \A k \in Keys : items'[k] = IF k \in {reader[d].key} THEN None ELSE items[k]
      BY <3>1, RemoveKeeps, Zenon DEF CacheInv
    <3> QED
      BY <1>4, <3>2 DEF CacheInv, CacheType
  <2>2. CASE ~Unchanged(d)
    BY <1>4, <2>2 DEF GetReject, CacheInv, CacheType, IndexExact, Cached
  <2> QED
    BY <2>1, <2>2
<1> HIDE DEF new
<1>6. ReaderType'
  BY <1>2, <1>3, <1>4, ReaderUpdate, Zenon DEF CacheInv
<1>7. LoadedOK'
  BY <1>2, <1>3, <1>4, LoadedUpdate, Zenon DEF CacheInv
<1>8. ItemsOK' /\ DbType'
  BY <1>4, <1>5, Zenon DEF CacheInv, ItemsOK, DbType, Cached, Current, Doomed, dbVars
<1> QED
  BY <1>5, <1>6, <1>7, <1>8 DEF CacheInv

\* A value is installed only when no eviction happened since its generation was
\* read, so it is current or the invalidation under way removes it.
LEMMA SetStep == CacheInv /\ (\E d \in Readers : SetIfGeneration(d)) => CacheInv'
<1> SUFFICES ASSUME CacheInv, NEW d \in Readers, SetIfGeneration(d) PROVE CacheInv'
  OBVIOUS
<1> DEFINE new == [reader[d] EXCEPT !.at = "clear"]
<1>1. /\ reader[d] \in Reading /\ reader[d].key \in Keys /\ reader[d].seen \in Entry
      /\ reader[d].gen <= generation /\ reader[d].at = "loaded"
  BY DEF SetIfGeneration, CacheInv, ReaderType
<1>2. new \in Reading /\ new.key \in Keys /\ new.gen <= generation /\ new.at = "clear"
  BY <1>1 DEF Reading, ReaderSteps
<1>3. reader' = [reader EXCEPT ![d] = new]
  BY DEF SetIfGeneration, Goto, CacheInv, ReaderType, Reading
<1>4. UNCHANGED <<inflight, dbVars>> /\ generation \in Nat
  BY DEF SetIfGeneration, CacheInv, CacheType
<1>5. /\ CacheType' /\ IndexExact' /\ ItemsOK'
      /\ generation' \in Nat /\ generation <= generation'
  <2>1. CASE generation = reader[d].gen
    <3>1. InstallEntry(d)
      BY <2>1 DEF SetIfGeneration
    <3>2. /\ items' \in [Keys -> Entry \cup {None}]
          /\ byIndex' \in [Rows -> Keys \cup {None}]
          /\ IndexExact'
          /\ generation' \in Nat /\ generation <= generation' /\ serial' \in Nat
          /\ \A k \in Keys :
                IF k = reader[d].key
                THEN /\ items'[k].row = reader[d].seen.row
                     /\ items'[k].ver = reader[d].seen.ver
                ELSE items'[k] \in {None, items[k]}
      BY <1>1, <3>1, InstallKeeps, Zenon DEF CacheInv
    <3>3. Storable(d)
      BY <1>1, <2>1 DEF CacheInv, LoadedOK
    <3>4. ItemsOK'
      <4> SUFFICES ASSUME NEW k \in Keys, items'[k] # None
                   PROVE  \/ Current(items[k].row, items[k].ver, k)'
                          \/ Doomed(items[k].row, k)' /\ items'[k].ver >= floor'[items'[k].row]
        BY DEF ItemsOK, Cached
      <4>1. CASE k = reader[d].key
        BY <1>4, <3>2, <3>3, <4>1, Zenon DEF Storable, Current, Doomed, dbVars
      <4>2. CASE k # reader[d].key
        BY <1>4, <3>2, <4>2, Zenon DEF CacheInv, ItemsOK, Cached, Current, Doomed, dbVars
      <4> QED
        BY <4>1, <4>2, Zenon
    <3> QED
      BY <1>4, <3>2, <3>4, Zenon DEF CacheInv, CacheType
  <2>2. CASE generation # reader[d].gen
    BY <1>4, <2>2 DEF SetIfGeneration, CacheInv, CacheType, IndexExact, ItemsOK, Cached,
                      Current, Doomed, cacheVars, dbVars
  <2> QED
    BY <2>1, <2>2, Zenon
<1> HIDE DEF new
<1>6. ReaderType'
  BY <1>2, <1>3, <1>4, <1>5, ReaderUpdate, Zenon DEF CacheInv
<1>7. LoadedOK'
  BY <1>2, <1>3, <1>4, <1>5, LoadedUpdate, Zenon DEF CacheInv
<1>8. DbType'
  BY <1>4 DEF CacheInv, DbType, dbVars
<1> QED
  BY <1>5, <1>6, <1>7, <1>8 DEF CacheInv
-----------------------------------------------------------------------------
(* The writer. *)

\* A write makes what is cached or loaded for the row the business of the
\* invalidation that follows it.
LEMMA WriteStep ==
    CacheInv /\ (\E r \in Rows, k \in Keys \cup {None} : WriteRow(r, k)) => CacheInv'
<1> SUFFICES ASSUME CacheInv, NEW r \in Rows, NEW k \in Keys \cup {None}, WriteRow(r, k)
             PROVE  CacheInv'
  OBVIOUS
<1>1. /\ writer.at = "idle"
      /\ ver' = [ver EXCEPT ![r] = @ + 1] /\ at' = [at EXCEPT ![r] = k]
      /\ writer' = [at |-> "evict", row |-> r, keys |-> {at[r]} \ {None}, swept |-> {}]
      /\ UNCHANGED <<items, byIndex, generation, serial, inflight, reader, floor>>
  BY Zenon DEF WriteRow, cacheVars
<1>2. CacheType' /\ ReaderType' /\ IndexExact'
  BY <1>1 DEF CacheInv, CacheType, ReaderType, IndexExact, Cached
<1>3. writer' \in Writing /\ writer'.at = "evict" /\ writer'.row = r
  BY <1>1, Zenon DEF CacheInv, DbType, Writing
<1>4. DbType'
  BY <1>1, <1>3 DEF CacheInv, DbType
<1>5. ItemsOK'
  <2> SUFFICES ASSUME NEW j \in Keys, items[j] # None
               PROVE  \/ Current(items[j].row, items[j].ver, j)'
                      \/ Doomed(items[j].row, j)' /\ items[j].ver >= floor[items[j].row]
    BY <1>1, Zenon DEF ItemsOK, Cached
  <2>1. items[j].row \in Rows /\ items[j].ver = ver[items[j].row] /\ at[items[j].row] = j
    BY <1>1, Zenon DEF CacheInv, CacheType, Entry, ItemsOK, Cached, Current, Doomed
  <2>2. CASE items[j].row = r
    BY <1>1, <2>1, <2>2, CacheAssumption, Zenon DEF CacheInv, DbType, Doomed
  <2>3. CASE items[j].row # r
    BY <1>1, <2>1, <2>3, Zenon DEF CacheInv, DbType, Current
  <2> QED
    BY <2>2, <2>3, Zenon
<1>6. LoadedOK'
  <2> SUFFICES ASSUME NEW d \in Readers, reader[d].at = "loaded", reader[d].gen = generation
               PROVE  Storable(d)'
    BY <1>1, Zenon DEF LoadedOK
  <2> DEFINE e == reader[d].seen
             j == reader[d].key
  <2>1. e.row \in Rows /\ e.ver = ver[e.row] /\ at[e.row] = j /\ j \in Keys
    BY <1>1, Zenon DEF CacheInv, ReaderType, Entry, LoadedOK, Storable, Current
  <2>2. CASE e.row = r
    BY <1>1, <2>1, <2>2, CacheAssumption, Zenon DEF CacheInv, DbType, Storable, Doomed
  <2>3. CASE e.row # r
    BY <1>1, <2>1, <2>3, Zenon DEF CacheInv, DbType, Storable, Current
  <2> QED
    BY <2>2, <2>3
<1> QED
  BY <1>2, <1>4, <1>5, <1>6 DEF CacheInv

\* The end of an invalidation that has removed what it had to: what is left is
\* current, and so is what a reader may still install.
LEMMA InvalidationEnds ==
    ASSUME CacheInv, writer.at # "idle", Invalidated, CacheType', IndexExact',
           UNCHANGED <<reader, at, ver>>,
           \A k \in Keys : items'[k] \in {None, items[k]},
           \A k \in Keys : Cached(k) /\ Doomed(items[k].row, k) => items'[k] = None,
           generation <= generation',
           generation < generation' \/ writer.at = "sweep"
    PROVE  CacheInv'
<1>1. /\ floor' = [floor EXCEPT ![writer.row] = ver[writer.row]]
      /\ writer' = NoWrite /\ writer.row \in Rows
  BY Zenon DEF Invalidated, CacheInv, DbType
<1>2. DbType'
  <2>1. NoWrite \in Writing /\ NoWrite.at = "idle"
    BY Zenon DEF NoWrite, Writing
  <2> QED
    BY <1>1, <2>1 DEF CacheInv, DbType
<1>3. \A d \in Readers : reader[d].gen \in Nat /\ reader[d].gen <= generation
  BY Zenon DEF CacheInv, ReaderType, Reading
<1>4. generation \in Nat /\ generation' \in Nat
  BY DEF CacheInv, CacheType
<1>5. ReaderType'
  BY <1>3, <1>4 DEF CacheInv, ReaderType
<1>6. ItemsOK'
  <2> SUFFICES ASSUME NEW k \in Keys, items'[k] # None
               PROVE  Current(items[k].row, items[k].ver, k)'
    BY Zenon DEF ItemsOK, Cached
  <2> QED
    BY Zenon DEF CacheInv, ItemsOK, Cached, Current
<1>7. LoadedOK'
  <2> SUFFICES ASSUME NEW d \in Readers, reader[d].at = "loaded", reader[d].gen = generation'
               PROVE  Storable(d)'
    BY Zenon DEF LoadedOK
  <2>1. reader[d].gen = generation /\ writer.at = "sweep"
    BY <1>3, <1>4
  <2> QED
    BY <2>1, Zenon DEF CacheInv, LoadedOK, Storable, Current
<1> QED
  BY <1>2, <1>5, <1>6, <1>7, Zenon DEF CacheInv

\* Evict, EvictByIndex, the end of EvictWhere and Flush reach every entry of
\* the row that was written.
LEMMA EvictSteps ==
    CacheInv /\ (Evict \/ EvictByIndex \/ EvictWhereEnd \/ Flush) => CacheInv'
<1> SUFFICES ASSUME CacheInv, Evict \/ EvictByIndex \/ EvictWhereEnd \/ Flush
             PROVE  CacheInv'
  OBVIOUS
<1> USE DEF CacheInv
<1>0. generation \in Nat /\ writer \in Writing
  BY DEF CacheType, DbType
<1>1. ASSUME NEW gone \in SUBSET Keys, Remove(gone), UNCHANGED <<serial, inflight>>,
             generation' \in Nat
      PROVE  /\ CacheType' /\ IndexExact'
             /\ \A k \in Keys : items'[k] = IF k \in gone THEN None ELSE items[k]
  <2>1. /\ items' \in [Keys -> Entry \cup {None}]
        /\ byIndex' \in [Rows -> Keys \cup {None}]
        /\ IndexExact'
        /\ \A k \in Keys : items'[k] = IF k \in gone THEN None ELSE items[k]
    BY <1>1, RemoveKeeps, Zenon
  <2> QED
    BY <1>1, <2>1, Zenon DEF CacheType
<1>2. CASE Evict
  <2> DEFINE gone == {k \in writer.keys : Cached(k)}
  <2>1. gone \in SUBSET Keys
    BY <1>0 DEF Writing
  <2>2. /\ Remove(gone) /\ UNCHANGED <<serial, inflight, reader, at, ver>>
        /\ generation' = generation + 1 /\ writer.at = "evict" /\ Invalidated
    BY <1>2, Zenon DEF Evict
  <2>3. \A k \in Keys : Cached(k) /\ Doomed(items[k].row, k) => k \in gone
    BY <2>2 DEF Doomed
  <2> HIDE DEF gone
  <2>4. /\ CacheType' /\ IndexExact'
        /\ \A k \in Keys : items'[k] = IF k \in gone THEN None ELSE items[k]
    BY <1>0, <1>1, <2>1, <2>2
  <2> QED
    BY <1>0, <2>2, <2>3, <2>4, InvalidationEnds
<1>3. CASE EvictByIndex
  <2> DEFINE gone == {k \in {byIndex[writer.row]} \ {None} : Cached(k)}
  <2>1. /\ Remove(gone) /\ UNCHANGED <<serial, inflight, reader, at, ver>>
        /\ generation' = generation + 1 /\ writer.at = "evict" /\ Invalidated
    BY <1>3, Zenon DEF EvictByIndex
  <2>2. writer.row \in Rows
    BY <2>1, Zenon DEF DbType
  <2>3. gone \in SUBSET Keys
    BY <2>2 DEF CacheType
  <2>4. \A k \in Keys : Cached(k) /\ Doomed(items[k].row, k) => k \in gone
    BY <2>2, CacheAssumption, Zenon DEF Doomed, IndexExact
  <2> HIDE DEF gone
  <2>5. /\ CacheType' /\ IndexExact'
        /\ \A k \in Keys : items'[k] = IF k \in gone THEN None ELSE items[k]
    BY <1>0, <1>1, <2>1, <2>3
  <2> QED
    BY <1>0, <2>1, <2>4, <2>5, InvalidationEnds
<1>4. CASE EvictWhereEnd
  <2> DEFINE gone == {k \in writer.swept : Cached(k)}
  <2>1. gone \in SUBSET Keys
    BY <1>0 DEF Writing
  <2>2. /\ Remove(gone) /\ UNCHANGED <<generation, serial, inflight, reader, at, ver>>
        /\ writer.at = "sweep" /\ Invalidated
    BY <1>4, Zenon DEF EvictWhereEnd
  <2>3. \A k \in Keys : Cached(k) /\ Doomed(items[k].row, k) => k \in gone
    BY <2>2, Zenon DEF Doomed
  <2> HIDE DEF gone
  <2>4. /\ CacheType' /\ IndexExact'
        /\ \A k \in Keys : items'[k] = IF k \in gone THEN None ELSE items[k]
    BY <1>0, <1>1, <2>1, <2>2, Zenon
  <2> QED
    BY <1>0, <2>2, <2>3, <2>4, InvalidationEnds
<1>5. CASE Flush
  <2>1. /\ items' = [k \in Keys |-> None] /\ byIndex' = [r \in Rows |-> None]
        /\ UNCHANGED <<serial, inflight, reader, at, ver>>
        /\ generation' = generation + 1 /\ writer.at = "evict" /\ Invalidated
    BY <1>5 DEF Flush
  <2>2. CacheType' /\ IndexExact' /\ \A k \in Keys : items'[k] = None
    BY <1>0, <2>1, CacheAssumption DEF CacheType, IndexExact, Cached
  <2> QED
    BY <1>0, <2>1, <2>2, InvalidationEnds
<1> QED
  BY <1>2, <1>3, <1>4, <1>5

\* EvictWhere lists the keys: what is doomed is among them, and every value a
\* reader has loaded so far is discarded by the new generation.
LEMMA SweepBegins == CacheInv /\ (\E K \in SUBSET Keys : EvictWhereBegin(K)) => CacheInv'
<1> SUFFICES ASSUME CacheInv, NEW K \in SUBSET Keys, EvictWhereBegin(K) PROVE CacheInv'
  OBVIOUS
<1>1. /\ writer.at = "evict" /\ writer.keys \subseteq K /\ generation' = generation + 1
      /\ writer' = [writer EXCEPT !.at = "sweep", !.swept = {k \in K : Cached(k)}]
      /\ UNCHANGED <<items, byIndex, serial, inflight, reader, at, ver, floor>>
  BY DEF EvictWhereBegin
<1>2. writer \in Writing /\ writer.row \in Rows /\ generation \in Nat
  BY <1>1 DEF CacheInv, DbType, CacheType
<1>3. /\ writer' \in Writing /\ writer'.at = "sweep" /\ writer'.row = writer.row
      /\ writer'.swept = {k \in K : Cached(k)}
  BY <1>1, <1>2, Zenon DEF Writing
<1>4. DbType'
  BY <1>1, <1>2, <1>3 DEF CacheInv, DbType
<1>5. CacheType' /\ IndexExact'
  BY <1>1, <1>2 DEF CacheInv, CacheType, IndexExact, Cached
<1>6. ItemsOK'
  BY <1>1, <1>3 DEF CacheInv, ItemsOK, Cached, Current, Doomed
<1>7. \A d \in Readers : reader[d].gen \in Nat /\ reader[d].gen <= generation
  BY DEF CacheInv, ReaderType, Reading
<1>8. ReaderType'
  BY <1>1, <1>2, <1>7 DEF CacheInv, ReaderType
<1>9. LoadedOK'
  BY <1>1, <1>2, <1>7 DEF LoadedOK
<1> QED
  BY <1>4, <1>5, <1>6, <1>8, <1>9 DEF CacheInv
-----------------------------------------------------------------------------
\* The cache starts empty, with no fill or write under way.
LEMMA InitCache == Init => CacheInv
<1> SUFFICES ASSUME Init PROVE CacheInv
  OBVIOUS
<1>1. CacheType /\ IndexExact /\ ItemsOK
  BY CacheAssumption, Zenon DEF Init, CacheType, IndexExact, ItemsOK, Cached
<1>2. DbType
  BY DEF Init, DbType, NoWrite, Writing
<1>3. ReaderType /\ LoadedOK
  BY IdleReading DEF Init, ReaderType, LoadedOK, Idle, Looking
<1> QED
  BY <1>1, <1>2, <1>3 DEF CacheInv

\* Every step of readers and writer keeps the invariant.
LEMMA NextCache == CacheInv /\ [Next]_vars => CacheInv'
<1> SUFFICES ASSUME CacheInv, [Next]_vars PROVE CacheInv'
  OBVIOUS
<1>1. CASE \E d \in Readers : Read(d)
  BY <1>1, LookupSteps, LoadStep, CloseStep, RejectStep, SetStep, Zenon DEF Read, FillStep
<1>2. CASE Write
  BY <1>2, WriteStep, EvictSteps, SweepBegins DEF Write
<1>3. CASE UNCHANGED vars
  <2> USE <1>3 DEF vars, cacheVars, dbVars
  <2>1. CacheType' /\ DbType' /\ IndexExact' /\ ItemsOK'
    BY DEF CacheInv, CacheType, DbType, IndexExact, ItemsOK, Cached, Current, Doomed
  <2>2. ReaderType' /\ LoadedOK'
    BY Zenon DEF CacheInv, ReaderType, LoadedOK, Storable, Current, Doomed
  <2> QED
    BY <2>1, <2>2 DEF CacheInv
<1> QED
  BY <1>1, <1>2, <1>3 DEF Next

\* The cache never serves a row older than the last completed invalidation of
\* it, whichever way it was evicted and however fills race with that
\* (setIfGeneration and the generation every eviction advances).
THEOREM CacheIsFresh == Spec => []CachedIsFresh
<1>1. CacheInv => CachedIsFresh
  <2> SUFFICES ASSUME CacheInv, NEW k \in Keys, Cached(k)
               PROVE  items[k].ver >= floor[items[k].row]
    BY Zenon DEF CachedIsFresh
  <2>1. items[k] \in Entry
    BY DEF CacheInv, CacheType, Cached
  <2> QED
    BY <2>1, Zenon DEF CacheInv, ItemsOK, DbType, Current, Entry
<1> QED
  BY <1>1, InitCache, NextCache, PTL DEF Spec

\* The secondary index names the one key a row is cached under, and only rows
\* that are cached (removeLocked, setIfGeneration, evictIndexOwnerLocked).
THEOREM IndexIsExact == Spec => []IndexExact
<1>1. CacheInv => IndexExact
  BY DEF CacheInv
<1> QED
  BY <1>1, InitCache, NextCache, PTL DEF Spec
-----------------------------------------------------------------------------
(* One fill per key. *)

Leading == {"lead", "load", "loaded", "clear"}

\* The in-flight slot of a key names the reader that fills it, and a follower waits for a
\* reader that fills its key, or has still to close that fill's channel.
Flight ==
    /\ lookups \in 0..MaxLookups
    /\ \A d \in Readers : reader[d].at \in Leading => inflight[reader[d].key] = d
    /\ \A d \in Readers, k \in Keys :
         inflight[k] = d => reader[d].at \in Leading /\ reader[d].key = k
    /\ \A d \in Readers : reader[d].at = "follow" =>
         /\ reader[d].call \in Readers
         /\ reader[reader[d].call].at \in Leading \cup {"close"}
         /\ reader[reader[d].call].key = reader[d].key

\* Nobody fills, follows or has looked up anything at the start.
LEMMA InitFlight == Init => Flight
BY CacheAssumption DEF Init, Flight, Leading, Idle, Looking

\* What the step of a reader makes of its record; the others keep theirs.
Moves(d, steps, newAt) ==
    /\ reader[d].at \in steps /\ reader'[d].at = newAt
    /\ \A e \in Readers \ {d} : reader'[e] = reader[e]

\* A reader that neither fills nor is about to close its fill goes on, or stops.
LEMMA FlightAside ==
    ASSUME Flight, NEW d \in Readers, Moves(d, {"idle", "hit", "fill", "follow"}, reader'[d].at),
           reader'[d].at \in {"idle", "hit", "fill"},
           inflight' = inflight, lookups' \in 0..MaxLookups
    PROVE  Flight'
BY DEF Flight, Leading, Moves

\* A reader that fills a key goes on filling it.
LEMMA FlightGoesOn ==
    ASSUME Flight, NEW d \in Readers, Moves(d, Leading, reader'[d].at),
           reader'[d].at \in Leading, reader'[d].key = reader[d].key,
           inflight' = inflight, lookups' = lookups
    PROVE  Flight'
BY DEF Flight, Leading, Moves

\* Every step keeps one fill per key: only a reader that finds no fill in flight leads one,
\* and its followers are released before it forgets the key (Fill and its deferred end).
LEMMA NextFlight == CacheInv /\ Flight /\ [Next]_vars => Flight'
<1> SUFFICES ASSUME CacheInv, Flight, [Next]_vars PROVE Flight'
  OBVIOUS
<1>0. /\ reader \in [Readers -> Reading] /\ inflight \in [Keys -> Readers \cup {None}]
      /\ None \notin Readers /\ lookups \in 0..MaxLookups /\ MaxLookups \in Nat
      /\ \A d \in Readers : reader[d].at # "idle" => reader[d].key \in Keys
  BY CacheAssumption, Zenon DEF CacheInv, CacheType, ReaderType, Flight
<1>1. ASSUME NEW d \in Readers, NEW k \in Keys, GetMiss(d, k) \/ GetRead(d, k) PROVE Flight'
  <2>1. /\ Moves(d, {"idle", "hit", "fill", "follow"}, reader'[d].at)
        /\ reader'[d].at \in {"hit", "fill"}
    BY <1>0, <1>1 DEF GetMiss, GetRead, Looking, Moves
  <2>2. inflight' = inflight /\ lookups' \in 0..MaxLookups
    BY <1>0, <1>1 DEF GetMiss, GetRead
  <2> QED
    BY <2>1, <2>2, FlightAside, Zenon
<1>2. ASSUME NEW d \in Readers, GetAccept(d) \/ GetReject(d) \/ FollowCancelled(d) PROVE Flight'
  <2>1. /\ Moves(d, {"idle", "hit", "fill", "follow"}, reader'[d].at)
        /\ reader'[d].at \in {"idle", "fill"}
    <3>1. CASE GetAccept(d) \/ FollowCancelled(d)
      <4>1. reader' = [reader EXCEPT ![d] = Idle] /\ reader[d].at \in {"hit", "follow"}
        BY <3>1, Zenon DEF GetAccept, FollowCancelled
      <4>2. Idle.at = "idle"
        BY DEF Idle, Looking
      <4> QED
        BY <1>0, <4>1, <4>2 DEF Moves
    <3>2. CASE GetReject(d)
      <4>1. reader' = [reader EXCEPT ![d].at = "fill", ![d].seen = None] /\ reader[d].at = "hit"
        BY <3>2 DEF GetReject
      <4> QED
        BY <1>0, <4>1 DEF Moves, Reading
    <3> QED
      BY <1>2, <3>1, <3>2, Zenon
  <2>2. inflight' = inflight /\ lookups' \in 0..MaxLookups
    BY <1>0, <1>2, Zenon DEF GetAccept, GetReject, FollowCancelled
  <2> QED
    BY <2>1, <2>2, FlightAside, Zenon
<1>3. ASSUME NEW d \in Readers,
             ReadGeneration(d) \/ LoadRow(d) \/ LoadFail(d) \/ SetIfGeneration(d)
      PROVE  Flight'
  <2>1. /\ Moves(d, Leading, reader'[d].at)
        /\ reader'[d].at \in Leading /\ reader'[d].key = reader[d].key
    BY <1>0, <1>3 DEF ReadGeneration, LoadRow, LoadFail, SetIfGeneration, Goto, Moves, Leading,
                      Reading
  <2>2. inflight' = inflight /\ lookups' = lookups
    BY <1>3 DEF ReadGeneration, LoadRow, LoadFail, SetIfGeneration
  <2> QED
    BY <2>1, <2>2, FlightGoesOn, Zenon
<1>4. ASSUME NEW d \in Readers, FillFollow(d) PROVE Flight'
  <2>1. /\ reader[d].at = "fill" /\ inflight[reader[d].key] # None
        /\ reader'[d].at = "follow" /\ reader'[d].key = reader[d].key
        /\ reader'[d].call = inflight[reader[d].key]
        /\ \A e \in Readers \ {d} : reader'[e] = reader[e]
        /\ UNCHANGED <<inflight, lookups>>
    BY <1>0, <1>4 DEF FillFollow, Reading
  <2>2. reader[d].key \in Keys /\ reader'[d].call \in Readers /\ reader'[d].call # d
    BY <1>0, <2>1 DEF Flight, Leading
  <2> QED
    BY <1>0, <2>1, <2>2 DEF Flight, Leading
<1>5. ASSUME NEW d \in Readers, FillLead(d) PROVE Flight'
  <2>1. /\ reader[d].at = "fill" /\ inflight[reader[d].key] = None
        /\ reader'[d].at = "lead" /\ reader'[d].key = reader[d].key /\ reader[d].key \in Keys
        /\ \A e \in Readers \ {d} : reader'[e] = reader[e]
        /\ inflight' = [inflight EXCEPT ![reader[d].key] = d] /\ UNCHANGED lookups
    BY <1>0, <1>5 DEF FillLead, Goto, Reading
  <2> QED
    BY <1>0, <2>1 DEF Flight, Leading
<1>6. ASSUME NEW d \in Readers, ClearInflight(d) PROVE Flight'
  <2>1. /\ reader[d].at = "clear" /\ reader'[d].at = "close" /\ reader'[d].key = reader[d].key
        /\ reader[d].key \in Keys
        /\ \A e \in Readers \ {d} : reader'[e] = reader[e]
        /\ inflight' = [inflight EXCEPT ![reader[d].key] = None] /\ UNCHANGED lookups
    BY <1>0, <1>6 DEF ClearInflight, Goto, Reading
  <2> QED
    BY <1>0, <2>1 DEF Flight, Leading
<1>7. ASSUME NEW d \in Readers, CloseDone(d) PROVE Flight'
  <2>1. /\ reader[d].at = "close" /\ UNCHANGED <<inflight, lookups>>
        /\ \A e \in Readers :
             reader'[e] = IF e = d \/ (reader[e].at = "follow" /\ reader[e].call = d)
                          THEN Idle ELSE reader[e]
    BY <1>7, Zenon DEF CloseDone
  <2>2. Idle.at = "idle"
    BY DEF Idle, Looking
  <2> QED
    BY <1>0, <2>1, <2>2 DEF Flight, Leading
<1>8. CASE Write \/ UNCHANGED vars
  <2>1. UNCHANGED <<reader, inflight, lookups>>
    BY <1>8, Zenon DEF Write, WriteRow, Evict, EvictByIndex, EvictWhereEnd, Flush, EvictWhereBegin, vars
  <2> QED
    BY <2>1 DEF Flight
<1> QED
  BY <1>1, <1>2, <1>3, <1>4, <1>5, <1>6, <1>7, <1>8, Zenon DEF Next, Read, FillStep

-----------------------------------------------------------------------------
(* What a validator's verdict removes. *)

\* List elements are numbered in the order of their allocation, and the entry a reader is
\* judging has only been replaced, in its element, by later versions.
Judged(d) ==
    LET e == reader[d].seen
        now == items[reader[d].key]
    IN  /\ e \in Entry /\ e.elem <= serial
        /\ now # None /\ now.elem = e.elem =>
             /\ e.version <= now.version
             /\ e.version = now.version => e.ver = now.ver
Verdict ==
    /\ \A k \in Keys : Cached(k) => items[k].elem <= serial
    /\ \A d \in Readers : reader[d].at = "hit" => Judged(d)

\* Nothing is cached or judged at the start.
LEMMA InitVerdict == Init => Verdict
BY DEF Init, Verdict, Cached, Idle, Looking

\* A step that only removes entries, or none, leaves what is judged comparable.
LEMMA VerdictKept ==
    ASSUME Verdict, \A k \in Keys : items'[k] \in {None, items[k]}, serial' = serial,
           \A d \in Readers : reader[d].at # "idle" => reader[d].key \in Keys,
           \A d \in Readers : reader'[d].at = "hit" => reader'[d] = reader[d]
    PROVE  Verdict'
<1>1. \A k \in Keys : (Cached(k) => items[k].elem <= serial)'
  BY Zenon DEF Verdict, Cached
<1>2. ASSUME NEW d \in Readers, reader'[d].at = "hit" PROVE Judged(d)'
  <2>1. reader'[d] = reader[d] /\ reader[d].key \in Keys /\ Judged(d)
    BY <1>2, Zenon DEF Verdict
  <2>2. items'[reader[d].key] \in {None, items[reader[d].key]}
    BY <2>1, Zenon
  <2> QED
    BY <2>1, <2>2, Zenon DEF Judged
<1> QED
  BY <1>1, <1>2, Zenon DEF Verdict

\* Every step keeps what is judged comparable: an insertion allocates a new element, and one
\* that finds the key cached makes a later version in the same element (setIfGeneration).
LEMMA NextVerdict == CacheInv /\ Verdict /\ [Next]_vars => Verdict'
<1> SUFFICES ASSUME CacheInv, Verdict, [Next]_vars PROVE Verdict'
  OBVIOUS
<1>0. /\ reader \in [Readers -> Reading] /\ items \in [Keys -> Entry \cup {None}]
      /\ serial \in Nat
      /\ \A d \in Readers : reader[d].at # "idle" => reader[d].key \in Keys
  BY Zenon DEF CacheInv, CacheType, ReaderType
<1>1. ASSUME NEW d \in Readers, NEW k \in Keys, GetMiss(d, k) PROVE Verdict'
  <2>1. /\ items' = items /\ serial' = serial /\ reader'[d].at = "fill"
        /\ \A e \in Readers \ {d} : reader'[e] = reader[e]
    BY <1>0, <1>1, Zenon DEF GetMiss, cacheVars, Looking
  <2> QED
    BY <1>0, <2>1, VerdictKept, Zenon
<1>2. ASSUME NEW d \in Readers, NEW k \in Keys, GetRead(d, k) PROVE Verdict'
  <2>1. /\ items' = items /\ serial' = serial /\ items[k] # None
        /\ reader'[d].at = "hit" /\ reader'[d].key = k /\ reader'[d].seen = items[k]
        /\ \A e \in Readers \ {d} : reader'[e] = reader[e]
    BY <1>0, <1>2, Zenon DEF GetRead, cacheVars, Looking, Cached
  <2>2. items[k] \in Entry /\ items[k].version \in Nat /\ items[k].elem <= serial
    BY <1>0, <2>1, Zenon DEF Verdict, Cached, Entry
  <2>3. ASSUME NEW e \in Readers, reader'[e].at = "hit" PROVE Judged(e)'
    <3>1. CASE e = d
      BY <2>1, <2>2, <3>1 DEF Judged
    <3>2. CASE e # d
      BY <2>1, <2>3, <3>2 DEF Verdict, Judged
    <3> QED
      BY <3>1, <3>2
  <2> QED
    BY <2>1, <2>3, Zenon DEF Verdict, Cached
<1>3. ASSUME NEW d \in Readers, GetAccept(d) \/ FollowCancelled(d) PROVE Verdict'
  <2>1. items' = items /\ serial' = serial /\ reader' = [reader EXCEPT ![d] = Idle]
    BY <1>3, Zenon DEF GetAccept, FollowCancelled, cacheVars
  <2>2. Idle.at = "idle"
    BY DEF Idle, Looking
  <2> QED
    BY <1>0, <2>1, <2>2, VerdictKept, Zenon
<1>4. ASSUME NEW d \in Readers, GetReject(d) PROVE Verdict'
  <2>1. /\ reader' = [reader EXCEPT ![d].at = "fill", ![d].seen = None] /\ serial' = serial
        /\ \/ items' = items
           \/ items' = [k \in Keys |-> IF k \in {reader[d].key} THEN None ELSE items[k]]
    BY <1>4 DEF GetReject, Remove
  <2>2. \A k \in Keys : items'[k] \in {None, items[k]}
    BY <2>1
  <2>3. reader'[d].at = "fill" /\ \A e \in Readers \ {d} : reader'[e] = reader[e]
    BY <1>0, <2>1 DEF Reading
  <2> QED
    BY <1>0, <2>1, <2>2, <2>3, VerdictKept
<1>5. ASSUME NEW d \in Readers,
             \/ FillFollow(d) \/ FillLead(d) \/ ReadGeneration(d) \/ LoadRow(d) \/ LoadFail(d)
             \/ ClearInflight(d)
      PROVE  Verdict'
  <2>1. items' = items /\ serial' = serial
    BY <1>5, Zenon DEF FillFollow, FillLead, ReadGeneration, LoadRow, LoadFail, ClearInflight, cacheVars
  <2>2. reader'[d].at # "hit" /\ \A e \in Readers \ {d} : reader'[e] = reader[e]
    BY <1>0, <1>5 DEF FillFollow, FillLead, ReadGeneration, LoadRow, LoadFail, ClearInflight,
                      Goto, Reading
  <2> QED
    BY <1>0, <2>1, <2>2, VerdictKept, Zenon
<1>6. ASSUME NEW d \in Readers, CloseDone(d) PROVE Verdict'
  <2>1. /\ items' = items /\ serial' = serial
        /\ \A e \in Readers : reader'[e] \in {Idle, reader[e]}
    BY <1>6, Zenon DEF CloseDone, cacheVars
  <2>2. Idle.at = "idle"
    BY DEF Idle, Looking
  <2> QED
    BY <1>0, <2>1, <2>2, VerdictKept, Zenon
<1>7. ASSUME NEW d \in Readers, SetIfGeneration(d), generation = reader[d].gen PROVE Verdict'
  <2> DEFINE k == reader[d].key
             new == reader[d].seen
             later == [new EXCEPT !.elem = items[k].elem, !.version = items[k].version + 1]
             first == [new EXCEPT !.elem = serial + 1]
  <2>1. /\ k \in Keys /\ new \in Entry
        /\ reader'[d].at = "clear" /\ \A e \in Readers \ {d} : reader'[e] = reader[e]
    BY <1>0, <1>7 DEF SetIfGeneration, Goto, CacheInv, ReaderType, Reading
  <2>2. InstallEntry(d)
    BY <1>7, Zenon DEF SetIfGeneration
  <2>3. \A j \in Keys \ {k} : items'[j] \in {None, items[j]}
    BY <2>2, Zenon DEF InstallEntry
  <2>4. Cached(k) => items'[k] = later /\ serial' = serial
    BY <2>1, <2>2, Zenon DEF InstallEntry
  <2>5. ~Cached(k) => items'[k] = first /\ serial' = serial + 1
    BY <2>1, <2>2, Zenon DEF InstallEntry
  <2>6. Cached(k) => later.elem = items[k].elem /\ later.version = items[k].version + 1
    <3> HIDE DEF k, new
    <3> QED
      BY <2>1 DEF Entry
  <2>7. first.elem = serial + 1
    <3> HIDE DEF k, new
    <3> QED
      BY <2>1 DEF Entry
  <2>8. Cached(k) => items[k] \in Entry /\ items[k].version \in Nat /\ items[k].elem \in Nat
    BY <1>0, <2>1, Zenon DEF Cached, Entry
  <2> HIDE DEF later, first, k, new
  <2>9. serial' \in Nat /\ serial <= serial'
    BY <1>0, <2>4, <2>5
  <2>10. ASSUME NEW j \in Keys, items'[j] # None PROVE items'[j].elem <= serial'
    <3>1. CASE j = k /\ Cached(k)
      BY <2>4, <2>6, <3>1, Zenon DEF Verdict
    <3>2. CASE j = k /\ ~Cached(k)
      BY <1>0, <2>5, <2>7, <3>2
    <3>3. CASE j # k
      <4>1. items'[j] = items[j] /\ items[j] # None
        BY <2>3, <2>10, <3>3
      <4>2. items[j].elem \in Nat /\ items[j].elem <= serial
        BY <1>0, <4>1, Zenon DEF Verdict, Cached, Entry
      <4> QED
        BY <1>0, <2>9, <4>1, <4>2
    <3> QED
      BY <3>1, <3>2, <3>3, Zenon
  <2>11. ASSUME NEW e \in Readers, reader'[e].at = "hit" PROVE Judged(e)'
    <3> DEFINE i == reader[e].key
               v == reader[e].seen
    <3>1. e # d /\ reader'[e] = reader[e] /\ i \in Keys /\ Judged(e)
      BY <1>0, <2>1, <2>11, Zenon DEF Verdict
    <3>2. v \in Entry /\ v.elem \in Nat /\ v.version \in Nat /\ v.elem <= serial
      BY <3>1, Zenon DEF Judged, Entry
    <3>3. v.elem <= serial'
      BY <1>0, <2>9, <3>2
    <3> SUFFICES ASSUME items'[i] # None, items'[i].elem = v.elem
                 PROVE  /\ v.version <= items'[i].version
                        /\ v.version = items'[i].version => v.ver = items'[i].ver
      BY <3>1, <3>2, <3>3, Zenon DEF Judged
    <3>4. CASE i = k /\ Cached(k)
      BY <2>4, <2>6, <2>8, <3>1, <3>2, <3>4 DEF Judged, Cached
    <3>5. CASE i = k /\ ~Cached(k)
      BY <1>0, <2>5, <2>7, <3>2, <3>5
    <3>6. CASE i # k
      BY <2>3, <3>1, <3>6, Zenon DEF Judged
    <3> QED
      BY <3>4, <3>5, <3>6, Zenon
  <2> QED
    BY <2>10, <2>11, Zenon DEF Verdict, Cached
<1>8. ASSUME NEW d \in Readers, SetIfGeneration(d), generation # reader[d].gen PROVE Verdict'
  <2>1. items' = items /\ serial' = serial
    BY <1>8, Zenon DEF SetIfGeneration, cacheVars
  <2>2. reader'[d].at = "clear" /\ \A e \in Readers \ {d} : reader'[e] = reader[e]
    BY <1>0, <1>8 DEF SetIfGeneration, Goto, Reading
  <2> QED
    BY <1>0, <2>1, <2>2, VerdictKept, Zenon
<1>9. CASE Write \/ UNCHANGED vars
  <2>1. reader' = reader /\ serial' = serial
    BY <1>9, Zenon DEF Write, WriteRow, Evict, EvictByIndex, EvictWhereEnd, Flush, EvictWhereBegin, vars,
                cacheVars
  <2>2. \A k \in Keys : items'[k] \in {None, items[k]}
    BY <1>9, Zenon DEF Write, WriteRow, Evict, EvictByIndex, EvictWhereEnd, Flush, EvictWhereBegin, vars,
                cacheVars, Remove
  <2> QED
    BY <1>0, <2>1, <2>2, VerdictKept, Zenon
<1> QED
  BY <1>1, <1>2, <1>3, <1>4, <1>5, <1>6, <1>7, <1>8, <1>9, Zenon DEF Next, Read, FillStep

-----------------------------------------------------------------------------
CacheIInv == CacheInv /\ Flight /\ Verdict

\* The whole invariant holds always.
LEMMA CacheInvariant == Spec => []CacheIInv
<1>1. Init => CacheIInv
  BY InitCache, InitFlight, InitVerdict DEF CacheIInv
<1>2. CacheIInv /\ [Next]_vars => CacheIInv'
  BY NextCache, NextFlight, NextVerdict DEF CacheIInv
<1> QED
  BY <1>1, <1>2, PTL DEF Spec

\* Cache, index and in-flight table keep their shape, the index is exact, and a key is loaded
\* by one reader at a time, for which the others wait (Fill, removeLocked, setIfGeneration).
THEOREM CacheIsOrderly == Spec => []CacheOrderly
<1>1. CacheIInv => CacheOrderly
  <2> SUFFICES ASSUME CacheIInv PROVE CacheOrderly
    OBVIOUS
  <2>0. CacheInv /\ Flight /\ Verdict
    BY DEF CacheIInv
  <2>1. TypeOK
    <3>1. \A d \in Readers :
            /\ reader[d].at # "idle" => reader[d].key # None
            /\ reader[d].at \in {"hit", "loaded"} => reader[d].seen # None
            /\ reader[d].at = "follow" => reader[d].call # None
      BY <2>0, CacheAssumption, EntryAssumption
      DEF CacheInv, ReaderType, Verdict, Judged, Flight
    <3>2. /\ items \in [Keys -> Entry \cup {None}] /\ byIndex \in [Rows -> Keys \cup {None}]
          /\ generation \in Nat /\ serial \in Nat /\ lookups \in 0..MaxLookups
          /\ inflight \in [Keys -> Readers \cup {None}]
      BY <2>0, Zenon DEF CacheInv, CacheType, Flight
    <3>3. /\ reader \in [Readers -> Reading] /\ writer \in Writing
          /\ at \in [Rows -> Keys \cup {None}]
          /\ ver \in [Rows -> Nat] /\ floor \in [Rows -> Nat]
      BY <2>0, Zenon DEF CacheInv, DbType, ReaderType
    <3> QED
      BY <3>1, <3>2, <3>3, Zenon DEF TypeOK, Reading, Writing
  <2>2. SingleFlight
    BY <2>0 DEF SingleFlight, Flight, Leading
  <2> QED
    BY <2>0, <2>1, <2>2 DEF CacheOrderly, CacheInv
<1> QED
  BY <1>1, CacheInvariant, PTL

\* Whatever was installed while a validator ran, its verdict removes only the value it was
\* given (the element and version comparison of Get).
THEOREM RejectsAreExact == Spec => RejectRemovesWhatItRead
<1>1. CacheIInv /\ [Next]_vars => [RejectsWhatItRead]_vars
  <2> SUFFICES ASSUME CacheIInv, Next, NEW d \in Readers, NEW k \in Keys,
                      reader[d].at = "hit", reader'[d].at = "fill", Cached(k), items'[k] = None
               PROVE  items[k].ver = reader[d].seen.ver
    BY Zenon DEF RejectsWhatItRead
  <2>0. /\ CacheInv /\ Verdict /\ reader \in [Readers -> Reading]
        /\ reader[d].key \in Keys
    BY Zenon DEF CacheIInv, CacheInv, ReaderType
  <2>1. GetReject(d)
    <3>0. Idle.at = "idle"
      BY Zenon DEF Idle, Looking
    <3>1. ASSUME NEW e \in Readers, Read(e) PROVE e = d
      <4> SUFFICES ASSUME e # d PROVE FALSE
        BY Zenon
      <4>1. CASE CloseDone(e)
        BY <3>0, <4>1, Zenon DEF CloseDone
      <4>2. CASE GetAccept(e) \/ GetReject(e)
        <5>1. reader'[d] = reader[d]
          BY <2>0, <4>2, Zenon DEF GetAccept, GetReject
        <5> QED BY <5>1, Zenon
      <4>3. CASE ~(CloseDone(e) \/ GetAccept(e) \/ GetReject(e))
        <5>1. reader'[d] = reader[d]
          BY <2>0, <3>1, <4>3, Zenon DEF Read, FillStep, GetMiss, GetRead, FollowCancelled, FillFollow,
             FillLead, ReadGeneration, LoadRow, LoadFail, SetIfGeneration, ClearInflight, Goto
        <5> QED BY <5>1
      <4> QED
        BY <4>1, <4>2, <4>3, Zenon
    <3>2. ~Write
      BY Zenon DEF Write, WriteRow, Evict, EvictByIndex, EvictWhereEnd, Flush, EvictWhereBegin
    <3>3. Read(d)
      BY <3>1, <3>2, Zenon DEF Next
    <3>4. CASE GetAccept(d)
      <4>1. reader' = [reader EXCEPT ![d] = Idle]
        BY <3>4, Zenon DEF GetAccept
      <4> QED
        BY <2>0, <3>0, <4>1, Zenon
    <3> QED
      BY <3>3, <3>4 DEF Read, FillStep, GetMiss, GetRead, FollowCancelled, FillFollow,
         FillLead, ReadGeneration, LoadRow, LoadFail, SetIfGeneration, ClearInflight, CloseDone
  <2>2. Unchanged(d) /\ k = reader[d].key
    BY <2>1 DEF GetReject, Remove, Cached
  <2> QED
    BY <2>0, <2>2, Zenon DEF Verdict, Judged, Unchanged, SameElement, Cached
<1> QED
  BY <1>1, CacheInvariant, PTL DEF Spec, RejectRemovesWhatItRead
=============================================================================

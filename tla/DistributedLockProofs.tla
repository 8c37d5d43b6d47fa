----------------------- MODULE DistributedLockProofs -----------------------
(***************************************************************************)
(* Proofs about the distributed lock, for every set of processes, lease    *)
(* time and number of retries: leases exclude one another, and the row     *)
(* implements the abstract lease.                                          *)
(***************************************************************************)
EXTENDS DistributedLock, TLAPS

\* Waiting keeps a time in range, keeps the order of two times, and makes none valid again.
LEMMA LaterFacts ==
    ASSUME NEW m \in Ticks, NEW n \in Ticks
    PROVE  /\ Later(n) \in Ticks
           /\ m <= n => Later(m) <= Later(n)
           /\ Later(n) >= 0 => n >= 0 /\ Later(n) = n - 1
           /\ n = -1 => Later(n) = -1
  BY LockAssumption DEF Later, Ticks

\* The initial state: no row, nothing acquired.
LEMMA LockInit == Init => LockInv
  BY LockAssumption DEF Init, LockInv, TypeOK, Places, LeaseBacked, AskedAhead, WaitsToRetry, Ticks

\* Steps that change neither the row nor what a process relies on.
LEMMA QuietStep ==
    ASSUME LockInv, NEW h \in Holders,
           Lock(h) \/ Stamp(h) \/ Refused(h) \/ Retry(h) \/ Cancelled(h) \/ Leave(h) \/ Extend(h)
             \/ IsNotHeld(h) \/ Crash(h)
    PROVE  LockInv'
<1>. USE LockAssumption DEF LockInv, row
<1>1. TypeOK'
  <2>1. CASE Lock(h) \/ Refused(h) \/ Cancelled(h) \/ Leave(h)
    BY <2>1 DEF TypeOK, Places, Lock, Refused, Cancelled, Leave
  <2>4. CASE Crash(h) \/ IsNotHeld(h)
    <3>1. acquired' \in [Holders -> BOOLEAN]
      BY <2>4, Zenon DEF TypeOK, Crash, IsNotHeld
    <3>2. at' \in [Holders -> Places]
      BY <2>4 DEF TypeOK, Places, Crash, IsNotHeld
    <3>. QED BY <2>4, <3>1, <3>2 DEF TypeOK, Crash, IsNotHeld
  <2>2. CASE Stamp(h) \/ Extend(h)
    BY <2>2 DEF TypeOK, Places, Ticks, Stamp, Extend
  <2>3. CASE Retry(h)
    <3>1. tries[h] \in 0..MaxRetries /\ tries' = [tries EXCEPT ![h] = @ + 1]
      BY <2>3 DEF TypeOK, Retry
    <3>2. tries[h] < MaxRetries
      BY <2>3 DEF WaitsToRetry, Retry
    <3>. QED BY <2>3, <3>1, <3>2 DEF TypeOK, Places, Retry
  <2>. QED BY <2>1, <2>2, <2>3, <2>4
<1>2. LeaseBacked'
  BY DEF TypeOK, LeaseBacked, Lock, Stamp, Refused, Retry, Cancelled, Leave, Extend, IsNotHeld,
         Crash
<1>3. AskedAhead'
  BY DEF TypeOK, Ticks, AskedAhead, Lock, Stamp, Refused, Retry, Cancelled, Leave, Extend,
         IsNotHeld, Crash
<1>4. WaitsToRetry'
  BY DEF TypeOK, WaitsToRetry, Lock, Stamp, Refused, Retry, Cancelled, Leave, Extend, IsNotHeld,
         Crash
<1>. QED BY <1>1, <1>2, <1>3, <1>4

\* Steps that may delete an expired row.
LEMMA CleanupStep ==
    ASSUME LockInv, CleanupExpiredLocks \/ \E h \in Holders : Cleanup(h)
    PROVE  LockInv'
<1>. USE LockAssumption DEF LockInv, row, Expired, NoRow, CleanupExpiredLocks, Cleanup
<1>1. TypeOK'
  <2>1. /\ holder' \in Holders \cup {NoHolder} /\ left' \in Ticks
        /\ holder' = NoHolder => left' = -1
    BY DEF TypeOK, Ticks
  <2>2. /\ asked' \in [Holders -> Ticks] /\ lease' \in [Holders -> Ticks]
        /\ tries' \in [Holders -> 0..MaxRetries]
    BY DEF TypeOK, Ticks
  <2>3. at' \in [Holders -> Places]
    BY DEF TypeOK, Places
  <2>4. acquired' \in [Holders -> BOOLEAN]
    BY Zenon DEF TypeOK
  <2>. QED BY <2>1, <2>2, <2>3, <2>4 DEF TypeOK
<1>2. LeaseBacked'
  BY DEF TypeOK, Ticks, LeaseBacked
<1>3. AskedAhead'
  BY DEF TypeOK, AskedAhead
<1>4. WaitsToRetry'
  BY DEF TypeOK, WaitsToRetry
<1>. QED BY <1>1, <1>2, <1>3, <1>4

\* The insert: the row was free, so nobody relied on the lock.
LEMMA InsertStep ==
    ASSUME LockInv, NEW h \in Holders, Inserted(h) \/ InsertFails(h)
    PROVE  LockInv'
<1>. USE LockAssumption DEF LockInv, row, Free, Inserted, InsertFails
<1>1. TypeOK'
  <2>1. /\ holder' \in Holders \cup {NoHolder} /\ left' \in Ticks
        /\ holder' = NoHolder => left' = -1
    BY DEF TypeOK, Ticks
  <2>2. /\ asked' \in [Holders -> Ticks] /\ lease' \in [Holders -> Ticks]
        /\ tries' \in [Holders -> 0..MaxRetries]
    BY DEF TypeOK, Ticks
  <2>3. at' \in [Holders -> Places]
    BY DEF TypeOK, Places
  <2>4. acquired' \in [Holders -> BOOLEAN]
    BY Zenon DEF TypeOK
  <2>. QED BY <2>1, <2>2, <2>3, <2>4 DEF TypeOK
<1>2. LeaseBacked'
  BY DEF TypeOK, Ticks, LeaseBacked
<1>3. AskedAhead'
  BY DEF TypeOK, AskedAhead
<1>4. WaitsToRetry'
  BY DEF TypeOK, WaitsToRetry
<1>. QED BY <1>1, <1>2, <1>3, <1>4

\* Unlock: only the row of its holder goes, and the holder no longer relies on it.
LEMMA UnlockStep ==
    ASSUME LockInv, NEW h \in Holders, Unlock(h) \/ UnlockFails(h)
    PROVE  LockInv'
<1>. USE LockAssumption DEF LockInv, row, NoRow, Releases, Unlock, UnlockFails
<1>1. TypeOK'
  <2>1. /\ holder' \in Holders \cup {NoHolder} /\ left' \in Ticks
        /\ holder' = NoHolder => left' = -1
    BY DEF TypeOK, Ticks
  <2>2. /\ asked' \in [Holders -> Ticks] /\ lease' \in [Holders -> Ticks]
        /\ tries' \in [Holders -> 0..MaxRetries]
    BY DEF TypeOK, Ticks
  <2>3. at' \in [Holders -> Places]
    BY DEF TypeOK, Places
  <2>4. acquired' \in [Holders -> BOOLEAN]
    BY Zenon DEF TypeOK
  <2>. QED BY <2>1, <2>2, <2>3, <2>4 DEF TypeOK
<1>2. LeaseBacked'
  BY DEF TypeOK, Ticks, LeaseBacked
<1>3. AskedAhead'
  BY DEF TypeOK, Ticks, AskedAhead
<1>4. WaitsToRetry'
  BY DEF TypeOK, WaitsToRetry
<1>. QED BY <1>1, <1>2, <1>3, <1>4

\* Extend: only the row of its holder is changed, and never to less than is relied on.
LEMMA ExtendStep ==
    ASSUME LockInv, NEW h \in Holders, Extended(h) \/ ExtendFails(h)
    PROVE  LockInv'
<1>. USE LockAssumption DEF LockInv, row, Extends, Extended, ExtendFails
<1>1. TypeOK'
  <2>1. /\ holder' \in Holders \cup {NoHolder} /\ left' \in Ticks
        /\ holder' = NoHolder => left' = -1
    BY DEF TypeOK, Ticks
  <2>2. /\ asked' \in [Holders -> Ticks] /\ lease' \in [Holders -> Ticks]
        /\ tries' \in [Holders -> 0..MaxRetries]
    BY DEF TypeOK, Ticks
  <2>3. at' \in [Holders -> Places]
    BY DEF TypeOK, Places
  <2>4. acquired' \in [Holders -> BOOLEAN]
    BY Zenon DEF TypeOK
  <2>. QED BY <2>1, <2>2, <2>3, <2>4 DEF TypeOK
<1>2. LeaseBacked'
  BY DEF TypeOK, Ticks, LeaseBacked, AskedAhead
<1>3. AskedAhead'
  BY DEF TypeOK, Ticks, AskedAhead
<1>4. WaitsToRetry'
  BY DEF TypeOK, WaitsToRetry
<1>. QED BY <1>1, <1>2, <1>3, <1>4

\* Time passes for the row and for everyone who relies on it alike.
LEMMA TickStep ==
    ASSUME LockInv, Tick
    PROVE  LockInv'
<1>. USE LockAssumption DEF LockInv, Tick
<1>1. TypeOK'
  BY LaterFacts DEF TypeOK
<1>2. LeaseBacked'
  <2>. SUFFICES ASSUME NEW h \in Holders, acquired'[h], lease'[h] >= 0
                PROVE  holder' = h /\ left' >= lease'[h]
    BY DEF LeaseBacked
  <2>1. lease[h] \in Ticks /\ left \in Ticks
    BY DEF TypeOK
  <2>2. lease'[h] = Later(lease[h]) /\ left' = Later(left) /\ holder' = holder /\ acquired[h]
    OBVIOUS
  <2>3. lease[h] >= 0
    BY <2>1, <2>2, LaterFacts
  <2>4. holder = h /\ lease[h] <= left
    BY <2>1, <2>2, <2>3 DEF LeaseBacked, Ticks
  <2>5. Later(lease[h]) <= Later(left)
    BY <2>1, <2>4, LaterFacts
  <2>6. Later(lease[h]) \in Int /\ Later(left) \in Int
    BY <2>1, LaterFacts DEF Ticks
  <2>. QED BY <2>2, <2>4, <2>5, <2>6
<1>3. AskedAhead'
  <2>. SUFFICES ASSUME NEW h \in Holders, at'[h] = "extend"
                PROVE  asked'[h] >= lease'[h]
    BY DEF AskedAhead
  <2>1. lease[h] \in Ticks /\ asked[h] \in Ticks
    BY DEF TypeOK
  <2>2. asked'[h] = Later(asked[h]) /\ lease'[h] = Later(lease[h]) /\ at[h] = "extend"
    OBVIOUS
  <2>3. lease[h] <= asked[h]
    BY <2>1, <2>2 DEF AskedAhead, Ticks
  <2>4. Later(lease[h]) <= Later(asked[h])
    BY <2>1, <2>3, LaterFacts
  <2>5. Later(lease[h]) \in Int /\ Later(asked[h]) \in Int
    BY <2>1, LaterFacts DEF Ticks
  <2>. QED BY <2>2, <2>4, <2>5
<1>4. WaitsToRetry'
  BY DEF TypeOK, WaitsToRetry
<1>. QED BY <1>1, <1>2, <1>3, <1>4

\* A step that changes nothing.
LEMMA StutterStep ==
    ASSUME LockInv, UNCHANGED vars
    PROVE  LockInv'
  BY DEF LockInv, TypeOK, LeaseBacked, AskedAhead, WaitsToRetry, vars

\* The invariant is inductive: one lemma for each group of actions.
LEMMA LockStep ==
    ASSUME LockInv, [Next]_vars
    PROVE  LockInv'
<1>1. CASE UNCHANGED vars
  BY <1>1, StutterStep
<1>2. CASE Tick
  BY <1>2, TickStep
<1>3. CASE CleanupExpiredLocks
  BY <1>3, CleanupStep
<1>4. ASSUME NEW h \in Holders, Lock(h) \/ Crash(h)
      PROVE  LockInv'
  BY <1>4, QuietStep
<1>5. ASSUME NEW h \in Holders, Locking(h)
      PROVE  LockInv'
  BY <1>5, QuietStep, CleanupStep, InsertStep DEF Locking
<1>6. ASSUME NEW h \in Holders, Using(h)
      PROVE  LockInv'
  BY <1>6, QuietStep, UnlockStep, ExtendStep DEF Using
<1>. QED BY <1>1, <1>2, <1>3, <1>4, <1>5, <1>6 DEF Next

\* What a process relies on is backed by the table, always.
THEOREM LockInvariant == Spec => []LockInv
<1>1. Init => LockInv
  BY LockInit
<1>2. LockInv /\ [Next]_vars => LockInv'
  BY LockStep
<1>. QED BY <1>1, <1>2, PTL DEF Spec

\* No two processes ever have valid leases at one time.
THEOREM LockSafe == Spec => []LockExclusive
<1>1. LockInv => LockExclusive
  BY DEF LockInv, LeaseBacked, LeaseExclusive, LockExclusive
<1>. QED BY <1>1, LockInvariant, PTL

\* The holder of a row that has not expired.
owner == IF left >= 0 THEN holder ELSE NoHolder

\* The row of the lock does what the abstract lease may do: no statement, failure or clean-up
\* takes an unexpired lease away from its holder or gives it to another, and none revives an
\* expired one.
THEOREM LockImplementsLease == Spec => LeaseSpec
<1>1. Init => Lease!Init
  BY LockAssumption DEF Init, Lease!Init
<1>2. LockInv /\ [Next]_vars => [Lease!Next]_Lease!lockVars
  <2>. SUFFICES ASSUME LockInv, [Next]_vars
                PROVE  Lease!Next \/ (owner' = owner /\ left' = left)
    BY Zenon DEF Lease!lockVars, owner
  <2>. USE DEF owner
  <2>0. /\ left \in Ticks /\ holder \in Holders \cup {NoHolder} /\ (left >= 0 => holder \in Holders)
        /\ \A h \in Holders : asked[h] \in Ticks
        /\ TTL \in Nat /\ NoHolder \notin Holders
    BY LockAssumption DEF LockInv, TypeOK, Ticks
  <2>1. CASE UNCHANGED row
    BY <2>1 DEF row
  <2>2. CASE NoRow
    BY <2>0, <2>2 DEF NoRow, Ticks, Lease!Next, Lease!Release
  <2>3. ASSUME NEW h \in Holders, Free, holder' = h, left' = asked[h]
        PROVE  Lease!Next \/ (owner' = owner /\ left' = left)
    <3>1. left = -1 /\ holder = NoHolder /\ asked[h] \in -1..TTL
      BY <2>0, <2>3 DEF Free, Ticks
    <3>. QED BY <2>0, <2>3, <3>1 DEF Lease!Next, Lease!Acquire
  <2>4. ASSUME NEW h \in Holders, Extends(h), holder' = holder, left' = asked[h]
        PROVE  Lease!Next \/ (owner' = owner /\ left' = left)
    <3>1. left > 0 /\ holder = h /\ asked[h] \in -1..TTL
      BY <2>0, <2>4 DEF Extends, Ticks
    <3>0. left \in Int /\ holder # NoHolder /\ owner = holder
      BY <2>0, <3>1 DEF Ticks
    <3>2. CASE asked[h] >= 0
      <4>1. left' \in 0..TTL /\ left' >= 0
        BY <2>0, <2>4, <3>1, <3>2
      <4>2. owner' = owner
        BY <2>4, <3>0, <4>1
      <4>3. Lease!Renew
        BY <3>0, <3>1, <4>1, <4>2 DEF Lease!Renew
      <4>. QED BY <4>3 DEF Lease!Next
    <3>3. CASE asked[h] = -1
      <4>1. left' = -1
        BY <2>4, <3>3
      <4>2. owner' = NoHolder
        BY <4>1
      <4>3. Lease!Release
        BY <3>0, <3>1, <4>1, <4>2 DEF Lease!Release
      <4>. QED BY <4>3 DEF Lease!Next
    <3>. QED BY <3>1, <3>2, <3>3
  <2>5. CASE Tick
    <3>1. holder' = holder /\ left' = IF left < 0 THEN left ELSE left - 1
      BY <2>5 DEF Tick, Later
    <3>. QED BY <2>0, <3>1 DEF Ticks, Lease!Next, Lease!Elapse
  <2>6. ASSUME NEW h \in Holders, Locking(h)
        PROVE  UNCHANGED row \/ NoRow \/ (Free /\ holder' = h /\ left' = asked[h])
    BY <2>6 DEF Locking, Cleanup, Stamp, Inserted, Refused, InsertFails, Retry, Cancelled, row, NoRow
  <2>7. ASSUME NEW h \in Holders, Using(h)
        PROVE  UNCHANGED row \/ NoRow \/ (Extends(h) /\ holder' = holder /\ left' = asked[h])
    BY <2>7 DEF Using, Unlock, UnlockFails, Leave, Extend, Extended, ExtendFails, IsNotHeld, row,
                NoRow
  <2>8. ASSUME NEW h \in Holders, Lock(h) \/ Crash(h)
        PROVE  UNCHANGED row
    BY <2>8 DEF Lock, Crash, row
  <2>9. CASE UNCHANGED vars \/ CleanupExpiredLocks
    BY <2>1, <2>2, <2>9 DEF vars, row, CleanupExpiredLocks
  <2>10. ASSUME NEW h \in Holders, Lock(h) \/ Locking(h) \/ Using(h) \/ Crash(h)
         PROVE  Lease!Next \/ (owner' = owner /\ left' = left)
    BY <2>10, <2>1, <2>2, <2>3, <2>4, <2>6, <2>7, <2>8, Zenon
  <2>. QED BY <2>5, <2>9, <2>10 DEF Next
<1>. QED BY <1>1, <1>2, LockInvariant, PTL DEF Spec, LeaseSpec, Lease!Spec
=============================================================================

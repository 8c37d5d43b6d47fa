-------------------------- MODULE DistributedLock --------------------------
(***************************************************************************)
(* The database-backed lock (framework/configstore/dlock.go) on one key,   *)
(* with the statements on the lock table (framework/configstore/rdb.go)    *)
(* and the two ways it is used: run a section of work under the lock.      *)
(*                                                                         *)
(* Times are relative: what matters of an expires_at is how many ticks it  *)
(* is ahead, and -1 stands for every time that has passed.  A process      *)
(* computes the expiry it asks for before the statement that stores it, so *)
(* it ages in between.  The clocks of the processes agree.                 *)
(***************************************************************************)
EXTENDS Integers

CONSTANTS Holders, NoHolder, TTL, MaxRetries,
          StoreFails   \* statements may fail, or take effect and report an error

ASSUME LockAssumption ==
    /\ NoHolder \notin Holders /\ TTL \in Nat /\ MaxRetries \in Nat /\ StoreFails \in BOOLEAN

VARIABLES
    holder, left,   \* the row: holder_id (NoHolder: no row) and ticks to expires_at
    at,             \* at[h]: where the process is
    acquired,       \* acquired[h]: the field of its DistributedLock
    asked,          \* asked[h]: ticks to the expiry it computed for its next statement
    tries,          \* tries[h]: the loop counter of Lock
    lease           \* lease[h]: history, ticks for which h may rely on the lock

vars == <<holder, left, at, acquired, asked, tries, lease>>
row == <<holder, left>>

Ticks == -1..TTL

Places ==
    {"idle", "clean", "stamp", "insert", "wait", "section", "extend", "failed", "gaveup", "dead"}

\* The shape of the state; a key without a row has no expiry.
TypeOK ==
    /\ holder \in Holders \cup {NoHolder} /\ left \in Ticks
    /\ holder = NoHolder => left = -1
    /\ at \in [Holders -> Places]
    /\ acquired \in [Holders -> BOOLEAN]
    /\ asked \in [Holders -> Ticks] /\ lease \in [Holders -> Ticks]
    /\ tries \in [Holders -> 0..MaxRetries]

Init ==
    /\ holder = NoHolder /\ left = -1
    /\ at = [h \in Holders |-> "idle"] /\ acquired = [h \in Holders |-> FALSE]
    /\ asked = [h \in Holders |-> -1] /\ tries = [h \in Holders |-> 0]
    /\ lease = [h \in Holders |-> -1]

NoRow == holder' = NoHolder /\ left' = -1
-----------------------------------------------------------------------------
(* Lock and LockWithRetry: TryLock up to MaxRetries + 1 times              *)

Lock(h) ==
    /\ at[h] \in {"idle", "failed", "gaveup"} /\ ~acquired[h]
    /\ at' = [at EXCEPT ![h] = "clean"] /\ tries' = [tries EXCEPT ![h] = 0]
    /\ UNCHANGED <<row, acquired, asked, lease>>

\* expires_at < now.
Expired == holder # NoHolder /\ left < 0

\* cleanupExpiredLock; an error of it is ignored.
Cleanup(h) ==
    /\ at[h] = "clean"
    /\ at' = [at EXCEPT ![h] = "stamp"]
    /\ IF Expired THEN NoRow \/ (StoreFails /\ UNCHANGED row) ELSE UNCHANGED row
    /\ UNCHANGED <<acquired, asked, tries, lease>>

Stamp(h) ==
    /\ at[h] = "stamp"
    /\ at' = [at EXCEPT ![h] = "insert"] /\ asked' = [asked EXCEPT ![h] = TTL]
    /\ UNCHANGED <<row, acquired, tries, lease>>

\* INSERT ... ON CONFLICT DO NOTHING inserts.
Free == holder = NoHolder

\* TryAcquireLock, and what Lock does with the answer.
Inserted(h) ==
    /\ at[h] = "insert" /\ Free
    /\ holder' = h /\ left' = asked[h]
    /\ acquired' = [acquired EXCEPT ![h] = TRUE] /\ lease' = [lease EXCEPT ![h] = asked[h]]
    /\ at' = [at EXCEPT ![h] = "section"]
    /\ UNCHANGED <<asked, tries>>

Refused(h) ==
    /\ at[h] = "insert" /\ ~Free
    /\ at' = [at EXCEPT ![h] = IF tries[h] < MaxRetries THEN "wait" ELSE "gaveup"]
    /\ UNCHANGED <<row, acquired, asked, tries, lease>>

\* TryLock returns an error, and so does Lock, whether or not the row is there.
InsertFails(h) ==
    /\ StoreFails /\ at[h] = "insert"
    /\ UNCHANGED row \/ (Free /\ holder' = h /\ left' = asked[h])
    /\ at' = [at EXCEPT ![h] = "failed"]
    /\ UNCHANGED <<acquired, asked, tries, lease>>

\* Mutant: the loop does not count.
RetryUncounted(h) ==
    /\ at[h] = "wait"
    /\ at' = [at EXCEPT ![h] = "clean"]
    /\ UNCHANGED <<row, acquired, asked, tries, lease>>

Retry(h) ==
    /\ at[h] = "wait"
    /\ at' = [at EXCEPT ![h] = "clean"] /\ tries' = [tries EXCEPT ![h] = @ + 1]
    /\ UNCHANGED <<row, acquired, asked, lease>>

\* The context ends before an attempt or while waiting.
Cancelled(h) ==
    /\ at[h] \in {"wait", "clean"}
    /\ at' = [at EXCEPT ![h] = "failed"]
    /\ UNCHANGED <<row, acquired, asked, tries, lease>>
-----------------------------------------------------------------------------
(* Unlock, Extend, IsHeld                                                  *)

\* Mutant: the row is deleted by its key.
ReleaseAny(h) == holder # NoHolder

\* ReleaseLock deletes the row of its holder.
Releases(h) == holder = h

\* Once it calls Unlock a process relies on the lock no more.
Unlock(h) ==
    /\ at[h] = "section" /\ acquired[h]
    /\ IF Releases(h) THEN NoRow ELSE UNCHANGED row
    /\ acquired' = [acquired EXCEPT ![h] = FALSE] /\ lease' = [lease EXCEPT ![h] = -1]
    /\ at' = [at EXCEPT ![h] = "idle"]
    /\ UNCHANGED <<asked, tries>>

\* An error leaves acquired as it is, whether or not the row is gone.
UnlockFails(h) ==
    /\ StoreFails /\ at[h] = "section" /\ acquired[h]
    /\ IF Releases(h) THEN NoRow \/ UNCHANGED row ELSE UNCHANGED row
    /\ lease' = [lease EXCEPT ![h] = -1]
    /\ at' = [at EXCEPT ![h] = "idle"]
    /\ UNCHANGED <<acquired, asked, tries>>

\* Unlock of a lock that Extend or IsHeld found lost: ErrLockNotHeld.
Leave(h) ==
    /\ at[h] = "section" /\ ~acquired[h]
    /\ at' = [at EXCEPT ![h] = "idle"]
    /\ UNCHANGED <<row, acquired, asked, tries, lease>>

Extend(h) ==
    /\ at[h] = "section" /\ acquired[h]
    /\ at' = [at EXCEPT ![h] = "extend"] /\ asked' = [asked EXCEPT ![h] = TTL]
    /\ UNCHANGED <<row, acquired, tries, lease>>

\* Mutant: a lease that ran out is extended.
ExtendsLate(h) == holder = h

\* UpdateLockExpiry: its own row, and expires_at > now.
Extends(h) == holder = h /\ left > 0

Extended(h) ==
    /\ at[h] = "extend"
    /\ at' = [at EXCEPT ![h] = "section"]
    /\ IF Extends(h)
       THEN left' = asked[h] /\ lease' = [lease EXCEPT ![h] = asked[h]]
            /\ UNCHANGED <<holder, acquired>>
       ELSE acquired' = [acquired EXCEPT ![h] = FALSE] /\ UNCHANGED <<row, lease>>
    /\ UNCHANGED <<asked, tries>>

ExtendFails(h) ==
    /\ StoreFails /\ at[h] = "extend"
    /\ at' = [at EXCEPT ![h] = "section"]
    /\ UNCHANGED left \/ (Extends(h) /\ left' = asked[h])
    /\ UNCHANGED <<holder, acquired, asked, tries, lease>>

\* An IsHeld that answers no clears acquired, too.
IsNotHeld(h) ==
    /\ at[h] = "section" /\ acquired[h] /\ (holder # h \/ left < 0)
    /\ acquired' = [acquired EXCEPT ![h] = FALSE]
    /\ UNCHANGED <<row, at, asked, tries, lease>>
-----------------------------------------------------------------------------
\* CleanupExpiredLocks of the manager.
CleanupExpiredLocks == Expired /\ NoRow /\ UNCHANGED <<at, acquired, asked, tries, lease>>

Crash(h) ==
    /\ at[h] # "dead"
    /\ at' = [at EXCEPT ![h] = "dead"] /\ acquired' = [acquired EXCEPT ![h] = FALSE]
    /\ UNCHANGED <<row, asked, tries, lease>>

Later(n) == IF n < 0 THEN n ELSE n - 1

Tick ==
    /\ left' = Later(left)
    /\ asked' = [h \in Holders |-> Later(asked[h])]
    /\ lease' = [h \in Holders |-> Later(lease[h])]
    /\ UNCHANGED <<holder, at, acquired, tries>>

Locking(h) ==
    Cleanup(h) \/ Stamp(h) \/ Inserted(h) \/ Refused(h) \/ InsertFails(h) \/ Retry(h) \/ Cancelled(h)

Using(h) ==
    Unlock(h) \/ UnlockFails(h) \/ Leave(h) \/ Extend(h) \/ Extended(h) \/ ExtendFails(h) \/ IsNotHeld(h)

Next ==
    \/ \E h \in Holders : Lock(h) \/ Locking(h) \/ Using(h) \/ Crash(h)
    \/ CleanupExpiredLocks \/ Tick

Spec == Init /\ [][Next]_vars

(* Statements are answered, timers fire, time passes.                      *)
FairSpec == Spec /\ WF_vars(Tick) /\ \A h \in Holders : WF_vars(Locking(h))
-----------------------------------------------------------------------------
(* Properties                                                              *)

LeaseBacked ==
    \A h \in Holders : acquired[h] /\ lease[h] >= 0 => holder = h /\ left >= lease[h]

AskedAhead == \A h \in Holders : at[h] = "extend" => asked[h] >= lease[h]

WaitsToRetry == \A h \in Holders : at[h] = "wait" => tries[h] < MaxRetries

\* What a process may rely on is in the table: as long as the expiry it was granted lies ahead,
\* the row is its own and does not expire earlier, and an extension under way will not
\* shorten it; a process waits only when it has an attempt left.
LockInv == TypeOK /\ LeaseBacked /\ AskedAhead /\ WaitsToRetry

\* No two processes have leases that are valid at one time, whatever crashes, expires, is
\* delayed or fails in between.
LeaseExclusive ==
    \A g, h \in Holders :
        acquired[g] /\ lease[g] >= 0 /\ acquired[h] /\ lease[h] >= 0 => g = h

\* Leases are exclusive, on the ground that the row backs each of them.
LockExclusive == LockInv /\ LeaseExclusive

\* The row under statements, failures and clean-ups behaves like the abstract lease.
Lease == INSTANCE LeaseLock
    WITH owner <- IF left >= 0 THEN holder ELSE NoHolder, remains <- left

LeaseSpec == Lease!Spec

\* A call of Lock returns.
LockReturns ==
    \A h \in Holders : at[h] \in {"clean", "stamp", "insert", "wait"}
                           ~> at[h] \in {"section", "failed", "gaveup", "dead"}

\* The lock of a process that died, or that never learned it had it, does not stay taken.
OrphanExpires ==
    \A h \in Holders : holder = h /\ at[h] \in {"dead", "failed"} ~> ~(holder = h /\ left >= 0)

\* Work that is done under the lock is done by one process at a time.
\* Not what the code does (README, disagreements).
OneInSection == \A g, h \in Holders : at[g] = "section" /\ at[h] = "section" => g = h

\* A Lock that was neither cancelled nor refused by the store returns with the lock.
\* Not what the code does (README, disagreements).
LockBlocks == \A h \in Holders : at[h] # "gaveup"
=============================================================================

---------------------------- MODULE BudgetUsage ----------------------------
(***************************************************************************)
(* How the governance plugin counts the spend of one budget.  The live     *)
(* entry is an immutable record in a sync.Map, replaced by compare-and-    *)
(* swap; requests check it, and their settlements increment it; a worker   *)
(* resets it when its window closes and dumps it to the database; an       *)
(* operator clears it, grants an override or edits it; shutting down dumps *)
(* it a last time; a crash falls back on the row.  A rate-limit counter    *)
(* (Kind = "rate") is kept in the same way with weaker guards on its row.  *)
(*                                                                         *)
(* Windows are numbered; every settlement costs one unit.  A swap loop     *)
(* that computes its entry from what it has just loaded is one step; a     *)
(* loop that decides on the clock first keeps its load and its swap apart. *)
(***************************************************************************)
EXTENDS Integers, FiniteSets

CONSTANTS
    Slots,      \* places for concurrent requests
    Paths,      \* ways a request settles: its reply, its cancellation
    Kind,       \* "budget" or "rate"
    Limit, Extra,   \* the limit and what an override adds to it
    Cycles,     \* windows an override is granted for
    Edits,      \* what operators do: "reset", "grant", "clear", "edit"
    MaxCalls, MaxWindow, MaxEdits, MaxFaults, MaxCrashes, \* bounds
    Stops       \* whether the program is shut down

ASSUME BudgetAssumption ==
    /\ Slots # {} /\ IsFiniteSet(Slots)
    /\ Paths \subseteq {"reply", "cancel"} /\ Paths # {}
    /\ Kind \in {"budget", "rate"}
    /\ Edits \subseteq {"reset", "grant", "clear", "edit"}
    /\ {Limit, Extra, Cycles, MaxCalls, MaxWindow, MaxEdits, MaxFaults,
        MaxCrashes} \subseteq Nat
    /\ Stops \in BOOLEAN

VARIABLES
    clock,      \* the number of the current window
    mem,        \* the live entry: usage, window of the last reset, override
    db,         \* the row
    call,       \* slot -> has a request in flight
    settle,     \* settlement -> its place in UpdateUsage
    held,       \* settlements whose loaded entry is still the live one
    billed,     \* slots whose request is in the idempotency set
    pass,       \* dumper -> its place in the reset-and-dump pass
    marked,     \* dumpers whose budget was reset since they read the generations
    op,         \* the operator's request
    calls, edits, faults, crashes,  \* counts, for the bounds
    landed,     \* units added to the live entry since it was last cleared
    spend,      \* window -> units ever added to it
    charges,    \* slot -> times its request was charged
    granted,    \* the override the last operator to change it was told of
    forgiven    \* whether an operator's reset has completed

vars == <<clock, mem, db, call, settle, held, billed, pass, marked, op, calls,
          edits, faults, crashes, landed, spend, charges, granted, forgiven>>
bookkeeping == <<spend, charges>>

Window == 0..MaxWindow
Settlements == Slots \X Paths
Dumpers == {"worker", "final"}
None == [total |-> 0, anchor |-> 0]
Fresh == [usage |-> 0, lr |-> 0, ov |-> None]

\* TableBudget.RefreshOverrideCyclesRemaining.
Refresh(b) ==
    IF b.ov.total > 0 /\ b.lr - b.ov.anchor >= b.ov.total
    THEN [b EXCEPT !.ov = None] ELSE b

\* EffectiveMaxLimit.
EffectiveMaxLimit(b) == IF b.ov.total > 0 THEN Limit + Extra ELSE Limit

\* budgetResetTarget is not nil.
Due(b) == b.lr < clock

Init ==
    /\ clock = 0 /\ mem = Fresh /\ db = Fresh
    /\ call = [c \in Slots |-> "idle"]
    /\ settle = [s \in Settlements |-> [at |-> "none", snap |-> Fresh, to |-> 0]]
    /\ held = {} /\ billed = {}
    /\ pass = [d \in Dumpers |-> [at |-> "idle", row |-> Fresh, to |-> 0,
                                  boot |-> FALSE]]
    /\ marked = {}
    /\ op = [at |-> "idle", kind |-> "edit", ov |-> None, snap |-> Fresh]
    /\ calls = 0 /\ edits = 0 /\ faults = 0 /\ crashes = 0
    /\ landed = 0 /\ spend = [w \in Window |-> 0]
    /\ charges = [c \in Slots |-> 0]
    /\ granted = None /\ forgiven = FALSE

\* The plugin serves: initialised, and not being shut down.
Serving == pass["final"].at = "idle" /\ ~pass["worker"].boot

\* The worker's context is cancelled, so its transactions fail.
Cancelled == pass["final"].at = "stopping"

Fault == faults < MaxFaults /\ faults' = faults + 1

\* A swap, or a plain store, publishes an entry and fails every pending swap.
Publish(b) == mem' = b /\ held' = {}

\* markBudgetResetLocked.
Mark == marked' = Dumpers
-----------------------------------------------------------------------------
(* The shared reset path. *)

ResetToZero(w) == Refresh([mem EXCEPT !.usage = 0, !.lr = w])

\* ResetBudgetAt: swapped only over an older boundary.
ResetBudgetAt(w) ==
    /\ mem.lr < w
    /\ Publish(ResetToZero(w))
    /\ landed' = 0
-----------------------------------------------------------------------------
(* Requests and their settlement. *)

\* Mutant: a spent budget still admits.
AllowedAtLimit == Due(mem) \/ mem.usage <= EffectiveMaxLimit(mem)

\* CheckBudget: a due entry is not held against the request.
Allowed == Due(mem) \/ mem.usage < EffectiveMaxLimit(mem)

Admit(c) ==
    /\ Serving
    /\ call[c] = "idle" /\ calls < MaxCalls
    /\ Allowed
    /\ call' = [call EXCEPT ![c] = "sent"] /\ calls' = calls + 1
    /\ settle' = [s \in Settlements |->
                    IF s[1] = c THEN [settle[s] EXCEPT !.at = "claim"] ELSE settle[s]]
    /\ charges' = [charges EXCEPT ![c] = 0]
    /\ UNCHANGED <<clock, mem, db, held, billed, pass, marked, op, edits, faults,
                   crashes, landed, spend, granted, forgiven>>

\* Mutant: a settlement that was claimed is claimed again.
ClaimAgain(s) ==
    /\ settle[s].at = "claim"
    /\ settle' = [settle EXCEPT ![s].at = "load"]
    /\ billed' = billed \union {s[1]}
    /\ UNCHANGED <<clock, mem, db, call, held, pass, marked, op, calls, edits,
                   faults, crashes, landed, spend, charges, granted, forgiven>>

\* UpdateUsage and tryClaimBilling.
Claim(s) ==
    /\ settle[s].at = "claim"
    /\ settle' = [settle EXCEPT ![s].at = IF s[1] \in billed THEN "none" ELSE "load"]
    /\ billed' = billed \union {s[1]}
    /\ UNCHANGED <<clock, mem, db, call, held, pass, marked, op, calls, edits,
                   faults, crashes, landed, spend, charges, granted, forgiven>>

\* BumpBudgetUsage, from the load to the decision on the clock.
BumpLoad(s) ==
    /\ settle[s].at = "load"
    /\ settle' = [settle EXCEPT ![s] =
                    [at |-> IF Due(mem) THEN "reset" ELSE "swap",
                     snap |-> IF Due(mem) THEN Fresh ELSE mem,
                     to |-> IF Due(mem) THEN clock ELSE 0]]
    /\ held' = IF Due(mem) THEN held ELSE held \union {s}
    /\ UNCHANGED <<clock, mem, db, call, billed, pass, marked, op, calls, edits,
                   faults, crashes, landed, bookkeeping, granted, forgiven>>

BumpReset(s) ==
    /\ settle[s].at = "reset"
    /\ \/ ResetBudgetAt(settle[s].to)
          /\ settle' = [settle EXCEPT ![s].at = "mark", ![s].to = 0]
       \/ /\ mem.lr >= settle[s].to
          /\ settle' = [settle EXCEPT ![s].at = "load", ![s].to = 0]
          /\ UNCHANGED <<mem, held, landed>>
    /\ UNCHANGED <<clock, db, call, billed, pass, marked, op, calls, edits,
                   faults, crashes, bookkeeping, granted, forgiven>>

BumpMark(s) ==
    /\ settle[s].at = "mark"
    /\ Mark
    /\ settle' = [settle EXCEPT ![s].at = "load"]
    /\ UNCHANGED <<clock, mem, db, call, held, billed, pass, op, calls, edits,
                   faults, crashes, landed, bookkeeping, granted, forgiven>>

\* The swap succeeds when nothing was published since the load.
Swappable(s) == s \in held

Added(s) == [settle[s].snap EXCEPT !.usage = @ + 1]

Bump(s) ==
    /\ settle[s].at = "swap"
    /\ \/ /\ Swappable(s)
          /\ Publish(Added(s))
          /\ landed' = landed + 1
          /\ spend' = [spend EXCEPT ![settle[s].snap.lr] = @ + 1]
          /\ charges' = [charges EXCEPT ![s[1]] = @ + 1]
          /\ settle' = [settle EXCEPT ![s].at = "none", ![s].snap = Fresh]
       \/ /\ ~Swappable(s)
          /\ settle' = [settle EXCEPT ![s].at = "load", ![s].snap = Fresh]
          /\ UNCHANGED <<mem, held, landed, bookkeeping>>
    /\ UNCHANGED <<clock, db, call, billed, pass, marked, op, calls, edits,
                   faults, crashes, granted, forgiven>>

\* A request is over once every path has settled; its key outlives it and is
\* swept (sweepBilled) before the identifier could come back.
Finish(c) ==
    /\ call[c] = "sent" /\ \A p \in Paths : settle[<<c, p>>].at = "none"
    /\ call' = [call EXCEPT ![c] = "idle"] /\ billed' = billed \ {c}
    /\ UNCHANGED <<clock, mem, db, settle, held, pass, marked, op, calls, edits,
                   faults, crashes, landed, bookkeeping, granted, forgiven>>
-----------------------------------------------------------------------------
(* The reset worker (resetExpiredCounters, PerformStartupResets) and the    *)
(* dump it shares with Cleanup.                                             *)

Go(d, at) == pass' = [pass EXCEPT ![d].at = at]

\* The end of a pass: the worker waits for its ticker, Cleanup stops it.
Ended(d) == IF d = "worker" THEN "idle" ELSE "stop"

WorkerTick ==
    /\ pass["worker"].at = "idle" /\ ~Cancelled
    /\ pass' = [pass EXCEPT !["worker"].at = IF Due(mem) THEN "reset" ELSE "gens",
                            !["worker"].to = clock]
    /\ UNCHANGED <<clock, mem, db, call, settle, held, billed, marked, op, calls,
                   edits, faults, crashes, landed, bookkeeping, granted, forgiven>>

WorkerReset ==
    /\ pass["worker"].at = "reset"
    /\ \/ ResetBudgetAt(pass["worker"].to)
          /\ pass' = [pass EXCEPT !["worker"].at = "mark", !["worker"].row = mem']
       \/ /\ mem.lr >= pass["worker"].to
          /\ Go("worker", "gens")
          /\ UNCHANGED <<mem, held, landed>>
    /\ UNCHANGED <<clock, db, call, settle, billed, marked, op, calls, edits,
                   faults, crashes, bookkeeping, granted, forgiven>>

WorkerMark ==
    /\ pass["worker"].at = "mark"
    /\ Mark
    /\ Go("worker", "persist")
    /\ UNCHANGED <<clock, mem, db, call, settle, held, billed, op, calls, edits,
                   faults, crashes, landed, bookkeeping, granted, forgiven>>

\* Mutant: the usage is written without the guard.
WrittenUsage(row, guard) ==
    [usage |-> row.usage, lr |-> IF guard THEN row.lr ELSE db.lr,
     ov |-> IF db.lr < row.lr THEN row.ov ELSE db.ov]

\* writeBudgetBatch: the override under the strict guard, then the usage.
Written(row, guard) ==
    [usage |-> IF guard THEN row.usage ELSE db.usage,
     lr |-> IF guard THEN row.lr ELSE db.lr,
     ov |-> IF db.lr < row.lr THEN row.ov ELSE db.ov]

\* ResetExpiredBudgets, ResetExpiredRateLimits.
ResetGuard(row) == db.lr < row.lr

\* Mutant: a row of the same window is not written.
DumpGuardStrict(row) == db.lr < row.lr

\* Mutant: the boundaries are not compared.
DumpGuardNone(row) == TRUE

\* writeBudgetRows compares the boundaries; dumpRateLimitBatch does not.
DumpGuard(row) == Kind = "rate" \/ db.lr <= row.lr

\* A failed transaction is logged and the pass goes on.
Persist ==
    /\ pass["worker"].at = "persist" /\ ~Cancelled
    /\ \/ db' = Written(pass["worker"].row, ResetGuard(pass["worker"].row))
          /\ UNCHANGED faults
       \/ Fault /\ UNCHANGED db
    /\ pass' = [pass EXCEPT !["worker"] =
                    [at |-> IF pass["worker"].boot THEN "idle" ELSE "gens",
                     row |-> Fresh, to |-> 0, boot |-> FALSE]]
    /\ UNCHANGED <<clock, mem, call, settle, held, billed, marked, op, calls,
                   edits, crashes, landed, bookkeeping, granted, forgiven>>

\* snapshotBudgetRows reads the generations, then the entries.
ReadGens(d) ==
    /\ pass[d].at = "gens"
    /\ marked' = marked \ {d}
    /\ pass' = [pass EXCEPT ![d].at = "rows", ![d].to = 0]
    /\ UNCHANGED <<clock, mem, db, call, settle, held, billed, op, calls, edits,
                   faults, crashes, landed, bookkeeping, granted, forgiven>>

ReadRows(d) ==
    /\ pass[d].at = "rows"
    /\ pass' = [pass EXCEPT ![d].at = "keep", ![d].row = mem]
    /\ UNCHANGED <<clock, mem, db, call, settle, held, billed, marked, op, calls,
                   edits, faults, crashes, landed, bookkeeping, granted, forgiven>>

\* keepUnresetRows; DumpRateLimits has no such check.
Keep(d) ==
    /\ pass[d].at = "keep"
    /\ IF Kind = "budget" /\ d \in marked
       THEN pass' = [pass EXCEPT ![d].at = Ended(d), ![d].row = Fresh]
       ELSE Go(d, "write")
    /\ UNCHANGED <<clock, mem, db, call, settle, held, billed, marked, op, calls,
                   edits, faults, crashes, landed, bookkeeping, granted, forgiven>>

\* The transaction, which a deadlock or an error may refuse.
Write(d) ==
    /\ pass[d].at = "write" /\ ~Cancelled
    /\ \/ db' = Written(pass[d].row, DumpGuard(pass[d].row)) /\ UNCHANGED faults
       \/ Fault /\ UNCHANGED db
    /\ pass' = [pass EXCEPT ![d].at = Ended(d), ![d].row = Fresh]
    /\ UNCHANGED <<clock, mem, call, settle, held, billed, marked, op, calls,
                   edits, crashes, landed, bookkeeping, granted, forgiven>>

\* Cleanup: the plugin's workers are done; dump, then stop the worker.
Cleanup ==
    /\ Stops /\ Serving
    /\ \A c \in Slots : call[c] = "idle"
    /\ op.at = "idle"
    /\ Go("final", "gens")
    /\ UNCHANGED <<clock, mem, db, call, settle, held, billed, marked, op, calls,
                   edits, faults, crashes, landed, bookkeeping, granted, forgiven>>

\* The worker's context is cancelled and its done channel closed.
Stop ==
    /\ pass["final"].at = "stop"
    /\ pass' = [pass EXCEPT !["final"].at = "stopping"]
    /\ UNCHANGED <<clock, mem, db, call, settle, held, billed, marked, op, calls,
                   edits, faults, crashes, landed, bookkeeping, granted, forgiven>>

\* The worker returns when it is back at its select; Cleanup's Wait ends.
Stopped ==
    /\ pass["final"].at = "stopping"
    /\ pass["worker"].at \in {"idle", "persist", "gens", "rows", "keep", "write"}
    /\ pass' = [pass EXCEPT !["worker"].at = "stopped", !["worker"].row = Fresh,
                            !["worker"].to = 0]
    /\ UNCHANGED <<clock, mem, db, call, settle, held, billed, marked, op, calls,
                   edits, faults, crashes, landed, bookkeeping, granted, forgiven>>
-----------------------------------------------------------------------------
(* Operators: the update handlers and mutateVirtualKeyBudgetOverride commit  *)
(* their transaction, reload the owner, and clear the usage last.            *)

GrantNow == [total |-> Cycles, anchor |-> clock]

\* What the transaction writes (UpdateBudgetUsage, UpdateBudgetOverride).
Committed(k) ==
    CASE k = "reset" -> [db EXCEPT !.usage = 0]
      [] k = "grant" -> [db EXCEPT !.ov = GrantNow]
      [] k = "clear" -> [db EXCEPT !.ov = None]
      [] k = "edit"  -> db

OpCommit(k) ==
    /\ Serving /\ op.at = "idle" /\ edits < MaxEdits
    /\ db' = Committed(k) /\ edits' = edits + 1
    /\ op' = [op EXCEPT !.at = "fetch", !.kind = k]
    /\ granted' = IF k \in {"grant", "clear"} THEN db'.ov ELSE granted
    /\ forgiven' = (forgiven /\ k # "reset")
    /\ UNCHANGED <<clock, mem, call, settle, held, billed, pass, marked, calls,
                   faults, crashes, landed, bookkeeping>>

\* The reload reads the row,
OpFetch ==
    /\ op.at = "fetch"
    /\ op' = [op EXCEPT !.at = "load", !.ov = db.ov]
    /\ UNCHANGED <<clock, mem, db, call, settle, held, billed, pass, marked, calls,
                   edits, faults, crashes, landed, bookkeeping, granted, forgiven>>

\* then the live entry, whose usage and boundary it keeps,
OpLoad ==
    /\ op.at = "load"
    /\ op' = [op EXCEPT !.at = "store", !.snap = [mem EXCEPT !.ov = op.ov], !.ov = None]
    /\ UNCHANGED <<clock, mem, db, call, settle, held, billed, pass, marked, calls,
                   edits, faults, crashes, landed, bookkeeping, granted, forgiven>>

\* and stores the two together (storeBudget: not a swap).
OpStore ==
    /\ op.at = "store"
    /\ Publish(Refresh(op.snap))
    /\ op' = [op EXCEPT !.at = IF op.kind = "reset" THEN "rebase" ELSE "idle",
                        !.snap = Fresh]
    /\ UNCHANGED <<clock, db, call, settle, billed, pass, marked, calls, edits,
                   faults, crashes, landed, bookkeeping, granted, forgiven>>

\* ResetBudgetUsageInMemory: RebaseBudget, then the generation.
OpRebase ==
    /\ op.at = "rebase"
    /\ Publish(Refresh([mem EXCEPT !.usage = 0]))
    /\ landed' = 0
    /\ op' = [op EXCEPT !.at = "mark"]
    /\ UNCHANGED <<clock, db, call, settle, billed, pass, marked, calls, edits,
                   faults, crashes, bookkeeping, granted, forgiven>>

OpMark ==
    /\ op.at = "mark"
    /\ Mark /\ forgiven' = TRUE
    /\ op' = [op EXCEPT !.at = "idle"]
    /\ UNCHANGED <<clock, mem, db, call, settle, held, billed, pass, calls, edits,
                   faults, crashes, landed, bookkeeping, granted>>
-----------------------------------------------------------------------------
(* The clock, and a crash with the restart from the row (loadFromDatabase,   *)
(* PerformStartupResets).                                                    *)

Tick ==
    /\ clock < MaxWindow /\ clock' = clock + 1
    /\ UNCHANGED <<mem, db, call, settle, held, billed, pass, marked, op, calls,
                   edits, faults, crashes, landed, bookkeeping, granted, forgiven>>

Crash ==
    /\ crashes < MaxCrashes /\ crashes' = crashes + 1
    /\ Publish(Refresh(db))
    /\ call' = [c \in Slots |-> "idle"] /\ billed' = {}
    /\ settle' = [s \in Settlements |-> [at |-> "none", snap |-> Fresh, to |-> 0]]
    /\ pass' = [d \in Dumpers |->
                  [at |-> IF d = "worker" /\ db.lr < clock THEN "reset" ELSE "idle",
                   row |-> Fresh,
                   to |-> IF d = "worker" /\ db.lr < clock THEN clock ELSE 0,
                   boot |-> d = "worker" /\ db.lr < clock]]
    /\ marked' = {}
    /\ op' = [at |-> "idle", kind |-> "edit", ov |-> None, snap |-> Fresh]
    /\ landed' = db.usage /\ forgiven' = FALSE
    /\ UNCHANGED <<clock, db, calls, edits, faults, bookkeeping, granted>>
-----------------------------------------------------------------------------
SettleStep(s) == Claim(s) \/ BumpLoad(s) \/ BumpReset(s) \/ BumpMark(s) \/ Bump(s)
WorkerStep == WorkerTick \/ WorkerReset \/ WorkerMark \/ Persist
DumpStep(d) == ReadGens(d) \/ ReadRows(d) \/ Keep(d) \/ Write(d)
OpStep == OpFetch \/ OpLoad \/ OpStore \/ OpRebase \/ OpMark

Next ==
    \/ \E c \in Slots : Admit(c) \/ Finish(c)
    \/ \E s \in Settlements : SettleStep(s)
    \/ WorkerStep
    \/ \E d \in Dumpers : DumpStep(d)
    \/ Cleanup \/ Stop \/ Stopped
    \/ \E k \in Edits : OpCommit(k)
    \/ OpStep
    \/ Tick
    \/ Crash

Spec == Init /\ [][Next]_vars

\* Goroutines run; the ticker fires again and again.  Nobody has to send
\* requests, edit, advance the clock or crash.
FairSpec ==
    /\ Spec
    /\ \A s \in Settlements : WF_vars(SettleStep(s))
    /\ WF_vars(WorkerStep) /\ WF_vars(DumpStep("worker"))
    /\ WF_vars(OpStep)
-----------------------------------------------------------------------------
Override == [total : {0, Cycles}, anchor : Window]
Entry == [usage : Nat, lr : Window, ov : Override]

\* The variables have the expected shapes: boundaries within the bounds, a
\* place for every goroutine.
TypeOK ==
    /\ clock \in Window /\ mem \in Entry /\ db \in Entry
    /\ call \in [Slots -> {"idle", "sent"}]
    /\ \A s \in Settlements :
          /\ settle[s].at \in {"none", "claim", "load", "reset", "mark", "swap"}
          /\ settle[s].snap \in Entry /\ settle[s].to \in Window
    /\ held \subseteq Settlements /\ billed \subseteq Slots
    /\ \A d \in Dumpers : pass[d].row \in Entry /\ pass[d].to \in Window
    /\ marked \subseteq Dumpers

\* No increment is lost: the live entry counts exactly the settlements added
\* to it since it was last cleared, however settlements, resets and the
\* worker interleave (BumpBudgetUsage).
UsageExact == mem.usage = landed

\* A physical call is charged at most once, though its reply and its
\* cancellation both settle it (tryClaimBilling).
BilledOnce == \A c \in Slots : charges[c] <= 1

\* Neither the live entry nor the row ever shows under one window the spend of
\* another: a dump that read the entry before the boundary does not overwrite
\* the row after it (writeBudgetBatch), and a crash cannot mix them.
WindowPure == mem.usage <= spend[mem.lr] /\ db.usage <= spend[db.lr]

\* The boundary of the row never moves back, and that of the live entry only
\* when a crash falls back on the row: a window once closed is not reopened.
BoundaryForward ==
    [][/\ db'.lr >= db.lr
       /\ mem'.lr >= mem.lr \/ crashes' # crashes]_vars

\* Requests are checked before they run and charged after, so the limit may be
\* overrun, but by less than one request per concurrent place (CheckBudget).
OvershootBounded == mem.usage <= Limit + Cardinality(Slots) - 1

\* An override is in force only in the windows it was granted for, whatever
\* reloads, resets and restarts happen (RefreshOverrideCyclesRemaining).
NoOverstay == mem.ov.total > 0 => mem.lr < mem.ov.anchor + mem.ov.total

\* Every settlement is counted once and charged once.
UsageSound == TypeOK /\ UsageExact /\ BilledOnce

\* When requests, operators and faults have ceased, the row comes to hold the
\* usage and the window that memory holds: what was dropped or refused is
\* written by a later pass.
Saved == <>[](db.usage = mem.usage /\ db.lr = mem.lr)

\* Once an operator's reset has completed, the row of its window does not show
\* usage recorded before the reset (keepUnresetRows).
\* Not what the code does (README, disagreements).
ResetHolds == forgiven /\ db.lr = mem.lr => db.usage <= landed

\* When the plugin has been shut down, the row holds what memory held
\* (Cleanup's final flush).
\* Not what the code does (README, disagreements).
FinalFlush == pass["worker"].at = "stopped" => db.usage = mem.usage

\* An override whose grant was reported to the operator stays in the row until
\* its windows have passed (UpdateBudgetOverride).
\* Not what the code does (README, disagreements).
GrantKept ==
    op.at = "idle" /\ granted.total > 0 /\ db.lr < granted.anchor + granted.total
        => db.ov = granted
=============================================================================

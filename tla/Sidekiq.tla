------------------------------- MODULE Sidekiq -------------------------------
(***************************************************************************)
(* The background job runner (framework/sidekiq/sidekiq.go) and the        *)
(* conditional updates of the job table it relies on                       *)
(* (framework/configstore/sidekiq.go): claims, heartbeats, checkpoints,    *)
(* cancellation, and jobs whose runner has died.                           *)
(*                                                                         *)
(* Time is relative: a running row has an age, the ticks since its         *)
(* updated_at, and is stale to a runner once its age exceeds staleAfter.   *)
(* A statement of the store is one step.  Jobs are numbered in the order   *)
(* of their created_at.                                                    *)
(***************************************************************************)
EXTENDS Integers, FiniteSets, FiniteSetsExt

CONSTANTS
    Runners,        \* processes; one that restarts is another member
    NumJobs,
    Partitioned,    \* the jobs that carry the (one) partitioning key
    Mortal,         \* the runners that may crash or shut down
    MaxAttempts,
    StaleAfter,     \* ticks without heartbeat before a job is claimable again
    MaxConcurrent,  \* slots of a runner
    MaxProgress,    \* checkpoints of a job
    Prompt,         \* heartbeats come in time while the runner lives
    Anonymous,      \* every runner has the empty runner id
    Snapshots,      \* a claim's subqueries see the table as it was when it began
    StoreFails,     \* a statement may fail, or take effect and have its reply lost
    MayCancel       \* jobs may be cancelled

JobIds == 1..NumJobs

SidekiqAssumption ==
    /\ NumJobs \in Nat /\ Partitioned \subseteq JobIds /\ Mortal \subseteq Runners
    /\ {MaxAttempts, StaleAfter, MaxConcurrent} \subseteq Nat \ {0} /\ MaxProgress \in Nat
    /\ {Prompt, Anonymous, Snapshots, StoreFails, MayCancel} \subseteq BOOLEAN

VARIABLES
    row,      \* row[j]: the table; by and starts are history: the runner that
              \* claimed last, the times the handler started
    exec,     \* exec[r][j]: the goroutine of runner r for job j
    up,       \* runners that live
    window    \* window[r]: staleAfter of runner r

vars == <<row, exec, up, window>>

Terminal == {"completed", "failed", "cancelled"}
None == "none"
NoExec == [at |-> None, live |-> TRUE, beats |-> FALSE, reg |-> FALSE, cur |-> 0]
RunnerID(r) == IF Anonymous THEN "" ELSE r

\* The shape of the state; a goroutine is the one registered in inflight for its job.
TypeOK ==
    /\ \A j \in JobIds :
         /\ row[j].status \in {None, "pending", "running"} \cup Terminal
         /\ row[j].age \in 0..StaleAfter + 1 /\ row[j].attempts \in 0..MaxAttempts + 1
         /\ row[j].meta \in 0..MaxProgress /\ row[j].by \in Runners \cup {None}
    /\ \A r \in Runners, j \in JobIds :
         /\ exec[r][j].at \in {None, "parked", "claim", "commit", "claimed", "exhausted",
                               "registered", "run", "ok", "err"}
         /\ exec[r][j].cur \in 0..MaxProgress
    /\ up \subseteq Runners
    /\ \A r \in Runners : window[r] \in {0, StaleAfter}

Init ==
    /\ row = [j \in JobIds |-> [status |-> None, runner |-> None, by |-> None, age |-> 0,
                              attempts |-> 0, meta |-> 0, starts |-> 0]]
    /\ exec = [r \in Runners |-> [j \in JobIds |-> NoExec]]
    /\ up = Runners
    /\ window = [r \in Runners |-> IF Anonymous THEN 0 ELSE StaleAfter]

Set(r, j, e) == exec' = [exec EXCEPT ![r][j] = e]
Slots(r) == Cardinality({j \in JobIds : exec[r][j].at \notin {None, "parked"}})

\* The fence of every later statement on a claimed job.
Owned(r, j) == row[j].status = "running" /\ row[j].runner = RunnerID(r)
-----------------------------------------------------------------------------
(* Enqueue and the dispatcher                                              *)

\* CreateSidekiqJob, then spawn: a goroutine waits for a slot, unless a dispatcher of this
\* process gets to the row first.
Enqueue(r, j) ==
    /\ r \in up /\ row[j].status = None
    /\ \A i \in 1..j - 1 : row[i].status # None
    /\ row' = [row EXCEPT ![j].status = "pending"]
    /\ \E at \in {"parked", None} : Set(r, j, [NoExec EXCEPT !.at = at])
    /\ UNCHANGED <<up, window>>

TakeSlot(r, j) ==
    /\ exec[r][j].at = "parked" /\ Slots(r) < MaxConcurrent
    /\ Set(r, j, [exec[r][j] EXCEPT !.at = "claim"])
    /\ UNCHANGED <<row, up, window>>

StartDispatcher(r) ==
    /\ r \in up /\ window[r] # StaleAfter
    /\ window' = [window EXCEPT ![r] = StaleAfter]
    /\ UNCHANGED <<row, exec, up>>

Stale(r, j) == row[j].status = "running" /\ row[j].age > window[r]
Claimable(r, j) == row[j].status = "pending" \/ Stale(r, j)

\* The list of a tick may be old when the goroutine claims; the claim looks again.
Dispatch(r, j) ==
    /\ r \in up /\ window[r] = StaleAfter
    /\ Claimable(r, j) /\ exec[r][j].at = None /\ Slots(r) < MaxConcurrent
    /\ Set(r, j, [NoExec EXCEPT !.at = "claim"])
    /\ UNCHANGED <<row, up, window>>
-----------------------------------------------------------------------------
(* Claims                                                                  *)

\* Mutant: a job stands in its own way.
G2Self(j) == {i \in Partitioned : row[i].status = "pending" /\ i <= j}

\* The other jobs of j's key that stand in its way: running under a live owner (G1),
\* older and still pending (G2).
G1(r, j) == {i \in Partitioned \ {j} : row[i].status = "running" /\ row[i].age <= window[r]}
G2(j) == {i \in Partitioned \ {j} : row[i].status = "pending" /\ i < j}

\* Mutant: older pending jobs of the key do not block.
BlockersRunning(r, j) == IF j \in Partitioned THEN G1(r, j) ELSE {}

Blockers(r, j) == IF j \in Partitioned THEN G1(r, j) \cup G2(j) ELSE {}

\* Attempts are only compared with MaxAttempts: counting stops above it.
Bump(n) == IF n > MaxAttempts THEN n ELSE n + 1

ClaimRow(r, j) ==
    row' = [row EXCEPT ![j] = [@ EXCEPT !.status = "running", !.runner = RunnerID(r), !.by = r,
                                        !.age = 0, !.attempts = Bump(row[j].attempts)]]

ClaimSidekiqJob(r, j) ==
    /\ exec[r][j].at = "claim" /\ ~Snapshots
    /\ IF Claimable(r, j) /\ Blockers(r, j) = {}
       THEN ClaimRow(r, j) /\ Set(r, j, [exec[r][j] EXCEPT !.at = "claimed"])
       ELSE Set(r, j, NoExec) /\ UNCHANGED row
    /\ UNCHANGED <<up, window>>

\* Under READ COMMITTED the subqueries are evaluated on the statement's snapshot; only the
\* condition on the row itself is evaluated again when the row is locked.
ClaimBegin(r, j) ==
    /\ exec[r][j].at = "claim" /\ Snapshots
    /\ Set(r, j, IF Claimable(r, j) /\ Blockers(r, j) = {}
                 THEN [exec[r][j] EXCEPT !.at = "commit"] ELSE NoExec)
    /\ UNCHANGED <<row, up, window>>

ClaimCommit(r, j) ==
    /\ exec[r][j].at = "commit"
    /\ IF Claimable(r, j) THEN ClaimRow(r, j) /\ Set(r, j, [exec[r][j] EXCEPT !.at = "claimed"])
       ELSE Set(r, j, NoExec) /\ UNCHANGED row
    /\ UNCHANGED <<up, window>>

\* The claim took effect and the runner does not know: it gives up.
ClaimLost(r, j) ==
    /\ StoreFails /\ exec[r][j].at = "claim" /\ Claimable(r, j) /\ Blockers(r, j) = {}
    /\ ClaimRow(r, j) /\ Set(r, j, NoExec)
    /\ UNCHANGED <<up, window>>

Exhausted(j) == row[j].attempts >= MaxAttempts

\* The row is read again; a job that used up its attempts does not run.
Fetch(r, j) ==
    /\ exec[r][j].at = "claimed"
    /\ Set(r, j, IF Exhausted(j) THEN [exec[r][j] EXCEPT !.at = "exhausted"]
                 ELSE [exec[r][j] EXCEPT !.at = "registered", !.reg = TRUE, !.cur = row[j].meta])
    /\ UNCHANGED <<row, up, window>>

FailExhausted(r, j) ==
    /\ exec[r][j].at = "exhausted"
    /\ row' = IF Owned(r, j) THEN [row EXCEPT ![j].status = "failed"] ELSE row
    /\ Set(r, j, NoExec)
    /\ UNCHANGED <<up, window>>

\* A cancel that came before the registration is found in the row.
CheckCancelled(r, j) ==
    /\ exec[r][j].at = "registered"
    /\ Set(r, j, [exec[r][j] EXCEPT !.at = "run", !.beats = TRUE,
                                    !.live = row[j].status # "cancelled"])
    /\ row' = [row EXCEPT ![j].starts = Bump(@)]
    /\ UNCHANGED <<up, window>>
-----------------------------------------------------------------------------
(* The handler, its checkpoints and its heartbeat                          *)

\* Mutant: the checkpoint is not fenced.
ProgressUnfenced(r, j) ==
    /\ exec[r][j].at = "run" /\ exec[r][j].cur < MaxProgress
    /\ Set(r, j, [exec[r][j] EXCEPT !.cur = @ + 1])
    /\ row' = [row EXCEPT ![j].meta = exec[r][j].cur + 1, ![j].age = 0]
    /\ UNCHANGED <<up, window>>

\* A page of work is done and recorded.
Progress(r, j) ==
    /\ exec[r][j].at = "run" /\ exec[r][j].cur < MaxProgress
    /\ Set(r, j, [exec[r][j] EXCEPT !.cur = @ + 1])
    /\ row' = IF Owned(r, j) THEN [row EXCEPT ![j].meta = exec[r][j].cur + 1, ![j].age = 0]
              ELSE row
    /\ UNCHANGED <<up, window>>

\* The handler returns with or without an error; one whose context died returns its error.
Return(r, j) ==
    /\ exec[r][j].at = "run"
    /\ \E v \in IF exec[r][j].live THEN {"ok", "err"} ELSE {"err"} :
         Set(r, j, [exec[r][j] EXCEPT !.at = v])
    /\ UNCHANGED <<row, up, window>>

\* FinalizeCancelledSidekiqJob: the progress of a cancelled job is kept.
Finalized(r, j) ==
    IF row[j].status = "cancelled" /\ row[j].runner = RunnerID(r)
    THEN [row EXCEPT ![j].meta = exec[r][j].cur] ELSE row

Complete(r, j) ==
    /\ exec[r][j].at = "ok"
    /\ row' = IF Owned(r, j)
              THEN [row EXCEPT ![j].status = "completed", ![j].meta = exec[r][j].cur]
              ELSE Finalized(r, j)
    /\ Set(r, j, NoExec)
    /\ UNCHANGED <<up, window>>

Fail(r, j) ==
    /\ exec[r][j].at = "err"
    /\ row' = IF Owned(r, j)
              THEN [row EXCEPT ![j].status = "failed", ![j].meta = exec[r][j].cur]
              ELSE Finalized(r, j)
    /\ Set(r, j, NoExec)
    /\ UNCHANGED <<up, window>>

\* The handler panics: the failure is recorded without metadata.
Panic(r, j) ==
    /\ exec[r][j].at = "run"
    /\ row' = IF Owned(r, j) THEN [row EXCEPT ![j].status = "failed"] ELSE row
    /\ Set(r, j, NoExec)
    /\ UNCHANGED <<up, window>>

\* The last statement of a job fails: the row stays running without a runner.
FinishLost(r, j) ==
    /\ StoreFails /\ exec[r][j].at \in {"ok", "err", "exhausted", "claimed"}
    /\ Set(r, j, NoExec)
    /\ UNCHANGED <<row, up, window>>

\* A tick of the heartbeat goroutine, which ends with the handler's context.
Heartbeat(r, j) ==
    /\ exec[r][j].beats /\ exec[r][j].live
    /\ IF Owned(r, j) THEN row' = [row EXCEPT ![j].age = 0] /\ UNCHANGED exec
       ELSE Set(r, j, [exec[r][j] EXCEPT !.beats = FALSE, !.live = FALSE]) /\ UNCHANGED row
    /\ UNCHANGED <<up, window>>
-----------------------------------------------------------------------------
(* Cancel, on any node: the row first, then the handler if it runs here    *)

Cancel(r, j) ==
    /\ MayCancel /\ r \in up /\ row[j].status \in {"pending", "running"}
    /\ row' = [row EXCEPT ![j].status = "cancelled"]
    /\ UNCHANGED <<exec, up, window>>

\* A Cancel of a job that is terminal already goes on to the handler, too.
CancelLocal(r, j) ==
    /\ row[j].status \in Terminal /\ MayCancel /\ exec[r][j].reg /\ exec[r][j].live
    /\ Set(r, j, [exec[r][j] EXCEPT !.live = FALSE])
    /\ UNCHANGED <<row, up, window>>

\* The process dies, or shuts down: the base context ends, its goroutines return and none
\* of their statements takes effect any more.
Stop(r) ==
    /\ r \in up \cap Mortal
    /\ up' = up \ {r}
    /\ exec' = [exec EXCEPT ![r] = [j \in JobIds |-> NoExec]]
    /\ UNCHANGED <<row, window>>

Age(n) == IF n > StaleAfter THEN n ELSE n + 1

Tick ==
    /\ Prompt => \A r \in up, j \in JobIds :
                   Owned(r, j) /\ row[j].by = r /\ exec[r][j].at # None => row[j].age < StaleAfter
    /\ row' = [j \in JobIds |-> IF row[j].status = "running" THEN [row[j] EXCEPT !.age = Age(@)]
                              ELSE row[j]]
    /\ UNCHANGED <<exec, up, window>>
-----------------------------------------------------------------------------
Work(r, j) ==
    \/ TakeSlot(r, j) \/ ClaimSidekiqJob(r, j) \/ ClaimBegin(r, j) \/ ClaimCommit(r, j)
    \/ Fetch(r, j) \/ FailExhausted(r, j) \/ CheckCancelled(r, j) \/ Complete(r, j) \/ Fail(r, j)

Next ==
    \/ \E r \in Runners : StartDispatcher(r) \/ Stop(r)
    \/ \E r \in Runners, j \in JobIds :
         \/ Enqueue(r, j) \/ Dispatch(r, j) \/ Work(r, j) \/ Return(r, j)
         \/ Progress(r, j) \/ Heartbeat(r, j) \/ ClaimLost(r, j) \/ FinishLost(r, j) \/ Panic(r, j) \/ Cancel(r, j) \/ CancelLocal(r, j)
    \/ Tick

Spec == Init /\ [][Next]_vars

(* Goroutines are scheduled, dispatchers and heartbeats tick, time passes. *)
(* The slots are a channel, which serves its waiters in order.             *)
(* A handler may take forever as long as nothing asks it to stop.          *)
FairSpec ==
    /\ Spec /\ WF_vars(Tick)
    /\ \A r \in Runners, j \in JobIds :
         /\ WF_vars(Work(r, j)) /\ WF_vars(Heartbeat(r, j))
         /\ SF_vars(TakeSlot(r, j)) /\ SF_vars(Dispatch(r, j))

(* Handlers return, too.                                                   *)
ReturningSpec == FairSpec /\ \A r \in Runners, j \in JobIds : WF_vars(Return(r, j))
-----------------------------------------------------------------------------
(* Properties                                                              *)

Busy(r, j) == exec[r][j].at \in {"claimed", "exhausted", "registered", "run", "ok", "err"}

\* As long as heartbeats come in time, no two runners work on one job: not while claims race,
\* not after a crash, not after a claim whose reply was lost.
OneRunnerPerJob ==
    \A j \in JobIds : \A q, r \in Runners : Busy(q, j) /\ Busy(r, j) => q = r

\* Jobs of one partitioning key run one at a time: no two of them are running under owners
\* that are alive, on whichever nodes they were claimed.
OneJobPerKey ==
    \A i, j \in Partitioned : i # j =>
        ~\E q, r \in Runners : Busy(q, i) /\ Busy(r, j) /\ exec[q][i].live /\ exec[r][j].live
                               /\ row[i].status = "running" /\ row[j].status = "running"

\* Jobs of one partitioning key start in the order they were created: when one has started,
\* no older one is still waiting for its first start.
StartedInOrder ==
    \A i, j \in Partitioned : i < j /\ row[j].attempts > 0 => row[i].status # "pending"

\* A job that is completed, failed or cancelled stays so: a runner that was overtaken by a
\* cancellation or by another claim does not bring it back.
TerminalKept ==
    \A j \in JobIds : row[j].status \in Terminal => row'[j].status = row[j].status

TerminalIsFinal == [][TerminalKept]_vars

\* The checkpoint of a job never goes back: a runner that lost its job while it was busy
\* does not overwrite the progress of the one that resumed it.
CheckpointKept == \A j \in JobIds : row'[j].meta >= row[j].meta

\* A job that keeps losing its runner is not started again and again: crashes, late heartbeats
\* and lost replies together start it less than MaxAttempts times.
StartsBounded == \A j \in JobIds : row[j].starts < MaxAttempts

\* With an empty runner id a job whose process died can be claimed as soon as time passes.
\* Not what the code does (README, disagreements).
OrphanClaimableAtOnce ==
    \A j \in JobIds, r \in up :
        row[j].status = "running" /\ row[j].by \notin up /\ row[j].age > 0 => Claimable(r, j)

\* A runner whose job was claimed by another stops working on it.
FormerOwnerStops ==
    \A r \in Runners, j \in JobIds :
        exec[r][j].at = "run" /\ row[j].by # r ~> exec[r][j].at # "run" \/ ~exec[r][j].live

\* A job that was cancelled is left by the runner that works on it, wherever the cancel came in.
CancelStops ==
    \A r \in Runners, j \in JobIds :
        row[j].status = "cancelled" /\ exec[r][j].at = "run"
            ~> exec[r][j].at # "run" \/ ~exec[r][j].live

\* Every job reaches an end, although runners crash and statements fail.
JobEnds == \A j \in JobIds : row[j].status = "pending" ~> row[j].status \in Terminal
=============================================================================

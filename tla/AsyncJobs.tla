----------------------------- MODULE AsyncJobs -----------------------------
(***************************************************************************)
(* Asynchronous inference jobs (framework/logstore/asyncjob.go): the job   *)
(* row, the goroutine that executes the job, the webhook notice, and the   *)
(* cleaner.  Every update of the row is by its id alone, and one that      *)
(* finds no row is no error.                                               *)
(***************************************************************************)
EXTENDS Naturals, FiniteSets

CONSTANTS
    Jobs,
    Hooked,     \* the jobs submitted with a webhook endpoint
    Faults,     \* what may fail: members of FaultKinds
    Overdue     \* a job may still run when it is asyncJobStaleProcessingHours old

FaultKinds == {"mark", "write", "enqueue", "crash pending", "crash"}

ASSUME AsyncAssumption ==
    Hooked \subseteq Jobs /\ Faults \subseteq FaultKinds /\ Overdue \in BOOLEAN

VARIABLES
    row,      \* row[j]: status of the job, "none" when there is no row
    exec,     \* exec[j]: the goroutine executing job j
    old,      \* jobs older than asyncJobStaleProcessingHours
    lapsed,   \* jobs whose expires_at has passed
    notices,  \* notices[j]: the statuses announced to the dispatcher
    asked     \* submitted jobs

vars == <<row, exec, old, lapsed, notices, asked>>

Done == {"completed", "failed"}
Off == [at |-> "off", status |-> "none"]

\* The shape of the state.
TypeOK ==
    /\ row \in [Jobs -> {"none", "pending", "processing"} \cup Done]
    /\ \A j \in Jobs :
         /\ exec[j].at \in {"off", "mark", "run", "write", "notify"}
         /\ exec[j].status \in {"none"} \cup Done
         /\ exec[j].at \in {"write", "notify"} => exec[j].status \in Done
    /\ lapsed \subseteq asked /\ old \subseteq asked /\ asked \subseteq Jobs
    /\ notices \in [Jobs -> SUBSET Done]

Init ==
    /\ row = [j \in Jobs |-> "none"]
    /\ exec = [j \in Jobs |-> Off]
    /\ old = {} /\ lapsed = {} /\ asked = {}
    /\ notices = [j \in Jobs |-> {}]

----------------------------------------------------------------------------
(* Submission and execution *)

\* SubmitJob: the row, then the goroutine.
SubmitJob(j) ==
    /\ j \notin asked
    /\ asked' = asked \cup {j}
    /\ row' = [row EXCEPT ![j] = "pending"]
    /\ exec' = [exec EXCEPT ![j].at = "mark"]
    /\ UNCHANGED <<old, lapsed, notices>>

UpdateAsyncJob(j, status) == row' = [row EXCEPT ![j] = IF @ = "none" THEN @ ELSE status]

\* The row is marked as processing; a failure is only logged.
MarkProcessing(j) ==
    /\ exec[j].at = "mark"
    /\ UpdateAsyncJob(j, "processing") \/ ("mark" \in Faults /\ UNCHANGED row)
    /\ exec' = [exec EXCEPT ![j].at = "run"]
    /\ UNCHANGED <<old, lapsed, notices, asked>>

\* The operation returns a response or an error, or panics; a result that cannot be
\* marshalled, like a panic, makes the job fail (markFailed).
Operate(j) ==
    /\ exec[j].at = "run"
    /\ \E status \in Done : exec' = [exec EXCEPT ![j] = [at |-> "write", status |-> status]]
    /\ UNCHANGED <<row, old, lapsed, notices, asked>>

\* Mutant: the webhook is announced whether or not the terminal write failed.
WriteStatusAnyway(j) ==
    /\ exec[j].at = "write"
    /\ UpdateAsyncJob(j, exec[j].status) \/ ("write" \in Faults /\ UNCHANGED row)
    /\ exec' = [exec EXCEPT ![j].at = "notify"]
    /\ UNCHANGED <<old, lapsed, notices, asked>>

\* The terminal update; when it fails nobody is notified.
WriteStatus(j) ==
    /\ exec[j].at = "write"
    /\ \/ /\ UpdateAsyncJob(j, exec[j].status)
          /\ exec' = [exec EXCEPT ![j] = IF j \in Hooked THEN [@ EXCEPT !.at = "notify"] ELSE Off]
       \/ /\ "write" \in Faults
          /\ UNCHANGED row \/ UpdateAsyncJob(j, exec[j].status)
          /\ exec' = [exec EXCEPT ![j] = Off]
    /\ UNCHANGED <<old, lapsed, notices, asked>>

\* Mutant: a panic of the dispatcher reaches the recovery of executeJob.
NotifyUnguarded(j) ==
    /\ exec[j].at = "notify"
    /\ \/ /\ notices' = [notices EXCEPT ![j] = @ \cup {exec[j].status}]
          /\ exec' = [exec EXCEPT ![j] = Off]
       \/ /\ "enqueue" \in Faults /\ UNCHANGED notices
          /\ exec' = [exec EXCEPT ![j] = [at |-> "write", status |-> "failed"]]
    /\ UNCHANGED <<row, old, lapsed, asked>>

\* notifyWebhook: an endpoint that is gone, a failing enqueue and a panic of the dispatcher
\* all end the goroutine with nothing announced.
NotifyWebhook(j) ==
    /\ exec[j].at = "notify"
    /\ \/ notices' = [notices EXCEPT ![j] = @ \cup {exec[j].status}]
       \/ "enqueue" \in Faults /\ UNCHANGED notices
    /\ exec' = [exec EXCEPT ![j] = Off]
    /\ UNCHANGED <<row, old, lapsed, asked>>

----------------------------------------------------------------------------
(* Time, the cleaner and crashes *)

\* expires_at passes, which only a finished job has.
ResultLapses(j) ==
    /\ row[j] \in Done /\ j \notin lapsed
    /\ lapsed' = lapsed \cup {j}
    /\ UNCHANGED <<row, exec, old, notices, asked>>

Ages(j) ==
    /\ j \in asked \ old /\ (Overdue \/ exec[j].at = "off")
    /\ old' = old \cup {j}
    /\ UNCHANGED <<row, exec, lapsed, notices, asked>>

DeleteExpiredAsyncJobs ==
    LET expired == {j \in lapsed : row[j] \in Done} IN
    /\ expired # {}
    /\ row' = [j \in Jobs |-> IF j \in expired THEN "none" ELSE row[j]]
    /\ UNCHANGED <<exec, old, lapsed, notices, asked>>

IsStale(j) == j \in old /\ row[j] = "processing"

DeleteStaleAsyncJobs ==
    LET stale == {j \in Jobs : IsStale(j)} IN
    /\ stale # {}
    /\ row' = [j \in Jobs |-> IF j \in stale THEN "none" ELSE row[j]]
    /\ UNCHANGED <<exec, old, lapsed, notices, asked>>

\* The process ends with the goroutines of its jobs.
Crash ==
    /\ "crash" \in Faults /\ \E j \in Jobs : exec[j] # Off
    /\ "crash pending" \in Faults \/ \A j \in Jobs : exec[j] # Off => row[j] # "pending"
    /\ exec' = [j \in Jobs |-> Off]
    /\ UNCHANGED <<row, old, lapsed, notices, asked>>

Next ==
    \/ \E j \in Jobs :
         \/ SubmitJob(j) \/ MarkProcessing(j) \/ Operate(j) \/ WriteStatus(j) \/ NotifyWebhook(j)
         \/ ResultLapses(j) \/ Ages(j)
    \/ DeleteExpiredAsyncJobs \/ DeleteStaleAsyncJobs \/ Crash

Spec == Init /\ [][Next]_vars

\* Time passes, the cleaner runs each minute, and the goroutine runs but for the operation,
\* which has no deadline.
FairSpec ==
    /\ Spec
    /\ WF_vars(DeleteExpiredAsyncJobs) /\ WF_vars(DeleteStaleAsyncJobs)
    /\ \A j \in Jobs : /\ WF_vars(ResultLapses(j)) /\ WF_vars(Ages(j))
                       /\ WF_vars(MarkProcessing(j)) /\ WF_vars(WriteStatus(j)) /\ WF_vars(NotifyWebhook(j))

----------------------------------------------------------------------------
(* Properties *)

\* The outcome of a job does not change: once a poll may have shown completed or failed, the
\* row keeps that status until it is removed (notifyWebhook's recover guards it).
OutcomeKept == \A j \in Jobs : row[j] \in Done => row'[j] \in {row[j], "none"}

TerminalIsFinal == [][OutcomeKept]_vars

\* A webhook announces what a poll shows, or showed before the result expired (notifyWebhook:
\* "only fires after the terminal update committed").
NoticeIsCommitted ==
    \A j \in Jobs : \A s \in notices[j] : row[j] = s \/ (row[j] = "none" /\ j \in lapsed)

\* A submitted job does not stay in the table for ever, whether its goroutine finishes, hangs
\* in the operation or dies with its process.
RowGoes ==
    \A j \in Jobs : row[j] # "none" ~> row[j] = "none"
=============================================================================

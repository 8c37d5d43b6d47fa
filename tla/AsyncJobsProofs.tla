-------------------------- MODULE AsyncJobsProofs ---------------------------
(***************************************************************************)
(* Proofs about AsyncJobs, for any jobs and any faults: the outcome of a   *)
(* job is final, and a webhook announces only what was committed.          *)
(*                                                                         *)
(* Proofs about the other background work, the job runner (Sidekiq), for   *)
(* any number of jobs and runners: claims exclude each other, jobs of one  *)
(* key run one at a time and in order, statuses and checkpoints do not go  *)
(* back, and a job is started less than MaxAttempts times.                 *)
(***************************************************************************)
EXTENDS AsyncJobs, FiniteSetTheorems, TLAPS

\* The job runner has a table and goroutines of its own.
CONSTANTS
    Runners, NumJobs, Partitioned, Mortal, MaxAttempts, StaleAfter, MaxConcurrent,
    MaxProgress, Prompt, Anonymous, Snapshots, StoreFails, MayCancel
VARIABLES table, task, up, window

J == INSTANCE Sidekiq WITH row <- table, exec <- task
-----------------------------------------------------------------------------

Statuses == {"none", "pending", "processing"} \cup Done
Exec == [at : {"off", "mark", "run", "write", "notify"}, status : {"none"} \cup Done]

\* The shape of the state, with the goroutines as records.
Shape ==
    /\ row \in [Jobs -> Statuses]
    /\ exec \in [Jobs -> Exec]
    /\ notices \in [Jobs -> SUBSET Done]
    /\ old \subseteq Jobs /\ lapsed \subseteq Jobs /\ asked \subseteq Jobs

\* A goroutine that has not written its outcome finds an unfinished row, or none.
Unfinished ==
    \A j \in Jobs :
        /\ exec[j].at \in {"mark", "run", "write"} => row[j] \notin Done
        /\ exec[j].at \in {"write", "notify"} => exec[j].status \in Done
        /\ j \notin asked => row[j] = "none" /\ exec[j].at = "off"

JobInv == Shape /\ Unfinished
-----------------------------------------------------------------------------
\* The record of one goroutine changes.
LEMMA ExecUpdate ==
    ASSUME NEW j \in Jobs, NEW e \in Exec, exec \in [Jobs -> Exec],
           exec' = [exec EXCEPT ![j] = e]
    PROVE  /\ exec' \in [Jobs -> Exec]
           /\ \A i \in Jobs : exec'[i] = IF i = j THEN e ELSE exec[i]
OBVIOUS

\* What an update of the row by its id does: nothing when there is none.
LEMMA RowUpdate ==
    ASSUME NEW j \in Jobs, NEW s \in Statuses \ {"none"}, row \in [Jobs -> Statuses],
           UpdateAsyncJob(j, s)
    PROVE  /\ row' \in [Jobs -> Statuses]
           /\ row'[j] = IF row[j] = "none" THEN "none" ELSE s
           /\ \A i \in Jobs \ {j} : row'[i] = row[i]
BY DEF UpdateAsyncJob, Statuses

\* A record of Exec, and a field of it replaced (executeJob).
LEMMA ExecFacts ==
    /\ Off \in Exec /\ Off.at = "off"
    /\ \A e \in Exec, p \in {"off", "mark", "run", "write", "notify"} :
         /\ [e EXCEPT !.at = p] \in Exec
         /\ [e EXCEPT !.at = p].at = p /\ [e EXCEPT !.at = p].status = e.status
    /\ \A s \in Done : /\ [at |-> "write", status |-> s] \in Exec
                       /\ [at |-> "write", status |-> s].at = "write"
                       /\ [at |-> "write", status |-> s].status = s
BY DEF Exec, Off
-----------------------------------------------------------------------------
\* The table starts empty (SubmitJob makes the first row).
LEMMA InitJobs == Init => JobInv
BY DEF Init, JobInv, Shape, Unfinished, Statuses, Exec, Off, Done

\* Every step keeps the invariant and, once a row shows an outcome, that outcome.
LEMMA NextJobs == JobInv /\ [Next]_vars => JobInv' /\ OutcomeKept
<1> SUFFICES ASSUME JobInv, [Next]_vars PROVE JobInv' /\ OutcomeKept
  OBVIOUS
<1>0. /\ row \in [Jobs -> Statuses] /\ exec \in [Jobs -> Exec]
      /\ notices \in [Jobs -> SUBSET Done]
      /\ old \subseteq Jobs /\ lapsed \subseteq Jobs /\ asked \subseteq Jobs
  BY DEF JobInv, Shape
<1>e. /\ "processing" \in Statuses \ {"none"} /\ Done \subseteq Statuses \ {"none"}
      /\ "none" \notin Done /\ "pending" \notin Done /\ "processing" \notin Done
  BY DEF Statuses, Done
<1>1. ASSUME NEW j \in Jobs, SubmitJob(j) PROVE JobInv' /\ OutcomeKept
  <2> DEFINE e == [exec[j] EXCEPT !.at = "mark"]
  <2>1. e \in Exec /\ e.at = "mark"
    BY <1>0, ExecFacts, Zenon
  <2>2. exec' = [exec EXCEPT ![j] = e]
    BY <1>0, <1>1 DEF SubmitJob
  <2> HIDE DEF e
  <2>3. exec' \in [Jobs -> Exec] /\ \A i \in Jobs : exec'[i] = IF i = j THEN e ELSE exec[i]
    BY <1>0, <2>1, <2>2, ExecUpdate
  <2>4. /\ row' \in [Jobs -> Statuses] /\ row'[j] = "pending" /\ row[j] = "none"
        /\ \A i \in Jobs \ {j} : row'[i] = row[i]
    BY <1>0, <1>1 DEF SubmitJob, JobInv, Unfinished, Statuses
  <2>5. /\ asked' = asked \cup {j} /\ UNCHANGED <<old, lapsed, notices>>
    BY <1>1 DEF SubmitJob
  <2> QED
    BY <1>0, <1>e, <2>1, <2>3, <2>4, <2>5 DEF JobInv, Shape, Unfinished, OutcomeKept
<1>2. ASSUME NEW j \in Jobs, MarkProcessing(j) PROVE JobInv' /\ OutcomeKept
  <2> DEFINE e == [exec[j] EXCEPT !.at = "run"]
  <2>1. e \in Exec /\ e.at = "run" /\ exec[j].at = "mark"
    BY <1>0, <1>2, ExecFacts, Zenon DEF MarkProcessing
  <2>2. exec' = [exec EXCEPT ![j] = e]
    BY <1>0, <1>2 DEF MarkProcessing
  <2> HIDE DEF e
  <2>3. exec' \in [Jobs -> Exec] /\ \A i \in Jobs : exec'[i] = IF i = j THEN e ELSE exec[i]
    BY <1>0, <2>1, <2>2, ExecUpdate
  <2>4. /\ row' \in [Jobs -> Statuses] /\ row'[j] \in {row[j], "none", "processing"}
        /\ \A i \in Jobs \ {j} : row'[i] = row[i]
    <3>1. CASE UpdateAsyncJob(j, "processing")
      BY <1>0, <1>e, <3>1, RowUpdate
    <3>2. CASE UNCHANGED row
      BY <1>0, <3>2
    <3> QED BY <1>2, <3>1, <3>2 DEF MarkProcessing
  <2>5. UNCHANGED <<old, lapsed, notices, asked>>
    BY <1>2 DEF MarkProcessing
  <2> QED
    BY <1>0, <1>e, <2>1, <2>3, <2>4, <2>5 DEF JobInv, Shape, Unfinished, OutcomeKept
<1>3. ASSUME NEW j \in Jobs, Operate(j) PROVE JobInv' /\ OutcomeKept
  <2>1. PICK status \in Done : exec' = [exec EXCEPT ![j] = [at |-> "write", status |-> status]]
    BY <1>3, Zenon DEF Operate
  <2> DEFINE e == [at |-> "write", status |-> status]
  <2>2. e \in Exec /\ e.at = "write" /\ e.status \in Done /\ exec[j].at = "run"
    BY <1>3, ExecFacts DEF Operate
  <2>3. exec' = [exec EXCEPT ![j] = e]
    BY <2>1
  <2> HIDE DEF e
  <2>4. exec' \in [Jobs -> Exec] /\ \A i \in Jobs : exec'[i] = IF i = j THEN e ELSE exec[i]
    BY <1>0, <2>2, <2>3, ExecUpdate
  <2>5. UNCHANGED <<row, old, lapsed, notices, asked>>
    BY <1>3 DEF Operate
  <2> QED
    BY <1>0, <1>e, <2>2, <2>4, <2>5 DEF JobInv, Shape, Unfinished, OutcomeKept
<1>4. ASSUME NEW j \in Jobs, WriteStatus(j) PROVE JobInv' /\ OutcomeKept
  <2>1. /\ exec[j].at = "write" /\ exec[j] \in Exec /\ exec[j].status \in Done
        /\ row[j] \notin Done /\ j \in asked
    BY <1>0, <1>4 DEF WriteStatus, JobInv, Unfinished
  <2>2. PICK e \in {Off, [exec[j] EXCEPT !.at = "notify"]} : exec' = [exec EXCEPT ![j] = e]
    BY <1>0, <1>4, <2>1 DEF WriteStatus
  <2>3. /\ e \in Exec /\ e.at \in {"off", "notify"}
        /\ e.at = "notify" => e.status \in Done
    <3>1. CASE e = Off
      BY <3>1, ExecFacts
    <3>2. CASE e = [exec[j] EXCEPT !.at = "notify"]
      <4>1. e \in Exec /\ e.at = "notify" /\ e.status = exec[j].status
        BY <2>1, <3>2, ExecFacts, Zenon
      <4> QED BY <2>1, <4>1
    <3> QED BY <2>2, <3>1, <3>2
  <2>4. exec' \in [Jobs -> Exec] /\ \A i \in Jobs : exec'[i] = IF i = j THEN e ELSE exec[i]
    BY <1>0, <2>2, <2>3, ExecUpdate
  <2>5. /\ row' \in [Jobs -> Statuses] /\ \A i \in Jobs \ {j} : row'[i] = row[i]
    <3>1. CASE UpdateAsyncJob(j, exec[j].status)
      BY <1>0, <1>e, <2>1, <3>1, RowUpdate
    <3>2. CASE UNCHANGED row
      BY <1>0, <3>2
    <3> QED BY <1>4, <3>1, <3>2 DEF WriteStatus
  <2>6. UNCHANGED <<old, lapsed, notices, asked>>
    BY <1>4 DEF WriteStatus
  <2> QED
    BY <1>0, <1>e, <2>1, <2>3, <2>4, <2>5, <2>6 DEF JobInv, Shape, Unfinished, OutcomeKept
<1>5. ASSUME NEW j \in Jobs, NotifyWebhook(j) PROVE JobInv' /\ OutcomeKept
  <2>1. /\ exec[j].at = "notify" /\ exec[j].status \in Done
        /\ exec' = [exec EXCEPT ![j] = Off]
    BY <1>5 DEF NotifyWebhook, JobInv, Unfinished
  <2>o. Off \in Exec /\ Off.at = "off"
    BY ExecFacts
  <2>2. exec' \in [Jobs -> Exec] /\ \A i \in Jobs : exec'[i] = IF i = j THEN Off ELSE exec[i]
    BY <1>0, <2>1, <2>o, ExecUpdate
  <2>3. notices' \in [Jobs -> SUBSET Done] /\ UNCHANGED <<row, old, lapsed, asked>>
    BY <1>0, <1>5, <2>1 DEF NotifyWebhook
  <2> QED
    BY <1>0, <1>e, <2>o, <2>2, <2>3 DEF JobInv, Shape, Unfinished, OutcomeKept
<1>6. ASSUME NEW j \in Jobs, ResultLapses(j) \/ Ages(j) PROVE JobInv' /\ OutcomeKept
  BY <1>0, <1>e, <1>6 DEF ResultLapses, Ages, JobInv, Shape, Unfinished, OutcomeKept
<1>7. CASE DeleteExpiredAsyncJobs \/ DeleteStaleAsyncJobs
  <2>1. /\ UNCHANGED <<exec, old, lapsed, notices, asked>>
        /\ row' \in [Jobs -> Statuses]
        /\ \A i \in Jobs : row'[i] \in {row[i], "none"}
    BY <1>0, <1>7 DEF DeleteExpiredAsyncJobs, DeleteStaleAsyncJobs, Statuses
  <2> QED
    BY <1>0, <1>e, <2>1 DEF JobInv, Shape, Unfinished, OutcomeKept
<1>8. CASE Crash
  BY <1>0, <1>e, <1>8, ExecFacts, Zenon DEF Crash, JobInv, Shape, Unfinished, OutcomeKept
<1>9. CASE UNCHANGED vars
  BY <1>0, <1>e, <1>9 DEF vars, JobInv, Shape, Unfinished, OutcomeKept
<1> QED
  BY <1>1, <1>2, <1>3, <1>4, <1>5, <1>6, <1>7, <1>8, <1>9 DEF Next

\* The outcome a poll may have shown does not change, whatever fails, panics or crashes:
\* the row keeps it until it is removed.
THEOREM OutcomesAreFinal == Spec => TerminalIsFinal
<1>1. Init => JobInv
  BY InitJobs
<1>2. JobInv /\ [Next]_vars => JobInv' /\ [OutcomeKept]_vars
  BY NextJobs
<1> QED
  BY <1>1, <1>2, PTL DEF Spec, TerminalIsFinal
-----------------------------------------------------------------------------
\* What a notice rests on, where no job outlives asyncJobStaleProcessingHours: a goroutine at
\* work still has its row, and nothing was announced; one about to announce an outcome has
\* committed it.
Committed ==
    \A j \in Jobs :
        /\ j \notin asked => j \notin old /\ j \notin lapsed /\ notices[j] = {}
        /\ exec[j].at # "off" => j \notin old
        /\ exec[j].at \in {"mark", "run", "write"} =>
             row[j] \in {"pending", "processing"} /\ notices[j] = {}
        /\ exec[j].at = "notify" => row[j] = exec[j].status \/ (row[j] = "none" /\ j \in lapsed)

NoticeInv == JobInv /\ Committed /\ NoticeIsCommitted

\* Nothing is announced in an empty table.
LEMMA InitNotices == Init => NoticeInv
<1> SUFFICES ASSUME Init PROVE Committed /\ NoticeIsCommitted
  BY InitJobs DEF NoticeInv
<1> QED
  BY DEF Init, Committed, NoticeIsCommitted, Off

\* Every step keeps what a notice rests on.
LEMMA NextNotices == ~Overdue /\ NoticeInv /\ [Next]_vars => NoticeInv'
<1> SUFFICES ASSUME ~Overdue, NoticeInv, [Next]_vars PROVE (Committed /\ NoticeIsCommitted)'
  BY NextJobs DEF NoticeInv
<1>0. /\ row \in [Jobs -> Statuses] /\ exec \in [Jobs -> Exec]
      /\ notices \in [Jobs -> SUBSET Done]
      /\ old \subseteq Jobs /\ lapsed \subseteq Jobs /\ asked \subseteq Jobs
  BY DEF NoticeInv, JobInv, Shape
<1>i. Committed /\ NoticeIsCommitted /\ Unfinished
  BY DEF NoticeInv, JobInv
<1>e. /\ "processing" \in Statuses \ {"none"} /\ Done \subseteq Statuses \ {"none"}
      /\ "none" \notin Done /\ "pending" \notin Done /\ "processing" \notin Done
      /\ Off \in Exec /\ Off.at = "off"
  BY ExecFacts DEF Statuses, Done
<1> USE DEF Committed, NoticeIsCommitted
<1>1. ASSUME NEW j \in Jobs, SubmitJob(j) PROVE (Committed /\ NoticeIsCommitted)'
  <2> DEFINE e == [exec[j] EXCEPT !.at = "mark"]
  <2>1. e \in Exec /\ e.at = "mark" /\ exec' = [exec EXCEPT ![j] = e]
    BY <1>0, <1>1, ExecFacts, Zenon DEF SubmitJob
  <2> HIDE DEF e
  <2>2. exec' \in [Jobs -> Exec] /\ \A i \in Jobs : exec'[i] = IF i = j THEN e ELSE exec[i]
    BY <1>0, <2>1, ExecUpdate
  <2>3. /\ row'[j] = "pending" /\ \A i \in Jobs \ {j} : row'[i] = row[i]
        /\ j \notin asked /\ asked' = asked \cup {j} /\ UNCHANGED <<old, lapsed, notices>>
    BY <1>0, <1>1 DEF SubmitJob
  <2> QED
    BY <1>0, <1>i, <1>e, <2>1, <2>2, <2>3
<1>2. ASSUME NEW j \in Jobs, MarkProcessing(j) PROVE (Committed /\ NoticeIsCommitted)'
  <2> DEFINE e == [exec[j] EXCEPT !.at = "run"]
  <2>1. e \in Exec /\ e.at = "run" /\ exec[j].at = "mark" /\ exec' = [exec EXCEPT ![j] = e]
    BY <1>0, <1>2, ExecFacts, Zenon DEF MarkProcessing
  <2> HIDE DEF e
  <2>2. exec' \in [Jobs -> Exec] /\ \A i \in Jobs : exec'[i] = IF i = j THEN e ELSE exec[i]
    BY <1>0, <2>1, ExecUpdate
  <2>3. /\ row'[j] \in {row[j], "processing"}
        /\ \A i \in Jobs \ {j} : row'[i] = row[i]
    <3>1. CASE UpdateAsyncJob(j, "processing")
      BY <1>0, <1>e, <3>1, RowUpdate
    <3>2. CASE UNCHANGED row
      BY <1>0, <3>2
    <3> QED BY <1>2, <3>1, <3>2 DEF MarkProcessing
  <2>4. UNCHANGED <<old, lapsed, notices, asked>>
    BY <1>2 DEF MarkProcessing
  <2> QED
    BY <1>0, <1>i, <1>e, <2>1, <2>2, <2>3, <2>4
<1>3. ASSUME NEW j \in Jobs, Operate(j) PROVE (Committed /\ NoticeIsCommitted)'
  <2>1. PICK status \in Done : exec' = [exec EXCEPT ![j] = [at |-> "write", status |-> status]]
    BY <1>3, Zenon DEF Operate
  <2> DEFINE e == [at |-> "write", status |-> status]
  <2>2. e \in Exec /\ e.at = "write" /\ exec[j].at = "run" /\ exec' = [exec EXCEPT ![j] = e]
    BY <1>3, <2>1, ExecFacts, Zenon DEF Operate
  <2> HIDE DEF e
  <2>3. exec' \in [Jobs -> Exec] /\ \A i \in Jobs : exec'[i] = IF i = j THEN e ELSE exec[i]
    BY <1>0, <2>2, ExecUpdate
  <2>4. UNCHANGED <<row, old, lapsed, notices, asked>>
    BY <1>3 DEF Operate
  <2> QED
    BY <1>0, <1>i, <1>e, <2>2, <2>3, <2>4
<1>4. ASSUME NEW j \in Jobs, WriteStatus(j) PROVE (Committed /\ NoticeIsCommitted)'
  <2>1. /\ exec[j].at = "write" /\ exec[j] \in Exec /\ exec[j].status \in Done
        /\ row[j] \in {"pending", "processing"} /\ notices[j] = {}
        /\ UNCHANGED <<old, lapsed, notices, asked>>
    BY <1>0, <1>4, <1>i DEF WriteStatus, Unfinished
  <2>2. CASE /\ UpdateAsyncJob(j, exec[j].status)
             /\ exec' = [exec EXCEPT ![j] = [exec[j] EXCEPT !.at = "notify"]]
    <3> DEFINE e == [exec[j] EXCEPT !.at = "notify"]
    <3>1. /\ e \in Exec /\ e.at = "notify" /\ e.status = exec[j].status
          /\ exec' = [exec EXCEPT ![j] = e]
      BY <2>1, <2>2, ExecFacts, Zenon
    <3> HIDE DEF e
    <3>2. exec' \in [Jobs -> Exec] /\ \A i \in Jobs : exec'[i] = IF i = j THEN e ELSE exec[i]
      BY <1>0, <3>1, ExecUpdate
    <3>3. row'[j] = exec[j].status /\ \A i \in Jobs \ {j} : row'[i] = row[i]
      BY <1>0, <1>e, <2>1, <2>2, RowUpdate
    <3> QED
      BY <1>0, <1>i, <1>e, <2>1, <3>1, <3>2, <3>3
  <2>3. CASE exec' = [exec EXCEPT ![j] = Off]
    <3>1. exec' \in [Jobs -> Exec] /\ \A i \in Jobs : exec'[i] = IF i = j THEN Off ELSE exec[i]
      BY <1>0, <1>e, <2>3, ExecUpdate
    <3>2. \A i \in Jobs \ {j} : row'[i] = row[i]
      <4>1. CASE UpdateAsyncJob(j, exec[j].status)
        BY <1>0, <1>e, <2>1, <4>1, RowUpdate
      <4>2. CASE UNCHANGED row
        BY <4>2
      <4> QED BY <1>4, <4>1, <4>2 DEF WriteStatus
    <3> QED
      BY <1>0, <1>i, <1>e, <2>1, <3>1, <3>2
  <2> QED
    BY <1>0, <1>4, <2>2, <2>3 DEF WriteStatus
<1>5. ASSUME NEW j \in Jobs, NotifyWebhook(j) PROVE (Committed /\ NoticeIsCommitted)'
  <2>1. /\ exec[j].at = "notify" /\ exec' = [exec EXCEPT ![j] = Off]
        /\ UNCHANGED <<row, old, lapsed, asked>> /\ j \in asked
    BY <1>5, <1>i DEF NotifyWebhook, Unfinished
  <2>2. exec' \in [Jobs -> Exec] /\ \A i \in Jobs : exec'[i] = IF i = j THEN Off ELSE exec[i]
    BY <1>0, <1>e, <2>1, ExecUpdate
  <2>3. /\ notices'[j] \subseteq notices[j] \cup {exec[j].status}
        /\ \A i \in Jobs \ {j} : notices'[i] = notices[i]
    BY <1>0, <1>5 DEF NotifyWebhook
  <2> QED
    BY <1>0, <1>i, <1>e, <2>1, <2>2, <2>3
<1>6. ASSUME NEW j \in Jobs, ResultLapses(j) PROVE (Committed /\ NoticeIsCommitted)'
  <2>1. j \in asked
    BY <1>6, <1>i, <1>e DEF ResultLapses, Unfinished
  <2> QED
    BY <1>0, <1>e, <1>i, <1>6, <2>1 DEF ResultLapses
<1>7. ASSUME NEW j \in Jobs, Ages(j) PROVE (Committed /\ NoticeIsCommitted)'
  BY <1>0, <1>e, <1>i, <1>7 DEF Ages
<1>8. CASE DeleteExpiredAsyncJobs
  BY <1>0, <1>e, <1>i, <1>8 DEF DeleteExpiredAsyncJobs
<1>9. CASE DeleteStaleAsyncJobs
  <2>1. /\ UNCHANGED <<exec, old, lapsed, notices, asked>>
        /\ \A i \in Jobs : \/ row'[i] = row[i]
                           \/ i \in old /\ row[i] = "processing" /\ row'[i] = "none"
    BY <1>0, <1>9 DEF DeleteStaleAsyncJobs, IsStale
  <2> QED
    BY <1>0, <1>e, <1>i, <2>1 DEF Unfinished
<1>10. CASE Crash
  BY <1>0, <1>e, <1>i, <1>10, Zenon DEF Crash
<1>11. CASE UNCHANGED vars
  BY <1>0, <1>i, <1>11 DEF vars
<1> QED
  BY <1>1, <1>2, <1>3, <1>4, <1>5, <1>6, <1>7, <1>8, <1>9, <1>10, <1>11, Zenon DEF Next

\* Where no job outlives asyncJobStaleProcessingHours, a webhook announces what a poll shows,
\* or showed before the result expired, whichever of the updates, the enqueue or the process
\* fails (notifyWebhook: "only fires after the terminal update committed").
THEOREM NoticesAreCommitted == ~Overdue => (Spec => []NoticeIsCommitted)
<1> SUFFICES ASSUME ~Overdue PROVE Spec => []NoticeIsCommitted
  OBVIOUS
<1>1. Init => NoticeInv
  BY InitNotices
<1>2. NoticeInv /\ [Next]_vars => NoticeInv'
  BY NextNotices
<1>3. NoticeInv => NoticeIsCommitted
  BY DEF NoticeInv
<1> QED
  BY <1>1, <1>2, <1>3, PTL DEF Spec
-----------------------------------------------------------------------------
(* The job runner.                                                         *)

JobStatuses == {J!None, "pending", "running"} \cup J!Terminal
Places == {J!None, "parked", "claim", "commit", "claimed", "exhausted", "registered", "run",
           "ok", "err"}
Rows == [status : JobStatuses, runner : Runners \cup {J!None, ""}, by : Runners \cup {J!None},
         age : Nat, attempts : Nat, meta : Nat, starts : Nat]
Goroutines == [at : Places, live : BOOLEAN, beats : BOOLEAN, reg : BOOLEAN, cur : Nat]

\* The shape of the state.
Table ==
    /\ table \in [J!JobIds -> Rows] /\ task \in [Runners -> [J!JobIds -> Goroutines]]
    /\ up \subseteq Runners /\ window \in [Runners -> {0, StaleAfter}]

\* Only a goroutine that works on a claimed job beats or is registered, and the row of its
\* job is not pending; one that has begun belongs to a live process.
Fenced ==
    /\ \A r \in Runners, j \in J!JobIds :
         /\ task[r][j].beats \/ task[r][j].reg => J!Busy(r, j)
         /\ J!Busy(r, j) => table[j].status \notin {J!None, "pending"}
         /\ task[r][j].at = "commit" => Snapshots
         /\ task[r][j].at # J!None => r \in up /\ table[j].status # J!None
    /\ ~Anonymous => /\ \A r \in Runners : window[r] = StaleAfter
                     /\ \A j \in J!JobIds : table[j].runner = table[j].by

\* What a step of the goroutine of runner r for job j may change.
Frame(r, j) ==
    /\ \A q \in Runners, i \in J!JobIds : q # r \/ i # j => task'[q][i] = task[q][i]
    /\ \A i \in J!JobIds : i # j => table'[i] = table[i]
    /\ up' = up /\ window' = window

\* It gets as far as the claim, or gives up before it.
Approaches(r, j) ==
    /\ Frame(r, j) /\ table'[j] = table[j] /\ ~J!Busy(r, j)
    /\ task'[r][j].at \in {J!None, "claim", "commit"}
    /\ task'[r][j].beats => task[r][j].beats
    /\ task'[r][j].reg => task[r][j].reg
    /\ task[r][j].at # J!None \/ (r \in up /\ J!Claimable(r, j))
    /\ task'[r][j].at = "commit" => Snapshots /\ J!Blockers(r, j) = {}

\* It claims the job, and may not come to know it.
Claims(r, j) ==
    /\ Frame(r, j) /\ J!Claimable(r, j)
    /\ \/ task[r][j].at = "commit"
       \/ task[r][j].at = "claim" /\ J!Blockers(r, j) = {}
    /\ task'[r][j].at \in {J!None, "claimed"}
    /\ task'[r][j].beats => task[r][j].beats
    /\ task'[r][j].reg => task[r][j].reg
    /\ table'[j].status = "running" /\ table'[j].runner = J!RunnerID(r) /\ table'[j].by = r
    /\ table'[j].age = 0 /\ table'[j].attempts = J!Bump(table[j].attempts)
    /\ table'[j].meta = table[j].meta /\ table'[j].starts = table[j].starts

\* It works on the claimed job.
Works(r, j) ==
    /\ Frame(r, j) /\ J!Busy(r, j)
    /\ table'[j].status = table[j].status /\ table'[j].runner = table[j].runner
    /\ table'[j].by = table[j].by /\ table'[j].attempts = table[j].attempts
    /\ table'[j].age \in {0, table[j].age}
    /\ \/ table'[j].meta = table[j].meta
       \/ J!Owned(r, j) /\ task[r][j].at = "run" /\ table'[j].meta = task[r][j].cur + 1
          /\ task'[r][j].cur = task[r][j].cur + 1
    /\ \/ /\ task'[r][j].at = task[r][j].at /\ task'[r][j].cur >= task[r][j].cur
          /\ table'[j].starts = table[j].starts
       \/ /\ task[r][j].at = "claimed" /\ task'[r][j].at = "exhausted"
          /\ table'[j].starts = table[j].starts
       \/ /\ task[r][j].at = "claimed" /\ task'[r][j].at = "registered"
          /\ ~J!Exhausted(j) /\ table'[j].starts = table[j].starts
          /\ task'[r][j].cur = table[j].meta
       \/ /\ task[r][j].at = "registered" /\ task'[r][j].at = "run"
          /\ table'[j].starts = J!Bump(table[j].starts) /\ task'[r][j].cur = task[r][j].cur
       \/ /\ task[r][j].at = "run" /\ task'[r][j].at \in {"ok", "err"}
          /\ table'[j].starts = table[j].starts /\ task'[r][j].cur = task[r][j].cur

\* It is done with the job.
Ends(r, j) ==
    /\ Frame(r, j) /\ J!Busy(r, j) /\ task'[r][j] = J!NoExec
    /\ table'[j].runner = table[j].runner /\ table'[j].by = table[j].by
    /\ table'[j].attempts = table[j].attempts /\ table'[j].age = table[j].age
    /\ table'[j].starts = table[j].starts
    /\ \/ table'[j].status = table[j].status
       \/ table[j].status = "running" /\ table'[j].status \in J!Terminal
    /\ \/ table'[j].meta = table[j].meta
       \/ /\ task[r][j].at \in {"ok", "err"} /\ table[j].runner = J!RunnerID(r)
          /\ table'[j].meta = task[r][j].cur

\* The job is created, or cancelled; time passes.
Enqueues(r, j) ==
    /\ Frame(r, j) /\ r \in up /\ table[j].status = J!None
    /\ \A i \in 1..j - 1 : table[i].status # J!None
    /\ table' = [table EXCEPT ![j].status = "pending"]
    /\ task'[r][j].at \in {J!None, "parked"} /\ ~task'[r][j].beats /\ ~task'[r][j].reg

\* The fields of the rows that neither a cancellation nor the clock touches.
Kept(j) ==
    /\ table'[j].runner = table[j].runner /\ table'[j].by = table[j].by
    /\ table'[j].attempts = table[j].attempts /\ table'[j].meta = table[j].meta
    /\ table'[j].starts = table[j].starts

Cancels(j) ==
    /\ UNCHANGED <<task, up, window>> /\ \A i \in J!JobIds : i # j => table'[i] = table[i]
    /\ table[j].status \in {"pending", "running"} /\ table'[j].status = "cancelled"
    /\ Kept(j) /\ table'[j].age = table[j].age

Stops(r) ==
    /\ UNCHANGED <<table, window>> /\ up' = up \ {r}
    /\ \A q \in Runners, i \in J!JobIds : task'[q][i] = IF q = r THEN J!NoExec ELSE task[q][i]

Opens(r) ==
    /\ UNCHANGED <<table, task, up>> /\ window[r] # StaleAfter

TimePasses ==
    /\ UNCHANGED <<task, up, window>>
    /\ \A j \in J!JobIds : Kept(j) /\ table'[j].status = table[j].status
    /\ Prompt => \A r \in up, j \in J!JobIds :
                   J!Owned(r, j) /\ table[j].by = r /\ task[r][j].at # J!None
                     => table'[j].age <= StaleAfter

\* One goroutine is replaced.
LEMMA SetFacts ==
    ASSUME Table, NEW r \in Runners, NEW j \in J!JobIds, NEW e \in Goroutines, J!Set(r, j, e)
    PROVE  /\ task' \in [Runners -> [J!JobIds -> Goroutines]] /\ task'[r][j] = e
           /\ \A q \in Runners, i \in J!JobIds : q # r \/ i # j => task'[q][i] = task[q][i]
BY DEF Table, J!Set

\* One row is replaced.
LEMMA TableFacts ==
    ASSUME Table, NEW j \in J!JobIds, NEW x \in Rows, table' = [table EXCEPT ![j] = x]
    PROVE  /\ table' \in [J!JobIds -> Rows] /\ table'[j] = x
           /\ \A i \in J!JobIds : i # j => table'[i] = table[i]
BY DEF Table

\* The step of a goroutine, from the goroutine and the row it leaves.
LEMMA LocalFacts ==
    ASSUME Table, NEW r \in Runners, NEW j \in J!JobIds, NEW e \in Goroutines, NEW x \in Rows,
           J!Set(r, j, e), table' = [table EXCEPT ![j] = x], UNCHANGED <<up, window>>
    PROVE  Table' /\ Frame(r, j) /\ task'[r][j] = e /\ table'[j] = x
<1>1. /\ task' \in [Runners -> [J!JobIds -> Goroutines]] /\ task'[r][j] = e
      /\ \A q \in Runners, i \in J!JobIds : q # r \/ i # j => task'[q][i] = task[q][i]
  BY SetFacts, Zenon
<1>2. /\ table' \in [J!JobIds -> Rows] /\ table'[j] = x
      /\ \A i \in J!JobIds : i # j => table'[i] = table[i]
  BY TableFacts, Zenon
<1> QED
  BY <1>1, <1>2, Zenon DEF Table, Frame

\* A row that is left alone.
LEMMA RowKept ==
    ASSUME Table, NEW j \in J!JobIds
    PROVE  table = [table EXCEPT ![j] = table[j]] /\ table[j] \in Rows
BY DEF Table

\* A goroutine that does not exist (the zero state of inflight), and one put at a place.
LEMMA NoExecFacts ==
    /\ J!NoExec \in Goroutines /\ J!NoExec.at = J!None /\ ~J!NoExec.beats /\ ~J!NoExec.reg
    /\ \A at \in Places : LET e == [J!NoExec EXCEPT !.at = at]
                          IN  e \in Goroutines /\ e.at = at /\ ~e.beats /\ ~e.reg
BY Zenon DEF J!NoExec, Goroutines, Places, J!None

\* What a goroutine may have become.
Change(r, j) ==
    Approaches(r, j) \/ Claims(r, j) \/ Works(r, j) \/ Ends(r, j) \/ Enqueues(r, j)

\* The goroutine goes on without touching the table.
LEMMA WorkerStep ==
    ASSUME Table, NEW r \in Runners, NEW j \in J!JobIds, NEW e \in Goroutines,
           J!Set(r, j, e), UNCHANGED <<table, up, window>>
    PROVE  Table' /\ Frame(r, j) /\ task'[r][j] = e /\ table'[j] = table[j]
<1>1. table' = [table EXCEPT ![j] = table[j]] /\ table[j] \in Rows
  BY RowKept, Zenon
<1> QED
  BY <1>1, LocalFacts, Zenon

\* A goroutine that takes a slot, or finds its claim refused.
LEMMA ApproachStep ==
    ASSUME J!SidekiqAssumption, Table, Fenced, NEW r \in Runners, NEW j \in J!JobIds,
           J!TakeSlot(r, j) \/ J!Dispatch(r, j) \/ J!ClaimBegin(r, j)
    PROVE  Table' /\ Approaches(r, j)
<1> DEFINE o == task[r][j]
<1>0. /\ o \in Goroutines /\ table' = table /\ UNCHANGED <<up, window>>
      /\ "claim" \in Places /\ "commit" \in Places
  BY Zenon DEF Table, J!TakeSlot, J!Dispatch, J!ClaimBegin, Places
<1>1. \A at \in Places : LET e == [o EXCEPT !.at = at]
                         IN  e \in Goroutines /\ e.at = at /\ e.beats = o.beats /\ e.reg = o.reg
  BY <1>0 DEF Goroutines
<1>2. CASE J!TakeSlot(r, j)
  <2> DEFINE e == [o EXCEPT !.at = "claim"]
  <2>1. e \in Goroutines /\ e.at = "claim" /\ e.beats = o.beats /\ e.reg = o.reg
    BY <1>0, <1>1, Zenon
  <2>2. J!Set(r, j, e) /\ o.at = "parked"
    BY <1>2, Zenon DEF J!TakeSlot
  <2> HIDE DEF e
  <2>3. Table' /\ Frame(r, j) /\ task'[r][j] = e /\ table'[j] = table[j]
    BY <1>0, <2>1, <2>2, WorkerStep, Zenon
  <2> QED
    BY <2>1, <2>2, <2>3, Zenon DEF Approaches, J!Busy, J!None
<1>3. CASE J!Dispatch(r, j)
  <2> DEFINE e == [J!NoExec EXCEPT !.at = "claim"]
  <2>1. e \in Goroutines /\ e.at = "claim" /\ ~e.beats /\ ~e.reg
    BY <1>0, NoExecFacts, Zenon
  <2>2. J!Set(r, j, e) /\ o.at = J!None /\ r \in up /\ J!Claimable(r, j)
    BY <1>3, Zenon DEF J!Dispatch
  <2> HIDE DEF e
  <2>3. Table' /\ Frame(r, j) /\ task'[r][j] = e /\ table'[j] = table[j]
    BY <1>0, <2>1, <2>2, WorkerStep, Zenon
  <2> QED
    BY <2>1, <2>2, <2>3, Zenon DEF Approaches, J!Busy, J!None
<1>4. CASE J!ClaimBegin(r, j)
  <2>1. o.at = "claim" /\ Snapshots
    BY <1>4, Zenon DEF J!ClaimBegin
  <2>2. CASE J!Claimable(r, j) /\ J!Blockers(r, j) = {}
    <3> DEFINE e == [o EXCEPT !.at = "commit"]
    <3>1. e \in Goroutines /\ e.at = "commit" /\ e.beats = o.beats /\ e.reg = o.reg
      BY <1>0, <1>1, Zenon
    <3>2. J!Set(r, j, e)
      BY <1>4, <2>2, Zenon DEF J!ClaimBegin
    <3> HIDE DEF e
    <3>3. Table' /\ Frame(r, j) /\ task'[r][j] = e /\ table'[j] = table[j]
      BY <1>0, <3>1, <3>2, WorkerStep, Zenon
    <3> QED
      BY <2>1, <2>2, <3>1, <3>3, Zenon DEF Approaches, J!Busy, J!None
  <2>3. CASE ~(J!Claimable(r, j) /\ J!Blockers(r, j) = {})
    <3>1. J!Set(r, j, J!NoExec)
      BY <1>4, <2>3, Zenon DEF J!ClaimBegin
    <3>3. Table' /\ Frame(r, j) /\ task'[r][j] = J!NoExec /\ table'[j] = table[j]
      BY <1>0, <3>1, NoExecFacts, WorkerStep, Zenon
    <3> QED
      BY <2>1, <3>3, NoExecFacts DEF Approaches, J!Busy, J!None
  <2> QED
    BY <2>2, <2>3, Zenon
<1> QED
  BY <1>2, <1>3, <1>4, Zenon

\* The claim itself: granted, refused, or granted without the runner knowing.
LEMMA ClaimStep ==
    ASSUME J!SidekiqAssumption, Table, Fenced, NEW r \in Runners, NEW j \in J!JobIds,
           J!ClaimSidekiqJob(r, j) \/ J!ClaimCommit(r, j) \/ J!ClaimLost(r, j)
    PROVE  Table' /\ (Approaches(r, j) \/ Claims(r, j))
<1> DEFINE o == task[r][j]
           x == [table[j] EXCEPT !.status = "running", !.runner = J!RunnerID(r), !.by = r,
                               !.age = 0, !.attempts = J!Bump(table[j].attempts)]
           e == [o EXCEPT !.at = "claimed"]
<1>0. o \in Goroutines /\ table[j] \in Rows /\ UNCHANGED <<up, window>>
  BY Zenon DEF Table, J!ClaimSidekiqJob, J!ClaimCommit, J!ClaimLost
<1>1. e \in Goroutines /\ e.at = "claimed" /\ e.beats = o.beats /\ e.reg = o.reg
  BY <1>0 DEF Goroutines, Places
<1>2. /\ x \in Rows /\ x.status = "running" /\ x.runner = J!RunnerID(r) /\ x.by = r /\ x.age = 0
      /\ x.attempts = J!Bump(table[j].attempts) /\ x.meta = table[j].meta /\ x.starts = table[j].starts
  <2>1. J!RunnerID(r) \in Runners \cup {J!None, ""} /\ "running" \in JobStatuses
    BY Zenon DEF J!RunnerID, JobStatuses
  <2>2. table[j].attempts \in Nat
    BY <1>0, Zenon DEF Rows
  <2>3. J!Bump(table[j].attempts) \in Nat
    BY <2>2 DEF J!Bump
  <2> QED
    BY <1>0, <2>1, <2>3, Zenon DEF Rows
<1>3. J!ClaimRow(r, j) => table' = [table EXCEPT ![j] = x]
  BY <1>0, Zenon DEF J!ClaimRow, Rows
<1> HIDE DEF e, x
<1>4. ASSUME J!Set(r, j, J!NoExec), table' = table, o.at \in {"claim", "commit"}
      PROVE  Table' /\ Approaches(r, j)
  <2>1. Table' /\ Frame(r, j) /\ task'[r][j] = J!NoExec /\ table'[j] = table[j]
    BY <1>0, <1>4, NoExecFacts, WorkerStep, Zenon
  <2> QED
    BY <1>4, <2>1, NoExecFacts DEF Approaches, J!Busy, J!None
<1>5. ASSUME J!Set(r, j, e) \/ J!Set(r, j, J!NoExec), J!ClaimRow(r, j), J!Claimable(r, j),
             \/ o.at = "commit"
             \/ o.at = "claim" /\ J!Blockers(r, j) = {}
      PROVE  Table' /\ Claims(r, j)
  <2>1. PICK f \in {e, J!NoExec} : J!Set(r, j, f)
    BY <1>5, Zenon
  <2>2. f \in Goroutines /\ f.at \in {J!None, "claimed"} /\ (f.beats => o.beats) /\ (f.reg => o.reg)
    BY <1>1, <2>1, NoExecFacts, Zenon
  <2>3. table' = [table EXCEPT ![j] = x] /\ x \in Rows /\ f \in Goroutines
    BY <1>2, <1>3, <1>5, <2>2, Zenon
  <2>4. Table' /\ Frame(r, j) /\ task'[r][j] = f /\ table'[j] = x
    BY <1>0, <2>1, <2>3, LocalFacts, Zenon
  <2> QED
    BY <1>2, <1>5, <2>2, <2>4, Zenon DEF Claims
<1>6. CASE J!ClaimSidekiqJob(r, j)
  BY <1>4, <1>5, <1>6, Zenon DEF J!ClaimSidekiqJob, e
<1>7. CASE J!ClaimCommit(r, j)
  BY <1>4, <1>5, <1>7, Zenon DEF J!ClaimCommit, e
<1>8. CASE J!ClaimLost(r, j)
  BY <1>5, <1>8, Zenon DEF J!ClaimLost
<1> QED
  BY <1>6, <1>7, <1>8, Zenon

\* The handler's goroutine: it reads the row, starts, records progress, beats and returns.
LEMMA WorkStep ==
    ASSUME J!SidekiqAssumption, Table, Fenced, NEW r \in Runners, NEW j \in J!JobIds,
           \/ J!Fetch(r, j) \/ J!CheckCancelled(r, j) \/ J!Progress(r, j)
           \/ J!Return(r, j) \/ J!Heartbeat(r, j) \/ J!CancelLocal(r, j)
    PROVE  Table' /\ Works(r, j)
<1> DEFINE o == task[r][j]
           y == table[j]
<1>0. /\ o \in Goroutines /\ y \in Rows /\ UNCHANGED <<up, window>>
      /\ \A at \in {"exhausted", "registered", "run", "ok", "err"} : at \in Places
  BY Zenon DEF Table, J!Fetch, J!CheckCancelled, J!Progress, J!Return, J!Heartbeat, J!CancelLocal, Places
<1>1. /\ o.at \in Places /\ o.cur \in Nat /\ y.meta \in Nat /\ y.starts \in Nat /\ y.age \in Nat
      /\ J!Bump(y.starts) \in Nat /\ o.cur + 1 \in Nat
  <2>1. o.at \in Places /\ o.cur \in Nat
    BY <1>0, Zenon DEF Goroutines
  <2>2. y.meta \in Nat /\ y.starts \in Nat /\ y.age \in Nat
    BY <1>0, Zenon DEF Rows
  <2>3. J!Bump(y.starts) \in Nat /\ o.cur + 1 \in Nat
    BY <2>1, <2>2 DEF J!Bump
  <2> QED
    BY <2>1, <2>2, <2>3, Zenon
<1>2. table = [table EXCEPT ![j] = y]
  BY RowKept, Zenon
<1>3. CASE J!Fetch(r, j) /\ J!Exhausted(j)
  <2> DEFINE e == [o EXCEPT !.at = "exhausted"]
  <2>1. e \in Goroutines /\ e.at = "exhausted"
    BY <1>0 DEF Goroutines
  <2>2. J!Set(r, j, e) /\ o.at = "claimed" /\ table' = table
    BY <1>3, Zenon DEF J!Fetch
  <2> HIDE DEF e
  <2>3. Table' /\ Frame(r, j) /\ task'[r][j] = e /\ table'[j] = table[j]
    BY <1>0, <2>1, <2>2, WorkerStep, Zenon
  <2> QED
    BY <2>1, <2>2, <2>3, Zenon DEF Works, J!Busy
<1>4. CASE J!Fetch(r, j) /\ ~J!Exhausted(j)
  <2> DEFINE e == [o EXCEPT !.at = "registered", !.reg = TRUE, !.cur = y.meta]
  <2>1. e \in Goroutines /\ e.at = "registered" /\ e.cur = y.meta
    BY <1>0, <1>1, Zenon DEF Goroutines
  <2>2. J!Set(r, j, e) /\ o.at = "claimed" /\ table' = table
    BY <1>4, Zenon DEF J!Fetch
  <2> HIDE DEF e
  <2>3. Table' /\ Frame(r, j) /\ task'[r][j] = e /\ table'[j] = table[j]
    BY <1>0, <2>1, <2>2, WorkerStep, Zenon
  <2> QED
    BY <1>4, <2>1, <2>2, <2>3, Zenon DEF Works, J!Busy
<1>5. CASE J!CheckCancelled(r, j)
  <2> DEFINE e == [o EXCEPT !.at = "run", !.beats = TRUE, !.live = y.status # "cancelled"]
             x == [y EXCEPT !.starts = J!Bump(y.starts)]
  <2>1. e \in Goroutines /\ e.at = "run" /\ e.cur = o.cur
    BY <1>0, Zenon DEF Goroutines
  <2>2. /\ x \in Rows /\ x.status = y.status /\ x.runner = y.runner /\ x.by = y.by
        /\ x.attempts = y.attempts /\ x.age = y.age /\ x.meta = y.meta /\ x.starts = J!Bump(y.starts)
    BY <1>0, <1>1, Zenon DEF Rows
  <2>3. J!Set(r, j, e) /\ o.at = "registered" /\ table' = [table EXCEPT ![j] = x]
    BY <1>5, Zenon DEF J!CheckCancelled
  <2> HIDE DEF e, x
  <2>4. x \in Rows /\ e \in Goroutines
    BY <2>1, <2>2, Zenon
  <2>5. Table' /\ Frame(r, j) /\ task'[r][j] = e /\ table'[j] = x
    BY <1>0, <2>3, <2>4, LocalFacts, Zenon
  <2> QED
    BY <2>1, <2>2, <2>3, <2>5, Zenon DEF Works, J!Busy
<1>6. CASE J!Progress(r, j)
  <2> DEFINE e == [o EXCEPT !.cur = o.cur + 1]
             z == [y EXCEPT !.meta = o.cur + 1, !.age = 0]
             x == IF J!Owned(r, j) THEN z ELSE y
  <2>1. e \in Goroutines /\ e.at = o.at /\ e.cur = o.cur + 1 /\ e.cur >= o.cur
    BY <1>0, <1>1 DEF Goroutines
  <2>2. /\ z \in Rows /\ z.status = y.status /\ z.runner = y.runner /\ z.by = y.by
        /\ z.attempts = y.attempts /\ z.age = 0 /\ z.starts = y.starts /\ z.meta = o.cur + 1
    <3> DEFINE n == o.cur + 1
    <3>1. n \in Nat /\ 0 \in Nat
      BY <1>1, Zenon
    <3> HIDE DEF n
    <3>2. LET w == [y EXCEPT !.meta = n, !.age = 0]
          IN  /\ w \in Rows /\ w.status = y.status /\ w.runner = y.runner /\ w.by = y.by
              /\ w.attempts = y.attempts /\ w.age = 0 /\ w.starts = y.starts /\ w.meta = n
      BY <1>0, <3>1, Zenon DEF Rows
    <3> QED
      BY <3>2, Zenon DEF n
  <2>3. J!Set(r, j, e) /\ o.at = "run" /\ table' = [table EXCEPT ![j] = x]
    <3>1. J!Set(r, j, e) /\ o.at = "run"
      BY <1>6, Zenon DEF J!Progress
    <3>2. table' = IF J!Owned(r, j) THEN [table EXCEPT ![j] = z] ELSE table
      BY <1>6, Zenon DEF J!Progress
    <3> QED
      BY <1>2, <3>1, <3>2, Zenon
  <2>4. /\ x \in Rows /\ x.status = y.status /\ x.runner = y.runner /\ x.by = y.by
        /\ x.attempts = y.attempts /\ x.age \in {0, y.age} /\ x.starts = y.starts
        /\ x.meta = y.meta \/ (J!Owned(r, j) /\ x.meta = o.cur + 1)
    BY <1>0, <2>2, Zenon
  <2> HIDE DEF e, x, z
  <2>5. x \in Rows /\ e \in Goroutines
    BY <2>1, <2>4, Zenon
  <2>6. Table' /\ Frame(r, j) /\ task'[r][j] = e /\ table'[j] = x
    BY <1>0, <2>3, <2>5, LocalFacts, Zenon
  <2> QED
    BY <2>1, <2>3, <2>4, <2>6, Zenon DEF Works, J!Busy
<1>7. CASE J!Return(r, j)
  <2>1. PICK v \in {"ok", "err"} : J!Set(r, j, [o EXCEPT !.at = v])
    BY <1>7, Zenon DEF J!Return
  <2> DEFINE e == [o EXCEPT !.at = v]
  <2>2. e \in Goroutines /\ e.at = v /\ e.cur = o.cur
    BY <1>0 DEF Goroutines
  <2>3. o.at = "run" /\ table' = table
    BY <1>7, Zenon DEF J!Return
  <2>4. J!Set(r, j, e)
    BY <2>1, Zenon
  <2> HIDE DEF e
  <2>5. Table' /\ Frame(r, j) /\ task'[r][j] = e /\ table'[j] = table[j]
    BY <1>0, <2>2, <2>3, <2>4, WorkerStep, Zenon
  <2> QED
    BY <2>1, <2>2, <2>3, <2>5, Zenon DEF Works, J!Busy
<1>8. ASSUME NEW e \in Goroutines, e.at = o.at, e.cur = o.cur, J!Set(r, j, e), table' = table, J!Busy(r, j)
      PROVE  Table' /\ Works(r, j)
  <2>1. Table' /\ Frame(r, j) /\ task'[r][j] = e /\ table'[j] = table[j]
    BY <1>0, <1>8, WorkerStep, Zenon
  <2>2. e.cur >= o.cur
    BY <1>1, <1>8
  <2> QED
    BY <1>8, <2>1, <2>2, Zenon DEF Works
<1>9. CASE J!Heartbeat(r, j)
  <2>1. J!Busy(r, j)
    BY <1>9, Zenon DEF J!Heartbeat, Fenced
  <2>2. CASE J!Owned(r, j)
    <3> DEFINE x == [y EXCEPT !.age = 0]
    <3>1. /\ x \in Rows /\ x.status = y.status /\ x.runner = y.runner /\ x.by = y.by
          /\ x.attempts = y.attempts /\ x.age = 0 /\ x.starts = y.starts /\ x.meta = y.meta
      BY <1>0, Zenon DEF Rows
    <3>2. table' = [table EXCEPT ![j] = x] /\ task' = task
      BY <1>9, <2>2, Zenon DEF J!Heartbeat
    <3>3. J!Set(r, j, o)
      BY <3>2 DEF J!Set, Table
    <3> HIDE DEF x
    <3>4. Table' /\ Frame(r, j) /\ task'[r][j] = o /\ table'[j] = x
      BY <1>0, <3>1, <3>2, <3>3, LocalFacts, Zenon
    <3>5. o.cur >= o.cur
      BY <1>1
    <3> QED
      BY <2>1, <3>1, <3>4, <3>5, Zenon DEF Works
  <2>3. CASE ~J!Owned(r, j)
    <3> DEFINE e == [o EXCEPT !.beats = FALSE, !.live = FALSE]
    <3>1. e \in Goroutines /\ e.at = o.at /\ e.cur = o.cur
      BY <1>0, Zenon DEF Goroutines
    <3>2. J!Set(r, j, e) /\ table' = table
      BY <1>9, <2>3, Zenon DEF J!Heartbeat
    <3> HIDE DEF e
    <3> QED
      BY <1>8, <2>1, <3>1, <3>2, Zenon
  <2> QED
    BY <2>2, <2>3, Zenon
<1>10. CASE J!CancelLocal(r, j)
  <2> DEFINE e == [o EXCEPT !.live = FALSE]
  <2>1. e \in Goroutines /\ e.at = o.at /\ e.cur = o.cur
    BY <1>0, Zenon DEF Goroutines
  <2>2. J!Set(r, j, e) /\ table' = table /\ J!Busy(r, j)
    BY <1>10, Zenon DEF J!CancelLocal, Fenced
  <2> HIDE DEF e
  <2> QED
    BY <1>8, <2>1, <2>2, Zenon
<1> QED
  BY <1>3, <1>4, <1>5, <1>6, <1>7, <1>9, <1>10, Zenon

\* The last statement on a job, or none.
LEMMA EndStep ==
    ASSUME J!SidekiqAssumption, Table, Fenced, NEW r \in Runners, NEW j \in J!JobIds,
           \/ J!FailExhausted(r, j) \/ J!Complete(r, j) \/ J!Fail(r, j) \/ J!Panic(r, j)
           \/ J!FinishLost(r, j)
    PROVE  Table' /\ Ends(r, j)
<1> DEFINE y == table[j]
           o == task[r][j]
<1>0. /\ y \in Rows /\ UNCHANGED <<up, window>> /\ J!Set(r, j, J!NoExec) /\ J!Busy(r, j)
      /\ \A v \in {"failed", "completed"} : v \in JobStatuses /\ v \in J!Terminal
  BY Zenon DEF Table, J!FailExhausted, J!Complete, J!Fail, J!Panic, J!FinishLost, J!Busy,
     JobStatuses, J!Terminal
<1>1. o.cur \in Nat
  BY DEF Table, Goroutines
<1>2. ASSUME NEW x \in Rows, table' = [table EXCEPT ![j] = x],
             x.runner = y.runner, x.by = y.by, x.attempts = y.attempts, x.age = y.age,
             x.starts = y.starts,
             x.status = y.status \/ (y.status = "running" /\ x.status \in J!Terminal),
             x.meta = y.meta
               \/ (o.at \in {"ok", "err"} /\ y.runner = J!RunnerID(r) /\ x.meta = o.cur)
      PROVE  Table' /\ Ends(r, j)
  <2>1. table' = [table EXCEPT ![j] = x] /\ J!NoExec \in Goroutines
    BY <1>2, NoExecFacts, Zenon
  <2>2. Table' /\ Frame(r, j) /\ task'[r][j] = J!NoExec /\ table'[j] = x
    BY <1>0, <2>1, LocalFacts, Zenon
  <2> QED
    BY <1>0, <1>2, <2>2, Zenon DEF Ends
<1>3. CASE table' = table
  BY <1>0, <1>2, <1>3, RowKept, Zenon
<1>4. ASSUME NEW v \in {"failed", "completed"}, J!Owned(r, j), table' = [table EXCEPT ![j].status = v]
      PROVE  Table' /\ Ends(r, j)
  <2> DEFINE x == [y EXCEPT !.status = v]
  <2>1. /\ x \in Rows /\ x.status = v /\ x.runner = y.runner /\ x.by = y.by
        /\ x.attempts = y.attempts /\ x.age = y.age /\ x.starts = y.starts /\ x.meta = y.meta
    BY <1>0, Zenon DEF Rows
  <2>2. table' = [table EXCEPT ![j] = x] /\ y.status = "running" /\ v \in J!Terminal
    BY <1>0, <1>4, Zenon DEF J!Owned
  <2> HIDE DEF x
  <2> QED
    BY <1>2, <2>1, <2>2, Zenon
<1>5. ASSUME NEW v \in {"failed", "completed"}, J!Owned(r, j), o.at \in {"ok", "err"},
             table' = [table EXCEPT ![j].status = v, ![j].meta = o.cur]
      PROVE  Table' /\ Ends(r, j)
  <2> DEFINE x == [y EXCEPT !.status = v, !.meta = o.cur]
  <2>1. /\ x \in Rows /\ x.status = v /\ x.runner = y.runner /\ x.by = y.by
        /\ x.attempts = y.attempts /\ x.age = y.age /\ x.starts = y.starts /\ x.meta = o.cur
    BY <1>0, <1>1, Zenon DEF Rows
  <2>2. y.status = "running" /\ v \in J!Terminal /\ y.runner = J!RunnerID(r)
    BY <1>0, <1>5, Zenon DEF J!Owned
  <2>3. table' = [table EXCEPT ![j] = x]
    BY <1>5, Zenon DEF Table
  <2> HIDE DEF x
  <2> QED
    BY <1>2, <1>5, <2>1, <2>2, <2>3, Zenon
<1>6. ASSUME o.at \in {"ok", "err"}, table' = J!Finalized(r, j)
      PROVE  Table' /\ Ends(r, j)
  <2>1. CASE y.status = "cancelled" /\ y.runner = J!RunnerID(r)
    <3> DEFINE x == [y EXCEPT !.meta = o.cur]
    <3>1. /\ x \in Rows /\ x.status = y.status /\ x.runner = y.runner /\ x.by = y.by
          /\ x.attempts = y.attempts /\ x.age = y.age /\ x.starts = y.starts /\ x.meta = o.cur
      BY <1>0, <1>1, Zenon DEF Rows
    <3>2. table' = [table EXCEPT ![j] = x]
      BY <1>6, <2>1, Zenon DEF J!Finalized
    <3> HIDE DEF x
    <3> QED
      BY <1>2, <1>6, <2>1, <3>1, <3>2, Zenon
  <2>2. CASE ~(y.status = "cancelled" /\ y.runner = J!RunnerID(r))
    BY <1>3, <1>6, <2>2, Zenon DEF J!Finalized
  <2> QED
    BY <2>1, <2>2, Zenon
<1>7. CASE J!FailExhausted(r, j) \/ J!Panic(r, j) \/ J!FinishLost(r, j)
  BY <1>3, <1>4, <1>7, Zenon DEF J!FailExhausted, J!Panic, J!FinishLost
<1>8. CASE J!Complete(r, j)
  BY <1>5, <1>6, <1>8, Zenon DEF J!Complete
<1>9. CASE J!Fail(r, j)
  BY <1>5, <1>6, <1>9, Zenon DEF J!Fail
<1> QED
  BY <1>7, <1>8, <1>9, Zenon

\* A job is created.
LEMMA EnqueueStep ==
    ASSUME J!SidekiqAssumption, Table, Fenced, NEW r \in Runners, NEW j \in J!JobIds, J!Enqueue(r, j)
    PROVE  Table' /\ Enqueues(r, j)
<1>1. PICK at \in {"parked", J!None} : J!Set(r, j, [J!NoExec EXCEPT !.at = at])
  BY Zenon DEF J!Enqueue
<1> DEFINE e == [J!NoExec EXCEPT !.at = at]
           x == [table[j] EXCEPT !.status = "pending"]
<1>2. at \in Places
  BY <1>1, Zenon DEF Places
<1>3. e \in Goroutines /\ e.at = at /\ ~e.beats /\ ~e.reg
  BY <1>2, NoExecFacts, Zenon
<1>4. x \in Rows
  BY ZenonT(30) DEF Table, Rows, JobStatuses
<1>5. table' = [table EXCEPT ![j] = x] /\ J!Set(r, j, e) /\ UNCHANGED <<up, window>>
  BY <1>1, Zenon DEF J!Enqueue
<1> HIDE DEF e, x
<1>6. Table' /\ Frame(r, j) /\ task'[r][j] = e
  BY <1>3, <1>4, <1>5, LocalFacts, Zenon
<1>7. /\ r \in up /\ table[j].status = J!None /\ table' = [table EXCEPT ![j].status = "pending"]
      /\ \A i \in 1..j - 1 : table[i].status # J!None
  BY Zenon DEF J!Enqueue
<1> QED
  BY <1>1, <1>3, <1>6, <1>7, Zenon DEF Enqueues

\* A job is cancelled, a process stops or starts its dispatcher, time passes.
LEMMA OutsideStep ==
    ASSUME J!SidekiqAssumption, Table,
           \/ \E r \in Runners, j \in J!JobIds : J!Cancel(r, j)
           \/ \E r \in Runners : J!Stop(r) \/ J!StartDispatcher(r)
           \/ J!Tick
    PROVE  /\ Table'
           /\ \/ \E j \in J!JobIds : Cancels(j)
              \/ \E r \in Runners : Stops(r) \/ Opens(r)
              \/ TimePasses
<1>1. ASSUME NEW r \in Runners, NEW j \in J!JobIds, J!Cancel(r, j) PROVE Table' /\ Cancels(j)
  <2> DEFINE x == [table[j] EXCEPT !.status = "cancelled"]
  <2>1. /\ x \in Rows /\ x.status = "cancelled" /\ x.runner = table[j].runner /\ x.by = table[j].by
        /\ x.attempts = table[j].attempts /\ x.age = table[j].age /\ x.starts = table[j].starts
        /\ x.meta = table[j].meta
    BY ZenonT(30) DEF Table, Rows, JobStatuses, J!Terminal
  <2>2. table' = [table EXCEPT ![j] = x] /\ table[j].status \in {"pending", "running"}
        /\ UNCHANGED <<task, up, window>>
    BY <1>1, Zenon DEF J!Cancel
  <2> HIDE DEF x
  <2>3. table' \in [J!JobIds -> Rows] /\ table'[j] = x /\ \A i \in J!JobIds : i # j => table'[i] = table[i]
    BY <2>1, <2>2, TableFacts, Zenon
  <2> QED
    BY <2>1, <2>2, <2>3, Zenon DEF Table, Cancels, Kept
<1>2. ASSUME NEW r \in Runners, J!Stop(r) PROVE Table' /\ Stops(r)
  <2>1. UNCHANGED <<table, window>> /\ up' = up \ {r}
    BY <1>2, Zenon DEF J!Stop
  <2>2. task' = [task EXCEPT ![r] = [j \in J!JobIds |-> J!NoExec]]
    BY <1>2, Zenon DEF J!Stop
  <2>3. [j \in J!JobIds |-> J!NoExec] \in [J!JobIds -> Goroutines]
    BY NoExecFacts, Zenon
  <2>4. task' \in [Runners -> [J!JobIds -> Goroutines]]
    BY <2>2, <2>3, Zenon DEF Table
  <2>5. \A q \in Runners, i \in J!JobIds : task'[q][i] = IF q = r THEN J!NoExec ELSE task[q][i]
    BY <2>2 DEF Table
  <2> QED
    BY <2>1, <2>4, <2>5, Zenon DEF Table, Stops
<1>3. ASSUME NEW r \in Runners, J!StartDispatcher(r) PROVE Table' /\ Opens(r)
  BY <1>3, Zenon DEF J!StartDispatcher, Table, Opens
<1>4. ASSUME J!Tick PROVE Table' /\ TimePasses
  <2>1. UNCHANGED <<task, up, window>>
    BY <1>4, Zenon DEF J!Tick
  <2> DEFINE x(j) == IF table[j].status = "running" THEN [table[j] EXCEPT !.age = J!Age(table[j].age)]
                     ELSE table[j]
  <2>2. table' = [j \in J!JobIds |-> x(j)]
    BY <1>4 DEF J!Tick
  <2>3. ASSUME NEW j \in J!JobIds
        PROVE  /\ x(j) \in Rows /\ x(j).status = table[j].status /\ x(j).runner = table[j].runner
               /\ x(j).by = table[j].by /\ x(j).attempts = table[j].attempts
               /\ x(j).meta = table[j].meta /\ x(j).starts = table[j].starts
               /\ table[j].status = "running" => x(j).age = J!Age(table[j].age)
    <3>1. table[j] \in Rows /\ table[j].age \in Nat
      BY Zenon DEF Table, Rows
    <3>2. J!Age(table[j].age) \in Nat
      BY <3>1 DEF J!Age
    <3> QED
      BY <3>1, <3>2, Zenon DEF Rows
  <2> HIDE DEF x
  <2>4. \A j \in J!JobIds : table'[j] = x(j)
    BY <2>2, Zenon
  <2>5. table' \in [J!JobIds -> Rows]
    BY <2>2, <2>3, Zenon
  <2>6. ASSUME Prompt, NEW r \in up, NEW j \in J!JobIds, J!Owned(r, j), table[j].by = r,
               task[r][j].at # J!None
        PROVE  table'[j].age <= StaleAfter
    <3>1. table[j].age < StaleAfter
      BY <1>4, <2>6, Zenon DEF J!Tick
    <3>2. table'[j].age = J!Age(table[j].age)
      BY <2>3, <2>4, <2>6, Zenon DEF J!Owned
    <3>3. table[j].age \in Nat /\ StaleAfter \in Nat
      BY Zenon DEF Table, Rows, J!SidekiqAssumption
    <3> QED
      BY <3>1, <3>2, <3>3 DEF J!Age
  <2> QED
    BY <2>1, <2>3, <2>4, <2>5, <2>6, ZenonT(30) DEF Table, TimePasses, Kept
<1> QED
  BY <1>1, <1>2, <1>3, <1>4, Zenon

\* Every step is one of these.
LEMMA StepClass ==
    ASSUME J!SidekiqAssumption, Table, Fenced, J!Next
    PROVE  /\ Table'
           /\ \/ \E r \in Runners, j \in J!JobIds : Change(r, j)
              \/ \E j \in J!JobIds : Cancels(j)
              \/ \E r \in Runners : Stops(r) \/ Opens(r)
              \/ TimePasses
<1>1. ASSUME NEW r \in Runners, NEW j \in J!JobIds,
             \/ J!Enqueue(r, j) \/ J!Dispatch(r, j) \/ J!Work(r, j) \/ J!Return(r, j) \/ J!Progress(r, j)
             \/ J!Heartbeat(r, j) \/ J!ClaimLost(r, j) \/ J!FinishLost(r, j) \/ J!Panic(r, j)
             \/ J!CancelLocal(r, j)
      PROVE  Table' /\ Change(r, j)
  <2>1. CASE J!TakeSlot(r, j) \/ J!Dispatch(r, j) \/ J!ClaimBegin(r, j)
    BY <2>1, ApproachStep, Zenon DEF Change
  <2>2. CASE J!ClaimSidekiqJob(r, j) \/ J!ClaimCommit(r, j) \/ J!ClaimLost(r, j)
    BY <2>2, ClaimStep, Zenon DEF Change
  <2>3. CASE \/ J!Fetch(r, j) \/ J!CheckCancelled(r, j) \/ J!Progress(r, j) \/ J!Return(r, j)
             \/ J!Heartbeat(r, j) \/ J!CancelLocal(r, j)
    BY <2>3, WorkStep, Zenon DEF Change
  <2>4. CASE \/ J!FailExhausted(r, j) \/ J!Complete(r, j) \/ J!Fail(r, j) \/ J!Panic(r, j)
             \/ J!FinishLost(r, j)
    BY <2>4, EndStep, Zenon DEF Change
  <2>5. CASE J!Enqueue(r, j)
    BY <2>5, EnqueueStep, Zenon DEF Change
  <2> QED
    BY <1>1, <2>1, <2>2, <2>3, <2>4, <2>5, Zenon DEF J!Work
<1> QED
  BY <1>1, OutsideStep, Zenon DEF J!Next

\* The first state.
LEMMA InitFenced == ASSUME J!SidekiqAssumption PROVE J!Init => Table /\ Fenced
<1> SUFFICES ASSUME J!Init PROVE Table /\ Fenced
  BY Zenon
<1>1. \A r \in Runners, j \in J!JobIds : task[r][j] = J!NoExec /\ window[r] \in {0, StaleAfter}
  BY Zenon DEF J!Init
<1>2. \A j \in J!JobIds : /\ table[j] \in Rows /\ table[j].runner = table[j].by
  BY DEF J!Init, Rows, JobStatuses, J!Terminal, J!None
<1>3. Table
  <2>1. table \in [J!JobIds -> Rows]
    BY <1>2 DEF J!Init
  <2>2. task \in [Runners -> [J!JobIds -> Goroutines]]
    BY NoExecFacts DEF J!Init
  <2> QED
    BY <2>1, <2>2, Zenon DEF Table, J!Init
<1>4. ~Anonymous => \A r \in Runners : window[r] = StaleAfter
  BY Zenon DEF J!Init
<1> QED
  BY <1>1, <1>2, <1>3, <1>4, NoExecFacts DEF Fenced, J!Busy, J!None

\* What Fenced says of one goroutine.
Guarded(r, j) ==
    /\ task[r][j].beats \/ task[r][j].reg => J!Busy(r, j)
    /\ J!Busy(r, j) => table[j].status \notin {J!None, "pending"}
    /\ task[r][j].at = "commit" => Snapshots
    /\ task[r][j].at # J!None => r \in up /\ table[j].status # J!None

\* Fenced, goroutine by goroutine.
LEMMA FencedIs ==
    /\ Fenced <=> /\ \A r \in Runners, j \in J!JobIds : Guarded(r, j)
                  /\ ~Anonymous => /\ \A r \in Runners : window[r] = StaleAfter
                                   /\ \A j \in J!JobIds : table[j].runner = table[j].by
    /\ Fenced' <=> /\ \A r \in Runners, j \in J!JobIds : Guarded(r, j)'
                   /\ ~Anonymous => /\ \A r \in Runners : window'[r] = StaleAfter
                                    /\ \A j \in J!JobIds : table'[j].runner = table'[j].by
BY Zenon DEF Fenced, Guarded

\* A step of one goroutine leaves the others guarded, unless it makes the row pending.
LEMMA GuardedKept ==
    ASSUME Fenced, NEW r \in Runners, NEW j \in J!JobIds, Frame(r, j), Guarded(r, j)',
           \/ table'[j].status = table[j].status
           \/ table'[j].status \notin {J!None, "pending"}
           \/ \A q \in Runners : task[q][j].at = J!None,
           ~Anonymous => table'[j].runner = table'[j].by
    PROVE  Fenced'
<1>1. ASSUME NEW q \in Runners, NEW i \in J!JobIds PROVE Guarded(q, i)'
  <2>0. Guarded(q, i) /\ up' = up
    BY FencedIs, Zenon DEF Frame
  <2>1. CASE q = r /\ i = j
    BY <2>1, Zenon
  <2>2. CASE i # j
    <3>1. task'[q][i] = task[q][i] /\ table'[i] = table[i]
      BY <2>2, Zenon DEF Frame
    <3> QED
      BY <2>0, <3>1, Zenon DEF Guarded, J!Busy
  <2>3. CASE q # r /\ i = j
    <3>1. task'[q][j] = task[q][j] /\ Guarded(q, j)
      BY <2>0, <2>3, Zenon DEF Frame
    <3>2. CASE table'[j].status = table[j].status
      BY <2>0, <2>3, <3>1, <3>2, Zenon DEF Guarded, J!Busy
    <3>3. CASE table'[j].status \notin {J!None, "pending"}
      BY <2>0, <2>3, <3>1, <3>3, Zenon DEF Guarded, J!Busy
    <3>4. CASE task[q][j].at = J!None
      <4>1. ~J!Busy(q, j)
        BY <3>4 DEF J!Busy, J!None
      <4>2. task[q][j].at # "commit"
        BY <3>4 DEF J!None
      <4> QED
        BY <2>0, <2>3, <3>1, <3>4, <4>1, <4>2, Zenon DEF Guarded, J!Busy
    <3> QED
      BY <3>2, <3>3, <3>4, Zenon
  <2> QED
    BY <2>1, <2>2, <2>3, Zenon
<1>2. ASSUME ~Anonymous
      PROVE  /\ \A q \in Runners : window'[q] = StaleAfter
             /\ \A i \in J!JobIds : table'[i].runner = table'[i].by
  BY <1>2, FencedIs, Zenon DEF Frame
<1> QED
  BY <1>1, <1>2, FencedIs, Zenon

\* Every goroutine as guarded as before.
LEMMA GuardedAll ==
    ASSUME Fenced, window' = window,
           \A q \in Runners, i \in J!JobIds : Guarded(q, i) => Guarded(q, i)',
           \A i \in J!JobIds : table'[i].runner = table[i].runner /\ table'[i].by = table[i].by
    PROVE  Fenced'
BY FencedIs, Zenon

\* A claim is the only way to work on a job, and it takes the row.
LEMMA NextFenced ==
    ASSUME J!SidekiqAssumption, Table, Fenced, J!Next PROVE Fenced'
<1>0. ASSUME NEW r \in Runners, NEW j \in J!JobIds
      PROVE  Guarded(r, j) /\ (~Anonymous => table[j].runner = table[j].by)
  BY <1>0, FencedIs, Zenon
<1>1. ASSUME NEW r \in Runners, NEW j \in J!JobIds, Approaches(r, j) PROVE Fenced'
  <2>1. /\ Frame(r, j) /\ table'[j] = table[j] /\ up' = up
        /\ (~Anonymous => table[j].runner = table[j].by)
    BY <1>0, <1>1, Zenon DEF Approaches, Frame
  <2>2. /\ ~task'[r][j].beats /\ ~task'[r][j].reg
        /\ r \in up /\ table[j].status # J!None
        /\ task'[r][j].at = "commit" => Snapshots
    <3>1. table[j].status # J!None
      BY <1>0, <1>1, Zenon DEF Approaches, Guarded, J!Claimable, J!Stale, J!None
    <3> QED
      BY <1>0, <1>1, <3>1, Zenon DEF Approaches, Guarded
  <2>3. ~J!Busy(r, j)'
    BY <1>1, Zenon DEF Approaches, J!Busy, J!None
  <2>4. Guarded(r, j)'
    BY <2>1, <2>2, <2>3, Zenon DEF Guarded
  <2> QED
    BY <2>1, <2>4, GuardedKept, Zenon
<1>2. ASSUME NEW r \in Runners, NEW j \in J!JobIds, Claims(r, j) PROVE Fenced'
  <2>1. /\ Frame(r, j) /\ up' = up /\ table'[j].status = "running"
        /\ (~Anonymous => table'[j].runner = table'[j].by)
    BY <1>2, Zenon DEF Claims, Frame, J!RunnerID
  <2>2. /\ ~J!Busy(r, j) /\ task[r][j].at # J!None /\ task'[r][j].at # "commit"
        /\ table'[j].status \notin {J!None, "pending"}
    BY <1>2, <2>1, Zenon DEF Claims, J!Busy, J!None
  <2>3. ~task'[r][j].beats /\ ~task'[r][j].reg /\ r \in up
    BY <1>0, <1>2, <2>2, Zenon DEF Claims, Guarded
  <2>4. Guarded(r, j)'
    BY <2>1, <2>2, <2>3, Zenon DEF Guarded
  <2> QED
    BY <2>1, <2>2, <2>4, GuardedKept, Zenon
<1>3. ASSUME NEW r \in Runners, NEW j \in J!JobIds, Works(r, j) PROVE Fenced'
  <2>1. /\ Frame(r, j) /\ table'[j].status = table[j].status /\ up' = up /\ J!Busy(r, j)
        /\ (~Anonymous => table'[j].runner = table'[j].by)
    BY <1>0, <1>3, Zenon DEF Works, Frame
  <2>2. J!Busy(r, j)' /\ task'[r][j].at # "commit" /\ task[r][j].at # J!None
    BY <1>3, Zenon DEF Works, J!Busy, J!None
  <2>3. Guarded(r, j)'
    BY <1>0, <2>1, <2>2, Zenon DEF Guarded
  <2> QED
    BY <2>1, <2>3, GuardedKept, Zenon
<1>4. ASSUME NEW r \in Runners, NEW j \in J!JobIds, Ends(r, j) PROVE Fenced'
  <2>1. /\ Frame(r, j) /\ task'[r][j] = J!NoExec
        /\ (~Anonymous => table'[j].runner = table'[j].by)
    BY <1>0, <1>4, Zenon DEF Ends
  <2>2. table'[j].status = table[j].status \/ table'[j].status \notin {J!None, "pending"}
    BY <1>4, Zenon DEF Ends, J!Terminal, J!None
  <2>3. task'[r][j].at = J!None /\ ~task'[r][j].beats /\ ~task'[r][j].reg
    BY <2>1, NoExecFacts, Zenon
  <2>4. ~J!Busy(r, j)' /\ task'[r][j].at # "commit"
    BY <2>3 DEF J!Busy, J!None
  <2>5. Guarded(r, j)'
    BY <2>3, <2>4, Zenon DEF Guarded
  <2> QED
    BY <2>1, <2>2, <2>5, GuardedKept, Zenon
<1>5. ASSUME NEW r \in Runners, NEW j \in J!JobIds, Enqueues(r, j) PROVE Fenced'
  <2>1. /\ table'[j].status = "pending" /\ table'[j].runner = table[j].runner
        /\ table'[j].by = table[j].by
    BY <1>5, Zenon DEF Enqueues, Table, Rows
  <2>2. \A q \in Runners : task[q][j].at = J!None
    BY <1>0, <1>5, Zenon DEF Enqueues, Guarded
  <2>3. /\ Frame(r, j) /\ up' = up /\ r \in up /\ ~task'[r][j].beats /\ ~task'[r][j].reg
        /\ (~Anonymous => table'[j].runner = table'[j].by)
    BY <1>0, <1>5, <2>1, Zenon DEF Enqueues, Frame
  <2>4. ~J!Busy(r, j)' /\ task'[r][j].at # "commit" /\ table'[j].status # J!None
    BY <1>5, <2>1 DEF Enqueues, J!Busy, J!None
  <2>5. Guarded(r, j)'
    BY <2>3, <2>4, Zenon DEF Guarded
  <2> QED
    BY <2>2, <2>3, <2>5, GuardedKept, Zenon
<1>6. ASSUME NEW j \in J!JobIds, Cancels(j) PROVE Fenced'
  <2>1. /\ window' = window /\ task' = task /\ up' = up
        /\ \A i \in J!JobIds : table'[i].runner = table[i].runner /\ table'[i].by = table[i].by
        /\ \A i \in J!JobIds : \/ table'[i].status = table[i].status
                               \/ table'[i].status = "cancelled"
    BY <1>6, Zenon DEF Cancels, Kept
  <2>2. "cancelled" \notin {J!None, "pending"}
    BY DEF J!None
  <2>3. ASSUME NEW q \in Runners, NEW i \in J!JobIds, Guarded(q, i) PROVE Guarded(q, i)'
    <3>1. /\ task'[q][i] = task[q][i] /\ up' = up
          /\ \/ table'[i].status = table[i].status
             \/ table'[i].status \notin {J!None, "pending"}
      BY <2>1, <2>2, Zenon
    <3> QED
      BY <2>3, <3>1, Zenon DEF Guarded, J!Busy
  <2> QED
    BY <2>1, <2>3, GuardedAll, Zenon
<1>7. ASSUME NEW r \in Runners, Stops(r) PROVE Fenced'
  <2>1. window' = window /\ table' = table /\ up' = up \ {r}
    BY <1>7, Zenon DEF Stops
  <2>2. ASSUME NEW q \in Runners, NEW i \in J!JobIds PROVE Guarded(q, i)'
    <3>1. CASE q = r
      <4>1. task'[q][i].at = J!None /\ ~task'[q][i].beats /\ ~task'[q][i].reg
        BY <1>7, <3>1, NoExecFacts, Zenon DEF Stops
      <4>2. ~J!Busy(q, i)' /\ task'[q][i].at # "commit"
        BY <4>1 DEF J!Busy, J!None
      <4> QED
        BY <4>1, <4>2, Zenon DEF Guarded
    <3>2. CASE q # r
      <4>1. task'[q][i] = task[q][i] /\ (q \in up => q \in up')
        BY <1>7, <2>1, <3>2, Zenon DEF Stops
      <4> QED
        BY <1>0, <2>1, <4>1, ZenonT(30) DEF Guarded, J!Busy
    <3> QED
      BY <3>1, <3>2, Zenon
  <2> QED
    BY <2>1, <2>2, GuardedAll, Zenon
<1>8. ASSUME NEW r \in Runners, Opens(r) PROVE Fenced'
  BY <1>8, FencedIs, Zenon DEF Opens, Guarded, J!Busy
<1>9. ASSUME TimePasses PROVE Fenced'
  <2>1. /\ window' = window /\ task' = task /\ up' = up
        /\ \A i \in J!JobIds : table'[i].runner = table[i].runner /\ table'[i].by = table[i].by
        /\ \A i \in J!JobIds : table'[i].status = table[i].status
    BY <1>9, Zenon DEF TimePasses, Kept
  <2>2. ASSUME NEW q \in Runners, NEW i \in J!JobIds, Guarded(q, i) PROVE Guarded(q, i)'
    <3>1. table'[i].status = table[i].status /\ task'[q][i] = task[q][i] /\ up' = up
      BY <2>1, Zenon
    <3> QED
      BY <2>2, <3>1, Zenon DEF Guarded, J!Busy
  <2> QED
    BY <2>1, <2>2, GuardedAll, Zenon
<1> QED
  BY <1>1, <1>2, <1>3, <1>4, <1>5, <1>6, <1>7, <1>8, <1>9, StepClass, Zenon DEF Change

\* A step that leaves the runner alone.
LEMMA Stuttering == ASSUME UNCHANGED J!vars PROVE (Table => Table') /\ (Fenced => Fenced')
<1>1. table' = table /\ task' = task /\ up' = up /\ window' = window
  BY Zenon DEF J!vars
<1> QED
  BY <1>1, Zenon DEF Table, Fenced, J!Busy

\* With prompt heartbeats and runner ids, the goroutine that works on a job is the one of the
\* last claim, and its row is fresh.
Prompted ==
    \A r \in Runners, j \in J!JobIds :
        J!Busy(r, j) => table[j].by = r /\ (table[j].status = "running" => table[j].age <= StaleAfter)

\* A claim finds nobody at work: the job was never claimed, or its last runner is late.
LEMMA ClaimFindsNone ==
    ASSUME J!SidekiqAssumption, Table, Fenced, ~Anonymous, Prompted,
           NEW r \in Runners, NEW j \in J!JobIds, J!Claimable(r, j)
    PROVE  \A q \in Runners : ~J!Busy(q, j)
<1>1. ASSUME NEW q \in Runners, J!Busy(q, j) PROVE FALSE
  <2>1. table[j].status = "running" /\ table[j].age > window[r] /\ window[r] = StaleAfter
    BY <1>1, Zenon DEF J!Claimable, J!Stale, Fenced
  <2>2. table[j].age <= StaleAfter /\ table[j].age \in Nat /\ StaleAfter \in Nat
    BY <1>1, <2>1, Zenon DEF Prompted, Table, Rows, J!SidekiqAssumption
  <2> QED
    BY <2>1, <2>2
<1> QED
  BY <1>1, Zenon

\* A live owner is never overtaken: its heartbeat keeps the row fresh (runHeartbeat).
LEMMA NextPrompted ==
    ASSUME J!SidekiqAssumption, Table, Fenced, ~Anonymous, Prompt, Prompted, J!Next
    PROVE  Prompted'
<1>1. ASSUME NEW r \in Runners, NEW j \in J!JobIds, Approaches(r, j) PROVE Prompted'
  BY <1>1 DEF Approaches, Frame, Prompted, J!Busy, J!None
<1>2. ASSUME NEW r \in Runners, NEW j \in J!JobIds, Claims(r, j) PROVE Prompted'
  <2>1. /\ \A q \in Runners, i \in J!JobIds : q # r \/ i # j => task'[q][i] = task[q][i]
        /\ \A i \in J!JobIds : i # j => table'[i] = table[i]
        /\ table'[j].by = r /\ table'[j].age = 0 /\ J!Claimable(r, j)
    BY <1>2, Zenon DEF Claims, Frame
  <2>2. \A q \in Runners : ~J!Busy(q, j)
    BY <2>1, ClaimFindsNone, Zenon
  <2>3. 0 <= StaleAfter
    BY DEF J!SidekiqAssumption
  <2> QED
    BY <2>1, <2>2, <2>3 DEF Prompted, J!Busy
<1>3. ASSUME NEW r \in Runners, NEW j \in J!JobIds, Works(r, j) PROVE Prompted'
  <2>1. /\ \A q \in Runners, i \in J!JobIds : q # r \/ i # j => task'[q][i] = task[q][i]
        /\ \A i \in J!JobIds : i # j => table'[i] = table[i]
        /\ table'[j].by = table[j].by /\ table'[j].status = table[j].status
        /\ table'[j].age \in {0, table[j].age} /\ J!Busy(r, j)
    BY <1>3, Zenon DEF Works, Frame
  <2>2. 0 <= StaleAfter
    BY DEF J!SidekiqAssumption
  <2> QED
    BY <2>1, <2>2 DEF Prompted, J!Busy
<1>4. ASSUME NEW r \in Runners, NEW j \in J!JobIds, Ends(r, j) PROVE Prompted'
  <2>1. /\ \A q \in Runners, i \in J!JobIds : q # r \/ i # j => task'[q][i] = task[q][i]
        /\ \A i \in J!JobIds : i # j => table'[i] = table[i]
        /\ table'[j].by = table[j].by /\ table'[j].age = table[j].age
        /\ table'[j].status = "running" => table[j].status = "running"
    BY <1>4, Zenon DEF Ends, Frame, J!Terminal
  <2>2. ~J!Busy(r, j)'
    BY <1>4, NoExecFacts DEF Ends, J!Busy, J!None
  <2> QED
    BY <2>1, <2>2 DEF Prompted, J!Busy
<1>5. ASSUME NEW r \in Runners, NEW j \in J!JobIds, Enqueues(r, j) PROVE Prompted'
  <2>1. table'[j].status = "pending" /\ table'[j].by = table[j].by
    BY <1>5, Zenon DEF Enqueues, Table, Rows
  <2> QED
    BY <1>5, <2>1 DEF Enqueues, Frame, Prompted, J!Busy, J!None
<1>6. ASSUME NEW j \in J!JobIds, Cancels(j) PROVE Prompted'
  BY <1>6 DEF Cancels, Kept, Prompted, J!Busy
<1>7. ASSUME NEW r \in Runners, Stops(r) PROVE Prompted'
  BY <1>7, NoExecFacts DEF Stops, Prompted, J!Busy, J!None
<1>8. ASSUME NEW r \in Runners, Opens(r) PROVE Prompted'
  BY <1>8, Zenon DEF Opens, Prompted, J!Busy
<1>9. ASSUME TimePasses PROVE Prompted'
  <2>1. /\ UNCHANGED task
        /\ \A j \in J!JobIds : table'[j].by = table[j].by /\ table'[j].status = table[j].status
    BY <1>9, Zenon DEF TimePasses, Kept
  <2>2. ASSUME NEW r \in Runners, NEW j \in J!JobIds, J!Busy(r, j), table[j].status = "running"
        PROVE  table'[j].age <= StaleAfter
    <3>1. table[j].by = r /\ task[r][j].at # J!None
      BY <2>2 DEF Prompted, J!Busy, J!None
    <3>2. J!Owned(r, j) /\ r \in up
      BY <2>2, <3>1, Zenon DEF J!Owned, J!RunnerID, Fenced
    <3> QED
      BY <1>9, <3>1, <3>2, Zenon DEF TimePasses
  <2> QED
    BY <2>1, <2>2, Zenon DEF Prompted, J!Busy
<1> QED
  BY <1>1, <1>2, <1>3, <1>4, <1>5, <1>6, <1>7, <1>8, <1>9, StepClass, Zenon DEF Change

\* As long as heartbeats come in time, no two runners work on one job (ClaimSidekiqJob,
\* HeartbeatSidekiqJob), however claims race, processes die and replies are lost.
THEOREM OneRunner ==
    ASSUME J!SidekiqAssumption, Prompt, ~Anonymous PROVE J!Spec => []J!OneRunnerPerJob
<1> DEFINE Inv == Table /\ Fenced /\ Prompted
<1>1. J!Init => Inv
  <2> SUFFICES ASSUME J!Init PROVE Inv
    BY Zenon
  <2>1. \A r \in Runners, j \in J!JobIds : task[r][j] = J!NoExec
    BY Zenon DEF J!Init
  <2>2. Prompted
    BY <2>1, NoExecFacts DEF Prompted, J!Busy, J!None
  <2> QED
    BY <2>2, InitFenced, Zenon
<1>2. Inv /\ J!Next => Inv'
  BY StepClass, NextFenced, NextPrompted, Zenon
<1>3. Inv /\ UNCHANGED J!vars => Inv'
  <2> SUFFICES ASSUME Inv, UNCHANGED J!vars PROVE Inv'
    BY Zenon
  <2>1. table' = table /\ task' = task
    BY Zenon DEF J!vars
  <2>2. Prompted'
    BY <2>1, Zenon DEF Prompted, J!Busy
  <2> QED
    BY <2>2, Stuttering, Zenon
<1>4. Inv => J!OneRunnerPerJob
  BY Zenon DEF Prompted, J!OneRunnerPerJob
<1> QED
  BY <1>1, <1>2, <1>3, <1>4, PTL DEF J!Spec

\* No two jobs of the key are running and worked on.
Apart ==
    \A i, j \in Partitioned : i # j =>
        ~\E q, r \in Runners : /\ J!Busy(q, i) /\ J!Busy(r, j)
                               /\ table[i].status = "running" /\ table[j].status = "running"

\* A job at work under a row that is running.
Active(j) == table[j].status = "running" /\ \E r \in Runners : J!Busy(r, j)

\* Whatever is at work afterwards was at work before.
LEMMA ApartKept ==
    ASSUME Apart, \A j \in Partitioned : Active(j)' => Active(j)
    PROVE  Apart'
BY Zenon DEF Apart, Active

\* The claim of a job of the key finds no other one at work (G1 of ClaimSidekiqJob).
LEMMA NextApart ==
    ASSUME J!SidekiqAssumption, Table, Fenced, ~Anonymous, ~Snapshots, Prompted, Apart, J!Next
    PROVE  Apart'
<1>0. \A j \in Partitioned : j \in J!JobIds
  BY Zenon DEF J!SidekiqAssumption
<1>1. ASSUME NEW r \in Runners, NEW j \in J!JobIds,
             Approaches(r, j) \/ Ends(r, j) \/ Enqueues(r, j)
      PROVE  Apart'
  <2>1. /\ \A q \in Runners, i \in J!JobIds : q # r \/ i # j => task'[q][i] = task[q][i]
        /\ \A i \in J!JobIds : i # j => table'[i] = table[i]
    BY <1>1, Zenon DEF Approaches, Ends, Enqueues, Frame
  <2>2. ~J!Busy(r, j)'
    BY <1>1, NoExecFacts, Zenon DEF Approaches, Ends, Enqueues, J!Busy, J!None
  <2>3. table'[j].status = "running" => table[j].status = "running"
    BY <1>1, Zenon DEF Approaches, Ends, Enqueues, J!Terminal, Table, Rows
  <2>4. \A i \in Partitioned : Active(i)' => Active(i)
    BY <1>0, <2>1, <2>2, <2>3, Zenon DEF Active, J!Busy
  <2> QED
    BY <2>4, ApartKept, Zenon
<1>2. ASSUME NEW r \in Runners, NEW j \in J!JobIds, Claims(r, j) PROVE Apart'
  <2>1. /\ \A q \in Runners, i \in J!JobIds : q # r \/ i # j => task'[q][i] = task[q][i]
        /\ \A i \in J!JobIds : i # j => table'[i] = table[i]
    BY <1>2, Zenon DEF Claims, Frame
  <2>2. J!Blockers(r, j) = {}
    BY <1>2, Zenon DEF Claims, Fenced
  <2>3. ASSUME j \in Partitioned, NEW i \in Partitioned, i # j, Active(i) PROVE FALSE
    <3>1. J!G1(r, j) = {}
      BY <2>2, <2>3, Zenon DEF J!Blockers
    <3>2. PICK q \in Runners : J!Busy(q, i)
      BY <2>3, Zenon DEF Active
    <3>3. table[i].age <= StaleAfter /\ window[r] = StaleAfter
      BY <1>0, <2>3, <3>2, Zenon DEF Prompted, Active, Fenced
    <3> QED
      BY <2>3, <3>1, <3>3, Zenon DEF J!G1, Active
  <2>4. \A i \in Partitioned : i # j => (Active(i)' => Active(i))
    BY <1>0, <2>1 DEF Active, J!Busy
  <2>5. \A i \in Partitioned : j \in Partitioned /\ i # j => ~Active(i)'
    BY <2>3, <2>4, Zenon
  <2>6. CASE j \in Partitioned
    BY <2>5, <2>6, Zenon DEF Apart, Active
  <2>7. CASE j \notin Partitioned
    BY <2>4, <2>7, ApartKept, Zenon
  <2> QED
    BY <2>6, <2>7, Zenon
<1>3. ASSUME NEW r \in Runners, NEW j \in J!JobIds, Works(r, j) PROVE Apart'
  <2>1. /\ \A q \in Runners, i \in J!JobIds : q # r \/ i # j => task'[q][i] = task[q][i]
        /\ \A i \in J!JobIds : table'[i].status = table[i].status
        /\ J!Busy(r, j)
    BY <1>3, Zenon DEF Works, Frame
  <2>2. \A i \in Partitioned : Active(i)' => Active(i)
    BY <1>0, <2>1 DEF Active, J!Busy
  <2> QED
    BY <2>2, ApartKept, Zenon
<1>4. ASSUME NEW j \in J!JobIds, Cancels(j) PROVE Apart'
  <2>1. \A i \in Partitioned : Active(i)' => Active(i)
    BY <1>0, <1>4 DEF Cancels, Active, J!Busy
  <2> QED
    BY <2>1, ApartKept, Zenon
<1>5. ASSUME NEW r \in Runners, Stops(r) PROVE Apart'
  <2>1. \A i \in Partitioned : Active(i)' => Active(i)
    BY <1>0, <1>5, NoExecFacts DEF Stops, Active, J!Busy, J!None
  <2> QED
    BY <2>1, ApartKept, Zenon
<1>6. ASSUME TimePasses \/ \E r \in Runners : Opens(r) PROVE Apart'
  <2>1. task' = task /\ \A i \in J!JobIds : table'[i].status = table[i].status
    BY <1>6, Zenon DEF Opens, TimePasses
  <2>2. \A i \in Partitioned : Active(i)' => Active(i)
    BY <1>0, <2>1, Zenon DEF Active, J!Busy
  <2> QED
    BY <2>2, ApartKept, Zenon
<1> QED
  BY <1>1, <1>2, <1>3, <1>4, <1>5, <1>6, StepClass, Zenon DEF Change

\* Jobs of one partitioning key run one at a time (ClaimSidekiqJob), where the claim is one
\* serialized statement and heartbeats come in time.
THEOREM KeyRunsOne ==
    ASSUME J!SidekiqAssumption, Prompt, ~Anonymous, ~Snapshots PROVE J!Spec => []J!OneJobPerKey
<1> DEFINE Inv == Table /\ Fenced /\ Prompted /\ Apart
<1>1. J!Init => Inv
  <2> SUFFICES ASSUME J!Init PROVE Inv
    BY Zenon
  <2>1. \A r \in Runners, j \in J!JobIds : task[r][j] = J!NoExec
    BY Zenon DEF J!Init
  <2>2. \A r \in Runners, j \in J!JobIds : ~J!Busy(r, j)
    BY <2>1, NoExecFacts DEF J!Busy, J!None
  <2>3. Prompted /\ Apart
    BY <2>2, Zenon DEF Prompted, Apart, J!SidekiqAssumption
  <2> QED
    BY <2>3, InitFenced, Zenon
<1>2. Inv /\ J!Next => Inv'
  BY StepClass, NextFenced, NextPrompted, NextApart, Zenon
<1>3. Inv /\ UNCHANGED J!vars => Inv'
  <2> SUFFICES ASSUME Inv, UNCHANGED J!vars PROVE Inv'
    BY Zenon
  <2>1. table' = table /\ task' = task
    BY Zenon DEF J!vars
  <2>2. Prompted'
    BY <2>1, Zenon DEF Prompted, J!Busy
  <2>3. Apart'
    BY <2>1, Zenon DEF Apart, J!Busy
  <2> QED
    BY <2>2, <2>3, Stuttering, Zenon
<1>4. Inv => J!OneJobPerKey
  BY Zenon DEF Apart, J!OneJobPerKey
<1> QED
  BY <1>1, <1>2, <1>3, <1>4, PTL DEF J!Spec

\* Jobs are created in their order, a claim in two parts keeps what it saw of the older ones,
\* and jobs of the key start in their order.
Queued ==
    /\ \A i, j \in J!JobIds : i < j /\ table[j].status # J!None => table[i].status # J!None
    /\ \A j \in J!JobIds : table[j].status = J!None => table[j].attempts = 0
    /\ \A r \in Runners : \A i, j \in Partitioned :
         i < j /\ task[r][j].at = "commit" => table[i].status # "pending"
    /\ J!StartedInOrder

\* No job becomes pending, starts, or gets between the parts of its claim.
LEMMA QueuedKept ==
    ASSUME Queued,
           \A j \in J!JobIds : /\ table'[j].status = J!None <=> table[j].status = J!None
                               /\ table'[j].status = "pending" => table[j].status = "pending"
                               /\ table'[j].attempts = table[j].attempts,
           \A r \in Runners, j \in J!JobIds : task'[r][j].at = "commit" => task[r][j].at = "commit",
           Partitioned \subseteq J!JobIds
    PROVE  Queued'
BY Zenon DEF Queued, J!StartedInOrder

\* The claim of a job of the key finds no older one pending (G2 of ClaimSidekiqJob).
LEMMA NextQueued ==
    ASSUME J!SidekiqAssumption, Table, Fenced, Queued, J!Next PROVE Queued'
<1>0. /\ Partitioned \subseteq J!JobIds
      /\ J!JobIds \subseteq Int /\ \A j \in J!JobIds : table[j] \in Rows
  BY DEF J!SidekiqAssumption, J!JobIds, Table
<1>1. ASSUME NEW r \in Runners, NEW j \in J!JobIds, Approaches(r, j) PROVE Queued'
  <2>1. \A i \in J!JobIds : table'[i] = table[i]
    BY <1>1, Zenon DEF Approaches, Frame
  <2>2. \A q \in Runners, i \in J!JobIds : q # r \/ i # j => task'[q][i] = task[q][i]
    BY <1>1, Zenon DEF Approaches, Frame
  <2>3. ASSUME task'[r][j].at = "commit", j \in Partitioned, NEW i \in Partitioned, i < j
        PROVE  table[i].status # "pending"
    <3>1. J!G2(j) = {}
      BY <1>1, <2>3, Zenon DEF Approaches, J!Blockers
    <3>2. i # j
      BY <1>0, <2>3
    <3> QED
      BY <2>3, <3>1, <3>2, Zenon DEF J!G2
  <2>4. \A q \in Runners : \A i, k \in Partitioned :
          i < k /\ task'[q][k].at = "commit" => table'[i].status # "pending"
    <3>1. ASSUME NEW q \in Runners, NEW i \in Partitioned, NEW k \in Partitioned, i < k,
                 task'[q][k].at = "commit"
          PROVE  table[i].status # "pending"
      <4>1. CASE q = r /\ k = j
        BY <2>3, <3>1, <4>1, Zenon
      <4>2. CASE q # r \/ k # j
        <5>1. task[q][k].at = "commit"
          BY <1>0, <2>2, <3>1, <4>2, Zenon
        <5> QED
          BY <3>1, <5>1, Zenon DEF Queued
      <4> QED
        BY <4>1, <4>2, Zenon
    <3> QED
      BY <1>0, <2>1, <3>1, Zenon
  <2> QED
    BY <1>0, <2>1, <2>4, Zenon DEF Queued, J!StartedInOrder
<1>2. ASSUME NEW r \in Runners, NEW j \in J!JobIds, Claims(r, j) PROVE Queued'
  <2>1. \A i \in J!JobIds : i # j => table'[i] = table[i]
    BY <1>2, Zenon DEF Claims, Frame
  <2>2. \A q \in Runners, i \in J!JobIds : task'[q][i].at = "commit" => task[q][i].at = "commit"
    BY <1>2, Zenon DEF Claims, Frame, J!None
  <2>3. table'[j].status = "running" /\ table[j].status # J!None
    BY <1>2, Zenon DEF Claims, J!Claimable, J!Stale, J!None
  <2>4. ASSUME j \in Partitioned, NEW i \in Partitioned, i < j PROVE table[i].status # "pending"
    <3>1. i # j
      BY <1>0, <2>4
    <3>2. CASE task[r][j].at = "commit"
      BY <2>4, <3>2, Zenon DEF Queued
    <3>3. CASE J!Blockers(r, j) = {}
      <4>1. J!G2(j) = {}
        BY <2>4, <3>3, Zenon DEF J!Blockers
      <4> QED
        BY <2>4, <3>1, <4>1, Zenon DEF J!G2
    <3> QED
      BY <1>2, <3>2, <3>3, Zenon DEF Claims
  <2>5. \A i \in J!JobIds : /\ table'[i].status = J!None <=> table[i].status = J!None
                            /\ table'[i].status = "pending" => table[i].status = "pending"
    BY <2>1, <2>3 DEF J!None
  <2>6. \A i, k \in J!JobIds : i < k /\ table'[k].status # J!None => table'[i].status # J!None
    BY <2>5, Zenon DEF Queued
  <2>7. \A i \in J!JobIds : table'[i].status = J!None => table'[i].attempts = 0
    BY <2>1, <2>3, Zenon DEF Queued, J!None
  <2>8. \A q \in Runners : \A i, k \in Partitioned :
          i < k /\ task'[q][k].at = "commit" => table'[i].status # "pending"
    BY <1>0, <2>2, <2>5, Zenon DEF Queued
  <2>9. \A i, k \in Partitioned : i < k /\ table'[k].attempts > 0 => table'[i].status # "pending"
    <3>1. ASSUME NEW i \in Partitioned, NEW k \in Partitioned, i < k, table'[k].attempts > 0
          PROVE  table[i].status # "pending"
      <4>1. CASE k = j
        BY <2>4, <3>1, <4>1, Zenon
      <4>2. CASE k # j
        BY <1>0, <2>1, <3>1, <4>2, Zenon DEF Queued, J!StartedInOrder
      <4> QED
        BY <4>1, <4>2, Zenon
    <3> QED
      BY <1>0, <2>5, <3>1, Zenon
  <2> QED
    BY <2>6, <2>7, <2>8, <2>9, Zenon DEF Queued, J!StartedInOrder
<1>3. ASSUME NEW r \in Runners, NEW j \in J!JobIds, Works(r, j) \/ Ends(r, j) PROVE Queued'
  <2>1. \A i \in J!JobIds : i # j => table'[i] = table[i]
    BY <1>3, Zenon DEF Works, Ends, Frame
  <2>2. \A q \in Runners, i \in J!JobIds : q # r \/ i # j => task'[q][i] = task[q][i]
    BY <1>3, Zenon DEF Works, Ends, Frame
  <2>3. task'[r][j].at # "commit"
    BY <1>3, NoExecFacts, Zenon DEF Works, Ends, J!Busy, J!None
  <2>4. /\ table'[j].attempts = table[j].attempts
        /\ \/ table'[j].status = table[j].status
           \/ table'[j].status \in J!Terminal /\ table[j].status = "running"
    BY <1>3, Zenon DEF Works, Ends
  <2>5. \A i \in J!JobIds : /\ table'[i].status = J!None <=> table[i].status = J!None
                            /\ table'[i].status = "pending" => table[i].status = "pending"
                            /\ table'[i].attempts = table[i].attempts
    BY <2>1, <2>4 DEF J!None, J!Terminal
  <2>6. \A q \in Runners, i \in J!JobIds : task'[q][i].at = "commit" => task[q][i].at = "commit"
    BY <2>2, <2>3, Zenon
  <2> QED
    BY <1>0, <2>5, <2>6, QueuedKept, Zenon
<1>4. ASSUME NEW r \in Runners, NEW j \in J!JobIds, Enqueues(r, j) PROVE Queued'
  <2>1. \A i \in J!JobIds : i # j => table'[i] = table[i]
    BY <1>4, Zenon DEF Enqueues, Frame
  <2>2. \A q \in Runners, i \in J!JobIds : task'[q][i].at = "commit" => task[q][i].at = "commit"
    BY <1>4 DEF Enqueues, Frame, J!None
  <2>3. table'[j].status = "pending" /\ table'[j].attempts = table[j].attempts /\ table[j].attempts = 0
    BY <1>0, <1>4, Zenon DEF Enqueues, Queued, Table, Rows
  <2>4. table[j].status = J!None /\ \A i \in J!JobIds : i < j => table[i].status # J!None
    BY <1>4 DEF Enqueues, J!JobIds
  <2>5. \A i \in J!JobIds : j < i => table[i].status = J!None
    BY <2>4, Zenon DEF Queued
  <2>6. \A i, k \in J!JobIds : i < k /\ table'[k].status # J!None => table'[i].status # J!None
    BY <1>0, <2>1, <2>3, <2>4, Zenon DEF Queued, J!None
  <2>7. \A i \in J!JobIds : table'[i].status = J!None => table'[i].attempts = 0
    BY <2>1, <2>3 DEF Queued, J!None
  <2>8. \A q \in Runners : \A i, k \in Partitioned :
          i < k /\ task'[q][k].at = "commit" => table'[i].status # "pending"
    <3>1. \A q \in Runners, k \in J!JobIds : task'[q][k].at = "commit" => ~(j < k)
      BY <2>2, <2>5 DEF Fenced, J!None
    <3> QED
      BY <1>0, <2>1, <2>2, <3>1, Zenon DEF Queued
  <2>9. \A i, k \in Partitioned : i < k /\ table'[k].attempts > 0 => table'[i].status # "pending"
    <3>1. \A k \in J!JobIds : table'[k].attempts > 0 => k # j /\ ~(j < k)
      BY <1>0, <2>1, <2>3, <2>5 DEF Queued
    <3> QED
      BY <1>0, <2>1, <3>1, Zenon DEF Queued, J!StartedInOrder
  <2> QED
    BY <2>6, <2>7, <2>8, <2>9, Zenon DEF Queued, J!StartedInOrder
<1>5. ASSUME \/ \E j \in J!JobIds : Cancels(j)
             \/ \E r \in Runners : Stops(r) \/ Opens(r)
             \/ TimePasses
      PROVE  Queued'
  <2>1. \A i \in J!JobIds : /\ table'[i].status = J!None <=> table[i].status = J!None
                            /\ table'[i].status = "pending" => table[i].status = "pending"
                            /\ table'[i].attempts = table[i].attempts
    <3>1. ASSUME NEW j \in J!JobIds, Cancels(j), NEW i \in J!JobIds
          PROVE  /\ table'[i].status = J!None <=> table[i].status = J!None
                 /\ table'[i].status = "pending" => table[i].status = "pending"
                 /\ table'[i].attempts = table[i].attempts
      BY <3>1 DEF Cancels, Kept, J!None
    <3>2. CASE TimePasses \/ \E r \in Runners : Stops(r) \/ Opens(r)
      BY <3>2, Zenon DEF Stops, Opens, TimePasses, Kept
    <3> QED
      BY <1>5, <3>1, <3>2, Zenon
  <2>2. \A q \in Runners, i \in J!JobIds : task'[q][i].at = "commit" => task[q][i].at = "commit"
    BY <1>5, NoExecFacts DEF Cancels, Stops, Opens, TimePasses, J!None
  <2> QED
    BY <1>0, <2>1, <2>2, QueuedKept, Zenon
<1> QED
  BY <1>1, <1>2, <1>3, <1>4, <1>5, StepClass, Zenon DEF Change

\* Jobs of one partitioning key start in the order they were created (ClaimSidekiqJob), also
\* where a claim's subqueries see an old snapshot, without heartbeats, and after any crash.
THEOREM KeyInOrder ==
    ASSUME J!SidekiqAssumption PROVE J!Spec => []J!StartedInOrder
<1> DEFINE Inv == Table /\ Fenced /\ Queued
<1>1. J!Init => Inv
  <2> SUFFICES ASSUME J!Init PROVE Inv
    BY Zenon
  <2>1. \A j \in J!JobIds : table[j].status = J!None /\ table[j].attempts = 0
    BY DEF J!Init
  <2>2. \A r \in Runners, j \in J!JobIds : task[r][j].at # "commit"
    BY NoExecFacts DEF J!Init, J!None
  <2>3. Queued
    BY <2>1, <2>2 DEF Queued, J!StartedInOrder, J!SidekiqAssumption
  <2> QED
    BY <2>3, InitFenced, Zenon
<1>2. Inv /\ J!Next => Inv'
  BY StepClass, NextFenced, NextQueued, Zenon
<1>3. Inv /\ UNCHANGED J!vars => Inv'
  <2> SUFFICES ASSUME Inv, UNCHANGED J!vars PROVE Inv'
    BY Zenon
  <2>1. table' = table /\ task' = task
    BY Zenon DEF J!vars
  <2>2. Queued'
    BY <2>1, Zenon DEF Queued, J!StartedInOrder, J!Busy
  <2> QED
    BY <2>2, Stuttering, Zenon
<1>4. Inv => J!StartedInOrder
  BY Zenon DEF Queued
<1> QED
  BY <1>1, <1>2, <1>3, <1>4, PTL DEF J!Spec

\* A job that is completed, failed or cancelled stays so (the status conditions of every
\* statement): no overtaken runner brings it back.
THEOREM JobsEndOnce ==
    ASSUME J!SidekiqAssumption PROVE J!Spec => [][J!TerminalKept]_(J!vars)
<1> DEFINE Inv == Table /\ Fenced
<1>1. J!Init => Inv
  BY InitFenced, Zenon
<1>2. Inv /\ J!Next => Inv'
  BY StepClass, NextFenced, Zenon
<1>3. Inv /\ UNCHANGED J!vars => Inv'
  BY Stuttering, Zenon
<1>4. Inv /\ J!Next => J!TerminalKept
  <2> SUFFICES ASSUME Inv, J!Next, NEW i \in J!JobIds, table[i].status \in J!Terminal
               PROVE  table'[i].status = table[i].status
    BY Zenon DEF J!TerminalKept
  <2>1. table[i].status \notin {J!None, "pending", "running"}
    BY Zenon DEF J!Terminal, J!None
  <2>2. ASSUME NEW r \in Runners, NEW j \in J!JobIds, Change(r, j)
        PROVE  table'[i].status = table[i].status
    <3>1. CASE i # j
      BY <2>2, <3>1, Zenon
         DEF Change, Approaches, Claims, Works, Ends, Enqueues, Frame
    <3>2. CASE i = j
      BY <2>1, <2>2, <3>2, Zenon
         DEF Change, Approaches, Claims, Works, Ends, Enqueues, J!Claimable, J!Stale
    <3> QED
      BY <3>1, <3>2, Zenon
  <2>3. ASSUME NEW j \in J!JobIds, Cancels(j) PROVE table'[i].status = table[i].status
    BY <2>1, <2>3, Zenon DEF Cancels
  <2>4. CASE TimePasses \/ \E r \in Runners : Stops(r) \/ Opens(r)
    BY <2>4, Zenon DEF TimePasses, Stops, Opens
  <2> QED
    BY <2>2, <2>3, <2>4, StepClass, Zenon
<1>5. Inv /\ [J!Next]_(J!vars) => [J!TerminalKept]_(J!vars)
  BY <1>4, Zenon
<1> QED
  BY <1>1, <1>2, <1>3, <1>5, PTL DEF J!Spec

\* The goroutine of the last claim has seen the checkpoint.
Resumed ==
    \A r \in Runners, j \in J!JobIds :
        table[j].by = r /\ task[r][j].at \in {"registered", "run", "ok", "err"}
            => table[j].meta <= task[r][j].cur

\* What a step does to the checkpoint of a job.
LEMMA CheckpointStep ==
    ASSUME J!SidekiqAssumption, Table, Fenced, ~Anonymous, Resumed, J!Next
    PROVE  J!CheckpointKept /\ Resumed'
<1>0. /\ \A j \in J!JobIds : table[j].meta \in Nat /\ table[j].meta >= table[j].meta
      /\ \A r \in Runners, j \in J!JobIds : task[r][j].cur \in Nat
  <2>1. \A j \in J!JobIds : table[j].meta \in Nat
    BY Zenon DEF Table, Rows
  <2>2. \A r \in Runners, j \in J!JobIds : task[r][j].cur \in Nat
    BY DEF Table, Goroutines
  <2> QED
    BY <2>1, <2>2
<1> DEFINE Goal == J!CheckpointKept /\ Resumed'
<1>1. ASSUME NEW r \in Runners, NEW j \in J!JobIds, Frame(r, j),
             table'[j].meta >= table[j].meta,
             \A q \in Runners : table'[j].by = q => /\ table[j].by = q
                                                    /\ (q # r => table'[j].meta = table[j].meta),
             /\ table'[j].by = r /\ task'[r][j].at \in {"registered", "run", "ok", "err"}
                  => table'[j].meta <= task'[r][j].cur
      PROVE  Goal
  BY <1>0, <1>1 DEF Frame, J!CheckpointKept, Resumed
<1>2. ASSUME task' = task,
             \A j \in J!JobIds : table'[j].meta = table[j].meta /\ table'[j].by = table[j].by
      PROVE  Goal
  BY <1>0, <1>2, Zenon DEF J!CheckpointKept, Resumed
<1> SUFFICES Goal
  BY Zenon
<1>3. ASSUME NEW r \in Runners, NEW j \in J!JobIds, Approaches(r, j) \/ Enqueues(r, j) PROVE Goal
  <2>1. Frame(r, j) /\ task'[r][j].at \notin {"registered", "run", "ok", "err"}
    BY <1>3 DEF Approaches, Enqueues, J!None
  <2>2. table'[j].meta = table[j].meta /\ table'[j].by = table[j].by
    BY <1>3, ZenonT(30) DEF Approaches, Enqueues, Table, Rows
  <2> HIDE DEF Goal
  <2> QED
    BY <1>0, <1>1, <2>1, <2>2, Zenon
<1>4. ASSUME NEW r \in Runners, NEW j \in J!JobIds, Claims(r, j) PROVE Goal
  <2>1. /\ \A q \in Runners, i \in J!JobIds : q # r \/ i # j => task'[q][i] = task[q][i]
        /\ \A i \in J!JobIds : i # j => table'[i] = table[i]
        /\ table'[j].meta = table[j].meta /\ table'[j].by = r
    BY <1>4, Zenon DEF Claims, Frame
  <2>2. task'[r][j].at \notin {"registered", "run", "ok", "err"}
    BY <1>4, Zenon DEF Claims, J!None
  <2>3. J!CheckpointKept
    BY <1>0, <2>1, Zenon DEF J!CheckpointKept
  <2>4. Resumed'
    BY <2>1, <2>2 DEF Resumed
  <2> QED
    BY <2>3, <2>4, Zenon
<1>5. ASSUME NEW r \in Runners, NEW j \in J!JobIds, Works(r, j) PROVE Goal
  <2>1. Frame(r, j) /\ table'[j].by = table[j].by
    BY <1>5, Zenon DEF Works
  <2>2. J!Owned(r, j) => table[j].by = r
    BY Zenon DEF J!Owned, J!RunnerID, Fenced
  <2>3. CASE table'[j].meta = table[j].meta
    <3>1. ASSUME table[j].by = r, task'[r][j].at \in {"registered", "run", "ok", "err"}
          PROVE  table[j].meta <= task'[r][j].cur
      <4>1. task'[r][j].cur \in Nat
        BY StepClass DEF Table, Goroutines
      <4>2. CASE task'[r][j].cur = table[j].meta
        BY <1>0, <4>1, <4>2, Zenon
      <4>3. CASE /\ task[r][j].at \in {"registered", "run", "ok", "err"}
                 /\ task'[r][j].cur >= task[r][j].cur \/ task'[r][j].cur = task[r][j].cur
        <5>1. table[j].meta <= task[r][j].cur
          BY <3>1, <4>3, Zenon DEF Resumed
        <5> QED
          BY <1>0, <4>1, <4>3, <5>1
      <4>4. task'[r][j].at # "exhausted"
        BY <3>1
      <4> QED
        BY <1>5, <3>1, <4>2, <4>3, <4>4, Zenon DEF Works
    <3> HIDE DEF Goal
    <3> QED
      BY <1>0, <1>1, <2>1, <2>3, <3>1, Zenon
  <2>4. CASE /\ J!Owned(r, j) /\ task[r][j].at = "run" /\ table'[j].meta = task[r][j].cur + 1
             /\ task'[r][j].cur = task[r][j].cur + 1
    <3>1. table[j].by = r /\ table[j].meta <= task[r][j].cur
      BY <2>2, <2>4, Zenon DEF Resumed
    <3>2. table'[j].meta >= table[j].meta /\ table'[j].meta <= task'[r][j].cur
      BY <1>0, <2>4, <3>1
    <3> HIDE DEF Goal
    <3> QED
      BY <1>1, <2>1, <3>1, <3>2, ZenonT(30)
  <2> QED
    BY <1>5, <2>3, <2>4, Zenon DEF Works
<1>6. ASSUME NEW r \in Runners, NEW j \in J!JobIds, Ends(r, j) PROVE Goal
  <2>1. Frame(r, j) /\ table'[j].by = table[j].by
    BY <1>6, Zenon DEF Ends
  <2>2. task'[r][j].at \notin {"registered", "run", "ok", "err"}
    BY <1>6, NoExecFacts DEF Ends, J!None
  <2>3. CASE table'[j].meta = table[j].meta
    <3> HIDE DEF Goal
    <3> QED
      BY <1>0, <1>1, <2>1, <2>2, <2>3, Zenon
  <2>4. CASE /\ task[r][j].at \in {"ok", "err"} /\ table[j].runner = J!RunnerID(r)
             /\ table'[j].meta = task[r][j].cur
    <3>1. table[j].by = r
      BY <2>4, Zenon DEF J!RunnerID, Fenced
    <3>2. table[j].meta <= task[r][j].cur
      BY <2>4, <3>1, Zenon DEF Resumed
    <3>3. table'[j].meta >= table[j].meta
      BY <1>0, <2>4, <3>2, Zenon
    <3> HIDE DEF Goal
    <3> QED
      BY <1>1, <2>1, <2>2, <3>1, <3>3, Zenon
  <2> QED
    BY <1>6, <2>3, <2>4, Zenon DEF Ends
<1>7. ASSUME \/ \E j \in J!JobIds : Cancels(j)
             \/ \E r \in Runners : Opens(r)
             \/ TimePasses
      PROVE  Goal
  <2>1. task' = task
    BY <1>7, Zenon DEF Cancels, Opens, TimePasses
  <2>2. \A j \in J!JobIds : table'[j].meta = table[j].meta /\ table'[j].by = table[j].by
    BY <1>7, Zenon DEF Cancels, Opens, TimePasses, Kept
  <2> HIDE DEF Goal
  <2> QED
    BY <1>2, <2>1, <2>2, Zenon
<1>8. ASSUME NEW r \in Runners, Stops(r) PROVE Goal
  BY <1>0, <1>8, NoExecFacts DEF Stops, J!CheckpointKept, Resumed, J!None
<1> QED
  BY <1>3, <1>4, <1>5, <1>6, <1>7, <1>8, StepClass, Zenon DEF Change

\* The checkpoint of a job never goes back (UpdateSidekiqJobProgress and its fence by runner
\* id), even when heartbeats are late and a former runner is still busy.
THEOREM CheckpointsMoveForward ==
    ASSUME J!SidekiqAssumption, ~Anonymous PROVE J!Spec => [][J!CheckpointKept]_(J!vars)
<1> DEFINE Inv == Table /\ Fenced /\ Resumed
<1>1. J!Init => Inv
  <2> SUFFICES ASSUME J!Init PROVE Inv
    BY Zenon
  <2>1. \A r \in Runners, j \in J!JobIds : task[r][j].at = J!None
    BY NoExecFacts DEF J!Init
  <2>2. Resumed
    BY <2>1 DEF Resumed, J!None
  <2> QED
    BY <2>2, InitFenced, Zenon
<1>2. Inv /\ J!Next => Inv' /\ J!CheckpointKept
  BY StepClass, NextFenced, CheckpointStep, Zenon
<1>3. Inv /\ UNCHANGED J!vars => Inv'
  <2> SUFFICES ASSUME Inv, UNCHANGED J!vars PROVE Inv'
    BY Zenon
  <2>1. table' = table /\ task' = task
    BY Zenon DEF J!vars
  <2>2. Resumed'
    BY <2>1, Zenon DEF Resumed, J!Busy
  <2> QED
    BY <2>2, Stuttering, Zenon
<1>5. Inv /\ [J!Next]_(J!vars) => [J!CheckpointKept]_(J!vars)
  BY <1>2, Zenon
<1> QED
  BY <1>1, <1>2, <1>3, <1>5, PTL DEF J!Spec

\* The runners that may still start a job, and those that will.
Due(j) == {r \in Runners : task[r][j].at \in {"claimed", "registered"}}
Reg(j) == {r \in Runners : task[r][j].at = "registered"}

\* Starts are paid for by attempts.
Paid(starts, attempts, due, reg) ==
    /\ attempts < MaxAttempts => starts + due <= attempts
    /\ attempts >= MaxAttempts => starts + reg < MaxAttempts
Counted ==
    \A j \in J!JobIds : Paid(table[j].starts, table[j].attempts, Cardinality(Due(j)), Cardinality(Reg(j)))

\* Sizes of the two sets.
LEMMA Sizes ==
    ASSUME IsFiniteSet(Runners), NEW A \in SUBSET Runners
    PROVE  /\ Cardinality(A) \in Nat /\ IsFiniteSet(A)
           /\ \A B \in SUBSET A : Cardinality(B) \in Nat /\ Cardinality(B) <= Cardinality(A)
           /\ \A r \in A : Cardinality(A \ {r}) = Cardinality(A) - 1
<1>1. IsFiniteSet(A)
  BY FS_Subset, Zenon
<1>2. Cardinality(A) \in Nat
  BY <1>1, FS_CardinalityType, Zenon
<1>3. ASSUME NEW B \in SUBSET A PROVE Cardinality(B) \in Nat /\ Cardinality(B) <= Cardinality(A)
  <2>1. IsFiniteSet(B) /\ Cardinality(B) <= Cardinality(A)
    BY <1>1, FS_Subset, Zenon
  <2> QED
    BY <2>1, FS_CardinalityType, Zenon
<1>4. ASSUME NEW r \in A PROVE Cardinality(A \ {r}) = Cardinality(A) - 1
  BY <1>1, FS_RemoveElement, Zenon
<1> QED
  BY <1>1, <1>2, <1>3, <1>4, Zenon

\* Nobody new may start the job.
LEMMA PaidKept ==
    ASSUME J!SidekiqAssumption, IsFiniteSet(Runners), Table, Counted, NEW j \in J!JobIds,
           Due(j)' \subseteq Due(j), Reg(j)' \subseteq Reg(j),
           table'[j].starts = table[j].starts, table'[j].attempts = table[j].attempts
    PROVE  Paid(table[j].starts, table[j].attempts, Cardinality(Due(j)), Cardinality(Reg(j)))'
<1>1. Due(j) \in SUBSET Runners /\ Reg(j) \in SUBSET Runners
  BY Zenon DEF Due, Reg
<1>2. /\ Cardinality(Due(j)') \in Nat /\ Cardinality(Due(j)') <= Cardinality(Due(j))
      /\ Cardinality(Reg(j)') \in Nat /\ Cardinality(Reg(j)') <= Cardinality(Reg(j))
      /\ Cardinality(Due(j)) \in Nat /\ Cardinality(Reg(j)) \in Nat
  BY <1>1, Sizes, Zenon
<1>3. table[j].starts \in Nat /\ table[j].attempts \in Nat /\ MaxAttempts \in Nat
  BY Zenon DEF Table, Rows, J!SidekiqAssumption
<1>4. Paid(table[j].starts, table[j].attempts, Cardinality(Due(j)), Cardinality(Reg(j)))
  BY Zenon DEF Counted
<1>5. Paid(table[j].starts, table[j].attempts, Cardinality(Due(j)'), Cardinality(Reg(j)'))
  <2> DEFINE d == Cardinality(Due(j))  g == Cardinality(Reg(j))
             e == Cardinality(Due(j)') h == Cardinality(Reg(j)')
             s == table[j].starts  a == table[j].attempts
  <2>1. /\ d \in Nat /\ g \in Nat /\ e \in Nat /\ h \in Nat /\ e <= d /\ h <= g
        /\ s \in Nat /\ a \in Nat /\ MaxAttempts \in Nat /\ Paid(s, a, d, g)
    BY <1>2, <1>3, <1>4, Zenon
  <2> SUFFICES Paid(s, a, e, h)
    OBVIOUS
  <2> HIDE DEF d, g, e, h, s, a
  <2> QED
    BY <2>1 DEF Paid
<1> QED
  BY <1>5, Zenon DEF Paid

\* No step starts a job unpaid.
LEMMA NextCounted ==
    ASSUME J!SidekiqAssumption, IsFiniteSet(Runners), Table, Fenced, Counted, J!Next
    PROVE  Counted'
<1>0. SUFFICES ASSUME NEW j \in J!JobIds
               PROVE  Paid(table[j].starts, table[j].attempts, Cardinality(Due(j)), Cardinality(Reg(j)))'
  BY Zenon DEF Counted
<1> DEFINE Goal == Paid(table[j].starts, table[j].attempts, Cardinality(Due(j)), Cardinality(Reg(j)))'
<1> SUFFICES Goal
  BY Zenon
<1>1. ASSUME task' = task, table'[j].starts = table[j].starts, table'[j].attempts = table[j].attempts
      PROVE  Goal
  <2>1. Due(j)' \subseteq Due(j) /\ Reg(j)' \subseteq Reg(j)
    BY <1>1 DEF Due, Reg
  <2> QED
    BY <1>1, <2>1, PaidKept, Zenon
<1>2. ASSUME NEW r \in Runners, NEW i \in J!JobIds, Frame(r, i), i # j PROVE Goal
  <2>1. table'[j] = table[j] /\ \A p \in Runners : task'[p][j] = task[p][j]
    BY <1>2, Zenon DEF Frame
  <2>2. Due(j)' \subseteq Due(j) /\ Reg(j)' \subseteq Reg(j)
    BY <2>1, Zenon DEF Due, Reg
  <2>3. table'[j].starts = table[j].starts /\ table'[j].attempts = table[j].attempts
    BY <2>1, Zenon
  <2> QED
    BY <2>2, <2>3, PaidKept, Zenon
<1>3. ASSUME NEW r \in Runners, Frame(r, j), table'[j].starts = table[j].starts,
             table'[j].attempts = table[j].attempts,
             \/ task'[r][j].at \notin {"claimed", "registered"}
             \/ task'[r][j].at = task[r][j].at
      PROVE  Goal
  <2>1. \A p \in Runners : p # r => task'[p][j] = task[p][j]
    BY <1>3, Zenon DEF Frame
  <2>2. Due(j)' \subseteq Due(j) /\ Reg(j)' \subseteq Reg(j)
    BY <1>3, <2>1, Zenon DEF Due, Reg
  <2> QED
    BY <1>3, <2>2, PaidKept, Zenon
<1>n. /\ table[j].starts \in Nat /\ table[j].attempts \in Nat /\ MaxAttempts \in Nat
      /\ Due(j) \in SUBSET Runners /\ Reg(j) \in SUBSET Due(j) /\ Reg(j) \in SUBSET Runners
      /\ Due(j)' \in SUBSET Runners /\ Reg(j)' \in SUBSET Runners
      /\ Paid(table[j].starts, table[j].attempts, Cardinality(Due(j)), Cardinality(Reg(j)))
  <2>1. table[j].starts \in Nat /\ table[j].attempts \in Nat /\ MaxAttempts \in Nat
    BY Zenon DEF Table, Rows, J!SidekiqAssumption
  <2>2. /\ Due(j) \in SUBSET Runners /\ Reg(j) \in SUBSET Due(j) /\ Reg(j) \in SUBSET Runners
        /\ Due(j)' \in SUBSET Runners /\ Reg(j)' \in SUBSET Runners
    BY DEF Due, Reg
  <2> QED
    BY <2>1, <2>2, Zenon DEF Counted
<1>m. /\ Cardinality(Due(j)) \in Nat /\ Cardinality(Reg(j)) \in Nat
      /\ Cardinality(Reg(j)) <= Cardinality(Due(j))
      /\ Cardinality(Due(j)') \in Nat /\ Cardinality(Reg(j)') \in Nat
      /\ \A r \in Due(j) : Cardinality(Due(j) \ {r}) = Cardinality(Due(j)) - 1
      /\ \A r \in Reg(j) : Cardinality(Reg(j) \ {r}) = Cardinality(Reg(j)) - 1
  BY <1>n, Sizes, Zenon
<1> DEFINE d == Cardinality(Due(j))  g == Cardinality(Reg(j))
           dd == Cardinality(Due(j)') gg == Cardinality(Reg(j)')
           s == table[j].starts  a == table[j].attempts
           ss == table'[j].starts  aa == table'[j].attempts
<1>o. /\ d \in Nat /\ g \in Nat /\ dd \in Nat /\ gg \in Nat /\ g <= d
      /\ s \in Nat /\ a \in Nat /\ MaxAttempts \in Nat /\ Paid(s, a, d, g)
  BY <1>m, <1>n, Zenon
<1>p. Paid(ss, aa, dd, gg) => Goal
  BY Zenon DEF Paid
<1> HIDE DEF Goal, d, g, dd, gg, s, a, ss, aa
<1>4. ASSUME NEW r \in Runners, Claims(r, j) PROVE Goal
  <2>1. \A p \in Runners : p # r => task'[p][j] = task[p][j]
    BY <1>4, Zenon DEF Claims, Frame
  <2>2. task'[r][j].at # "registered" /\ task[r][j].at \notin {"claimed", "registered"}
    BY <1>4, Zenon DEF Claims, J!None
  <2>3. Reg(j)' = Reg(j) /\ Due(j)' \subseteq Due(j) \cup {r} /\ r \notin Due(j)
    BY <2>1, <2>2, Zenon DEF Due, Reg
  <2>4. gg = g /\ dd <= d + 1
    <3>1. IsFiniteSet(Due(j)) /\ Cardinality(Due(j) \cup {r}) = Cardinality(Due(j)) + 1
      BY <1>n, <2>3, Sizes, FS_AddElement, ZenonT(30)
    <3>2. Due(j) \cup {r} \in SUBSET Runners /\ Due(j)' \in SUBSET (Due(j) \cup {r})
      BY <1>n, <2>3, Zenon
    <3>3. Cardinality(Due(j)') <= Cardinality(Due(j) \cup {r})
      BY <3>2, Sizes, Zenon
    <3> QED
      BY <2>3, <3>1, <3>3 DEF d, dd, g, gg
  <2>5. ss = s /\ aa = J!Bump(a)
    BY <1>4, Zenon DEF Claims, s, ss, a, aa
  <2>6. Paid(ss, aa, dd, gg)
    BY <1>o, <2>4, <2>5 DEF Paid, J!Bump
  <2> QED
    BY <1>p, <2>6, Zenon
<1>5. ASSUME NEW r \in Runners, Works(r, j) PROVE Goal
  <2>1. /\ Frame(r, j) /\ table'[j].attempts = table[j].attempts
        /\ \A p \in Runners : p # r => task'[p][j] = task[p][j]
    BY <1>5, Zenon DEF Works, Frame
  <2>2. CASE table'[j].starts = table[j].starts /\ task'[r][j].at = task[r][j].at
    BY <1>3, <2>1, <2>2, Zenon
  <2>3. CASE table'[j].starts = table[j].starts /\ task'[r][j].at \in {"exhausted", "ok", "err"}
    <3>1. task'[r][j].at \notin {"claimed", "registered"}
      BY <2>3
    <3> QED
      BY <1>3, <2>1, <2>3, <3>1, Zenon
  <2>4. CASE /\ task[r][j].at = "claimed" /\ task'[r][j].at = "registered"
             /\ ~J!Exhausted(j) /\ table'[j].starts = table[j].starts
    <3>1. Due(j)' = Due(j)
      BY <2>1, <2>4, Zenon DEF Due
    <3>2. ss = s /\ aa = a /\ dd = d /\ ~(a >= MaxAttempts)
      BY <2>1, <2>4, <3>1, Zenon DEF s, ss, a, aa, d, dd, J!Exhausted
    <3>3. Paid(ss, aa, dd, gg)
      BY <1>o, <3>2 DEF Paid
    <3> QED
      BY <1>p, <3>3, Zenon
  <2>5. CASE /\ task[r][j].at = "registered" /\ task'[r][j].at = "run"
             /\ table'[j].starts = J!Bump(table[j].starts)
    <3>1. Due(j)' = Due(j) \ {r} /\ Reg(j)' = Reg(j) \ {r} /\ r \in Due(j) /\ r \in Reg(j)
      BY <2>1, <2>5, Zenon DEF Due, Reg
    <3>2. dd = d - 1 /\ gg = g - 1
      BY <1>m, <3>1, Zenon DEF d, dd, g, gg
    <3>3. ss = J!Bump(s) /\ aa = a
      BY <2>1, <2>5, Zenon DEF s, ss, a, aa
    <3>4. Paid(ss, aa, dd, gg)
      BY <1>o, <3>2, <3>3 DEF Paid, J!Bump
    <3> QED
      BY <1>p, <3>4, Zenon
  <2> QED
    BY <1>5, <2>2, <2>3, <2>4, <2>5, Zenon DEF Works
<1>6. ASSUME NEW r \in Runners, Approaches(r, j) \/ Ends(r, j) \/ Enqueues(r, j) PROVE Goal
  <2>1. Frame(r, j) /\ task'[r][j].at \notin {"claimed", "registered"}
    BY <1>6, NoExecFacts, Zenon DEF Approaches, Ends, Enqueues, J!None
  <2>2. table'[j].starts = table[j].starts /\ table'[j].attempts = table[j].attempts
    BY <1>6, ZenonT(30) DEF Approaches, Ends, Enqueues, Table, Rows
  <2> QED
    BY <1>3, <2>1, <2>2, Zenon
<1>7. ASSUME NEW r \in Runners, NEW i \in J!JobIds, Change(r, i) PROVE Goal
  <2>1. Frame(r, i)
    BY <1>7, Zenon DEF Change, Approaches, Claims, Works, Ends, Enqueues
  <2>2. CASE i = j
    BY <1>4, <1>5, <1>6, <1>7, <2>2, Zenon DEF Change
  <2> QED
    BY <1>2, <2>1, <2>2, Zenon
<1>8. ASSUME \/ \E i \in J!JobIds : Cancels(i)
             \/ \E r \in Runners : Opens(r)
             \/ TimePasses
      PROVE  Goal
  <2>1. task' = task
    BY <1>8, Zenon DEF Cancels, Opens, TimePasses
  <2>2. table'[j].starts = table[j].starts /\ table'[j].attempts = table[j].attempts
    BY <1>8, Zenon DEF Cancels, Opens, TimePasses, Kept
  <2> QED
    BY <1>1, <2>1, <2>2, Zenon
<1>9. ASSUME NEW r \in Runners, Stops(r) PROVE Goal
  <2>1. table' = table /\ \A q \in Runners : task'[q][j] = task[q][j] \/ task'[q][j].at = J!None
    BY <1>9, NoExecFacts, Zenon DEF Stops
  <2>2. Due(j)' \subseteq Due(j) /\ Reg(j)' \subseteq Reg(j)
    BY <2>1 DEF Due, Reg, J!None
  <2> QED
    BY <2>1, <2>2, PaidKept, Zenon DEF Goal
<1> QED
  BY <1>7, <1>8, <1>9, StepClass, Zenon

\* Crashes, late heartbeats and lost replies together start a job less than MaxAttempts times.
THEOREM StartsAreBounded ==
    ASSUME J!SidekiqAssumption, IsFiniteSet(Runners) PROVE J!Spec => []J!StartsBounded
<1> DEFINE Inv == Table /\ Fenced /\ Counted
<1>1. J!Init => Inv
  <2> SUFFICES ASSUME J!Init PROVE Inv
    BY Zenon
  <2>1. \A r \in Runners, j \in J!JobIds : task[r][j].at = J!None
    BY NoExecFacts DEF J!Init
  <2>2. \A j \in J!JobIds : table[j].starts = 0 /\ table[j].attempts = 0 /\ Due(j) = {} /\ Reg(j) = {}
    BY <2>1, Zenon DEF J!Init, Due, Reg, J!None
  <2>3. Cardinality({}) = 0
    BY FS_EmptySet, Zenon
  <2>4. MaxAttempts \in Nat \ {0}
    BY DEF J!SidekiqAssumption
  <2>5. Paid(0, 0, 0, 0)
    BY <2>4 DEF Paid
  <2>6. Counted
    BY <2>2, <2>3, <2>5, Zenon DEF Counted
  <2> QED
    BY <2>6, InitFenced, Zenon
<1>2. Inv /\ J!Next => Inv'
  BY StepClass, NextFenced, NextCounted, Zenon
<1>3. Inv /\ UNCHANGED J!vars => Inv'
  <2> SUFFICES ASSUME Inv, UNCHANGED J!vars PROVE Inv'
    BY Zenon
  <2>1. table' = table /\ task' = task
    BY Zenon DEF J!vars
  <2>2. Counted'
    BY <2>1, Zenon DEF Counted, J!Busy, Due, Reg, Paid
  <2> QED
    BY <2>2, Stuttering, Zenon
<1>4. Inv => J!StartsBounded
  <2> SUFFICES ASSUME Inv, NEW j \in J!JobIds PROVE table[j].starts < MaxAttempts
    BY Zenon DEF J!StartsBounded
  <2>1. table[j].starts \in Nat /\ table[j].attempts \in Nat /\ MaxAttempts \in Nat
    BY Zenon DEF Table, Rows, J!SidekiqAssumption
  <2>2. Due(j) \in SUBSET Runners /\ Reg(j) \in SUBSET Runners
    BY Zenon DEF Due, Reg
  <2>3. Cardinality(Due(j)) \in Nat /\ Cardinality(Reg(j)) \in Nat
    BY <2>2, Sizes, Zenon
  <2> QED
    BY <2>1, <2>3 DEF Counted, Paid
<1> QED
  BY <1>1, <1>2, <1>3, <1>4, PTL DEF J!Spec
=============================================================================

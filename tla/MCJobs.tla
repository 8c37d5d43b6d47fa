------------------------------- MODULE MCJobs -------------------------------
(***************************************************************************)
(* Work that outlives a request: the background job runner, the delivery   *)
(* of webhooks and the asynchronous inference jobs.  A behaviour stays in  *)
(* the scene it starts in; the others rest.                                *)
(***************************************************************************)
EXTENDS AsyncJobs, TLC

CONSTANTS Scenes, n1, n2
VARIABLES
    scene,
    kRow, kExec, kUp, kWindow,      \* two jobs of one partitioning key
    lRow, lExec, up, window,        \* one job
    hRow, hWork, hSlots, hNode, hEndpoint, hStored, hHistory, hPast, hFaults,
    pRow, pWork, pSlots, pNode, pEndpoint, pStored, pHistory, pPast, pFaults

kvars == <<kRow, kExec, kUp, kWindow>>
lvars == <<lRow, lExec, up, window>>
hvars == <<hRow, hWork, hSlots, hNode, hEndpoint, hStored, hHistory, hPast, hFaults>>
pvars == <<pRow, pWork, pSlots, pNode, pEndpoint, pStored, pHistory, pPast, pFaults>>

\* Two runners and two jobs of one key; heartbeats come in time, statements fail.
Keyed == INSTANCE Sidekiq WITH
    row <- kRow, exec <- kExec, up <- kUp, window <- kWindow,
    Runners <- {"r1", "r2"}, NumJobs <- 2, Partitioned <- {1, 2}, Mortal <- {"r1"},
    MaxAttempts <- 2, StaleAfter <- 1, MaxConcurrent <- 1, MaxProgress <- 0,
    Prompt <- TRUE, Anonymous <- FALSE, Snapshots <- FALSE, StoreFails <- TRUE,
    MayCancel <- TRUE

\* Heartbeats are late, so that two runners hold one job.
Late == INSTANCE Sidekiq WITH
    row <- lRow, exec <- lExec, Runners <- {"r1", "r2"}, NumJobs <- 1, Partitioned <- {}, Mortal <- {"r1"},
    MaxAttempts <- 3, StaleAfter <- 1, MaxConcurrent <- 1, MaxProgress <- 3,
    Prompt <- FALSE, Anonymous <- FALSE, Snapshots <- FALSE, StoreFails <- FALSE,
    MayCancel <- TRUE

\* As the server starts it: no runner id, and claims that read a snapshot.
Server == INSTANCE Sidekiq WITH
    row <- lRow, exec <- lExec, Runners <- {"r1", "r2"}, NumJobs <- 1, Partitioned <- {}, Mortal <- {"r1"},
    MaxAttempts <- 2, StaleAfter <- 1, MaxConcurrent <- 1, MaxProgress <- 1,
    Prompt <- FALSE, Anonymous <- TRUE, Snapshots <- TRUE, StoreFails <- FALSE,
    MayCancel <- TRUE

\* Two nodes deliver one job, with old lists or with current ones.
Fence == INSTANCE WebhookDispatcher WITH
    row <- hRow, work <- hWork, slots <- hSlots, node <- hNode,
    endpoint <- hEndpoint, stored <- hStored, history <- hHistory, past <- hPast,
    faults <- hFaults,
    Nodes <- {n1, n2}, Jobs <- {"j1"}, Alerts <- {}, Limit <- 1, MaxRetries <- 1,
    MaxRuns <- 1, MaxFaults <- 1, MaxLapses <- 1, Current <- FALSE,
    Prompt <- FALSE, MayChange <- FALSE
Retried == INSTANCE WebhookDispatcher WITH
    row <- hRow, work <- hWork, slots <- hSlots, node <- hNode,
    endpoint <- hEndpoint, stored <- hStored, history <- hHistory, past <- hPast,
    faults <- hFaults,
    Nodes <- {n1, n2}, Jobs <- {"j1"}, Alerts <- {}, Limit <- 1, MaxRetries <- 1,
    MaxRuns <- 2, MaxFaults <- 0, MaxLapses <- 1, Current <- TRUE,
    Prompt <- FALSE, MayChange <- FALSE

\* One node delivers an alert and a result while the endpoint changes.
Payload == INSTANCE WebhookDispatcher WITH
    row <- pRow, work <- pWork, slots <- pSlots, node <- pNode,
    endpoint <- pEndpoint, stored <- pStored, history <- pHistory, past <- pPast,
    faults <- pFaults,
    Nodes <- {"n"}, Jobs <- {"j1", "j2"}, Alerts <- {"j2"}, Limit <- 1,
    MaxRetries <- 0, MaxRuns <- 1, MaxFaults <- 1, MaxLapses <- 1,
    Current <- FALSE, Prompt <- FALSE, MayChange <- TRUE

ASSUME SceneAssumption ==
    /\ Keyed!SidekiqAssumption /\ Late!SidekiqAssumption /\ Server!SidekiqAssumption
    /\ Fence!WebhookAssumption /\ Retried!WebhookAssumption
    /\ Payload!WebhookAssumption
-----------------------------------------------------------------------------
Symmetry == Permutations({n1, n2})

Running == scene \in {"keyed", "late", "server"}
Delivering == scene \in {"fence", "retried", "payload"}

MCInit ==
    /\ scene \in Scenes
    /\ Keyed!Init /\ Fence!Init /\ Payload!Init /\ Init
    /\ IF scene = "server" THEN Server!Init ELSE Late!Init

MCNext ==
    /\ UNCHANGED scene
    /\ \/ scene = "keyed" /\ Keyed!Next /\ UNCHANGED <<lvars, hvars, pvars, vars>>
       \/ scene = "late" /\ Late!Next /\ UNCHANGED <<kvars, hvars, pvars, vars>>
       \/ scene = "server" /\ Server!Next /\ UNCHANGED <<kvars, hvars, pvars, vars>>
       \/ scene = "fence" /\ Fence!Next /\ UNCHANGED <<kvars, lvars, pvars, vars>>
       \/ scene = "retried" /\ Retried!Next /\ UNCHANGED <<kvars, lvars, pvars, vars>>
       \/ scene = "payload" /\ Payload!Next /\ UNCHANGED <<kvars, lvars, hvars, vars>>
       \/ scene = "async" /\ Next /\ UNCHANGED <<kvars, lvars, hvars, pvars>>

MCSpec == MCInit /\ [][MCNext]_<<scene, kvars, lvars, hvars, pvars, vars>>
-----------------------------------------------------------------------------
\* Sidekiq: a job has one runner and a key one job, in order, where heartbeats come in
\* time; starts are bounded everywhere.
JobsSound ==
    /\ Running => Keyed!TypeOK /\ Late!TypeOK
    /\ scene = "keyed" =>
         Keyed!OneRunnerPerJob /\ Keyed!OneJobPerKey /\ Keyed!StartedInOrder /\ Keyed!StartsBounded
    /\ scene = "late" => Late!StartsBounded
    /\ scene = "server" => Server!StartsBounded

\* Sidekiq: the end of a job is final, and its checkpoint does not go back where
\* runners have names.
JobsKeep ==
    [][/\ Running => Keyed!TerminalKept /\ Late!TerminalKept
       /\ scene # "server" => (Keyed!CheckpointKept /\ Late!CheckpointKept)]_<<kvars, lvars>>

\* WebhookDispatcher: leases, slots, attempts, bodies and history agree with what was
\* delivered; attempts keep their budget where lists are current.
DeliverySound ==
    /\ Delivering => /\ Fence!TypeOK /\ Payload!TypeOK
                     /\ Fence!LeaseKept /\ Payload!LeaseKept
                     /\ Fence!RetiredIsRecorded /\ Payload!RetiredIsRecorded
                     /\ Fence!SlotsExact /\ Payload!SlotsExact
                     /\ Fence!NoNeedlessDuplicate /\ Payload!BodyHonest /\ Payload!StreakBacked
    /\ scene = "retried" => Retried!BudgetKept
=============================================================================

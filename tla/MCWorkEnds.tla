----------------------------- MODULE MCWorkEnds -----------------------------
(***************************************************************************)
(* Work that outlives a request comes to its end: background jobs, webhook *)
(* deliveries, asynchronous jobs, the repair of MCP clients, and the agent *)
(* loop.  A behaviour stays in the scene it starts in; only the component  *)
(* of that scene moves and is scheduled.                                   *)
(***************************************************************************)
EXTENDS Integers, FiniteSets

CONSTANT Scenes
VARIABLES
    scene,
    row, exec, up, window,              \* one background job
    kRow, kExec, kUp, kWindow,          \* two of one key
    hRow, hWork, hSlots, hNode, hEndpoint, hStored, hHistory, hPast, hFaults,
    aRow, aExec, old, lapsed, notices, asked,
    entry, slot, th, conn, ck, reg, lost, srv, db, persists, calls, faults,
    hints, client, accepted, made, ops, call, bg, uEdits, expiries, uFaults,
    at, depth, response, auto, running, channel, authError, history, executed,
    usage, out, approved, edits, granted, billed

lvars == <<row, exec, up, window>>
kvars == <<kRow, kExec, kUp, kWindow>>
hvars == <<hRow, hWork, hSlots, hNode, hEndpoint, hStored, hHistory, hPast, hFaults>>
avars == <<aRow, aExec, old, lapsed, notices, asked>>
mvars == <<entry, slot, th, conn, ck, reg, lost, srv, db, persists, calls, faults>>
uvars == <<hints, client, accepted, made, ops, call, bg, uEdits, expiries, uFaults>>
gvars == <<at, depth, response, auto, running, channel, authError, history, executed,
           usage, out, approved, edits, granted, billed>>
vars == <<scene, lvars, kvars, hvars, avars, mvars, uvars, gvars>>
-----------------------------------------------------------------------------
\* One job, heartbeats late, handlers that never return by themselves.
Late == INSTANCE Sidekiq WITH
    Runners <- {"r1", "r2"}, NumJobs <- 1, Partitioned <- {}, Mortal <- {"r1"},
    MaxAttempts <- 3, StaleAfter <- 1, MaxConcurrent <- 1, MaxProgress <- 0,
    Prompt <- FALSE, Anonymous <- FALSE, Snapshots <- FALSE, StoreFails <- FALSE,
    MayCancel <- TRUE

\* Two jobs of one key, a runner that may die, handlers that return.
Keyed == INSTANCE Sidekiq WITH
    row <- kRow, exec <- kExec, up <- kUp, window <- kWindow,
    Runners <- {"r1", "r2"}, NumJobs <- 2, Partitioned <- {1, 2}, Mortal <- {"r1"},
    MaxAttempts <- 3, StaleAfter <- 1, MaxConcurrent <- 1, MaxProgress <- 0,
    Prompt <- TRUE, Anonymous <- FALSE, Snapshots <- FALSE, StoreFails <- FALSE,
    MayCancel <- FALSE

\* A delivery that may be retried, with a fault and two lapsed leases.
Hook == INSTANCE WebhookDispatcher WITH
    row <- hRow, work <- hWork, slots <- hSlots, node <- hNode,
    endpoint <- hEndpoint, stored <- hStored, history <- hHistory, past <- hPast,
    faults <- hFaults,
    Nodes <- {"n"}, Jobs <- {"j"}, Alerts <- {}, Limit <- 1, MaxRetries <- 1,
    MaxRuns <- 1, MaxFaults <- 1, MaxLapses <- 2, Current <- FALSE,
    Prompt <- TRUE, MayChange <- FALSE

\* An asynchronous job whose operation may hang, whose writes may fail.
Async == INSTANCE AsyncJobs WITH
    row <- aRow, exec <- aExec, Jobs <- {"j"}, Hooked <- {"j"},
    Faults <- {"write", "enqueue", "crash"}, Overdue <- TRUE

\* A client with a shared connection, from the dial at boot.
Clients == INSTANCE MCPClients WITH
    Threads <- {"t1", "t2"}, Conns <- {"x1", "x2"}, Checkers <- {"c"},
    Kinds <- {"boot", "disable", "enable"},
    AddConfigs <- {[perCall |-> FALSE, disabled |-> FALSE, pending |-> FALSE, cred |-> 1]},
    EditConfigs <- {[perCall |-> FALSE, disabled |-> FALSE, pending |-> FALSE, cred |-> 1]},
    Transport <- "http", Tools <- {}, MaxCalls <- 2, MaxFaults <- 1, MaxGen <- 20

\* Two calls of a tool that must not be repeated, and an administrator.
Recovery == INSTANCE AuthRecovery WITH
    edits <- uEdits, faults <- uFaults, Callers <- {"t1", "t2"}, Hint <- {"unset"},
    Shared <- TRUE, Edits <- {"disable"}, MaxConns <- 3, MaxExpiries <- 1, MaxFaults <- 0

\* The agent loop with one call a response.
Loop == INSTANCE AgentLoop WITH
    Tools <- {"a", "b"}, Executable <- {"a"},
    Targets <- {[kind |-> "client", of |-> {"a"}], [kind |-> "code", of |-> {"a", "b"}],
                [kind |-> "foreign", of |-> {}]},
    MaxAgentDepth <- 2, MaxCalls <- 1, MaxEdits <- 1

Init ==
    /\ scene \in Scenes
    /\ Late!Init /\ Keyed!Init /\ Hook!Init /\ Async!Init /\ Clients!Init /\ Recovery!Init /\ Loop!Init
    /\ scene # "loop" => response = [calls |-> {}, usage |-> -1] /\ approved = {}

Do(s, A, others) == scene = s /\ A /\ UNCHANGED <<scene, others>>

LateStep(A) == Do("late", A, <<kvars, hvars, avars, mvars, uvars, gvars>>)
KeyedStep(A) == Do("keyed", A, <<lvars, hvars, avars, mvars, uvars, gvars>>)
HookStep(A) == Do("hook", A, <<lvars, kvars, avars, mvars, uvars, gvars>>)
AsyncStep(A) == Do("async", A, <<lvars, kvars, hvars, mvars, uvars, gvars>>)
ClientStep(A) == Do("clients", A, <<lvars, kvars, hvars, avars, uvars, gvars>>)
RecoveryStep(A) == Do("recovery", A, <<lvars, kvars, hvars, avars, mvars, gvars>>)
LoopStep(A) == Do("loop", A, <<lvars, kvars, hvars, avars, mvars, uvars>>)

Next ==
    \/ LateStep(Late!Next) \/ KeyedStep(Keyed!Next) \/ HookStep(Hook!Next) \/ AsyncStep(Async!Next)
    \/ ClientStep(Clients!Next) \/ RecoveryStep(Recovery!Next) \/ LoopStep(Loop!Next)

\* The fairness of each component's FairSpec, and of ReturningSpec for the two
\* jobs of one key, or less: strong fairness is asked only of the runner that
\* lives and of the first job.  One scene moves, so a disjunction over scenes
\* asks for fairness of each disjunct.
Spec ==
    /\ Init /\ [][Next]_vars
    /\ WF_vars(\/ LateStep(Late!Tick) \/ KeyedStep(Keyed!Tick) \/ HookStep(Hook!Step("n", 1))
               \/ AsyncStep(Async!DeleteExpiredAsyncJobs) \/ ClientStep(Clients!Checks("c"))
               \/ RecoveryStep(Recovery!Disable) \/ LoopStep(Loop!Step))
    /\ WF_vars(HookStep(Hook!Lapse("j")) \/ AsyncStep(Async!DeleteStaleAsyncJobs)
               \/ ClientStep(\E list \in persists : Clients!PersistMCPClientTools(list))
               \/ RecoveryStep(Recovery!FinishEdit))
    /\ \A r \in {"r1", "r2"} :
         /\ WF_vars(LateStep(Late!Work(r, 1)) \/ KeyedStep(Keyed!Work(r, 1)))
         /\ WF_vars(LateStep(Late!Heartbeat(r, 1)) \/ KeyedStep(Keyed!Heartbeat(r, 1)))
         /\ WF_vars(LateStep(Late!Dispatch(r, 1)) \/ KeyedStep(Keyed!Dispatch(r, 1)))
         /\ WF_vars(LateStep(Late!TakeSlot(r, 1)) \/ KeyedStep(Keyed!TakeSlot(r, 1)))
         /\ WF_vars(KeyedStep(Keyed!Work(r, 2)))
         /\ WF_vars(KeyedStep(Keyed!Heartbeat(r, 2)))
         /\ WF_vars(KeyedStep(Keyed!Dispatch(r, 2)))
         /\ WF_vars(KeyedStep(Keyed!TakeSlot(r, 2)))
         /\ WF_vars(KeyedStep(Keyed!Return(r, 1)))
         /\ WF_vars(KeyedStep(Keyed!Return(r, 2)))
    /\ SF_vars(KeyedStep(Keyed!Dispatch("r2", 1)))
    /\ SF_vars(KeyedStep(Keyed!TakeSlot("r2", 1)))
    /\ WF_vars(HookStep(Hook!BackoffEnds("j")) \/ AsyncStep(Async!ResultLapses("j"))
               \/ ClientStep(Clients!Proceeds("t1")) \/ RecoveryStep(Recovery!Caller("t1")))
    /\ WF_vars(HookStep(Hook!Start("n")) \/ AsyncStep(Async!Ages("j"))
               \/ ClientStep(Clients!Proceeds("t2")) \/ RecoveryStep(Recovery!Caller("t2")))
    /\ WF_vars(HookStep(Hook!Stopped("n")) \/ AsyncStep(Async!MarkProcessing("j"))
               \/ RecoveryStep(Recovery!Background("t1")))
    /\ WF_vars(AsyncStep(Async!WriteStatus("j")) \/ RecoveryStep(Recovery!Background("t2")))
    /\ WF_vars(HookStep(Hook!Scan("n", "j")) \/ AsyncStep(Async!NotifyWebhook("j")))
-----------------------------------------------------------------------------
\* A runner that lost its job or whose job was cancelled stops; jobs end, deliveries
\* leave the queue and async rows go; an MCP client is connected again, a rejected
\* connection is replaced, and the agent loop returns.
WorkEnds ==
    /\ Late!FormerOwnerStops /\ Late!CancelStops
    /\ Keyed!JobEnds
    /\ Hook!JobRetired
    /\ Async!RowGoes
    /\ Clients!Recovers
    /\ Recovery!Heals
    /\ scene = "loop" => Loop!Terminates
=============================================================================

------------------------------- MODULE MCTools -------------------------------
(***************************************************************************)
(* Tools: the manager of MCP clients, the recovery of a call the server    *)
(* rejects, and the agent loop that calls tools.  A behaviour stays in the *)
(* scene it starts in; the others rest.                                    *)
(***************************************************************************)
EXTENDS Integers, FiniteSets, TLC

CONSTANTS Scenes, Threads, Conns, Checkers
VARIABLES
    scene,
    entry, slot, th, conn, ck, reg, lost, srv, db, persists, calls, faults,
    hints, client, accepted, made, ops, call, bg, uEdits, expiries, uFaults,
    at, depth, response, auto, running, channel, authError, history, executed,
    usage, out, approved, edits, granted, billed

mvars == <<entry, slot, th, conn, ck, reg, lost, srv, db, persists, calls, faults>>
uvars == <<hints, client, accepted, made, ops, call, bg, uEdits, expiries, uFaults>>
avars == <<at, depth, response, auto, running, channel, authError, history, executed,
           usage, out, approved, edits, granted, billed>>
-----------------------------------------------------------------------------
Config(perCall, disabled, pending) ==
    [perCall |-> perCall, disabled |-> disabled, pending |-> pending, cred |-> 1]
Sticky == {Config(FALSE, FALSE, FALSE)}
Modes == Sticky \union {Config(TRUE, FALSE, FALSE)}
Every == {Config(p, FALSE, w) : p \in BOOLEAN, w \in BOOLEAN}

\* A client with a shared connection that is removed and added again.
Removed == INSTANCE MCPClients WITH
    Kinds <- {"add", "remove", "disable", "enable", "reconnect"},
    AddConfigs <- Sticky, EditConfigs <- Sticky, Transport <- "http", Tools <- {},
    MaxCalls <- 3, MaxFaults <- 1, MaxGen <- 20

\* Every call but removal, also from the dial at boot.
Kept == INSTANCE MCPClients WITH
    Kinds <- {"add", "boot", "disable", "enable", "reconnect", "rotate", "creds"},
    AddConfigs <- Sticky, EditConfigs <- Sticky, Transport <- "http", Tools <- {},
    MaxCalls <- 3, MaxFaults <- 1, MaxGen <- 20

\* Connections that report their loss.
Sse == INSTANCE MCPClients WITH
    Kinds <- {"add", "reconnect", "disable", "enable"},
    AddConfigs <- Sticky, EditConfigs <- Sticky, Transport <- "sse", Tools <- {},
    MaxCalls <- 3, MaxFaults <- 1, MaxGen <- 20

\* Connections that are processes.
Stdio == INSTANCE MCPClients WITH
    Kinds <- {"add", "remove", "reconnect"},
    AddConfigs <- Sticky, EditConfigs <- Sticky, Transport <- "stdio", Tools <- {},
    MaxCalls <- 3, MaxFaults <- 1, MaxGen <- 5

\* Pending, per-call and sticky clients, and a tool that comes and goes.
Moded == INSTANCE MCPClients WITH
    Kinds <- {"add", "update", "verify", "creds", "disable", "enable"},
    AddConfigs <- Every, EditConfigs <- Modes, Transport <- "http", Tools <- {"a"},
    MaxCalls <- 3, MaxFaults <- 0, MaxGen <- 5

\* Calls of a tool with every annotation on a shared connection, ...
Joint == INSTANCE AuthRecovery WITH
    edits <- uEdits, faults <- uFaults, Callers <- Threads, Hint <- {"unset", "yes", "no"},
    Shared <- TRUE, Edits <- {}, MaxConns <- 3, MaxExpiries <- 1, MaxFaults <- 0

\* ... with failures and an administrator who disables the client, ...
Faulty == INSTANCE AuthRecovery WITH
    edits <- uEdits, faults <- uFaults, Callers <- Threads, Hint <- {"unset", "yes"},
    Shared <- TRUE, Edits <- {"disable"}, MaxConns <- 3, MaxExpiries <- 1, MaxFaults <- 1

\* ... and on connections of their own.
PerCall == INSTANCE AuthRecovery WITH
    edits <- uEdits, faults <- uFaults, Callers <- Threads, Hint <- {"unset", "yes", "no"},
    Shared <- FALSE, Edits <- {}, MaxConns <- 3, MaxExpiries <- 1, MaxFaults <- 2

T(k, of) == [kind |-> k, of |-> of]

\* Two iterations of direct calls, ...
Direct == INSTANCE AgentLoop WITH
    Tools <- {"a", "b"}, Executable <- {"a", "b"},
    Targets <- {T("client", {"a"}), T("client", {"b"}), T("foreign", {}), T("unnamed", {})},
    MaxAgentDepth <- 2, MaxCalls <- 2, MaxEdits <- 0

\* ... and one of code that calls tools.
Code == INSTANCE AgentLoop WITH
    Tools <- {"a", "b"}, Executable <- {"a"},
    Targets <- {T("read", {}), T("unparsed", {})}
                   \union {T("code", of) : of \in {{}, {"a", "b"}, {"a", Direct!Builtin}}},
    MaxAgentDepth <- 1, MaxCalls <- 2, MaxEdits <- 1

ASSUME SceneAssumption ==
    /\ Removed!MCPAssumption /\ Kept!MCPAssumption /\ Sse!MCPAssumption
    /\ Stdio!MCPAssumption /\ Moded!MCPAssumption
    /\ Joint!AuthAssumption /\ Faulty!AuthAssumption /\ PerCall!AuthAssumption
    /\ Direct!AgentAssumption /\ Code!AgentAssumption
-----------------------------------------------------------------------------
Symmetry == Permutations(Threads) \union Permutations(Conns) \union Permutations(Checkers)

Managing == scene \in {"removed", "kept", "sse", "stdio", "moded"}
Recovering == scene \in {"shared", "faulty", "percall"}
Looping == scene \in {"direct", "code"}

Resting ==
    /\ ~Recovering => hints = [ro |-> "yes", destructive |-> "yes", idempotent |-> "yes"]
    /\ ~Looping => response = [calls |-> {}, usage |-> -1] /\ approved = {}

MCInit ==
    /\ scene \in Scenes
    /\ IF scene = "moded" THEN Moded!Init ELSE Kept!Init
    /\ IF scene = "faulty" THEN Faulty!Init ELSE Joint!Init
    /\ IF scene = "code" THEN Code!Init ELSE Direct!Init
    /\ Resting

MCNext ==
    /\ UNCHANGED scene
    /\ \/ scene = "removed" /\ Removed!Next /\ UNCHANGED <<uvars, avars>>
       \/ scene = "kept" /\ Kept!Next /\ UNCHANGED <<uvars, avars>>
       \/ scene = "sse" /\ Sse!Next /\ UNCHANGED <<uvars, avars>>
       \/ scene = "stdio" /\ Stdio!Next /\ UNCHANGED <<uvars, avars>>
       \/ scene = "moded" /\ Moded!Next /\ UNCHANGED <<uvars, avars>>
       \/ scene = "shared" /\ Joint!Next /\ UNCHANGED <<mvars, avars>>
       \/ scene = "faulty" /\ Faulty!Next /\ UNCHANGED <<mvars, avars>>
       \/ scene = "percall" /\ PerCall!Next /\ UNCHANGED <<mvars, avars>>
       \/ scene = "direct" /\ Direct!Next /\ UNCHANGED <<mvars, uvars>>
       \/ scene = "code" /\ Code!Next /\ UNCHANGED <<mvars, uvars>>

MCSpec == MCInit /\ [][MCNext]_<<scene, mvars, uvars, avars>>
-----------------------------------------------------------------------------
\* MCPClients: connections, processes and checkers are closed where nobody uses them
\* any more; a client with a shared connection is watched or disabled.
ClientsSound ==
    /\ scene \in {"removed", "kept", "sse"} => Kept!TypeOK
    /\ scene = "stdio" => Stdio!TypeOK /\ Stdio!OneProcess
    /\ scene = "moded" => Moded!TypeOK
    /\ Managing => Kept!NoLeakedConnection /\ Kept!OneChecker
    /\ scene \in {"kept", "sse"} => Kept!Watched /\ Kept!DisabledAgrees

\* MCPClients: a disabled client stays so where no edit or verification comes in
\* between, and results of an earlier connection are dropped where it is not removed.
ClientsKeep ==
    [][/\ (Managing /\ scene # "moded") => Kept!StaysDisabled
       /\ (Managing /\ scene \notin {"removed", "stdio"}) => Kept!WritesFreshResults]_mvars

\* AuthRecovery: no rejected call misses the reconnect; a retry is safe and uses the
\* healed connection where the tool stays known and errors do not mislead.
RecoverySound ==
    /\ Recovering => Joint!TypeOK /\ Joint!NoMissedReconnect
    /\ scene \in {"shared", "percall"} => Joint!RetryIsSafe /\ Joint!RetryOnHealed

\* AgentLoop: calls and results are paired, none runs unapproved or is both run and
\* handed back, usage adds up, and a rejection ends the loop.
LoopSound ==
    Looping => /\ Direct!TypeOK /\ Direct!HistoryPaired /\ Direct!NothingUnapproved
               /\ Direct!NotBoth /\ Direct!UsageExact /\ Direct!AuthStops
=============================================================================

---------------------------- MODULE MCRequestsEnd ----------------------------
(***************************************************************************)
(* What a request waits for comes: fills of the key cache, the attempts of *)
(* the rotation, the end of a gated stream, the fallback chain and the     *)
(* shutdown of the connection pool.  A behaviour stays in the scene it     *)
(* starts in; only the component of that scene moves and is scheduled.     *)
(***************************************************************************)
EXTENDS Naturals, Sequences

CONSTANTS Scenes, Nil
VARIABLES
    scene,
    items, order, byIndex, generation, inflight, reader, at, ver, writer, floor,
    serial, lookups,
    cooldowns, now, req, promised,
    gate, cur, stored, gated, prod, out, taken, ctxDone, ctl, owed, cut, leak,
    plugins, changes, rq, settled, stream, pipe,
    idle, inFlight, probing, closed, open, client, sweep

cvars == <<items, order, byIndex, generation, inflight, reader, at, ver, writer, floor,
           serial, lookups>>
kvars == <<cooldowns, now, req, promised>>
gvars == <<gate, cur, stored, gated, prod, out, taken, ctxDone, ctl, owed, cut, leak>>
qvars == <<plugins, changes, rq, settled, stream, pipe>>
pvars == <<idle, inFlight, probing, closed, open, client, sweep>>
vars == <<scene, cvars, kvars, gvars, qvars, pvars>>

Readers == {"d1", "d2", "d3"}
Requests == {"q", "r"}
Clients == {"b1", "b2", "b3"}

\* Lookups of one key whose row is written once.
Cache == INSTANCE LRUCache WITH
    Keys <- {"k"}, Rows <- {"row"}, None <- Nil, Capacity <- 1, MaxWrites <- 1, MaxLookups <- 2

\* Two requests bound to one key.
Rotation == INSTANCE KeyRotation WITH
    Keys <- {"k1", "k2"}, Pool <- <<"k1", "k2">>, Models <- {"m"},
    AllModels <- "*", None <- "none", Rotates <- FALSE,
    CooldownOn <- TRUE, MaxRetries <- 1, MaxTime <- 1,
    Ttl <- [rate_limit |-> 1, quota |-> 1],
    Scope <- [rate_limit |-> "key", quota |-> "model"],
    Outcomes <- {"ok", "permanent", "rate_limit", "transient"}

\* A stream that plugins hold, whose accumulator is dropped on the final chunk.
Gate == INSTANCE StreamGate WITH
    Chunks <- 2, MaxBuf <- 2, ChanCap <- 1, MaxGen <- 2, MaxCtl <- 2,
    ReleaseOnFinal <- TRUE, TTLSweep <- FALSE

\* A request with a fallback and two plugins.
Pipeline == INSTANCE RequestPipeline WITH
    Plugins <- {"p1", "p2"}, Kinds <- {"unary", "stream"}, MaxFallbacks <- 1,
    MaxChunks <- 1, MaxChanges <- 0, PreProviderActs <- {"respond", "refuse"},
    PreLLMActs <- {"respond", "refuse"}, PostActs <- {"recover", "invalidate"}

\* A pool that is shut down while clients use it.
Pool == INSTANCE WSPool WITH
    PoolKeys <- {"k"}, Conns <- {"c1", "c2", "c3"}, Relays <- {"b3"},
    Returners <- {"b1", "b2"}, Sessions <- {}, None <- "none",
    MaxTotalConnections <- 2, MaxIdlePerKey <- 1, Breaks <- FALSE, MayClose <- TRUE
-----------------------------------------------------------------------------
Init ==
    /\ scene \in Scenes
    /\ Cache!Init /\ Rotation!Init /\ Gate!Init /\ Pipeline!Init /\ Pool!Init
    /\ scene # "cache" => at["row"] = Nil
    /\ scene # "gate" => ~prod.final
    /\ scene # "pipeline" => plugins = <<>>
    /\ scene # "rotation" => \A r \in Requests : ~req[r].cipher

Next ==
    /\ UNCHANGED scene
    /\ \/ scene = "cache" /\ Cache!Next /\ UNCHANGED <<kvars, gvars, qvars, pvars>>
       \/ scene = "rotation" /\ Rotation!Next /\ UNCHANGED <<cvars, gvars, qvars, pvars>>
       \/ scene = "gate" /\ Gate!Next /\ UNCHANGED <<cvars, kvars, qvars, pvars>>
       \/ scene = "pipeline" /\ Pipeline!Next /\ UNCHANGED <<cvars, kvars, gvars, pvars>>
       \/ scene = "pool" /\ Pool!Next /\ UNCHANGED <<cvars, kvars, gvars, qvars>>

CacheStep(d) == scene = "cache" /\ Cache!FillStep(d) /\ UNCHANGED <<scene, kvars, gvars, qvars, pvars>>
RotationStep(r) ==
    scene = "rotation" /\ Rotation!RequestStep(r) /\ UNCHANGED <<scene, cvars, gvars, qvars, pvars>>
GateStep(A) == scene = "gate" /\ A /\ UNCHANGED <<scene, cvars, kvars, qvars, pvars>>
PipelineStep == scene = "pipeline" /\ Pipeline!Step /\ UNCHANGED <<scene, cvars, kvars, gvars, pvars>>
PoolStep(A) == scene = "pool" /\ A /\ UNCHANGED <<scene, cvars, kvars, gvars, qvars>>

\* The fairness of each component: goroutines are scheduled, loaders, upstreams
\* and clients answer within their timeouts.  One scene moves, so a disjunction
\* over scenes asks no more and no less than fairness of each disjunct.
Spec ==
    /\ Init /\ [][Next]_vars
    /\ WF_vars(CacheStep("d1") \/ RotationStep("q") \/ GateStep(Gate!Producer) \/ PipelineStep
                  \/ PoolStep(Pool!SweepStep))
    /\ WF_vars(CacheStep("d2") \/ RotationStep("r") \/ GateStep(Gate!Receive)
                  \/ PoolStep(Pool!ClientStep("b1")))
    /\ WF_vars(CacheStep("d3") \/ GateStep(Gate!Flusher(1)) \/ PoolStep(Pool!ClientStep("b2")))
    /\ WF_vars(GateStep(Gate!Flusher(2)) \/ PoolStep(Pool!ClientStep("b3")))
-----------------------------------------------------------------------------
\* Followers of a fill are released, the rotation ends, a gated stream closes, the
\* fallback chain answers, and a pool that is shut down closes every connection.
RequestsEnd ==
    /\ Cache!FollowersReleased
    /\ Rotation!RequestEnds
    /\ Gate!CloseCompletes
    /\ Pipeline!RequestAnswered
    /\ Pool!ShutdownDrains
=============================================================================

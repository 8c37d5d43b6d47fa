------------------------------ MODULE MCStream ------------------------------
(***************************************************************************)
(* The way of a request and its response: the plugins and the fallback     *)
(* chain, the gate of a stream, and the pool of upstream connections.  A   *)
(* behaviour stays in the scene it starts in; the others rest.             *)
(***************************************************************************)
EXTENDS StreamGate

CONSTANT Scenes
VARIABLES
    scene,
    plugins, changes, rq, settled, stream, pipe,
    idle, inFlight, probing, closed, open, client, sweep,
    rIdle, rInFlight, rProbing, rClosed, rOpen, rClient, rSweep

qvars == <<plugins, changes, rq, settled, stream, pipe>>
pvars == <<idle, inFlight, probing, closed, open, client, sweep>>
rvars == <<rIdle, rInFlight, rProbing, rClosed, rOpen, rClient, rSweep>>

\* Plugins hold, pace and end the stream ("held", the extended StreamGate itself);
\* one of them drops the accumulator on the final chunk; the sweep drops it while
\* the stream runs.
Released == INSTANCE StreamGate WITH
    Chunks <- 2, MaxBuf <- 2, ChanCap <- 1, MaxGen <- 3, MaxCtl <- 3,
    ReleaseOnFinal <- TRUE, TTLSweep <- FALSE
Swept == INSTANCE StreamGate WITH
    Chunks <- 2, MaxBuf <- 2, ChanCap <- 1, MaxGen <- 3, MaxCtl <- 2,
    ReleaseOnFinal <- FALSE, TTLSweep <- TRUE

\* Hooks that answer, refuse, recover and spoil; streams; a changing plugin list.
Unary == INSTANCE RequestPipeline WITH
    Plugins <- {"p1", "p2", "p3"}, Kinds <- {"unary"}, MaxFallbacks <- 2,
    MaxChunks <- 2, MaxChanges <- 0,
    PreProviderActs <- {"respond", "refuse", "silence"},
    PreLLMActs <- {"respond", "refuse"}, PostActs <- {"recover", "invalidate", "blank"}
Streamed == INSTANCE RequestPipeline WITH
    Plugins <- {"p1", "p2"}, Kinds <- {"stream"}, MaxFallbacks <- 1,
    MaxChunks <- 2, MaxChanges <- 0, PreProviderActs <- {"respond", "silence"},
    PreLLMActs <- {"respond", "refuse", "stream"}, PostActs <- {"invalidate"}
Reloaded == INSTANCE RequestPipeline WITH
    Plugins <- {"p1", "p2"}, Kinds <- {"unary", "stream"}, MaxFallbacks <- 1,
    MaxChunks <- 2, MaxChanges <- 2, PreProviderActs <- {"silence"},
    PreLLMActs <- {"stream"}, PostActs <- {}

\* Clients that return and one that discards; a session among them; relays only.
Shared == INSTANCE WSPool WITH
    PoolKeys <- {"k"}, Conns <- {"c1", "c2", "c3", "c4"}, Relays <- {"b3"}, Returners <- {"b1", "b2"},
    Sessions <- {}, None <- "none", MaxTotalConnections <- 3, MaxIdlePerKey <- 2,
    Breaks <- FALSE, MayClose <- TRUE
Mixed == INSTANCE WSPool WITH
    PoolKeys <- {"k"}, Conns <- {"c1", "c2", "c3", "c4"}, Relays <- {"b3"}, Returners <- {"b1"},
    Sessions <- {"b2"}, None <- "none", MaxTotalConnections <- 3, MaxIdlePerKey <- 1,
    Breaks <- TRUE, MayClose <- TRUE
Relayed == INSTANCE WSPool WITH
    idle <- rIdle, inFlight <- rInFlight, probing <- rProbing, closed <- rClosed,
    open <- rOpen, client <- rClient, sweep <- rSweep,
    PoolKeys <- {"k", "l"}, Conns <- {"c1", "c2", "c3", "c4"}, Relays <- {"b1", "b2", "b3"},
    Returners <- {}, Sessions <- {}, None <- "none", MaxTotalConnections <- 2,
    MaxIdlePerKey <- 1, Breaks <- TRUE, MayClose <- TRUE

ASSUME SceneAssumption ==
    /\ Released!StreamAssumption /\ Swept!StreamAssumption
    /\ Unary!PipelineAssumption /\ Streamed!PipelineAssumption
    /\ Reloaded!PipelineAssumption
    /\ Shared!PoolAssumption /\ Mixed!PoolAssumption /\ Relayed!PoolAssumption
-----------------------------------------------------------------------------
Gating == scene \in {"held", "released", "swept"}
Piping == scene \in {"unary", "streamed", "reloaded"}
Pooling == scene \in {"shared", "mixed", "relayed"}

\* The resting components have one initial state.
MCInit ==
    /\ scene \in Scenes
    /\ Init /\ Shared!Init /\ Relayed!Init
    /\ IF scene = "unary" THEN Unary!Init ELSE Reloaded!Init
    /\ ~Gating => ~prod.final
    /\ ~Piping => plugins = <<>>

MCNext ==
    /\ UNCHANGED scene
    /\ \/ /\ UNCHANGED <<qvars, pvars, rvars>>
          /\ \/ scene = "held" /\ Next
             \/ scene = "released" /\ Released!Next
             \/ scene = "swept" /\ Swept!Next
       \/ /\ UNCHANGED <<vars, pvars, rvars>>
          /\ \/ scene = "unary" /\ Unary!Next
             \/ scene = "streamed" /\ Streamed!Next
             \/ scene = "reloaded" /\ Reloaded!Next
       \/ /\ UNCHANGED <<vars, qvars, rvars>>
          /\ \/ scene = "shared" /\ Shared!Next
             \/ scene = "mixed" /\ Mixed!Next
       \/ /\ UNCHANGED <<vars, qvars, pvars>>
          /\ scene = "relayed" /\ Relayed!Next

MCSpec == MCInit /\ [][MCNext]_<<scene, vars, qvars, pvars, rvars>>
-----------------------------------------------------------------------------
\* StreamGate: an end is final and a pause holds while the accumulator lives; no
\* flusher outlives the channel and nothing buffered is left while the TTL is not reached.
GateSound ==
    /\ Gating => TypeOK
    /\ scene = "held" => EndIsFinal /\ PauseHolds
    /\ scene \in {"held", "released"} => NoFlusherAfterClose /\ BufferedIsDelivered

\* RequestPipeline: the chain of attempts decides on the answer, a pipeline serves one
\* call, and hooks are mirrored while the plugin list stays.
PipelineSound ==
    /\ Piping => /\ IF scene = "reloaded" THEN Reloaded!TypeOK ELSE Unary!TypeOK
                 /\ Unary!PipelineNotShared /\ Unary!AnswerOrError
                 /\ Unary!ChainDecidesAnswer /\ Unary!SilentIsOwn
    /\ scene \in {"unary", "streamed"} => Unary!HooksMirrored /\ Unary!ChunksMirrored

\* WSPool: a connection has one user, and the counters cover what is out; they are
\* exact without sessions and broken connections, and bound the pool where nothing is
\* returned.
PoolSound ==
    /\ Pooling => /\ Shared!TypeOK /\ Relayed!TypeOK
                  /\ Shared!ExclusiveUse /\ Relayed!ExclusiveUse
                  /\ IF scene = "mixed" THEN Mixed!IdleBounded ELSE Shared!IdleBounded
                  /\ Mixed!SlotsCovered /\ Shared!ProbesGivenBack
                  /\ Relayed!CapacityRespected
    /\ scene \in {"shared", "relayed"} => Shared!SlotsGivenBack /\ Relayed!SlotsGivenBack
=============================================================================

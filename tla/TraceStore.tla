----------------------------- MODULE TraceStore -----------------------------
(***************************************************************************)
(* The trace store and the export of completed traces.  Traces and their   *)
(* spans are pooled objects: a request takes one, writes to it through     *)
(* pointers it looks up, and completes it; a goroutine then removes it     *)
(* from the map, takes a snapshot, hands that to every connector within    *)
(* the connector's own budget, and puts the object back.  A sweep does the *)
(* same with what has outlived the TTL.  One object stands for a trace     *)
(* with its spans; its data is the set of requests that wrote to it.       *)
(***************************************************************************)
EXTENDS Naturals, FiniteSets

CONSTANTS
    Requests, Objects,
    Connectors, Stalled,    \* the exporters, and those that may never answer
    Cap,        \* maxConcurrentInjectsPerPlugin
    Deaths,     \* whether a request may end without completing its trace
    Late,       \* whether a writer may still be at work at the completion
    Long,       \* whether a request may outlast the TTL before its trace is taken
    Twice       \* whether the completion may be asked for twice

None == "none"

ASSUME TraceAssumption ==
    /\ IsFiniteSet(Requests) /\ IsFiniteSet(Objects) /\ IsFiniteSet(Connectors)
    /\ Stalled \subseteq Connectors
    /\ Cap \in Nat \ {0}
    /\ None \notin Objects
    /\ {Deaths, Late, Long, Twice} \subseteq BOOLEAN

VARIABLES
    req,        \* request -> "new", "open", "done" or "dead"
    traces,     \* the map: request -> its object, or None
    deferred,   \* requests with an entry in deferredSpans
    pool,       \* objects in the pools, or never taken
    data,       \* object -> requests that wrote to it since its reset
    ptr,        \* request -> the object its writer has looked up, or None
    old,        \* requests that began longer than the TTL ago
    flush,      \* flush goroutine -> its place
    snap,       \* request -> what its snapshot held
    got, skipped    \* connector -> requests handed to it, and left out

vars == <<req, traces, deferred, pool, data, ptr, old, flush, snap, got, skipped>>

Flushes == Requests \X (IF Twice THEN {1, 2} ELSE {1})

Init ==
    /\ req = [r \in Requests |-> "new"]
    /\ traces = [r \in Requests |-> None]
    /\ deferred = {} /\ pool = Objects
    /\ data = [o \in Objects |-> {}]
    /\ ptr = [r \in Requests |-> None]
    /\ old = {}
    /\ flush = [f \in Flushes |-> [at |-> "none", obj |-> None, todo |-> {}, busy |-> {}]]
    /\ snap = [r \in Requests |-> {}]
    /\ got = [p \in Connectors |-> {}] /\ skipped = [p \in Connectors |-> {}]

exports == <<snap, got, skipped>>
-----------------------------------------------------------------------------
(* Requests. *)

\* CreateTrace and StartSpan: an object is reset when it is taken.
Create(r) ==
    /\ req[r] = "new"
    /\ \E o \in pool :
          /\ pool' = pool \ {o} /\ traces' = [traces EXCEPT ![r] = o]
          /\ data' = [data EXCEPT ![o] = {}]
    /\ req' = [req EXCEPT ![r] = "open"]
    /\ UNCHANGED <<deferred, ptr, old, flush, exports>>

\* StoreDeferredSpan, for a streaming request.
Defer(r) ==
    /\ req[r] = "open" /\ r \notin deferred
    /\ deferred' = deferred \union {r}
    /\ UNCHANGED <<req, traces, pool, data, ptr, old, flush, exports>>

\* GetTrace and GetSpan, by StartSpan, EndSpan, SetAttribute, Populate...:
\* nothing is written when the trace is no longer there.
Lookup(r) ==
    /\ req[r] = "open" /\ ptr[r] = None /\ traces[r] # None
    /\ ptr' = [ptr EXCEPT ![r] = traces[r]]
    /\ UNCHANGED <<req, traces, deferred, pool, data, old, flush, exports>>

\* Span.SetAttribute, Trace.AddSpan: the lock is the object's, whoever owns it.
Write(r) ==
    /\ ptr[r] # None
    /\ data' = [data EXCEPT ![ptr[r]] = @ \union {r}]
    /\ ptr' = [ptr EXCEPT ![r] = None]
    /\ UNCHANGED <<req, traces, deferred, pool, old, flush, exports>>

\* Mutant: the request does not wait for its last writer.
CompleteEarly(r) ==
    /\ req[r] = "open"
    /\ req' = [req EXCEPT ![r] = "done"]
    /\ flush' = [flush EXCEPT ![<<r, 1>>] = [@ EXCEPT !.at = "end"]]
    /\ UNCHANGED <<traces, deferred, pool, data, ptr, old, exports>>

\* CompleteAndFlushTrace is called: a goroutine begins.
Complete(r) ==
    /\ req[r] = "open" /\ (Late \/ ptr[r] = None)
    /\ req' = [req EXCEPT ![r] = "done"]
    /\ flush' = [flush EXCEPT ![<<r, 1>>] = [@ EXCEPT !.at = "end"]]
    /\ UNCHANGED <<traces, deferred, pool, data, ptr, old, exports>>

CompleteAgain(r) ==
    /\ Twice /\ req[r] = "done" /\ flush[<<r, 2>>].at = "none"
    /\ flush' = [flush EXCEPT ![<<r, 2>>] = [@ EXCEPT !.at = "end"]]
    /\ UNCHANGED <<req, traces, deferred, pool, data, ptr, old, exports>>

\* The goroutine that should have completed the trace is gone.
Die(r) ==
    /\ Deaths /\ req[r] = "open"
    /\ req' = [req EXCEPT ![r] = "dead"] /\ ptr' = [ptr EXCEPT ![r] = None]
    /\ UNCHANGED <<traces, deferred, pool, data, old, flush, exports>>
-----------------------------------------------------------------------------
(* The sweep (cleanupOldTraces). *)

\* The TTL passes.
Age(r) ==
    /\ r \notin old /\ (req[r] = "dead" \/ (Long /\ req[r] \in {"open", "done"}))
    /\ old' = old \union {r}
    /\ UNCHANGED <<req, traces, deferred, pool, data, ptr, flush, exports>>

\* LoadAndDelete and ReleaseTrace, for one entry of the Range.
SweepTrace(r) ==
    /\ r \in old /\ traces[r] # None
    /\ traces' = [traces EXCEPT ![r] = None]
    /\ pool' = pool \union {traces[r]}
    /\ data' = [data EXCEPT ![traces[r]] = {}]
    /\ UNCHANGED <<req, deferred, ptr, old, flush, exports>>

SweepDeferred(r) ==
    /\ r \in old \cap deferred
    /\ deferred' = deferred \ {r}
    /\ UNCHANGED <<req, traces, pool, data, ptr, old, flush, exports>>
-----------------------------------------------------------------------------
(* The flush goroutine of CompleteAndFlushTrace. *)

\* Mutant: the trace stays in the map.
EndTraceKeep(f) ==
    /\ flush[f].at = "end"
    /\ deferred' = deferred \ {f[1]}
    /\ flush' = [flush EXCEPT ![f] = [@ EXCEPT
                   !.at = IF traces[f[1]] = None THEN "over" ELSE "snap",
                   !.obj = traces[f[1]]]]
    /\ UNCHANGED <<req, traces, pool, data, ptr, old, exports>>

\* EndTrace, CompleteTrace.
EndTrace(f) ==
    /\ flush[f].at = "end"
    /\ deferred' = deferred \ {f[1]}
    /\ flush' = [flush EXCEPT ![f] = [@ EXCEPT
                   !.at = IF traces[f[1]] = None THEN "over" ELSE "snap",
                   !.obj = traces[f[1]]]]
    /\ traces' = [traces EXCEPT ![f[1]] = None]
    /\ UNCHANGED <<req, pool, data, ptr, old, exports>>

\* ApplyRedactionReplacements, SnapshotForExport, StampOverheadDuration.
Snapshot(f) ==
    /\ flush[f].at = "snap"
    /\ snap' = [snap EXCEPT ![f[1]] = data[flush[f].obj]]
    /\ flush' = [flush EXCEPT ![f] = [@ EXCEPT !.at = "fan", !.todo = Connectors]]
    /\ UNCHANGED <<req, traces, deferred, pool, data, ptr, old, got, skipped>>

\* Injections a connector is busy with: its semaphore.
Injecting(p) == {f \in Flushes : p \in flush[f].busy}

Room(p) == Cardinality(Injecting(p)) < Cap

\* Mutant: a connector waits for the one before it.
OfferInTurn(f, p) ==
    /\ p \in flush[f].todo /\ flush[f].busy = {}
    /\ flush' = [flush EXCEPT ![f] = [@ EXCEPT
                   !.todo = flush[f].todo \ {p},
                   !.busy = flush[f].busy \union (IF Room(p) THEN {p} ELSE {})]]
    /\ skipped' = [skipped EXCEPT ![p] = IF Room(p) THEN @ ELSE @ \union {f[1]}]
    /\ UNCHANGED <<req, traces, deferred, pool, data, ptr, old, snap, got>>

\* The snapshot goes to a goroutine of the connector's, or past it.
Offer(f, p) ==
    /\ p \in flush[f].todo
    /\ flush' = [flush EXCEPT ![f] = [@ EXCEPT
                   !.todo = flush[f].todo \ {p},
                   !.busy = flush[f].busy \union (IF Room(p) THEN {p} ELSE {})]]
    /\ skipped' = [skipped EXCEPT ![p] = IF Room(p) THEN @ ELSE @ \union {f[1]}]
    /\ UNCHANGED <<req, traces, deferred, pool, data, ptr, old, snap, got>>

\* Inject returns, with an error, a panic or neither.
Injected(f, p) ==
    /\ p \in flush[f].busy
    /\ flush' = [flush EXCEPT ![f] = [@ EXCEPT !.busy = flush[f].busy \ {p}]]
    /\ got' = [got EXCEPT ![p] = @ \union {f[1]}]
    /\ UNCHANGED <<req, traces, deferred, pool, data, ptr, old, snap, skipped>>

\* ReleaseTrace, once every connector is done.
Release(f) ==
    /\ flush[f].at = "fan" /\ flush[f].todo = {} /\ flush[f].busy = {}
    /\ pool' = pool \union {flush[f].obj}
    /\ data' = [data EXCEPT ![flush[f].obj] = {}]
    /\ flush' = [flush EXCEPT ![f] = [@ EXCEPT !.at = "over", !.obj = None]]
    /\ UNCHANGED <<req, traces, deferred, ptr, old, exports>>
-----------------------------------------------------------------------------
FlushStep(f) ==
    EndTrace(f) \/ Snapshot(f) \/ Release(f) \/ (\E p \in Connectors : Offer(f, p))

Next ==
    \/ \E r \in Requests : \/ Create(r) \/ Defer(r) \/ Lookup(r) \/ Write(r)
                           \/ Complete(r) \/ CompleteAgain(r) \/ Die(r)
                           \/ Age(r) \/ SweepTrace(r) \/ SweepDeferred(r)
    \/ \E f \in Flushes : FlushStep(f) \/ \E p \in Connectors : Injected(f, p)

Spec == Init /\ [][Next]_vars

\* Goroutines run, time passes and the sweep is periodic.  A connector that is
\* not stalled answers.  Requests need not come, complete or write.
FairSpec ==
    /\ Spec
    /\ \A f \in Flushes :
          /\ WF_vars(FlushStep(f))
          /\ \A p \in Connectors \ Stalled : WF_vars(Injected(f, p))
    /\ \A r \in Requests :
          WF_vars(Age(r)) /\ WF_vars(SweepTrace(r)) /\ WF_vars(SweepDeferred(r))
-----------------------------------------------------------------------------
Places == [at : {"none", "end", "snap", "fan", "over"}, obj : Objects \union {None},
           todo : SUBSET Connectors, busy : SUBSET Connectors]

\* Objects are objects, and requests requests.
TypeOK ==
    /\ req \in [Requests -> {"new", "open", "done", "dead"}]
    /\ traces \in [Requests -> Objects \union {None}]
    /\ ptr \in [Requests -> Objects \union {None}]
    /\ pool \subseteq Objects
    /\ deferred \subseteq Requests /\ old \subseteq Requests
    /\ data \in [Objects -> SUBSET Requests]
    /\ flush \in [Flushes -> Places]
    /\ snap \in [Requests -> SUBSET Requests]

\* An object has one owner: it is in the pool, or in the map for one request,
\* or with one flush goroutine, though completions and the sweep race for it
\* (CompleteTrace, cleanupOldTraces).
OneOwner ==
    /\ \A q, r \in Requests : traces[q] = traces[r] /\ traces[r] # None => q = r
    /\ \A f, g \in Flushes :
          flush[f].obj = flush[g].obj /\ flush[g].obj # None => f = g
    /\ \A r \in Requests, f \in Flushes :
          traces[r] = flush[f].obj => traces[r] = None
    /\ \A r \in Requests : traces[r] \notin pool
    /\ \A f \in Flushes : flush[f].obj \notin pool

\* What is exported for a request was written by that request, although the
\* objects are used again (ReleaseTrace).
OwnDataOnly == \A r \in Requests : snap[r] \subseteq {r}

\* A completed trace has gone to every connector, or past one that was full,
\* when its goroutines are over: the sweep does not take it first.
Exported ==
    \A r \in Requests :
        req[r] = "done" /\ (\A f \in Flushes : f[1] = r => flush[f].at = "over")
            => \A p \in Connectors : r \in got[p] \union skipped[p]

\* Connectors that never answer hold at most their budget of traces.
PinnedBounded ==
    Cardinality({f \in Flushes : /\ flush[f].at = "fan" /\ flush[f].todo = {}
                                 /\ flush[f].busy # {} /\ flush[f].busy \subseteq Stalled})
        <= Cap * Cardinality(Stalled)

\* A connector that answers is offered every completed trace, although another
\* one never returns.
HealthyServed ==
    \A r \in Requests, p \in Connectors \ Stalled :
        req[r] = "done" ~> r \in got[p] \union skipped[p]

\* The trace and the deferred span of a request that died leave the maps.
Reclaimed ==
    \A r \in Requests : req[r] = "dead" ~> traces[r] = None /\ r \notin deferred

\* Completed traces are exported whatever a connector does, and dead ones reclaimed.
ExportsEnd == [](Exported /\ PinnedBounded) /\ HealthyServed /\ Reclaimed
=============================================================================

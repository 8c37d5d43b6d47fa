-------------------------- MODULE RequestPipeline --------------------------
(***************************************************************************)
(* One request through the plugins and the fallback chain (core/bifrost.go *)
(* handleRequest, handleStreamRequest, tryRequest, tryStreamRequest and    *)
(* the hook loops of PluginPipeline), while plugins are installed, removed *)
(* and reordered.                                                          *)
(*                                                                         *)
(* A hook is one step with any outcome plugin.go allows it.  The provider  *)
(* queue is ProviderQueue's subject: here an attempt is refused by it, is  *)
(* answered by the worker, or ends with the caller's context.              *)
(***************************************************************************)
EXTENDS Integers, FiniteSets, SequencesExt

CONSTANTS
    Plugins,          \* names of LLM plugins
    Kinds,            \* subset of {"unary", "stream"}
    MaxFallbacks,     \* fallbacks a request may have after PreRequestHook
    MaxChunks,        \* chunks of a stream
    MaxChanges,       \* plugin list changes
    PreProviderActs,  \* what PreProviderHook may do, beside passing on
    PreLLMActs,       \* the same for PreLLMHook
    PostActs          \* what PostLLMHook may do, beside passing on

PipelineAssumption ==
    /\ Kinds \subseteq {"unary", "stream"}
    /\ MaxFallbacks \in Nat /\ MaxChunks \in Nat \ {0} /\ MaxChanges \in Nat
    /\ PreProviderActs \subseteq {"respond", "refuse", "silence"}
    /\ PreLLMActs \subseteq {"respond", "refuse", "stream"}
    /\ PostActs \subseteq {"recover", "invalidate", "blank"}

VARIABLES
    plugins,   \* bifrost.llmPlugins
    changes,   \* number of changes made to it
    rq,        \* the request
    settled,   \* history: the outcome of each attempt made, in order
    stream,    \* the goroutine that feeds a stream, and the hooks of its last chunk
    pipe       \* who holds the attempt's PluginPipeline: "pool", "caller" or "stream"

vars == <<plugins, changes, rq, settled, stream, pipe>>

(* An error, by what the code asks of it: whether it lets a fallback be    *)
(* tried (AllowFallbacks nil counts as true), whether its type is          *)
(* RequestCancelled, whether it is the synthetic no_eligible_keys, whether *)
(* it is empty.                                                            *)
Errors == {"plain", "final", "cancelled", "noKeys", "blank"}
None == "none"

Idle == [at |-> "idle", kind |-> "unary", n |-> 0, attempt |-> 0, list |-> <<>>, i |-> 0,
         count |-> 0, prov |-> <<>>, pre |-> <<>>, post |-> <<>>, sc |-> FALSE,
         resp |-> FALSE, err |-> None, orig |-> None, primary |-> None, silent |-> FALSE, mute |-> FALSE]
NoStream == [at |-> "none", src |-> "plugin", list |-> <<>>, count |-> 0, left |-> 0,
             pre |-> <<>>, seen |-> <<>>]

\* The shape of the state; an attempt's hooks run within the list its pipeline took.
TypeOK ==
    /\ plugins \in SeqOf(Plugins, Cardinality(Plugins)) /\ changes \in 0..MaxChanges
    /\ rq.at \in {"idle", "attempt", "provider", "llm", "enqueue", "wait", "post", "settle",
                  "prepare", "done"}
    /\ rq.kind \in {"unary", "stream"} /\ rq.n \in 0..MaxFallbacks /\ rq.attempt \in 0..rq.n
    /\ {rq.err, rq.orig, rq.primary} \subseteq Errors \cup {None}
    /\ rq.at \in {"provider", "llm", "post"} => rq.i \in 0..Len(rq.list) + 1
    /\ stream.at \in {"none", "run", "end"} /\ stream.left \in 0..MaxChunks
    /\ pipe \in {"pool", "caller", "stream"}

Prefix(s, n) == SubSeq(s, 1, IF n > Len(s) THEN Len(s) ELSE n)

Init ==
    /\ plugins \in {s \in SeqOf(Plugins, Cardinality(Plugins)) : IsInjective(s)}
    /\ changes = 0 /\ rq = Idle /\ settled = <<>> /\ stream = NoStream /\ pipe = "pool"
-----------------------------------------------------------------------------
(* The plugin list: copied, changed and swapped in by one compare-and-swap *)

reloadLLMPlugin(p) ==
    /\ changes < MaxChanges /\ changes' = changes + 1
    /\ p \notin Range(plugins) /\ plugins' = Append(plugins, p)
    /\ UNCHANGED <<rq, settled, stream, pipe>>

removeLLMPlugin(p) ==
    /\ changes < MaxChanges /\ changes' = changes + 1
    /\ p \in Range(plugins) /\ plugins' = SelectSeq(plugins, LAMBDA q : q # p)
    /\ UNCHANGED <<rq, settled, stream, pipe>>

ReorderPlugins ==
    /\ changes < MaxChanges /\ changes' = changes + 1
    /\ \E s \in SeqOf(Plugins, Cardinality(Plugins)) :
         /\ Len(s) = Len(plugins) /\ Range(s) = Range(plugins) /\ s # plugins
         /\ plugins' = s
    /\ UNCHANGED <<rq, settled, stream, pipe>>
-----------------------------------------------------------------------------
(* A request: PreRequestHook leaves a provider and n fallbacks, or none     *)

Start ==
    /\ rq.at \in {"idle", "done"} /\ stream.at # "run"
    /\ \E k \in Kinds, n \in 0..MaxFallbacks :
         rq' = [Idle EXCEPT !.at = "attempt", !.kind = k, !.n = n]
    /\ settled' = <<>> /\ stream' = NoStream
    /\ UNCHANGED <<plugins, changes, pipe>>

Unresolved ==
    /\ rq.at \in {"idle", "done"} /\ stream.at # "run"
    /\ \E k \in Kinds : rq' = [Idle EXCEPT !.at = "done", !.kind = k, !.err = "plain"]
    /\ settled' = <<>> /\ stream' = NoStream
    /\ UNCHANGED <<plugins, changes, pipe>>

\* The next attempt keeps the request and the primary's error only: clearCtxForFallback takes
\* the silent flag off the context, tryRequest begins with new local variables.
Afresh(r) ==
    [Idle EXCEPT !.at = "attempt", !.kind = r.kind, !.n = r.n, !.attempt = r.attempt,
                 !.primary = r.primary]

(* getProviderQueue, getPluginPipeline                                     *)
BeginAttempt ==
    /\ rq.at = "attempt"
    /\ rq' = [rq EXCEPT !.at = "provider", !.list = plugins, !.i = 1]
    /\ pipe' = "caller"
    /\ UNCHANGED <<plugins, changes, settled, stream>>

NoProviderQueue ==
    /\ rq.at = "attempt"
    /\ rq' = [rq EXCEPT !.at = "settle", !.err = "plain"]
    /\ UNCHANGED <<plugins, changes, settled, stream, pipe>>
-----------------------------------------------------------------------------
(* Pre-hooks                                                               *)

\* A short-circuit after the first n plugins: their post-hooks run on it.
ShortCircuit(r, n, resp, err) ==
    [r EXCEPT !.at = "post", !.sc = TRUE, !.count = n, !.i = n, !.resp = resp,
              !.err = err, !.orig = err]

PreProviderHook ==
    /\ rq.at = "provider" /\ rq.i <= Len(rq.list)
    /\ LET r == [rq EXCEPT !.prov = Append(@, rq.list[rq.i])]
       IN \/ rq' = [r EXCEPT !.i = @ + 1]
          \/ /\ "respond" \in PreProviderActs
             /\ rq' = ShortCircuit(r, rq.i, TRUE, None)
          \/ /\ "refuse" \in PreProviderActs
             /\ \E e \in {"plain", "final"} : rq' = ShortCircuit(r, rq.i, FALSE, e)
          \/ /\ "silence" \in PreProviderActs
             /\ rq' = ShortCircuit([r EXCEPT !.silent = TRUE, !.mute = TRUE], rq.i, FALSE, "plain")
    /\ UNCHANGED <<plugins, changes, settled, stream, pipe>>

PreProviderDone ==
    /\ rq.at = "provider" /\ rq.i > Len(rq.list)
    /\ rq' = [rq EXCEPT !.at = "llm", !.i = 1]
    /\ UNCHANGED <<plugins, changes, settled, stream, pipe>>

PreLLMHook ==
    /\ rq.at = "llm" /\ rq.i <= Len(rq.list)
    /\ LET r == [rq EXCEPT !.pre = Append(@, rq.list[rq.i])]
       IN \/ rq' = [r EXCEPT !.i = @ + 1]
          \/ /\ "respond" \in PreLLMActs
             /\ rq' = ShortCircuit(r, rq.i, TRUE, None)
          \/ /\ "refuse" \in PreLLMActs
             /\ \E e \in {"plain", "final"} : rq' = ShortCircuit(r, rq.i, FALSE, e)
    /\ UNCHANGED <<plugins, changes, settled, stream, pipe>>

\* A plugin answers with a stream: a goroutine takes the pipeline with it.
PreLLMStream ==
    /\ rq.at = "llm" /\ rq.i <= Len(rq.list)
    /\ rq.kind = "stream" /\ "stream" \in PreLLMActs
    /\ rq' = [rq EXCEPT !.at = "settle", !.pre = Append(@, rq.list[rq.i]), !.resp = TRUE]
    /\ \E c \in 1..MaxChunks :
         stream' = [NoStream EXCEPT !.at = "run", !.list = rq.list, !.count = rq.i,
                                    !.left = c, !.pre = rq'.pre]
    /\ pipe' = "stream"
    /\ UNCHANGED <<plugins, changes, settled>>

PreLLMDone ==
    /\ rq.at = "llm" /\ rq.i > Len(rq.list)
    /\ rq' = [rq EXCEPT !.at = "enqueue"]
    /\ UNCHANGED <<plugins, changes, settled, stream, pipe>>
-----------------------------------------------------------------------------
(* The provider queue and the worker                                       *)

\* A unary caller counts the plugins right after its send.
Enqueue ==
    /\ rq.at = "enqueue"
    /\ rq' = [rq EXCEPT !.at = "wait", !.count = Len(plugins)]
    /\ UNCHANGED <<plugins, changes, settled, stream, pipe>>

\* The queue is closing or full, or the context ends before the send.
Refused ==
    /\ rq.at = "enqueue"
    /\ \E e \in {"plain", "final", "cancelled"} : rq' = [rq EXCEPT !.at = "settle", !.err = e]
    /\ UNCHANGED <<plugins, changes, settled, stream, pipe>>

ContextEnds ==
    /\ rq.at = "wait"
    /\ \E e \in {"final", "cancelled"} : rq' = [rq EXCEPT !.at = "settle", !.err = e]
    /\ UNCHANGED <<plugins, changes, settled, stream, pipe>>

ToPostHooks(r, n, resp, err) ==
    [r EXCEPT !.at = "post", !.i = IF n > Len(r.list) THEN Len(r.list) ELSE n,
              !.resp = resp, !.err = err, !.orig = err,
              !.silent = @ \/ err = "noKeys", !.mute = @ \/ err = "noKeys"]

Answered ==
    /\ rq.at = "wait" /\ rq.kind = "unary"
    /\ rq' = ToPostHooks(rq, rq.count, TRUE, None)
    /\ UNCHANGED <<plugins, changes, settled, stream, pipe>>

\* A streaming caller counts the plugins only now.
Failed ==
    /\ rq.at = "wait"
    /\ \E e \in {"plain", "final", "cancelled", "noKeys"} :
         rq' = ToPostHooks(rq, IF rq.kind = "unary" THEN rq.count ELSE Len(plugins), FALSE, e)
    /\ UNCHANGED <<plugins, changes, settled, stream, pipe>>

\* The worker took a pipeline of its own for the hooks of the chunks.
StreamAnswered ==
    /\ rq.at = "wait" /\ rq.kind = "stream"
    /\ rq' = [rq EXCEPT !.at = "settle", !.resp = TRUE]
    /\ \E c \in 1..MaxChunks :
         stream' = [NoStream EXCEPT !.at = "run", !.src = "worker", !.list = plugins,
                                    !.left = c, !.pre = rq.pre]
    /\ UNCHANGED <<plugins, changes, settled, pipe>>
-----------------------------------------------------------------------------
(* Post-hooks, from the last plugin that ran to the first                  *)

PostLLMHook ==
    /\ rq.at = "post" /\ rq.i > 0
    /\ LET r == [rq EXCEPT !.post = Append(@, rq.list[rq.i]), !.i = @ - 1]
       IN \/ rq' = r
          \/ /\ "recover" \in PostActs /\ rq.err # None
             /\ rq' = [r EXCEPT !.resp = TRUE, !.err = None]
          \/ /\ "invalidate" \in PostActs /\ rq.resp
             /\ \E e \in {"plain", "final"} : rq' = [r EXCEPT !.resp = FALSE, !.err = e]
          \/ /\ "blank" \in PostActs /\ rq.err # None
             /\ rq' = [r EXCEPT !.resp = TRUE, !.err = "blank"]
    /\ UNCHANGED <<plugins, changes, settled, stream, pipe>>

\* An error wins over a response, unless it is empty.
FinalError(resp, err) == IF err = "blank" /\ resp THEN None ELSE err

\* What try(Stream)Request makes of the hooks' verdict: a recovered PreProviderHook refusal
\* of a stream is dropped, and a stream's error nobody answered is the worker's.
Verdict(r) ==
    LET e == FinalError(r.resp, r.err)
    IN IF e # None THEN [resp |-> FALSE, err |-> e]
       ELSE IF r.kind = "stream" /\ r.sc /\ r.pre = <<>> /\ r.orig # None
            THEN [resp |-> FALSE, err |-> None]
       ELSE IF r.kind = "stream" /\ ~r.sc /\ ~r.resp THEN [resp |-> FALSE, err |-> r.orig]
       ELSE [resp |-> r.resp, err |-> None]

PostHooksDone ==
    /\ rq.at = "post" /\ rq.i = 0
    /\ rq' = [rq EXCEPT !.at = "settle", !.resp = Verdict(rq).resp, !.err = Verdict(rq).err]
    /\ UNCHANGED <<plugins, changes, settled, stream, pipe>>
-----------------------------------------------------------------------------
(* The fallback chain                                                      *)

\* Mutant: the error of a fallback is not looked at.
shouldContinueAlways(r) == TRUE

shouldTryFallbacks(r) == r.err \notin {None, "cancelled", "final"} /\ r.n > 0
shouldContinueWithFallbacks(r) == r.err \notin {"cancelled", "final"}

\* The next fallback, or the primary's error when there is none left.
Advance(r) ==
    IF r.attempt < r.n THEN [r EXCEPT !.at = "prepare", !.attempt = @ + 1]
    ELSE [r EXCEPT !.at = "done", !.resp = FALSE, !.err = r.primary]

\* The attempt returns; its deferred release gives the pipeline back.
Settle ==
    /\ rq.at = "settle"
    /\ settled' = Append(settled, [attempt |-> rq.attempt, resp |-> rq.resp, err |-> rq.err])
    /\ pipe' = IF pipe = "caller" THEN "pool" ELSE pipe
    /\ LET r == IF rq.attempt = 0 THEN [rq EXCEPT !.primary = rq.err] ELSE rq
           more == IF rq.attempt = 0 THEN shouldTryFallbacks(r)
                   ELSE r.err # None /\ shouldContinueWithFallbacks(r)
       IN rq' = IF more THEN Advance(r) ELSE [r EXCEPT !.at = "done"]
    /\ UNCHANGED <<plugins, changes, stream>>

Prepare ==
    /\ rq.at = "prepare"
    /\ rq' = Afresh(rq)
    /\ UNCHANGED <<plugins, changes, settled, stream, pipe>>

NoFallbackConfig ==
    /\ rq.at = "prepare"
    /\ rq' = Advance([rq EXCEPT !.silent = FALSE])
    /\ UNCHANGED <<plugins, changes, settled, stream, pipe>>
-----------------------------------------------------------------------------
(* The goroutine behind a stream: it runs the post-hooks on each chunk     *)

Chunk ==
    /\ stream.at = "run" /\ stream.left > 0
    /\ LET n == IF stream.src = "plugin" THEN stream.count ELSE Len(plugins)
       IN stream' = [stream EXCEPT !.left = @ - 1, !.seen = Reverse(Prefix(stream.list, n))]
    /\ UNCHANGED <<plugins, changes, rq, settled, pipe>>

\* The stream is drained, or its reader has gone; the pipeline is released.
StreamEnds ==
    /\ stream.at = "run"
    /\ stream' = [stream EXCEPT !.at = "end", !.left = 0]
    /\ pipe' = IF stream.src = "plugin" THEN "pool" ELSE pipe
    /\ UNCHANGED <<plugins, changes, rq, settled>>
-----------------------------------------------------------------------------
Step ==
    \/ BeginAttempt \/ NoProviderQueue \/ PreProviderHook \/ PreProviderDone
    \/ PreLLMHook \/ PreLLMStream \/ PreLLMDone \/ Enqueue \/ Refused \/ ContextEnds
    \/ Answered \/ Failed \/ StreamAnswered \/ PostLLMHook \/ PostHooksDone \/ Settle
    \/ Prepare \/ NoFallbackConfig

Next ==
    \/ \E p \in Plugins : reloadLLMPlugin(p) \/ removeLLMPlugin(p)
    \/ ReorderPlugins \/ Start \/ Unresolved \/ Step \/ Chunk \/ StreamEnds

Spec == Init /\ [][Next]_vars

(* The caller's goroutine is scheduled, hooks return, and the worker       *)
(* answers or the request's deadline passes.                               *)
FairSpec == Spec /\ WF_vars(Step)
-----------------------------------------------------------------------------
(* Properties                                                              *)

\* When RunPostLLMHooks is through, the plugins it ran are those whose pre-hooks ran in this
\* attempt, in reverse order: also after a short-circuit, and after an error or a recovery.
HooksMirrored ==
    rq.at = "post" /\ rq.i = 0 =>
        rq.post = Reverse(IF rq.sc /\ rq.pre = <<>> THEN rq.prov ELSE rq.pre)

\* Each chunk of a stream passes the post-hooks of the plugins whose PreLLMHook saw the
\* request, in reverse order, whoever produces the stream.
ChunksMirrored ==
    stream.seen # <<>> => stream.seen = Reverse(stream.pre)

\* While the goroutine of a plugin's stream runs hooks, the pipeline it uses is not in the
\* pool, where the next request would take it and reset it.
PipelineNotShared ==
    stream.at = "run" /\ stream.src = "plugin" => pipe # "pool"

\* The caller gets a response or an error, never both or neither.
AnswerOrError ==
    rq.at = "done" => (rq.resp <=> rq.err = None)

\* A fallback is tried only after errors that allow it, and the request's answer is that of
\* the attempt that stopped the chain; when none did, it is the primary's error.
ChainDecidesAnswer ==
    rq.at = "done" /\ settled # <<>> =>
        LET end == Last(settled)
            retryable(a) == ~a.resp /\ a.err \notin {"final", "cancelled"}
        IN /\ \A j \in 1..Len(settled) - 1 : retryable(settled[j])
           /\ IF retryable(end) THEN ~rq.resp /\ rq.err = Head(settled).err
              ELSE rq.resp = end.resp /\ rq.err = end.err

\* The logging plugin is told to keep silent about an attempt only by that attempt: the flag
\* a suppressed primary leaves on the shared context is gone when a fallback's hooks run.
SilentIsOwn ==
    rq.at = "post" /\ rq.silent => rq.mute

\* Every request is answered: the chain of fallbacks comes to an end.
RequestAnswered == rq.at = "attempt" ~> rq.at = "done"
=============================================================================

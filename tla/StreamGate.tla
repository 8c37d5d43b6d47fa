----------------------------- MODULE StreamGate -----------------------------
(***************************************************************************)
(* The pause/resume/end gate of one streaming response                     *)
(* (framework/streaming/gate.go), the provider goroutine that sends its    *)
(* chunks through it and closes the channel (core/providers/utils), and    *)
(* the accumulator map that owns the gate (framework/streaming/            *)
(* accumulator.go).                                                        *)
(*                                                                         *)
(* Plugins call Pause, Resume, ... at any time.  Every gate operation runs *)
(* under sa.mu and is one action; a channel send happens outside the lock  *)
(* and is an action of its own.  A flusher in cond.Wait is "asleep" and    *)
(* continues only after a Broadcast.                                       *)
(*                                                                         *)
(* A chunk is its position in the provider's stream.  A chunk's size is 1, *)
(* so the buffered bytes are Len(buf).  The accumulator of a stream can be *)
(* deleted and created anew while the stream runs: a gate has a generation *)
(* and the map holds at most the newest one.  The field failed of a gate   *)
(* is history: its flusher produced the synthetic error.                   *)
(***************************************************************************)
EXTENDS Naturals, Sequences, Functions

CONSTANTS
    Chunks,            \* how many chunks the provider may produce
    MaxBuf,            \* gateReplayBufMaxBytes
    ChanCap,           \* capacity of the client's channel
    MaxGen,            \* bound: accumulators created for the stream
    MaxCtl,            \* bound: calls plugins make to the gate
    ReleaseOnFinal,    \* a plugin drops the last reference on the final chunk
    TTLSweep           \* the stream may outlive the accumulator's TTL

ASSUME StreamAssumption ==
    /\ Chunks \in Nat \ {0} /\ MaxBuf \in Nat \ {0} /\ ChanCap \in Nat \ {0}
    /\ MaxGen \in Nat \ {0} /\ MaxCtl \in Nat
    /\ ReleaseOnFinal \in BOOLEAN /\ TTLSweep \in BOOLEAN

Gens == 1..MaxGen
Err == 0               \* the synthetic error chunk

VARIABLES
    gate,      \* gate[g]: the gate fields of the g-th StreamAccumulator
    cur,       \* the newest generation
    stored,    \* streamAccumulators holds generation cur
    gated,     \* BifrostContextKeyStreamGated
    prod,      \* the provider goroutine: its step, chunk and what it waits for
    out,       \* chunks written to the channel
    taken,     \* how many of them the client has received
    ctxDone,   \* the request context is done
    ctl,       \* plugin calls so far
    owed,      \* history: chunks buffered and not cleared or reaped
    cut,       \* history: the first chunk that must not be sent (0: none)
    leak       \* history: chunks delivered since the gate was paused

vars == <<gate, cur, stored, gated, prod, out, taken, ctxDone, ctl, owed, cut, leak>>
envVars == <<gated, taken, ctxDone, ctl>>
histVars == <<owed, cut, leak>>

GateStates == {"active", "paused", "ended"}
FlusherSteps == {"off", "check", "asleep", "send", "sent", "pace", "cancelled", "sendErr"}
ProducerSteps == {"hook", "send", "direct", "end", "wait", "close", "closed"}

NewGate ==
    [state |-> "active", buf |-> <<>>, terminal |-> FALSE, interval |-> FALSE,
     err |-> FALSE, target |-> FALSE, flusher |-> "off", hand |-> Err,
     cleanup |-> FALSE, failed |-> FALSE]

TypeOK ==
    /\ gate \in [Gens -> [state : GateStates, buf : Seq(1..Chunks), terminal : BOOLEAN,
                          interval : BOOLEAN, err : BOOLEAN, target : BOOLEAN,
                          flusher : FlusherSteps, hand : 0..Chunks, cleanup : BOOLEAN,
                          failed : BOOLEAN]]
    /\ cur \in Gens /\ stored \in BOOLEAN /\ gated \in BOOLEAN
    /\ prod \in [at : ProducerSteps, chunk : 1..Chunks, final : BOOLEAN, gen : 0..MaxGen]
    /\ out \in Seq(0..Chunks) /\ taken \in 0..Len(out)
    /\ ctxDone \in BOOLEAN /\ ctl \in 0..MaxCtl
    /\ owed \subseteq 1..Chunks /\ cut \in 0..Chunks + 1 /\ leak \in Nat

\* A logging plugin created the accumulator in its pre-hook.
Init ==
    /\ gate = [g \in Gens |-> NewGate]
    /\ cur = 1
    /\ stored = TRUE
    /\ gated = FALSE
    /\ prod \in [at : {"hook"}, chunk : {1}, final : BOOLEAN, gen : {0}]
    /\ out = <<>>
    /\ taken = 0
    /\ ctxDone = FALSE
    /\ ctl = 0
    /\ owed = {}
    /\ cut = 0
    /\ leak = 0

-----------------------------------------------------------------------------
(* The gate's helpers.                                                     *)

On(a) == a.flusher # "off"

Broadcast(a) == IF a.flusher = "asleep" THEN [a EXCEPT !.flusher = "check"] ELSE a

StartFlusher(a) == IF On(a) THEN a ELSE [a EXCEPT !.flusher = "check"]

\* getOrCreateStreamAccumulator: the generation a call works on.
GetOrCreate(g) ==
    /\ g = IF stored THEN cur ELSE cur + 1
    /\ g \in Gens
    /\ cur' = g
    /\ stored' = TRUE

\* cleanupStreamAccumulator(id, false) on the stored gate.
Release(gs) ==
    IF On(gs[cur]) \/ gs[cur].state = "paused"
    THEN /\ gate' = [gs EXCEPT ![cur].cleanup = TRUE]
         /\ stored' = TRUE
    ELSE /\ gate' = gs
         /\ stored' = FALSE

\* sendOrCancel can write to the channel.
CanSend == prod.at # "closed" /\ Len(out) - taken < ChanCap

\* sendOrCancel gives up: the context is done or the channel is closed.
CanCancel == ctxDone \/ prod.at = "closed"

Write(c) ==
    /\ CanSend
    /\ out' = Append(out, c)
    /\ leak' = IF stored /\ gate[cur].state = "paused" THEN leak + 1 ELSE leak

-----------------------------------------------------------------------------
(* Calls a plugin makes through its context.                               *)

Call(n) ==
    /\ ctl + n <= MaxCtl
    /\ ctl' = ctl + n

Pause ==
    /\ Call(1)
    /\ \E g \in Gens :
        /\ GetOrCreate(g)
        /\ IF gate[g].state = "active"
           THEN /\ gate' = [gate EXCEPT ![g].state = "paused", ![g].interval = FALSE]
                /\ leak' = 0
           ELSE UNCHANGED <<gate, leak>>
    /\ gated' = TRUE
    /\ UNCHANGED <<prod, out, taken, ctxDone, owed, cut>>

Resume ==
    /\ Call(1)
    /\ \E g \in Gens :
        /\ GetOrCreate(g)
        /\ IF gate[g].state = "paused"
           THEN gate' = [gate EXCEPT ![g] =
                           Broadcast([@ EXCEPT !.state = "active", !.interval = FALSE])]
           ELSE UNCHANGED gate
    /\ gated' = TRUE
    /\ UNCHANGED <<prod, out, taken, ctxDone, owed, cut, leak>>

ResumeWithReplayInterval ==
    /\ Call(1)
    /\ stored /\ gate[cur].state = "paused"
    /\ gate' = [gate EXCEPT ![cur].interval = TRUE]
    /\ UNCHANGED <<cur, stored, gated, prod, out, taken, ctxDone, owed, cut, leak>>

ClearPausedBuffer ==
    /\ Call(1)
    /\ stored /\ gate[cur].state = "paused"
    /\ owed' = owed \ Range(gate[cur].buf)
    /\ gate' = [gate EXCEPT ![cur] = Broadcast([@ EXCEPT !.buf = <<>>, !.interval = FALSE,
                                                         !.terminal = FALSE])]
    /\ UNCHANGED <<cur, stored, gated, prod, out, taken, ctxDone, cut, leak>>

\* Mutant: the flusher is not woken.
EndSilent(a, err) ==
    LET e == [a EXCEPT !.state = "ended", !.interval = FALSE, !.err = @ \/ err]
    IN  IF a.state = "ended" THEN a
        ELSE IF e.target /\ (e.buf # <<>> \/ e.err) THEN StartFlusher(e) ELSE e

\* The gate after End(err) or End(nil).
EndGate(a, err) ==
    LET e == [a EXCEPT !.state = "ended",
                       !.interval = IF a.state = "paused" THEN FALSE ELSE @,
                       !.err = @ \/ err]
        s == IF e.target /\ (e.buf # <<>> \/ e.err) THEN StartFlusher(e) ELSE e
    IN  IF a.state = "ended" THEN a ELSE Broadcast(s)

\* The chunk the provider has not handed to the gate yet.
Unsent == IF prod.at \in {"hook", "send"} THEN prod.chunk ELSE prod.chunk + 1

End ==
    /\ Call(1)
    /\ \E g \in Gens, err \in BOOLEAN :
        /\ GetOrCreate(g)
        /\ gate' = [gate EXCEPT ![g] = EndGate(@, err)]
    /\ gated' = TRUE
    /\ cut' = IF cut = 0 THEN Unsent ELSE cut
    /\ UNCHANGED <<prod, out, taken, ctxDone, owed, leak>>

-----------------------------------------------------------------------------
(* The provider goroutine.                                                 *)

\* ProcessAndSendResponse runs the post-hooks; the plugin that holds the last
\* reference to the accumulator drops it on the final chunk.
RunPostHooks ==
    /\ prod.at = "hook"
    /\ prod' = [prod EXCEPT !.at = "send"]
    /\ IF ReleaseOnFinal /\ prod.final /\ stored
       THEN Release(gate)
       ELSE UNCHANGED <<gate, stored>>
    /\ UNCHANGED <<cur, out>> /\ UNCHANGED envVars /\ UNCHANGED histVars

\* The provider's step after a chunk: the next chunk, or CloseStream.  It stops
\* early when its own read loop ends.
Advance ==
    \/ /\ ~prod.final
       /\ prod.chunk < Chunks
       /\ \E last \in BOOLEAN :
            prod' = [at |-> "hook", chunk |-> prod.chunk + 1, final |-> last, gen |-> 0]
    \/ prod' = [prod EXCEPT !.at = "end"]

\* GateSendChunk on a stream no plugin has gated, and GateSend on an idle
\* active gate, write to the channel themselves.
SendUngated ==
    /\ prod.at = "send" /\ ~gated
    /\ prod' = [prod EXCEPT !.at = "direct"]
    /\ UNCHANGED <<gate, cur, stored, out>> /\ UNCHANGED envVars /\ UNCHANGED histVars

\* GateSend's common part: the accumulator, and its delivery target.
Entered(g) == [gate[g] EXCEPT !.target = TRUE]

GateSendEnded ==
    /\ prod.at = "send" /\ gated
    /\ \E g \in Gens :
        /\ GetOrCreate(g)
        /\ gate[g].state = "ended"
        /\ gate' = [gate EXCEPT ![g] = Entered(g)]
    /\ Advance
    /\ UNCHANGED out /\ UNCHANGED envVars /\ UNCHANGED histVars

\* The replay buffer is full: the gate ends with an error and drops the chunk.
GateSendOverflow ==
    /\ prod.at = "send" /\ gated
    /\ \E g \in Gens :
        /\ GetOrCreate(g)
        /\ gate[g].state = "paused" /\ Len(gate[g].buf) + 1 > MaxBuf
        /\ gate' = [gate EXCEPT ![g] = Broadcast(StartFlusher(
                      [Entered(g) EXCEPT !.state = "ended", !.interval = FALSE, !.err = TRUE]))]
    /\ cut' = IF cut = 0 THEN prod.chunk ELSE cut
    /\ Advance
    /\ UNCHANGED <<out, owed, leak>> /\ UNCHANGED envVars

\* An armed replay interval turns the paused gate active behind this chunk.
GateSendPaused ==
    /\ prod.at = "send" /\ gated
    /\ \E g \in Gens :
        /\ GetOrCreate(g)
        /\ gate[g].state = "paused" /\ Len(gate[g].buf) + 1 <= MaxBuf
        /\ LET a == StartFlusher([Entered(g) EXCEPT !.buf = Append(@, prod.chunk),
                                                    !.terminal = @ \/ prod.final])
           IN  gate' = [gate EXCEPT ![g] =
                          IF a.interval THEN Broadcast([a EXCEPT !.state = "active"]) ELSE a]
    /\ owed' = owed \cup {prod.chunk}
    /\ Advance
    /\ UNCHANGED <<out, cut, leak>> /\ UNCHANGED envVars

\* An active gate appends behind buffered chunks, a final chunk also behind a
\* running flusher; a final chunk ends the gate.
Queues(a) == a.buf # <<>> \/ (prod.final /\ On(a))

GateSendQueued ==
    /\ prod.at = "send" /\ gated
    /\ \E g \in Gens :
        /\ GetOrCreate(g)
        /\ gate[g].state = "active" /\ Queues(gate[g])
        /\ gate' = [gate EXCEPT ![g] = Broadcast(
                      [Entered(g) EXCEPT !.buf = Append(@, prod.chunk),
                                         !.state = IF prod.final THEN "ended" ELSE @])]
    /\ owed' = owed \cup {prod.chunk}
    /\ Advance
    /\ UNCHANGED <<out, cut, leak>> /\ UNCHANGED envVars

GateSendDirect ==
    /\ prod.at = "send" /\ gated
    /\ \E g \in Gens :
        /\ GetOrCreate(g)
        /\ gate[g].state = "active" /\ ~Queues(gate[g])
        /\ gate' = [gate EXCEPT ![g] =
                      [Entered(g) EXCEPT !.state = IF prod.final THEN "ended" ELSE @]]
    /\ prod' = [prod EXCEPT !.at = "direct"]
    /\ UNCHANGED out /\ UNCHANGED envVars /\ UNCHANGED histVars

DirectSend ==
    /\ prod.at = "direct"
    /\ Write(prod.chunk)
    /\ Advance
    /\ UNCHANGED <<gate, cur, stored, owed, cut>> /\ UNCHANGED envVars

DirectCancel ==
    /\ prod.at = "direct" /\ CanCancel
    /\ Advance
    /\ UNCHANGED <<gate, cur, stored, out>> /\ UNCHANGED envVars /\ UNCHANGED histVars

\* CloseStream: EndStream(nil), then WaitForFlusher on the stored accumulator,
\* then close.
CloseStreamEnd ==
    /\ prod.at = "end"
    /\ IF gated
       THEN /\ \E g \in Gens :
                /\ GetOrCreate(g)
                /\ gate' = [gate EXCEPT ![g] = EndGate(@, FALSE)]
            /\ prod' = [prod EXCEPT !.at = "wait"]
       ELSE /\ prod' = [prod EXCEPT !.at = "close"]
            /\ UNCHANGED <<gate, cur, stored>>
    /\ UNCHANGED out /\ UNCHANGED envVars /\ UNCHANGED histVars

\* WaitForFlusher reads gateFlusherDone, then blocks on it.
WaitForFlusher ==
    /\ prod.at = "wait"
    /\ \/ /\ prod.gen = 0 /\ stored /\ On(gate[cur])
          /\ prod' = [prod EXCEPT !.gen = cur]
       \/ /\ prod.gen = 0 /\ ~(stored /\ On(gate[cur]))
          /\ prod' = [prod EXCEPT !.at = "close"]
       \/ /\ prod.gen # 0 /\ ~On(gate[prod.gen])
          /\ prod' = [prod EXCEPT !.at = "close"]
    /\ UNCHANGED <<gate, cur, stored, out>> /\ UNCHANGED envVars /\ UNCHANGED histVars

CloseChannel ==
    /\ prod.at = "close"
    /\ prod' = [prod EXCEPT !.at = "closed"]
    /\ UNCHANGED <<gate, cur, stored, out>> /\ UNCHANGED envVars /\ UNCHANGED histVars

-----------------------------------------------------------------------------
(* The flusher goroutine of generation g.                                  *)

\* The flusher's deferred exit: a teardown asked for while it ran happens now,
\* on whatever accumulator the map then holds.
Exit(g, a) ==
    LET gs == [gate EXCEPT ![g] = [a EXCEPT !.flusher = "off"]]
    IN  IF a.cleanup /\ stored
        THEN Release(gs)
        ELSE gate' = gs /\ UNCHANGED stored

\* The end of gateFlusher's loop body, after drainBufferLocked returned.
AfterDrain(g, a) ==
    LET b == IF a.buf = <<>> THEN [a EXCEPT !.interval = FALSE] ELSE a
        c == IF b.terminal /\ b.state = "active"
             THEN [b EXCEPT !.terminal = FALSE, !.state = "ended"] ELSE b
    IN  CASE c.state # "ended" -> /\ gate' = [gate EXCEPT ![g] = [c EXCEPT !.flusher = "check"]]
                                  /\ UNCHANGED stored
          [] c.state = "ended" /\ c.err ->
                /\ gate' = [gate EXCEPT ![g] = [c EXCEPT !.err = FALSE, !.failed = TRUE,
                                                           !.flusher = "sendErr"]]
                /\ UNCHANGED stored
          [] OTHER -> Exit(g, c)

\* Mutant: the chunk stays in the buffer while it is sent.
DrainPeek(g, a) ==
    IF a.state # "paused" /\ a.buf # <<>>
    THEN /\ gate' = [gate EXCEPT ![g] = [a EXCEPT !.hand = Head(a.buf), !.flusher = "send"]]
         /\ UNCHANGED stored
    ELSE AfterDrain(g, a)

\* Mutant: a pause does not stop a drain that has begun.
DrainAll(g, a) ==
    IF a.buf # <<>>
    THEN /\ gate' = [gate EXCEPT ![g] = [a EXCEPT !.hand = Head(a.buf), !.buf = Tail(a.buf),
                                                  !.flusher = "send"]]
         /\ UNCHANGED stored
    ELSE AfterDrain(g, a)

\* The head of drainBufferLocked's loop.
Drain(g, a) ==
    IF a.state # "paused" /\ a.buf # <<>>
    THEN /\ gate' = [gate EXCEPT ![g] = [a EXCEPT !.hand = Head(a.buf), !.buf = Tail(a.buf),
                                                  !.flusher = "send"]]
         /\ UNCHANGED stored
    ELSE AfterDrain(g, a)

FlusherCheck(g) ==
    /\ gate[g].flusher = "check"
    /\ IF gate[g].state # "ended" /\ (gate[g].state = "paused" \/ gate[g].buf = <<>>)
       THEN gate' = [gate EXCEPT ![g].flusher = "asleep"] /\ UNCHANGED stored
       ELSE Drain(g, gate[g])
    /\ UNCHANGED <<cur, prod, out>> /\ UNCHANGED envVars /\ UNCHANGED histVars

FlusherSend(g) ==
    /\ gate[g].flusher = "send"
    /\ Write(gate[g].hand)
    /\ gate' = [gate EXCEPT ![g].flusher = "sent", ![g].hand = Err]
    /\ UNCHANGED <<cur, stored, prod, owed, cut>> /\ UNCHANGED envVars

FlusherCancel(g) ==
    /\ gate[g].flusher \in {"send", "pace"} /\ CanCancel
    /\ gate[g].flusher = "pace" => ctxDone
    /\ gate' = [gate EXCEPT ![g].flusher = "cancelled", ![g].hand = Err]
    /\ UNCHANGED <<cur, stored, prod, out>> /\ UNCHANGED envVars /\ UNCHANGED histVars

\* Relocked after a delivery: wait for the replay interval or go on draining.
FlusherSent(g) ==
    /\ gate[g].flusher = "sent"
    /\ IF gate[g].buf # <<>> /\ gate[g].interval
       THEN gate' = [gate EXCEPT ![g].flusher = "pace"] /\ UNCHANGED stored
       ELSE Drain(g, gate[g])
    /\ UNCHANGED <<cur, prod, out>> /\ UNCHANGED envVars /\ UNCHANGED histVars

FlusherPaced(g) ==
    /\ gate[g].flusher = "pace"
    /\ Drain(g, gate[g])
    /\ UNCHANGED <<cur, prod, out>> /\ UNCHANGED envVars /\ UNCHANGED histVars

\* Relocked after a cancelled delivery: the rest of the buffer is abandoned.
FlusherAbandon(g) ==
    /\ gate[g].flusher = "cancelled"
    /\ owed' = owed \ Range(gate[g].buf)
    /\ AfterDrain(g, [gate[g] EXCEPT !.buf = <<>>, !.interval = FALSE, !.state = "ended"])
    /\ UNCHANGED <<cur, prod, out, cut, leak>> /\ UNCHANGED envVars

FlusherSendErr(g) ==
    /\ gate[g].flusher = "sendErr"
    /\ Write(Err)
    /\ Exit(g, gate[g])
    /\ UNCHANGED <<cur, prod, owed, cut>> /\ UNCHANGED envVars

FlusherErrCancel(g) ==
    /\ gate[g].flusher = "sendErr" /\ CanCancel
    /\ Exit(g, gate[g])
    /\ UNCHANGED <<cur, prod, out>> /\ UNCHANGED envVars /\ UNCHANGED histVars

Flusher(g) ==
    \/ FlusherCheck(g) \/ FlusherSend(g) \/ FlusherCancel(g) \/ FlusherSent(g)
    \/ FlusherPaced(g) \/ FlusherAbandon(g) \/ FlusherSendErr(g) \/ FlusherErrCancel(g)

-----------------------------------------------------------------------------
(* The accumulator map and the environment.                                *)

\* cleanupStreamAccumulator(id, true): the TTL sweep on a running stream, or
\* the trace completer after it.  Force-end is drop-only.
ForceCleanup ==
    /\ stored
    /\ (TTLSweep /\ cur < MaxGen - 1) \/ prod.at = "closed"
    /\ LET a == gate[cur]
       IN  IF a.state = "ended" THEN UNCHANGED <<gate, owed>>
           ELSE /\ gate' = [gate EXCEPT ![cur] = Broadcast(
                              [a EXCEPT !.state = "ended", !.terminal = FALSE, !.err = FALSE,
                                        !.interval = FALSE, !.buf = <<>>])]
                /\ owed' = owed \ Range(a.buf)
    /\ stored' = FALSE
    /\ UNCHANGED <<cur, prod, out, cut, leak>> /\ UNCHANGED envVars

Receive ==
    /\ taken < Len(out)
    /\ taken' = taken + 1
    /\ UNCHANGED <<gate, cur, stored, gated, prod, out, ctxDone, ctl>> /\ UNCHANGED histVars

Cancel ==
    /\ ~ctxDone
    /\ ctxDone' = TRUE
    /\ UNCHANGED <<gate, cur, stored, gated, prod, out, taken, ctl>> /\ UNCHANGED histVars

Control == Pause \/ Resume \/ ResumeWithReplayInterval \/ ClearPausedBuffer \/ End

Producer ==
    \/ RunPostHooks \/ SendUngated \/ GateSendEnded \/ GateSendOverflow \/ GateSendPaused
    \/ GateSendQueued \/ GateSendDirect \/ DirectSend \/ DirectCancel
    \/ CloseStreamEnd \/ WaitForFlusher \/ CloseChannel

Next ==
    \/ Control \/ Producer \/ ForceCleanup \/ Receive \/ Cancel
    \/ \E g \in Gens : Flusher(g)

Spec == Init /\ [][Next]_vars

\* The goroutines are scheduled, and the client reads the channel or goes away.
FairSpec ==
    /\ Spec
    /\ WF_vars(Producer) /\ WF_vars(Receive)
    /\ \A g \in Gens : WF_vars(Flusher(g))

-----------------------------------------------------------------------------
(* The promise to the client: StreamDelivery, with the direct lane 0.      *)

GateQueue(a) ==
    CASE a.flusher = "cancelled" -> <<>>
      [] a.flusher = "send" -> <<a.hand>> \o a.buf
      [] a.flusher = "sendErr" -> <<Err>>
      [] OTHER -> a.buf

DirectQueue == IF prod.at = "direct" THEN <<prod.chunk>> ELSE <<>>

LaneQueue(l) == IF l = 0 THEN DirectQueue ELSE GateQueue(gate[l])

Delivery == INSTANCE StreamDelivery WITH
    Lanes <- 0..MaxGen, Direct <- 0,
    queue <- [l \in 0..MaxGen |-> LaneQueue(l)],
    last <- Unsent - 1,
    done <- {g \in Gens : gate[g].failed}

\* The gate implements StreamDelivery: every chunk is refused or delivered in its
\* lane's order, at most once, and a flusher's synthetic error is its last chunk
\* (GateSend, drainBufferLocked, gateFlusher).
ImplementsDelivery == Delivery!Spec

\* The client sees the provider's chunks in the provider's order (GateSend:
\* "so order is preserved between buffered and live chunks").
\* Not what the code does (README, disagreements).
OrderPreserved ==
    \A i, j \in DOMAIN out :
        i < j /\ out[i] # Err /\ out[j] # Err => out[i] < out[j]

\* Once EndStream returned, no chunk handed to the gate later is delivered
\* ("all further provider chunks for this stream are dropped").
EndIsFinal == cut # 0 => \A i \in DOMAIN out : out[i] < cut

\* CloseStream closes the channel only when no flusher is left to write to it
\* (WaitForFlusher before close).
NoFlusherAfterClose == prod.at = "closed" => \A g \in Gens : ~On(gate[g])

\* A chunk the gate buffered has reached the channel when the stream is closed,
\* unless it was cleared, reaped, or the client went away.
BufferedIsDelivered ==
    prod.at = "closed" /\ ~ctxDone => owed \subseteq Range(out)

\* While the gate stays paused the client gets at most two more chunks: the one
\* the provider and the one the flusher had taken before the pause.
PauseHolds == stored /\ gate[cur].state = "paused" => leak <= 2

\* Once the provider starts to close the stream, the channel is closed: no
\* wakeup of the flusher is lost and nobody waits for a flusher that is gone.
CloseCompletes == prod.at = "end" ~> prod.at = "closed"
=============================================================================

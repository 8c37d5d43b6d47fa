--------------------------- MODULE ProviderQueue ---------------------------
(***************************************************************************)
(* The life of one provider's request queue in the gateway core            *)
(* (core/bifrost.go): callers that enqueue a pooled ChannelMessage and wait *)
(* for its reply, the workers that serve the queue, and the operations that *)
(* create, replace and remove the queue while both are running.            *)
(*                                                                         *)
(* A ProviderQueue is a GENERATION: UpdateProvider and prepareProvider each *)
(* make a new one.  Its channel is never closed; signalClosing closes its   *)
(* done channel instead, which producers and workers select on.            *)
(*                                                                         *)
(* A SLOT is a ChannelMessage with its reply channels, which               *)
(* getChannelMessage takes from sync.Pools and releaseChannelMessage puts   *)
(* back, always together.  A reply channel buffers one reply.              *)
(***************************************************************************)
EXTENDS Naturals, Sequences

CONSTANTS
    Requests,      \* calls of tryRequest / tryStreamRequest
    Streaming,     \* the ones that are stream requests
    Slots,         \* pooled messages with their reply channels
    MaxGens,       \* bound on the number of ProviderQueues ever made
    Concurrency,   \* workers per generation
    BufferSize,    \* capacity of a queue
    Events,        \* what may happen to the provider and its callers
    NoReq, NoSlot

ASSUME ConstantsAssumption ==
    /\ Streaming \subseteq Requests
    /\ MaxGens \in Nat \ {0}
    /\ Concurrency \in Nat \ {0}
    /\ BufferSize \in Nat \ {0}
    /\ Events \subseteq {"cancel", "panic", "update", "remove", "ensure", "shutdown"}
    /\ NoReq \notin Requests
    /\ NoSlot \notin Slots

Gens == 1..MaxGens
NoGen == 0
Workers == Gens \X (1..Concurrency)

VARIABLES
    born,       \* generations 1..born exist
    current,    \* requestQueues[provider], and the waitGroups entry stored with it
    inSlice,    \* the provider is in the providers slice
    closing,    \* closing[g]: signalClosing ran on g
    queue,      \* queue[g]: the slots buffered in g's channel
    wst, wslot, wreq,       \* what each worker does, the slot it serves, and the
                            \* request it read from the slot
    cleanup,    \* cleanup[g]: the goroutine UpdateProvider leaves to retire g
    op,         \* who holds the provider's write mutex, and for which generation
    shut,       \* progress of Shutdown
    shutGen,    \* the wait group Shutdown waits for
    pc, pq, slot, outcome,  \* a caller's position, queue, slot and result
    cancelled,  \* requests whose context is done
    slotReq,    \* the request whose data a slot carries; NoReq when pooled
    chan,       \* the reply a slot's channels buffer
    executed, posted,       \* how often a request was served and had its terminal
                            \* post-hooks run (history)
    late,       \* requests sent into a queue already closing (history)
    lost,       \* requests in the hands of a worker that panicked (history)
    shutLive    \* generations with live workers when Shutdown signalled (history)

lifeVars == <<born, current, inSlice, closing, cleanup>>
workVars == <<wst, wslot, wreq>>
genVars == <<lifeVars, queue, workVars>>
shutVars == <<shut, shutGen, shutLive>>
opVars == <<op, shutVars>>
reqVars == <<pc, pq, slot, outcome, cancelled>>
poolVars == <<slotReq, chan>>
histVars == <<executed, posted, late, lost>>
vars == <<genVars, opVars, reqVars, poolVars, histVars>>

NoReply == [req |-> NoReq, kind |-> "none"]
Reply(r, k) == [req |-> r, kind |-> k]

\* The provider's write mutex: what its holder does, to which generation, for
\* which request, with which message in hand.
Lock(k, g, r) == [kind |-> k, gen |-> g, req |-> r, msg |-> NoSlot]
Free == Lock("free", NoGen, NoReq)

WorkersOf(g) == {w \in Workers : w[1] = g}
LiveStates == {"idle", "busy", "draining"}
Live(g) == \E w \in WorkersOf(g) : wst[w] \in LiveStates
Retiring(g) == cleanup[g] \in {"waiting", "draining"}

\* Mutant: the retired generations are not waited for.
RetiredIgnored == TRUE

\* What oldWorkerCleanups and the provider's retiredWorkerWaits wait for.
RetiredDone == \A g \in Gens : ~Retiring(g)

signalClosing(g) == closing' = [closing EXCEPT ![g] = TRUE]

Init ==
    /\ born = 1 /\ current = 1 /\ inSlice = TRUE
    /\ closing = [g \in Gens |-> FALSE]
    /\ queue = [g \in Gens |-> << >>]
    /\ wst = [w \in Workers |-> IF w[1] = 1 THEN "idle" ELSE "none"]
    /\ wslot = [w \in Workers |-> NoSlot]
    /\ wreq = [w \in Workers |-> NoReq]
    /\ cleanup = [g \in Gens |-> "none"]
    /\ op = Free
    /\ shut = "running" /\ shutGen = NoGen /\ shutLive = {}
    /\ pc = [r \in Requests |-> "start"]
    /\ pq = [r \in Requests |-> NoGen]
    /\ slot = [r \in Requests |-> NoSlot]
    /\ outcome = [r \in Requests |-> "none"]
    /\ cancelled = {}
    /\ slotReq = [s \in Slots |-> NoReq]
    /\ chan = [s \in Slots |-> NoReply]
    /\ executed = [r \in Requests |-> 0]
    /\ posted = [r \in Requests |-> 0]
    /\ late = {} /\ lost = {}
-----------------------------------------------------------------------------
(* Callers *)

Return(r, o) ==
    /\ pc' = [pc EXCEPT ![r] = "done"]
    /\ outcome' = [outcome EXCEPT ![r] = o]
    /\ pq' = [pq EXCEPT ![r] = NoGen]
    /\ slot' = [slot EXCEPT ![r] = NoSlot]

\* getChannelMessage: a pooled message and pooled channels, which are drained.
GetChannelMessage(r, s) ==
    /\ slotReq[s] = NoReq
    /\ slotReq' = [slotReq EXCEPT ![s] = r]
    /\ chan' = [chan EXCEPT ![s] = NoReply]

\* releaseChannelMessage: both reply channels are drained before pooling.
Release(s) ==
    /\ slotReq' = [slotReq EXCEPT ![s] = NoReq]
    /\ chan' = [chan EXCEPT ![s] = NoReply]

\* The caller's context is cancelled or times out; nothing looks at it before the
\* send.
Cancel(r) ==
    /\ "cancel" \in Events
    /\ r \notin cancelled /\ pc[r] \in {"send", "blocked", "waiting"}
    /\ cancelled' = cancelled \cup {r}
    /\ UNCHANGED <<genVars, opVars, pc, pq, slot, outcome, poolVars, histVars>>

\* getProviderQueue when the queue exists (read lock).
GetProviderQueue(r) ==
    /\ pc[r] = "start" /\ op = Free /\ current # NoGen
    /\ pc' = [pc EXCEPT ![r] = "hooks"]
    /\ pq' = [pq EXCEPT ![r] = current]
    /\ UNCHANGED <<genVars, opVars, slot, outcome, cancelled, poolVars, histVars>>

\* prepareProvider up to createBaseProvider: the queue and its wait group are
\* published before the provider exists.
Publish(k, r) ==
    /\ op = Free /\ born < MaxGens
    /\ born' = born + 1
    /\ current' = born + 1
    /\ op' = Lock(k, born + 1, r)
    /\ UNCHANGED <<inSlice, closing, queue, workVars, cleanup, shutVars, poolVars,
                   histVars>>

\* getProviderQueue when the queue does not exist: the provider is prepared at
\* runtime, or the account has no config for it.
CreateQueue(r) ==
    /\ pc[r] = "start" /\ current = NoGen
    /\ Publish("prepare", r)
    /\ pc' = [pc EXCEPT ![r] = "prepare"]
    /\ UNCHANGED <<pq, slot, outcome, cancelled>>

NoConfig(r) ==
    /\ pc[r] = "start" /\ op = Free /\ current = NoGen
    /\ Return(r, "error")
    /\ UNCHANGED <<genVars, opVars, cancelled, poolVars, histVars>>

\* The rest of prepareProvider: the provider is created, joins the slice and its
\* workers start; the request that asked for it goes on with the new queue.
PrepareStart ==
    LET g == op.gen  r == op.req IN
    /\ op.kind \in {"prepare", "updatePrepare"}
    /\ inSlice' = TRUE
    /\ wst' = [w \in Workers |-> IF w[1] = g THEN "idle" ELSE wst[w]]
    /\ op' = Free
    /\ IF r = NoReq
       THEN UNCHANGED <<pc, pq>>
       ELSE /\ pc' = [pc EXCEPT ![r] = "hooks"]
            /\ pq' = [pq EXCEPT ![r] = g]
    /\ UNCHANGED <<born, current, closing, queue, wslot, wreq, cleanup, shutVars,
                   slot, outcome, cancelled, poolVars, histVars>>

\* createBaseProvider failed: the published queue stays, with no worker.
PrepareFail ==
    LET r == op.req IN
    /\ op.kind \in {"prepare", "updatePrepare"}
    /\ op' = Free
    /\ IF r = NoReq THEN UNCHANGED <<pc, pq, slot, outcome>> ELSE Return(r, "error")
    /\ UNCHANGED <<genVars, shutVars, cancelled, poolVars, histVars>>

\* A pre-hook short-circuits the call, whose post-hooks then run, or leaves no
\* request to send.
ShortCircuit(r) ==
    /\ pc[r] = "hooks"
    /\ Return(r, "error")
    /\ \E n \in {0, 1} : posted' = [posted EXCEPT ![r] = @ + n]
    /\ UNCHANGED <<genVars, opVars, cancelled, poolVars, executed, late, lost>>

\* The queue published since, if it is open.
OpenReplacement(r) == current \notin {NoGen, pq[r]} /\ ~closing[current]

\* The candidate was open when it was loaded from requestQueues and has been
\* replaced and signalled before its own closing flag was read.
ClosedReplacement(r) == \E g \in Gens : pq[r] < g /\ g < current /\ closing[g]

\* After the pre-hooks: getChannelMessage, then the closing check.  A closing
\* queue is exchanged for the one published since, if that one is open;
\* otherwise the message goes straight back to the pool.
CheckClosing(r) ==
    /\ pc[r] = "hooks"
    /\ \/ /\ closing[pq[r]] /\ (OpenReplacement(r) => ClosedReplacement(r))
          /\ Return(r, "refused")
          /\ UNCHANGED poolVars
       \/ /\ closing[pq[r]] => OpenReplacement(r)
          /\ \E s \in Slots :
                GetChannelMessage(r, s) /\ slot' = [slot EXCEPT ![r] = s]
          /\ pq' = [pq EXCEPT ![r] = IF closing[@] THEN current ELSE @]
          /\ pc' = [pc EXCEPT ![r] = "send"]
          /\ UNCHANGED outcome
    /\ UNCHANGED <<genVars, opVars, cancelled, histVars>>

Sending(r) == pc[r] \in {"send", "blocked"}

\* The send case of either select.
Enqueue(r) ==
    LET g == pq[r] IN
    /\ Sending(r) /\ Len(queue[g]) < BufferSize
    /\ queue' = [queue EXCEPT ![g] = Append(@, slot[r])]
    /\ pc' = [pc EXCEPT ![r] = "waiting"]
    /\ late' = IF closing[g] THEN late \cup {r} ELSE late
    /\ UNCHANGED <<lifeVars, workVars, opVars, pq, slot, outcome, cancelled,
                   poolVars, executed, posted, lost>>

\* The pq.done and ctx.Done cases, and the closing re-check before blocking.
GiveUp(r) ==
    /\ Sending(r)
    /\ \/ closing[pq[r]] /\ Return(r, "refused")
       \/ r \in cancelled /\ Return(r, "refused")
    /\ Release(slot[r])
    /\ UNCHANGED <<genVars, opVars, cancelled, histVars>>

\* The default case: the queue is full and neither done channel is closed.  Which
\* branch is taken depends on dropExcessRequests, which can change at any time.
QueueFull(r) ==
    /\ pc[r] = "send" /\ Len(queue[pq[r]]) = BufferSize
    /\ ~closing[pq[r]] /\ r \notin cancelled
    /\ \/ Return(r, "refused") /\ Release(slot[r])
       \/ pc' = [pc EXCEPT ![r] = "blocked"]
          /\ UNCHANGED <<pq, slot, outcome, poolVars>>
    /\ UNCHANGED <<genVars, opVars, cancelled, histVars>>

\* The caller receives the reply, runs the terminal post-hooks and releases the
\* message.  A stream's hooks run per chunk elsewhere unless it failed to start.
Receive(r) ==
    LET s == slot[r] IN
    /\ pc[r] = "waiting" /\ chan[s] # NoReply
    /\ Return(r, chan[s].kind)
    /\ posted' = [posted EXCEPT ![chan[s].req] =
                    IF r \in Streaming /\ chan[s].kind = "result" THEN @ ELSE @ + 1]
    /\ Release(s)
    /\ UNCHANGED <<genVars, opVars, cancelled, executed, late, lost>>

\* Mutant: the message is returned to the pool.
AbandonAndRelease(r) ==
    /\ pc[r] = "waiting" /\ r \in cancelled
    /\ Return(r, "cancelled") /\ Release(slot[r])
    /\ UNCHANGED <<genVars, opVars, cancelled, histVars>>

\* The context ends first: the message is deliberately not released, because a
\* worker may still write to its channels.
Abandon(r) ==
    /\ pc[r] = "waiting" /\ r \in cancelled
    /\ Return(r, "cancelled")
    /\ UNCHANGED <<genVars, opVars, cancelled, poolVars, histVars>>
-----------------------------------------------------------------------------
(* Workers *)

\* Mutant: the error is dropped.
FailSilently(s) == UNCHANGED chan

\* An error is sent to a message taken off a queue, by whoever drains it: the
\* select takes the buffered channel, or ctx.Done when the context has ended.
Fail(s) ==
    \/ chan[s] = NoReply /\ chan' = [chan EXCEPT ![s] = Reply(slotReq[s], "shutdown")]
    \/ slotReq[s] \in cancelled /\ UNCHANGED chan

FailHead(g) ==
    /\ queue[g] # << >>
    /\ queue' = [queue EXCEPT ![g] = Tail(@)]
    /\ Fail(Head(queue[g]))
    /\ UNCHANGED <<lifeVars, workVars, reqVars, slotReq, histVars>>

Dequeue(w) ==
    LET g == w[1]  s == Head(queue[g]) IN
    /\ wst[w] = "idle" /\ queue[g] # << >>
    /\ queue' = [queue EXCEPT ![g] = Tail(@)]
    /\ wst' = [wst EXCEPT ![w] = "busy"]
    /\ wslot' = [wslot EXCEPT ![w] = s]
    /\ wreq' = [wreq EXCEPT ![w] = slotReq[s]]
    /\ executed' = [executed EXCEPT ![slotReq[s]] = @ + 1]
    /\ UNCHANGED <<lifeVars, opVars, reqVars, poolVars, posted, late, lost>>

LetGo(w) ==
    /\ wslot' = [wslot EXCEPT ![w] = NoSlot]
    /\ wreq' = [wreq EXCEPT ![w] = NoReq]

\* The provider call is over; its response or error ("result") goes into the
\* buffered channel, which the select always finds ready.  A stream that fails to
\* start is told apart.
SendReply(w) ==
    LET s == wslot[w] IN
    /\ wst[w] = "busy" /\ chan[s] = NoReply
    /\ \E k \in {"result"} \cup (IF wreq[w] \in Streaming THEN {"failed"} ELSE {}) :
           chan' = [chan EXCEPT ![s] = Reply(wreq[w], k)]
    /\ wst' = [wst EXCEPT ![w] = "idle"] /\ LetGo(w)
    /\ UNCHANGED <<lifeVars, queue, opVars, reqVars, slotReq, histVars>>

\* Mutant: the worker bills and then replies as well.
BillAndReply(w) ==
    LET r == wreq[w] IN
    /\ wst[w] = "busy" /\ r \in cancelled
    /\ posted' = [posted EXCEPT ![r] = @ + 1]
    /\ chan' = [chan EXCEPT ![wslot[w]] = Reply(r, "result")]
    /\ wst' = [wst EXCEPT ![w] = "idle"] /\ LetGo(w)
    /\ UNCHANGED <<lifeVars, queue, opVars, reqVars, slotReq, executed, late, lost>>

\* The select takes ctx.Done instead: the worker runs the terminal post-hooks
\* itself (billAbandonedTerminal, not for streams).
BillAbandoned(w) ==
    LET r == wreq[w] IN
    /\ wst[w] = "busy" /\ r \in cancelled
    /\ posted' = [posted EXCEPT ![r] = IF r \in Streaming THEN @ ELSE @ + 1]
    /\ wst' = [wst EXCEPT ![w] = "idle"] /\ LetGo(w)
    /\ UNCHANGED <<lifeVars, queue, opVars, reqVars, poolVars, executed, late,
                   lost>>

AfterPanic(g) == IF closing[g] THEN "exited" ELSE "idle"

\* A panic while serving: nobody answers the request; the loop restarts only if
\* the queue is still open.
Panic(w) ==
    /\ "panic" \in Events /\ wst[w] = "busy"
    /\ lost' = lost \cup {wreq[w]}
    /\ wst' = [wst EXCEPT ![w] = AfterPanic(w[1])]
    /\ LetGo(w)
    /\ UNCHANGED <<lifeVars, queue, opVars, reqVars, poolVars, executed, posted,
                   late>>

\* The done case: the worker drains what is buffered, then exits.
StartDraining(w) ==
    /\ wst[w] = "idle" /\ closing[w[1]]
    /\ wst' = [wst EXCEPT ![w] = "draining"]
    /\ UNCHANGED <<lifeVars, queue, wslot, wreq, opVars, reqVars, poolVars,
                   histVars>>

DrainOne(w) ==
    /\ wst[w] = "draining" /\ FailHead(w[1])
    /\ UNCHANGED opVars

WorkerExit(w) ==
    /\ wst[w] = "draining" /\ queue[w[1]] = << >>
    /\ wst' = [wst EXCEPT ![w] = "exited"]
    /\ UNCHANGED <<lifeVars, queue, wslot, wreq, opVars, reqVars, poolVars,
                   histVars>>
-----------------------------------------------------------------------------
(* UpdateProvider *)

\* Steps 1-4: the new queue is published and its workers start while the old
\* ones still run.  providerLifecycleMu excludes Shutdown.
UpdateBegin ==
    LET g == born + 1 IN
    /\ "update" \in Events
    /\ op = Free /\ shut = "running" /\ current # NoGen /\ born < MaxGens
    /\ op' = Lock("transfer", current, NoReq)
    /\ born' = g /\ current' = g /\ inSlice' = TRUE
    /\ wst' = [w \in Workers |-> IF w[1] = g THEN "idle" ELSE wst[w]]
    /\ UNCHANGED <<closing, queue, wslot, wreq, cleanup, shutVars, reqVars,
                   poolVars, histVars>>

\* The provider is not active: UpdateProvider prepares it.
UpdateAbsent ==
    /\ "update" \in Events /\ shut = "running" /\ current = NoGen
    /\ Publish("updatePrepare", NoReq)
    /\ UNCHANGED reqVars

\* Step 5: a message is taken off the old queue, ...
TransferTake ==
    LET old == op.gen IN
    /\ op.kind \in {"transfer", "failRest"} /\ op.msg = NoSlot /\ queue[old] # << >>
    /\ op' = [op EXCEPT !.msg = Head(queue[old])]
    /\ queue' = [queue EXCEPT ![old] = Tail(@)]
    /\ UNCHANGED <<lifeVars, workVars, shutVars, reqVars, poolVars, histVars>>

\* ... and put into the new one, ...
TransferPut ==
    /\ op.kind = "transfer" /\ op.msg # NoSlot /\ Len(queue[current]) < BufferSize
    /\ queue' = [queue EXCEPT ![current] = Append(@, op.msg)]
    /\ op' = [op EXCEPT !.msg = NoSlot]
    /\ UNCHANGED <<lifeVars, workVars, shutVars, reqVars, poolVars, histVars>>

\* ... or, once the new queue is found full, failed like all that follow it.
TransferFail ==
    /\ op.msg # NoSlot
    /\ op.kind = "failRest" \/ Len(queue[current]) = BufferSize
    /\ Fail(op.msg)
    /\ op' = [op EXCEPT !.kind = "failRest", !.msg = NoSlot]
    /\ UNCHANGED <<genVars, shutVars, reqVars, slotReq, histVars>>

\* The old queue is found empty.  It is still open: a producer that looked it up
\* earlier may send into it until it is signalled.
TransferDone ==
    /\ op.kind \in {"transfer", "failRest"} /\ op.msg = NoSlot /\ queue[op.gen] = << >>
    /\ op' = [op EXCEPT !.kind = "retire"]
    /\ UNCHANGED <<genVars, shutVars, reqVars, poolVars, histVars>>

\* Steps 6-8: the cleanup is registered, the old queue signalled and its cleanup
\* goroutine started.
Retire ==
    /\ op.kind = "retire"
    /\ cleanup' = [cleanup EXCEPT ![op.gen] = "waiting"]
    /\ signalClosing(op.gen)
    /\ op' = Free
    /\ UNCHANGED <<born, current, inSlice, queue, workVars, shutVars, reqVars,
                   poolVars, histVars>>

\* Mutant: no final sweep.
CleanupNoSweep(g) ==
    /\ cleanup[g] = "waiting" /\ ~Live(g)
    /\ cleanup' = [cleanup EXCEPT ![g] = "done"]
    /\ UNCHANGED <<born, current, inSlice, closing, queue, workVars, opVars,
                   reqVars, poolVars, histVars>>

\* The cleanup goroutine: wait for the old workers, drain, done.
CleanupDrain(g) ==
    /\ cleanup[g] = "waiting" /\ ~Live(g)
    /\ cleanup' = [cleanup EXCEPT ![g] = "draining"]
    /\ UNCHANGED <<born, current, inSlice, closing, queue, workVars, opVars,
                   reqVars, poolVars, histVars>>

CleanupDrainOne(g) ==
    /\ cleanup[g] = "draining" /\ FailHead(g)
    /\ UNCHANGED opVars

CleanupDone(g) ==
    /\ cleanup[g] = "draining" /\ queue[g] = << >>
    /\ cleanup' = [cleanup EXCEPT ![g] = "done"]
    /\ UNCHANGED <<born, current, inSlice, closing, queue, workVars, opVars,
                   reqVars, poolVars, histVars>>
-----------------------------------------------------------------------------
(* RemoveProvider: holds the write mutex throughout *)

RemoveBegin ==
    /\ "remove" \in Events /\ op = Free /\ current # NoGen
    /\ signalClosing(current)
    /\ op' = Lock("removeWait", current, NoReq)
    /\ UNCHANGED <<born, current, inSlice, queue, workVars, cleanup, shutVars,
                   reqVars, poolVars, histVars>>

RemoveWaited ==
    /\ op.kind = "removeWait" /\ ~Live(op.gen)
    /\ op' = [op EXCEPT !.kind = "removeDrain"]
    /\ UNCHANGED <<genVars, shutVars, reqVars, poolVars, histVars>>

RemoveDrainOne ==
    /\ op.kind = "removeDrain" /\ FailHead(op.gen)
    /\ UNCHANGED opVars

RemoveDrained ==
    /\ op.kind = "removeDrain" /\ queue[op.gen] = << >>
    /\ op' = [op EXCEPT !.kind = "removeRetired"]
    /\ UNCHANGED <<genVars, shutVars, reqVars, poolVars, histVars>>

\* Steps 3c-6: the retired generations are waited for, then the provider goes.
RemoveFinish ==
    /\ op.kind = "removeRetired" /\ RetiredDone
    /\ current' = NoGen /\ inSlice' = FALSE
    /\ op' = Free
    /\ UNCHANGED <<born, closing, queue, workVars, cleanup, shutVars, reqVars,
                   poolVars, histVars>>
-----------------------------------------------------------------------------
(* getProviderByKey, called by the realtime and websocket handlers: prepares the
   provider when the slice does not hold it, whatever requestQueues holds. *)
EnsureProvider ==
    /\ "ensure" \in Events /\ ~inSlice
    /\ Publish("prepare", NoReq)
    /\ UNCHANGED reqVars
-----------------------------------------------------------------------------
(* Shutdown *)

\* UpdateProvider holds providerLifecycleMu for reading.
Updating == op.kind \in {"transfer", "failRest", "retire", "updatePrepare"}

ShutdownBegin ==
    /\ "shutdown" \in Events /\ shut = "running" /\ ~Updating
    /\ shut' = "signalled"
    /\ IF current = NoGen THEN UNCHANGED closing ELSE signalClosing(current)
    /\ shutLive' = {g \in Gens : Live(g)}
    /\ UNCHANGED <<born, current, inSlice, queue, workVars, cleanup, op, shutGen,
                   reqVars, poolVars, histVars>>

\* waitGroups.Range visits the entry that is there now.
ShutdownVisit ==
    /\ shut = "signalled"
    /\ shut' = "waiting" /\ shutGen' = current
    /\ UNCHANGED <<genVars, op, shutLive, reqVars, poolVars, histVars>>

ShutdownWaited ==
    /\ shut = "waiting" /\ ~Live(shutGen)
    /\ shut' = "cleanups"
    /\ UNCHANGED <<genVars, op, shutGen, shutLive, reqVars, poolVars, histVars>>

\* oldWorkerCleanups.Wait, then Range over the queues that are there now.
ShutdownCleanups ==
    /\ shut = "cleanups" /\ RetiredDone
    /\ shut' = "draining" /\ shutGen' = current
    /\ UNCHANGED <<genVars, op, shutLive, reqVars, poolVars, histVars>>

ShutdownDrainOne ==
    /\ shut = "draining" /\ shutGen # NoGen /\ FailHead(shutGen)
    /\ UNCHANGED opVars

ShutdownDone ==
    /\ shut = "draining" /\ (shutGen # NoGen => queue[shutGen] = << >>)
    /\ shut' = "done"
    /\ UNCHANGED <<genVars, op, shutGen, shutLive, reqVars, poolVars, histVars>>
-----------------------------------------------------------------------------
Caller(r) ==
    \/ GetProviderQueue(r) \/ CreateQueue(r) \/ NoConfig(r)
    \/ ShortCircuit(r) \/ CheckClosing(r)
    \/ Enqueue(r) \/ GiveUp(r) \/ QueueFull(r) \/ Receive(r) \/ Abandon(r)

Worker(w) ==
    \/ Dequeue(w) \/ SendReply(w) \/ BillAbandoned(w)
    \/ StartDraining(w) \/ DrainOne(w) \/ WorkerExit(w)

Holder ==
    \/ PrepareStart \/ PrepareFail
    \/ TransferTake \/ TransferPut \/ TransferFail \/ TransferDone \/ Retire
    \/ RemoveWaited \/ RemoveDrainOne \/ RemoveDrained \/ RemoveFinish

Cleanup(g) == CleanupDrain(g) \/ CleanupDrainOne(g) \/ CleanupDone(g)

Shutdown ==
    \/ ShutdownVisit \/ ShutdownWaited \/ ShutdownCleanups
    \/ ShutdownDrainOne \/ ShutdownDone

Next ==
    \/ \E r \in Requests : Caller(r) \/ Cancel(r)
    \/ \E w \in Workers : Worker(w) \/ Panic(w)
    \/ \E g \in Gens : Cleanup(g)
    \/ Holder \/ Shutdown
    \/ UpdateBegin \/ UpdateAbsent \/ RemoveBegin \/ EnsureProvider \/ ShutdownBegin

Spec == Init /\ [][Next]_vars

\* Go schedules every goroutine that can run; a provider call ends (it has a
\* timeout) and a select between ready cases is random, so a worker that could
\* take either case of its reply is only assumed to take one of them.
FairSpec ==
    /\ Spec
    /\ \A r \in Requests : WF_vars(Caller(r))
    /\ \A w \in Workers : WF_vars(Worker(w))
    /\ \A g \in Gens : WF_vars(Cleanup(g))
    /\ WF_vars(Holder) /\ WF_vars(Shutdown)
-----------------------------------------------------------------------------
(* Properties *)

Outcomes == {"none", "error", "refused", "result", "failed", "shutdown",
             "cancelled"}
Replies == [req : Requests, kind : {"result", "failed", "shutdown"}] \cup {NoReply}
OpKinds == {"free", "prepare", "updatePrepare", "transfer", "failRest",
            "retire", "removeWait", "removeDrain", "removeRetired"}

LifeTypes ==
    /\ born \in Gens /\ current \in Gens \cup {NoGen} /\ inSlice \in BOOLEAN
    /\ closing \in [Gens -> BOOLEAN]
    /\ cleanup \in [Gens -> {"none", "waiting", "draining", "done"}]
WorkTypes ==
    /\ wst \in [Workers -> LiveStates \cup {"none", "exited"}]
    /\ wslot \in [Workers -> Slots \cup {NoSlot}]
    /\ wreq \in [Workers -> Requests \cup {NoReq}]
LockTypes ==
    op \in [kind : OpKinds, gen : Gens \cup {NoGen}, req : Requests \cup {NoReq},
           msg : Slots \cup {NoSlot}]
ShutTypes ==
    /\ shut \in {"running", "signalled", "waiting", "cleanups", "draining", "done"}
    /\ shutGen \in Gens \cup {NoGen} /\ shutLive \subseteq Gens
CallTypes ==
    /\ pc \in [Requests -> {"start", "prepare", "hooks", "send", "blocked", "waiting",
                            "done"}]
    /\ pq \in [Requests -> Gens \cup {NoGen}]
    /\ slot \in [Requests -> Slots \cup {NoSlot}]
    /\ outcome \in [Requests -> Outcomes]
    /\ cancelled \subseteq Requests
PoolTypes ==
    /\ slotReq \in [Slots -> Requests \cup {NoReq}]
    /\ chan \in [Slots -> Replies]
HistTypes ==
    /\ executed \in [Requests -> Nat] /\ posted \in [Requests -> Nat]
    /\ late \subseteq Requests /\ lost \subseteq Requests

\* Every variable has its type.
TypeOK ==
    /\ LifeTypes /\ queue \in [Gens -> Seq(Slots)] /\ WorkTypes
    /\ LockTypes /\ ShutTypes /\ CallTypes /\ PoolTypes /\ HistTypes

Queued(s, g) == \E i \in 1..Len(queue[g]) : queue[g][i] = s
Served(s) == \E w \in Workers : wst[w] = "busy" /\ wslot[w] = s

\* The reply a waiting caller would take from its channels answers its own
\* request: pooled channels never carry one request's reply to another, although
\* cancelled callers leave theirs with the worker (the ctx.Done case of tryRequest).
ReplyIntegrity ==
    \A r \in Requests :
        pc[r] = "waiting" /\ chan[slot[r]] # NoReply => chan[slot[r]].req = r

\* A worker that finishes, or whoever drains a queue, finds the reply channel
\* empty, so that the send in the worker's select is always ready and its
\* five-second timeout branch, which would drop the reply, is dead code.
ReplyNeverBlocks ==
    /\ \A w \in Workers : wst[w] = "busy" => chan[wslot[w]] = NoReply
    /\ \A g \in Gens : \A i \in 1..Len(queue[g]) : chan[queue[g][i]] = NoReply
    /\ op.msg # NoSlot => chan[op.msg] = NoReply

\* No message is served by two workers, one after the other or at once, although
\* old workers, new workers and UpdateProvider's transfer all take from the old
\* queue; and a caller told that its request was refused or failed by a shutdown
\* (and who will try a fallback) was not served at all.
ServedOnce ==
    \A r \in Requests :
        /\ executed[r] <= 1
        /\ outcome[r] \in {"refused", "shutdown", "error"} => executed[r] = 0

\* The terminal post-hooks, which bill and log, run at most once per call,
\* whichever of the caller and the worker sees the end of the context first
\* (billAbandonedTerminal's "post-hooks never run twice for one call").
PostHooksOnce == \A r \in Requests : posted[r] <= 1

\* Each request is handled once: served once, its post-hooks run once, and its reply
\* delivered without waiting.
HandledOnce == TypeOK /\ ServedOnce /\ PostHooksOnce /\ ReplyNeverBlocks

\* No message disappears: while a caller waits its message is buffered, in a
\* worker's or in UpdateProvider's hands, or answered, except after a panic or
\* when the end of its context let the worker skip the reply.
NoMessageLost ==
    \A r \in Requests :
        pc[r] = "waiting" /\ r \notin lost \cup cancelled =>
            \/ chan[slot[r]] # NoReply
            \/ Served(slot[r])
            \/ op.msg = slot[r]
            \/ \E g \in Gens : Queued(slot[r], g)

\* Nobody will ever take what is buffered in g: its workers are gone and no
\* operation under way will drain it.
Deserted(g) ==
    /\ ~Live(g) /\ ~Retiring(g)
    /\ ~ (op.gen = g /\ op.kind \notin {"free", "removeRetired"})
    /\ ~ (shut \in {"signalled", "waiting", "cleanups"} /\ current = g)
    /\ ~ (shut = "draining" /\ shutGen = g)
NeverStarted(g) == \A w \in WorkersOf(g) : wst[w] = "none"

\* A message can be stranded in a queue nobody will drain only if its producer
\* sent it after the queue was signalled (the residual window drainQueueWithErrors
\* documents), or if the queue never had workers because prepareProvider failed.
\* In particular a worker that panics while the queue closes, and so skips its
\* drain, strands nothing.
OnlyLateStranded ==
    \A r \in Requests : \A g \in Gens :
        pc[r] = "waiting" /\ Queued(slot[r], g) /\ Deserted(g) =>
            r \in late \/ NeverStarted(g)

\* No message is lost, and none stranded but in the two cases above.
NoneLost == NoMessageLost /\ OnlyLateStranded

\* When RemoveProvider is done no worker of the provider runs, not even one of a
\* generation an earlier UpdateProvider retired (its step 3c).
RemovedMeansStopped == current = NoGen => \A g \in Gens : ~Live(g)

\* When Shutdown returns, every worker that ran when it signalled has exited,
\* those of the generations being retired included.
ShutdownStopsStarted == shut = "done" => \A g \in shutLive : ~Live(g)

\* RemoveProvider and Shutdown leave no worker of theirs behind.
WorkersGone == RemovedMeansStopped /\ ShutdownStopsStarted

\* The workers of an open queue never exit, whatever panics ("the loop restarts so
\* the provider's queue stays serviced"), and a queue is signalled for good.
OpenQueueServed ==
    [][/\ \A w \in Workers : wst[w] # "exited" /\ wst'[w] = "exited" => closing[w[1]]
       /\ \A g \in Gens : closing[g] => closing'[g]]_vars

\* A producer never enters a queue found closing: the closing check either
\* re-routes it to the open queue that replaced it or refuses it.
ReroutedToOpen ==
    [][\A r \in Requests :
        pc[r] = "hooks" /\ pc'[r] = "send" => pq'[r] # NoGen /\ ~closing[pq'[r]]]_vars

\* Every call returns, cancelled or not, unless a worker panicked on it, or it was
\* sent into a queue already signalled or one that has no worker for ever.
EveryCallReturns ==
    \A r \in Requests :
        \/ <>(pc[r] = "done" \/ r \in lost \cup late)
        \/ <>[](pq[r] # NoGen /\ NeverStarted(pq[r]))

\* RemoveProvider and UpdateProvider always give the provider's mutex back.
LockReleased == (op # Free) ~> (op = Free)

\* Shutdown returns, unless the wait group it waits for is that of a queue created
\* after it signalled, which nothing closes.
ShutdownReturns ==
    (shut = "signalled") ~> (shut = "done" \/ (shutGen \in Gens \ shutLive /\ ~closing[shutGen]))

\* The workers of an open queue stay, producers are sent to open queues, and whoever
\* waits for a reply, for the mutex or for Shutdown goes on.
CallsReturn ==
    OpenQueueServed /\ ReroutedToOpen /\ EveryCallReturns /\ LockReleased /\ ShutdownReturns

\* The doc of Plugin (core/schemas/plugin.go): "for every PreLLMHook executed, the
\* corresponding PostLLMHook will be called".  A refused caller returns after its
\* pre-hooks without the post-hooks.
\* Not what the code does (README, disagreements).
HooksPaired == \A r \in Requests : outcome[r] = "refused" => posted[r] = 1

\* The doc of Shutdown: it "waits for workers to exit".
\* Not what the code does (README, disagreements).
ShutdownStopsAll == shut = "done" => \A g \in Gens : ~Live(g)

\* The doc of billAbandonedTerminal: without it "tokens the provider consumed are
\* never billed"; so with it they are, once caller and worker are both done.
\* Not what the code does (README, disagreements).
AbandonedIsBilled ==
    \A r \in Requests \ Streaming :
        pc[r] = "done" /\ executed[r] = 1 /\ r \notin lost =>
            posted[r] = 1 \/ \E w \in Workers : wreq[w] = r
=============================================================================

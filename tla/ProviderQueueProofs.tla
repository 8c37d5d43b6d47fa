------------------------ MODULE ProviderQueueProofs ------------------------
(***************************************************************************)
(* Proofs about ProviderQueue, for any number of requests, pooled messages, *)
(* generations and workers and any buffer size.                            *)
(*                                                                         *)
(* The argument is about ownership.  A slot in use belongs to one request,  *)
(* and is in at most one place: a position of a queue, a worker's hands or  *)
(* UpdateProvider's.  While it is in one of them its reply channel is empty *)
(* and its owner either waits for it or has abandoned it, and in both cases *)
(* it is not back in the pool.  First the invariant, the initial state and  *)
(* the steps that move no message; then the steps that move one, and the    *)
(* theorems.  The second half is about the life of the queue: which workers *)
(* may still run, who will drain a signalled queue, and where the message   *)
(* of a waiting caller is.                                                 *)
(***************************************************************************)
EXTENDS ProviderQueue, TLAPS

Holding == {"send", "blocked", "waiting"}
Before == {"start", "prepare", "hooks", "send", "blocked"}

\* Who may have a message in flight: a caller that waits, or one that left
\* through the ctx.Done case.
Departed(r) == pc[r] = "done" /\ outcome[r] = "cancelled"
Enqueued(s) ==
    /\ slotReq[s] \in Requests
    /\ chan[s] = NoReply
    /\ posted[slotReq[s]] = 0
    /\ Departed(slotReq[s]) \/ (pc[slotReq[s]] = "waiting" /\ slot[slotReq[s]] = s)

\* Positions in the code that determine other variables.
Positions ==
    /\ op.kind # "free" => op.gen \in Gens
    /\ op.kind \in {"transfer", "failRest"} => current \in Gens
    /\ op.msg # NoSlot => op.kind \in {"transfer", "failRest"}
    /\ op.req # NoReq => pc[op.req] = "prepare"
    /\ \A r \in Requests : pc[r] \in Holding \cup {"hooks"} => pq[r] \in Gens
    /\ op.kind \in {"prepare", "updatePrepare"} => op.gen = born
    /\ \A w \in Workers :
        \/ w[1] > born
        \/ op.kind \in {"prepare", "updatePrepare"} /\ w[1] = op.gen
        => wst[w] = "none"

\* A slot in use has one owner, who has no other slot.
Ownership ==
    /\ \A r \in Requests : pc[r] \in Holding => slot[r] \in Slots /\ slotReq[slot[r]] = r
    /\ \A s \in Slots : slotReq[s] # NoReq =>
        \/ Departed(slotReq[s])
        \/ pc[slotReq[s]] \in Holding /\ slot[slotReq[s]] = s
    /\ \A s, u \in Slots : slotReq[s] = slotReq[u] /\ slotReq[s] # NoReq => s = u

\* A slot is in one place at a time.
Buffered(s) == \E g \in Gens : Queued(s, g)
NoDuplicates ==
    \A g, h \in Gens : \A i \in 1..Len(queue[g]) : \A j \in 1..Len(queue[h]) :
        queue[g][i] = queue[h][j] => g = h /\ i = j
OnePlace ==
    /\ NoDuplicates
    /\ op.msg # NoSlot => ~Buffered(op.msg)
    /\ \A w \in Workers : wst[w] = "busy" =>
        /\ wslot[w] \in Slots
        /\ wslot[w] # op.msg /\ ~Buffered(wslot[w])
        /\ \A v \in Workers : wst[v] = "busy" /\ wslot[v] = wslot[w] => v = w

\* What is known of a slot in each place.
InFlight ==
    /\ \A s \in Slots : Buffered(s) \/ s = op.msg =>
        Enqueued(s) /\ executed[slotReq[s]] = 0
    /\ \A w \in Workers : wst[w] = "busy" =>
        /\ Enqueued(wslot[w])
        /\ wreq[w] = slotReq[wslot[w]] /\ executed[wreq[w]] = 1

\* A buffered reply answers the owner of the slot, once.
Answered ==
    \A s \in Slots : chan[s] # NoReply =>
        /\ chan[s].req = slotReq[s]
        /\ chan[s].req \in Requests
        /\ posted[chan[s].req] = 0
        /\ pc[chan[s].req] \notin Before
        /\ chan[s].kind = "shutdown" => executed[chan[s].req] = 0

\* How often a request was served and billed, by where its caller is.
Counts ==
    \A r \in Requests :
        /\ executed[r] \in {0, 1} /\ posted[r] \in {0, 1}
        /\ pc[r] \in Before => executed[r] = 0 /\ posted[r] = 0
        /\ pc[r] # "done" => outcome[r] = "none"
        /\ outcome[r] \in {"refused", "shutdown", "error"} => executed[r] = 0

IInv ==
    /\ TypeOK /\ Positions /\ Ownership /\ OnePlace /\ InFlight /\ Answered /\ Counts
-----------------------------------------------------------------------------
\* Constants.
LEMMA ConstantFacts ==
    /\ \A w \in Workers : w[1] \in Gens
    /\ \A g \in Gens : g \in Nat /\ g # NoGen
    /\ NoReq \notin Requests /\ NoSlot \notin Slots
    /\ \A r \in Requests : \A k : Reply(r, k) # NoReply
BY ConstantsAssumption DEF Workers, Gens, NoGen, Reply, NoReply

\* A part of the state that does not change keeps its type.
LEMMA TypesKept ==
    /\ LifeTypes /\ UNCHANGED lifeVars => LifeTypes'
    /\ WorkTypes /\ UNCHANGED workVars => WorkTypes'
    /\ LockTypes /\ UNCHANGED op => LockTypes'
    /\ ShutTypes /\ UNCHANGED shutVars => ShutTypes'
    /\ CallTypes /\ UNCHANGED reqVars => CallTypes'
    /\ PoolTypes /\ UNCHANGED poolVars => PoolTypes'
    /\ HistTypes /\ UNCHANGED histVars => HistTypes'
BY Zenon DEF LifeTypes, WorkTypes, LockTypes, ShutTypes, CallTypes, PoolTypes, HistTypes, lifeVars,
   workVars, shutVars, reqVars, poolVars, histVars

\* Queues that do not change keep their messages apart.
LEMMA QueuesKept ==
    ASSUME UNCHANGED queue
    PROVE  (NoDuplicates <=> NoDuplicates') /\ \A u : Buffered(u)' <=> Buffered(u)
<1>1. NoDuplicates <=> NoDuplicates'
  BY DEF NoDuplicates
<1>2. \A u : Buffered(u)' <=> Buffered(u)
  BY Zenon DEF Buffered, Queued
<1> QED BY <1>1, <1>2, Zenon

\* A message stays in flight when nothing about it changes but that its owner leaves.
LEMMA EnqueuedKept ==
    ASSUME NEW u \in Slots, Enqueued(u), slotReq'[u] = slotReq[u], chan'[u] = chan[u],
           posted'[slotReq[u]] = posted[slotReq[u]],
           \/ Departed(slotReq[u])'
           \/ /\ ~Departed(slotReq[u])
              /\ pc'[slotReq[u]] = pc[slotReq[u]] /\ slot'[slotReq[u]] = slot[slotReq[u]]
    PROVE  Enqueued(u)'
BY Zenon DEF Enqueued

\* The counts when one request's change.
LEMMA CountsKept ==
    ASSUME Counts, NEW r \in Requests,
           \A q \in Requests \ {r} : /\ pc'[q] = pc[q] /\ outcome'[q] = outcome[q]
                                     /\ executed'[q] = executed[q] /\ posted'[q] = posted[q],
           executed'[r] \in {0, 1}, posted'[r] \in {0, 1},
           pc'[r] \in Before => executed'[r] = 0 /\ posted'[r] = 0,
           pc'[r] # "done" => outcome'[r] = "none",
           outcome'[r] \in {"refused", "shutdown", "error"} => executed'[r] = 0
    PROVE  Counts'
BY ZenonT(30) DEF Counts

\* The positions when one caller's change that nobody else waits for.
LEMMA PositionsKept ==
    ASSUME Positions, NEW r \in Requests, op.req # r, op.req = NoReq \/ op.req \in Requests,
           \A q \in Requests \ {r} : pc'[q] = pc[q] /\ pq'[q] = pq[q],
           pc'[r] \in Holding \cup {"hooks"} => pq'[r] \in Gens,
           UNCHANGED <<op, current, born, wst>>
    PROVE  Positions'
<1>1. UNCHANGED op /\ UNCHANGED current /\ UNCHANGED born /\ UNCHANGED wst
  BY Zenon
<1>2. \A q \in Requests : pc'[q] \in Holding \cup {"hooks"} => pq'[q] \in Gens
  BY Zenon DEF Positions
<1>3. op.req # NoReq => pc'[op.req] = "prepare"
  BY Zenon DEF Positions
<1> QED BY <1>1, <1>2, <1>3, Zenon DEF Positions

\* Taking the head off a queue leaves every other message where it was.
LEMMA TakeHead ==
    ASSUME TypeOK, NoDuplicates, NEW g \in Gens, queue[g] # << >>,
           queue' = [queue EXCEPT ![g] = Tail(@)]
    PROVE  /\ queue' \in [Gens -> Seq(Slots)]
           /\ Head(queue[g]) \in Slots /\ Buffered(Head(queue[g]))
           /\ NoDuplicates'
           /\ \A s : Buffered(s)' <=> Buffered(s) /\ s # Head(queue[g])
<1> DEFINE q == queue[g]
<1>1. /\ q \in Seq(Slots) /\ queue[g] = q
      /\ Head(q) \in Slots /\ Head(q) = q[1] /\ Len(q) \in Nat /\ Len(q) >= 1
      /\ Tail(q) \in Seq(Slots) /\ Len(Tail(q)) = Len(q) - 1
      /\ \A i \in 1..Len(Tail(q)) : i + 1 \in 1..Len(q) /\ Tail(q)[i] = q[i + 1]
      /\ queue' = [queue EXCEPT ![g] = Tail(q)]
  BY DEF TypeOK
<1> HIDE DEF q
<1>2. queue' \in [Gens -> Seq(Slots)]
  BY DEF TypeOK
<1>3. Buffered(Head(q))
  BY <1>1 DEF Buffered, Queued
<1>4. NoDuplicates'
  <2> DEFINE at(h, i) == IF h = g THEN i + 1 ELSE i
  <2>1. \A h \in Gens : \A i \in 1..Len(queue'[h]) :
          at(h, i) \in 1..Len(queue[h]) /\ queue'[h][i] = queue[h][at(h, i)]
    BY DEF TypeOK
  <2>2. \A h \in Gens : \A i, j \in 1..Len(queue'[h]) : at(h, i) = at(h, j) => i = j
    OBVIOUS
  <2> HIDE DEF at
  <2> QED BY DEF NoDuplicates
<1>5. ASSUME NEW s, Buffered(s)' PROVE Buffered(s) /\ s # Head(q)
  <2>1. PICK h \in Gens : Queued(s, h)'
    BY <1>5, Zenon DEF Buffered
  <2>2. PICK i \in 1..Len(queue'[h]) : queue'[h][i] = s
    BY <2>1, Zenon DEF Queued
  <2>3. CASE h = g
    <3>1. i + 1 \in 1..Len(q) /\ s = q[i + 1] /\ i \in Nat
      BY <1>1, <2>2, <2>3 DEF TypeOK
    <3>2. 1 \in 1..Len(q) /\ i + 1 # 1
      BY <1>1
    <3> QED BY <1>1, <3>1 DEF Buffered, Queued, NoDuplicates
  <2>4. CASE h # g
    <3>1. i \in 1..Len(queue[h]) /\ queue[h][i] = s
      BY <2>2, <2>4
    <3>2. 1 \in 1..Len(queue[g])
      OBVIOUS
    <3> QED BY <1>1, <2>4, <3>1 DEF Buffered, Queued, NoDuplicates
  <2> QED BY <2>3, <2>4, Zenon
<1>6. ASSUME NEW s, Buffered(s), s # Head(q) PROVE Buffered(s)'
  <2>1. PICK h \in Gens : Queued(s, h)
    BY <1>6, Zenon DEF Buffered
  <2>2. PICK i \in 1..Len(queue[h]) : queue[h][i] = s
    BY <2>1, Zenon DEF Queued
  <2>3. CASE h = g
    <3>1. i - 1 \in 1..Len(queue'[h]) /\ queue'[h][i - 1] = s
      BY <1>1, <1>6, <2>2, <2>3 DEF TypeOK
    <3> QED BY <3>1, Zenon DEF Buffered, Queued
  <2>4. CASE h # g
    BY <2>2, <2>4 DEF Buffered, Queued
  <2> QED BY <2>3, <2>4, Zenon
<1> QED BY <1>1, <1>2, <1>3, <1>4, <1>5, <1>6, Zenon

\* Adding a message that no queue holds.
LEMMA AddLast ==
    ASSUME TypeOK, NoDuplicates, NEW g \in Gens, NEW s \in Slots, ~Buffered(s),
           queue' = [queue EXCEPT ![g] = Append(@, s)]
    PROVE  /\ queue' \in [Gens -> Seq(Slots)]
           /\ NoDuplicates'
           /\ \A u : Buffered(u)' <=> Buffered(u) \/ u = s
<1> DEFINE q == queue[g]
<1>1. /\ q \in Seq(Slots) /\ queue[g] = q /\ Len(q) \in Nat
      /\ Append(q, s) \in Seq(Slots) /\ Len(Append(q, s)) = Len(q) + 1
      /\ \A i \in 1..Len(q) : Append(q, s)[i] = q[i]
      /\ Append(q, s)[Len(q) + 1] = s
      /\ queue' = [queue EXCEPT ![g] = Append(q, s)]
  BY DEF TypeOK
<1> HIDE DEF q
<1>2. queue' \in [Gens -> Seq(Slots)]
  BY DEF TypeOK
<1>3. /\ queue'[g] = Append(q, s)
      /\ \A h \in Gens : h # g => queue'[h] = queue[h]
  BY <1>1, Zenon DEF TypeOK
<1>4. \A h \in Gens : \A i \in 1..Len(queue'[h]) :
        \/ i \in 1..Len(queue[h]) /\ queue'[h][i] = queue[h][i]
        \/ h = g /\ i = Len(q) + 1 /\ queue'[h][i] = s
  BY <1>1
<1>5. NoDuplicates'
  <2>1. \A h \in Gens : \A i \in 1..Len(queue[h]) : queue[h][i] # s
    BY Zenon DEF Buffered, Queued
  <2> QED BY <2>1 DEF NoDuplicates
<1>6. ASSUME NEW u, Buffered(u)' PROVE Buffered(u) \/ u = s
  BY <1>6 DEF Buffered, Queued
<1>7. ASSUME NEW u, Buffered(u) PROVE Buffered(u)'
  <2>1. PICK h \in Gens : Queued(u, h)
    BY <1>7, Zenon DEF Buffered
  <2>2. PICK i \in 1..Len(queue[h]) : queue[h][i] = u
    BY <2>1, Zenon DEF Queued
  <2>3. i \in 1..Len(queue'[h]) /\ queue'[h][i] = u
    BY <2>2
  <2> QED BY <2>3, Zenon DEF Buffered, Queued
<1>8. Buffered(s)'
  <2>1. Len(q) + 1 \in 1..Len(queue'[g]) /\ queue'[g][Len(q) + 1] = s
    BY <1>3
  <2> QED BY <2>1, Zenon DEF Buffered, Queued
<1> QED BY <1>2, <1>5, <1>6, <1>7, <1>8, Zenon
-----------------------------------------------------------------------------
\* The initial state.
LEMMA InitIInv == Init => IInv
<1> SUFFICES ASSUME Init PROVE IInv
  BY Zenon
<1>1. TypeOK
  BY ConstantsAssumption DEF Init, TypeOK, LifeTypes, WorkTypes, LockTypes, ShutTypes,
     CallTypes, PoolTypes, HistTypes, Gens, Free, Lock, LiveStates, OpKinds, Outcomes, Replies
<1>2. Positions /\ Ownership /\ Answered /\ Counts
  BY DEF Init, Positions, Ownership, Answered, Counts, Holding, Free, Lock
<1>3. \A s : ~Buffered(s)
  BY DEF Init, Buffered, Queued
<1>4. NoDuplicates
  BY DEF Init, NoDuplicates
<1>5. OnePlace /\ InFlight
  BY <1>3, <1>4, ConstantFacts, Zenon DEF Init, OnePlace, InFlight, Free, Lock
<1> QED BY <1>1, <1>2, <1>5, Zenon DEF IInv

\* A step that moves no message, reply or caller.
LEMMA QuietStep ==
    ASSUME IInv, TypeOK', Positions',
           UNCHANGED <<queue, wslot, wreq, pc, slot, outcome, slotReq, chan,
                       executed, posted>>,
           op'.msg = op.msg,
           \A w \in Workers : wst'[w] = "busy" <=> wst[w] = "busy"
    PROVE  IInv'
<1>1. \A s : Buffered(s)' <=> Buffered(s)
  BY Zenon DEF Buffered, Queued
<1>2. \A s : Enqueued(s)' <=> Enqueued(s)
  BY Zenon DEF Enqueued, Departed
<1>3. Ownership' /\ Answered' /\ Counts' /\ NoDuplicates'
  BY DEF IInv, Ownership, Answered, Counts, OnePlace, NoDuplicates, Departed
<1>4. OnePlace'
  BY <1>1, <1>3, Zenon DEF IInv, OnePlace
<1>5. InFlight'
  BY <1>1, <1>2, Zenon DEF IInv, InFlight
<1> QED BY <1>3, <1>4, <1>5, Zenon DEF IInv

\* Shutdown, but for its drain.
LEMMA ShutdownQuiet ==
    ASSUME IInv,
           \/ ShutdownBegin \/ ShutdownVisit \/ ShutdownWaited \/ ShutdownCleanups
           \/ ShutdownDone
    PROVE  IInv'
<1> USE DEF lifeVars, workVars, genVars, shutVars, opVars, reqVars, poolVars, histVars
<1>0. TypeOK /\ Positions
  BY Zenon DEF IInv
<1>1. CASE ShutdownBegin
  <2>0. closing' \in [Gens -> BOOLEAN]
    BY <1>0, <1>1, ConstantFacts, Zenon DEF ShutdownBegin, TypeOK, LifeTypes, signalClosing
  <2>1. TypeOK'
    BY TypesKept, <1>0, <1>1, <2>0, Zenon
       DEF ShutdownBegin, TypeOK, LifeTypes, ShutTypes, Positions, signalClosing
  <2>2. Positions'
    BY <1>0, <1>1, Zenon DEF ShutdownBegin, Positions
  <2>3. op'.msg = op.msg
    BY <1>1, Zenon DEF ShutdownBegin
  <2> QED BY <1>1, <2>1, <2>2, QuietStep, Zenon DEF ShutdownBegin
<1>2. CASE ShutdownVisit
  <2>1. TypeOK'
    BY TypesKept, <1>0, <1>2, Zenon DEF ShutdownVisit, TypeOK, LifeTypes, ShutTypes
  <2>2. Positions'
    BY <1>0, <1>2, Zenon DEF ShutdownVisit, Positions
  <2>3. op'.msg = op.msg
    BY <1>2, Zenon DEF ShutdownVisit
  <2> QED BY <1>2, <2>1, <2>2, QuietStep, Zenon DEF ShutdownVisit
<1>3. CASE ShutdownWaited
  <2>1. TypeOK'
    BY TypesKept, <1>0, <1>3, Zenon DEF ShutdownWaited, TypeOK, ShutTypes
  <2>2. Positions'
    BY <1>0, <1>3, Zenon DEF ShutdownWaited, Positions
  <2>3. op'.msg = op.msg
    BY <1>3, Zenon DEF ShutdownWaited
  <2> QED BY <1>3, <2>1, <2>2, QuietStep, Zenon DEF ShutdownWaited
<1>4. CASE ShutdownCleanups
  <2>1. TypeOK'
    BY TypesKept, <1>0, <1>4, Zenon DEF ShutdownCleanups, TypeOK, LifeTypes, ShutTypes
  <2>2. Positions'
    BY <1>0, <1>4, Zenon DEF ShutdownCleanups, Positions
  <2>3. op'.msg = op.msg
    BY <1>4, Zenon DEF ShutdownCleanups
  <2> QED BY <1>4, <2>1, <2>2, QuietStep, Zenon DEF ShutdownCleanups
<1>5. CASE ShutdownDone
  <2>1. TypeOK'
    BY TypesKept, <1>0, <1>5, Zenon DEF ShutdownDone, TypeOK, ShutTypes
  <2>2. Positions'
    BY <1>0, <1>5, Zenon DEF ShutdownDone, Positions
  <2>3. op'.msg = op.msg
    BY <1>5, Zenon DEF ShutdownDone
  <2> QED BY <1>5, <2>1, <2>2, QuietStep, Zenon DEF ShutdownDone
<1> QED BY <1>1, <1>2, <1>3, <1>4, <1>5, Zenon

\* The end of a context.
LEMMA CancelQuiet == ASSUME IInv, NEW r \in Requests, Cancel(r) PROVE IInv'
<1> USE DEF lifeVars, workVars, genVars, shutVars, opVars, reqVars, poolVars, histVars
<1>1. TypeOK'
  BY TypesKept, Zenon DEF IInv, Cancel, TypeOK, ShutTypes, CallTypes
<1>2. Positions'
  BY Zenon DEF IInv, Cancel, Positions
<1> QED BY <1>1, <1>2, QuietStep, Zenon DEF Cancel

\* The cleanup goroutine, but for its drain.
LEMMA CleanupQuiet ==
    ASSUME IInv, NEW g \in Gens, CleanupDrain(g) \/ CleanupDone(g) PROVE IInv'
<1> USE DEF lifeVars, workVars, genVars, shutVars, opVars, reqVars, poolVars, histVars
<1>0. TypeOK /\ Positions
  BY Zenon DEF IInv
<1>1. CASE CleanupDrain(g)
  <2>1. TypeOK'
    BY TypesKept, <1>0, <1>1, Zenon DEF CleanupDrain, TypeOK, LifeTypes
  <2>2. Positions'
    BY <1>0, <1>1, Zenon DEF CleanupDrain, Positions
  <2>3. op'.msg = op.msg
    BY <1>1, Zenon DEF CleanupDrain
  <2> QED BY <1>1, <2>1, <2>2, QuietStep, Zenon DEF CleanupDrain
<1>2. CASE CleanupDone(g)
  <2>1. TypeOK'
    BY TypesKept, <1>0, <1>2, ConstantFacts, Zenon DEF CleanupDone, TypeOK, LifeTypes, CallTypes
  <2>2. Positions'
    BY <1>0, <1>2, Zenon DEF CleanupDone, ShutTypes, Positions
  <2>3. op'.msg = op.msg
    BY <1>2, Zenon DEF CleanupDone
  <2> QED BY <1>2, <2>1, <2>2, QuietStep, Zenon DEF CleanupDone
<1> QED BY <1>1, <1>2, Zenon

\* RemoveProvider, but for its drain, and the end of UpdateProvider.
LEMMA RemoveQuiet ==
    ASSUME IInv,
           \/ RemoveBegin \/ RemoveWaited \/ RemoveDrained \/ RemoveFinish
           \/ TransferDone \/ Retire
    PROVE  IInv'
<1> USE DEF lifeVars, workVars, genVars, shutVars, opVars, reqVars, poolVars, histVars
<1>0. TypeOK /\ Positions
  BY Zenon DEF IInv
<1>1. CASE RemoveBegin
  <2>1. TypeOK'
    BY TypesKept, <1>0, <1>1, Zenon DEF RemoveBegin, TypeOK, LifeTypes, LockTypes, signalClosing,
       Lock, OpKinds
  <2>2. Positions'
    BY <1>0, <1>1, Zenon DEF RemoveBegin, TypeOK, LifeTypes, Positions, Free, Lock
  <2>3. op'.msg = op.msg
    BY <1>1, Zenon DEF RemoveBegin, LifeTypes, Free, Lock
  <2> QED BY <1>1, <2>1, <2>2, <2>3, QuietStep, Zenon DEF RemoveBegin
<1>2. CASE RemoveWaited
  <2>1. TypeOK'
    BY TypesKept, <1>0, <1>2, Zenon DEF RemoveWaited, TypeOK, LockTypes, OpKinds
  <2>2. Positions'
    BY <1>0, <1>2 DEF RemoveWaited, Positions
  <2>3. op'.msg = op.msg
    BY <1>2 DEF RemoveWaited, WorkTypes
  <2> QED BY <1>2, <2>1, <2>2, QuietStep DEF RemoveWaited
<1>3. CASE RemoveDrained
  <2>1. TypeOK'
    BY TypesKept, <1>0, <1>3, Zenon DEF RemoveDrained, TypeOK, LockTypes, OpKinds
  <2>2. Positions'
    BY <1>0, <1>3 DEF RemoveDrained, Positions
  <2>3. op'.msg = op.msg
    BY <1>3 DEF RemoveDrained
  <2> QED BY <1>3, <2>1, <2>2, QuietStep DEF RemoveDrained
<1>4. CASE RemoveFinish
  <2>1. TypeOK'
    BY TypesKept, <1>0, <1>4, Zenon DEF RemoveFinish, TypeOK, LifeTypes, LockTypes, Free, Lock,
       OpKinds
  <2>2. Positions'
    BY <1>0, <1>4, Zenon DEF RemoveFinish, PoolTypes, Positions, Free, Lock
  <2>3. op'.msg = op.msg
    BY <1>0, <1>4, Zenon DEF RemoveFinish, HistTypes, Positions, Free, Lock
  <2> QED BY <1>4, <2>1, <2>2, <2>3, QuietStep, Zenon DEF RemoveFinish
<1>5. CASE Retire
  <2>1. TypeOK'
    BY TypesKept, <1>0, <1>5, Zenon DEF Retire, TypeOK, LifeTypes, WorkTypes, LockTypes, Positions,
       signalClosing, Free, Lock, OpKinds
  <2>2. Positions'
    BY <1>0, <1>5, Zenon DEF Retire, Positions, Free, Lock
  <2>3. op'.msg = op.msg
    BY <1>0, <1>5, Zenon DEF Retire, Positions, Free, Lock
  <2> QED BY <1>5, <2>1, <2>2, <2>3, QuietStep, Zenon DEF Retire
<1>6. CASE TransferDone
  <2>1. TypeOK'
    BY TypesKept, <1>0, <1>6, Zenon DEF TransferDone, TypeOK, LockTypes, OpKinds
  <2>2. Positions'
    BY <1>0, <1>6 DEF TransferDone, Positions
  <2>3. op'.msg = op.msg
    BY <1>6 DEF TransferDone
  <2> QED BY <1>6, <2>1, <2>2, <2>3, QuietStep DEF TransferDone
<1> QED BY <1>1, <1>2, <1>3, <1>4, <1>5, <1>6, Zenon

\* A worker that starts to drain or exits.
LEMMA WorkerQuiet ==
    ASSUME IInv, NEW w \in Workers, StartDraining(w) \/ WorkerExit(w) PROVE IInv'
<1> USE DEF lifeVars, workVars, genVars, shutVars, opVars, reqVars, poolVars, histVars
<1>1. TypeOK'
  BY TypesKept, Zenon DEF IInv, TypeOK, WorkTypes, StartDraining, WorkerExit, LiveStates
<1>2. Positions'
  BY Zenon DEF IInv, TypeOK, WorkTypes, Positions, StartDraining, WorkerExit
<1>3. \A v \in Workers : wst'[v] = "busy" <=> wst[v] = "busy"
  BY Zenon DEF IInv, TypeOK, WorkTypes, StartDraining, WorkerExit
<1> QED
  BY <1>1, <1>2, <1>3, QuietStep, Zenon DEF StartDraining, WorkerExit

\* prepareProvider up to createBaseProvider, whoever calls it.
LEMMA PublishFacts ==
    ASSUME IInv, NEW k \in {"prepare", "updatePrepare"}, NEW r \in Requests \cup {NoReq},
           Publish(k, r)
    PROVE  /\ op' = Lock(k, born + 1, r) /\ op.msg = NoSlot /\ op = Free
           /\ born' = born + 1 /\ born' \in Gens /\ current' = born'
           /\ \A w \in Workers : w[1] >= born + 1 => wst[w] = "none"
<1> USE DEF Free, Lock
<1>1. born \in Nat /\ born + 1 \in Gens
  BY ConstantsAssumption DEF IInv, TypeOK, LifeTypes, Publish, Gens
<1>2. \A w \in Workers : w[1] \in Nat
  BY ConstantFacts, Zenon
<1> QED BY <1>1, <1>2 DEF IInv, CallTypes, PoolTypes, Positions, Publish

\* UpdateProvider of a provider that is not active, and getProviderByKey.
LEMMA PublishQuiet ==
    ASSUME IInv, UpdateAbsent \/ EnsureProvider PROVE IInv'
<1> USE DEF lifeVars, workVars, genVars, shutVars, opVars, reqVars, poolVars, histVars
<1>0. TypeOK /\ Positions
  BY Zenon DEF IInv
<1>1. PICK k \in {"prepare", "updatePrepare"} : Publish(k, NoReq) /\ UNCHANGED reqVars
  BY Zenon DEF UpdateAbsent, EnsureProvider
<1>2. /\ op' = Lock(k, born + 1, NoReq) /\ op.msg = NoSlot
      /\ born' = born + 1 /\ born' \in Gens /\ current' = born'
      /\ \A w \in Workers : w[1] >= born + 1 => wst[w] = "none"
  BY <1>1, PublishFacts, Zenon
<1>3. TypeOK'
  BY TypesKept, <1>0, <1>1, <1>2 DEF Publish, TypeOK, LifeTypes, LockTypes, Lock, OpKinds
<1>4. Positions'
  <2>1. \A w \in Workers : w[1] \in Nat /\ born \in Nat
    BY <1>0, ConstantFacts, Zenon DEF TypeOK, LifeTypes
  <2> QED BY <1>0, <1>1, <1>2, <2>1 DEF Publish, Positions, Lock
<1> QED BY <1>1, <1>2, <1>3, <1>4, QuietStep DEF Publish, Lock

\* UpdateProvider up to its transfer.
LEMMA UpdateBeginStep == ASSUME IInv, UpdateBegin PROVE IInv'
<1> USE DEF lifeVars, workVars, genVars, shutVars, opVars, reqVars, poolVars, histVars
<1>0. TypeOK /\ Positions
  BY Zenon DEF IInv
<1>1. /\ op = Free /\ op' = Lock("transfer", current, NoReq)
      /\ born' = born + 1 /\ current' = born + 1 /\ inSlice' = TRUE
      /\ wst' = [w \in Workers |-> IF w[1] = born + 1 THEN "idle" ELSE wst[w]]
      /\ UNCHANGED <<closing, queue, wslot, wreq, cleanup, shutVars, reqVars,
                     poolVars, histVars>>
      /\ current # NoGen /\ born < MaxGens
  BY Zenon DEF UpdateBegin
<1>2. /\ born + 1 \in Gens /\ born \in Nat
      /\ \A w \in Workers : w[1] \in Nat
      /\ current \in Gens
  BY <1>0, <1>1, ConstantsAssumption, ConstantFacts DEF TypeOK, LifeTypes, Gens
<1>3. TypeOK'
  BY TypesKept, <1>0, <1>1, <1>2, Zenon DEF TypeOK, LifeTypes, WorkTypes, LockTypes, Lock, OpKinds,
     LiveStates
<1>4. Positions'
  BY <1>0, <1>1, <1>2 DEF Positions, Lock
<1>5. \A w \in Workers : wst'[w] = "busy" <=> wst[w] = "busy"
  <2>1. \A w \in Workers : w[1] = born + 1 => wst[w] = "none"
    BY <1>0, <1>2 DEF Positions
  <2> QED BY <1>1, <2>1, Zenon
<1> QED BY <1>1, <1>3, <1>4, <1>5, QuietStep, Zenon DEF Lock, Free

\* A caller that has no message yet moves on, or returns without ever having one.
LEMMA CallerStep ==
    ASSUME IInv, TypeOK', Positions', NEW r \in Requests,
           pc[r] \in {"start", "prepare", "hooks"},
           pc'[r] \in {"prepare", "hooks", "done"},
           pc'[r] # "done" => outcome'[r] = "none" /\ posted'[r] = 0,
           pc'[r] = "done" => outcome'[r] \in {"error", "refused"},
           posted'[r] \in {0, 1},
           \A q \in Requests \ {r} : /\ pc'[q] = pc[q] /\ slot'[q] = slot[q]
                                     /\ outcome'[q] = outcome[q] /\ posted'[q] = posted[q],
           UNCHANGED <<queue, wslot, wreq, slotReq, chan, executed>>,
           op'.msg = op.msg,
           \A w \in Workers : wst'[w] = "busy" <=> wst[w] = "busy"
    PROVE  IInv'
<1>0. TypeOK
  BY Zenon DEF IInv
<1>1. /\ pc[r] \notin Holding /\ ~Departed(r) /\ ~Departed(r)' /\ pc'[r] \notin Holding
      /\ \A q \in Requests \ {r} : Departed(q)' <=> Departed(q)
  BY Zenon DEF Departed, Holding
<1>2. \A s \in Slots : slotReq[s] # r
  BY <1>1, ConstantFacts DEF IInv, Ownership
<1>3. \A s : Buffered(s)' <=> Buffered(s)
  BY Zenon DEF Buffered, Queued
<1>4. \A s \in Slots : Enqueued(s) => Enqueued(s)'
  BY <1>1, Zenon DEF Enqueued
<1>5. Ownership'
  <2>1. \A q \in Requests : pc'[q] \in Holding => slot'[q] \in Slots /\ slotReq'[slot'[q]] = q
    BY <1>1 DEF IInv, Ownership
  <2>2. \A s \in Slots : slotReq[s] # NoReq => slotReq[s] \in Requests \ {r}
    BY <1>2, Zenon DEF TypeOK, PoolTypes
  <2> QED BY <1>1, <2>2 DEF IInv, Ownership
<1>6. NoDuplicates'
  BY QueuesKept, Zenon DEF IInv, OnePlace
<1>7. OnePlace'
  BY <1>3, <1>6, Zenon DEF IInv, OnePlace
<1>8. InFlight'
  BY <1>0, <1>3, <1>4, Zenon DEF IInv, InFlight, OnePlace, TypeOK, PoolTypes
<1>9. Answered'
  BY <1>2 DEF IInv, Answered
<1>10. Counts'
  BY DEF IInv, Counts, Before
<1> QED BY <1>5, <1>7, <1>8, <1>9, <1>10, Zenon DEF IInv

\* getProviderQueue, the end of prepareProvider and the pre-hooks.
LEMMA CallerQuiet ==
    ASSUME IInv, NEW r \in Requests,
           GetProviderQueue(r) \/ CreateQueue(r) \/ NoConfig(r) \/ ShortCircuit(r)
    PROVE  IInv'
<1> USE DEF lifeVars, workVars, genVars, shutVars, opVars, reqVars, poolVars, histVars
<1>0. TypeOK /\ Positions /\ Counts
  BY Zenon DEF IInv
<1>1. CASE GetProviderQueue(r)
  <2>1. TypeOK' /\ Positions'
    <3>1. /\ current \in Gens /\ op = Free /\ UNCHANGED <<genVars, opVars, poolVars, histVars>>
          /\ pc' = [pc EXCEPT ![r] = "hooks"] /\ pq' = [pq EXCEPT ![r] = current]
          /\ UNCHANGED <<slot, outcome, cancelled>>
      BY <1>0, <1>1, Zenon DEF GetProviderQueue, TypeOK, LifeTypes
    <3>2. CallTypes'
      BY <1>0, <3>1, Zenon DEF TypeOK, CallTypes
    <3>3. pq'[r] = current /\ \A q \in Requests \ {r} : pc'[q] = pc[q] /\ pq'[q] = pq[q]
      BY <1>0, <3>1, Zenon DEF TypeOK, CallTypes
    <3>4. op.kind = "free" /\ op.req = NoReq /\ op.msg = NoSlot
      BY <3>1 DEF Free, Lock
    <3>5. Positions'
      BY <1>0, <3>1, <3>3, <3>4, Zenon DEF Positions
    <3> QED BY TypesKept, <1>0, <3>1, <3>2, <3>5, Zenon DEF TypeOK
  <2> QED
    BY <1>0, <1>1, <2>1, CallerStep, Zenon DEF GetProviderQueue, TypeOK, LockTypes, CallTypes,
       Counts, Before
<1>2. CASE CreateQueue(r)
  <2>1. Publish("prepare", r) /\ pc[r] = "start" /\ pc' = [pc EXCEPT ![r] = "prepare"]
        /\ UNCHANGED <<pq, slot, outcome, cancelled>>
    BY <1>2, Zenon DEF CreateQueue
  <2>2. /\ op' = Lock("prepare", born + 1, r) /\ op.msg = NoSlot
        /\ born' = born + 1 /\ born' \in Gens /\ current' = born'
        /\ \A w \in Workers : w[1] >= born + 1 => wst[w] = "none"
    BY <2>1, PublishFacts, Zenon
  <2>3. TypeOK'
    <3>1. LifeTypes'
      BY <1>0, <2>1, <2>2, Zenon DEF Publish, TypeOK, LifeTypes
    <3>2. LockTypes'
      BY <2>2, ConstantFacts, Zenon DEF LockTypes, Lock, OpKinds
    <3>3. CallTypes'
      BY <1>0, <2>1, Zenon DEF TypeOK, CallTypes
    <3> QED BY TypesKept, <1>0, <2>1, <3>1, <3>2, <3>3, Zenon DEF Publish, TypeOK
  <2>4. Positions'
    <3>1. \A w \in Workers : w[1] \in Nat /\ born \in Nat
      BY <1>0, ConstantFacts, Zenon DEF TypeOK, LifeTypes
    <3>2. \A w \in Workers : w[1] > born' \/ w[1] = op'.gen => w[1] >= born + 1
      BY <2>2, <3>1 DEF Lock
    <3>3. UNCHANGED wst
      BY <2>1, Zenon DEF Publish
    <3>4. \A w \in Workers : w[1] > born' \/ w[1] = op'.gen => wst'[w] = "none"
      BY <2>2, <3>2, <3>3, Zenon
    <3> QED BY <1>0, <2>1, <2>2, <3>4, Zenon DEF TypeOK, CallTypes, Positions, Lock, Holding
  <2> QED
    <3>1. op'.msg = op.msg
      BY <2>2, Zenon DEF Lock
    <3>2. posted[r] = 0 /\ outcome[r] = "none"
      BY <1>0, <2>1, Zenon DEF Counts, Before
    <3>3. UNCHANGED <<queue, wst, wslot, wreq, slotReq, chan, executed, posted>>
      BY <2>1, Zenon DEF Publish
    <3>4. pc'[r] = "prepare" /\ \A q \in Requests \ {r} : pc'[q] = pc[q]
      BY <1>0, <2>1, Zenon DEF TypeOK, CallTypes
    <3> QED BY <2>1, <2>3, <2>4, <3>1, <3>2, <3>3, <3>4, CallerStep, Zenon
<1>3. CASE NoConfig(r)
  <2>1. TypeOK' /\ Positions'
    <3>1. op = Free /\ Return(r, "error")
          /\ UNCHANGED <<genVars, opVars, cancelled, poolVars, histVars>>
      BY <1>3, Zenon DEF NoConfig
    <3>2. CallTypes'
      BY <1>0, <3>1, Zenon DEF TypeOK, CallTypes, Return, Outcomes
    <3>3. pc'[r] = "done" /\ \A q \in Requests \ {r} : pc'[q] = pc[q] /\ pq'[q] = pq[q]
      BY <1>0, <3>1, Zenon DEF TypeOK, CallTypes, Return
    <3>4. op.kind = "free" /\ op.req = NoReq /\ op.msg = NoSlot
      BY <3>1 DEF Free, Lock
    <3>5. Positions'
      BY <1>0, <3>1, <3>3, <3>4, Zenon DEF Positions, Holding
    <3> QED BY TypesKept, <1>0, <3>1, <3>2, <3>5, Zenon DEF TypeOK
  <2> QED
    BY <1>0, <1>3, <2>1, CallerStep, Zenon DEF NoConfig, Return, TypeOK, CallTypes, Counts, Before
<1>4. CASE ShortCircuit(r)
  <2>1. posted[r] = 0
    BY <1>0, <1>4, Zenon DEF ShortCircuit, Counts, Before
  <2>2. TypeOK'
    BY TypesKept, <1>0, <1>4 DEF ShortCircuit, Return, TypeOK, CallTypes, HistTypes, Outcomes
  <2>3. Positions'
    <3>1. /\ pc' = [pc EXCEPT ![r] = "done"] /\ pq' = [pq EXCEPT ![r] = NoGen]
          /\ UNCHANGED <<born, current, inSlice, wst, cleanup, op, wslot>>
      BY <1>4, Zenon DEF ShortCircuit, Return
    <3>2. /\ pc'[r] = "done"
          /\ \A q \in Requests \ {r} : pc'[q] = pc[q] /\ pq'[q] = pq[q]
      BY <1>0, <3>1, Zenon DEF TypeOK, CallTypes
    <3>3. op.req # NoReq => op.req \in Requests \ {r}
      BY <1>0, <1>4, Zenon DEF ShortCircuit, TypeOK, LockTypes, Positions
    <3> QED BY <1>0, <3>1, <3>2, <3>3, Zenon DEF Positions, Holding
  <2> QED
    BY <1>4, <2>1, <2>2, <2>3, CallerStep DEF ShortCircuit, Return, TypeOK, CallTypes
<1> QED BY <1>1, <1>2, <1>3, <1>4, Zenon

\* The end of prepareProvider.
LEMMA PrepareQuiet == ASSUME IInv, PrepareStart \/ PrepareFail PROVE IInv'
<1> USE DEF lifeVars, workVars, genVars, shutVars, opVars, reqVars, poolVars, histVars
<1>0. TypeOK /\ Positions /\ Counts
  BY Zenon DEF IInv
<1>1. op.kind \in {"prepare", "updatePrepare"} /\ op' = Free /\ op.msg = NoSlot
  BY <1>0, Zenon DEF PrepareStart, PrepareFail, Positions
<1>2. op.req \in Requests => pc[op.req] = "prepare" /\ posted[op.req] = 0
                             /\ outcome[op.req] = "none"
  BY <1>0, ConstantFacts, Zenon DEF Positions, Counts, Before
<1> DEFINE g == op.gen
           r == op.req
<1>3. g \in Gens /\ (r = NoReq \/ r \in Requests) /\ NoReq \notin Requests
  BY <1>0, <1>1, ConstantFacts, Zenon DEF TypeOK, LockTypes, Positions
<1>4. CASE PrepareStart
  <2>1. /\ inSlice' = TRUE
        /\ wst' = [w \in Workers |-> IF w[1] = g THEN "idle" ELSE wst[w]]
        /\ UNCHANGED <<born, current, closing, queue, wslot, wreq, cleanup, shutVars,
                       slot, outcome, cancelled, poolVars, histVars>>
        /\ r = NoReq => UNCHANGED <<pc, pq>>
        /\ r # NoReq => /\ pc' = [pc EXCEPT ![r] = "hooks"]
                        /\ pq' = [pq EXCEPT ![r] = g]
    BY <1>4, Zenon DEF PrepareStart
  <2>2. \A w \in Workers : w[1] = g => wst[w] = "none"
    BY <1>0, <1>1, Zenon DEF Positions
  <2>3. \A w \in Workers : wst'[w] = "busy" <=> wst[w] = "busy"
    BY <2>1, <2>2, Zenon
  <2>4. \A w \in Workers : w[1] > born => wst'[w] = "none"
    <3>1. g = born /\ born \in Nat
      BY <1>0, <1>1, ConstantFacts, Zenon DEF Positions
    <3>2. \A w \in Workers : w[1] > born => w[1] # g /\ wst[w] = "none"
      BY <1>0, <3>1 DEF Positions
    <3> QED BY <2>1, <3>2, Zenon
  <2> HIDE DEF g, r
  <2>a. /\ pc' \in [Requests -> {"start", "prepare", "hooks", "send", "blocked", "waiting",
                                 "done"}]
        /\ pq' \in [Requests -> Gens \cup {NoGen}]
        /\ \A q \in Requests : pc'[q] \in Holding \cup {"hooks"} => pq'[q] \in Gens
    <3>1. CASE r = NoReq
      BY <1>0, <2>1, <3>1, Zenon DEF TypeOK, CallTypes, Positions
    <3>2. CASE r \in Requests
      <4>1. pc' = [pc EXCEPT ![r] = "hooks"] /\ pq' = [pq EXCEPT ![r] = g]
        BY <1>3, <2>1, <3>2, Zenon
      <4> QED BY <1>0, <1>3, <3>2, <4>1, Zenon DEF TypeOK, WorkTypes, LockTypes, ShutTypes,
                 CallTypes, Positions
    <3> QED BY <1>3, <3>1, <3>2, Zenon
  <2>5. TypeOK'
    BY TypesKept, <1>0, <1>1, <2>1, <2>a, Zenon DEF TypeOK, LifeTypes, WorkTypes, LockTypes,
       CallTypes, Free, Lock, LiveStates, OpKinds
  <2>6. Positions'
    BY <1>1, <2>1, <2>4, <2>a, Zenon DEF Positions, Free, Lock
  <2>7. CASE r = NoReq
    BY <1>1, <2>1, <2>3, <2>5, <2>6, <2>7, QuietStep, Zenon DEF Free, Lock
  <2>8. CASE r \in Requests
    <3>1. pc[r] = "prepare" /\ posted[r] = 0 /\ outcome[r] = "none"
      BY <1>2, <2>8, Zenon DEF r
    <3>2. /\ pc'[r] = "hooks" /\ \A q \in Requests \ {r} : pc'[q] = pc[q]
          /\ UNCHANGED <<slot, outcome, posted>>
      BY <1>0, <1>3, <2>1, <2>8, Zenon DEF TypeOK, CallTypes
    <3>3. op'.msg = op.msg
      BY <1>1, Zenon DEF Free, Lock
    <3> QED BY <2>1, <2>3, <2>5, <2>6, <2>8, <3>1, <3>2, <3>3, CallerStep, Zenon
  <2> QED BY <1>3, <2>7, <2>8, Zenon
<1>5. CASE PrepareFail
  <2>1. /\ UNCHANGED <<genVars, shutVars, cancelled, poolVars, histVars>>
        /\ r = NoReq => UNCHANGED <<pc, pq, slot, outcome>>
        /\ r # NoReq => Return(r, "error")
    BY <1>5, Zenon DEF PrepareFail
  <2> HIDE DEF g, r
  <2>a. /\ pc' \in [Requests -> {"start", "prepare", "hooks", "send", "blocked", "waiting",
                                 "done"}]
        /\ pq' \in [Requests -> Gens \cup {NoGen}]
        /\ slot' \in [Requests -> Slots \cup {NoSlot}]
        /\ outcome' \in [Requests -> Outcomes]
        /\ \A q \in Requests : pc'[q] \in Holding \cup {"hooks"} => pq'[q] \in Gens
    <3>1. CASE r = NoReq
      BY <1>0, <2>1, <3>1, Zenon DEF TypeOK, CallTypes, Positions
    <3>2. CASE r \in Requests
      <4>1. Return(r, "error")
        BY <1>3, <2>1, <3>2, Zenon
      <4> QED BY <1>0, <3>2, <4>1, Zenon DEF TypeOK, LockTypes, ShutTypes, CallTypes, Positions,
                 Return, Holding, Outcomes
    <3> QED BY <1>3, <3>1, <3>2, Zenon
  <2>2. TypeOK'
    BY TypesKept, <1>0, <1>1, <2>1, <2>a, Zenon
       DEF TypeOK, LockTypes, CallTypes, Free, Lock, OpKinds
  <2>3. Positions'
    BY <1>0, <1>1, <2>1, <2>a, Zenon DEF Positions, Free, Lock
  <2>4. CASE r = NoReq
    BY <1>1, <2>1, <2>2, <2>3, <2>4, QuietStep, Zenon DEF Free, Lock
  <2>5. CASE r \in Requests
    <3>1. pc[r] = "prepare" /\ posted[r] = 0 /\ outcome[r] = "none"
      BY <1>2, <2>5, Zenon DEF r
    <3> QED BY <1>1, <2>1, <2>2, <2>3, <2>5, <3>1, CallerStep DEF Return, Free, Lock, TypeOK,
               CallTypes
  <2> QED BY <1>3, <2>4, <2>5, Zenon
<1> QED BY <1>4, <1>5, Zenon
-----------------------------------------------------------------------------
(* The steps that move a message.                                          *)

\* A message taken from the pool belongs to nobody and is nowhere.
LEMMA PooledIsNowhere ==
    ASSUME IInv, NEW s \in Slots, slotReq[s] = NoReq
    PROVE  /\ ~Buffered(s) /\ op.msg # s /\ chan[s] = NoReply
           /\ \A w \in Workers : wst[w] = "busy" => wslot[w] # s
<1>1. ~Enqueued(s)
  BY ConstantFacts, Zenon DEF Enqueued
<1> QED BY <1>1, ConstantFacts, Zenon DEF IInv, InFlight, Answered

\* What Ownership says of one slot.
LEMMA OwnerFacts ==
    ASSUME Ownership, NEW s \in Slots, slotReq[s] # NoReq
    PROVE  /\ Departed(slotReq[s]) \/ (pc[slotReq[s]] \in Holding /\ slot[slotReq[s]] = s)
           /\ \A u \in Slots : slotReq[u] = slotReq[s] => u = s
BY Zenon DEF Ownership

LEMMA CheckClosingStep ==
    ASSUME IInv, NEW r \in Requests, CheckClosing(r) PROVE IInv'
<1> USE DEF lifeVars, workVars, genVars, shutVars, opVars, reqVars, poolVars, histVars
<1>0. TypeOK /\ Positions /\ Counts /\ pc[r] = "hooks" /\ pq[r] \in Gens
  BY Zenon DEF IInv, CheckClosing, Positions
<1>1. UNCHANGED <<genVars, opVars, cancelled, histVars>>
  BY Zenon DEF CheckClosing
<1>2. CASE Return(r, "refused") /\ UNCHANGED poolVars
  <2>2. TypeOK'
    BY TypesKept, <1>0, <1>1, <1>2, Zenon DEF Return, TypeOK, CallTypes, Outcomes
  <2>3. Positions'
    <3>1. pc'[r] = "done" /\ \A q \in Requests \ {r} : pc'[q] = pc[q] /\ pq'[q] = pq[q]
      BY <1>0, <1>2, Zenon DEF TypeOK, CallTypes, Return
    <3>2. op.req # r /\ (op.req = NoReq \/ op.req \in Requests)
      BY <1>0, ConstantFacts, Zenon DEF Positions, TypeOK, LockTypes
    <3>3. UNCHANGED <<op, current, born, wst>> /\ pc'[r] \notin Holding \cup {"hooks"}
      BY <1>1, <3>1, Zenon DEF Holding
    <3> QED BY <1>0, <3>1, <3>2, <3>3, PositionsKept, Zenon
  <2> QED BY <1>0, <1>1, <1>2, <2>2, <2>3, CallerStep DEF Return, TypeOK, LifeTypes,
             CallTypes, Counts, Before
<1>3. CASE /\ closing[pq[r]] => OpenReplacement(r)
           /\ \E s \in Slots :
                 GetChannelMessage(r, s) /\ slot' = [slot EXCEPT ![r] = s]
           /\ pq' = [pq EXCEPT ![r] = IF closing[@] THEN current ELSE @]
           /\ pc' = [pc EXCEPT ![r] = "send"]
           /\ UNCHANGED outcome
  <2>1. PICK s \in Slots :
            /\ slotReq[s] = NoReq
            /\ slotReq' = [slotReq EXCEPT ![s] = r]
            /\ chan' = [chan EXCEPT ![s] = NoReply]
            /\ slot' = [slot EXCEPT ![r] = s]
            /\ pq' = [pq EXCEPT ![r] = IF closing[@] THEN current ELSE @]
            /\ pc' = [pc EXCEPT ![r] = "send"]
            /\ UNCHANGED outcome
    BY <1>3, Zenon DEF GetChannelMessage
  <2>2. pq'[r] \in Gens
    BY <1>0, <1>3, <2>1 DEF OpenReplacement, TypeOK, LifeTypes, CallTypes
  <2>3. TypeOK'
    BY TypesKept, <1>0, <1>1, <2>1, <2>2, Zenon DEF TypeOK, CallTypes, PoolTypes, Replies
  <2>4. Positions'
    BY <1>0, <1>1, <2>1, <2>2 DEF ShutTypes, Positions
  <2>5. /\ ~Buffered(s) /\ op.msg # s /\ chan[s] = NoReply
        /\ \A w \in Workers : wst[w] = "busy" => wslot[w] # s
    BY <2>1, PooledIsNowhere, Zenon
  <2>6. \A u \in Slots : slotReq[u] # r
    BY <1>0, ConstantFacts, Zenon DEF IInv, Ownership, Departed, Holding
  <2>7. \A u : Buffered(u)' <=> Buffered(u)
    BY <1>1, Zenon DEF Buffered, Queued
  <2>8. \A u \in Slots \ {s} : slotReq'[u] = slotReq[u] /\ chan'[u] = chan[u]
    BY <1>0, <2>1 DEF WorkTypes, HistTypes
  <2>9. slotReq'[s] = r /\ chan'[s] = NoReply /\ slot'[r] = s /\ pc'[r] = "send"
    BY <1>0, <2>1, Zenon DEF TypeOK, WorkTypes, CallTypes, PoolTypes
  <2>10. \A q \in Requests \ {r} : pc'[q] = pc[q] /\ slot'[q] = slot[q]
                                   /\ (Departed(q)' <=> Departed(q))
    BY <1>0, <2>1 DEF TypeOK, WorkTypes, PoolTypes, Departed
  <2>11. \A u \in Slots \ {s} : Enqueued(u) => Enqueued(u)'
    BY <1>1, <2>6, <2>8, <2>10 DEF Enqueued
  <2>12. Ownership'
    <3>1. \A q \in Requests : pc'[q] \in Holding => slot'[q] \in Slots /\ slotReq'[slot'[q]] = q
      BY <2>1, <2>9, ConstantFacts DEF IInv, Ownership
    <3>2. \A u \in Slots : slotReq[u] # NoReq => slotReq[u] \in Requests \ {r}
      BY <1>0, <2>6, Zenon DEF TypeOK, PoolTypes
    <3>3. ASSUME NEW u \in Slots, slotReq'[u] # NoReq
          PROVE  (Departed(slotReq[u]) \/ (pc[slotReq[u]] \in Holding /\ slot[slotReq[u]] = u))'
      <4>1. CASE u = s
        BY <2>9, <4>1, Zenon DEF Holding
      <4>2. CASE u # s
        <5>1. slotReq'[u] = slotReq[u] /\ slotReq[u] \in Requests \ {r}
          BY <2>8, <3>2, <3>3, <4>2, Zenon
        <5>2. Departed(slotReq[u]) \/ (pc[slotReq[u]] \in Holding /\ slot[slotReq[u]] = u)
          BY <3>3, <5>1, OwnerFacts, Zenon DEF IInv
        <5> QED BY <2>10, <5>1, <5>2, Zenon
      <4> QED BY <4>1, <4>2, Zenon
    <3>4. \A u, x \in Slots : slotReq'[u] = slotReq'[x] /\ slotReq'[u] # NoReq => u = x
      BY <2>8, <2>9, <3>2 DEF IInv, Ownership
    <3> QED BY <3>1, <3>3, <3>4, Zenon DEF Ownership
  <2>13. NoDuplicates'
    BY <1>1, QueuesKept, Zenon DEF IInv, OnePlace
  <2>14. OnePlace'
    BY <1>1, <2>7, <2>13, Zenon DEF IInv, OnePlace
  <2>15. InFlight'
    <3>1. /\ op' = op /\ wst' = wst /\ wslot' = wslot /\ wreq' = wreq /\ executed' = executed
      BY <1>1, Zenon
    <3>2. \A u \in Slots : (Buffered(u) \/ u = op.msg)' =>
            u # s /\ Enqueued(u) /\ executed[slotReq[u]] = 0
      BY <2>5, <2>7, <3>1, Zenon DEF IInv, InFlight
    <3>3. \A u \in Slots : (Buffered(u) \/ u = op.msg)' =>
            Enqueued(u)' /\ executed'[slotReq'[u]] = 0
      BY <2>8, <2>11, <3>1, <3>2, Zenon
    <3>4. \A w \in Workers : wst[w] = "busy" =>
            /\ wslot[w] \in Slots \ {s} /\ Enqueued(wslot[w])
            /\ wreq[w] = slotReq[wslot[w]] /\ executed[wreq[w]] = 1
      BY <2>5, Zenon DEF IInv, InFlight, OnePlace
    <3>5. \A w \in Workers : wst[w] = "busy" =>
            Enqueued(wslot[w])' /\ slotReq'[wslot[w]] = slotReq[wslot[w]]
      BY <2>8, <2>11, <3>1, <3>4, Zenon
    <3>6. \A w \in Workers : wst'[w] = "busy" =>
            /\ Enqueued(wslot[w])' /\ wreq'[w] = slotReq'[wslot'[w]] /\ executed'[wreq'[w]] = 1
      BY <3>1, <3>4, <3>5, Zenon
    <3> QED BY <3>3, <3>6, Zenon DEF InFlight
  <2>16. Answered'
    <3>1. ASSUME NEW u \in Slots, chan'[u] # NoReply
          PROVE  /\ chan'[u].req = slotReq'[u] /\ chan'[u].req \in Requests
                 /\ posted'[chan'[u].req] = 0 /\ pc'[chan'[u].req] \notin Before
                 /\ chan'[u].kind = "shutdown" => executed'[chan'[u].req] = 0
      <4>1. chan'[u] = chan[u] /\ slotReq'[u] = slotReq[u] /\ chan[u] # NoReply
        BY <2>8, <2>9, <3>1, Zenon
      <4>2. /\ chan[u].req = slotReq[u] /\ chan[u].req \in Requests
            /\ posted[chan[u].req] = 0 /\ pc[chan[u].req] \notin Before
            /\ chan[u].kind = "shutdown" => executed[chan[u].req] = 0
        BY <4>1, Zenon DEF IInv, Answered
      <4>3. pc'[chan[u].req] = pc[chan[u].req] /\ posted' = posted /\ executed' = executed
        BY <1>1, <2>6, <2>10, <4>2, Zenon
      <4> QED BY <4>1, <4>2, <4>3, Zenon
    <3> QED BY <3>1, Zenon DEF Answered
  <2>17. Counts'
    <3>1. executed[r] = 0 /\ posted[r] = 0 /\ outcome[r] = "none"
          /\ UNCHANGED <<executed, posted, outcome>>
      BY <1>0, <1>1, <2>1, Zenon DEF Counts, Before
    <3> QED BY <1>0, <2>9, <2>10, <3>1, CountsKept, Zenon
  <2> QED BY <2>3, <2>4, <2>12, <2>14, <2>15, <2>16, <2>17, Zenon DEF IInv
<1> QED BY <1>2, <1>3, Zenon DEF CheckClosing

\* Enqueue: the sender's message, which is nowhere else, joins the queue.
LEMMA EnqueueStep ==
    ASSUME IInv, NEW r \in Requests, Enqueue(r) PROVE IInv'
<1> USE DEF lifeVars, workVars, genVars, shutVars, opVars, reqVars, poolVars, histVars
<1>a. slot[r] \in Slots
  BY Zenon DEF IInv, Enqueue, Sending, Holding, Ownership
<1>s. PICK s \in Slots : slot[r] = s
  BY <1>a, Zenon
<1> DEFINE g == pq[r]
<1>0. /\ TypeOK /\ Positions /\ Counts /\ pc[r] \in {"send", "blocked"} /\ g \in Gens
      /\ slotReq[s] = r
  BY <1>s, Zenon DEF IInv, Enqueue, Sending, Positions, Holding, Ownership
<1>1. /\ queue' = [queue EXCEPT ![g] = Append(@, s)]
      /\ pc' = [pc EXCEPT ![r] = "waiting"]
      /\ late' \in {late, late \cup {r}}
      /\ UNCHANGED <<lifeVars, workVars, opVars, pq, slot, outcome, cancelled, poolVars,
                     executed, posted, lost>>
  BY <1>s, Zenon DEF Enqueue
<1>2. ~Enqueued(s)
  BY <1>0, Zenon DEF Enqueued, Departed
<1>3. ~Buffered(s) /\ op.msg # s /\ \A w \in Workers : wst[w] = "busy" => wslot[w] # s
  BY <1>2, Zenon DEF IInv, InFlight
<1>4. /\ queue' \in [Gens -> Seq(Slots)] /\ NoDuplicates'
      /\ \A u : Buffered(u)' <=> Buffered(u) \/ u = s
  BY <1>0, <1>1, <1>3, AddLast, Zenon DEF IInv, OnePlace
<1>5. chan[s] = NoReply /\ posted[r] = 0 /\ executed[r] = 0 /\ outcome[r] = "none"
  BY <1>0 DEF IInv, Counts, Before, Answered
<1>7. pc'[r] = "waiting" /\ \A q \in Requests \ {r} : pc'[q] = pc[q]
  BY <1>0, <1>1, Zenon DEF TypeOK, LockTypes, CallTypes
<1>8. \A q \in Requests : Departed(q)' <=> Departed(q)
  BY <1>0, <1>1, <1>7, Zenon DEF Departed
<1>9. TypeOK'
  BY TypesKept, <1>0, <1>1 DEF TypeOK, CallTypes, HistTypes
<1>10. Positions'
  <2>1. op.req # r
    BY <1>0, ConstantFacts, Zenon DEF Positions
  <2>2. op.req # NoReq => op.req \in Requests
    BY <1>0, Zenon DEF TypeOK, LockTypes
  <2> QED BY <1>0, <1>1, <1>7, <2>1, <2>2, ZenonT(30) DEF Positions, Holding
<1>11. Ownership'
  <2>1. \A q \in Requests : pc'[q] \in Holding <=> pc[q] \in Holding
    BY <1>0, <1>7, Zenon DEF Holding
  <2>2. \A u \in Slots : slotReq[u] # NoReq => slotReq[u] \in Requests
    BY <1>0, Zenon DEF TypeOK, PoolTypes
  <2> QED BY <1>1, <1>8, <2>1, <2>2, Zenon DEF IInv, Ownership
<1>12. Enqueued(s)'
  BY <1>0, <1>1, <1>5, <1>s, <1>7, Zenon DEF Enqueued
<1>13. \A u \in Slots : Enqueued(u) => Enqueued(u)'
  BY <1>1, <1>7, <1>8, EnqueuedKept, Zenon DEF Enqueued
<1>14. OnePlace'
  BY <1>1, <1>3, <1>4, Zenon DEF IInv, OnePlace
<1>15. InFlight'
  BY <1>0, <1>1, <1>4, <1>5, <1>12, <1>13, Zenon DEF IInv, InFlight, OnePlace
<1>16. Answered'
  <2>1. \A u \in Slots : chan[u] # NoReply => pc'[chan[u].req] \notin Before
    BY <1>7, Zenon DEF IInv, Answered, Before
  <2> QED BY <1>1, <2>1, Zenon DEF IInv, Answered
<1>17. Counts'
  <2>1. UNCHANGED <<executed, posted, outcome>>
    BY <1>1, Zenon
  <2> QED BY <1>0, <1>5, <1>7, <2>1, CountsKept, Zenon
<1> QED BY <1>9, <1>10, <1>11, <1>14, <1>15, <1>16, <1>17, Zenon DEF IInv

\* A caller gives its message back, which is nowhere: it was never sent, or it was
\* answered.
LEMMA ReleaseStep ==
    ASSUME IInv, NEW r \in Requests, NEW s \in Slots, NEW n \in {0, 1},
           NEW o \in {"refused", "result", "failed", "shutdown"},
           pc[r] \in Holding, slot[r] = s, ~Enqueued(s),
           o \in {"refused", "shutdown"} => executed[r] = 0,
           Return(r, o), Release(s), posted' = [posted EXCEPT ![r] = n],
           UNCHANGED <<genVars, opVars, cancelled, executed, late, lost>>
    PROVE  IInv'
<1> USE DEF lifeVars, workVars, genVars, shutVars, opVars, histVars
<1>0. /\ TypeOK /\ Positions /\ Counts /\ slotReq[s] = r
  BY Zenon DEF IInv, Ownership
<1>1. ~Buffered(s) /\ op.msg # s /\ \A w \in Workers : wst[w] = "busy" => wslot[w] # s
  BY Zenon DEF IInv, InFlight
<1>2. TypeOK'
  BY TypesKept, <1>0 DEF TypeOK, CallTypes, PoolTypes, HistTypes, Return, Release, Replies, Outcomes
<1>3. /\ pc'[r] = "done" /\ outcome'[r] = o /\ posted'[r] = n
      /\ slotReq'[s] = NoReq /\ chan'[s] = NoReply
      /\ \A q \in Requests \ {r} : pc'[q] = pc[q] /\ slot'[q] = slot[q] /\ pq'[q] = pq[q]
                                   /\ outcome'[q] = outcome[q] /\ posted'[q] = posted[q]
      /\ \A u \in Slots \ {s} : slotReq'[u] = slotReq[u] /\ chan'[u] = chan[u]
  BY <1>0, Zenon DEF TypeOK, WorkTypes, CallTypes, PoolTypes, HistTypes, Return, Release
<1>4. \A u \in Slots \ {s} : slotReq[u] # r
  BY <1>0, OwnerFacts, ConstantFacts, Zenon DEF IInv
<1>5. \A q \in Requests \ {r} : Departed(q)' <=> Departed(q)
  BY <1>3, Zenon DEF Departed
<1>6. \A u \in Slots \ {s} : slotReq[u] # NoReq => slotReq[u] \in Requests \ {r}
  BY <1>0, <1>4, Zenon DEF TypeOK, LifeTypes, WorkTypes, CallTypes, PoolTypes
<1>7. \A u : Buffered(u)' <=> Buffered(u)
  BY Zenon DEF Buffered, Queued
<1>8. \A u \in Slots \ {s} : Enqueued(u) => Enqueued(u)'
  <2> SUFFICES ASSUME NEW u \in Slots \ {s}, Enqueued(u) PROVE Enqueued(u)'
    BY Zenon
  <2>1. slotReq[u] \in Requests \ {r} /\ slotReq'[u] = slotReq[u] /\ chan'[u] = chan[u]
    BY <1>3, <1>4, Zenon DEF Enqueued
  <2>2. /\ posted'[slotReq[u]] = posted[slotReq[u]] /\ pc'[slotReq[u]] = pc[slotReq[u]]
        /\ slot'[slotReq[u]] = slot[slotReq[u]] /\ (Departed(slotReq[u])' <=> Departed(slotReq[u]))
    BY <1>3, <1>5, <2>1, Zenon
  <2> QED BY <2>1, <2>2, EnqueuedKept, Zenon
<1>9. Positions'
  <2>1. op.req # r
    BY <1>0, ConstantFacts, Zenon DEF Positions, Holding
  <2>2. op.req # NoReq => op.req \in Requests
    BY <1>0, Zenon DEF TypeOK, WorkTypes, LockTypes
  <2> QED BY <1>0, <1>3, <2>2, Zenon DEF Positions, Holding
<1>10. Ownership'
  <2>1. ASSUME NEW q \in Requests, pc'[q] \in Holding
        PROVE  slot'[q] \in Slots /\ slotReq'[slot'[q]] = q
    <3>1. q # r
      BY <1>3, <2>1, Zenon DEF Holding
    <3>2. slot[q] \in Slots /\ slotReq[slot[q]] = q /\ slot'[q] = slot[q]
      BY <1>3, <2>1, <3>1, Zenon DEF IInv, Ownership
    <3>3. slot[q] # s
      BY <1>0, <3>1, <3>2, Zenon
    <3>4. slotReq'[slot[q]] = slotReq[slot[q]]
      BY <1>3, <3>2, <3>3, Zenon
    <3> QED BY <3>2, <3>4, Zenon
  <2>2. ASSUME NEW u \in Slots, slotReq'[u] # NoReq
        PROVE  (Departed(slotReq[u]) \/ (pc[slotReq[u]] \in Holding /\ slot[slotReq[u]] = u))'
    <3>1. u # s /\ slotReq'[u] = slotReq[u] /\ slotReq[u] \in Requests \ {r}
      BY <1>3, <1>6, <2>2, Zenon
    <3>2. Departed(slotReq[u]) \/ (pc[slotReq[u]] \in Holding /\ slot[slotReq[u]] = u)
      BY <2>2, <3>1, OwnerFacts, Zenon DEF IInv
    <3>3. /\ pc'[slotReq[u]] = pc[slotReq[u]] /\ slot'[slotReq[u]] = slot[slotReq[u]]
          /\ outcome'[slotReq[u]] = outcome[slotReq[u]]
      BY <1>3, <3>1, Zenon
    <3> QED BY <3>1, <3>2, <3>3, Zenon DEF Departed
  <2>3. \A u, x \in Slots : slotReq'[u] = slotReq'[x] /\ slotReq'[u] # NoReq => u = x
    <3> SUFFICES ASSUME NEW u \in Slots, NEW x \in Slots,
                        slotReq'[u] = slotReq'[x], slotReq'[u] # NoReq
                 PROVE  u = x
      BY Zenon
    <3>1. u # s /\ x # s
      BY <1>3, Zenon
    <3>2. slotReq[u] = slotReq[x] /\ slotReq[u] # NoReq
      BY <1>3, <3>1, Zenon
    <3> QED BY <3>2, Zenon DEF IInv, Ownership
  <2> QED BY <2>1, <2>2, <2>3, Zenon DEF Ownership
<1>11. NoDuplicates'
  BY QueuesKept, Zenon DEF IInv, OnePlace
<1>12. OnePlace'
  BY <1>7, <1>11, Zenon DEF IInv, OnePlace
<1>13. InFlight'
  <2>1. \A u \in Slots : (Buffered(u) \/ u = op.msg)' => u # s /\ (Buffered(u) \/ u = op.msg)
    BY <1>1, <1>7, Zenon
  <2>2. \A u \in Slots : (Buffered(u) \/ u = op.msg)' =>
          Enqueued(u)' /\ slotReq'[u] = slotReq[u] /\ executed[slotReq[u]] = 0
    BY <1>3, <1>8, <2>1, Zenon DEF IInv, InFlight
  <2>3. \A w \in Workers : wst[w] = "busy" =>
          /\ wslot[w] \in Slots \ {s} /\ Enqueued(wslot[w])
          /\ wreq[w] = slotReq[wslot[w]] /\ executed[wreq[w]] = 1
    BY <1>1, Zenon DEF IInv, InFlight, OnePlace
  <2>4. \A w \in Workers : wst[w] = "busy" =>
          Enqueued(wslot[w])' /\ slotReq'[wslot[w]] = slotReq[wslot[w]]
    <3>1. UNCHANGED wslot
      BY Zenon
    <3> QED BY <1>3, <1>8, <2>3, <3>1, Zenon
  <2>5. wst' = wst /\ wslot' = wslot /\ wreq' = wreq /\ executed' = executed
    BY Zenon
  <2>6. \A w \in Workers : wst'[w] = "busy" =>
          /\ Enqueued(wslot[w])' /\ wreq'[w] = slotReq'[wslot'[w]] /\ executed'[wreq'[w]] = 1
    BY <2>3, <2>4, <2>5, ZenonT(30)
  <2>7. \A u \in Slots : (Buffered(u) \/ u = op.msg)' => Enqueued(u)' /\ executed'[slotReq'[u]] = 0
    BY <2>2, <2>5, Zenon
  <2> QED BY <2>6, <2>7, Zenon DEF InFlight
<1>14. Answered'
  <2>1. ASSUME NEW u \in Slots, chan'[u] # NoReply
        PROVE  /\ chan'[u].req = slotReq'[u] /\ chan'[u].req \in Requests
               /\ posted'[chan'[u].req] = 0 /\ pc'[chan'[u].req] \notin Before
               /\ chan'[u].kind = "shutdown" => executed'[chan'[u].req] = 0
    <3>1. u # s /\ chan'[u] = chan[u] /\ slotReq'[u] = slotReq[u]
      BY <1>3, <2>1, Zenon
    <3>2. /\ chan[u].req = slotReq[u] /\ chan[u].req \in Requests
          /\ posted[chan[u].req] = 0 /\ pc[chan[u].req] \notin Before
          /\ chan[u].kind = "shutdown" => executed[chan[u].req] = 0
      BY <2>1, <3>1, Zenon DEF IInv, Answered
    <3>3. chan[u].req # r
      BY <1>4, <3>1, <3>2, Zenon
    <3>4. /\ pc'[chan[u].req] = pc[chan[u].req] /\ posted'[chan[u].req] = posted[chan[u].req]
          /\ UNCHANGED executed
      BY <1>3, <3>2, <3>3, Zenon
    <3> QED BY <3>1, <3>2, <3>4, Zenon
  <2> QED BY <2>1, Zenon DEF Answered
<1>15. Counts'
  <2>1. executed[r] \in {0, 1} /\ UNCHANGED executed
    BY <1>0, Zenon DEF Counts
  <2> QED BY <1>0, <1>3, <2>1, CountsKept, ZenonT(30) DEF Before
<1> QED BY <1>2, <1>9, <1>10, <1>12, <1>13, <1>14, <1>15, Zenon DEF IInv

\* The refused send and the received reply.
LEMMA GiveUpStep ==
    ASSUME IInv, NEW r \in Requests, GiveUp(r) \/ QueueFull(r) \/ Receive(r) PROVE IInv'
<1> USE DEF lifeVars, workVars, genVars, shutVars, opVars, reqVars, poolVars, histVars
<1>1. pc[r] \in Holding
  BY Zenon DEF GiveUp, QueueFull, Receive, Sending, Holding
<1>2. PICK s \in Slots : slot[r] = s
  BY <1>1, Zenon DEF IInv, Ownership
<1>3. TypeOK /\ Positions /\ Counts /\ slotReq[s] = r
  BY <1>1, <1>2, Zenon DEF IInv, Ownership
<1>4. CASE /\ pc[r] \in {"send", "blocked"} /\ Return(r, "refused") /\ Release(s)
           /\ UNCHANGED <<genVars, opVars, cancelled, histVars>>
  <2>1. ~Enqueued(s)
    BY <1>3, <1>4, Zenon DEF Enqueued, Departed
  <2>2. executed[r] = 0 /\ posted[r] = 0
    BY <1>3, <1>4, Zenon DEF Counts, Before
  <2>3. posted' = [posted EXCEPT ![r] = 0]
    BY <1>3, <1>4, <2>2, Zenon DEF TypeOK, LifeTypes, HistTypes
  <2> QED BY <1>1, <1>2, <1>4, <2>1, <2>2, <2>3, ReleaseStep, Zenon
<1>5. CASE /\ pc[r] = "send" /\ pc' = [pc EXCEPT ![r] = "blocked"]
           /\ UNCHANGED <<pq, slot, outcome, poolVars>>
           /\ UNCHANGED <<genVars, opVars, cancelled, histVars>>
  <2>1. /\ pc'[r] = "blocked" /\ \A q \in Requests \ {r} : pc'[q] = pc[q]
        /\ \A q \in Requests : /\ pc'[q] \in Holding <=> pc[q] \in Holding
                               /\ pc'[q] \in Before <=> pc[q] \in Before
                               /\ pc'[q] = "done" <=> pc[q] = "done"
                               /\ pc'[q] = "waiting" <=> pc[q] = "waiting"
                               /\ pc'[q] = "prepare" <=> pc[q] = "prepare"
                               /\ pc'[q] = "hooks" <=> pc[q] = "hooks"
    BY <1>3, <1>5, Zenon DEF TypeOK, CallTypes, Holding, Before
  <2>2. TypeOK' /\ Counts'
    <3>1. UNCHANGED <<executed, posted, outcome, pq, slot, cancelled>>
      BY <1>5, Zenon
    <3>2. CallTypes'
      BY <1>3, <1>5, <3>1, Zenon DEF TypeOK, CallTypes
    <3>3. Counts'
      BY <1>3, <2>1, <3>1, Zenon DEF Counts
    <3> QED BY TypesKept, <1>3, <1>5, <3>2, <3>3, Zenon DEF TypeOK
  <2>3. Positions'
    <3>1. op.req # NoReq => op.req \in Requests
      BY <1>3, Zenon DEF TypeOK, LockTypes
    <3>2. UNCHANGED <<op, current, born, wst, pq>> /\ op.req # r /\ pq[r] \in Gens
      BY <1>1, <1>3, <1>5, ConstantFacts, Zenon DEF Positions
    <3> QED BY <1>3, <2>1, <3>1, <3>2, PositionsKept, Zenon
  <2>4. \A q \in Requests : Departed(q)' <=> Departed(q)
    BY <1>5 DEF Departed
  <2>5. \A u : (Buffered(u)' <=> Buffered(u)) /\ (Enqueued(u)' <=> Enqueued(u))
    BY <1>5, <2>4 DEF Buffered, Queued, Enqueued
  <2>6. \A u \in Slots : slotReq[u] # NoReq => slotReq[u] \in Requests
    BY <1>3, Zenon DEF TypeOK, PoolTypes
  <2>7. Ownership'
    BY <1>5, <2>1, <2>4, <2>6 DEF IInv, Ownership
  <2>8. NoDuplicates' /\ Answered'
    <3>1. NoDuplicates'
      BY <1>5, QueuesKept, Zenon DEF IInv, OnePlace
    <3> QED BY <1>5, <2>1, <3>1, Zenon DEF IInv, Answered
  <2>9. OnePlace' /\ InFlight'
    BY <1>5, <2>5, <2>8, Zenon DEF IInv, OnePlace, InFlight
  <2> QED BY <2>2, <2>3, <2>7, <2>8, <2>9, Zenon DEF IInv
<1>6. CASE Receive(r)
  <2>1. /\ pc[r] = "waiting" /\ chan[s] # NoReply /\ Return(r, chan[s].kind) /\ Release(s)
        /\ UNCHANGED <<genVars, opVars, cancelled, executed, late, lost>>
    BY <1>2, <1>6, Zenon DEF Receive
  <2>2. /\ chan[s].req = r /\ posted[r] = 0 /\ chan[s].kind \in {"result", "failed", "shutdown"}
        /\ chan[s].kind = "shutdown" => executed[r] = 0
    BY <1>3, <2>1, Zenon DEF IInv, Answered, TypeOK, PoolTypes, Replies
  <2>3. PICK n \in {0, 1} : posted' = [posted EXCEPT ![r] = n]
    <3>1. posted' = [posted EXCEPT ![r] =
                       IF r \in Streaming /\ chan[s].kind = "result" THEN @ ELSE @ + 1]
      BY <1>2, <1>6, <2>2, Zenon DEF Receive
    <3>2. CASE r \in Streaming /\ chan[s].kind = "result"
      BY <2>2, <3>1, <3>2, Zenon
    <3>3. CASE ~(r \in Streaming /\ chan[s].kind = "result")
      <4>1. posted' = [posted EXCEPT ![r] = posted[r] + 1]
        BY <3>1, <3>3, Zenon
      <4> QED BY <2>2, <4>1
    <3> QED BY <3>2, <3>3, Zenon
  <2>4. ~Enqueued(s)
    BY <2>1, Zenon DEF Enqueued
  <2>5. PICK o \in {"refused", "result", "failed", "shutdown"} : o = chan[s].kind
    BY <2>2, Zenon
  <2>6. Return(r, o) /\ (o \in {"refused", "shutdown"} => executed[r] = 0)
    BY <2>1, <2>2, <2>5, Zenon
  <2> HIDE DEF Return, Release
  <2> QED BY <1>1, <1>2, <2>1, <2>3, <2>4, <2>6, ReleaseStep, Zenon
<1> QED BY <1>2, <1>4, <1>5, <1>6, Zenon DEF GiveUp, QueueFull, Sending

\* Abandon: the message stays where it is, with an owner who has left.
LEMMA AbandonStep ==
    ASSUME IInv, NEW r \in Requests, Abandon(r) PROVE IInv'
<1> USE DEF lifeVars, workVars, genVars, shutVars, opVars, reqVars, poolVars, histVars
<1>0. TypeOK /\ Positions /\ Counts /\ pc[r] = "waiting"
  BY Zenon DEF IInv, Abandon
<1>1. Return(r, "cancelled") /\ UNCHANGED <<genVars, opVars, cancelled, poolVars, histVars>>
  BY Zenon DEF Abandon
<1>2. /\ pc'[r] = "done" /\ outcome'[r] = "cancelled" /\ Departed(r)'
      /\ \A q \in Requests \ {r} : /\ pc'[q] = pc[q] /\ slot'[q] = slot[q] /\ pq'[q] = pq[q]
                                   /\ outcome'[q] = outcome[q]
                                   /\ (Departed(q)' <=> Departed(q))
  BY <1>0, <1>1, Zenon DEF TypeOK, WorkTypes, LockTypes, ShutTypes, CallTypes, PoolTypes, HistTypes,
     Return, Departed
<1>3. TypeOK'
  BY TypesKept, <1>0, <1>1, Zenon DEF TypeOK, CallTypes, Return, Outcomes
<1>4. Positions'
  <2>1. op.req # r
    BY <1>0, ConstantFacts, Zenon DEF Positions
  <2>2. op.req # NoReq => op.req \in Requests
    BY <1>0, Zenon DEF TypeOK, LifeTypes, LockTypes
  <2> QED BY <1>0, <1>1, <1>2, <2>2, Zenon DEF Positions, Holding
<1>5. \A u : Buffered(u)' <=> Buffered(u)
  BY <1>1, Zenon DEF Buffered, Queued
<1>6. \A u \in Slots : Enqueued(u) => Enqueued(u)'
  BY <1>1, <1>2, Zenon DEF Enqueued
<1>7. Ownership'
  <2>1. \A u \in Slots : slotReq[u] # NoReq => slotReq[u] \in Requests
    BY <1>0, Zenon DEF TypeOK, PoolTypes
  <2>2. \A q \in Requests : pc'[q] \in Holding => q # r
    BY <1>2, Zenon DEF Holding
  <2> QED BY <1>1, <1>2, <2>1, <2>2, ZenonT(30) DEF IInv, Ownership
<1>8. NoDuplicates'
  BY <1>1, QueuesKept, Zenon DEF IInv, OnePlace
<1>9. Answered'
  BY <1>1, <1>2, Zenon DEF IInv, Answered, Before
<1>10. OnePlace'
  BY <1>1, <1>5, <1>8, Zenon DEF IInv, OnePlace
<1>11. InFlight'
  BY <1>1, <1>5, <1>6, Zenon DEF IInv, InFlight, OnePlace
<1>12. Counts'
  BY <1>0, <1>1, <1>2, Zenon DEF Counts, Before
<1> QED BY <1>3, <1>4, <1>7, <1>9, <1>10, <1>11, <1>12, Zenon DEF IInv

\* A message in flight leaves the place it was in, answered or not: whoever had it
\* replies, bills the call, or panics.
LEMMA FinishStep ==
    ASSUME IInv, TypeOK', Positions', NoDuplicates', NEW s \in Slots, Enqueued(s),
           UNCHANGED <<pc, slot, outcome, slotReq, executed>>,
           \A u \in Slots \ {s} : chan'[u] = chan[u],
           \/ chan'[s] = NoReply
           \/ /\ chan'[s].req = slotReq[s]
              /\ chan'[s].kind = "shutdown" => executed[slotReq[s]] = 0
              /\ UNCHANGED posted,
           posted'[slotReq[s]] \in {0, 1},
           \A q \in Requests \ {slotReq[s]} : posted'[q] = posted[q],
           \A u : Buffered(u)' => Buffered(u) /\ u # s,
           op'.msg # NoSlot => op'.msg = op.msg /\ op'.msg # s,
           \A w \in Workers : wst'[w] = "busy" =>
               wst[w] = "busy" /\ wslot'[w] = wslot[w] /\ wreq'[w] = wreq[w] /\ wslot[w] # s
    PROVE  IInv'
<1>0. TypeOK /\ Counts /\ Ownership /\ slotReq[s] \in Requests /\ slotReq[s] # NoReq
  BY ConstantFacts, Zenon DEF IInv, Enqueued
<1>1. \A u \in Slots \ {s} : slotReq[u] # slotReq[s]
  BY <1>0, OwnerFacts, Zenon
<1>2. \A u \in Slots \ {s} : Enqueued(u) => Enqueued(u)'
  BY <1>1, Zenon DEF Enqueued, Departed
<1>3. pc[slotReq[s]] \notin Before
  BY Zenon DEF Enqueued, Departed, Before
<1>4. Ownership'
  BY Zenon DEF IInv, Ownership, Departed
<1>5. OnePlace'
  <2>1. op'.msg # NoSlot => ~Buffered(op.msg)'
    BY Zenon DEF IInv, OnePlace
  <2>2. ASSUME NEW w \in Workers, wst'[w] = "busy"
        PROVE  /\ wslot'[w] \in Slots /\ wslot'[w] # op'.msg /\ ~Buffered(wslot[w])'
               /\ \A v \in Workers : wst'[v] = "busy" /\ wslot'[v] = wslot'[w] => v = w
    <3>1. /\ wst[w] = "busy" /\ wslot'[w] = wslot[w] /\ wslot[w] \in Slots
          /\ wslot[w] # op.msg /\ ~Buffered(wslot[w])
          /\ \A v \in Workers : wst[v] = "busy" /\ wslot[v] = wslot[w] => v = w
      BY <2>2, Zenon DEF IInv, OnePlace
    <3>2. wslot'[w] # op'.msg
      BY <3>1, ConstantFacts, Zenon
    <3>3. ~Buffered(wslot[w])'
      BY <3>1, Zenon
    <3> QED BY <2>2, <3>1, <3>2, <3>3, Zenon
  <2> QED BY <2>1, <2>2, Zenon DEF OnePlace
<1>6. InFlight'
  <2>1. \A u \in Slots : (Buffered(u) \/ u = op.msg)' =>
            u # s /\ (Buffered(u) \/ u = op.msg)
    BY ConstantFacts, Zenon
  <2>2. \A u \in Slots : (Buffered(u) \/ u = op.msg)' => Enqueued(u)' /\ executed[slotReq[u]] = 0
    BY <1>2, <2>1, Zenon DEF IInv, InFlight
  <2>3. \A w \in Workers : wst'[w] = "busy" =>
          /\ wslot'[w] = wslot[w] /\ wslot[w] \in Slots \ {s} /\ Enqueued(wslot[w])
          /\ wreq'[w] = wreq[w] /\ wreq[w] = slotReq[wslot[w]] /\ executed[wreq[w]] = 1
    BY Zenon DEF IInv, InFlight, OnePlace
  <2>4. \A w \in Workers : wst'[w] = "busy" => Enqueued(wslot[w])'
    BY <1>2, <2>3, Zenon
  <2>5. UNCHANGED slotReq /\ UNCHANGED executed
    BY Zenon
  <2>6. \A w \in Workers : wst'[w] = "busy" =>
          /\ Enqueued(wslot[w])' /\ wreq'[w] = slotReq'[wslot'[w]] /\ executed'[wreq'[w]] = 1
    BY <2>3, <2>4, <2>5, Zenon
  <2>7. \A u \in Slots : (Buffered(u) \/ u = op.msg)' => Enqueued(u)' /\ executed'[slotReq'[u]] = 0
    BY <2>2, <2>5, Zenon
  <2> QED BY <2>6, <2>7, Zenon DEF InFlight
<1>7. Answered'
  <2>1. ASSUME NEW u \in Slots, chan'[u] # NoReply
        PROVE  /\ chan'[u].req = slotReq[u] /\ chan'[u].req \in Requests
               /\ posted'[chan'[u].req] = 0 /\ pc[chan'[u].req] \notin Before
               /\ chan'[u].kind = "shutdown" => executed[chan'[u].req] = 0
    <3>1. CASE u = s
      BY <1>3, <2>1, <3>1, Zenon DEF Enqueued
    <3>2. CASE u # s
      <4>1. chan'[u] = chan[u] /\ chan[u].req = slotReq[u] /\ chan[u].req # slotReq[s]
        <5>1. chan'[u] = chan[u] /\ chan[u] # NoReply
          BY <2>1, <3>2, Zenon
        <5>2. chan[u].req = slotReq[u]
          BY <5>1, Zenon DEF IInv, Answered
        <5> QED BY <1>1, <3>2, <5>1, <5>2, Zenon
      <4>2. posted'[chan[u].req] = posted[chan[u].req]
        BY <2>1, <4>1, Zenon DEF IInv, Answered
      <4> QED BY <2>1, <4>1, <4>2, Zenon DEF IInv, Answered
    <3> QED BY <3>1, <3>2, Zenon
  <2> QED BY <2>1, Zenon DEF Answered
<1>8. Counts'
  <2>1. UNCHANGED pc /\ UNCHANGED outcome /\ UNCHANGED executed
    BY Zenon
  <2>2. PICK r \in Requests : r = slotReq[s]
    BY <1>0, Zenon
  <2>3. /\ executed[r] \in {0, 1} /\ pc[r] # "done" => outcome[r] = "none"
        /\ outcome[r] \in {"refused", "shutdown", "error"} => executed[r] = 0
        /\ posted'[r] \in {0, 1} /\ pc[r] \notin Before
    BY <1>0, <1>3, <2>2, Zenon DEF Counts
  <2>4. \A q \in Requests \ {r} : posted'[q] = posted[q]
    BY <2>2, Zenon
  <2>5. /\ executed'[r] \in {0, 1} /\ pc'[r] # "done" => outcome'[r] = "none"
        /\ outcome'[r] \in {"refused", "shutdown", "error"} => executed'[r] = 0
        /\ posted'[r] \in {0, 1} /\ (pc'[r] \in Before => executed'[r] = 0 /\ posted'[r] = 0)
    BY <2>1, <2>3, Zenon
  <2>6. \A q \in Requests \ {r} : /\ pc'[q] = pc[q] /\ outcome'[q] = outcome[q]
                                  /\ executed'[q] = executed[q] /\ posted'[q] = posted[q]
    BY <2>1, <2>4, Zenon
  <2> QED BY <1>0, <2>5, <2>6 DEF Counts
<1> QED BY <1>4, <1>5, <1>6, <1>7, <1>8, Zenon DEF IInv

\* What Fail does to the reply channels.
LEMMA FailFacts ==
    ASSUME TypeOK, NEW s \in Slots, Enqueued(s), Fail(s)
    PROVE  /\ chan' \in [Slots -> Replies]
           /\ \A u \in Slots \ {s} : chan'[u] = chan[u]
           /\ \/ chan'[s] = NoReply
              \/ chan'[s].req = slotReq[s] /\ chan'[s].kind = "shutdown"
<1>1. CASE chan' = [chan EXCEPT ![s] = Reply(slotReq[s], "shutdown")]
  BY <1>1, Zenon DEF TypeOK, PoolTypes, Enqueued, Reply, Replies
<1>2. CASE UNCHANGED chan
  BY <1>2, Zenon DEF TypeOK, PoolTypes, Enqueued
<1> QED BY <1>1, <1>2, Zenon DEF Fail

\* Whoever drains a queue.
LEMMA FailHeadStep ==
    ASSUME IInv, NEW g \in Gens, FailHead(g), UNCHANGED opVars PROVE IInv'
<1> USE DEF lifeVars, workVars, shutVars, opVars, reqVars, histVars
<1>0. TypeOK /\ Positions /\ NoDuplicates
  BY Zenon DEF IInv, OnePlace
<1>1. /\ queue[g] # << >> /\ queue' = [queue EXCEPT ![g] = Tail(@)]
      /\ Fail(Head(queue[g]))
      /\ UNCHANGED <<lifeVars, workVars, reqVars, slotReq, histVars>>
  BY Zenon DEF FailHead
<1>2. /\ queue' \in [Gens -> Seq(Slots)]
      /\ Head(queue[g]) \in Slots /\ Buffered(Head(queue[g]))
      /\ NoDuplicates'
      /\ \A u : Buffered(u)' <=> Buffered(u) /\ u # Head(queue[g])
  BY <1>0, <1>1, TakeHead, Zenon
<1>3. PICK s \in Slots : s = Head(queue[g])
  BY <1>2, Zenon
<1>4. /\ Buffered(s) /\ Enqueued(s) /\ executed[slotReq[s]] = 0 /\ s # op.msg
      /\ \A w \in Workers : wst[w] = "busy" => wslot[w] # s
  <2>1. Buffered(s)
    BY <1>2, <1>3, Zenon
  <2>2. Enqueued(s) /\ executed[slotReq[s]] = 0
    BY <2>1, Zenon DEF IInv, InFlight
  <2>3. s # op.msg
    BY <2>1, ConstantFacts, Zenon DEF IInv, OnePlace
  <2>4. \A w \in Workers : wst[w] = "busy" => wslot[w] # s
    BY <2>1, Zenon DEF IInv, OnePlace
  <2> QED BY <2>1, <2>2, <2>3, <2>4, Zenon
<1>5. Fail(s) /\ \A u : Buffered(u)' <=> Buffered(u) /\ u # s
  BY <1>1, <1>2, <1>3, Zenon
<1>6. /\ chan' \in [Slots -> Replies]
      /\ \A u \in Slots \ {s} : chan'[u] = chan[u]
      /\ chan'[s] = NoReply \/ (chan'[s].req = slotReq[s] /\ chan'[s].kind = "shutdown")
  BY <1>0, <1>4, <1>5, FailFacts, Zenon
<1>7. TypeOK'
  BY TypesKept, <1>0, <1>1, <1>6 DEF TypeOK, PoolTypes
<1>8. Positions'
  BY <1>0, <1>1, Zenon DEF Positions
<1>9. posted'[slotReq[s]] \in {0, 1} /\ UNCHANGED posted
  BY <1>1, <1>4, Zenon DEF Enqueued
<1> QED BY <1>1, <1>2, <1>4, <1>5, <1>6, <1>7, <1>8, <1>9, FinishStep, Zenon

\* UpdateProvider fails the message it holds.
LEMMA TransferFailStep == ASSUME IInv, TransferFail PROVE IInv'
<1> USE DEF lifeVars, workVars, genVars, shutVars, opVars, reqVars, histVars
<1>0. TypeOK /\ Positions /\ NoDuplicates
  BY Zenon DEF IInv, OnePlace
<1>1. /\ op.msg # NoSlot /\ Fail(op.msg)
      /\ op' = [op EXCEPT !.kind = "failRest", !.msg = NoSlot]
      /\ UNCHANGED <<genVars, shutVars, reqVars, slotReq, histVars>>
  BY Zenon DEF TransferFail
<1>2. PICK s \in Slots : s = op.msg
  BY <1>0, <1>1, Zenon DEF TypeOK, LockTypes
<1>3. /\ Enqueued(s) /\ executed[slotReq[s]] = 0 /\ ~Buffered(s)
      /\ \A w \in Workers : wst[w] = "busy" => wslot[w] # s
  BY <1>1, <1>2, Zenon DEF IInv, InFlight, OnePlace
<1>4. /\ chan' \in [Slots -> Replies]
      /\ \A u \in Slots \ {s} : chan'[u] = chan[u]
      /\ chan'[s] = NoReply \/ (chan'[s].req = slotReq[s] /\ chan'[s].kind = "shutdown")
  BY <1>0, <1>1, <1>2, <1>3, FailFacts, Zenon
<1>5. op'.msg = NoSlot /\ op'.kind = "failRest" /\ op'.gen = op.gen /\ op'.req = op.req
      /\ op.kind \in {"transfer", "failRest"}
  BY <1>0, <1>1 DEF Positions
<1>6. TypeOK'
  BY TypesKept, <1>0, <1>1, <1>4, Zenon DEF TypeOK, LockTypes, PoolTypes, OpKinds
<1>7. Positions'
  BY <1>0, <1>1 DEF Positions
<1>8. NoDuplicates' /\ \A u : Buffered(u)' <=> Buffered(u)
  BY <1>0, <1>1, QueuesKept, Zenon
<1>9. \A u : Buffered(u)' => Buffered(u) /\ u # s
  BY <1>3, <1>8, Zenon
<1>10. posted'[slotReq[s]] \in {0, 1} /\ UNCHANGED posted
  BY <1>1, <1>3, Zenon DEF Enqueued
<1> QED BY <1>1, <1>3, <1>4, <1>6, <1>7, <1>8, <1>10, FinishStep

\* A worker is done with its message.
LEMMA WorkerStep ==
    ASSUME IInv, NEW w \in Workers, SendReply(w) \/ BillAbandoned(w) \/ Panic(w) PROVE IInv'
<1> USE DEF lifeVars, workVars, shutVars, opVars, reqVars, poolVars, histVars
<1>0. TypeOK /\ Positions /\ NoDuplicates /\ wst[w] = "busy"
  BY Zenon DEF IInv, OnePlace, SendReply, BillAbandoned, Panic
<1>1. wslot[w] \in Slots
  BY <1>0, Zenon DEF IInv, OnePlace
<1>2. PICK s \in Slots : s = wslot[w]
  BY <1>1, Zenon
<1>3. /\ Enqueued(s) /\ ~Buffered(s) /\ s # op.msg
      /\ \A v \in Workers : wst[v] = "busy" /\ wslot[v] = s => v = w
      /\ wreq[w] = slotReq[s] /\ wreq[w] \in Requests
  BY <1>0, <1>2, Zenon DEF IInv, InFlight, OnePlace, Enqueued
<1>4. PICK st \in {"idle", "exited"} : wst' = [wst EXCEPT ![w] = st]
  BY Zenon DEF SendReply, BillAbandoned, Panic, AfterPanic
<1>5. LetGo(w) /\ UNCHANGED <<lifeVars, queue, opVars, reqVars, slotReq, executed, late>>
  BY Zenon DEF SendReply, BillAbandoned, Panic
<1>6. NoDuplicates' /\ \A u : Buffered(u)' <=> Buffered(u)
  BY <1>0, <1>5, QueuesKept, Zenon
<1>7. \A v \in Workers : wst'[v] = "busy" =>
        wst[v] = "busy" /\ wslot'[v] = wslot[v] /\ wreq'[v] = wreq[v] /\ wslot[v] # s
  BY <1>0, <1>3, <1>4, <1>5, Zenon DEF TypeOK, WorkTypes, LetGo
<1>8. Positions'
  <2>1. wst[w] # "none" /\ \A v \in Workers : wst[v] = "none" => wst'[v] = "none"
    BY <1>0, <1>4
  <2> QED BY <1>0, <1>5, <2>1, Zenon DEF Positions
<1>9. /\ wst' \in [Workers -> LiveStates \cup {"none", "exited"}]
      /\ wslot' \in [Workers -> Slots \cup {NoSlot}]
      /\ wreq' \in [Workers -> Requests \cup {NoReq}]
  BY <1>0, <1>4, <1>5, Zenon DEF TypeOK, WorkTypes, LetGo, LiveStates
<1>10. CASE SendReply(w)
  <2>1. PICK k \in {"result", "failed"} : chan' = [chan EXCEPT ![s] = Reply(slotReq[s], k)]
    BY <1>2, <1>3, <1>10, Zenon DEF SendReply
  <2>2. /\ chan'[s] = Reply(slotReq[s], k) /\ \A u \in Slots \ {s} : chan'[u] = chan[u]
        /\ chan' \in [Slots -> Replies]
    BY <1>0, <1>3, <2>1, Zenon DEF TypeOK, PoolTypes, Replies, Reply
  <2>3. UNCHANGED <<posted, lost>>
    BY <1>10, Zenon DEF SendReply
  <2>4. TypeOK'
    BY TypesKept, <1>0, <1>5, <1>9, <2>2, <2>3, Zenon DEF TypeOK, WorkTypes, PoolTypes
  <2>5. posted'[slotReq[s]] \in {0, 1}
    BY <1>3, <2>3, Zenon DEF Enqueued
  <2>6. chan'[s].req = slotReq[s] /\ chan'[s].kind # "shutdown"
    BY <2>2 DEF Reply
  <2> QED BY <1>3, <1>5, <1>6, <1>7, <1>8, <2>2, <2>3, <2>4, <2>5, <2>6, FinishStep, Zenon
<1>11. CASE BillAbandoned(w)
  <2>1. UNCHANGED <<chan, lost>>
    BY <1>11, Zenon DEF BillAbandoned
  <2>2. PICK n \in {0, 1} : posted' = [posted EXCEPT ![slotReq[s]] = n]
    <3>1. posted' = [posted EXCEPT ![slotReq[s]] =
                        IF slotReq[s] \in Streaming THEN 0 ELSE 1]
      <4>1. posted[slotReq[s]] = 0
        BY <1>3, Zenon DEF Enqueued
      <4>2. posted' = [posted EXCEPT ![slotReq[s]] =
                        IF slotReq[s] \in Streaming THEN @ ELSE @ + 1]
        BY <1>3, <1>11, Zenon DEF BillAbandoned
      <4> QED BY <4>1, <4>2
    <3> QED BY <3>1, Zenon
  <2>3. posted' \in [Requests -> Nat] /\ posted'[slotReq[s]] \in {0, 1}
        /\ \A q \in Requests \ {slotReq[s]} : posted'[q] = posted[q]
    BY <1>0, <1>3, <2>2 DEF TypeOK, HistTypes
  <2>4. TypeOK'
    BY TypesKept, <1>0, <1>5, <1>9, <2>1, <2>3, Zenon DEF TypeOK, WorkTypes, PoolTypes, HistTypes
  <2>5. chan'[s] = NoReply
    BY <1>3, <2>1, Zenon DEF Enqueued
  <2> QED BY <1>3, <1>5, <1>6, <1>7, <1>8, <2>1, <2>3, <2>4, <2>5, FinishStep, Zenon
<1>12. CASE Panic(w)
  <2>1. UNCHANGED <<chan, posted>> /\ lost' = lost \cup {wreq[w]}
    BY <1>12, Zenon DEF Panic
  <2>2. TypeOK'
    BY TypesKept, <1>0, <1>3, <1>5, <1>9, <2>1, Zenon DEF TypeOK, WorkTypes, PoolTypes, HistTypes
  <2>3. chan'[s] = NoReply /\ posted'[slotReq[s]] \in {0, 1}
    BY <1>3, <2>1, Zenon DEF Enqueued
  <2> QED BY <1>3, <1>5, <1>6, <1>7, <1>8, <2>1, <2>2, <2>3, FinishStep, Zenon
<1> QED BY <1>10, <1>11, <1>12, Zenon

\* A worker takes a message.
LEMMA DequeueStep == ASSUME IInv, NEW w \in Workers, Dequeue(w) PROVE IInv'
<1> USE DEF lifeVars, workVars, shutVars, opVars, reqVars, poolVars, histVars
<1> DEFINE g == w[1]
<1>0. TypeOK /\ Positions /\ NoDuplicates /\ Counts /\ Ownership /\ g \in Gens
  BY ConstantFacts, Zenon DEF IInv, OnePlace
<1>1. /\ wst[w] = "idle" /\ queue[g] # << >>
      /\ queue' = [queue EXCEPT ![g] = Tail(@)]
      /\ UNCHANGED <<lifeVars, opVars, reqVars, poolVars, posted, late, lost>>
  BY Zenon DEF Dequeue
<1>2. /\ queue' \in [Gens -> Seq(Slots)]
      /\ Head(queue[g]) \in Slots /\ Buffered(Head(queue[g]))
      /\ NoDuplicates'
      /\ \A u : Buffered(u)' <=> Buffered(u) /\ u # Head(queue[g])
  BY <1>0, <1>1, TakeHead, Zenon
<1>3. PICK s \in Slots : s = Head(queue[g])
  BY <1>2, Zenon
<1>4. \A u : Buffered(u)' <=> Buffered(u) /\ u # s
  BY <1>2, <1>3, Zenon
<1>5. /\ wst' = [wst EXCEPT ![w] = "busy"]
      /\ wslot' = [wslot EXCEPT ![w] = s]
      /\ wreq' = [wreq EXCEPT ![w] = slotReq[s]]
      /\ executed' = [executed EXCEPT ![slotReq[s]] = @ + 1]
  BY <1>3, Zenon DEF Dequeue
<1> HIDE DEF g
<1>6. /\ Buffered(s) /\ Enqueued(s) /\ executed[slotReq[s]] = 0 /\ s # op.msg
      /\ \A v \in Workers : wst[v] = "busy" => wslot[v] # s
      /\ slotReq[s] \in Requests /\ slotReq[s] # NoReq
  <2>1. Buffered(s)
    BY <1>2, <1>3, Zenon
  <2>2. Enqueued(s) /\ executed[slotReq[s]] = 0
    BY <2>1, Zenon DEF IInv, InFlight
  <2>3. s # op.msg
    BY <2>1, ConstantFacts, Zenon DEF IInv, OnePlace
  <2>4. \A v \in Workers : wst[v] = "busy" => wslot[v] # s
    BY <2>1, Zenon DEF IInv, OnePlace
  <2> QED BY <2>1, <2>2, <2>3, <2>4, ConstantFacts, Zenon DEF Enqueued
<1>7. /\ wst'[w] = "busy" /\ wslot'[w] = s /\ wreq'[w] = slotReq[s]
      /\ \A v \in Workers \ {w} : wst'[v] = wst[v] /\ wslot'[v] = wslot[v] /\ wreq'[v] = wreq[v]
      /\ executed'[slotReq[s]] = 1
      /\ \A q \in Requests \ {slotReq[s]} : executed'[q] = executed[q]
  BY <1>0, <1>5, <1>6 DEF TypeOK, WorkTypes, PoolTypes, HistTypes
<1>8. TypeOK'
  <2>1. WorkTypes'
    BY <1>0, <1>5, <1>6, Zenon DEF TypeOK, WorkTypes, LiveStates
  <2>2. executed' \in [Requests -> Nat]
    <3>1. executed' = [executed EXCEPT ![slotReq[s]] = 1]
      BY <1>5, <1>6
    <3> QED BY <1>0, <3>1, Zenon DEF TypeOK, HistTypes
  <2>3. HistTypes'
    BY <1>0, <1>1, <2>2, Zenon DEF TypeOK, HistTypes
  <2> QED BY TypesKept, <1>0, <1>1, <1>2, <2>1, <2>3, Zenon DEF TypeOK
<1>9. Positions'
  <2>1. wst[w] # "none" /\ \A v \in Workers : wst[v] = "none" => wst'[v] = "none"
    BY <1>1, <1>7, Zenon
  <2> QED BY <1>0, <1>1, <2>1, Zenon DEF Positions
<1>10. Ownership'
  BY <1>0, <1>1, Zenon DEF Ownership, Departed
<1>11. OnePlace'
  <2>1. \A v \in Workers : wst'[v] = "busy" =>
           /\ wslot'[v] \in Slots /\ wslot'[v] # op.msg
           /\ Buffered(wslot'[v]) => wslot'[v] = s
           /\ \A x \in Workers : wst'[x] = "busy" /\ wslot'[x] = wslot'[v] => x = v
    <3>1. \A v \in Workers : wst[v] = "busy" =>
             /\ wslot[v] \in Slots /\ wslot[v] # op.msg /\ ~Buffered(wslot[v])
             /\ \A x \in Workers : wst[x] = "busy" /\ wslot[x] = wslot[v] => x = v
      BY Zenon DEF IInv, OnePlace
    <3> SUFFICES ASSUME NEW v \in Workers, wst'[v] = "busy"
                 PROVE  /\ wslot'[v] \in Slots /\ wslot'[v] # op.msg
                        /\ Buffered(wslot'[v]) => wslot'[v] = s
                        /\ \A x \in Workers : wst'[x] = "busy" /\ wslot'[x] = wslot'[v] => x = v
      BY Zenon
    <3>2. CASE v = w
      BY <1>6, <1>7, <3>2
    <3>3. CASE v # w
      BY <1>6, <1>7, <3>1, <3>3
    <3> QED BY <3>2, <3>3, Zenon
  <2>2. UNCHANGED op
    BY <1>1, Zenon
  <2>3. \A v \in Workers : wst'[v] = "busy" => ~(\E h \in Gens : Queued(wslot[v], h))'
    BY <1>4, <2>1, Zenon DEF Buffered, Queued
  <2>4. op.msg # NoSlot => ~Buffered(op.msg)
    BY Zenon DEF IInv, OnePlace
  <2>5. (op.msg # NoSlot => ~Buffered(op.msg))'
    BY <1>4, <2>2, <2>4, Zenon
  <2> QED BY <1>2, <2>1, <2>2, <2>3, <2>5, Zenon DEF OnePlace, Buffered
<1>12. \A u \in Slots : Enqueued(u) => Enqueued(u)'
  BY <1>1, Zenon DEF Enqueued, Departed
<1>13. \A u \in Slots \ {s} : slotReq[u] # slotReq[s]
  BY <1>0, <1>6, OwnerFacts, Zenon
<1>14. InFlight'
  <2>1. ASSUME NEW u \in Slots, (Buffered(u) \/ u = op.msg)'
        PROVE  (Enqueued(u) /\ executed[slotReq[u]] = 0)'
    <3>1. u # s /\ (Buffered(u) \/ u = op.msg)
      BY <1>1, <1>4, <1>6, <2>1, Zenon
    <3>2. Enqueued(u) /\ executed[slotReq[u]] = 0
      BY <3>1, Zenon DEF IInv, InFlight
    <3> QED BY <1>1, <1>7, <1>12, <1>13, <3>1, <3>2, Zenon DEF Enqueued
  <2>2. ASSUME NEW v \in Workers, wst'[v] = "busy"
        PROVE  (Enqueued(wslot[v]) /\ wreq[v] = slotReq[wslot[v]] /\ executed[wreq[v]] = 1)'
    <3>1. CASE v = w
      BY <1>1, <1>6, <1>7, <1>12, <3>1, Zenon
    <3>2. CASE v # w
      <4>1. wst[v] = "busy" /\ wslot'[v] = wslot[v] /\ wreq'[v] = wreq[v]
        BY <1>7, <2>2, <3>2, Zenon
      <4>2. /\ wslot[v] \in Slots \ {s} /\ Enqueued(wslot[v])
            /\ wreq[v] = slotReq[wslot[v]] /\ executed[wreq[v]] = 1
        BY <1>6, <4>1, Zenon DEF IInv, InFlight, OnePlace
      <4>3. wreq[v] \in Requests \ {slotReq[s]}
        BY <1>13, <4>2, Zenon DEF Enqueued
      <4>4. PICK u \in Slots : u = wslot[v]
        BY <4>2, Zenon
      <4> QED BY <1>1, <1>7, <1>12, <4>1, <4>2, <4>3, <4>4, Zenon
    <3> QED BY <3>1, <3>2, Zenon
  <2> QED BY <2>1, <2>2, Zenon DEF InFlight
<1>15. Answered'
  <2>1. \A u \in Slots : chan[u] # NoReply => u # s
    BY <1>6, Zenon DEF Enqueued
  <2>2. \A u \in Slots : chan[u] # NoReply => chan[u].req \in Requests \ {slotReq[s]}
    BY <1>13, <2>1, Zenon DEF IInv, Answered
  <2> QED BY <1>1, <1>7, <2>2, Zenon DEF IInv, Answered
<1>16. Counts'
  <2>1. pc[slotReq[s]] \notin Before
        /\ outcome[slotReq[s]] \notin {"refused", "shutdown", "error"}
    BY <1>0, <1>6, Zenon DEF Enqueued, Departed, Before, Counts
  <2> QED BY <1>0, <1>1, <1>7, <2>1, Zenon DEF Counts
<1> QED BY <1>8, <1>9, <1>10, <1>11, <1>14, <1>15, <1>16, Zenon DEF IInv

\* UpdateProvider moves a message between a queue and its hands.
LEMMA TransferStep == ASSUME IInv, TransferTake \/ TransferPut PROVE IInv'
<1> USE DEF lifeVars, workVars, shutVars, opVars, reqVars, poolVars, histVars
<1>0. TypeOK /\ Positions /\ NoDuplicates /\ Counts /\ Ownership
  BY Zenon DEF IInv, OnePlace
<1>1. /\ UNCHANGED <<lifeVars, workVars, shutVars, reqVars, poolVars, histVars>>
      /\ op.kind \in {"transfer", "failRest"} /\ op.gen \in Gens /\ current \in Gens
  BY <1>0, Zenon DEF TransferTake, TransferPut, Positions
<1>2. PICK s \in Slots :
        /\ op'.msg \in {s, NoSlot}
        /\ op' = [op EXCEPT !.msg = op'.msg]
        /\ queue' \in [Gens -> Seq(Slots)] /\ NoDuplicates'
        /\ \A u \in Slots : (Buffered(u) \/ u = op.msg)' <=> (Buffered(u) \/ u = op.msg)
        /\ op'.msg = s => ~Buffered(s)'
        /\ Buffered(s) \/ op.msg = s
  <2>1. CASE TransferTake
    <3> DEFINE g == op.gen
    <3>1. /\ op.msg = NoSlot /\ queue[g] # << >>
          /\ queue' = [queue EXCEPT ![g] = Tail(@)]
          /\ op' = [op EXCEPT !.msg = Head(queue[g])]
      BY <2>1, Zenon DEF TransferTake
    <3>2. /\ queue' \in [Gens -> Seq(Slots)]
          /\ Head(queue[g]) \in Slots /\ Buffered(Head(queue[g]))
          /\ NoDuplicates'
          /\ \A u : Buffered(u)' <=> Buffered(u) /\ u # Head(queue[g])
      BY <1>0, <1>1, <3>1, TakeHead, Zenon
    <3>3. PICK s \in Slots : s = Head(queue[g])
      BY <3>2, Zenon
    <3>4. op'.msg = s
      BY <3>1, <3>3
    <3> HIDE DEF g
    <3> QED BY <3>1, <3>2, ConstantFacts
  <2>2. CASE TransferPut
    <3>1. PICK s \in Slots : s = op.msg
      BY <1>0, <2>2, Zenon DEF TransferPut, TypeOK, LockTypes, CallTypes
    <3>2. /\ queue' = [queue EXCEPT ![current] = Append(@, s)]
          /\ op' = [op EXCEPT !.msg = NoSlot] /\ ~Buffered(s)
      BY <2>2, <3>1, Zenon DEF TransferPut, IInv, OnePlace
    <3>3. /\ queue' \in [Gens -> Seq(Slots)]
          /\ NoDuplicates'
          /\ \A u : Buffered(u)' <=> Buffered(u) \/ u = s
      BY <1>0, <1>1, <3>2, AddLast, Zenon
    <3>4. op'.msg = NoSlot
      BY <3>2
    <3> QED BY <3>1, <3>2, <3>3, <3>4, ConstantFacts, Zenon
  <2> QED BY <2>1, <2>2, Zenon
<1>3. op'.kind = op.kind /\ op'.gen = op.gen /\ op'.req = op.req
  BY <1>0, <1>2, Zenon DEF TypeOK, LockTypes
<1>4. TypeOK'
  BY TypesKept, <1>0, <1>1, <1>2, Zenon DEF TypeOK, LockTypes, ShutTypes, HistTypes
<1>5. Positions'
  BY <1>0, <1>1, <1>3, Zenon DEF Positions
<1>6. Ownership' /\ Counts' /\ Answered'
  BY <1>1, Zenon DEF IInv, Ownership, Counts, Answered, Departed
<1>7. \A u \in Slots : Enqueued(u)' <=> Enqueued(u)
  BY <1>1, Zenon DEF Enqueued, Departed
<1>8. \A v \in Workers : wst[v] = "busy" =>
        /\ wslot[v] \in Slots /\ wslot[v] # s
        /\ ~(Buffered(wslot[v]) \/ wslot[v] = op.msg)
        /\ \A x \in Workers : wst[x] = "busy" /\ wslot[x] = wslot[v] => x = v
  BY <1>2, Zenon DEF IInv, OnePlace
<1>9. OnePlace'
  <2>1. \A u \in Slots : ~(Buffered(u) \/ u = op.msg) => ~Buffered(u)' /\ u # op'.msg
    BY <1>2, Zenon
  <2>2. ASSUME NEW v \in Workers, wst'[v] = "busy"
        PROVE  (/\ wslot[v] \in Slots
                /\ wslot[v] # op.msg /\ ~Buffered(wslot[v])
                /\ \A x \in Workers : wst[x] = "busy" /\ wslot[x] = wslot[v] => x = v)'
    <3>1. PICK u \in Slots : u = wslot[v] /\ u = wslot'[v]
      BY <1>1, <1>8, <2>2, Zenon
    <3>2. ~Buffered(u)' /\ u # op'.msg
      BY <1>1, <1>8, <2>1, <2>2, <3>1, Zenon
    <3> QED BY <1>1, <1>8, <2>2, <3>1, <3>2, Zenon
  <2>3. (op.msg # NoSlot => ~Buffered(op.msg))'
    BY <1>2, Zenon
  <2> QED BY <1>2, <2>2, Zenon DEF OnePlace
<1>10. InFlight'
  <2>1. \A v \in Workers : wst[v] = "busy" => (Enqueued(wslot[v]) <=> Enqueued(wslot[v])')
    BY <1>1, Zenon DEF Enqueued, Departed
  <2> QED BY <1>1, <1>2, <1>7, <2>1, Zenon DEF IInv, InFlight
<1> QED BY <1>4, <1>5, <1>6, <1>9, <1>10, Zenon DEF IInv
-----------------------------------------------------------------------------
\* Every step keeps the invariant.
LEMMA NextIInv == IInv /\ [Next]_vars => IInv'
<1> SUFFICES ASSUME IInv, [Next]_vars PROVE IInv'
  BY Zenon
<1>0. TypeOK /\ Positions
  BY Zenon DEF IInv
<1>1. ASSUME NEW r \in Requests, Caller(r) \/ Cancel(r) PROVE IInv'
  BY <1>1, CallerQuiet, CheckClosingStep, EnqueueStep, GiveUpStep, AbandonStep, CancelQuiet, Zenon
     DEF Caller
<1>2. ASSUME NEW w \in Workers, Worker(w) \/ Panic(w) PROVE IInv'
  <2>1. CASE DrainOne(w)
    BY <2>1, ConstantFacts, FailHeadStep, Zenon DEF DrainOne
  <2> QED BY <1>2, <2>1, DequeueStep, WorkerStep, WorkerQuiet, Zenon DEF Worker
<1>3. ASSUME NEW g \in Gens, Cleanup(g) PROVE IInv'
  <2>1. CASE CleanupDrainOne(g)
    BY <2>1, FailHeadStep, Zenon DEF CleanupDrainOne
  <2> QED BY <1>3, <2>1, CleanupQuiet, Zenon DEF Cleanup
<1>4. ASSUME Holder PROVE IInv'
  <2>1. CASE RemoveDrainOne
    <3>1. op.gen \in Gens
      BY <1>0, <2>1, Zenon DEF RemoveDrainOne, Positions
    <3> QED BY <2>1, <3>1, FailHeadStep, Zenon DEF RemoveDrainOne
  <2> QED BY <1>4, <2>1, PrepareQuiet, TransferStep, TransferFailStep, RemoveQuiet, Zenon DEF Holder
<1>5. ASSUME Shutdown PROVE IInv'
  <2>1. CASE ShutdownDrainOne
    <3>1. shutGen \in Gens
      BY <1>0, <2>1, Zenon DEF ShutdownDrainOne, TypeOK, ShutTypes
    <3> QED BY <2>1, <3>1, FailHeadStep, Zenon DEF ShutdownDrainOne
  <2> QED BY <1>5, <2>1, ShutdownQuiet, Zenon DEF Shutdown
<1>6. CASE UNCHANGED vars
  <2>1. TypeOK' /\ Positions'
    BY TypesKept, <1>0, <1>6, Zenon DEF vars, TypeOK, Positions, lifeVars, workVars, genVars,
       shutVars, opVars, reqVars
  <2> QED BY <1>6, <2>1, QuietStep, Zenon DEF vars, workVars, genVars, opVars, reqVars, poolVars,
             histVars
<1> QED
  BY <1>1, <1>2, <1>3, <1>4, <1>5, <1>6, UpdateBeginStep, PublishQuiet, RemoveQuiet,
     ShutdownQuiet, Zenon DEF Next

\* IInv is an invariant of the queue.
THEOREM Invariance == Spec => []IInv
<1> QED BY InitIInv, NextIInv, PTL DEF Spec

\* Every variable keeps its type; in particular a queue only ever buffers slots.
THEOREM TypeCorrect == Spec => []TypeOK
<1>1. IInv => TypeOK
  BY Zenon DEF IInv
<1> QED BY <1>1, Invariance, PTL

\* A waiting caller only ever finds the reply to its own request in the pooled
\* channels it holds, for any number of callers, workers and queue generations.
THEOREM RepliesAreIntact == Spec => []ReplyIntegrity
<1>1. ASSUME IInv PROVE ReplyIntegrity
  BY <1>1, Zenon DEF IInv, Ownership, Answered, ReplyIntegrity, Holding
<1> QED BY <1>1, Invariance, PTL

\* Whoever answers a message finds its reply channel empty, so the send never
\* waits for the caller and the worker's timeout branch is never taken.
THEOREM RepliesNeverBlock == Spec => []ReplyNeverBlocks
<1>1. ASSUME IInv PROVE ReplyNeverBlocks
  <2>1. \A s \in Slots : Buffered(s) \/ s = op.msg => chan[s] = NoReply
    BY <1>1, Zenon DEF IInv, InFlight, Enqueued
  <2>2. \A g \in Gens : \A i \in 1..Len(queue[g]) :
            queue[g][i] \in Slots /\ Buffered(queue[g][i])
    BY <1>1 DEF IInv, TypeOK, Buffered, Queued
  <2>3. op.msg # NoSlot => op.msg \in Slots
    BY <1>1, Zenon DEF IInv, TypeOK, LockTypes
  <2> QED BY <1>1, <2>2, <2>3, Zenon DEF IInv, InFlight, Enqueued, ReplyNeverBlocks
<1> QED BY <1>1, Invariance, PTL

\* No request is served twice, and none is served that its caller was told was
\* refused or failed by a shutdown.
THEOREM RequestsServedOnce == Spec => []ServedOnce
<1>1. ASSUME IInv PROVE ServedOnce
  <2>1. Counts
    BY <1>1, Zenon DEF IInv
  <2>2. \A n \in {0, 1} : n <= 1
    OBVIOUS
  <2> QED BY <2>1, <2>2, Zenon DEF Counts, ServedOnce
<1> QED BY <1>1, Invariance, PTL

\* The terminal post-hooks run at most once per call.
THEOREM PostHooksRunOnce == Spec => []PostHooksOnce
<1>1. ASSUME IInv PROVE PostHooksOnce
  <2>1. Counts
    BY <1>1, Zenon DEF IInv
  <2>2. \A n \in {0, 1} : n <= 1
    OBVIOUS
  <2> QED BY <2>1, <2>2, Zenon DEF Counts, PostHooksOnce
<1> QED BY <1>1, Invariance, PTL

\* Each request is served once, posted once and answered without waiting.
THEOREM RequestsHandledOnce == Spec => []HandledOnce
<1>1. TypeOK /\ ServedOnce /\ PostHooksOnce /\ ReplyNeverBlocks => HandledOnce
  BY Zenon DEF HandledOnce
<1> QED BY <1>1, TypeCorrect, RequestsServedOnce, PostHooksRunOnce, RepliesNeverBlock, PTL
-----------------------------------------------------------------------------
(***************************************************************************)
(* Which workers may still run, and who will drain a queue.                *)
(***************************************************************************)
Preparing == op.kind \in {"prepare", "updatePrepare"}
Moving == op.kind \in {"transfer", "failRest", "retire"}
Removing == op.kind \in {"removeWait", "removeDrain", "removeRetired"}

\* Nothing has happened yet to a generation that does not exist.
Unborn ==
    \A g \in Gens : g > born =>
        g # current /\ g # op.gen /\ cleanup[g] = "none" /\ ~closing[g]

\* Workers run for the current generation, for those being retired and for the one
\* UpdateProvider is replacing; none when the provider is out of the slice.
LifeInv ==
    /\ Unborn
    /\ Preparing \/ Removing => op.gen = current
    /\ Preparing => cleanup[op.gen] = "none"
    /\ current = NoGen => ~inSlice
    /\ ~inSlice => \A g \in Gens : ~Live(g)
    /\ \A g \in Gens : Live(g) => g = current \/ Retiring(g) \/ (Moving /\ op.gen = g)
    /\ \A g \in Gens : cleanup[g] \in {"draining", "done"} => ~Live(g)
    /\ op.kind \in {"removeDrain", "removeRetired"} => ~Live(op.gen)

\* What Shutdown still waits for covers every worker that ran when it signalled.
Awaited(g) ==
    \/ shut \in {"signalled", "waiting", "cleanups"} /\ Retiring(g)
    \/ shut = "signalled" /\ g = current
    \/ shut = "waiting" /\ g = shutGen
ShutInv ==
    /\ shut = "running" => shutLive = {}
    /\ shut # "running" => ~Updating
    /\ \A g \in shutLive : ~NeverStarted(g) /\ (Live(g) => Awaited(g))

\* Nothing is buffered in g but what was sent after it was signalled.
Clean(g) == \A r \in Requests : pc[r] = "waiting" /\ Queued(slot[r], g) => r \in late

\* An operation under way will drain g before it ends.
Swept(g) ==
    \/ Retiring(g)
    \/ op.gen = g /\ (Moving \/ op.kind \in {"removeWait", "removeDrain"})
    \/ shut \in {"signalled", "waiting", "cleanups"} /\ current = g
    \/ shut = "draining" /\ shutGen = g

\* A signalled queue is clean, will be swept or never had workers.
StrandInv ==
    /\ \A w \in Workers : wst[w] \in {"draining", "exited"} => closing[w[1]]
    /\ ~inSlice /\ current # NoGen => NeverStarted(current)
    /\ Moving => shut = "running" /\ current # NoGen /\ ~closing[current]
    /\ Removing => closing[op.gen]
    /\ op.kind = "removeRetired" => Clean(op.gen)
    /\ \A g \in Gens : closing[g] /\ ~Swept(g) /\ ~Clean(g) =>
          NeverStarted(g) /\ ~(Preparing /\ op.gen = g)

\* A step that starts no worker and none of the operations on the provider.
SameHolder == op'.gen = op.gen /\ (op'.kind = op.kind \/ (Moving /\ Moving'))
SameWorkers ==
    /\ \A g \in Gens : (Live(g)' => Live(g)) /\ (NeverStarted(g)' <=> NeverStarted(g))
    /\ \A w \in Workers : wst'[w] \in {"draining", "exited"} =>
          wst[w] \in {"draining", "exited"} \/ closing[w[1]]
StaysClean == \A g \in Gens : closing[g] /\ Clean(g) => Clean(g)'
Aside ==
    /\ UNCHANGED <<lifeVars, shutVars>>
    /\ SameHolder /\ SameWorkers /\ StaysClean

\* What such a step leaves alone.
LEMMA AsideFacts ==
    ASSUME Positions, Aside
    PROVE  /\ UNCHANGED born /\ UNCHANGED current /\ (inSlice' <=> inSlice)
           /\ UNCHANGED closing
           /\ UNCHANGED cleanup /\ op'.gen = op.gen
           /\ UNCHANGED shut /\ UNCHANGED shutGen /\ UNCHANGED shutLive
           /\ \A g \in Gens : (Live(g)' => Live(g)) /\ (NeverStarted(g)' <=> NeverStarted(g))
           /\ Preparing' <=> Preparing
           /\ Removing' <=> Removing
           /\ Moving' <=> Moving
           /\ op'.kind \in {"removeDrain", "removeRetired"} =>
                /\ op'.kind = op.kind
                /\ op.kind \in {"removeDrain", "removeRetired"} /\ op.gen \in Gens
           /\ \A g \in Gens : Retiring(g)' <=> Retiring(g)
<1>1. op'.gen = op.gen /\ (op'.kind = op.kind \/ (Moving /\ Moving'))
  BY Zenon DEF Aside, SameHolder
<1>2. /\ Preparing' <=> Preparing
      /\ Removing' <=> Removing
      /\ Moving' <=> Moving
      /\ op'.kind \in {"removeDrain", "removeRetired"} =>
           /\ op'.kind = op.kind
           /\ op.kind \in {"removeDrain", "removeRetired"} /\ op.kind # "free"
  BY <1>1 DEF Preparing, Removing, Moving
<1>3. UNCHANGED <<lifeVars, shutVars>> /\ SameWorkers
  BY Zenon DEF Aside
<1>4. inSlice' <=> inSlice
  BY <1>3 DEF lifeVars
<1> QED BY <1>1, <1>2, <1>3, <1>4, Zenon DEF lifeVars, shutVars, SameWorkers, Retiring, Positions

\* Such a step keeps which workers may run ...
LEMMA AsideLife == ASSUME Positions, LifeInv, Aside PROVE LifeInv'
<1>1. Unborn'
  BY AsideFacts, Zenon DEF LifeInv, Unborn
<1>2. (Preparing \/ Removing => op.gen = current)' /\ (Preparing => cleanup[op.gen] = "none")'
  BY AsideFacts, Zenon DEF LifeInv
<1>3. (op.kind \in {"removeDrain", "removeRetired"} => ~Live(op.gen))'
  BY AsideFacts, Zenon DEF LifeInv
<1>4. (\A g \in Gens : Live(g) => g = current \/ Retiring(g) \/ (Moving /\ op.gen = g))'
  BY AsideFacts, Zenon DEF LifeInv
<1>5. (current = NoGen => ~inSlice)' /\ (~inSlice => \A g \in Gens : ~Live(g))'
  BY AsideFacts, Zenon DEF LifeInv
<1>6. (\A g \in Gens : cleanup[g] \in {"draining", "done"} => ~Live(g))'
  BY AsideFacts, Zenon DEF LifeInv
<1> QED BY <1>1, <1>2, <1>3, <1>4, <1>5, <1>6, Zenon DEF LifeInv

\* ... what Shutdown waits for ...
LEMMA AsideShut == ASSUME TypeOK, Positions, ShutInv, Aside PROVE ShutInv'
<1>1. \A g \in shutLive : g \in Gens
  BY Zenon DEF TypeOK, ShutTypes
<1>2. \A g \in Gens : Awaited(g)' <=> Awaited(g)
  BY AsideFacts, Zenon DEF Awaited
<1>3. Updating' <=> Updating
  <2>1. op'.kind = op.kind \/ (Moving /\ Moving')
    BY Zenon DEF Aside, SameHolder
  <2> QED BY <2>1 DEF Moving, Updating
<1> QED BY AsideFacts, <1>1, <1>2, <1>3, Zenon DEF ShutInv

\* ... and who will drain a signalled queue.
LEMMA AsideStrand == ASSUME TypeOK, Positions, StrandInv, Aside PROVE StrandInv'
<1>1. (\A w \in Workers : wst[w] \in {"draining", "exited"} => closing[w[1]])'
  BY AsideFacts, Zenon DEF StrandInv, Aside, SameWorkers
<1>2. \A g \in Gens : Swept(g)' <=> Swept(g)
  <2>1. op.kind \in {"removeWait", "removeDrain"} <=> op'.kind \in {"removeWait", "removeDrain"}
    <3>1. op'.kind = op.kind \/ (Moving /\ Moving')
      BY Zenon DEF Aside, SameHolder
    <3> QED BY <3>1 DEF Moving
  <2> QED BY <2>1, AsideFacts, Zenon DEF Swept
<1>3. (~inSlice /\ current # NoGen => NeverStarted(current))'
  BY AsideFacts, Zenon DEF StrandInv, TypeOK, LifeTypes
<1>4. (Removing => closing[op.gen])'
  BY AsideFacts, Zenon DEF StrandInv
<1>5. (op.kind = "removeRetired" => Clean(op.gen))'
  BY AsideFacts, Zenon DEF StrandInv, Removing, Aside, StaysClean
<1>6. (\A g \in Gens : closing[g] /\ ~Swept(g) /\ ~Clean(g) =>
          NeverStarted(g) /\ ~(Preparing /\ op.gen = g))'
  <2> SUFFICES ASSUME NEW g \in Gens, closing'[g], ~Swept(g)', ~Clean(g)'
               PROVE  NeverStarted(g)' /\ ~(Preparing' /\ op'.gen = g)
    BY Zenon
  <2>1. closing[g] /\ ~Swept(g) /\ ~Clean(g)
    BY AsideFacts, <1>2, Zenon DEF Aside, StaysClean
  <2> QED BY <2>1, AsideFacts, Zenon DEF StrandInv
<1> QED BY AsideFacts, <1>1, <1>3, <1>4, <1>5, <1>6, Zenon DEF StrandInv

-----------------------------------------------------------------------------
\* Workers when none of them moves.
LEMMA WorkersKept == ASSUME UNCHANGED wst PROVE SameWorkers
BY Zenon DEF SameWorkers, Live, NeverStarted

\* One worker moves that is running.
LEMMA OneWorker ==
    ASSUME TypeOK, NEW w \in Workers, NEW s \in LiveStates \cup {"exited"},
           wst' = [wst EXCEPT ![w] = s], wst[w] \in LiveStates,
           s \in {"draining", "exited"} => wst[w] = "draining" \/ closing[w[1]]
    PROVE  SameWorkers
<1>1. /\ wst'[w] = s
      /\ \A v \in Workers : v # w => wst'[v] = wst[v]
  BY Zenon DEF TypeOK, WorkTypes
<1>2. s # "none" /\ wst[w] # "none"
  BY DEF LiveStates
<1>3. \A v \in Workers : /\ wst'[v] \in LiveStates => wst[v] \in LiveStates
                         /\ wst'[v] = "none" <=> wst[v] = "none"
  BY <1>1, <1>2, Zenon
<1>4. \A g : \A v \in WorkersOf(g) : v \in Workers
  BY Zenon DEF WorkersOf
<1>5. \A g : (Live(g)' => Live(g)) /\ (NeverStarted(g)' <=> NeverStarted(g))
  BY <1>3, <1>4, Zenon DEF Live, NeverStarted
<1>6. \A v \in Workers : wst'[v] \in {"draining", "exited"} =>
          wst[v] \in {"draining", "exited"} \/ closing[v[1]]
  BY <1>1, Zenon
<1> QED BY <1>5, <1>6, Zenon DEF SameWorkers

\* A signalled queue stays clean when only late producers add to it.
LEMMA CleanKept ==
    ASSUME late \subseteq late',
           \A g \in Gens : \A r \in Requests :
               closing[g] /\ pc'[r] = "waiting" /\ Queued(slot[r], g)' =>
                   r \in late' \/ (pc[r] = "waiting" /\ Queued(slot[r], g))
    PROVE  StaysClean
BY Zenon DEF StaysClean, Clean

\* A signalled queue stays clean when callers only stop waiting.
LEMMA CleanCallers ==
    ASSUME UNCHANGED queue, UNCHANGED late,
           \A r \in Requests : pc'[r] = "waiting" => pc[r] = "waiting" /\ slot'[r] = slot[r]
    PROVE  StaysClean /\ \A g : Clean(g) => Clean(g)'
<1>1. \A g : \A r \in Requests : pc'[r] = "waiting" /\ Queued(slot[r], g)' =>
          pc[r] = "waiting" /\ Queued(slot[r], g)
  BY Zenon DEF Queued
<1> QED BY <1>1, Zenon DEF StaysClean, Clean

\* The elements of a tail.
LEMMA TailElements ==
    ASSUME NEW q \in Seq(Slots), q # << >>
    PROVE  \A i \in 1..Len(Tail(q)) : i + 1 \in 1..Len(q) /\ Tail(q)[i] = q[i + 1]
OBVIOUS

\* A message taken off a queue is added to none.
LEMMA TailQueued ==
    ASSUME TypeOK, NEW g \in Gens, queue[g] # << >>, queue' = [queue EXCEPT ![g] = Tail(@)]
    PROVE  \A s : \A h \in Gens : Queued(s, h)' => Queued(s, h)
<1> SUFFICES ASSUME NEW s, NEW h \in Gens, Queued(s, h)' PROVE Queued(s, h)
  OBVIOUS
<1>1. PICK i \in 1..Len(queue'[h]) : queue'[h][i] = s
  BY Zenon DEF Queued
<1>2. CASE h # g
  <2>1. queue'[h] = queue[h]
    BY <1>2, Zenon DEF TypeOK
  <2> QED BY <1>1, <2>1, Zenon DEF Queued
<1>3. CASE h = g
  <2>1. queue'[g] = Tail(queue[g]) /\ queue[g] \in Seq(Slots)
    BY Zenon DEF TypeOK
  <2>2. i + 1 \in 1..Len(queue[g]) /\ queue[g][i + 1] = s
    BY <1>1, <1>3, <2>1, TailElements, Zenon
  <2> QED BY <1>3, <2>2, Zenon DEF Queued
<1> QED BY <1>2, <1>3, Zenon

\* A message added to a queue is added to no other.
LEMMA AppendQueued ==
    ASSUME TypeOK, NEW g \in Gens, NEW m \in Slots, queue' = [queue EXCEPT ![g] = Append(@, m)]
    PROVE  \A s : \A h \in Gens : Queued(s, h)' => Queued(s, h) \/ (s = m /\ h = g)
<1> SUFFICES ASSUME NEW s, NEW h \in Gens, Queued(s, h)'
             PROVE  Queued(s, h) \/ (s = m /\ h = g)
  OBVIOUS
<1>1. PICK i \in 1..Len(queue'[h]) : queue'[h][i] = s
  BY Zenon DEF Queued
<1>2. CASE h # g
  <2>1. queue'[h] = queue[h]
    BY <1>2, Zenon DEF TypeOK
  <2> QED BY <1>1, <2>1, Zenon DEF Queued
<1>3. CASE h = g
  <2>1. queue'[g] = Append(queue[g], m) /\ queue[g] \in Seq(Slots)
    BY Zenon DEF TypeOK
  <2>2. s = m \/ (i \in 1..Len(queue[g]) /\ queue[g][i] = s)
    BY <1>1, <1>3, <2>1
  <2> QED BY <1>3, <2>2, Zenon DEF Queued
<1> QED BY <1>2, <1>3, Zenon

\* Nothing is buffered in an empty queue.
LEMMA EmptyIsClean == ASSUME NEW g, queue[g] = << >> PROVE Clean(g)
<1>1. \A s : ~Queued(s, g)
  BY DEF Queued
<1> QED BY <1>1, Zenon DEF Clean
-----------------------------------------------------------------------------
\* What Return does to the callers.
LEMMA ReturnFacts ==
    ASSUME TypeOK, NEW r \in Requests, NEW o, Return(r, o)
    PROVE  \A q \in Requests : pc'[q] = "waiting" => pc[q] = "waiting" /\ slot'[q] = slot[q]
<1>1. pc'[r] = "done" /\ \A q \in Requests \ {r} : pc'[q] = pc[q] /\ slot'[q] = slot[q]
  BY Zenon DEF Return, TypeOK, CallTypes
<1> QED BY <1>1, Zenon

\* Callers, but for the one that creates the queue.
LEMMA CallerAside ==
    ASSUME IInv, NEW r \in Requests,
           \/ GetProviderQueue(r) \/ NoConfig(r) \/ ShortCircuit(r) \/ CheckClosing(r)
           \/ GiveUp(r) \/ QueueFull(r) \/ Receive(r) \/ Abandon(r) \/ Cancel(r)
    PROVE  Aside
<1> USE DEF lifeVars, workVars, genVars, shutVars, opVars, reqVars, poolVars, histVars
<1>0. TypeOK
  BY Zenon DEF IInv
<1>1. UNCHANGED <<lifeVars, shutVars>> /\ UNCHANGED op /\ UNCHANGED wst /\ UNCHANGED queue
      /\ UNCHANGED late
  BY Zenon DEF GetProviderQueue, NoConfig, ShortCircuit, CheckClosing, GiveUp, QueueFull,
     Receive, Abandon, Cancel
<1>2. \A q \in Requests : pc'[q] = "waiting" => pc[q] = "waiting" /\ slot'[q] = slot[q]
  <2>1. CASE \E o : Return(r, o)
    BY <1>0, <2>1, ReturnFacts, Zenon
  <2>2. CASE GetProviderQueue(r) \/ Cancel(r)
    BY <1>0, <2>2, Zenon DEF GetProviderQueue, Cancel, TypeOK, CallTypes
  <2>3. CASE /\ pc' = [pc EXCEPT ![r] = "send"] \/ pc' = [pc EXCEPT ![r] = "blocked"]
             /\ \A q \in Requests : q # r => slot'[q] = slot[q]
    <3>1. pc'[r] # "waiting" /\ \A q \in Requests \ {r} : pc'[q] = pc[q]
      BY <1>0, <2>3, Zenon DEF TypeOK, CallTypes
    <3> QED BY <2>3, <3>1, Zenon
  <2>4. CASE CheckClosing(r)
    <3>1. CASE Return(r, "refused")
      BY <2>1, <3>1, Zenon
    <3>2. CASE /\ pc' = [pc EXCEPT ![r] = "send"]
               /\ \E s \in Slots : slot' = [slot EXCEPT ![r] = s]
      <4>1. \A q \in Requests : q # r => slot'[q] = slot[q]
        BY <1>0, <3>2, Zenon DEF TypeOK, CallTypes
      <4> QED BY <2>3, <3>2, <4>1, Zenon
    <3> QED BY <2>4, <3>1, <3>2, Zenon DEF CheckClosing
  <2>5. CASE NoConfig(r) \/ ShortCircuit(r) \/ GiveUp(r) \/ Abandon(r) \/ Receive(r)
    BY <2>1, <2>5, Zenon DEF NoConfig, ShortCircuit, GiveUp, Abandon, Receive
  <2>6. CASE QueueFull(r)
    BY <2>1, <2>3, <2>6, Zenon DEF QueueFull
  <2> QED BY <2>2, <2>4, <2>5, <2>6, Zenon
<1>3. StaysClean
  BY <1>1, <1>2, CleanCallers, Zenon
<1>4. SameHolder
  BY <1>1, Zenon DEF SameHolder
<1> QED BY <1>1, <1>3, <1>4, WorkersKept, Zenon DEF Aside

\* The message of a caller that has not sent it yet is in no queue.
LEMMA UnsentIsNowhere ==
    ASSUME IInv, NEW r \in Requests, Sending(r)
    PROVE  slot[r] \in Slots /\ ~Buffered(slot[r])
<1>1. pc[r] \in Holding /\ pc[r] # "waiting" /\ ~Departed(r)
  BY DEF Sending, Holding, Departed
<1>2. slot[r] \in Slots /\ slotReq[slot[r]] = r
  BY <1>1, Zenon DEF IInv, Ownership
<1>3. ~Enqueued(slot[r])
  BY <1>1, <1>2, Zenon DEF Enqueued
<1> QED BY <1>2, <1>3, Zenon DEF IInv, InFlight

\* The send.
LEMMA EnqueueAside == ASSUME IInv, NEW r \in Requests, Enqueue(r) PROVE Aside
<1> USE DEF lifeVars, workVars, genVars, shutVars, opVars, reqVars, poolVars, histVars
<1>0. TypeOK /\ Ownership /\ Positions
  BY Zenon DEF IInv
<1>1. /\ Sending(r) /\ queue' = [queue EXCEPT ![pq[r]] = Append(@, slot[r])]
      /\ pc' = [pc EXCEPT ![r] = "waiting"]
      /\ late' = IF closing[pq[r]] THEN late \cup {r} ELSE late
      /\ UNCHANGED <<lifeVars, shutVars>> /\ UNCHANGED op /\ UNCHANGED wst /\ UNCHANGED slot
  BY Zenon DEF Enqueue
<1>2. slot[r] \in Slots /\ ~Buffered(slot[r])
  BY <1>1, UnsentIsNowhere, Zenon
<1>3. pq[r] \in Gens
  BY <1>0, <1>1, Zenon DEF Positions, Sending, Holding
<1>4. \A s : \A h \in Gens : Queued(s, h)' => Queued(s, h) \/ (s = slot[r] /\ h = pq[r])
  BY <1>0, <1>1, <1>2, <1>3, AppendQueued, Zenon
<1>5. ASSUME NEW g \in Gens, NEW q \in Requests,
             closing[g], pc'[q] = "waiting", Queued(slot[q], g)'
      PROVE  q \in late' \/ (pc[q] = "waiting" /\ Queued(slot[q], g))
  <2>1. Queued(slot[q], g) \/ (slot[q] = slot[r] /\ g = pq[r])
    BY <1>1, <1>4, <1>5, Zenon
  <2>2. CASE q = r
    <3>1. g = pq[r]
      BY <1>2, <2>1, <2>2, Zenon DEF Buffered
    <3> QED BY <1>1, <1>5, <2>2, <3>1, Zenon
  <2>3. CASE q # r
    <3>1. pc[q] = "waiting"
      BY <1>0, <1>1, <1>5, <2>3, Zenon DEF TypeOK, CallTypes
    <3>2. slot[q] # slot[r]
      BY <1>0, <1>1, <2>3, <3>1, ZenonT(30) DEF Ownership, Holding, Sending
    <3> QED BY <2>1, <3>1, <3>2, Zenon
  <2> QED BY <2>2, <2>3, Zenon
<1>6. late \subseteq late'
  BY <1>1, Zenon
<1>7. StaysClean
  BY <1>5, <1>6, CleanKept, Zenon
<1>8. SameHolder
  BY <1>1, Zenon DEF SameHolder
<1> QED BY <1>1, <1>7, <1>8, WorkersKept, Zenon DEF Aside

\* Taking a message off a queue.
LEMMA TailClean ==
    ASSUME TypeOK, NEW g \in Gens, queue[g] # << >>, queue' = [queue EXCEPT ![g] = Tail(@)],
           UNCHANGED pc, UNCHANGED slot, UNCHANGED late
    PROVE  StaysClean
<1>1. \A s : \A h \in Gens : Queued(s, h)' => Queued(s, h)
  BY TailQueued, Zenon
<1>2. \A h \in Gens : \A r \in Requests : Queued(slot[r], h)' => Queued(slot[r], h)
  BY <1>1, Zenon
<1> QED BY <1>2, CleanKept, Zenon

\* Whoever drains a queue stands aside.
LEMMA FailHeadAside ==
    ASSUME IInv, NEW g \in Gens, FailHead(g), UNCHANGED opVars PROVE Aside
<1> USE DEF lifeVars, workVars, genVars, shutVars, opVars, reqVars, poolVars, histVars
<1>1. TypeOK
  BY Zenon DEF IInv
<1>2. StaysClean
  BY <1>1, TailClean, Zenon DEF FailHead
<1>3. SameHolder /\ UNCHANGED wst /\ UNCHANGED <<lifeVars, shutVars>>
  BY Zenon DEF SameHolder, FailHead
<1> QED BY <1>2, <1>3, WorkersKept, Zenon DEF Aside

\* Workers.
LEMMA WorkerAside ==
    ASSUME IInv, NEW w \in Workers, Worker(w) \/ Panic(w) PROVE Aside
<1> USE DEF lifeVars, workVars, genVars, shutVars, opVars, reqVars, poolVars, histVars
<1>0. TypeOK /\ w[1] \in Gens
  BY ConstantFacts, Zenon DEF IInv
<1>1. CASE DrainOne(w)
  BY <1>0, <1>1, FailHeadAside, Zenon DEF DrainOne
<1>2. CASE Worker(w) \/ Panic(w)
  <2> SUFFICES ASSUME ~DrainOne(w) PROVE Aside
    BY <1>1, Zenon
  <2>1. /\ UNCHANGED <<lifeVars, shutVars>> /\ UNCHANGED op
        /\ UNCHANGED pc /\ UNCHANGED slot /\ UNCHANGED late
    BY <1>2, Zenon DEF Worker, Panic, Dequeue, SendReply, BillAbandoned, StartDraining, WorkerExit
  <2>2. StaysClean
    <3>1. CASE Dequeue(w)
      BY <1>0, <3>1, <2>1, TailClean, Zenon DEF Dequeue
    <3>2. CASE UNCHANGED queue
      BY <2>1, <3>2, CleanCallers, Zenon
    <3> QED
      BY <1>2, <3>1, <3>2, Zenon
         DEF Worker, Panic, SendReply, BillAbandoned, StartDraining, WorkerExit
  <2>3. PICK s \in LiveStates \cup {"exited"} :
          /\ wst' = [wst EXCEPT ![w] = s] /\ wst[w] \in LiveStates
          /\ s \in {"draining", "exited"} => wst[w] = "draining" \/ closing[w[1]]
    <3>1. CASE Dequeue(w) \/ SendReply(w) \/ BillAbandoned(w)
      BY <3>1 DEF Dequeue, SendReply, BillAbandoned, LiveStates
    <3>2. CASE Panic(w)
      BY <3>2, Zenon DEF Panic, AfterPanic, LiveStates
    <3>3. CASE StartDraining(w) \/ WorkerExit(w)
      BY <3>3, Zenon DEF StartDraining, WorkerExit, LiveStates
    <3> QED BY <1>2, <3>1, <3>2, <3>3, Zenon DEF Worker
  <2>4. SameWorkers
    BY <1>0, <2>3, OneWorker, Zenon
  <2>5. SameHolder
    BY <2>1, Zenon DEF SameHolder
  <2> QED BY <2>1, <2>2, <2>4, <2>5, Zenon DEF Aside
<1> QED BY <1>2, Zenon

\* UpdateProvider's transfer.
LEMMA TransferAside ==
    ASSUME IInv, StrandInv, TransferTake \/ TransferPut \/ TransferFail \/ TransferDone
    PROVE  Aside
<1> USE DEF lifeVars, workVars, genVars, shutVars, opVars, reqVars, poolVars, histVars
<1>0. TypeOK /\ Positions
  BY Zenon DEF IInv
<1>1. /\ UNCHANGED <<lifeVars, shutVars>> /\ UNCHANGED wst
      /\ UNCHANGED pc /\ UNCHANGED slot /\ UNCHANGED late
  BY Zenon DEF TransferTake, TransferPut, TransferFail, TransferDone
<1>2. op.kind \in {"transfer", "failRest"} /\ op.gen \in Gens /\ current \in Gens
  <2>1. op.kind \in {"transfer", "failRest"}
    BY <1>0, Zenon DEF TransferTake, TransferPut, TransferFail, TransferDone, Positions
  <2> QED BY <1>0, <2>1, Zenon DEF Positions
<1>3. SameHolder
  <2>1. \/ op' = [op EXCEPT !.msg = op'.msg]
        \/ op' = [op EXCEPT !.kind = "failRest", !.msg = NoSlot]
        \/ op' = [op EXCEPT !.kind = "retire"]
    BY <1>0, Zenon DEF TransferTake, TransferPut, TransferFail, TransferDone, TypeOK, LockTypes
  <2>2. op'.gen = op.gen /\ op'.kind \in {op.kind, "failRest", "retire"}
    BY <1>0, <2>1, Zenon DEF TypeOK, LockTypes
  <2> QED BY <1>2, <2>2 DEF SameHolder, Moving
<1>4. StaysClean
  <2>1. CASE TransferTake
    BY <1>0, <1>1, <1>2, <2>1, TailClean, Zenon DEF TransferTake
  <2>2. CASE TransferPut
    <3>1. op.msg \in Slots /\ queue' = [queue EXCEPT ![current] = Append(@, op.msg)]
      BY <1>0, <2>2, Zenon DEF TransferPut, TypeOK, LockTypes
    <3>2. \A s : \A h \in Gens : Queued(s, h)' => Queued(s, h) \/ (s = op.msg /\ h = current)
      BY <1>0, <1>2, <3>1, AppendQueued, Zenon
    <3>3. ~closing[current]
      BY <1>2, Zenon DEF StrandInv, Moving
    <3> QED BY <1>1, <3>2, <3>3, CleanKept, Zenon
  <2>3. CASE UNCHANGED queue
    BY <1>1, <2>3, CleanCallers, Zenon
  <2> QED BY <2>1, <2>2, <2>3, Zenon DEF TransferFail, TransferDone
<1> QED BY <1>1, <1>3, <1>4, WorkersKept, Zenon DEF Aside

-----------------------------------------------------------------------------
LifecycleInv == LifeInv /\ ShutInv /\ StrandInv

\* A new generation.
LEMMA NextBorn ==
    ASSUME TypeOK, born' = born + 1
    PROVE  \A g \in Gens : (g > born' => g > born /\ g # born') /\ (g = born' => g > born)
<1>1. born \in Nat /\ \A g \in Gens : g \in Nat
  BY ConstantFacts, Zenon DEF TypeOK, LifeTypes
<1> QED BY <1>1

\* Workers and cleanups that do not change.
LEMMA StillLive ==
    ASSUME UNCHANGED wst
    PROVE  \A g : (Live(g)' <=> Live(g)) /\ (NeverStarted(g)' <=> NeverStarted(g))
BY Zenon DEF Live, NeverStarted

\* prepareProvider publishes a queue only for a provider that is out of the slice,
\* and so has no workers.
LEMMA PublishCycle ==
    ASSUME IInv, LifecycleInv,
           NEW k \in {"prepare", "updatePrepare"}, NEW r \in Requests \cup {NoReq},
           Publish(k, r), current = NoGen \/ ~inSlice, k = "updatePrepare" => shut = "running",
           \A q \in Requests : pc'[q] = "waiting" => pc[q] = "waiting" /\ slot'[q] = slot[q]
    PROVE  LifecycleInv'
<1> USE DEF lifeVars, workVars, genVars, shutVars, opVars, reqVars, poolVars, histVars
<1>0. TypeOK /\ Positions /\ LifeInv /\ ShutInv /\ StrandInv
  BY Zenon DEF IInv, LifecycleInv
<1>1. /\ op' = Lock(k, born + 1, r) /\ op = Free
      /\ born' = born + 1 /\ born' \in Gens /\ current' = born'
      /\ \A w \in Workers : w[1] >= born + 1 => wst[w] = "none"
  BY PublishFacts, Zenon
<1>2. /\ op'.kind = k /\ op'.gen = born' /\ op.kind = "free" /\ op.gen = NoGen
  BY <1>1, Zenon DEF Lock, Free
<1>3. /\ UNCHANGED closing /\ UNCHANGED cleanup /\ UNCHANGED queue /\ UNCHANGED wst
      /\ UNCHANGED late /\ UNCHANGED shut /\ UNCHANGED shutGen /\ UNCHANGED shutLive
  BY Zenon DEF Publish
<1>4. inSlice' <=> inSlice
  BY Zenon DEF Publish
<1>5. \A g : (Live(g)' <=> Live(g)) /\ (NeverStarted(g)' <=> NeverStarted(g))
  BY <1>3, StillLive, Zenon
<1>6. ~inSlice /\ \A g \in Gens : ~Live(g)
  BY <1>0, Zenon DEF LifeInv
<1>7. \A g \in Gens : (g > born' => g > born /\ g # born') /\ (g = born' => g > born)
  BY <1>0, <1>1, NextBorn, Zenon
<1>8. NeverStarted(current)'
  <2>1. born' >= born + 1
    BY <1>0, <1>1 DEF TypeOK, LifeTypes, Gens
  <2>2. \A w \in WorkersOf(born') : w \in Workers /\ w[1] = born'
    BY Zenon DEF WorkersOf
  <2>3. \A w \in WorkersOf(born') : wst[w] = "none"
    BY <1>1, <2>1, <2>2, Zenon
  <2> QED BY <1>1, <1>3, <2>3, Zenon DEF NeverStarted
<1>9. Preparing' /\ ~Moving' /\ ~Removing' /\ ~Moving /\ ~Preparing
  BY <1>2, Zenon DEF Preparing, Moving, Removing
<1>10. LifeInv'
  <2>1. Unborn'
    BY <1>0, <1>1, <1>2, <1>3, <1>7, ZenonT(30) DEF LifeInv, Unborn
  <2>2. cleanup'[born'] = "none"
    BY <1>0, <1>1, <1>3, <1>7, Zenon DEF LifeInv, Unborn
  <2>3. op'.kind \notin {"removeDrain", "removeRetired"}
    BY <1>2
  <2> QED BY <1>1, <1>2, <1>4, <1>5, <1>6, <1>9, <2>1, <2>2, <2>3, Zenon DEF LifeInv
<1>11. ShutInv'
  <2>1. Updating' => shut = "running"
    BY <1>2, Zenon DEF Updating
  <2>2. \A g \in shutLive : g \in Gens
    BY <1>0, Zenon DEF TypeOK, ShutTypes
  <2> QED BY <1>0, <1>3, <1>5, <1>6, <2>1, <2>2, Zenon DEF ShutInv
<1>12. StrandInv'
  <2>1. \A g : Clean(g) => Clean(g)'
    BY <1>3, CleanCallers, Zenon
  <2>2. op'.kind # "removeRetired"
    BY <1>2, Zenon
  <2>3. (\A g \in Gens : closing[g] /\ ~Swept(g) /\ ~Clean(g) =>
          NeverStarted(g) /\ ~(Preparing /\ op.gen = g))'
    <3> SUFFICES ASSUME NEW g \in Gens, closing'[g], ~Swept(g)', ~Clean(g)'
                 PROVE  NeverStarted(g)' /\ ~(Preparing' /\ op'.gen = g)
      BY Zenon
    <3>1. closing[g] /\ ~Clean(g) /\ g # born'
      BY <1>0, <1>3, <1>7, <2>1, Zenon DEF LifeInv, Unborn
    <3>2. ~Retiring(g) /\ ~(shut = "draining" /\ shutGen = g)
      BY <1>3, Zenon DEF Swept, Retiring
    <3>3. CASE g = current
      <4>1. current # NoGen
        BY <3>3, ConstantFacts, Zenon
      <4> QED BY <1>0, <1>2, <1>5, <1>6, <3>1, <3>3, <4>1, Zenon DEF StrandInv
    <3>4. CASE g # current
      <4>1. ~Swept(g)
        <5>1. op.kind \notin {"removeWait", "removeDrain"}
          BY <1>2, Zenon
        <5> QED BY <1>9, <3>2, <3>4, <5>1, Zenon DEF Swept
      <4> QED BY <1>0, <1>2, <1>5, <3>1, <4>1, Zenon DEF StrandInv
    <3> QED BY <3>3, <3>4, Zenon
  <2>4. (\A w \in Workers : wst[w] \in {"draining", "exited"} => closing[w[1]])'
    BY <1>0, <1>3, Zenon DEF StrandInv
  <2> QED BY <1>1, <1>8, <1>9, <2>2, <2>3, <2>4, Zenon DEF StrandInv
<1> QED BY <1>10, <1>11, <1>12, Zenon DEF LifecycleInv

\* The workers of one generation start.
LEMMA WorkersStart ==
    ASSUME NEW n \in Gens,
           wst' = [w \in Workers |-> IF w[1] = n THEN "idle" ELSE wst[w]]
    PROVE  /\ \A g \in Gens : g # n =>
                (Live(g)' <=> Live(g)) /\ (NeverStarted(g)' <=> NeverStarted(g))
           /\ \A w \in Workers : wst'[w] \in {"draining", "exited"} =>
                wst[w] \in {"draining", "exited"}
<1>1. \A w \in Workers : IF w[1] = n THEN wst'[w] = "idle" ELSE wst'[w] = wst[w]
  BY Zenon
<1>2. \A g \in Gens : g # n => \A w \in WorkersOf(g) : wst'[w] = wst[w]
  BY <1>1, Zenon DEF WorkersOf
<1>3. \A g \in Gens : g # n =>
        (Live(g)' <=> Live(g)) /\ (NeverStarted(g)' <=> NeverStarted(g))
  BY <1>2, Zenon DEF Live, NeverStarted
<1>4. "idle" \notin {"draining", "exited"}
  OBVIOUS
<1> QED BY <1>1, <1>3, <1>4, Zenon

\* The generation being prepared has no workers yet.
LEMMA PreparedIsNew ==
    ASSUME Positions, Preparing PROVE op.gen \in Gens /\ NeverStarted(op.gen)
<1>1. op.kind \in {"prepare", "updatePrepare"} /\ op.kind # "free"
  BY DEF Preparing
<1>2. \A w \in WorkersOf(op.gen) : w \in Workers /\ w[1] = op.gen
  BY Zenon DEF WorkersOf
<1> QED BY <1>1, <1>2, Zenon DEF Positions, NeverStarted

\* What the end of prepareProvider does.
LEMMA PrepareFacts ==
    ASSUME IInv, LifecycleInv, PrepareStart \/ PrepareFail
    PROVE  /\ Preparing /\ op.gen \in Gens /\ NeverStarted(op.gen) /\ op.gen = current
           /\ op'.kind = "free" /\ op'.gen = NoGen
           /\ UNCHANGED <<born, current, closing, cleanup, queue, late, shut, shutGen, shutLive>>
           /\ \A q \in Requests : pc'[q] = "waiting" => pc[q] = "waiting" /\ slot'[q] = slot[q]
           /\ inSlice => inSlice'
           /\ \A g \in Gens : g # op.gen =>
                (Live(g)' <=> Live(g)) /\ (NeverStarted(g)' <=> NeverStarted(g))
           /\ \A w \in Workers : wst'[w] \in {"draining", "exited"} =>
                wst[w] \in {"draining", "exited"}
           /\ ~inSlice' => ~inSlice /\ UNCHANGED wst
<1> USE DEF lifeVars, workVars, genVars, shutVars, opVars, reqVars, poolVars, histVars
<1>0. TypeOK /\ Positions /\ LifeInv
  BY Zenon DEF IInv, LifecycleInv
<1>1. Preparing /\ op' = Free
  BY Zenon DEF PrepareStart, PrepareFail, Preparing
<1>2. op.gen \in Gens /\ NeverStarted(op.gen) /\ op.gen = current
  BY <1>0, <1>1, PreparedIsNew, Zenon DEF LifeInv
<1>3. op'.kind = "free" /\ op'.gen = NoGen
  BY <1>1, Zenon DEF Free, Lock
<1>4. UNCHANGED <<born, current, closing, cleanup, queue, late, shut, shutGen, shutLive>>
  BY Zenon DEF PrepareStart, PrepareFail
<1>5. \A q \in Requests : pc'[q] = "waiting" => pc[q] = "waiting" /\ slot'[q] = slot[q]
  <2>1. CASE UNCHANGED <<pc, slot>>
    BY <2>1, Zenon
  <2>2. CASE op.req # NoReq
    <3>1. op.req \in Requests
      BY <1>0, <2>2, Zenon DEF TypeOK, LockTypes
    <3>2. CASE \E o : Return(op.req, o)
      BY <1>0, <3>1, <3>2, ReturnFacts, Zenon
    <3>3. CASE pc' = [pc EXCEPT ![op.req] = "hooks"] /\ UNCHANGED slot
      <4>1. /\ pc'[op.req] = "hooks"
            /\ \A q \in Requests : q # op.req => pc'[q] = pc[q]
        BY <1>0, <3>1, <3>3, Zenon DEF TypeOK, CallTypes
      <4> QED BY <3>3, <4>1, Zenon
    <3> QED BY <2>2, <3>2, <3>3, Zenon DEF PrepareStart, PrepareFail
  <2> QED BY <2>1, <2>2, Zenon DEF PrepareStart, PrepareFail
<1>6. CASE PrepareStart
  <2>1. wst' = [w \in Workers |-> IF w[1] = op.gen THEN "idle" ELSE wst[w]] /\ inSlice'
    BY <1>6, Zenon DEF PrepareStart
  <2> QED BY <1>1, <1>2, <1>3, <1>4, <1>5, <2>1, WorkersStart, Zenon
<1>7. CASE PrepareFail
  <2>1. (inSlice' <=> inSlice)
    BY <1>7, Zenon DEF PrepareFail
  <2>2. UNCHANGED wst
    BY <1>7, Zenon DEF PrepareFail
  <2> QED BY <1>1, <1>2, <1>3, <1>4, <1>5, <2>1, <2>2, StillLive, Zenon
<1> QED BY <1>6, <1>7, Zenon

\* The end of prepareProvider.
LEMMA PrepareCycle == ASSUME IInv, LifecycleInv, PrepareStart \/ PrepareFail PROVE LifecycleInv'
<1>0. TypeOK /\ Positions /\ LifeInv /\ ShutInv /\ StrandInv
  BY Zenon DEF IInv, LifecycleInv
<1> DEFINE n == op.gen
<1>1. /\ Preparing /\ n \in Gens /\ NeverStarted(n) /\ n = current
      /\ op'.kind = "free" /\ op'.gen = NoGen
      /\ UNCHANGED born /\ UNCHANGED current /\ UNCHANGED closing /\ UNCHANGED cleanup
      /\ UNCHANGED queue /\ UNCHANGED late
      /\ UNCHANGED shut /\ UNCHANGED shutGen /\ UNCHANGED shutLive
  BY PrepareFacts, Zenon
<1>2. \A g \in Gens : g # n =>
        (Live(g)' <=> Live(g)) /\ (NeverStarted(g)' <=> NeverStarted(g))
  BY PrepareFacts, Zenon
<1>3. ~Preparing' /\ ~Moving' /\ ~Removing' /\ ~Moving /\ ~Updating'
  BY <1>1 DEF Preparing, Moving, Removing, Updating
<1>4. \A g \in Gens : (g > born => g # NoGen) /\ (Retiring(g)' <=> Retiring(g))
  BY <1>1, ConstantFacts, Zenon DEF Retiring
<1>5. ~inSlice' => ~inSlice /\ \A g \in Gens : Live(g)' <=> Live(g)
  BY PrepareFacts, StillLive, Zenon
<1>6. cleanup[n] = "none"
  BY <1>0, <1>1, Zenon DEF LifeInv
<1> HIDE DEF n
<1>7. LifeInv'
  <2>1. Unborn'
    BY <1>0, <1>1, <1>4, Zenon DEF LifeInv, Unborn
  <2>2. (current = NoGen => ~inSlice)' /\ (~inSlice => \A g \in Gens : ~Live(g))'
    BY <1>0, <1>1, <1>5, ConstantFacts, Zenon DEF LifeInv
  <2>3. (\A g \in Gens : Live(g) => g = current \/ Retiring(g) \/ (Moving /\ op.gen = g))'
    BY <1>0, <1>1, <1>2, <1>3, <1>4, Zenon DEF LifeInv
  <2>4. (\A g \in Gens : cleanup[g] \in {"draining", "done"} => ~Live(g))'
    BY <1>0, <1>1, <1>2, <1>6, Zenon DEF LifeInv
  <2> QED BY <1>1, <1>3, <2>1, <2>2, <2>3, <2>4, Zenon DEF LifeInv
<1>8. ShutInv'
  <2>1. \A g \in shutLive : g \in Gens /\ g # n
    BY <1>0, <1>1, Zenon DEF TypeOK, ShutTypes, ShutInv
  <2>2. \A g \in Gens : Awaited(g)' <=> Awaited(g)
    BY <1>1, <1>4, Zenon DEF Awaited
  <2> QED BY <1>0, <1>1, <1>2, <1>3, <2>1, <2>2, Zenon DEF ShutInv
<1>9. StrandInv'
  <2>1. \A g : Clean(g) => Clean(g)'
    BY <1>1, PrepareFacts, CleanCallers, Zenon
  <2>2. (\A w \in Workers : wst[w] \in {"draining", "exited"} => closing[w[1]])'
    BY <1>0, <1>1, PrepareFacts, Zenon DEF StrandInv
  <2>3. (~inSlice /\ current # NoGen => NeverStarted(current))'
    <3>1. ~inSlice' => UNCHANGED wst
      BY PrepareFacts, Zenon
    <3> QED BY <1>1, <3>1, Zenon DEF NeverStarted
  <2>4. (\A g \in Gens : closing[g] /\ ~Swept(g) /\ ~Clean(g) =>
          NeverStarted(g) /\ ~(Preparing /\ op.gen = g))'
    <3> SUFFICES ASSUME NEW g \in Gens, closing'[g], ~Swept(g)', ~Clean(g)'
                 PROVE  NeverStarted(g)' /\ ~(Preparing' /\ op'.gen = g)
      BY Zenon
    <3>1. op.kind \notin {"removeWait", "removeDrain"}
      BY <1>1 DEF Preparing
    <3>2. closing[g] /\ ~Swept(g) /\ ~Clean(g)
      BY <1>1, <1>3, <1>4, <2>1, <3>1, Zenon DEF Swept
    <3>3. NeverStarted(g) /\ g # n
      BY <1>0, <1>1, <3>2, Zenon DEF StrandInv, n
    <3> QED BY <1>2, <1>3, <3>3, Zenon
  <2> QED BY <1>1, <1>3, <2>2, <2>3, <2>4, Zenon DEF StrandInv
<1> QED BY <1>7, <1>8, <1>9, Zenon DEF LifecycleInv

\* UpdateProvider up to its transfer: the old generation is the one it will retire.
LEMMA UpdateBeginCycle == ASSUME IInv, LifecycleInv, UpdateBegin PROVE LifecycleInv'
<1> USE DEF lifeVars, workVars, genVars, shutVars, opVars, reqVars, poolVars, histVars
<1>0. TypeOK /\ Positions /\ LifeInv /\ ShutInv /\ StrandInv
  BY Zenon DEF IInv, LifecycleInv
<1>1. /\ op = Free /\ op' = Lock("transfer", current, NoReq)
      /\ born' = born + 1 /\ current' = born' /\ inSlice' = TRUE
      /\ wst' = [w \in Workers |-> IF w[1] = born' THEN "idle" ELSE wst[w]]
      /\ UNCHANGED closing /\ UNCHANGED cleanup /\ UNCHANGED queue /\ UNCHANGED late
      /\ UNCHANGED pc /\ UNCHANGED slot
      /\ UNCHANGED shut /\ UNCHANGED shutGen /\ UNCHANGED shutLive
      /\ current # NoGen /\ born < MaxGens /\ shut = "running"
  BY Zenon DEF UpdateBegin
<1>2. PICK n \in Gens : n = born'
  BY <1>0, <1>1, ConstantsAssumption DEF TypeOK, LifeTypes, Gens
<1>3. /\ op'.kind = "transfer" /\ op'.gen = current /\ op.kind = "free" /\ op.gen = NoGen
  BY <1>1, Zenon DEF Lock, Free
<1>4. /\ \A g \in Gens : g # n =>
           (Live(g)' <=> Live(g)) /\ (NeverStarted(g)' <=> NeverStarted(g))
      /\ \A w \in Workers : wst'[w] \in {"draining", "exited"} =>
           wst[w] \in {"draining", "exited"}
  BY <1>1, <1>2, WorkersStart, Zenon
<1>5. \A g \in Gens : (g > born' => g > born /\ g # n) /\ (g = n => g > born)
  BY <1>0, <1>1, <1>2, NextBorn, Zenon
<1>6. n # current /\ cleanup[n] = "none" /\ ~closing[n]
  BY <1>0, <1>5, Zenon DEF LifeInv, Unborn
<1>7. /\ ~Preparing' /\ Moving' /\ ~Removing' /\ ~Moving /\ shut' = "running"
      /\ op'.kind \notin {"removeDrain", "removeRetired"}
      /\ op.kind \notin {"removeWait", "removeDrain"}
  BY <1>1, <1>3, Zenon DEF Preparing, Moving, Removing
<1>8. \A g \in Gens : Retiring(g)' <=> Retiring(g)
  BY <1>1, Zenon DEF Retiring
<1>9. LifeInv'
  <2>1. Unborn'
    BY <1>0, <1>1, <1>2, <1>3, <1>5, Zenon DEF LifeInv, Unborn
  <2>2. (\A g \in Gens : Live(g) => g = current \/ Retiring(g) \/ (Moving /\ op.gen = g))'
    BY <1>0, <1>1, <1>2, <1>3, <1>4, <1>7, <1>8, Zenon DEF LifeInv
  <2>3. (\A g \in Gens : cleanup[g] \in {"draining", "done"} => ~Live(g))'
    BY <1>0, <1>1, <1>4, <1>6, Zenon DEF LifeInv
  <2>4. current' # NoGen /\ inSlice'
    BY <1>1, <1>2, ConstantFacts, Zenon
  <2> QED BY <1>7, <2>1, <2>2, <2>3, <2>4, Zenon DEF LifeInv
<1>10. ShutInv'
  <2>1. shutLive' = {}
    BY <1>0, <1>1, Zenon DEF ShutInv
  <2> QED BY <1>7, <2>1, Zenon DEF ShutInv
<1>11. StrandInv'
  <2>1. \A g : Clean(g) => Clean(g)'
    BY <1>1, CleanCallers, Zenon
  <2>2. (\A w \in Workers : wst[w] \in {"draining", "exited"} => closing[w[1]])'
    BY <1>0, <1>1, <1>4, Zenon DEF StrandInv
  <2>3. inSlice' /\ current' # NoGen /\ ~closing'[current']
    BY <1>1, <1>2, <1>6, ConstantFacts, Zenon
  <2>4. (\A g \in Gens : closing[g] /\ ~Swept(g) /\ ~Clean(g) =>
          NeverStarted(g) /\ ~(Preparing /\ op.gen = g))'
    <3> SUFFICES ASSUME NEW g \in Gens, closing'[g], ~Swept(g)', ~Clean(g)'
                 PROVE  NeverStarted(g)' /\ ~(Preparing' /\ op'.gen = g)
      BY Zenon
    <3>1. closing[g] /\ ~Clean(g) /\ g # n
      BY <1>1, <1>6, <2>1, Zenon
    <3>2. ~Swept(g)
      <4>1. shut \notin {"signalled", "waiting", "cleanups"} /\ shut # "draining"
        BY <1>1, Zenon
      <4> QED BY <1>7, <1>8, <4>1, Zenon DEF Swept
    <3> QED BY <1>0, <1>4, <1>7, <3>1, <3>2, Zenon DEF StrandInv
  <2>5. op'.kind # "removeRetired"
    BY <1>3
  <2> QED BY <1>7, <2>2, <2>3, <2>4, <2>5, Zenon DEF StrandInv
<1> QED BY <1>9, <1>10, <1>11, Zenon DEF LifecycleInv

\* The end of UpdateProvider: the old generation is signalled and left to its cleanup.
LEMMA RetireCycle == ASSUME IInv, LifecycleInv, Retire PROVE LifecycleInv'
<1> USE DEF lifeVars, workVars, genVars, shutVars, opVars, reqVars, poolVars, histVars
<1>0. TypeOK /\ Positions /\ LifeInv /\ ShutInv /\ StrandInv
  BY Zenon DEF IInv, LifecycleInv
<1>1. /\ op.kind = "retire" /\ op' = Free
      /\ cleanup' = [cleanup EXCEPT ![op.gen] = "waiting"]
      /\ closing' = [closing EXCEPT ![op.gen] = TRUE]
      /\ UNCHANGED born /\ UNCHANGED current /\ UNCHANGED queue /\ UNCHANGED wst
      /\ UNCHANGED late /\ UNCHANGED pc /\ UNCHANGED slot
      /\ UNCHANGED shut /\ UNCHANGED shutGen /\ UNCHANGED shutLive
  BY Zenon DEF Retire, signalClosing
<1>2. PICK n \in Gens : n = op.gen
  BY <1>0, <1>1, Zenon DEF Positions
<1>3. /\ op'.kind = "free" /\ op'.gen = NoGen /\ (inSlice' <=> inSlice)
  BY <1>1 DEF Lock, Free, Retire
<1>4. \A g : (Live(g)' <=> Live(g)) /\ (NeverStarted(g)' <=> NeverStarted(g))
  BY <1>1, StillLive, Zenon
<1>5. /\ cleanup'[n] = "waiting"
      /\ \A g \in Gens : g # n => cleanup'[g] = cleanup[g]
  BY <1>0, <1>1, <1>2, Zenon DEF TypeOK, LifeTypes
<1>6. /\ closing'[n] /\ \A g \in Gens : (closing'[g] => g = n \/ closing[g])
      /\ \A g \in Gens : (closing[g] => closing'[g])
  BY <1>0, <1>1, <1>2, Zenon DEF TypeOK, LifeTypes
<1>7. /\ ~Preparing' /\ ~Moving' /\ ~Removing' /\ Moving /\ ~Updating' /\ ~Preparing
      /\ op'.kind \notin {"removeDrain", "removeRetired"}
      /\ op.kind \notin {"removeWait", "removeDrain"}
  BY <1>1, <1>3, Zenon DEF Preparing, Moving, Removing, Updating
<1>8. \A g \in Gens : Retiring(g)' <=> g = n \/ Retiring(g)
  BY <1>5, Zenon DEF Retiring
<1>9. LifeInv'
  <2>1. Unborn'
    <3>1. \A g \in Gens : g > born => g # n
      BY <1>0, <1>2, Zenon DEF LifeInv, Unborn
    <3> QED BY <1>0, <1>1, <1>3, <1>5, <1>6, <3>1, ConstantFacts, Zenon DEF LifeInv, Unborn
  <2>2. (\A g \in Gens : Live(g) => g = current \/ Retiring(g) \/ (Moving /\ op.gen = g))'
    BY <1>0, <1>1, <1>2, <1>4, <1>8, Zenon DEF LifeInv
  <2>3. (\A g \in Gens : cleanup[g] \in {"draining", "done"} => ~Live(g))'
    BY <1>0, <1>4, <1>5, Zenon DEF LifeInv
  <2>4. (current = NoGen => ~inSlice)' /\ (~inSlice => \A g \in Gens : ~Live(g))'
    BY <1>0, <1>1, <1>3, <1>4, Zenon DEF LifeInv
  <2> QED BY <1>7, <2>1, <2>2, <2>3, <2>4, Zenon DEF LifeInv
<1>10. ShutInv'
  <2>1. shut = "running" /\ shutLive' = {}
    BY <1>0, <1>1, <1>7, Zenon DEF ShutInv, StrandInv
  <2> QED BY <1>1, <1>7, <2>1, Zenon DEF ShutInv
<1>11. StrandInv'
  <2>1. \A g : Clean(g) => Clean(g)'
    BY <1>1, CleanCallers, Zenon
  <2>2. (\A w \in Workers : wst[w] \in {"draining", "exited"} => closing[w[1]])'
    BY <1>0, <1>1, <1>6, ConstantFacts, Zenon DEF StrandInv
  <2>3. (~inSlice /\ current # NoGen => NeverStarted(current))'
    BY <1>0, <1>1, <1>3, Zenon DEF StrandInv, NeverStarted
  <2>4. (\A g \in Gens : closing[g] /\ ~Swept(g) /\ ~Clean(g) =>
          NeverStarted(g) /\ ~(Preparing /\ op.gen = g))'
    <3> SUFFICES ASSUME NEW g \in Gens, closing'[g], ~Swept(g)', ~Clean(g)'
                 PROVE  NeverStarted(g)' /\ ~(Preparing' /\ op'.gen = g)
      BY Zenon
    <3>1. g # n /\ ~Retiring(g)
      BY <1>8, Zenon DEF Swept
    <3>2. closing[g] /\ ~Clean(g) /\ ~Swept(g)
      BY <1>1, <1>2, <1>6, <1>7, <2>1, <3>1, Zenon DEF Swept
    <3> QED BY <1>0, <1>4, <1>7, <3>2, Zenon DEF StrandInv
  <2>5. op'.kind # "removeRetired"
    BY <1>3
  <2> QED BY <1>7, <2>2, <2>3, <2>4, <2>5, Zenon DEF StrandInv
<1> QED BY <1>9, <1>10, <1>11, Zenon DEF LifecycleInv

\* The cleanup goroutine, but for its drain.
LEMMA CleanupCycle ==
    ASSUME IInv, LifecycleInv, NEW n \in Gens, CleanupDrain(n) \/ CleanupDone(n) PROVE LifecycleInv'
<1> USE DEF lifeVars, workVars, genVars, shutVars, opVars, reqVars, poolVars, histVars
<1>0. TypeOK /\ Positions /\ LifeInv /\ ShutInv /\ StrandInv
  BY Zenon DEF IInv, LifecycleInv
<1>1. /\ UNCHANGED op /\ UNCHANGED closing
      /\ UNCHANGED born /\ UNCHANGED current /\ UNCHANGED queue /\ UNCHANGED wst
      /\ UNCHANGED late /\ UNCHANGED pc /\ UNCHANGED slot
      /\ UNCHANGED shut /\ UNCHANGED shutGen /\ UNCHANGED shutLive
  BY Zenon DEF CleanupDrain, CleanupDone
<1>2. PICK c \in {"draining", "done"} :
        /\ cleanup' = [cleanup EXCEPT ![n] = c] /\ cleanup[n] \in {"waiting", "draining"}
        /\ c = "done" => queue[n] = << >>
        /\ ~Live(n)
  BY <1>0, Zenon DEF CleanupDrain, CleanupDone, LifeInv
<1>3. /\ inSlice' <=> inSlice
      /\ Preparing' <=> Preparing
      /\ Moving' <=> Moving
      /\ Removing' <=> Removing
      /\ Updating' <=> Updating
  BY <1>1 DEF CleanupDrain, CleanupDone, Preparing, Moving, Removing, Updating
<1>4. \A g : (Live(g)' <=> Live(g)) /\ (NeverStarted(g)' <=> NeverStarted(g))
  BY <1>1, StillLive, Zenon
<1>5. /\ cleanup'[n] = c
      /\ \A g \in Gens : g # n => cleanup'[g] = cleanup[g]
  BY <1>0, <1>2, Zenon DEF TypeOK, LifeTypes
<1>6. \A g \in Gens : g # n => (Retiring(g)' <=> Retiring(g))
  BY <1>5, Zenon DEF Retiring
<1>7. cleanup[n] # "none"
  BY <1>2, Zenon
<1>8. LifeInv'
  <2>1. Unborn'
    BY <1>0, <1>1, <1>5, <1>7, Zenon DEF LifeInv, Unborn
  <2>2. (\A g \in Gens : Live(g) => g = current \/ Retiring(g) \/ (Moving /\ op.gen = g))'
    BY <1>0, <1>1, <1>2, <1>3, <1>4, <1>6, Zenon DEF LifeInv
  <2>3. (\A g \in Gens : cleanup[g] \in {"draining", "done"} => ~Live(g))'
    BY <1>0, <1>2, <1>4, <1>5, Zenon DEF LifeInv
  <2>4. (current = NoGen => ~inSlice)' /\ (~inSlice => \A g \in Gens : ~Live(g))'
    BY <1>0, <1>1, <1>3, <1>4, Zenon DEF LifeInv
  <2>5. (Preparing \/ Removing => op.gen = current)'
    BY <1>0, <1>1, <1>3, Zenon DEF LifeInv
  <2>6. (Preparing => cleanup[op.gen] = "none")'
    <3>1. Preparing => cleanup[op.gen] = "none" /\ op.gen \in Gens
      BY <1>0, PreparedIsNew, Zenon DEF LifeInv
    <3> QED BY <1>1, <1>3, <1>5, <1>7, <3>1, Zenon
  <2>7. (op.kind \in {"removeDrain", "removeRetired"} => ~Live(op.gen))'
    BY <1>0, <1>1, <1>4, Zenon DEF LifeInv
  <2> QED BY <2>1, <2>2, <2>3, <2>4, <2>5, <2>6, <2>7, Zenon DEF LifeInv
<1>9. ShutInv'
  <2>1. \A g \in shutLive : g \in Gens
    BY <1>0, Zenon DEF TypeOK, ShutTypes
  <2>2. \A g \in Gens : g # n => (Awaited(g)' <=> Awaited(g))
    BY <1>1, <1>6, Zenon DEF Awaited
  <2> QED BY <1>0, <1>1, <1>2, <1>3, <1>4, <2>1, <2>2, Zenon DEF ShutInv
<1>10. StrandInv'
  <2>1. \A g : Clean(g) => Clean(g)'
    BY <1>1, CleanCallers, Zenon
  <2>2. (\A w \in Workers : wst[w] \in {"draining", "exited"} => closing[w[1]])'
    BY <1>0, <1>1, Zenon DEF StrandInv
  <2>3. (~inSlice /\ current # NoGen => NeverStarted(current))'
    BY <1>0, <1>1, <1>3, Zenon DEF StrandInv, NeverStarted
  <2>4. (\A g \in Gens : closing[g] /\ ~Swept(g) /\ ~Clean(g) =>
          NeverStarted(g) /\ ~(Preparing /\ op.gen = g))'
    <3> SUFFICES ASSUME NEW g \in Gens, closing'[g], ~Swept(g)', ~Clean(g)'
                 PROVE  NeverStarted(g)' /\ ~(Preparing' /\ op'.gen = g)
      BY Zenon
    <3>1. closing[g] /\ ~Clean(g)
      BY <1>1, <2>1, Zenon
    <3>2. g # n
      <4> SUFFICES ASSUME g = n PROVE FALSE
        OBVIOUS
      <4>1. c # "draining"
        BY <1>5, Zenon DEF Swept, Retiring
      <4> QED BY <1>2, <3>1, <4>1, EmptyIsClean, Zenon
    <3>3. ~Swept(g)
      BY <1>1, <1>3, <1>6, <3>2, Zenon DEF Swept
    <3> QED BY <1>0, <1>1, <1>3, <1>4, <3>1, <3>3, Zenon DEF StrandInv
  <2>5. (Moving => shut = "running" /\ current # NoGen /\ ~closing[current])'
        /\ (Removing => closing[op.gen])' /\ (op.kind = "removeRetired" => Clean(op.gen))'
    BY <1>0, <1>1, <1>3, <2>1, Zenon DEF StrandInv
  <2> QED BY <2>2, <2>3, <2>4, <2>5, Zenon DEF StrandInv
<1> QED BY <1>8, <1>9, <1>10, Zenon DEF LifecycleInv

\* RemoveProvider signals the current queue.
LEMMA RemoveBeginCycle == ASSUME IInv, LifecycleInv, RemoveBegin PROVE LifecycleInv'
<1> USE DEF lifeVars, workVars, genVars, shutVars, opVars, reqVars, poolVars, histVars
<1>0. TypeOK /\ Positions /\ LifeInv /\ ShutInv /\ StrandInv
  BY Zenon DEF IInv, LifecycleInv
<1>1. /\ op = Free /\ op' = Lock("removeWait", current, NoReq) /\ current # NoGen
      /\ closing' = [closing EXCEPT ![current] = TRUE]
      /\ UNCHANGED born /\ UNCHANGED current /\ UNCHANGED queue /\ UNCHANGED wst
      /\ UNCHANGED late /\ UNCHANGED pc /\ UNCHANGED slot /\ UNCHANGED cleanup
      /\ UNCHANGED shut /\ UNCHANGED shutGen /\ UNCHANGED shutLive
  BY Zenon DEF RemoveBegin, signalClosing
<1>2. PICK n \in Gens : n = current
  BY <1>0, <1>1, Zenon DEF TypeOK, LifeTypes
<1>3. /\ op'.kind = "removeWait" /\ op'.gen = n /\ op.kind = "free" /\ (inSlice' <=> inSlice)
  BY <1>1, <1>2 DEF Lock, Free, RemoveBegin
<1>4. \A g : (Live(g)' <=> Live(g)) /\ (NeverStarted(g)' <=> NeverStarted(g))
  BY <1>1, StillLive, Zenon
<1>5. /\ closing'[n] /\ \A g \in Gens : (closing'[g] => g = n \/ closing[g])
      /\ \A g \in Gens : (closing[g] => closing'[g])
  BY <1>0, <1>1, <1>2, Zenon DEF TypeOK, LifeTypes
<1>6. /\ ~Preparing' /\ ~Moving' /\ Removing' /\ ~Moving /\ ~Updating'
      /\ op'.kind \notin {"removeDrain", "removeRetired"}
      /\ op.kind \notin {"removeWait", "removeDrain"}
  BY <1>3 DEF Preparing, Moving, Removing, Updating
<1>7. \A g \in Gens : Retiring(g)' <=> Retiring(g)
  BY <1>1, Zenon DEF Retiring
<1>8. LifeInv'
  <2>1. Unborn'
    <3>1. \A g \in Gens : g > born => g # n
      BY <1>0, <1>2, Zenon DEF LifeInv, Unborn
    <3> QED BY <1>0, <1>1, <1>3, <1>5, <3>1, Zenon DEF LifeInv, Unborn
  <2>2. (\A g \in Gens : Live(g) => g = current \/ Retiring(g) \/ (Moving /\ op.gen = g))'
    BY <1>0, <1>1, <1>4, <1>6, <1>7, Zenon DEF LifeInv
  <2>3. (\A g \in Gens : cleanup[g] \in {"draining", "done"} => ~Live(g))'
    BY <1>0, <1>1, <1>4, Zenon DEF LifeInv
  <2>4. (current = NoGen => ~inSlice)' /\ (~inSlice => \A g \in Gens : ~Live(g))'
    BY <1>0, <1>1, <1>3, <1>4, Zenon DEF LifeInv
  <2>5. op'.gen = current'
    BY <1>1, <1>2, <1>3, Zenon
  <2> QED BY <1>6, <2>1, <2>2, <2>3, <2>4, <2>5, Zenon DEF LifeInv
<1>9. ShutInv'
  <2>1. \A g \in shutLive : g \in Gens
    BY <1>0, Zenon DEF TypeOK, ShutTypes
  <2>2. \A g \in Gens : (Awaited(g)' <=> Awaited(g))
    BY <1>1, <1>7, Zenon DEF Awaited
  <2> QED BY <1>0, <1>1, <1>4, <1>6, <2>1, <2>2, Zenon DEF ShutInv
<1>10. StrandInv'
  <2>1. \A g : Clean(g) => Clean(g)'
    BY <1>1, CleanCallers, Zenon
  <2>2. (\A w \in Workers : wst[w] \in {"draining", "exited"} => closing[w[1]])'
    BY <1>0, <1>1, <1>5, ConstantFacts, Zenon DEF StrandInv
  <2>3. (~inSlice /\ current # NoGen => NeverStarted(current))'
    BY <1>0, <1>1, <1>3, Zenon DEF StrandInv, NeverStarted
  <2>4. (\A g \in Gens : closing[g] /\ ~Swept(g) /\ ~Clean(g) =>
          NeverStarted(g) /\ ~(Preparing /\ op.gen = g))'
    <3> SUFFICES ASSUME NEW g \in Gens, closing'[g], ~Swept(g)', ~Clean(g)'
                 PROVE  NeverStarted(g)' /\ ~(Preparing' /\ op'.gen = g)
      BY Zenon
    <3>1. g # n
      BY <1>3, Zenon DEF Swept
    <3>2. closing[g] /\ ~Clean(g) /\ ~Swept(g)
      BY <1>1, <1>5, <1>6, <1>7, <2>1, <3>1, Zenon DEF Swept
    <3> QED BY <1>0, <1>4, <1>6, <3>2, Zenon DEF StrandInv
  <2>5. (Removing => closing[op.gen])' /\ op'.kind # "removeRetired"
    BY <1>3, <1>5, <1>6, Zenon
  <2> QED BY <1>6, <2>2, <2>3, <2>4, <2>5, Zenon DEF StrandInv
<1> QED BY <1>8, <1>9, <1>10, Zenon DEF LifecycleInv

\* RemoveProvider goes on when the workers have exited, then when the queue is empty.
LEMMA RemoveGoesOn == ASSUME IInv, LifecycleInv, RemoveWaited \/ RemoveDrained PROVE LifecycleInv'
<1> USE DEF lifeVars, workVars, genVars, shutVars, opVars, reqVars, poolVars, histVars
<1>0. TypeOK /\ Positions /\ LifeInv /\ ShutInv /\ StrandInv
  BY Zenon DEF IInv, LifecycleInv
<1>1. /\ UNCHANGED born /\ UNCHANGED current /\ UNCHANGED queue /\ UNCHANGED wst
      /\ UNCHANGED late /\ UNCHANGED pc /\ UNCHANGED slot /\ UNCHANGED cleanup
      /\ UNCHANGED closing /\ UNCHANGED shut /\ UNCHANGED shutGen /\ UNCHANGED shutLive
  BY Zenon DEF RemoveWaited, RemoveDrained
<1>2. /\ op.kind \in {"removeWait", "removeDrain"} /\ op.kind # "free"
      /\ op'.kind \in {"removeDrain", "removeRetired"} /\ op'.gen = op.gen
      /\ op'.kind = "removeRetired" => queue[op.gen] = << >> /\ op.kind = "removeDrain"
      /\ op'.kind = "removeDrain" => ~Live(op.gen)
  BY <1>0 DEF RemoveWaited, RemoveDrained, TypeOK, LockTypes
<1>3. op.gen \in Gens /\ ~Live(op.gen)
  BY <1>0, <1>2, Zenon DEF Positions, LifeInv
<1>4. \A g : (Live(g)' <=> Live(g)) /\ (NeverStarted(g)' <=> NeverStarted(g))
  BY <1>1, StillLive, Zenon
<1>5. inSlice' <=> inSlice
  BY DEF RemoveWaited, RemoveDrained
<1>6. ~Preparing' /\ ~Moving' /\ Removing' /\ ~Moving /\ ~Updating' /\ Removing
  BY <1>2, Zenon DEF Preparing, Moving, Removing, Updating
<1>7. \A g \in Gens : Retiring(g)' <=> Retiring(g)
  BY <1>1, Zenon DEF Retiring
<1>8. LifeInv'
  <2>1. Unborn'
    BY <1>0, <1>1, <1>2, Zenon DEF LifeInv, Unborn
  <2>2. (\A g \in Gens : Live(g) => g = current \/ Retiring(g) \/ (Moving /\ op.gen = g))'
    BY <1>0, <1>1, <1>4, <1>6, <1>7, Zenon DEF LifeInv
  <2>3. (\A g \in Gens : cleanup[g] \in {"draining", "done"} => ~Live(g))'
    BY <1>0, <1>1, <1>4, Zenon DEF LifeInv
  <2>4. (current = NoGen => ~inSlice)' /\ (~inSlice => \A g \in Gens : ~Live(g))'
    BY <1>0, <1>1, <1>4, <1>5, Zenon DEF LifeInv
  <2>5. op'.gen = current'
    BY <1>0, <1>1, <1>2, <1>6, Zenon DEF LifeInv
  <2>6. (~Live(op.gen))'
    BY <1>1, <1>2, <1>3, Zenon DEF Live
  <2> QED BY <1>6, <2>1, <2>2, <2>3, <2>4, <2>5, <2>6, Zenon DEF LifeInv
<1>9. ShutInv'
  <2>1. \A g \in shutLive : g \in Gens
    BY <1>0, Zenon DEF TypeOK, ShutTypes
  <2>2. \A g \in Gens : (Awaited(g)' <=> Awaited(g))
    BY <1>1, <1>7, Zenon DEF Awaited
  <2> QED BY <1>0, <1>1, <1>4, <1>6, <2>1, <2>2, Zenon DEF ShutInv
<1>10. StrandInv'
  <2>1. \A g : Clean(g) => Clean(g)'
    BY <1>1, CleanCallers, Zenon
  <2>2. (\A w \in Workers : wst[w] \in {"draining", "exited"} => closing[w[1]])'
    BY <1>0, <1>1, Zenon DEF StrandInv
  <2>3. (~inSlice /\ current # NoGen => NeverStarted(current))'
    BY <1>0, <1>1, <1>5, Zenon DEF StrandInv, NeverStarted
  <2>4. (op.kind = "removeRetired" => Clean(op.gen))'
    <3>1. op'.kind = "removeRetired" => queue'[op'.gen] = << >>
      BY <1>1, <1>2, Zenon
    <3>2. op'.kind = "removeRetired" => Clean(op.gen)
      BY <1>2, EmptyIsClean, Zenon
    <3> QED BY <1>1, <1>2, <3>2, Zenon DEF Clean, Queued
  <2>5. (\A g \in Gens : closing[g] /\ ~Swept(g) /\ ~Clean(g) =>
          NeverStarted(g) /\ ~(Preparing /\ op.gen = g))'
    <3> SUFFICES ASSUME NEW g \in Gens, closing'[g], ~Swept(g)', ~Clean(g)'
                 PROVE  NeverStarted(g)' /\ ~(Preparing' /\ op'.gen = g)
      BY Zenon
    <3>1. closing[g] /\ ~Clean(g)
      BY <1>1, <2>1, Zenon
    <3>2. g # op.gen
      <4> SUFFICES ASSUME g = op.gen PROVE FALSE
        BY Zenon
      <4>1. op'.kind # "removeDrain"
        BY <1>2, Zenon DEF Swept
      <4> QED BY <1>2, <3>1, <4>1, EmptyIsClean, Zenon
    <3>3. ~Swept(g)
      BY <1>1, <1>6, <1>7, <3>2, Zenon DEF Swept
    <3> QED BY <1>0, <1>4, <1>6, <3>1, <3>3, Zenon DEF StrandInv
  <2>6. closing'[op'.gen]
    BY <1>0, <1>1, <1>2, <1>6, Zenon DEF StrandInv
  <2> QED BY <1>6, <2>2, <2>3, <2>4, <2>5, <2>6, Zenon DEF StrandInv
<1> QED BY <1>8, <1>9, <1>10, Zenon DEF LifecycleInv

\* The provider goes once the retired generations are done: nobody is left running.
LEMMA RemoveFinishCycle == ASSUME IInv, LifecycleInv, RemoveFinish PROVE LifecycleInv'
<1> USE DEF lifeVars, workVars, genVars, shutVars, opVars, reqVars, poolVars, histVars
<1>0. TypeOK /\ Positions /\ LifeInv /\ ShutInv /\ StrandInv
  BY Zenon DEF IInv, LifecycleInv
<1>1. /\ op.kind = "removeRetired" /\ RetiredDone /\ op' = Free
      /\ current' = NoGen /\ inSlice' = FALSE
      /\ UNCHANGED born /\ UNCHANGED queue /\ UNCHANGED wst
      /\ UNCHANGED late /\ UNCHANGED pc /\ UNCHANGED slot /\ UNCHANGED cleanup
      /\ UNCHANGED closing /\ UNCHANGED shut /\ UNCHANGED shutGen /\ UNCHANGED shutLive
  BY Zenon DEF RemoveFinish
<1>2. /\ op'.kind = "free" /\ op'.gen = NoGen
  BY <1>1, Zenon DEF Lock, Free
<1>3. /\ ~Preparing' /\ ~Moving' /\ ~Removing' /\ ~Moving /\ ~Updating' /\ Removing
      /\ op.kind \notin {"removeWait", "removeDrain"} /\ op.kind # "free"
      /\ op'.kind \notin {"removeDrain", "removeRetired"}
  BY <1>1, <1>2, Zenon DEF Preparing, Moving, Removing, Updating
<1>4. op.gen \in Gens /\ ~Live(op.gen) /\ op.gen = current /\ Clean(op.gen)
  BY <1>0, <1>1, <1>3, Zenon DEF Positions, LifeInv, StrandInv
<1>5. \A g : (Live(g)' <=> Live(g)) /\ (NeverStarted(g)' <=> NeverStarted(g))
  BY <1>1, StillLive, Zenon
<1>6. \A g \in Gens : ~Retiring(g)
  BY <1>1, Zenon DEF RetiredDone
<1>7. \A g \in Gens : ~Live(g)
  BY <1>0, <1>3, <1>4, <1>6, Zenon DEF LifeInv
<1>8. LifeInv'
  <2>1. Unborn'
    BY <1>0, <1>1, <1>2, ConstantFacts, Zenon DEF LifeInv, Unborn
  <2>2. \A g \in Gens : ~Live(g)'
    BY <1>5, <1>7, Zenon
  <2>3. ~inSlice'
    BY <1>1
  <2> QED BY <1>3, <2>1, <2>2, <2>3, Zenon DEF LifeInv
<1>9. ShutInv'
  <2>1. \A g \in shutLive : g \in Gens
    BY <1>0, Zenon DEF TypeOK, ShutTypes
  <2> QED BY <1>0, <1>1, <1>3, <1>5, <1>7, <2>1, Zenon DEF ShutInv
<1>10. StrandInv'
  <2>1. \A g : Clean(g) => Clean(g)'
    BY <1>1, CleanCallers, Zenon
  <2>2. (\A w \in Workers : wst[w] \in {"draining", "exited"} => closing[w[1]])'
    BY <1>0, <1>1, Zenon DEF StrandInv
  <2>3. (\A g \in Gens : closing[g] /\ ~Swept(g) /\ ~Clean(g) =>
          NeverStarted(g) /\ ~(Preparing /\ op.gen = g))'
    <3> SUFFICES ASSUME NEW g \in Gens, closing'[g], ~Swept(g)', ~Clean(g)'
                 PROVE  NeverStarted(g)' /\ ~(Preparing' /\ op'.gen = g)
      BY Zenon
    <3>1. closing[g] /\ ~Clean(g) /\ g # op.gen
      BY <1>1, <1>4, <2>1, Zenon
    <3>2. ~Swept(g)
      BY <1>1, <1>3, <1>4, <1>6, <3>1, Zenon DEF Swept
    <3> QED BY <1>0, <1>3, <1>5, <3>1, <3>2, Zenon DEF StrandInv
  <2> QED BY <1>1, <1>3, <2>2, <2>3, Zenon DEF StrandInv
<1> QED BY <1>8, <1>9, <1>10, Zenon DEF LifecycleInv

\* Shutdown signals the current queue.
LEMMA ShutdownBeginCycle == ASSUME IInv, LifecycleInv, ShutdownBegin PROVE LifecycleInv'
<1> USE DEF lifeVars, workVars, genVars, shutVars, opVars, reqVars, poolVars, histVars
<1>0. TypeOK /\ Positions /\ LifeInv /\ ShutInv /\ StrandInv
  BY Zenon DEF IInv, LifecycleInv
<1>1. /\ shut = "running" /\ ~Updating /\ shut' = "signalled"
      /\ shutLive' = {g \in Gens : Live(g)}
      /\ UNCHANGED born /\ UNCHANGED current /\ UNCHANGED queue /\ UNCHANGED wst
      /\ UNCHANGED late /\ UNCHANGED pc /\ UNCHANGED slot /\ UNCHANGED cleanup
      /\ UNCHANGED op /\ UNCHANGED shutGen
  BY Zenon DEF ShutdownBegin
<1>2. /\ \A g \in Gens : (closing'[g] => g = current \/ closing[g])
      /\ \A g \in Gens : (closing[g] => closing'[g])
      /\ inSlice' <=> inSlice
  <2>1. CASE current = NoGen
    BY <2>1, Zenon DEF ShutdownBegin
  <2>2. CASE current # NoGen
    <3>1. closing' = [closing EXCEPT ![current] = TRUE] /\ UNCHANGED inSlice
      BY <2>2, Zenon DEF ShutdownBegin, signalClosing
    <3> QED BY <1>0, <3>1, Zenon DEF TypeOK, LifeTypes
  <2> QED BY <2>1, <2>2, Zenon
<1>3. \A g : (Live(g)' <=> Live(g)) /\ (NeverStarted(g)' <=> NeverStarted(g))
  BY <1>1, StillLive, Zenon
<1>4. /\ Preparing' <=> Preparing
      /\ Removing' <=> Removing
      /\ ~Updating' /\ ~Moving /\ ~Moving'
  BY <1>1, Zenon DEF Preparing, Moving, Removing, Updating
<1>5. \A g \in Gens : Retiring(g)' <=> Retiring(g)
  BY <1>1, Zenon DEF Retiring
<1>6. \A g \in Gens : Live(g) => g = current \/ Retiring(g)
  BY <1>0, <1>4, Zenon DEF LifeInv
<1>7. LifeInv'
  <2>1. Unborn'
    BY <1>0, <1>1, <1>2, Zenon DEF LifeInv, Unborn
  <2>2. (\A g \in Gens : Live(g) => g = current \/ Retiring(g) \/ (Moving /\ op.gen = g))'
    BY <1>1, <1>3, <1>5, <1>6, Zenon
  <2>3. (\A g \in Gens : cleanup[g] \in {"draining", "done"} => ~Live(g))'
    BY <1>0, <1>1, <1>3, Zenon DEF LifeInv
  <2>4. (current = NoGen => ~inSlice)' /\ (~inSlice => \A g \in Gens : ~Live(g))'
    BY <1>0, <1>1, <1>2, <1>3, Zenon DEF LifeInv
  <2>5. (Preparing \/ Removing => op.gen = current)' /\ (Preparing => cleanup[op.gen] = "none")'
    BY <1>0, <1>1, <1>4, Zenon DEF LifeInv
  <2>6. (op.kind \in {"removeDrain", "removeRetired"} => ~Live(op.gen))'
    BY <1>0, <1>1, <1>3, Zenon DEF LifeInv
  <2> QED BY <2>1, <2>2, <2>3, <2>4, <2>5, <2>6, Zenon DEF LifeInv
<1>8. ShutInv'
  <2>1. \A g \in shutLive' : g \in Gens /\ Live(g)
    BY <1>1, Zenon
  <2>2. \A g \in Gens : Live(g) => ~NeverStarted(g)
    <3>1. "none" \notin LiveStates
      BY DEF LiveStates
    <3> QED BY <3>1, Zenon DEF Live, NeverStarted
  <2>3. \A g \in Gens : Live(g) => Awaited(g)'
    BY <1>1, <1>5, <1>6, Zenon DEF Awaited
  <2>4. shut' # "running"
    BY <1>1
  <2> QED BY <1>3, <1>4, <2>1, <2>2, <2>3, <2>4, Zenon DEF ShutInv
<1>9. StrandInv'
  <2>1. \A g : Clean(g) => Clean(g)'
    BY <1>1, CleanCallers, Zenon
  <2>2. (\A w \in Workers : wst[w] \in {"draining", "exited"} => closing[w[1]])'
    BY <1>0, <1>1, <1>2, ConstantFacts, Zenon DEF StrandInv
  <2>3. (~inSlice /\ current # NoGen => NeverStarted(current))'
    BY <1>0, <1>1, <1>2, Zenon DEF StrandInv, NeverStarted
  <2>4. (Removing => closing[op.gen])'
    <3>1. Removing => op.gen \in Gens
      <4>1. Removing => op.kind # "free"
        BY DEF Removing
      <4> QED BY <1>0, <4>1, Zenon DEF Positions
    <3> QED BY <1>0, <1>1, <1>2, <1>4, <3>1, Zenon DEF StrandInv
  <2>5. (op.kind = "removeRetired" => Clean(op.gen))'
    BY <1>0, <1>1, <2>1, Zenon DEF StrandInv
  <2>6. (\A g \in Gens : closing[g] /\ ~Swept(g) /\ ~Clean(g) =>
          NeverStarted(g) /\ ~(Preparing /\ op.gen = g))'
    <3> SUFFICES ASSUME NEW g \in Gens, closing'[g], ~Swept(g)', ~Clean(g)'
                 PROVE  NeverStarted(g)' /\ ~(Preparing' /\ op'.gen = g)
      BY Zenon
    <3>1. g # current
      BY <1>1, Zenon DEF Swept
    <3>2. closing[g] /\ ~Clean(g)
      BY <1>2, <2>1, <3>1, Zenon
    <3>3. ~Swept(g)
      <4>1. shut # "draining"
        BY <1>1
      <4> QED BY <1>1, <1>4, <1>5, <3>1, <4>1, Zenon DEF Swept
    <3> QED BY <1>0, <1>1, <1>3, <1>4, <3>2, <3>3, Zenon DEF StrandInv
  <2> QED BY <1>4, <2>2, <2>3, <2>4, <2>5, <2>6, Zenon DEF StrandInv
<1> QED BY <1>7, <1>8, <1>9, Zenon DEF LifecycleInv

\* The waits and the end of Shutdown change only how far it is.
LEMMA ShutdownGoesOn ==
    ASSUME IInv, LifecycleInv,
           ShutdownVisit \/ ShutdownWaited \/ ShutdownCleanups \/ ShutdownDone
    PROVE  LifecycleInv'
<1> USE DEF lifeVars, workVars, genVars, shutVars, opVars, reqVars, poolVars, histVars
<1>0. TypeOK /\ Positions /\ LifeInv /\ ShutInv /\ StrandInv
  BY Zenon DEF IInv, LifecycleInv
<1>1. /\ UNCHANGED shutLive
      /\ UNCHANGED born /\ UNCHANGED current /\ UNCHANGED queue /\ UNCHANGED wst
      /\ UNCHANGED late /\ UNCHANGED pc /\ UNCHANGED slot /\ UNCHANGED cleanup
      /\ UNCHANGED op /\ UNCHANGED closing
  BY Zenon DEF ShutdownVisit, ShutdownWaited, ShutdownCleanups, ShutdownDone
<1>2. /\ inSlice' <=> inSlice
      /\ shut # "running" /\ shut' # "running"
  BY DEF ShutdownVisit, ShutdownWaited, ShutdownCleanups, ShutdownDone
<1>3. \A g : (Live(g)' <=> Live(g)) /\ (NeverStarted(g)' <=> NeverStarted(g))
  BY <1>1, StillLive, Zenon
<1>4. /\ Preparing' <=> Preparing
      /\ Removing' <=> Removing
      /\ Moving' <=> Moving
      /\ Updating' <=> Updating
  BY <1>1 DEF Preparing, Moving, Removing, Updating
<1>5. \A g \in Gens : Retiring(g)' <=> Retiring(g)
  BY <1>1, Zenon DEF Retiring
<1>6. LifeInv'
  <2>1. Unborn'
    BY <1>0, <1>1, Zenon DEF LifeInv, Unborn
  <2>2. (\A g \in Gens : Live(g) => g = current \/ Retiring(g) \/ (Moving /\ op.gen = g))'
    BY <1>0, <1>1, <1>3, <1>4, <1>5, Zenon DEF LifeInv
  <2>3. (\A g \in Gens : cleanup[g] \in {"draining", "done"} => ~Live(g))'
    BY <1>0, <1>1, <1>3, Zenon DEF LifeInv
  <2>4. (current = NoGen => ~inSlice)' /\ (~inSlice => \A g \in Gens : ~Live(g))'
    BY <1>0, <1>1, <1>2, <1>3, Zenon DEF LifeInv
  <2>5. (Preparing \/ Removing => op.gen = current)' /\ (Preparing => cleanup[op.gen] = "none")'
    BY <1>0, <1>1, <1>4, Zenon DEF LifeInv
  <2>6. (op.kind \in {"removeDrain", "removeRetired"} => ~Live(op.gen))'
    BY <1>0, <1>1, <1>3, Zenon DEF LifeInv
  <2> QED BY <2>1, <2>2, <2>3, <2>4, <2>5, <2>6, Zenon DEF LifeInv
<1>7. ShutInv'
  <2>1. \A g \in shutLive : g \in Gens
    BY <1>0, Zenon DEF TypeOK, ShutTypes
  <2>2. ASSUME NEW g \in Gens, Live(g), Awaited(g) PROVE Awaited(g)'
    <3>1. CASE ShutdownVisit
      BY <1>5, <2>2, <3>1, Zenon DEF Awaited, ShutdownVisit
    <3>2. CASE ShutdownWaited
      BY <1>5, <2>2, <3>2, Zenon DEF Awaited, ShutdownWaited
    <3>3. CASE ShutdownCleanups
      BY <2>2, <3>3, Zenon DEF Awaited, ShutdownCleanups, RetiredDone
    <3>4. CASE ShutdownDone
      BY <2>2, <3>4, Zenon DEF Awaited, ShutdownDone
    <3> QED BY <3>1, <3>2, <3>3, <3>4, Zenon
  <2> QED BY <1>0, <1>1, <1>2, <1>3, <1>4, <2>1, <2>2, Zenon DEF ShutInv
<1>8. StrandInv'
  <2>1. \A g : Clean(g) => Clean(g)'
    BY <1>1, CleanCallers, Zenon
  <2>2. (\A w \in Workers : wst[w] \in {"draining", "exited"} => closing[w[1]])'
    BY <1>0, <1>1, Zenon DEF StrandInv
  <2>3. (~inSlice /\ current # NoGen => NeverStarted(current))'
    BY <1>0, <1>1, <1>2, Zenon DEF StrandInv, NeverStarted
  <2>4. ~Moving' /\ (Removing => closing[op.gen])'
    BY <1>0, <1>1, <1>2, <1>4, Zenon DEF StrandInv
  <2>5. (op.kind = "removeRetired" => Clean(op.gen))'
    BY <1>0, <1>1, <2>1, Zenon DEF StrandInv
  <2>6. ASSUME NEW g \in Gens, Swept(g), ~Clean(g) PROVE Swept(g)'
    <3>1. CASE ShutdownVisit
      BY <1>1, <1>4, <1>5, <2>6, <3>1, Zenon DEF Swept, ShutdownVisit
    <3>2. CASE ShutdownWaited
      BY <1>1, <1>4, <1>5, <2>6, <3>2, Zenon DEF Swept, ShutdownWaited
    <3>3. CASE ShutdownCleanups
      BY <1>1, <1>4, <1>5, <2>6, <3>3, Zenon DEF Swept, ShutdownCleanups
    <3>4. CASE ShutdownDone
      <4>1. shut = "draining" /\ (shutGen # NoGen => queue[shutGen] = << >>)
        BY <3>4, Zenon DEF ShutdownDone
      <4>2. g # shutGen
        BY <2>6, <4>1, EmptyIsClean, ConstantFacts, Zenon
      <4>3. Retiring(g) \/ (op.gen = g /\ (Moving \/ op.kind \in {"removeWait", "removeDrain"}))
        BY <2>6, <4>1, <4>2, Zenon DEF Swept
      <4> QED BY <1>1, <1>4, <1>5, <4>3, Zenon DEF Swept
    <3> QED BY <3>1, <3>2, <3>3, <3>4, Zenon
  <2>7. (\A g \in Gens : closing[g] /\ ~Swept(g) /\ ~Clean(g) =>
          NeverStarted(g) /\ ~(Preparing /\ op.gen = g))'
    <3> SUFFICES ASSUME NEW g \in Gens, closing'[g], ~Swept(g)', ~Clean(g)'
                 PROVE  NeverStarted(g)' /\ ~(Preparing' /\ op'.gen = g)
      BY Zenon
    <3>1. closing[g] /\ ~Clean(g) /\ ~Swept(g)
      BY <1>1, <2>1, <2>6, Zenon
    <3> QED BY <1>0, <1>1, <1>3, <1>4, <3>1, Zenon DEF StrandInv
  <2> QED BY <2>2, <2>3, <2>4, <2>5, <2>7, Zenon DEF StrandInv
<1> QED BY <1>6, <1>7, <1>8, Zenon DEF LifecycleInv

\* The initial state: one generation, whose workers run.
LEMMA InitCycle == Init => LifecycleInv
<1> SUFFICES ASSUME Init PROVE LifecycleInv
  BY Zenon
<1>1. /\ born = 1 /\ current = 1 /\ inSlice /\ shut = "running" /\ shutLive = {}
      /\ op.kind = "free" /\ op.gen = NoGen
      /\ \A g \in Gens : ~closing[g] /\ cleanup[g] = "none"
      /\ \A w \in Workers : wst[w] = IF w[1] = 1 THEN "idle" ELSE "none"
  BY Zenon DEF Init, Free, Lock
<1>2. ~Preparing /\ ~Moving /\ ~Removing /\ ~Updating
      /\ op.kind \notin {"removeDrain", "removeRetired"}
  BY <1>1, Zenon DEF Preparing, Moving, Removing, Updating
<1>3. \A g \in Gens : Live(g) => g = current
  <2>1. "none" \notin LiveStates
    BY DEF LiveStates
  <2> QED BY <1>1, <2>1, Zenon DEF Live, WorkersOf
<1>4. \A g \in Gens : g > born => g # current /\ g # op.gen
  BY <1>1 DEF Gens, NoGen
<1>5. LifeInv
  <2>1. current # NoGen
    BY <1>1 DEF NoGen
  <2>2. \A g \in Gens : cleanup[g] \notin {"draining", "done"}
    BY <1>1, Zenon
  <2> QED BY <1>1, <1>2, <1>3, <1>4, <2>1, <2>2, Zenon DEF LifeInv, Unborn
<1>6. ShutInv
  BY <1>1, <1>2, Zenon DEF ShutInv
<1>7. StrandInv
  <2>1. \A w \in Workers : wst[w] \notin {"draining", "exited"}
    BY <1>1, Zenon
  <2>2. op.kind # "removeRetired"
    BY <1>1, Zenon
  <2> QED BY <1>1, <1>2, <2>1, <2>2, Zenon DEF StrandInv
<1> QED BY <1>5, <1>6, <1>7, Zenon DEF LifecycleInv

\* A step that stands aside keeps all three.
LEMMA AsideCycle == ASSUME IInv, LifecycleInv, Aside PROVE LifecycleInv'
BY AsideLife, AsideShut, AsideStrand, Zenon DEF IInv, LifecycleInv

\* Every step keeps them.
LEMMA NextCycle == IInv /\ LifecycleInv /\ [Next]_vars => LifecycleInv'
<1> SUFFICES ASSUME IInv, LifecycleInv, [Next]_vars PROVE LifecycleInv'
  BY Zenon
<1>0. TypeOK /\ Positions /\ LifeInv /\ StrandInv
  BY Zenon DEF IInv, LifecycleInv
<1>1. ASSUME NEW r \in Requests, Caller(r) \/ Cancel(r) PROVE LifecycleInv'
  <2>1. CASE CreateQueue(r)
    <3>1. Publish("prepare", r) /\ current = NoGen /\ pc' = [pc EXCEPT ![r] = "prepare"]
          /\ UNCHANGED slot
      BY <2>1, Zenon DEF CreateQueue
    <3>2. pc'[r] = "prepare" /\ \A q \in Requests : q # r => pc'[q] = pc[q]
      BY <1>0, <3>1, Zenon DEF TypeOK, CallTypes
    <3>3. \A q \in Requests : pc'[q] = "waiting" => pc[q] = "waiting" /\ slot'[q] = slot[q]
      BY <3>1, <3>2, Zenon
    <3>4. "prepare" # "updatePrepare"
      OBVIOUS
    <3> QED BY <3>1, <3>3, <3>4, PublishCycle, Zenon
  <2>2. CASE ~CreateQueue(r)
    BY <1>1, <2>2, CallerAside, EnqueueAside, AsideCycle, Zenon DEF Caller
  <2> QED BY <2>1, <2>2, Zenon
<1>2. ASSUME NEW w \in Workers, Worker(w) \/ Panic(w) PROVE LifecycleInv'
  BY <1>2, WorkerAside, AsideCycle, Zenon
<1>3. ASSUME NEW g \in Gens, Cleanup(g) PROVE LifecycleInv'
  BY <1>3, CleanupCycle, FailHeadAside, AsideCycle, Zenon DEF Cleanup, CleanupDrainOne
<1>4. ASSUME Holder PROVE LifecycleInv'
  <2>1. CASE RemoveDrainOne
    <3>1. op.gen \in Gens
      BY <1>0, <2>1, Zenon DEF RemoveDrainOne, Positions
    <3> QED BY <2>1, <3>1, FailHeadAside, AsideCycle, Zenon DEF RemoveDrainOne
  <2>2. CASE TransferTake \/ TransferPut \/ TransferFail \/ TransferDone
    BY <1>0, <2>2, TransferAside, AsideCycle, Zenon
  <2> QED BY <1>4, <2>1, <2>2, PrepareCycle, RetireCycle, RemoveGoesOn, RemoveFinishCycle, Zenon
             DEF Holder
<1>5. ASSUME Shutdown PROVE LifecycleInv'
  <2>1. CASE ShutdownDrainOne
    <3>1. shutGen \in Gens
      BY <1>0, <2>1, Zenon DEF ShutdownDrainOne, TypeOK, ShutTypes
    <3> QED BY <2>1, <3>1, FailHeadAside, AsideCycle, Zenon DEF ShutdownDrainOne
  <2> QED BY <1>5, <2>1, ShutdownGoesOn, Zenon DEF Shutdown
<1>6. ASSUME UpdateAbsent \/ EnsureProvider PROVE LifecycleInv'
  <2>1. PICK k \in {"prepare", "updatePrepare"} :
          /\ Publish(k, NoReq) /\ UNCHANGED reqVars /\ (current = NoGen \/ ~inSlice)
          /\ k = "updatePrepare" => shut = "running"
    <3>1. CASE UpdateAbsent
      BY <3>1, Zenon DEF UpdateAbsent
    <3>2. CASE EnsureProvider
      BY <3>2, Zenon DEF EnsureProvider
    <3> QED BY <1>6, <3>1, <3>2, Zenon
  <2>2. \A q \in Requests : pc'[q] = "waiting" => pc[q] = "waiting" /\ slot'[q] = slot[q]
    BY <2>1, Zenon DEF reqVars
  <2> QED BY <2>1, <2>2, PublishCycle, Zenon
<1>7. CASE UNCHANGED vars
  <2>1. UNCHANGED <<lifeVars, shutVars>> /\ UNCHANGED op /\ UNCHANGED wst /\ UNCHANGED queue
        /\ UNCHANGED late /\ UNCHANGED pc /\ UNCHANGED slot
    BY <1>7, Zenon DEF vars, workVars, genVars, opVars, reqVars, histVars
  <2>2. StaysClean /\ SameHolder
    BY <2>1, CleanCallers, Zenon DEF SameHolder
  <2> QED BY <2>1, <2>2, WorkersKept, AsideCycle, Zenon DEF Aside
<1> QED
  BY <1>1, <1>2, <1>3, <1>4, <1>5, <1>6, <1>7, UpdateBeginCycle, RemoveBeginCycle,
     ShutdownBeginCycle, Zenon DEF Next

\* The three are invariants of the queue.
THEOREM LifecycleInvariance == Spec => []LifecycleInv
<1> QED BY InitCycle, NextCycle, Invariance, PTL DEF Spec

\* When RemoveProvider is done no worker of the provider runs, and when Shutdown
\* returns every worker that ran when it signalled has exited, for any number of
\* workers and of generations retired before.
THEOREM NoWorkerLeft == Spec => []WorkersGone
<1>1. ASSUME IInv, LifecycleInv PROVE WorkersGone
  <2>1. LifeInv /\ ShutInv /\ \A g \in shutLive : g \in Gens
    BY <1>1, Zenon DEF LifecycleInv, IInv, TypeOK, ShutTypes
  <2>2. RemovedMeansStopped
    BY <2>1, Zenon DEF LifeInv, RemovedMeansStopped
  <2>3. shut = "done" => \A g \in shutLive : ~Awaited(g)
    BY DEF Awaited
  <2>4. ShutdownStopsStarted
    BY <2>1, <2>3, Zenon DEF ShutInv, ShutdownStopsStarted
  <2> QED BY <2>2, <2>4, Zenon DEF WorkersGone
<1> QED BY <1>1, Invariance, LifecycleInvariance, PTL

\* A message is stranded only if it was sent into a queue already signalled or into
\* one that never had workers.
THEOREM StrandedIsLate == Spec => []OnlyLateStranded
<1>1. ASSUME IInv, LifecycleInv PROVE OnlyLateStranded
  <2>1. TypeOK /\ Positions /\ StrandInv
    BY <1>1, Zenon DEF IInv, LifecycleInv
  <2> SUFFICES ASSUME NEW r \in Requests, NEW g \in Gens, pc[r] = "waiting",
                      Queued(slot[r], g), Deserted(g), r \notin late, ~NeverStarted(g)
               PROVE  FALSE
    BY Zenon DEF OnlyLateStranded
  <2>2. ~Live(g) /\ ~Swept(g)
    <3>1. Moving \/ op.kind \in {"removeWait", "removeDrain"} =>
            op.kind \notin {"free", "removeRetired"}
      BY Zenon DEF Moving
    <3> QED BY <3>1, Zenon DEF Deserted, Swept
  <2>3. PICK w \in WorkersOf(g) : wst[w] # "none"
    BY Zenon DEF NeverStarted
  <2>4. w \in Workers /\ w[1] = g
    BY <2>3, Zenon DEF WorkersOf
  <2>5. wst[w] \in {"draining", "exited"}
    BY <2>1, <2>2, <2>3, <2>4, Zenon DEF TypeOK, WorkTypes, Live
  <2>6. closing[g]
    BY <2>1, <2>4, <2>5, Zenon DEF StrandInv
  <2>7. ~Clean(g)
    BY Zenon DEF Clean
  <2> QED BY <2>1, <2>2, <2>6, <2>7, Zenon DEF StrandInv
<1> QED BY <1>1, Invariance, LifecycleInvariance, PTL

-----------------------------------------------------------------------------
\* The places the message of a waiting caller can be in.
At(s) == chan[s] # NoReply \/ Served(s) \/ op.msg = s \/ Buffered(s)

\* A caller that still waits, and whom neither a panic nor the end of its context
\* excuses.
Expects(r) == pc[r] = "waiting" /\ r \notin lost \cup cancelled

\* Who expects an answer after a step did before, and for the same message.
StillExpects == \A r \in Requests : Expects(r)' => Expects(r) /\ slot'[r] = slot[r]

\* No message is lost if none leaves its place but for another.
LEMMA StaysAt ==
    ASSUME NoMessageLost, StillExpects,
           \A r \in Requests : \A s : s = slot[r] /\ Expects(r)' /\ At(s) => At(s)'
    PROVE  NoMessageLost'
<1>1. \A r \in Requests : Expects(r) => At(slot[r])
  BY Zenon DEF NoMessageLost, Expects, At, Buffered
<1>2. ASSUME NEW r \in Requests, Expects(r)' PROVE At(slot[r])'
  <2>1. PICK s : s = slot[r] /\ s = slot'[r] /\ At(s)
    BY <1>1, <1>2, Zenon DEF StillExpects
  <2>2. At(s)'
    BY <1>2, <2>1, Zenon
  <2> QED BY <2>1, <2>2, Zenon DEF At, Served, Buffered, Queued
<1>3. (\A r \in Requests : Expects(r) => At(slot[r]))'
  BY <1>2, Zenon
<1> QED BY <1>3, Zenon DEF NoMessageLost, Expects, At, Buffered

\* Callers that wait have slots of their own.
LEMMA WaitingSlots ==
    ASSUME IInv
    PROVE  /\ \A r \in Requests : pc[r] \in Holding =>
                slot[r] \in Slots /\ slotReq[slot[r]] = r /\ slot[r] # NoSlot
           /\ \A q, r \in Requests : pc[q] \in Holding /\ pc[r] \in Holding /\ slot[q] = slot[r]
                => q = r
<1>1. \A r \in Requests : pc[r] \in Holding => slot[r] \in Slots /\ slotReq[slot[r]] = r
  BY Zenon DEF IInv, Ownership
<1>2. \A q, r \in Requests : pc[q] \in Holding /\ pc[r] \in Holding /\ slot[q] = slot[r] => q = r
  BY <1>1, Zenon
<1> QED BY <1>1, <1>2, ConstantFacts, Zenon

\* The message of a caller that expects an answer.
LEMMA ExpectedSlot ==
    ASSUME IInv, NEW r \in Requests, Expects(r)
    PROVE  slot[r] \in Slots /\ slotReq[slot[r]] = r /\ pc[r] \in Holding
BY WaitingSlots, Zenon DEF Expects, Holding

\* A step that moves no message, and touches only the reply channels of slots that
\* no caller waits for.
LEMMA QuietFound ==
    ASSUME NoMessageLost, UNCHANGED queue, UNCHANGED wslot, op'.msg = op.msg,
           \A w \in Workers : wst'[w] = "busy" <=> wst[w] = "busy",
           StillExpects, \A r \in Requests : Expects(r)' => chan'[slot[r]] = chan[slot[r]]
    PROVE  NoMessageLost'
<1>1. \A s : (Served(s)' <=> Served(s)) /\ (Buffered(s)' <=> Buffered(s))
  BY Zenon DEF Served, Buffered, Queued
<1>2. \A r \in Requests : \A s : s = slot[r] /\ Expects(r)' /\ At(s) => At(s)'
  BY <1>1, Zenon DEF At
<1> QED BY <1>2, StaysAt, Zenon

\* Nobody's call changes.
LEMMA SameCallers ==
    ASSUME UNCHANGED pc, UNCHANGED slot, lost \subseteq lost', cancelled \subseteq cancelled'
    PROVE  StillExpects
BY Zenon DEF StillExpects, Expects

\* One caller moves that does not end up waiting.
LEMMA OneCaller ==
    ASSUME TypeOK, NEW r \in Requests, pc'[r] # "waiting",
           \A q \in Requests : q # r => pc'[q] = pc[q] /\ slot'[q] = slot[q],
           UNCHANGED lost, UNCHANGED cancelled
    PROVE  StillExpects /\ \A q \in Requests : Expects(q)' => q # r /\ Expects(q)
BY Zenon DEF StillExpects, Expects

\* Callers, but for the send.
LEMMA CallerFound ==
    ASSUME IInv, NoMessageLost, NEW r \in Requests,
           \/ GetProviderQueue(r) \/ CreateQueue(r) \/ NoConfig(r) \/ ShortCircuit(r)
           \/ CheckClosing(r) \/ GiveUp(r) \/ QueueFull(r) \/ Receive(r) \/ Abandon(r)
    PROVE  NoMessageLost'
<1> USE DEF lifeVars, workVars, genVars, shutVars, opVars, reqVars, poolVars, histVars
<1>0. TypeOK /\ Positions
  BY Zenon DEF IInv
<1>1. UNCHANGED wst /\ UNCHANGED wslot /\ UNCHANGED queue /\ UNCHANGED lost /\ UNCHANGED cancelled
  BY Zenon DEF GetProviderQueue, CreateQueue, Publish, NoConfig, ShortCircuit, CheckClosing,
     GiveUp, QueueFull, Receive, Abandon
<1>2. op'.msg = op.msg
  <2>1. CASE CreateQueue(r)
    BY <2>1, Zenon DEF CreateQueue, Publish, Free, Lock
  <2>2. CASE UNCHANGED op
    BY <2>2, Zenon
  <2> QED BY <2>1, <2>2, Zenon DEF GetProviderQueue, NoConfig, ShortCircuit, CheckClosing,
             GiveUp, QueueFull, Receive, Abandon
<1>3. pc'[r] # "waiting" /\ \A q \in Requests : q # r => pc'[q] = pc[q] /\ slot'[q] = slot[q]
  <2>1. CASE \E o : Return(r, o)
    BY <1>0, <2>1, Zenon DEF Return, TypeOK, CallTypes
  <2>2. CASE /\ \E p \in {"hooks", "prepare", "send", "blocked"} : pc' = [pc EXCEPT ![r] = p]
             /\ UNCHANGED slot \/ \E s : slot' = [slot EXCEPT ![r] = s]
    BY <1>0, <2>2, Zenon DEF TypeOK, CallTypes
  <2>3. CASE CheckClosing(r)
    BY <2>1, <2>2, <2>3, Zenon DEF CheckClosing
  <2>4. CASE QueueFull(r)
    BY <2>1, <2>2, <2>4, Zenon DEF QueueFull
  <2>5. CASE GetProviderQueue(r) \/ CreateQueue(r)
    BY <2>2, <2>5, Zenon DEF GetProviderQueue, CreateQueue
  <2> QED BY <2>1, <2>3, <2>4, <2>5, Zenon DEF NoConfig, ShortCircuit, GiveUp, Receive, Abandon
<1>4. StillExpects /\ \A q \in Requests : Expects(q)' => q # r /\ Expects(q)
  BY <1>0, <1>1, <1>3, OneCaller, Zenon
<1>5. ASSUME NEW q \in Requests, Expects(q)' PROVE chan'[slot[q]] = chan[slot[q]]
  <2>1. q # r /\ slot[q] \in Slots /\ slotReq[slot[q]] = q /\ pc[q] \in Holding
    BY <1>4, <1>5, ExpectedSlot, Zenon
  <2>2. CASE UNCHANGED chan
    BY <2>2, Zenon
  <2>3. ASSUME NEW s \in Slots, s # slot[q], chan' = [chan EXCEPT ![s] = NoReply]
        PROVE  chan'[slot[q]] = chan[slot[q]]
    BY <1>0, <2>1, <2>3, Zenon DEF TypeOK, PoolTypes
  <2>4. CASE CheckClosing(r)
    <3>1. CASE \E s \in Slots : GetChannelMessage(r, s)
      <4>1. PICK s \in Slots : slotReq[s] = NoReq /\ chan' = [chan EXCEPT ![s] = NoReply]
        BY <3>1, Zenon DEF GetChannelMessage
      <4> QED BY <2>1, <2>3, <4>1, ConstantFacts, Zenon
    <3> QED BY <2>2, <2>4, <3>1, Zenon DEF CheckClosing
  <2>5. CASE Release(slot[r]) /\ pc[r] \in Holding
    <3>1. slot[r] \in Slots /\ slot[r] # slot[q]
      BY <2>1, <2>5, WaitingSlots, Zenon
    <3> QED BY <2>3, <2>5, <3>1, Zenon DEF Release
  <2>6. CASE GiveUp(r) \/ QueueFull(r) \/ Receive(r)
    BY <2>2, <2>5, <2>6, Zenon DEF GiveUp, QueueFull, Receive, Sending, Holding
  <2> QED BY <2>2, <2>4, <2>6, Zenon DEF GetProviderQueue, CreateQueue, Publish, NoConfig,
             ShortCircuit, Abandon
<1> QED BY <1>1, <1>2, <1>4, <1>5, QuietFound, Zenon

\* The send puts the message into a queue.
LEMMA EnqueueFound ==
    ASSUME IInv, NoMessageLost, NEW r \in Requests, Enqueue(r) PROVE NoMessageLost'
<1> USE DEF lifeVars, workVars, genVars, shutVars, opVars, reqVars, poolVars, histVars
<1>0. TypeOK /\ Positions /\ NoDuplicates
  BY Zenon DEF IInv, OnePlace
<1>1. /\ Sending(r) /\ queue' = [queue EXCEPT ![pq[r]] = Append(@, slot[r])]
      /\ pc' = [pc EXCEPT ![r] = "waiting"]
      /\ UNCHANGED op /\ UNCHANGED wst /\ UNCHANGED wslot /\ UNCHANGED slot /\ UNCHANGED chan
      /\ UNCHANGED lost /\ UNCHANGED cancelled
  BY Zenon DEF Enqueue
<1>2. slot[r] \in Slots /\ ~Buffered(slot[r])
  BY <1>1, UnsentIsNowhere, Zenon
<1>3. pq[r] \in Gens
  BY <1>0, <1>1, Zenon DEF Positions, Sending, Holding
<1>4. \A u : Buffered(u)' <=> Buffered(u) \/ u = slot[r]
  BY <1>0, <1>1, <1>2, <1>3, AddLast, Zenon
<1>5. \A q \in Requests : q # r => pc'[q] = pc[q]
  BY <1>0, <1>1, Zenon DEF TypeOK, CallTypes
<1>6. \A s : Served(s)' <=> Served(s)
  BY <1>1, Zenon DEF Served
<1>7. \A r1 \in Requests : Expects(r1) => At(slot[r1])
  BY Zenon DEF NoMessageLost, Expects, At, Buffered
<1>8. ASSUME NEW q \in Requests, Expects(q)' PROVE At(slot[q])'
  <2>1. PICK s : s = slot[q] /\ s = slot'[q]
    BY <1>1, Zenon
  <2>2. At(s)'
    <3>1. CASE q = r
      BY <1>4, <2>1, <3>1, Zenon DEF At
    <3>2. CASE q # r
      <4>1. At(s)
        BY <1>1, <1>5, <1>7, <1>8, <2>1, <3>2, Zenon DEF Expects
      <4> QED BY <1>1, <1>4, <1>6, <4>1, Zenon DEF At
    <3> QED BY <3>1, <3>2, Zenon
  <2> QED BY <2>1, <2>2, Zenon DEF At, Served, Buffered, Queued
<1>9. (\A q \in Requests : Expects(q) => At(slot[q]))'
  BY <1>8, Zenon
<1> QED BY <1>9, Zenon DEF NoMessageLost, Expects, At, Buffered

\* An error sent to a message answers its owner, or finds its context ended.
LEMMA FailAnswers ==
    ASSUME IInv, NEW s \in Slots, Fail(s), slotReq[s] \in Requests
    PROVE  /\ chan'[s] # NoReply \/ slotReq[s] \in cancelled
           /\ \A u \in Slots : u # s => chan'[u] = chan[u]
<1>0. chan \in [Slots -> Replies]
  BY Zenon DEF IInv, TypeOK, PoolTypes
<1>1. CASE chan' = [chan EXCEPT ![s] = Reply(slotReq[s], "shutdown")]
  BY <1>0, <1>1, ConstantFacts, Zenon
<1>2. CASE slotReq[s] \in cancelled /\ UNCHANGED chan
  BY <1>2, Zenon
<1> QED BY <1>1, <1>2, Zenon DEF Fail

\* Whoever drains a queue answers what it takes off.
LEMMA FailHeadFound ==
    ASSUME IInv, NoMessageLost, NEW g \in Gens, FailHead(g), UNCHANGED opVars
    PROVE  NoMessageLost'
<1> USE DEF lifeVars, workVars, genVars, shutVars, opVars, reqVars, poolVars, histVars
<1>0. TypeOK /\ NoDuplicates
  BY Zenon DEF IInv, OnePlace
<1>1. /\ queue[g] # << >> /\ queue' = [queue EXCEPT ![g] = Tail(@)] /\ Fail(Head(queue[g]))
      /\ UNCHANGED op /\ UNCHANGED wst /\ UNCHANGED wslot /\ UNCHANGED slot /\ UNCHANGED pc
      /\ UNCHANGED lost /\ UNCHANGED cancelled
  BY Zenon DEF FailHead
<1>2. /\ Head(queue[g]) \in Slots /\ Buffered(Head(queue[g]))
      /\ \A s : Buffered(s)' <=> Buffered(s) /\ s # Head(queue[g])
  BY <1>0, <1>1, TakeHead, Zenon
<1>3. PICK m \in Slots : m = Head(queue[g])
  BY <1>2, Zenon
<1>4. slotReq[m] \in Requests
  BY <1>2, <1>3, Zenon DEF IInv, InFlight, Enqueued
<1>5. /\ chan'[m] # NoReply \/ slotReq[m] \in cancelled
      /\ \A u \in Slots : u # m => chan'[u] = chan[u]
  BY <1>1, <1>3, <1>4, FailAnswers, Zenon
<1>6. StillExpects
  BY <1>1, SameCallers, Zenon
<1>7. \A s : Served(s)' <=> Served(s)
  BY <1>1, Zenon DEF Served
<1>8. ASSUME NEW r \in Requests, NEW s, s = slot[r], Expects(r)', At(s) PROVE At(s)'
  <2>1. Expects(r) /\ s \in Slots /\ slotReq[s] = r
    BY <1>6, <1>8, ExpectedSlot, Zenon DEF StillExpects
  <2>2. CASE s = m
    BY <1>5, <2>1, <2>2, Zenon DEF At, Expects
  <2>3. CASE s # m
    BY <1>1, <1>2, <1>3, <1>5, <1>7, <1>8, <2>1, <2>3, Zenon DEF At
  <2> QED BY <2>2, <2>3, Zenon
<1> QED BY <1>6, <1>8, StaysAt, Zenon

\* A worker takes a message off its queue.
LEMMA DequeueFound ==
    ASSUME IInv, NoMessageLost, NEW w \in Workers, Dequeue(w) PROVE NoMessageLost'
<1> USE DEF lifeVars, workVars, genVars, shutVars, opVars, reqVars, poolVars, histVars
<1> DEFINE g == w[1]
<1>0. TypeOK /\ NoDuplicates /\ g \in Gens
  BY ConstantFacts, Zenon DEF IInv, OnePlace
<1>1. /\ queue[g] # << >> /\ queue' = [queue EXCEPT ![g] = Tail(@)] /\ wst[w] = "idle"
      /\ wst' = [wst EXCEPT ![w] = "busy"] /\ wslot' = [wslot EXCEPT ![w] = Head(queue[g])]
      /\ UNCHANGED op /\ UNCHANGED slot /\ UNCHANGED pc /\ UNCHANGED chan
      /\ UNCHANGED lost /\ UNCHANGED cancelled
  BY Zenon DEF Dequeue
<1> HIDE DEF g
<1>2. \A s : Buffered(s)' <=> Buffered(s) /\ s # Head(queue[g])
  BY <1>0, <1>1, TakeHead, Zenon
<1>3. /\ wst'[w] = "busy" /\ wslot'[w] = Head(queue[g])
      /\ \A v \in Workers : v # w => wst'[v] = wst[v] /\ wslot'[v] = wslot[v]
  BY <1>0, <1>1, Zenon DEF TypeOK, WorkTypes
<1>4. wst[w] # "busy"
  BY <1>1, Zenon
<1>5. \A s : Served(s)' <=> Served(s) \/ s = Head(queue[g])
  BY <1>3, <1>4, Zenon DEF Served
<1>6. StillExpects
  BY <1>1, SameCallers, Zenon
<1>7. \A s : At(s) => At(s)'
  BY <1>1, <1>2, <1>5, Zenon DEF At
<1> QED BY <1>6, <1>7, StaysAt, Zenon

\* A worker lets a message go: it has replied, its caller's context has ended, or it
\* panicked.
LEMMA LetGoFound ==
    ASSUME IInv, NoMessageLost, NEW w \in Workers,
           SendReply(w) \/ BillAbandoned(w) \/ Panic(w)
    PROVE  NoMessageLost'
<1> USE DEF lifeVars, workVars, genVars, shutVars, opVars, reqVars, poolVars, histVars
<1>0. TypeOK
  BY Zenon DEF IInv
<1>1. /\ wst[w] = "busy" /\ wslot' = [wslot EXCEPT ![w] = NoSlot]
      /\ \E a \in {"idle", "exited"} : wst' = [wst EXCEPT ![w] = a]
      /\ UNCHANGED op /\ UNCHANGED slot /\ UNCHANGED pc /\ UNCHANGED queue
      /\ lost \subseteq lost' /\ UNCHANGED cancelled
  BY Zenon DEF SendReply, BillAbandoned, Panic, LetGo, AfterPanic
<1>2. PICK m \in Slots : m = wslot[w]
  BY <1>1, Zenon DEF IInv, OnePlace
<1>3. wreq[w] = slotReq[m] /\ slotReq[m] \in Requests
  BY <1>1, <1>2, Zenon DEF IInv, InFlight, Enqueued
<1>4. \A v \in Workers : v # w => wst'[v] = wst[v] /\ wslot'[v] = wslot[v]
  BY <1>0, <1>1, Zenon DEF TypeOK, WorkTypes
<1>5. /\ \A s : s # m /\ Served(s) => Served(s)'
      /\ \A s : Buffered(s)' <=> Buffered(s)
  BY <1>1, <1>2, <1>4, Zenon DEF Served, Buffered, Queued
<1>6. /\ chan'[m] # NoReply \/ slotReq[m] \in lost' \cup cancelled'
      /\ \A u \in Slots : u # m => chan'[u] = chan[u]
  <2>1. CASE SendReply(w)
    <3>1. PICK k : chan' = [chan EXCEPT ![m] = Reply(wreq[w], k)]
      BY <1>2, <2>1, Zenon DEF SendReply
    <3> QED BY <1>0, <1>3, <3>1, ConstantFacts, Zenon DEF TypeOK, PoolTypes
  <2>2. CASE BillAbandoned(w)
    BY <1>3, <2>2, Zenon DEF BillAbandoned
  <2>3. CASE Panic(w)
    BY <1>3, <2>3, Zenon DEF Panic
  <2> QED BY <2>1, <2>2, <2>3, Zenon
<1>7. StillExpects
  BY <1>1, SameCallers, Zenon
<1>8. ASSUME NEW r \in Requests, NEW s, s = slot[r], Expects(r)', At(s) PROVE At(s)'
  <2>1. Expects(r) /\ s \in Slots /\ slotReq[s] = r
    BY <1>7, <1>8, ExpectedSlot, Zenon DEF StillExpects
  <2>2. CASE s = m
    BY <1>6, <1>8, <2>1, <2>2, Zenon DEF At, Expects
  <2>3. CASE s # m
    BY <1>1, <1>5, <1>6, <1>8, <2>1, <2>3, Zenon DEF At
  <2> QED BY <2>2, <2>3, Zenon
<1> QED BY <1>7, <1>8, StaysAt, Zenon

\* UpdateProvider's transfer moves a message through its hands, or answers it.
LEMMA TransferFound ==
    ASSUME IInv, NoMessageLost, TransferTake \/ TransferPut \/ TransferFail
    PROVE  NoMessageLost'
<1> USE DEF lifeVars, workVars, genVars, shutVars, opVars, reqVars, poolVars, histVars
<1>0. TypeOK /\ NoDuplicates /\ Positions
  BY Zenon DEF IInv, OnePlace
<1>1. /\ UNCHANGED wst /\ UNCHANGED wslot /\ UNCHANGED slot /\ UNCHANGED pc
      /\ UNCHANGED lost /\ UNCHANGED cancelled
  BY Zenon DEF TransferTake, TransferPut, TransferFail
<1>2. StillExpects
  BY <1>1, SameCallers, Zenon
<1>3. \A s : Served(s)' <=> Served(s)
  BY <1>1, Zenon DEF Served
<1>4. CASE TransferTake
  <2>1. /\ op.gen \in Gens /\ op.msg = NoSlot /\ queue[op.gen] # << >> /\ UNCHANGED chan
        /\ queue' = [queue EXCEPT ![op.gen] = Tail(@)]
        /\ op' = [op EXCEPT !.msg = Head(queue[op.gen])]
    <3>1. op.kind # "free"
      BY <1>4 DEF TransferTake
    <3> QED BY <1>0, <1>4, <3>1, Zenon DEF TransferTake, Positions
  <2>2. \A s : Buffered(s)' <=> Buffered(s) /\ s # Head(queue[op.gen])
    BY <1>0, <2>1, TakeHead, Zenon
  <2>3. op'.msg = Head(queue[op.gen])
    BY <1>0, <2>1, Zenon DEF TypeOK, LockTypes
  <2>4. ASSUME NEW r \in Requests, NEW s, s = slot[r], Expects(r)', At(s) PROVE At(s)'
    <3>1. s # NoSlot
      BY <1>2, <2>4, ExpectedSlot, ConstantFacts, Zenon DEF StillExpects
    <3> QED BY <1>3, <2>1, <2>2, <2>3, <2>4, <3>1, Zenon DEF At
  <2> QED BY <1>2, <2>4, StaysAt, Zenon
<1>5. CASE TransferPut
  <2>1. PICK m \in Slots : m = op.msg
    BY <1>0, <1>5, Zenon DEF TransferPut, TypeOK, LockTypes
  <2>2. /\ queue' = [queue EXCEPT ![current] = Append(@, m)] /\ ~Buffered(m)
        /\ current \in Gens /\ UNCHANGED chan
    BY <1>0, <1>5, <2>1, Zenon DEF TransferPut, IInv, OnePlace, Positions
  <2>3. \A u : Buffered(u)' <=> Buffered(u) \/ u = m
    BY <1>0, <2>2, AddLast, Zenon
  <2>4. \A s : At(s) => At(s)'
    BY <1>3, <2>1, <2>2, <2>3, Zenon DEF At
  <2> QED BY <1>2, <2>4, StaysAt, Zenon
<1>6. CASE TransferFail
  <2>1. PICK m \in Slots : m = op.msg
    BY <1>0, <1>6, Zenon DEF TransferFail, TypeOK, LockTypes
  <2>2. slotReq[m] \in Requests /\ Fail(m) /\ UNCHANGED queue
    BY <1>6, <2>1, Zenon DEF IInv, InFlight, Enqueued, TransferFail
  <2>3. /\ chan'[m] # NoReply \/ slotReq[m] \in cancelled
        /\ \A u \in Slots : u # m => chan'[u] = chan[u]
    BY <2>2, FailAnswers, Zenon
  <2>4. \A s : Buffered(s)' <=> Buffered(s)
    BY <2>2, Zenon DEF Buffered, Queued
  <2>5. ASSUME NEW r \in Requests, NEW s, s = slot[r], Expects(r)', At(s) PROVE At(s)'
    <3>1. Expects(r) /\ s \in Slots /\ slotReq[s] = r
      BY <1>2, <2>5, ExpectedSlot, Zenon DEF StillExpects
    <3>2. CASE s = m
      BY <2>3, <3>1, <3>2, Zenon DEF At, Expects
    <3>3. CASE s # m
      BY <1>3, <2>1, <2>3, <2>4, <2>5, <3>1, <3>3, Zenon DEF At
    <3> QED BY <3>2, <3>3, Zenon
  <2> QED BY <1>2, <2>5, StaysAt, Zenon
<1> QED BY <1>4, <1>5, <1>6, Zenon

\* The end of prepareProvider.
LEMMA PrepareFound ==
    ASSUME IInv, LifecycleInv, NoMessageLost, PrepareStart \/ PrepareFail PROVE NoMessageLost'
<1> USE DEF lifeVars, workVars, genVars, shutVars, opVars, reqVars, poolVars, histVars
<1>0. TypeOK /\ Positions
  BY Zenon DEF IInv
<1>1. /\ UNCHANGED queue /\ UNCHANGED wslot /\ UNCHANGED chan /\ UNCHANGED lost
      /\ UNCHANGED cancelled /\ op' = Free /\ Preparing
  BY Zenon DEF PrepareStart, PrepareFail, Preparing
<1>2. op'.msg = op.msg
  <2>1. op'.msg = NoSlot /\ op.kind \notin {"transfer", "failRest"}
    BY <1>1, Zenon DEF Free, Lock, Preparing
  <2> QED BY <1>0, <2>1, Zenon DEF Positions
<1>3. \A q \in Requests : pc'[q] = "waiting" => pc[q] = "waiting" /\ slot'[q] = slot[q]
  BY PrepareFacts, Zenon
<1>4. StillExpects
  BY <1>1, <1>3, Zenon DEF StillExpects, Expects
<1>5. \A w \in Workers : wst'[w] = "busy" <=> wst[w] = "busy"
  <2>1. CASE UNCHANGED wst
    BY <2>1, Zenon
  <2>2. CASE PrepareStart
    <3>1. \A w \in Workers : w[1] = op.gen => wst[w] = "none"
      BY <1>0, <1>1, Zenon DEF Positions, Preparing
    <3>2. \A w \in Workers : IF w[1] = op.gen THEN wst'[w] = "idle" ELSE wst'[w] = wst[w]
      BY <2>2, Zenon DEF PrepareStart
    <3>3. "idle" # "busy" /\ "none" # "busy"
      OBVIOUS
    <3> QED BY <3>1, <3>2, <3>3, Zenon
  <2> QED BY <2>1, <2>2, Zenon DEF PrepareFail
<1> QED BY <1>1, <1>2, <1>4, <1>5, QuietFound, Zenon

\* The other operations on the provider.
LEMMA OthersFound ==
    ASSUME IInv, NoMessageLost,
           \/ UpdateBegin \/ UpdateAbsent \/ RemoveBegin \/ EnsureProvider \/ ShutdownBegin
           \/ TransferDone \/ Retire \/ RemoveWaited \/ RemoveDrained \/ RemoveFinish
           \/ ShutdownVisit \/ ShutdownWaited \/ ShutdownCleanups \/ ShutdownDone
    PROVE  NoMessageLost'
<1> USE DEF lifeVars, workVars, genVars, shutVars, opVars, reqVars, poolVars, histVars
<1>0. TypeOK /\ Positions
  BY Zenon DEF IInv
<1>1. /\ UNCHANGED queue /\ UNCHANGED wslot /\ UNCHANGED chan /\ UNCHANGED lost
      /\ UNCHANGED cancelled /\ UNCHANGED pc /\ UNCHANGED slot
  <2>1. CASE UpdateBegin \/ UpdateAbsent \/ RemoveBegin \/ EnsureProvider \/ ShutdownBegin
    BY <2>1, Zenon DEF UpdateBegin, UpdateAbsent, RemoveBegin, EnsureProvider, ShutdownBegin,
       Publish
  <2>2. CASE TransferDone \/ Retire \/ RemoveWaited \/ RemoveDrained \/ RemoveFinish
    BY <2>2, Zenon DEF TransferDone, Retire, RemoveWaited, RemoveDrained, RemoveFinish
  <2>3. CASE ShutdownVisit \/ ShutdownWaited \/ ShutdownCleanups \/ ShutdownDone
    BY <2>3, Zenon DEF ShutdownVisit, ShutdownWaited, ShutdownCleanups, ShutdownDone
  <2> QED BY <2>1, <2>2, <2>3, Zenon
<1>2. op'.msg = op.msg
  <2>1. CASE op = Free /\ \E k, g : op' = Lock(k, g, NoReq)
    BY <2>1 DEF Free, Lock
  <2>2. CASE op' = Free /\ op.kind \notin {"transfer", "failRest"}
    <3>1. op'.msg = NoSlot
      BY <2>2, Zenon DEF Free, Lock
    <3> QED BY <1>0, <2>2, <3>1, Zenon DEF Positions
  <2>3. CASE \E k : op' = [op EXCEPT !.kind = k]
    BY <1>0, <2>3 DEF TypeOK, LockTypes
  <2>4. CASE UNCHANGED op
    BY <2>4, Zenon
  <2>5. CASE Retire \/ RemoveFinish
    <3>1. op' = Free /\ op.kind \notin {"transfer", "failRest"}
      BY <2>5, Zenon DEF Retire, RemoveFinish
    <3> QED BY <2>2, <3>1, Zenon
  <2>6. CASE UpdateBegin \/ UpdateAbsent \/ RemoveBegin \/ EnsureProvider
    BY <2>1, <2>6, Zenon DEF UpdateBegin, UpdateAbsent, RemoveBegin, EnsureProvider, Publish
  <2>7. CASE TransferDone \/ RemoveWaited \/ RemoveDrained
    BY <2>3, <2>7, Zenon DEF TransferDone, RemoveWaited, RemoveDrained
  <2> QED BY <2>4, <2>5, <2>6, <2>7, Zenon DEF ShutdownBegin, ShutdownVisit, ShutdownWaited,
             ShutdownCleanups, ShutdownDone
<1>3. \A w \in Workers : wst'[w] = "busy" <=> wst[w] = "busy"
  <2>1. CASE UNCHANGED wst
    BY <2>1, Zenon
  <2>2. CASE UpdateBegin
    <3>1. \A w \in Workers : w[1] = born + 1 => wst[w] = "none"
      <4>1. born \in Nat /\ \A w \in Workers : w[1] \in Nat
        BY <1>0, ConstantFacts, Zenon DEF TypeOK, LifeTypes
      <4>2. \A w \in Workers : w[1] > born => wst[w] = "none"
        BY <1>0, Zenon DEF Positions
      <4> QED BY <4>1, <4>2
    <3>2. \A w \in Workers : IF w[1] = born + 1 THEN wst'[w] = "idle" ELSE wst'[w] = wst[w]
      BY <2>2, Zenon DEF UpdateBegin
    <3>3. "idle" # "busy" /\ "none" # "busy"
      OBVIOUS
    <3> QED BY <3>1, <3>2, <3>3, Zenon
  <2> QED BY <2>1, <2>2, Zenon DEF UpdateAbsent, RemoveBegin, EnsureProvider, ShutdownBegin,
             Publish, TransferDone, Retire, RemoveWaited, RemoveDrained, RemoveFinish,
             ShutdownVisit, ShutdownWaited, ShutdownCleanups, ShutdownDone
<1>4. StillExpects
  BY <1>1, SameCallers, Zenon
<1> QED BY <1>1, <1>2, <1>3, <1>4, QuietFound, Zenon

\* Steps of a worker, of the cleanup goroutine and of a context that move no message.
LEMMA AloneFound ==
    ASSUME IInv, NoMessageLost,
           \/ \E r \in Requests : Cancel(r)
           \/ \E w \in Workers : StartDraining(w) \/ WorkerExit(w)
           \/ \E g \in Gens : CleanupDrain(g) \/ CleanupDone(g)
           \/ UNCHANGED vars
    PROVE  NoMessageLost'
<1> USE DEF lifeVars, workVars, genVars, shutVars, opVars, reqVars, poolVars, histVars
<1>0. TypeOK
  BY Zenon DEF IInv
<1>1. /\ UNCHANGED queue /\ UNCHANGED wslot /\ UNCHANGED chan /\ UNCHANGED lost
      /\ cancelled \subseteq cancelled' /\ UNCHANGED pc /\ UNCHANGED slot /\ UNCHANGED op
  BY Zenon DEF Cancel, StartDraining, WorkerExit, CleanupDrain, CleanupDone, vars
<1>2. \A w \in Workers : wst'[w] = "busy" <=> wst[w] = "busy"
  <2>1. CASE UNCHANGED wst
    BY <2>1, Zenon
  <2>2. ASSUME NEW w \in Workers, StartDraining(w) \/ WorkerExit(w)
        PROVE  \A v \in Workers : wst'[v] = "busy" <=> wst[v] = "busy"
    BY <1>0, <2>2, Zenon DEF StartDraining, WorkerExit, TypeOK, WorkTypes
  <2> QED BY <2>1, <2>2, Zenon DEF Cancel, CleanupDrain, CleanupDone, vars
<1>3. StillExpects
  BY <1>1, SameCallers, Zenon
<1> QED BY <1>1, <1>2, <1>3, QuietFound, Zenon

\* Nobody waits in the initial state.
LEMMA InitFound == Init => NoMessageLost
<1>1. "start" # "waiting"
  OBVIOUS
<1> QED BY <1>1, Zenon DEF Init, NoMessageLost

\* No step loses a message.
LEMMA NextFound == IInv /\ LifecycleInv /\ NoMessageLost /\ [Next]_vars => NoMessageLost'
<1> SUFFICES ASSUME IInv, LifecycleInv, NoMessageLost, [Next]_vars PROVE NoMessageLost'
  BY Zenon
<1>0. TypeOK /\ Positions
  BY Zenon DEF IInv
<1>1. ASSUME NEW r \in Requests, Caller(r) \/ Cancel(r) PROVE NoMessageLost'
  BY <1>1, CallerFound, EnqueueFound, AloneFound, Zenon DEF Caller
<1>2. ASSUME NEW w \in Workers, Worker(w) \/ Panic(w) PROVE NoMessageLost'
  <2>1. CASE DrainOne(w)
    BY <2>1, ConstantFacts, FailHeadFound, Zenon DEF DrainOne
  <2> QED BY <1>2, <2>1, DequeueFound, LetGoFound, AloneFound, Zenon DEF Worker
<1>3. ASSUME NEW g \in Gens, Cleanup(g) PROVE NoMessageLost'
  BY <1>3, FailHeadFound, AloneFound, Zenon DEF Cleanup, CleanupDrainOne
<1>4. ASSUME Holder PROVE NoMessageLost'
  <2>1. CASE RemoveDrainOne
    <3>1. op.gen \in Gens
      BY <1>0, <2>1, Zenon DEF RemoveDrainOne, Positions
    <3> QED BY <2>1, <3>1, FailHeadFound, Zenon DEF RemoveDrainOne
  <2> QED BY <1>4, <2>1, PrepareFound, TransferFound, OthersFound, Zenon DEF Holder
<1>5. ASSUME Shutdown PROVE NoMessageLost'
  <2>1. CASE ShutdownDrainOne
    <3>1. shutGen \in Gens
      BY <1>0, <2>1, Zenon DEF ShutdownDrainOne, TypeOK, ShutTypes
    <3> QED BY <2>1, <3>1, FailHeadFound, Zenon DEF ShutdownDrainOne
  <2> QED BY <1>5, <2>1, OthersFound, Zenon DEF Shutdown
<1> QED BY <1>1, <1>2, <1>3, <1>4, <1>5, OthersFound, AloneFound, Zenon DEF Next

\* No message is lost: it is buffered, in somebody's hands or answered as long as its
\* caller waits, and stranded only in a queue that was signalled before the send or
\* never had workers.
THEOREM NoMessageIsLost == Spec => []NoneLost
<1>1. Spec => []NoMessageLost
  BY InitFound, NextFound, Invariance, LifecycleInvariance, PTL DEF Spec
<1>2. NoMessageLost /\ OnlyLateStranded => NoneLost
  BY Zenon DEF NoneLost
<1> QED BY <1>1, <1>2, StrandedIsLate, PTL
-----------------------------------------------------------------------------
\* Only Retire, RemoveBegin and ShutdownBegin signal a queue, for good.
LEMMA ClosingSteps ==
    ASSUME IInv, [Next]_vars
    PROVE  \/ UNCHANGED closing
           \/ UNCHANGED wst /\ \A g \in Gens : closing[g] => closing'[g]
<1> USE DEF lifeVars, workVars, genVars, shutVars, opVars, reqVars, poolVars, histVars
<1>0. closing \in [Gens -> BOOLEAN]
  BY Zenon DEF IInv, TypeOK, LifeTypes
<1>1. ASSUME NEW g, closing' = [closing EXCEPT ![g] = TRUE]
      PROVE  \A h \in Gens : closing[h] => closing'[h]
  BY <1>0, <1>1
<1>2. CASE Retire \/ RemoveBegin
  BY <1>1, <1>2, Zenon DEF Retire, RemoveBegin, signalClosing
<1>3. CASE ShutdownBegin
  BY <1>1, <1>3, Zenon DEF ShutdownBegin, signalClosing
<1>4. ASSUME NEW r \in Requests, Caller(r) \/ Cancel(r) PROVE UNCHANGED closing
  BY <1>4, Zenon DEF Caller, Cancel, GetProviderQueue, CreateQueue, Publish, NoConfig,
     ShortCircuit, CheckClosing, Enqueue, GiveUp, QueueFull, Receive, Abandon
<1>5. ASSUME NEW w \in Workers, Worker(w) \/ Panic(w) PROVE UNCHANGED closing
  BY <1>5, Zenon DEF Worker, Panic, Dequeue, SendReply, BillAbandoned, StartDraining, DrainOne,
     WorkerExit, FailHead
<1>6. ASSUME NEW g \in Gens, Cleanup(g) PROVE UNCHANGED closing
  BY <1>6, Zenon DEF Cleanup, CleanupDrain, CleanupDrainOne, CleanupDone, FailHead
<1>7. CASE Holder
  BY <1>2, <1>7, Zenon DEF Holder, PrepareStart, PrepareFail, TransferTake, TransferPut,
     TransferFail, TransferDone, RemoveWaited, RemoveDrainOne, RemoveDrained, RemoveFinish, FailHead
<1>8. CASE Shutdown
  BY <1>8, Zenon DEF Shutdown, ShutdownVisit, ShutdownWaited, ShutdownCleanups,
     ShutdownDrainOne, ShutdownDone, FailHead
<1>9. CASE UpdateBegin \/ UpdateAbsent \/ EnsureProvider \/ UNCHANGED vars
  BY <1>9, Zenon DEF UpdateBegin, UpdateAbsent, EnsureProvider, Publish, vars
<1> QED BY <1>2, <1>3, <1>4, <1>5, <1>6, <1>7, <1>8, <1>9, Zenon DEF Next

\* The workers of an open queue never exit, whatever panics, and a queue is signalled
\* for good.
THEOREM OpenQueuesAreServed == Spec => OpenQueueServed
<1>1. ASSUME IInv, LifecycleInv, LifecycleInv', [Next]_vars
      PROVE  /\ \A w \in Workers : wst[w] # "exited" /\ wst'[w] = "exited" => closing[w[1]]
             /\ \A g \in Gens : closing[g] => closing'[g]
  <2>1. \A w \in Workers : wst'[w] \in {"draining", "exited"} => closing'[w[1]]
    BY <1>1, Zenon DEF LifecycleInv, StrandInv
  <2>2. CASE UNCHANGED closing
    BY <2>1, <2>2, Zenon
  <2>3. CASE UNCHANGED wst /\ \A g \in Gens : closing[g] => closing'[g]
    BY <2>3, Zenon
  <2> QED BY <1>1, <2>2, <2>3, ClosingSteps, Zenon
<1>2. /\ IInv /\ LifecycleInv /\ LifecycleInv' /\ [Next]_vars
      => [/\ \A w \in Workers : wst[w] # "exited" /\ wst'[w] = "exited" => closing[w[1]]
          /\ \A g \in Gens : closing[g] => closing'[g]]_vars
  BY <1>1, Zenon
<1> QED BY <1>2, Invariance, LifecycleInvariance, PTL DEF Spec, OpenQueueServed

\* Only the closing check lets a caller go on to the send.
LEMMA SendSteps ==
    ASSUME IInv, [Next]_vars, NEW r \in Requests, pc[r] = "hooks", pc'[r] = "send"
    PROVE  CheckClosing(r) /\ pc' = [pc EXCEPT ![r] = "send"]
<1> USE DEF lifeVars, workVars, genVars, shutVars, opVars, reqVars, poolVars, histVars
<1>0. TypeOK /\ Positions
  BY Zenon DEF IInv
<1>1. pc'[r] # pc[r] /\ pc'[r] \notin {"done", "hooks", "prepare", "blocked", "waiting"}
  BY Zenon
<1>2. ASSUME NEW q \in Requests, NEW p, pc' = [pc EXCEPT ![q] = p] PROVE q = r /\ p = "send"
  BY <1>0, <1>1, <1>2, Zenon DEF TypeOK, CallTypes
<1>3. pc' # pc
  BY <1>1, Zenon
<1>4. ASSUME NEW q \in Requests, NEW o, Return(q, o) PROVE FALSE
  <2>1. pc' = [pc EXCEPT ![q] = "done"]
    BY <1>4, Zenon DEF Return
  <2> QED BY <1>2, <2>1
<1>5. ASSUME NEW q \in Requests, Caller(q) \/ Cancel(q)
      PROVE  q = r /\ CheckClosing(q) /\ pc' = [pc EXCEPT ![r] = "send"]
  <2>1. CASE CheckClosing(q)
    BY <1>2, <1>4, <2>1, Zenon DEF CheckClosing
  <2>2. CASE GetProviderQueue(q) \/ CreateQueue(q) \/ Enqueue(q) \/ QueueFull(q)
    <3>1. \E p \in {"hooks", "prepare", "waiting", "blocked"} : pc' = [pc EXCEPT ![q] = p]
      BY <1>4, <2>2, Zenon DEF GetProviderQueue, CreateQueue, Enqueue, QueueFull
    <3> QED BY <1>2, <3>1, Zenon
  <2>3. CASE NoConfig(q) \/ ShortCircuit(q) \/ GiveUp(q) \/ Receive(q) \/ Abandon(q)
    BY <1>4, <2>3, Zenon DEF NoConfig, ShortCircuit, GiveUp, Receive, Abandon
  <2>4. CASE Cancel(q)
    BY <1>3, <2>4, Zenon DEF Cancel
  <2> QED BY <1>5, <2>1, <2>2, <2>3, <2>4, Zenon DEF Caller
<1>6. ASSUME NEW w \in Workers, Worker(w) \/ Panic(w) PROVE FALSE
  BY <1>3, <1>6, Zenon DEF Worker, Panic, Dequeue, SendReply, BillAbandoned, StartDraining,
     DrainOne, WorkerExit, FailHead
<1>7. ASSUME NEW g \in Gens, Cleanup(g) PROVE FALSE
  BY <1>3, <1>7, Zenon DEF Cleanup, CleanupDrain, CleanupDrainOne, CleanupDone, FailHead
<1>8. ASSUME Holder PROVE FALSE
  <2>1. CASE PrepareStart \/ PrepareFail
    <3>1. CASE op.req = NoReq
      BY <1>3, <2>1, <3>1, Zenon DEF PrepareStart, PrepareFail
    <3>2. CASE op.req # NoReq
      <4>1. op.req \in Requests
        BY <1>0, <3>2, Zenon DEF TypeOK, LockTypes
      <4>2. CASE PrepareStart
        <5>1. pc' = [pc EXCEPT ![op.req] = "hooks"]
          BY <3>2, <4>2, Zenon DEF PrepareStart
        <5> QED BY <1>2, <4>1, <5>1, Zenon
      <4> QED BY <1>4, <2>1, <3>2, <4>1, <4>2, Zenon DEF PrepareFail
    <3> QED BY <3>1, <3>2, Zenon
  <2> QED BY <1>3, <1>8, <2>1, Zenon DEF Holder, TransferTake, TransferPut, TransferFail,
             TransferDone, Retire, RemoveWaited, RemoveDrainOne, RemoveDrained, RemoveFinish,
             FailHead
<1>9. ASSUME Shutdown PROVE FALSE
  BY <1>3, <1>9, Zenon DEF Shutdown, ShutdownVisit, ShutdownWaited, ShutdownCleanups,
     ShutdownDrainOne, ShutdownDone, FailHead
<1>10. ASSUME \/ UpdateBegin \/ UpdateAbsent \/ RemoveBegin \/ EnsureProvider \/ ShutdownBegin
              \/ UNCHANGED vars
       PROVE  FALSE
  BY <1>3, <1>10, Zenon DEF UpdateBegin, UpdateAbsent, RemoveBegin, EnsureProvider, ShutdownBegin,
     Publish, vars
<1> QED BY <1>5, <1>6, <1>7, <1>8, <1>9, <1>10, Zenon DEF Next

\* A producer never enters a queue found closing: it is re-routed to the open queue
\* that replaced it, or refused.
THEOREM ProducersAreRerouted == Spec => ReroutedToOpen
<1>1. ASSUME IInv, [Next]_vars, NEW r \in Requests, pc[r] = "hooks", pc'[r] = "send"
      PROVE  pq'[r] # NoGen /\ ~closing[pq'[r]]
  <2>1. CheckClosing(r) /\ pc' = [pc EXCEPT ![r] = "send"]
    BY <1>1, SendSteps, Zenon
  <2>2. pq[r] \in Gens /\ pq[r] # NoGen /\ pq \in [Requests -> Gens \cup {NoGen}]
    BY <1>1, ConstantFacts, Zenon DEF IInv, Positions, TypeOK, CallTypes
  <2>3. /\ closing[pq[r]] => OpenReplacement(r)
        /\ pq' = [pq EXCEPT ![r] = IF closing[@] THEN current ELSE @]
    <3>1. ~Return(r, "refused")
      <4>1. Return(r, "refused") => pc'[r] = "done"
        BY <1>1, Zenon DEF Return, IInv, TypeOK, CallTypes
      <4> QED BY <1>1, <4>1, Zenon
    <3> QED BY <2>1, <3>1, Zenon DEF CheckClosing
  <2>4. pq'[r] = IF closing[pq[r]] THEN current ELSE pq[r]
    BY <2>2, <2>3, Zenon
  <2>5. CASE closing[pq[r]]
    BY <2>3, <2>4, <2>5, Zenon DEF OpenReplacement
  <2>6. CASE ~closing[pq[r]]
    BY <2>2, <2>4, <2>6, Zenon
  <2> QED BY <2>5, <2>6, Zenon
<1>2. IInv /\ [Next]_vars =>
        [\A r \in Requests :
            pc[r] = "hooks" /\ pc'[r] = "send" => pq'[r] # NoGen /\ ~closing[pq'[r]]]_vars
  BY <1>1, Zenon
<1> QED BY <1>2, Invariance, PTL DEF Spec, ReroutedToOpen
=============================================================================
